-------------------------- MODULE ClientSessionProofs --------------------------
(* Who owns the sockets of ClientSession, for any number of connections,      *)
(* managers, ids and handler threads.                                         *)
EXTENDS ClientSession, TLAPS

Messages == [type : Types, id : Ids, success : BOOLEAN]

\* A registration thread that handles an AUTHENTICATE, or has been given a
\* temporary id, has a valid id; a message that was read is one.
RegistrationInv ==
  \A c \in Conns :
    /\ first[c].type = "NONE" => first[c] = NoMessage
    /\ first[c].type = "AUTHENTICATE" => first[c].id \in Ids
    /\ reg[c] \in {"isTo", "addTo", "push"} => first[c].id \in Ids
    /\ reg[c] = "reject" => first[c].type # "NONE"
    /\ reg[c] \in {"store", "addFrom", "confirm", "unframed"} => tempID[c] \in Ids

\* A manager at work has one, and says goodbye for a LOGOUT only; a handler thread has
\* a client, and a socket while it reads.
ThreadInv ==
  /\ \A m \in Managers :
       /\ mgr[m] # "idle" => job[m] \in Works
       /\ mgr[m] \in {"bye", "byeAgain"} => job[m].type = "LOGOUT"
  /\ \A h \in Handlers :
       /\ hpc[h] # "free" => client[h] \in Ids
       /\ hpc[h] = "blocked" => reading[h] \in Conns

Registered(c) == \E i \in Ids : c \in {fromSocket[i], toSocket[i]}

\* Where a registration thread still has its socket to itself.
Fresh == {"read", "isFrom", "reject", "load", "store", "addFrom", "isTo", "addTo"}

\* A socket is opened with its thread, is nobody else's until it is registered, and is
\* in one entry at most.
OwnerInv ==
  /\ \A c \in Conns :
       /\ peer[c] = "none" => reg[c] = "unborn"
       /\ reg[c] = "unborn" => sock[c] = "none"
       /\ reg[c] \in Fresh => sock[c] = "open" /\ ~ Registered(c)
  /\ \A i, j \in Ids : \A c \in Conns :
       c \in {fromSocket[i], toSocket[i]} /\ c \in {fromSocket[j], toSocket[j]} => i = j

IInv ==
  /\ TypeOK /\ RegistrationInv /\ ThreadInv /\ OwnerInv /\ RegisteredAreOpen
  /\ OpenAreOwned

\* The server starts with no connection, no entry and every thread unborn.
LEMMA InitIInv == Init => IInv
<1> SUFFICES ASSUME Init PROVE IInv OBVIOUS
<1> USE ConstantsAssumption DEF Init, NoMessage
<1>1. TypeOK
  <2>1. /\ sock \in [Conns -> {"none", "open", "closed"}]
        /\ peer \in [Conns -> {"none", "open", "gone"}]
        /\ first \in [Conns -> [type : {"NONE", "CONNECT", "AUTHENTICATE", "OTHER"}, id : 0 .. MaxId]]
        /\ inbox \in [Conns -> Seq(RequestMessages)]
        /\ asked \in [Conns -> SUBSET RequestMessages]
        /\ received \in [Conns -> SUBSET [type : Types, id : Ids, success : BOOLEAN]]
    OBVIOUS
  <2>2. reg \in [Conns -> RegistrationPlaces] /\ mgr \in [Managers -> ManagerPlaces]
    BY DEF RegistrationPlaces, ManagerPlaces
  <2>3. hpc \in [Handlers -> HandlerPlaces] BY DEF HandlerPlaces
  <2>4. tempClientID \in 0 .. MaxId /\ tempID \in [Conns -> 0 .. MaxId]
    OBVIOUS
  <2>5. client \in [Handlers -> 0 .. MaxId] /\ reading \in [Handlers -> Conns \cup {NoConn}]
    OBVIOUS
  <2>6. /\ fromSocket \in [Ids -> Conns \cup {NoConn}]
        /\ toSocket \in [Ids -> Conns \cup {NoConn}]
        /\ mutexes \subseteq Ids /\ works \subseteq Works /\ started \subseteq Ids
        /\ job \in [Managers -> Works \cup {NoMessage}] /\ crashed \in BOOLEAN
    OBVIOUS
  <2> HIDE DEF Init, NoMessage
  <2> QED BY <2>1, <2>2, <2>3, <2>4, <2>5, <2>6 DEF TypeOK
<1>2. RegistrationInv BY DEF RegistrationInv
<1>3. ThreadInv BY DEF ThreadInv
<1>4. OwnerInv BY DEF OwnerInv, Registered, Fresh
<1>5. RegisteredAreOpen BY DEF RegisteredAreOpen
<1>6. OpenAreOwned BY DEF OpenAreOwned
<1> QED BY <1>1, <1>2, <1>3, <1>4, <1>5, <1>6 DEF IInv

\* A write only adds the message to what a client got.
LEMMA WriteTyped ==
  ASSUME TypeOK, NEW c \in Conns \cup {NoConn}, NEW msg \in Messages, NEW ok \in BOOLEAN,
         write(c, msg, ok)
  PROVE  received' \in [Conns -> SUBSET Messages]
BY ConstantsAssumption DEF TypeOK, write, Messages

\* Whatever becomes of a reply, the messages a client got stay messages.
LEMMA SendTyped ==
  ASSUME TypeOK, NEW i, NEW msg, i \in Ids => msg \in Messages, NEW ok \in BOOLEAN,
         sendMessageToClient(i, msg, ok) \/ sendConnectMessage(i, msg, ok)
  PROVE  received' \in [Conns -> SUBSET Messages]
<1>1. CASE i \in mutexes
  <2>1. i \in Ids /\ {toSocket[i], fromSocket[i]} \subseteq Conns \cup {NoConn}
    BY <1>1 DEF TypeOK
  <2>2. write(toSocket[i], msg, ok) \/ write(fromSocket[i], msg, ok)
    BY <1>1 DEF sendMessageToClient, sendConnectMessage
  <2> QED BY <2>1, <2>2, WriteTyped
<1>2. CASE i \notin mutexes
  BY <1>2, ConstantsAssumption DEF sendMessageToClient, sendConnectMessage, TypeOK, write,
                                   Messages
<1> QED BY <1>1, <1>2

\* A handler thread that moves to one of its places is at one of its places.
LEMMA MoveHandler ==
  ASSUME TypeOK, NEW h \in Handlers,
         UNCHANGED hpc \/ \E p \in HandlerPlaces : hpc' = [hpc EXCEPT ![h] = p]
  PROVE  hpc' \in [Handlers -> HandlerPlaces]
BY DEF TypeOK

\* Closing both sockets of an entry and erasing it disturbs no other entry.
LEMMA EraseKeeps ==
  ASSUME IInv, NEW i \in Ids, eraseEntry(i), UNCHANGED <<reg, peer>>
  PROVE  /\ sock' \in [Conns -> {"none", "open", "closed"}]
         /\ fromSocket' \in [Ids -> Conns \cup {NoConn}]
         /\ toSocket' \in [Ids -> Conns \cup {NoConn}]
         /\ mutexes' = mutexes
         /\ OwnerInv' /\ RegisteredAreOpen' /\ OpenAreOwned'
<1> USE ConstantsAssumption DEF IInv, eraseEntry
<1>1. /\ sock' \in [Conns -> {"none", "open", "closed"}]
      /\ fromSocket' \in [Ids -> Conns \cup {NoConn}]
      /\ toSocket' \in [Ids -> Conns \cup {NoConn}]
  BY DEF TypeOK
<1>2. \A c \in Conns : c \notin {fromSocket[i], toSocket[i]} => sock'[c] = sock[c]
  OBVIOUS
<1>3. \A j \in Ids : j # i => fromSocket'[j] = fromSocket[j] /\ toSocket'[j] = toSocket[j]
  BY DEF TypeOK
<1>4. fromSocket'[i] = NoConn /\ toSocket'[i] = NoConn BY DEF TypeOK
<1>5. \A c \in Conns : sock'[c] = "open" =>
        sock[c] = "open" /\ c \notin {fromSocket[i], toSocket[i]}
  OBVIOUS
<1>6. OwnerInv'
  <2>1. \A c \in Conns : Registered(c)' => Registered(c) BY <1>3, <1>4 DEF Registered
  <2>2. \A c \in Conns : ~ Registered(c) => sock'[c] = sock[c] BY <1>2 DEF Registered
  <2>3. \A c \in Conns : reg[c] = "unborn" => sock'[c] = "none"
    BY <1>2 DEF OwnerInv, RegisteredAreOpen
  <2>4. \A j, k \in Ids : \A c \in Conns :
          c \in {fromSocket'[j], toSocket'[j]} /\ c \in {fromSocket'[k], toSocket'[k]} => j = k
    BY <1>3, <1>4 DEF OwnerInv
  <2> QED BY <2>1, <2>2, <2>3, <2>4 DEF OwnerInv
<1>7. RegisteredAreOpen' BY <1>1, <1>2, <1>3, <1>4 DEF RegisteredAreOpen, OwnerInv, TypeOK
<1>8. OpenAreOwned' BY <1>3, <1>5 DEF OpenAreOwned
<1> QED BY <1>1, <1>6, <1>7, <1>8

\* A registration thread that ends closes its socket, unless it is in an entry.
LEMMA EndRegKeeps ==
  ASSUME IInv, NEW c \in Conns, reg[c] # "unborn", endReg(c),
         UNCHANGED <<peer, fromSocket, toSocket>>
  PROVE  /\ sock' \in [Conns -> {"none", "open", "closed"}]
         /\ reg' \in [Conns -> RegistrationPlaces]
         /\ OwnerInv' /\ RegisteredAreOpen' /\ OpenAreOwned'
<1> USE ConstantsAssumption DEF IInv
<1>1. /\ reg' = [reg EXCEPT ![c] = "done"]
      /\ sock' = [sock EXCEPT ![c] = IF Registered(c) THEN @ ELSE "closed"]
  BY DEF endReg, goReg, Registered
<1>2. sock' \in [Conns -> {"none", "open", "closed"}] BY <1>1 DEF TypeOK
<1>3. reg' \in [Conns -> RegistrationPlaces] BY <1>1 DEF TypeOK, RegistrationPlaces
<1>4. \A d \in Conns : Registered(d)' = Registered(d) BY DEF Registered
<1>5. OwnerInv' BY <1>1, <1>4 DEF TypeOK, OwnerInv, Fresh
<1>6. RegisteredAreOpen' BY <1>1 DEF TypeOK, RegisteredAreOpen, Registered
<1>7. OpenAreOwned' BY <1>1 DEF TypeOK, OpenAreOwned, Registered
<1> QED BY <1>2, <1>3, <1>5, <1>6, <1>7

\* A new connection is in no entry: its socket and its thread are born together.
LEMMA openKeeps == ASSUME IInv, NEW c \in Conns, open(c) PROVE IInv'
<1> USE ConstantsAssumption DEF IInv, open, vars, netVars, registryVars, regVars, mgrVars,
                                handlerVars
<1>0. /\ first' \in [Conns -> [type : {"NONE", "CONNECT", "AUTHENTICATE", "OTHER"}, id : 0 .. MaxId]]
      /\ peer' \in [Conns -> {"none", "open", "gone"}]
      /\ first'[c].type = "NONE" => first'[c] = NoMessage
      /\ first'[c].type = "AUTHENTICATE" => first'[c].id \in Ids
      /\ \A d \in Conns \ {c} : first'[d] = first[d]
  <2>1. PICK msg \in Openings :
          /\ first' = [first EXCEPT ![c] = msg]
          /\ peer' = [peer EXCEPT ![c] = IF msg = NoMessage THEN "gone" ELSE "open"]
    OBVIOUS
  <2>2. \/ msg = NoMessage
        \/ \E i \in 0 .. MaxId : msg = Connect(i) \/ msg = Other(i)
        \/ \E i \in Ids : msg = Authenticate(i)
    BY DEF Openings
  <2>3. /\ msg \in [type : {"NONE", "CONNECT", "AUTHENTICATE", "OTHER"}, id : 0 .. MaxId]
        /\ msg.type = "NONE" => msg = NoMessage
        /\ msg.type = "AUTHENTICATE" => msg.id \in Ids
    BY <2>2 DEF Connect, Authenticate, Other, NoMessage, Ids
  <2> QED BY <2>1, <2>3 DEF TypeOK
<1>1. TypeOK'
  <2>1. /\ sock' \in [Conns -> {"none", "open", "closed"}]
        /\ reg' \in [Conns -> RegistrationPlaces]
    BY DEF TypeOK, RegistrationPlaces
  <2> QED BY <1>0, <2>1 DEF TypeOK
<1>2. RegistrationInv' BY <1>0 DEF TypeOK, RegistrationInv
<1>3. OwnerInv' BY DEF TypeOK, OwnerInv, Registered, RegisteredAreOpen
<1>4. OpenAreOwned' BY DEF TypeOK, OpenAreOwned
<1>5. (ThreadInv /\ RegisteredAreOpen)'
  BY DEF ThreadInv, RegisteredAreOpen
<1> QED BY <1>1, <1>2, <1>3, <1>4, <1>5 DEF IInv

\* A request changes only what is on its way to the server.
LEMMA requestKeeps == ASSUME IInv, NEW c \in Conns, request(c) PROVE IInv'
<1> USE ConstantsAssumption DEF IInv, request, vars, netVars, registryVars, regVars,
                                mgrVars, handlerVars
<1>1. PICK r \in Requests, i \in Ids :
        /\ asked' = [asked EXCEPT ![c] = @ \cup {Request(r, i)}]
        /\ inbox' = [inbox EXCEPT ![c] = Append(@, Request(r, i))]
  BY DEF Names
<1>2. Request(r, i) \in RequestMessages BY DEF Request, RequestMessages
<1>3. /\ asked' \in [Conns -> SUBSET RequestMessages]
      /\ inbox' \in [Conns -> Seq(RequestMessages)]
  BY <1>1, <1>2 DEF TypeOK
<1>4. TypeOK' BY <1>3 DEF TypeOK
<1>5. (RegistrationInv /\ ThreadInv /\ OwnerInv /\ RegisteredAreOpen /\ OpenAreOwned)'
  BY DEF RegistrationInv, ThreadInv, OwnerInv, Registered, RegisteredAreOpen, OpenAreOwned
<1> QED BY <1>4, <1>5 DEF IInv

\* A client that leaves closes its own end only.
LEMMA leaveKeeps == ASSUME IInv, NEW c \in Conns, leave(c) PROVE IInv'
<1> USE ConstantsAssumption DEF IInv, leave, vars, netVars, registryVars, regVars,
                                mgrVars, handlerVars
<1>1. TypeOK' BY DEF TypeOK, RegistrationPlaces
<1>2. (RegistrationInv /\ ThreadInv /\ OwnerInv /\ RegisteredAreOpen /\ OpenAreOwned)'
  BY DEF RegistrationInv, ThreadInv, OwnerInv, Registered, RegisteredAreOpen, OpenAreOwned
<1> QED BY <1>1, <1>2 DEF IInv

\* The first read decides where a registration thread goes on, or ends it.
LEMMA readFirstKeeps == ASSUME IInv, NEW c \in Conns, readFirst(c) PROVE IInv'
<1> USE ConstantsAssumption DEF IInv, vars, netVars, registryVars, regVars, mgrVars,
                                handlerVars
<1>0. /\ reg[c] = "read"
      /\ UNCHANGED <<peer, first, inbox, asked, received, registryVars, tempClientID, tempID,
                     mgrVars, handlerVars, crashed>>
  BY DEF readFirst, regAt
<1>1. CASE endReg(c)
  <2>1. TypeOK' BY <1>0, <1>1, EndRegKeeps DEF TypeOK
  <2>2. RegistrationInv' /\ ThreadInv'
    BY <1>0, <1>1 DEF TypeOK, RegistrationInv, ThreadInv, endReg, goReg
  <2> QED BY <1>0, <1>1, <2>1, <2>2, EndRegKeeps
<1>2. ASSUME NEW p \in {"isFrom", "isTo", "reject"}, goReg(c, p), UNCHANGED sock,
             p = "isTo" => first[c].type = "AUTHENTICATE", first[c] # NoMessage
      PROVE  IInv'
  <2>1. reg' = [reg EXCEPT ![c] = p] BY <1>2 DEF goReg
  <2>2. TypeOK' BY <1>0, <1>2, <2>1 DEF TypeOK, RegistrationPlaces
  <2>3. RegistrationInv' BY <1>0, <1>2, <2>1 DEF TypeOK, RegistrationInv
  <2>4. ThreadInv' BY <1>0 DEF ThreadInv
  <2>5. OwnerInv' BY <1>0, <1>2, <2>1 DEF TypeOK, OwnerInv, Registered, Fresh
  <2>6. RegisteredAreOpen' BY <1>0, <1>2 DEF RegisteredAreOpen
  <2>7. OpenAreOwned' BY <1>0, <1>2, <2>1 DEF TypeOK, OpenAreOwned
  <2> QED BY <2>2, <2>3, <2>4, <2>5, <2>6, <2>7
<1>3. CASE first[c] = NoMessage BY <1>1, <1>3 DEF readFirst
<1>4. CASE first[c] # NoMessage
  <2>1. UNCHANGED sock BY <1>4 DEF readFirst
  <2>2. CASE first[c].type = "CONNECT"
    <3>1. goReg(c, "isFrom") BY <1>4, <2>2 DEF readFirst
    <3> QED BY <1>2, <1>4, <2>1, <2>2, <3>1
  <2>3. CASE first[c].type = "AUTHENTICATE"
    <3>1. goReg(c, "isTo") BY <1>4, <2>3 DEF readFirst
    <3> QED BY <1>2, <1>4, <2>1, <2>3, <3>1
  <2>4. CASE first[c].type \notin {"CONNECT", "AUTHENTICATE"}
    <3>1. goReg(c, "reject") BY <1>4, <2>4 DEF readFirst
    <3> QED BY <1>2, <1>4, <2>1, <2>4, <3>1
  <2> QED BY <2>2, <2>3, <2>4
<1> QED BY <1>3, <1>4

\* The check for a FROM socket changes only the thread's place.
LEMMA checkFromKeeps == ASSUME IInv, NEW c \in Conns, checkFrom(c) PROVE IInv'
<1> USE ConstantsAssumption DEF IInv, checkFrom, regAt, goReg, endReg, vars, netVars,
                                registryVars, regVars, mgrVars, handlerVars
<1>1. TypeOK' BY DEF TypeOK, RegistrationPlaces
<1>2. RegistrationInv' BY DEF RegistrationInv, NoMessage
<1>3. OwnerInv' BY DEF TypeOK, OwnerInv, Registered, Fresh
<1>4. (ThreadInv /\ RegisteredAreOpen /\ OpenAreOwned)'
  BY DEF ThreadInv, RegisteredAreOpen, OpenAreOwned
<1> QED BY <1>1, <1>2, <1>3, <1>4 DEF IInv

\* A rejected connection ends as EndRegKeeps says, after a reply to the id's holder.
LEMMA rejectKeeps == ASSUME IInv, NEW c \in Conns, reject(c) PROVE IInv'
<1> USE ConstantsAssumption DEF IInv, reject, regAt, goReg, endReg, vars, netVars,
                                registryVars, regVars, mgrVars, handlerVars
<1>0. received' \in [Conns -> SUBSET Messages]
  <2>1. PICK ok \in BOOLEAN :
          sendMessageToClient(first[c].id, Message(first[c].type, first[c].id, FALSE), ok)
    OBVIOUS
  <2>2. first[c].id \in Ids => Message(first[c].type, first[c].id, FALSE) \in Messages
    BY DEF Messages, Message, Types, TypeOK, RegistrationInv, ThreadInv, Works, Ids,
           Handlers, NoMessage
  <2>3. TypeOK OBVIOUS
  <2> HIDE DEF IInv, reject
  <2> QED BY <2>1, <2>2, <2>3, SendTyped
<1>1. TypeOK' BY <1>0 DEF Messages, TypeOK, RegistrationPlaces
<1>2. OwnerInv' BY DEF TypeOK, OwnerInv, Registered, Fresh
<1>3. OpenAreOwned' BY DEF TypeOK, OpenAreOwned
<1>4. (RegistrationInv /\ ThreadInv /\ RegisteredAreOpen)'
  BY DEF RegistrationInv, ThreadInv, RegisteredAreOpen
<1> QED BY <1>1, <1>2, <1>3, <1>4 DEF IInv

\* An id taken from _tempClientID, wrapped or not, is an id.
LEMMA loadTempIDKeeps == ASSUME IInv, NEW c \in Conns, loadTempID(c) PROVE IInv'
<1> USE ConstantsAssumption DEF IInv, loadTempID, regAt, goReg, endReg, vars, netVars,
                                registryVars, regVars, mgrVars, handlerVars
<1>1. TypeOK' BY DEF TypeOK, RegistrationPlaces
<1>2. RegistrationInv' BY DEF TypeOK, RegistrationInv, Ids
<1>3. OwnerInv' BY DEF TypeOK, OwnerInv, Registered, Fresh
<1>4. (ThreadInv /\ RegisteredAreOpen /\ OpenAreOwned)'
  BY DEF ThreadInv, RegisteredAreOpen, OpenAreOwned
<1> QED BY <1>1, <1>2, <1>3, <1>4 DEF IInv

\* Storing the decremented id touches no entry.
LEMMA storeTempIDKeeps == ASSUME IInv, NEW c \in Conns, storeTempID(c) PROVE IInv'
<1> USE ConstantsAssumption DEF IInv, storeTempID, regAt, goReg, endReg, vars, netVars,
                                registryVars, regVars, mgrVars, handlerVars
<1>1. TypeOK' BY DEF TypeOK, RegistrationPlaces
<1>2. OwnerInv' BY DEF TypeOK, OwnerInv, Registered, Fresh
<1>3. (RegistrationInv /\ ThreadInv /\ RegisteredAreOpen /\ OpenAreOwned)'
  BY DEF RegistrationInv, ThreadInv, RegisteredAreOpen, OpenAreOwned
<1> QED BY <1>1, <1>2, <1>3 DEF IInv

\* An empty FROM place is filled with a socket that is open and in no entry.
LEMMA addFromKeeps == ASSUME IInv, NEW c \in Conns, addFrom(c) PROVE IInv'
<1> USE ConstantsAssumption DEF IInv, addFrom, vars, netVars, registryVars, regVars,
                                mgrVars, handlerVars
<1>0. tempID[c] \in Ids /\ reg[c] = "addFrom" BY DEF RegistrationInv, regAt
<1>1. CASE endReg(c) /\ UNCHANGED registryVars
  <2>1. UNCHANGED <<peer, fromSocket, toSocket>> BY <1>1
  <2>2. TypeOK' BY <1>0, <1>1, <2>1, EndRegKeeps DEF TypeOK
  <2>3. RegistrationInv' /\ ThreadInv'
    BY <1>1 DEF TypeOK, RegistrationInv, ThreadInv, endReg, goReg
  <2> QED BY <1>0, <1>1, <2>1, <2>2, <2>3, EndRegKeeps
<1>2. CASE /\ addFromClientSocket(tempID[c], c) /\ ~ Present(tempID[c])
           /\ goReg(c, "confirm") /\ UNCHANGED sock
  <2> USE <1>0, <1>2 DEF addFromClientSocket, goReg, Present
  <2>1. reg' \in [Conns -> RegistrationPlaces] BY DEF TypeOK, RegistrationPlaces
  <2>2. fromSocket' \in [Ids -> Conns \cup {NoConn}] /\ mutexes' \subseteq Ids BY DEF TypeOK
  <2>3. TypeOK' BY <2>1, <2>2 DEF TypeOK
  <2>4. RegistrationInv' BY DEF TypeOK, RegistrationInv
  <2>5. ThreadInv' BY DEF ThreadInv
  <2>6. OwnerInv' BY DEF TypeOK, OwnerInv, Registered, Fresh
  <2>7. RegisteredAreOpen' BY DEF TypeOK, OwnerInv, Fresh, RegisteredAreOpen
  <2>8. OpenAreOwned' BY DEF TypeOK, OpenAreOwned
  <2> QED BY <2>3, <2>4, <2>5, <2>6, <2>7, <2>8
<1> QED BY <1>1, <1>2

\* After the CONNECT reply, sent or not, the socket stays where addFrom left it.
LEMMA confirmKeeps == ASSUME IInv, NEW c \in Conns, confirm(c) PROVE IInv'
<1> USE ConstantsAssumption DEF IInv, confirm, regAt, goReg, endReg, vars, netVars,
                                registryVars, regVars, mgrVars, handlerVars
<1>0. received' \in [Conns -> SUBSET Messages]
  <2>1. PICK ok \in BOOLEAN :
          sendConnectMessage(tempID[c], Message("CONNECT", tempID[c], TRUE), ok)
    OBVIOUS
  <2>2. tempID[c] \in Ids => Message("CONNECT", tempID[c], TRUE) \in Messages
    BY DEF Messages, Message, Types, TypeOK, RegistrationInv, ThreadInv, Works, Ids,
           Handlers, NoMessage
  <2>3. TypeOK OBVIOUS
  <2> HIDE DEF IInv, confirm
  <2> QED BY <2>1, <2>2, <2>3, SendTyped
<1>1. TypeOK'
  <2>1. CASE endReg(c) BY <1>0, <2>1, EndRegKeeps DEF TypeOK, Messages
  <2>2. CASE reg' = [reg EXCEPT ![c] = "unframed"] /\ UNCHANGED sock
    BY <1>0, <2>2 DEF TypeOK, Messages, RegistrationPlaces
  <2> QED BY <2>1, <2>2
<1>2. RegistrationInv' BY DEF TypeOK, RegistrationInv
<1>3. ThreadInv' BY DEF ThreadInv
<1>4. OwnerInv' BY DEF TypeOK, OwnerInv, Registered, Fresh
<1>5. RegisteredAreOpen' BY DEF TypeOK, OwnerInv, RegisteredAreOpen
<1>6. OpenAreOwned'
  <2>1. CASE endReg(c) BY <2>1, EndRegKeeps
  <2>2. CASE reg' = [reg EXCEPT ![c] = "unframed"] /\ UNCHANGED sock
    BY <2>2 DEF TypeOK, OpenAreOwned
  <2> QED BY <2>1, <2>2
<1> QED BY <1>1, <1>2, <1>3, <1>4, <1>5, <1>6 DEF IInv

\* The second failure of the catch block touches no entry.
LEMMA writeUnframedKeeps == ASSUME IInv, NEW c \in Conns, writeUnframed(c) PROVE IInv'
<1> USE ConstantsAssumption DEF IInv, writeUnframed, regAt, goReg, endReg, vars, netVars,
                                registryVars, regVars, mgrVars, handlerVars
<1>0. received' \in [Conns -> SUBSET Messages]
  <2>1. PICK ok \in BOOLEAN : write(c, Message("UNFRAMED", tempID[c], FALSE), ok)
    OBVIOUS
  <2>2. tempID[c] \in Ids => Message("UNFRAMED", tempID[c], FALSE) \in Messages
    BY DEF Messages, Message, Types, TypeOK, RegistrationInv, ThreadInv, Works, Ids,
           Handlers, NoMessage
  <2>3. tempID[c] \in Ids BY DEF RegistrationInv
  <2> QED BY <2>1, <2>2, <2>3, WriteTyped
<1>1. TypeOK' BY <1>0 DEF Messages, TypeOK, RegistrationPlaces
<1>2. OwnerInv' BY DEF TypeOK, OwnerInv, Registered, Fresh
<1>3. OpenAreOwned' BY DEF TypeOK, OpenAreOwned
<1>4. (RegistrationInv /\ ThreadInv /\ RegisteredAreOpen)'
  BY DEF RegistrationInv, ThreadInv, RegisteredAreOpen
<1> QED BY <1>1, <1>2, <1>3, <1>4 DEF IInv

\* The check for a TO socket changes only the thread's place.
LEMMA checkToKeeps == ASSUME IInv, NEW c \in Conns, checkTo(c) PROVE IInv'
<1> USE ConstantsAssumption DEF IInv, checkTo, regAt, goReg, endReg, vars, netVars,
                                registryVars, regVars, mgrVars, handlerVars
<1>1. TypeOK' BY DEF TypeOK, RegistrationPlaces
<1>2. OwnerInv' BY DEF TypeOK, OwnerInv, Registered, Fresh
<1>3. (RegistrationInv /\ ThreadInv /\ RegisteredAreOpen /\ OpenAreOwned)'
  BY DEF RegistrationInv, ThreadInv, RegisteredAreOpen, OpenAreOwned
<1> QED BY <1>1, <1>2, <1>3 DEF IInv

\* An empty TO place is filled with a socket that is open and in no entry.
LEMMA addToKeeps == ASSUME IInv, NEW c \in Conns, addTo(c) PROVE IInv'
<1> USE ConstantsAssumption DEF IInv, addTo, addToClientSocket, regAt, goReg, endReg,
                                vars, netVars, registryVars, regVars, mgrVars, handlerVars
<1>1. TypeOK' BY DEF TypeOK, RegistrationInv, RegistrationPlaces
<1>2. OwnerInv' BY DEF TypeOK, OwnerInv, Registered, Fresh
<1>3. RegisteredAreOpen' BY DEF OwnerInv, Fresh, RegisteredAreOpen
<1>4. (RegistrationInv /\ ThreadInv /\ OpenAreOwned)'
  BY DEF RegistrationInv, ThreadInv, OpenAreOwned
<1> QED BY <1>1, <1>2, <1>3, <1>4 DEF IInv

\* The work pushed to the user balancer names an id.
LEMMA pushAuthKeeps == ASSUME IInv, NEW c \in Conns, pushAuth(c) PROVE IInv'
<1> USE ConstantsAssumption DEF IInv, pushAuth, regAt, goReg, endReg, vars, netVars,
                                registryVars, regVars, mgrVars, handlerVars
<1>1. TypeOK' BY DEF TypeOK, RegistrationInv, Works, RegistrationPlaces
<1>2. OwnerInv' BY DEF TypeOK, OwnerInv, Registered, Fresh
<1>3. OpenAreOwned' BY DEF TypeOK, OpenAreOwned
<1>4. (RegistrationInv /\ ThreadInv /\ RegisteredAreOpen)'
  BY DEF RegistrationInv, ThreadInv, RegisteredAreOpen
<1> QED BY <1>1, <1>2, <1>3, <1>4 DEF IInv

\* A manager takes over the work of a registration or a handler thread.
LEMMA startJobKeeps == ASSUME IInv, NEW m \in Managers, startJob(m) PROVE IInv'
<1> USE ConstantsAssumption DEF IInv, startJob, mgrAt, goMgr, vars, netVars, registryVars,
                                regVars, mgrVars, handlerVars
<1>1. TypeOK'
  <2>1. PICK w \in works :
          /\ works' = works \ {w}
          /\ job' = [job EXCEPT ![m] = w]
          /\ goMgr(m, CASE w.type = "AUTHENTICATE" -> "checkTo"
                        [] w.type = "LOGOUT"       -> "bye"
                        [] OTHER                   -> "answer")
    OBVIOUS
  <2>2. job' \in [Managers -> Works \cup {NoMessage}] BY <2>1 DEF TypeOK
  <2>3. mgr' \in [Managers -> ManagerPlaces] BY <2>1 DEF TypeOK, ManagerPlaces
  <2> QED BY <2>1, <2>2, <2>3 DEF TypeOK
<1>2. ThreadInv' BY DEF TypeOK, ThreadInv
<1>3. (RegistrationInv /\ OwnerInv /\ RegisteredAreOpen /\ OpenAreOwned)'
  BY DEF RegistrationInv, OwnerInv, Registered, RegisteredAreOpen, OpenAreOwned
<1> QED BY <1>1, <1>2, <1>3 DEF IInv

\* authUser's check of the TO socket changes only the manager's place.
LEMMA authCheckToKeeps == ASSUME IInv, NEW m \in Managers, authCheckTo(m) PROVE IInv'
<1> USE ConstantsAssumption DEF IInv, authCheckTo, mgrAt, goMgr, vars, netVars,
                                registryVars, regVars, mgrVars, handlerVars
<1>1. TypeOK' BY DEF TypeOK, ManagerPlaces
<1>2. (RegistrationInv /\ ThreadInv /\ OwnerInv /\ RegisteredAreOpen /\ OpenAreOwned)'
  BY DEF RegistrationInv, ThreadInv, OwnerInv, Registered, RegisteredAreOpen, OpenAreOwned
<1> QED BY <1>1, <1>2 DEF IInv

\* authUser's check of the FROM socket changes only the manager's place.
LEMMA authCheckFromKeeps == ASSUME IInv, NEW m \in Managers, authCheckFrom(m) PROVE IInv'
<1> USE ConstantsAssumption DEF IInv, authCheckFrom, mgrAt, goMgr, vars, netVars,
                                registryVars, regVars, mgrVars, handlerVars
<1>1. TypeOK' BY DEF TypeOK, ManagerPlaces
<1>2. (RegistrationInv /\ ThreadInv /\ OwnerInv /\ RegisteredAreOpen /\ OpenAreOwned)'
  BY DEF RegistrationInv, ThreadInv, OwnerInv, Registered, RegisteredAreOpen, OpenAreOwned
<1> QED BY <1>1, <1>2 DEF IInv

\* Looking _clientHandlerStarted up changes only the manager's place.
LEMMA findStartedKeeps == ASSUME IInv, NEW m \in Managers, findStarted(m) PROVE IInv'
<1> USE ConstantsAssumption DEF IInv, findStarted, mgrAt, goMgr, vars, netVars,
                                registryVars, regVars, mgrVars, handlerVars
<1>1. TypeOK' BY DEF TypeOK, ManagerPlaces
<1>2. (RegistrationInv /\ ThreadInv /\ OwnerInv /\ RegisteredAreOpen /\ OpenAreOwned)'
  BY DEF RegistrationInv, ThreadInv, OwnerInv, Registered, RegisteredAreOpen, OpenAreOwned
<1> QED BY <1>1, <1>2 DEF IInv

\* A handler thread is born for the id of the manager's work.
LEMMA spawnHandlerKeeps == ASSUME IInv, NEW m \in Managers, spawnHandler(m) PROVE IInv'
<1> USE ConstantsAssumption DEF IInv, spawnHandler, mgrAt, goMgr, vars, netVars,
                                registryVars, regVars, mgrVars, handlerVars
<1>1. TypeOK'
  <2>1. job[m].id \in Ids /\ job[m].id \in 0 .. MaxId BY DEF ThreadInv, Works, Ids
  <2>2. hpc' \in [Handlers -> HandlerPlaces] /\ client' \in [Handlers -> 0 .. MaxId]
    BY <2>1 DEF TypeOK, HandlerPlaces
  <2>3. mgr' \in [Managers -> ManagerPlaces] BY DEF TypeOK, ManagerPlaces
  <2> QED BY <2>2, <2>3 DEF TypeOK
<1>2. ThreadInv' BY DEF TypeOK, ThreadInv, Works
<1>3. (RegistrationInv /\ OwnerInv /\ RegisteredAreOpen /\ OpenAreOwned)'
  BY DEF RegistrationInv, OwnerInv, Registered, RegisteredAreOpen, OpenAreOwned
<1> QED BY <1>1, <1>2, <1>3 DEF IInv

\* Marking the handler as started marks an id.
LEMMA markStartedKeeps == ASSUME IInv, NEW m \in Managers, markStarted(m) PROVE IInv'
<1> USE ConstantsAssumption DEF IInv, markStarted, mgrAt, goMgr, vars, netVars,
                                registryVars, regVars, mgrVars, handlerVars
<1>1. TypeOK'
  <2>1. started' \subseteq Ids BY DEF TypeOK, ThreadInv, Works
  <2>2. mgr' \in [Managers -> ManagerPlaces] BY DEF TypeOK, ManagerPlaces
  <2>3. UNCHANGED <<netVars, registryVars, regVars, works, job, handlerVars, crashed>> OBVIOUS
  <2> HIDE DEF markStarted
  <2> QED BY <2>1, <2>2, <2>3 DEF TypeOK
<1>2. (RegistrationInv /\ ThreadInv /\ OwnerInv /\ RegisteredAreOpen /\ OpenAreOwned)'
  BY DEF RegistrationInv, ThreadInv, OwnerInv, Registered, RegisteredAreOpen, OpenAreOwned
<1> QED BY <1>1, <1>2 DEF IInv

\* The answer to AUTHENTICATE touches no entry.
LEMMA welcomeKeeps == ASSUME IInv, NEW m \in Managers, welcome(m) PROVE IInv'
<1> USE ConstantsAssumption DEF IInv, welcome, mgrAt, goMgr, vars, netVars, registryVars,
                                regVars, mgrVars, handlerVars
<1>0. received' \in [Conns -> SUBSET Messages]
  <2>1. PICK ok \in BOOLEAN :
          sendMessageToClient(job[m].id, Message("AUTH_RESPONSE", job[m].id, TRUE), ok)
    OBVIOUS
  <2>2. job[m].id \in Ids => Message("AUTH_RESPONSE", job[m].id, TRUE) \in Messages
    BY DEF Messages, Message, Types, TypeOK, RegistrationInv, ThreadInv, Works, Ids,
           Handlers, NoMessage
  <2>3. TypeOK OBVIOUS
  <2> HIDE DEF IInv, welcome
  <2> QED BY <2>1, <2>2, <2>3, SendTyped
<1>1. TypeOK' BY <1>0 DEF Messages, TypeOK, ManagerPlaces
<1>2. (RegistrationInv /\ ThreadInv /\ OwnerInv /\ RegisteredAreOpen /\ OpenAreOwned)'
  BY DEF RegistrationInv, ThreadInv, OwnerInv, Registered, RegisteredAreOpen, OpenAreOwned
<1> QED BY <1>1, <1>2 DEF IInv

\* The answer to another request touches no entry.
LEMMA answerKeeps == ASSUME IInv, NEW m \in Managers, answer(m) PROVE IInv'
<1> USE ConstantsAssumption DEF IInv, answer, mgrAt, goMgr, vars, netVars, registryVars,
                                regVars, mgrVars, handlerVars
<1>0. received' \in [Conns -> SUBSET Messages]
  <2>1. PICK ok \in BOOLEAN :
          sendMessageToClient(job[m].id, Message(job[m].type, job[m].id, TRUE), ok)
    OBVIOUS
  <2>2. job[m].id \in Ids => Message(job[m].type, job[m].id, TRUE) \in Messages
    BY DEF Messages, Message, Types, TypeOK, RegistrationInv, ThreadInv, Works, Ids,
           Handlers, NoMessage
  <2>3. TypeOK OBVIOUS
  <2> HIDE DEF IInv, answer
  <2> QED BY <2>1, <2>2, <2>3, SendTyped
<1>1. TypeOK' BY <1>0 DEF Messages, TypeOK, ManagerPlaces
<1>2. (RegistrationInv /\ ThreadInv /\ OwnerInv /\ RegisteredAreOpen /\ OpenAreOwned)'
  BY DEF RegistrationInv, ThreadInv, OwnerInv, Registered, RegisteredAreOpen, OpenAreOwned
<1> QED BY <1>1, <1>2 DEF IInv

\* The failure of authUser touches no entry.
LEMMA refuseKeeps == ASSUME IInv, NEW m \in Managers, refuse(m) PROVE IInv'
<1> USE ConstantsAssumption DEF IInv, refuse, mgrAt, goMgr, vars, netVars, registryVars,
                                regVars, mgrVars, handlerVars
<1>0. received' \in [Conns -> SUBSET Messages]
  <2>1. PICK ok \in BOOLEAN :
          sendMessageToClient(job[m].id, Message("AUTH_RESPONSE", job[m].id, FALSE), ok)
    OBVIOUS
  <2>2. job[m].id \in Ids => Message("AUTH_RESPONSE", job[m].id, FALSE) \in Messages
    BY DEF Messages, Message, Types, TypeOK, RegistrationInv, ThreadInv, Works, Ids,
           Handlers, NoMessage
  <2>3. TypeOK OBVIOUS
  <2> HIDE DEF IInv, refuse
  <2> QED BY <2>1, <2>2, <2>3, SendTyped
<1>1. TypeOK' BY <1>0 DEF Messages, TypeOK, ManagerPlaces
<1>2. (RegistrationInv /\ ThreadInv /\ OwnerInv /\ RegisteredAreOpen /\ OpenAreOwned)'
  BY DEF RegistrationInv, ThreadInv, OwnerInv, Registered, RegisteredAreOpen, OpenAreOwned
<1> QED BY <1>1, <1>2 DEF IInv

\* The answer to LOGOUT touches no entry.
LEMMA byeKeeps == ASSUME IInv, NEW m \in Managers, bye(m) PROVE IInv'
<1> USE ConstantsAssumption DEF IInv, bye, mgrAt, goMgr, vars, netVars, registryVars,
                                regVars, mgrVars, handlerVars
<1>0. received' \in [Conns -> SUBSET Messages]
  <2>1. PICK ok \in BOOLEAN :
          sendMessageToClient(job[m].id, Message("LOGOUT", job[m].id, TRUE), ok)
    OBVIOUS
  <2>2. job[m].id \in Ids => Message("LOGOUT", job[m].id, TRUE) \in Messages
    BY DEF Messages, Message, Types, TypeOK, RegistrationInv, ThreadInv, Works, Ids,
           Handlers, NoMessage
  <2>3. TypeOK OBVIOUS
  <2> HIDE DEF IInv, bye
  <2> QED BY <2>1, <2>2, <2>3, SendTyped
<1>1. TypeOK' BY <1>0 DEF Messages, TypeOK, ManagerPlaces
<1>2. (RegistrationInv /\ ThreadInv /\ OwnerInv /\ RegisteredAreOpen /\ OpenAreOwned)'
  BY DEF RegistrationInv, ThreadInv, OwnerInv, Registered, RegisteredAreOpen, OpenAreOwned
<1> QED BY <1>1, <1>2 DEF IInv

\* The second answer of logoutUser touches no entry.
LEMMA byeAgainKeeps == ASSUME IInv, NEW m \in Managers, byeAgain(m) PROVE IInv'
<1> USE ConstantsAssumption DEF IInv, byeAgain, mgrAt, goMgr, vars, netVars, registryVars,
                                regVars, mgrVars, handlerVars
<1>0. received' \in [Conns -> SUBSET Messages]
  <2>1. PICK ok \in BOOLEAN :
          sendMessageToClient(job[m].id, Message("LOGOUT", job[m].id, FALSE), ok)
    OBVIOUS
  <2>2. job[m].id \in Ids => Message("LOGOUT", job[m].id, FALSE) \in Messages
    BY DEF Messages, Message, Types, TypeOK, RegistrationInv, ThreadInv, Works, Ids,
           Handlers, NoMessage
  <2>3. TypeOK OBVIOUS
  <2> HIDE DEF IInv, byeAgain
  <2> QED BY <2>1, <2>2, <2>3, SendTyped
<1>1. TypeOK' BY <1>0 DEF Messages, TypeOK, ManagerPlaces
<1>2. (RegistrationInv /\ ThreadInv /\ OwnerInv /\ RegisteredAreOpen /\ OpenAreOwned)'
  BY DEF RegistrationInv, ThreadInv, OwnerInv, Registered, RegisteredAreOpen, OpenAreOwned
<1> QED BY <1>1, <1>2 DEF IInv

\* A logout closes what it erases (EraseKeeps).
LEMMA mgrEraseEntryKeeps == ASSUME IInv, NEW m \in Managers, mgrEraseEntry(m) PROVE IInv'
<1> USE ConstantsAssumption DEF IInv, mgrEraseEntry, eraseEntry, afterRemove, mgrAt,
                                goMgr, vars, netVars, registryVars, regVars, mgrVars,
                                handlerVars
<1>0. job[m].id \in Ids BY DEF ThreadInv, Works
<1>1. TypeOK'
  <2>0. \E p \in ManagerPlaces : mgr' = [mgr EXCEPT ![m] = p] BY DEF ManagerPlaces
  <2>1. mgr' \in [Managers -> ManagerPlaces] BY <2>0 DEF TypeOK
  <2>2. CASE eraseEntry(job[m].id) BY <2>1, <2>2, EraseKeeps, <1>0 DEF TypeOK
  <2>3. CASE UNCHANGED <<sock, registryVars>> BY <2>1, <2>3 DEF TypeOK
  <2> QED BY <2>2, <2>3
<1>2. RegistrationInv' BY DEF RegistrationInv
<1>3. ThreadInv' BY DEF TypeOK, ThreadInv
<1>4. OwnerInv'
  <2>1. CASE eraseEntry(job[m].id) BY <2>1, EraseKeeps, <1>0
  <2>2. CASE UNCHANGED <<sock, registryVars>> BY <2>2 DEF OwnerInv, Registered
  <2> QED BY <2>1, <2>2
<1>5. RegisteredAreOpen'
  <2>1. CASE eraseEntry(job[m].id) BY <2>1, EraseKeeps, <1>0
  <2>2. CASE UNCHANGED <<sock, registryVars>> BY <2>2 DEF RegisteredAreOpen, Registered
  <2> QED BY <2>1, <2>2
<1>6. OpenAreOwned'
  <2>1. CASE eraseEntry(job[m].id) BY <2>1, EraseKeeps, <1>0
  <2>2. CASE UNCHANGED <<sock, registryVars>> BY <2>2 DEF OpenAreOwned, Registered
  <2> QED BY <2>1, <2>2
<1> QED BY <1>1, <1>2, <1>3, <1>4, <1>5, <1>6 DEF IInv

\* Erasing a mutex touches no entry.
LEMMA mgrEraseMutexKeeps == ASSUME IInv, NEW m \in Managers, mgrEraseMutex(m) PROVE IInv'
<1> USE ConstantsAssumption DEF IInv, mgrEraseMutex, removeClientSocketMutex, afterRemove,
                                mgrAt, goMgr, vars, netVars, registryVars, regVars,
                                mgrVars, handlerVars
<1>1. TypeOK' BY DEF TypeOK, ManagerPlaces
<1>2. (RegistrationInv /\ ThreadInv /\ OwnerInv /\ RegisteredAreOpen /\ OpenAreOwned)'
  BY DEF RegistrationInv, ThreadInv, OwnerInv, Registered, RegisteredAreOpen, OpenAreOwned
<1> QED BY <1>1, <1>2 DEF IInv

\* Unmarking the handler touches no entry.
LEMMA unmarkKeeps == ASSUME IInv, NEW m \in Managers, unmark(m) PROVE IInv'
<1> USE ConstantsAssumption DEF IInv, unmark, mgrAt, goMgr, vars, netVars, registryVars,
                                regVars, mgrVars, handlerVars
<1>1. TypeOK' BY DEF TypeOK, ManagerPlaces
<1>2. (RegistrationInv /\ ThreadInv /\ OwnerInv /\ RegisteredAreOpen /\ OpenAreOwned)'
  BY DEF RegistrationInv, ThreadInv, OwnerInv, Registered, RegisteredAreOpen, OpenAreOwned
<1> QED BY <1>1, <1>2 DEF IInv

\* A handler's lookup of the mutex changes only its place.
LEMMA findMutexKeeps == ASSUME IInv, NEW h \in Handlers, findMutex(h) PROVE IInv'
<1> USE ConstantsAssumption DEF IInv, findMutex, handlerAt, goHandler, vars, netVars,
                                registryVars, regVars, mgrVars, handlerVars
<1>1. TypeOK' BY DEF TypeOK, HandlerPlaces
<1>2. (RegistrationInv /\ ThreadInv /\ OwnerInv /\ RegisteredAreOpen /\ OpenAreOwned)'
  BY DEF RegistrationInv, ThreadInv, OwnerInv, Registered, RegisteredAreOpen, OpenAreOwned
<1> QED BY <1>1, <1>2 DEF IInv

\* A handler reads the address of a socket of its own id.
LEMMA readIPKeeps == ASSUME IInv, NEW h \in Handlers, readIP(h) PROVE IInv'
<1> USE ConstantsAssumption DEF IInv, readIP, handlerAt, goHandler, vars, netVars,
                                registryVars, regVars, mgrVars, handlerVars
<1>1. TypeOK'
  <2>1. crashed' \in BOOLEAN BY DEF TypeOK
  <2>2. UNCHANGED hpc \/ \E p \in HandlerPlaces : hpc' = [hpc EXCEPT ![h] = p]
    BY DEF HandlerPlaces
  <2>3. TypeOK OBVIOUS
  <2>4. hpc' \in [Handlers -> HandlerPlaces]
    <3> HIDE DEF IInv, readIP
    <3> QED BY <2>2, <2>3, MoveHandler
  <2> QED BY <2>1, <2>4 DEF TypeOK
<1>2. ThreadInv' BY DEF TypeOK, ThreadInv
<1>3. (RegistrationInv /\ OwnerInv /\ RegisteredAreOpen /\ OpenAreOwned)'
  BY DEF RegistrationInv, OwnerInv, Registered, RegisteredAreOpen, OpenAreOwned
<1> QED BY <1>1, <1>2, <1>3 DEF IInv

\* A handler reads a request of a connection.
LEMMA nextMessageKeeps == ASSUME IInv, NEW h \in Handlers, nextMessage(h) PROVE IInv'
<1> USE ConstantsAssumption DEF IInv, nextMessage, handlerAt, goHandler, vars, netVars,
                                registryVars, regVars, mgrVars, handlerVars
<1>0. /\ hpc' \in [Handlers -> HandlerPlaces] /\ reading' \in [Handlers -> Conns \cup {NoConn}]
      /\ hpc'[h] = "blocked" => reading'[h] \in Conns
  <2>1. client[h] \in Ids /\ TypeOK BY DEF ThreadInv
  <2>2. \/ /\ isFromClientSocketRegistered(client[h])
           /\ reading' = [reading EXCEPT ![h] = fromSocket[client[h]]]
           /\ hpc' = [hpc EXCEPT ![h] = "blocked"]
        \/ UNCHANGED reading /\ hpc' = [hpc EXCEPT ![h] = "remove"]
    OBVIOUS
  <2> HIDE DEF IInv, nextMessage
  <2>3. hpc' \in [Handlers -> HandlerPlaces] BY <2>1, <2>2, MoveHandler DEF HandlerPlaces
  <2>4. isFromClientSocketRegistered(client[h]) => fromSocket[client[h]] \in Conns
    BY <2>1 DEF TypeOK, isFromClientSocketRegistered
  <2> QED BY <2>1, <2>2, <2>3, <2>4 DEF TypeOK
<1>1. TypeOK'
  <2>1. UNCHANGED <<netVars, registryVars, regVars, mgrVars, client, crashed>> OBVIOUS
  <2> HIDE DEF nextMessage
  <2> QED BY <1>0, <2>1 DEF TypeOK
<1>2. ThreadInv' BY <1>0 DEF TypeOK, ThreadInv
<1>3. (RegistrationInv /\ OwnerInv /\ RegisteredAreOpen /\ OpenAreOwned)'
  BY DEF RegistrationInv, OwnerInv, Registered, RegisteredAreOpen, OpenAreOwned
<1> QED BY <1>1, <1>2, <1>3 DEF IInv

\* A routed request is a work.
LEMMA routeKeeps == ASSUME IInv, NEW h \in Handlers, route(h) PROVE IInv'
<1> USE ConstantsAssumption DEF IInv, route, handlerAt, goHandler, vars, netVars,
                                registryVars, regVars, mgrVars, handlerVars
<1> DEFINE c == reading[h]
           msg == Head(inbox[c])
           w == [type |-> msg.type, id |-> msg.id, conn |-> c]
<1>0. /\ c \in Conns /\ inbox[c] \in Seq(RequestMessages) /\ inbox[c] # << >>
      /\ works' = works \cup {w} /\ inbox' = [inbox EXCEPT ![c] = Tail(@)]
  BY DEF ThreadInv, TypeOK
<1>a. msg \in RequestMessages /\ Tail(inbox[c]) \in Seq(RequestMessages) BY <1>0
<1>b. w \in Works BY <1>0, <1>a DEF RequestMessages, Works
<1>c. /\ works' \subseteq Works
      /\ inbox' \in [Conns -> Seq(RequestMessages)]
      /\ hpc' \in [Handlers -> HandlerPlaces]
  BY <1>0, <1>a, <1>b DEF TypeOK, HandlerPlaces
<1>1. TypeOK' BY <1>c DEF TypeOK
<1>2. (RegistrationInv /\ ThreadInv /\ OwnerInv /\ RegisteredAreOpen /\ OpenAreOwned)'
  BY DEF RegistrationInv, ThreadInv, OwnerInv, Registered, RegisteredAreOpen, OpenAreOwned
<1> QED BY <1>1, <1>2 DEF IInv

\* A handler that sees the end of the stream goes on to clean up.
LEMMA endOfStreamKeeps == ASSUME IInv, NEW h \in Handlers, endOfStream(h) PROVE IInv'
<1> USE ConstantsAssumption DEF IInv, endOfStream, handlerAt, goHandler, vars, netVars,
                                registryVars, regVars, mgrVars, handlerVars
<1>1. TypeOK' BY DEF TypeOK, HandlerPlaces
<1>2. ThreadInv' BY DEF TypeOK, ThreadInv, HandlerPlaces
<1>3. (RegistrationInv /\ OwnerInv /\ RegisteredAreOpen /\ OpenAreOwned)'
  BY DEF RegistrationInv, OwnerInv, Registered, RegisteredAreOpen, OpenAreOwned
<1> QED BY <1>1, <1>2, <1>3 DEF IInv

\* So does one whose read was aborted.
LEMMA readAbortedKeeps == ASSUME IInv, NEW h \in Handlers, readAborted(h) PROVE IInv'
<1> USE ConstantsAssumption DEF IInv, readAborted, handlerAt, goHandler, vars, netVars,
                                registryVars, regVars, mgrVars, handlerVars
<1>1. TypeOK' BY DEF TypeOK, HandlerPlaces
<1>2. (RegistrationInv /\ ThreadInv /\ OwnerInv /\ RegisteredAreOpen /\ OpenAreOwned)'
  BY DEF RegistrationInv, ThreadInv, OwnerInv, Registered, RegisteredAreOpen, OpenAreOwned
<1> QED BY <1>1, <1>2 DEF IInv

\* The clean-up closes what it erases (EraseKeeps).
LEMMA handlerEraseEntryKeeps ==
  ASSUME IInv, NEW h \in Handlers, handlerEraseEntry(h)
  PROVE  IInv'
<1> USE ConstantsAssumption DEF IInv, handlerEraseEntry, eraseEntry, handlerAt, goHandler,
                                vars, netVars, registryVars, regVars, mgrVars, handlerVars
<1>0. client[h] \in Ids BY DEF ThreadInv, Works
<1>1. TypeOK'
  <2>1. hpc' \in [Handlers -> HandlerPlaces]
    <3>1. \E p \in HandlerPlaces : hpc' = [hpc EXCEPT ![h] = p] BY DEF HandlerPlaces
    <3>2. TypeOK OBVIOUS
    <3> HIDE DEF IInv, handlerEraseEntry
    <3> QED BY <3>1, <3>2, MoveHandler
  <2>2. CASE eraseEntry(client[h]) BY <2>1, <2>2, EraseKeeps, <1>0 DEF TypeOK
  <2>3. CASE UNCHANGED <<sock, registryVars>> BY <2>1, <2>3 DEF TypeOK
  <2> QED BY <2>2, <2>3
<1>2. RegistrationInv' BY DEF RegistrationInv
<1>3. ThreadInv' BY DEF TypeOK, ThreadInv
<1>4. OwnerInv'
  <2>1. CASE eraseEntry(client[h]) BY <2>1, EraseKeeps, <1>0
  <2>2. CASE UNCHANGED <<sock, registryVars>> BY <2>2 DEF OwnerInv, Registered
  <2> QED BY <2>1, <2>2
<1>5. RegisteredAreOpen'
  <2>1. CASE eraseEntry(client[h]) BY <2>1, EraseKeeps, <1>0
  <2>2. CASE UNCHANGED <<sock, registryVars>> BY <2>2 DEF RegisteredAreOpen, Registered
  <2> QED BY <2>1, <2>2
<1>6. OpenAreOwned'
  <2>1. CASE eraseEntry(client[h]) BY <2>1, EraseKeeps, <1>0
  <2>2. CASE UNCHANGED <<sock, registryVars>> BY <2>2 DEF OpenAreOwned, Registered
  <2> QED BY <2>1, <2>2
<1> QED BY <1>1, <1>2, <1>3, <1>4, <1>5, <1>6 DEF IInv

\* Erasing the mutex ends the handler and touches no entry.
LEMMA handlerEraseMutexKeeps ==
  ASSUME IInv, NEW h \in Handlers, handlerEraseMutex(h)
  PROVE  IInv'
<1> USE ConstantsAssumption DEF IInv, handlerEraseMutex, removeClientSocketMutex,
                                handlerAt, goHandler, vars, netVars, registryVars,
                                regVars, mgrVars, handlerVars
<1>1. TypeOK' BY DEF TypeOK, HandlerPlaces
<1>2. (RegistrationInv /\ ThreadInv /\ OwnerInv /\ RegisteredAreOpen /\ OpenAreOwned)'
  BY DEF RegistrationInv, ThreadInv, OwnerInv, Registered, RegisteredAreOpen, OpenAreOwned
<1> QED BY <1>1, <1>2 DEF IInv

\* A step that changes nothing keeps everything.
LEMMA StutterKeeps == IInv /\ UNCHANGED vars => IInv'
BY DEF IInv, TypeOK, RegistrationInv, ThreadInv, OwnerInv, RegisteredAreOpen, OpenAreOwned,
       Registered, vars, netVars, registryVars, regVars, mgrVars, handlerVars

\* Every step keeps the inductive invariant.
LEMMA NextKeeps == IInv /\ Next => IInv'
<1> SUFFICES ASSUME IInv, Next PROVE IInv' OBVIOUS
<1>1. ASSUME NEW c \in Conns, open(c) \/ request(c) \/ leave(c) PROVE IInv'
  BY <1>1, openKeeps, requestKeeps, leaveKeeps
<1>2. ASSUME NEW c \in Conns, registerClient(c) PROVE IInv'
  BY <1>2, readFirstKeeps, checkFromKeeps, rejectKeeps, loadTempIDKeeps, storeTempIDKeeps,
     addFromKeeps, confirmKeeps, writeUnframedKeeps, checkToKeeps, addToKeeps,
     pushAuthKeeps DEF registerClient
<1>3. ASSUME NEW m \in Managers, processWork(m) PROVE IInv'
  BY <1>3, startJobKeeps, authCheckToKeeps, authCheckFromKeeps, findStartedKeeps,
     spawnHandlerKeeps, markStartedKeeps, welcomeKeeps, answerKeeps, refuseKeeps,
     byeKeeps, byeAgainKeeps, mgrEraseEntryKeeps, mgrEraseMutexKeeps, unmarkKeeps
  DEF processWork, authUser, logoutUser
<1>4. ASSUME NEW h \in Handlers, handleClient(h) \/ readAborted(h) PROVE IInv'
  BY <1>4, findMutexKeeps, readIPKeeps, nextMessageKeeps, routeKeeps, endOfStreamKeeps,
     readAbortedKeeps, handlerEraseEntryKeeps, handlerEraseMutexKeeps DEF handleClient
<1>5. CASE terminated BY <1>5, StutterKeeps DEF terminated
<1> QED BY <1>1, <1>2, <1>3, <1>4, <1>5 DEF Next

\* The inductive invariant holds in every reachable state.
THEOREM Invariance == Spec => []IInv
<1>1. IInv /\ [Next]_vars => IInv' BY NextKeeps, StutterKeeps
<1> QED BY InitIInv, <1>1, PTL DEF Spec

\* The steps that write an entry: two that fill an empty place, two that erase.
LEMMA RegistrationKeepsSockets ==
  ASSUME IInv, NEW c \in Conns, registerClient(c) PROVE SocketsAreKept
<1> USE ConstantsAssumption DEF vars, netVars, registryVars, regVars, mgrVars, handlerVars
<1>1. CASE addFrom(c)
  BY <1>1 DEF addFrom, regAt, addFromClientSocket, IInv, TypeOK, RegistrationInv, Present,
              SocketsAreKept
<1>2. CASE addTo(c)
  BY <1>2 DEF addTo, regAt, addToClientSocket, IInv, TypeOK, RegistrationInv, SocketsAreKept
<1>3. CASE readFirst(c) \/ checkFrom(c) \/ reject(c) \/ loadTempID(c) \/ storeTempID(c)
  BY <1>3 DEF readFirst, checkFrom, reject, loadTempID, storeTempID, SocketsAreKept
<1>4. CASE confirm(c) \/ writeUnframed(c) \/ checkTo(c) \/ pushAuth(c)
  BY <1>4 DEF confirm, writeUnframed, checkTo, pushAuth, SocketsAreKept
<1> QED BY <1>1, <1>2, <1>3, <1>4 DEF registerClient

\* Erasing an entry empties its places and fills none.
LEMMA EraseKeepsSockets ==
  ASSUME IInv, NEW i \in Ids, eraseEntry(i) PROVE SocketsAreKept
BY DEF IInv, TypeOK, eraseEntry, SocketsAreKept

\* A manager's steps never fill a place.
LEMMA ManagerKeepsSockets ==
  ASSUME IInv, NEW m \in Managers, processWork(m) PROVE SocketsAreKept
<1> USE DEF vars, netVars, registryVars, regVars, mgrVars, handlerVars
<1>1. CASE mgrEraseEntry(m)
  <2>1. job[m].id \in Ids BY <1>1 DEF IInv, ThreadInv, Works, mgrEraseEntry, mgrAt
  <2>2. CASE eraseEntry(job[m].id) BY <2>1, <2>2, EraseKeepsSockets
  <2>3. CASE UNCHANGED registryVars BY <2>3 DEF SocketsAreKept
  <2> QED BY <1>1, <2>2, <2>3 DEF mgrEraseEntry
<1>2. CASE startJob(m) \/ authUser(m)
  BY <1>2 DEF startJob, authUser, authCheckTo, authCheckFrom, findStarted, spawnHandler,
              markStarted, welcome, refuse, SocketsAreKept
<1>3. CASE logoutUser(m) \/ answer(m) \/ mgrEraseMutex(m)
  BY <1>3 DEF logoutUser, bye, byeAgain, unmark, answer, mgrEraseMutex,
              removeClientSocketMutex, SocketsAreKept
<1> QED BY <1>1, <1>2, <1>3 DEF processWork

\* A handler's steps never fill a place.
LEMMA HandlerKeepsSockets ==
  ASSUME IInv, NEW h \in Handlers, handleClient(h) \/ readAborted(h) PROVE SocketsAreKept
<1> USE DEF vars, netVars, registryVars, regVars, mgrVars, handlerVars
<1>1. CASE handlerEraseEntry(h)
  <2>1. client[h] \in Ids BY <1>1 DEF IInv, ThreadInv, handlerEraseEntry, handlerAt
  <2>2. CASE eraseEntry(client[h]) BY <2>1, <2>2, EraseKeepsSockets
  <2>3. CASE UNCHANGED registryVars BY <2>3 DEF SocketsAreKept
  <2> QED BY <1>1, <2>2, <2>3 DEF handlerEraseEntry
<1>2. CASE findMutex(h) \/ readIP(h) \/ nextMessage(h) \/ route(h)
  BY <1>2 DEF findMutex, readIP, nextMessage, route, SocketsAreKept
<1>3. CASE endOfStream(h) \/ readAborted(h) \/ handlerEraseMutex(h)
  BY <1>3 DEF endOfStream, readAborted, handlerEraseMutex, removeClientSocketMutex,
              SocketsAreKept
<1> QED BY <1>1, <1>2, <1>3 DEF handleClient

\* No step puts another connection into a place that is taken.
LEMMA NextKeepsSockets == IInv /\ [Next]_vars => [SocketsAreKept]_vars
<1> SUFFICES ASSUME IInv, Next PROVE SocketsAreKept OBVIOUS
<1>1. ASSUME NEW c \in Conns, open(c) \/ request(c) \/ leave(c) PROVE SocketsAreKept
  BY <1>1 DEF open, request, leave, SocketsAreKept, vars, netVars, registryVars, regVars,
              mgrVars, handlerVars
<1>2. CASE terminated
  BY <1>2 DEF terminated, SocketsAreKept, vars, netVars, registryVars, regVars, mgrVars,
              handlerVars
<1> QED
  BY <1>1, <1>2, RegistrationKeepsSockets, ManagerKeepsSockets, HandlerKeepsSockets DEF Next

\* The types hold, for any number of connections, managers, ids and handlers.
THEOREM TypeOKAlways == Spec => []TypeOK
<1>1. IInv => TypeOK BY DEF IInv
<1> QED BY <1>1, Invariance, PTL

\* No thread is ever given a socket that was closed (Server.cpp:505-524).
THEOREM RegisteredAreOpenAlways == Spec => []RegisteredAreOpen
<1>1. IInv => RegisteredAreOpen BY DEF IInv
<1> QED BY <1>1, Invariance, PTL

\* No socket leaks: an open one is in the registry or with its thread.
THEOREM OpenAreOwnedAlways == Spec => []OpenAreOwned
<1>1. IInv => OpenAreOwned BY DEF IInv
<1> QED BY <1>1, Invariance, PTL

\* No connection takes over the place of another, although an id may be given to two
\* (Server.cpp:191, Server.hpp:33) and authenticated twice.
THEOREM SocketsAreNotReplacedAlways == Spec => SocketsAreNotReplaced
<1> QED BY Invariance, NextKeepsSockets, PTL DEF Spec, SocketsAreNotReplaced
=============================================================================
