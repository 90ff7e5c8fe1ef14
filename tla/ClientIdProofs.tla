---------------------------- MODULE ClientIdProofs ----------------------------
(***************************************************************************)
(* Whose messages a client of ClientSession gets, that of the connections    *)
(* that share a temporary id one is open, and how far the ids go, for any     *)
(* number of connections, managers and handler threads.                       *)
(***************************************************************************)
EXTENDS ClientSessionProofs, FiniteSetTheorems

\* A connection is opened with its first message, which decides where its thread
\* goes, and has no temporary id before it loads one.
FirstInv ==
  \A c \in Conns :
    /\ peer[c] = "none" => first[c] = NoMessage
    /\ first[c].type \in {"CONNECT", "OTHER"} => first[c].id \in Claims
    /\ tempID[c] # 0 => first[c].type = "CONNECT"
    /\ reg[c] \in {"unborn", "read", "isFrom", "load"} => tempID[c] = 0
    /\ reg[c] \in {"isFrom", "load", "store", "addFrom", "confirm", "unframed"}
         => first[c].type = "CONNECT"
    /\ reg[c] \in {"isTo", "addTo", "push"} => first[c].type = "AUTHENTICATE"

\* The registry holds a connection only under the id it was given or has
\* authenticated.
EntryInv ==
  \A i \in Ids :
    /\ fromSocket[i] # NoConn => tempID[fromSocket[i]] = i
    /\ toSocket[i] # NoConn => first[toSocket[i]] = Authenticate(i)

AddressInv == FirstInv /\ EntryInv

ReplyInv == IInv /\ AddressInv /\ RepliesAreAddressed

-----------------------------------------------------------------------------
(* Where the sockets come from.                                            *)

\* The steps of the client and the registration threads that fill AddressInv.
LEMMA AddressOpen == ASSUME IInv, AddressInv, NEW c \in Conns, open(c) PROVE AddressInv'
<1> USE ConstantsAssumption DEF IInv
<1>1. /\ peer[c] = "none" /\ peer' = [peer EXCEPT ![c] = peer'[c]] /\ peer'[c] # "none"
      /\ reg' = [reg EXCEPT ![c] = "read"]
      /\ UNCHANGED <<fromSocket, toSocket, tempID>>
  BY DEF open, TypeOK, registryVars, vars
<1>2. PICK msg \in Openings : first' = [first EXCEPT ![c] = msg] BY DEF open
<1>3. msg.type \in {"CONNECT", "OTHER"} => msg.id \in Claims
  BY <1>2 DEF Openings, Connect, Other, Authenticate, NoMessage
<1>4. reg[c] = "unborn" /\ sock[c] = "none" /\ tempID[c] = 0
  BY <1>1 DEF OwnerInv, AddressInv, FirstInv, EntryInv
<1>5. ~ Registered(c) BY <1>4 DEF RegisteredAreOpen, Registered
<1>6. \A d \in Conns \ {c} : /\ peer'[d] = peer[d] /\ first'[d] = first[d]
                             /\ reg'[d] = reg[d]
  BY <1>1, <1>2 DEF TypeOK
<1>7. /\ first'[c].type \in {"CONNECT", "OTHER"} => first'[c].id \in Claims
      /\ reg'[c] = "read" /\ tempID'[c] = 0
  BY <1>1, <1>2, <1>3, <1>4 DEF TypeOK
<1>8. \A i \in Ids : fromSocket[i] # c /\ toSocket[i] # c BY <1>5 DEF Registered
<1>9. \A i \in Ids : fromSocket[i] \in Conns \cup {NoConn} /\ toSocket[i] \in Conns \cup {NoConn}
  BY DEF TypeOK
<1> QED BY <1>1, <1>6, <1>7, <1>8, <1>9 DEF AddressInv, FirstInv, EntryInv

\* The registration steps keep what is said of addresses.
LEMMA AddressRegister ==
  ASSUME IInv, AddressInv, NEW c \in Conns, registerClient(c) PROVE AddressInv'
<1> USE ConstantsAssumption DEF IInv, regAt, goReg, endReg, vars, netVars, registryVars
<1>0. UNCHANGED <<peer, first>>
  BY DEF registerClient, readFirst, checkFrom, reject, loadTempID, storeTempID, addFrom,
         confirm, writeUnframed, checkTo, addTo, pushAuth
<1>1. CASE readFirst(c)
  BY <1>0, <1>1 DEF readFirst, TypeOK, AddressInv, FirstInv, EntryInv
<1>2. CASE checkFrom(c)
  BY <1>0, <1>2 DEF checkFrom, TypeOK, AddressInv, FirstInv, EntryInv
<1>3. CASE reject(c)
  BY <1>0, <1>3 DEF reject, TypeOK, AddressInv, FirstInv, EntryInv
<1>4. CASE loadTempID(c)
  <2>1. /\ reg[c] = "load" /\ reg' = [reg EXCEPT ![c] = "store"]
        /\ tempID' = [tempID EXCEPT ![c] = (tempClientID % MaxId) + 1]
        /\ UNCHANGED <<fromSocket, toSocket>>
    BY <1>4 DEF loadTempID
  <2>2. first[c].type = "CONNECT" BY <2>1 DEF AddressInv, FirstInv, EntryInv
  <2>3. \A i \in Ids : fromSocket[i] # c
    BY <2>1 DEF OwnerInv, Fresh, Registered
  <2> QED BY <1>0, <2>1, <2>2, <2>3 DEF TypeOK, AddressInv, FirstInv, EntryInv
<1>5. CASE storeTempID(c)
  BY <1>0, <1>5 DEF storeTempID, TypeOK, AddressInv, FirstInv, EntryInv
<1>6. CASE addFrom(c)
  <2>1. tempID[c] \in Ids BY <1>6 DEF addFrom, RegistrationInv
  <2>2. CASE Present(tempID[c])
    BY <1>0, <1>6, <2>2 DEF addFrom, TypeOK, AddressInv, FirstInv, EntryInv
  <2>3. CASE ~ Present(tempID[c])
    <3>1. /\ reg[c] = "addFrom" /\ reg' = [reg EXCEPT ![c] = "confirm"]
          /\ fromSocket' = [fromSocket EXCEPT ![tempID[c]] = c]
          /\ UNCHANGED <<toSocket, tempID>>
      BY <1>6, <2>3 DEF addFrom, addFromClientSocket
    <3>2. FirstInv' BY <1>0, <3>1 DEF AddressInv, FirstInv, TypeOK
    <3>3. EntryInv' BY <1>0, <2>1, <3>1 DEF AddressInv, EntryInv, TypeOK
    <3> QED BY <3>2, <3>3 DEF AddressInv
  <2> QED BY <2>2, <2>3
<1>7. CASE confirm(c)
  BY <1>0, <1>7 DEF confirm, TypeOK, AddressInv, FirstInv, EntryInv
<1>8. CASE writeUnframed(c)
  BY <1>0, <1>8 DEF writeUnframed, TypeOK, AddressInv, FirstInv, EntryInv
<1>9. CASE checkTo(c)
  BY <1>0, <1>9 DEF checkTo, TypeOK, AddressInv, FirstInv, EntryInv
<1>10. CASE addTo(c)
  <2>1. /\ first[c].type = "AUTHENTICATE" /\ first[c].id \in Ids
        /\ first[c] \in [type : {"NONE", "CONNECT", "AUTHENTICATE", "OTHER"}, id : 0 .. MaxId]
    BY <1>10 DEF addTo, RegistrationInv, AddressInv, FirstInv, TypeOK
  <2>2. first[c] = Authenticate(first[c].id) BY <2>1 DEF Authenticate
  <2>3. /\ reg[c] = "addTo" /\ reg' = [reg EXCEPT ![c] = "push"]
        /\ UNCHANGED <<fromSocket, tempID>>
        /\ toSocket' = [toSocket EXCEPT ![first[c].id] = IF @ = NoConn THEN c ELSE @]
    BY <1>10 DEF addTo, addToClientSocket
  <2>4. \A i \in Ids : toSocket'[i] = toSocket[i] \/ (toSocket'[i] = c /\ i = first[c].id)
    BY <2>3 DEF TypeOK
  <2>5. FirstInv'
    <3>1. reg \in [Conns -> RegistrationPlaces] BY DEF TypeOK
    <3> QED BY <1>0, <2>1, <2>3, <3>1 DEF AddressInv, FirstInv
  <2>6. EntryInv' BY <1>0, <2>2, <2>3, <2>4 DEF AddressInv, EntryInv
  <2> QED BY <2>5, <2>6 DEF AddressInv
<1>11. CASE pushAuth(c)
  BY <1>0, <1>11 DEF pushAuth, TypeOK, AddressInv, FirstInv, EntryInv
<1> QED BY <1>1, <1>2, <1>3, <1>4, <1>5, <1>6, <1>7, <1>8, <1>9, <1>10, <1>11
        DEF registerClient

\* Of the sockets and the registry, managers and handlers erase an entry or change
\* nothing, and clients change nothing after they have connected.
LEMMA OthersErase ==
  ASSUME IInv,
         \/ \E c \in Conns : request(c) \/ leave(c)
         \/ \E m \in Managers : processWork(m)
         \/ \E h \in Handlers : handleClient(h) \/ readAborted(h)
         \/ UNCHANGED vars
  PROVE  UNCHANGED <<sock, fromSocket, toSocket>> \/ \E i \in Ids : eraseEntry(i)
<1> USE DEF vars, netVars, registryVars, regVars, mgrVars, handlerVars
<1>1. ASSUME NEW m \in Managers, processWork(m)
      PROVE  UNCHANGED <<sock, fromSocket, toSocket>> \/ \E i \in Ids : eraseEntry(i)
  <2>1. mgrEraseEntry(m) => job[m].id \in Ids
    BY DEF IInv, ThreadInv, Works, mgrEraseEntry, mgrAt
  <2> QED BY <1>1, <2>1 DEF processWork, startJob, authUser, authCheckTo, authCheckFrom,
       findStarted, spawnHandler, markStarted, welcome, refuse, logoutUser, bye,
       byeAgain, unmark, answer, mgrEraseEntry, mgrEraseMutex, removeClientSocketMutex
<1>2. ASSUME NEW h \in Handlers, handleClient(h) \/ readAborted(h)
      PROVE  UNCHANGED <<sock, fromSocket, toSocket>> \/ \E i \in Ids : eraseEntry(i)
  <2>1. handlerEraseEntry(h) => client[h] \in Ids
    BY DEF IInv, ThreadInv, handlerEraseEntry, handlerAt
  <2> QED BY <1>2, <2>1 DEF handleClient, readAborted, findMutex, readIP, nextMessage,
       route, endOfStream, handlerEraseEntry, handlerEraseMutex, removeClientSocketMutex
<1>3. ASSUME NEW c \in Conns, request(c) \/ leave(c)
      PROVE  UNCHANGED <<sock, fromSocket, toSocket>>
  BY <1>3 DEF request, leave
<1> QED BY <1>1, <1>2, <1>3

\* Managers and handlers take sockets out of the registry and put none in; clients
\* come and go.
LEMMA AddressOthers ==
  ASSUME IInv, AddressInv,
         \/ \E c \in Conns : request(c) \/ leave(c)
         \/ \E m \in Managers : processWork(m)
         \/ \E h \in Handlers : handleClient(h) \/ readAborted(h)
         \/ UNCHANGED vars
  PROVE  AddressInv' /\ UNCHANGED <<first, reg, tempID, tempClientID>>
<1> USE DEF vars, netVars, registryVars, regVars, mgrVars, handlerVars
<1>1. /\ UNCHANGED <<first, reg, tempID, tempClientID>>
      /\ \A c \in Conns : peer'[c] = "none" => peer[c] = "none"
  <2>1. ASSUME NEW m \in Managers, processWork(m)
        PROVE  UNCHANGED <<peer, first, reg, tempID, tempClientID>>
    BY <2>1 DEF processWork, startJob, authUser, authCheckTo, authCheckFrom, findStarted,
         spawnHandler, markStarted, welcome, refuse, logoutUser, bye, byeAgain, unmark,
         answer, mgrEraseEntry, mgrEraseMutex
  <2>2. ASSUME NEW h \in Handlers, handleClient(h) \/ readAborted(h)
        PROVE  UNCHANGED <<peer, first, reg, tempID, tempClientID>>
    BY <2>2 DEF handleClient, readAborted, findMutex, readIP, nextMessage, route,
         endOfStream, handlerEraseEntry, handlerEraseMutex
  <2>3. ASSUME NEW d \in Conns, request(d) \/ leave(d)
        PROVE  /\ UNCHANGED <<first, reg, tempID, tempClientID>>
               /\ peer' \in {peer, [peer EXCEPT ![d] = "gone"]}
    BY <2>3 DEF request, leave
  <2>4. peer \in [Conns -> {"none", "open", "gone"}] BY DEF IInv, TypeOK
  <2> QED BY <2>1, <2>2, <2>3, <2>4
<1>2. \A i \in Ids : /\ fromSocket'[i] \in {fromSocket[i], NoConn}
                     /\ toSocket'[i] \in {toSocket[i], NoConn}
  BY OthersErase DEF eraseEntry, IInv, TypeOK
<1>3. \A i \in Ids : fromSocket[i] \in Conns \cup {NoConn} /\ toSocket[i] \in Conns \cup {NoConn}
  BY DEF IInv, TypeOK
<1> QED BY <1>1, <1>2, <1>3 DEF AddressInv, FirstInv, EntryInv

-----------------------------------------------------------------------------
(* Where the messages go.                                                  *)

\* A reply reaches the connection the registry has for the id, or nobody.
LEMMA SendReaches ==
  ASSUME TypeOK, NEW i, NEW msg, NEW ok, sendMessageToClient(i, msg, ok)
  PROVE  \A c \in Conns : \A x \in received'[c] \ received[c] :
           x = msg /\ i \in Ids /\ c = toSocket[i]
BY ConstantsAssumption DEF sendMessageToClient, write, TypeOK

\* So does the reply to a CONNECT.
LEMMA ConfirmReaches ==
  ASSUME TypeOK, NEW i, NEW msg, NEW ok, sendConnectMessage(i, msg, ok)
  PROVE  \A c \in Conns : \A x \in received'[c] \ received[c] :
           x = msg /\ i \in Ids /\ i \in mutexes /\ c = fromSocket[i]
BY ConstantsAssumption DEF sendConnectMessage, write, TypeOK

\* What a step may add to what a client has got: a reply about an id to the
\* connection that authenticated it, or one about its id to a connection that has one.
NewReply(c, msg) ==
  \/ /\ msg.id \in Ids
     /\ c = toSocket[msg.id]
     /\ msg.type = "CONNECT" => ~ msg.success /\ \E d \in Conns : first[d] = Connect(msg.id)
  \/ /\ msg = Message("CONNECT", tempID[c], TRUE)
     /\ msg.id \in mutexes
     /\ c = fromSocket[msg.id]
  \/ /\ msg = Message("UNFRAMED", tempID[c], FALSE)
     /\ tempID[c] \in Ids

\* The refusal of a first message goes to the client that has the id it names.
LEMMA RejectReplies ==
  ASSUME ReplyInv, NEW c \in Conns, reject(c)
  PROVE  \A d \in Conns : \A x \in received'[d] \ received[d] : NewReply(d, x)
<1> DEFINE reply == Message(first[c].type, first[c].id, FALSE)
<1>1. PICK ok \in BOOLEAN : sendMessageToClient(first[c].id, reply, ok)
  BY DEF reject
<1>2. first[c] \in [type : {"NONE", "CONNECT", "AUTHENTICATE", "OTHER"}, id : 0 .. MaxId]
  BY DEF ReplyInv, IInv, TypeOK
<1>3. first[c].type = "CONNECT" => first[c] = Connect(first[c].id)
  BY <1>2 DEF Connect
<1>4. \A d \in Conns : \A x \in received'[d] \ received[d] :
        x = reply /\ first[c].id \in Ids /\ d = toSocket[first[c].id]
  <2>1. TypeOK BY DEF ReplyInv, IInv
  <2> QED BY <1>1, <2>1, SendReaches DEF Message
<1> QED BY <1>1, <1>3, <1>4 DEF NewReply, Message

\* The confirmation of an id goes to the connection that was given it.
LEMMA ConfirmReplies ==
  ASSUME ReplyInv, NEW c \in Conns, confirm(c) \/ writeUnframed(c)
  PROVE  \A d \in Conns : \A x \in received'[d] \ received[d] : NewReply(d, x)
<1>1. tempID[c] \in Ids
  BY DEF ReplyInv, IInv, RegistrationInv, confirm, writeUnframed, regAt
<1>2. CASE confirm(c)
  <2> DEFINE reply == Message("CONNECT", tempID[c], TRUE)
  <2>1. PICK ok \in BOOLEAN : sendConnectMessage(tempID[c], reply, ok)
    BY <1>2 DEF confirm
  <2>2. \A d \in Conns : \A x \in received'[d] \ received[d] :
          x = reply /\ tempID[c] \in mutexes /\ d = fromSocket[tempID[c]]
    <3>1. TypeOK BY DEF ReplyInv, IInv
    <3> QED BY <2>1, <3>1, ConfirmReaches DEF Message
  <2>3. \A d \in Conns : d = fromSocket[tempID[c]] => tempID[d] = tempID[c]
    BY <1>1, ConstantsAssumption DEF ReplyInv, AddressInv, EntryInv
  <2> QED BY <2>1, <2>2, <2>3 DEF NewReply, Message
<1>3. CASE writeUnframed(c)
  <2> DEFINE reply == Message("UNFRAMED", tempID[c], FALSE)
  <2>1. PICK ok \in BOOLEAN : write(c, reply, ok)
    BY <1>3 DEF writeUnframed
  <2>2. \A d \in Conns : \A x \in received'[d] \ received[d] : x = reply /\ d = c
    BY <2>1 DEF write, ReplyInv, IInv, TypeOK, Message
  <2> QED BY <1>1, <2>1, <2>2 DEF NewReply, Message
<1> QED BY <1>2, <1>3

\* A manager answers the client whose work it does.
LEMMA ManagerReplies ==
  ASSUME ReplyInv, NEW m \in Managers, processWork(m)
  PROVE  /\ \A d \in Conns : \A x \in received'[d] \ received[d] :
              /\ NewReply(d, x) /\ x.id = job[m].id
              /\ x.type = "AUTH_RESPONSE" => mgr[m] \in {"welcome", "refuse"}
              /\ x.type # "CONNECT"
<1>1. CASE welcome(m) \/ refuse(m) \/ bye(m) \/ byeAgain(m) \/ answer(m)
  <2>1. mgr[m] # "idle" /\ job[m] \in Works
    BY <1>1 DEF welcome, refuse, bye, byeAgain, answer, mgrAt, ReplyInv, IInv, ThreadInv
  <2>2. job[m].id \in Ids /\ job[m].type \in {"AUTHENTICATE", "SEND_MESSAGE_TO_USER", "LOGOUT"}
    BY <2>1, ConstantsAssumption DEF Works
  <2>3. \E ok \in BOOLEAN, t \in {"AUTH_RESPONSE", "LOGOUT", job[m].type}, s \in BOOLEAN :
          /\ sendMessageToClient(job[m].id, Message(t, job[m].id, s), ok)
          /\ t = "AUTH_RESPONSE" => mgr[m] \in {"welcome", "refuse"}
    <3>1. CASE welcome(m) BY <3>1 DEF welcome, mgrAt
    <3>2. CASE refuse(m) BY <3>2 DEF refuse, mgrAt
    <3>3. CASE bye(m) \/ byeAgain(m) BY <3>3 DEF bye, byeAgain
    <3>4. CASE answer(m) BY <2>2, <3>4 DEF answer
    <3> QED BY <1>1, <3>1, <3>2, <3>3, <3>4
  <2>4. PICK ok \in BOOLEAN, t \in {"AUTH_RESPONSE", "LOGOUT", job[m].type}, s \in BOOLEAN :
          /\ sendMessageToClient(job[m].id, Message(t, job[m].id, s), ok)
          /\ t = "AUTH_RESPONSE" => mgr[m] \in {"welcome", "refuse"}
    BY <2>3
  <2>5. \A d \in Conns : \A x \in received'[d] \ received[d] :
          x = Message(t, job[m].id, s) /\ d = toSocket[job[m].id]
    BY <2>4, SendReaches DEF ReplyInv, IInv
  <2> QED BY <2>2, <2>4, <2>5 DEF NewReply, Message
<1>2. CASE ~ (welcome(m) \/ refuse(m) \/ bye(m) \/ byeAgain(m) \/ answer(m))
  <2>1. UNCHANGED received
    BY <1>2 DEF processWork, authUser, logoutUser, startJob, authCheckTo, authCheckFrom,
         findStarted, spawnHandler, markStarted, unmark, mgrEraseEntry, mgrEraseMutex, netVars
  <2> QED BY <2>1
<1> QED BY <1>1, <1>2

\* All replies of a step are such.
LEMMA StepReplies ==
  ASSUME ReplyInv, [Next]_vars
  PROVE  \A d \in Conns : \A x \in received'[d] \ received[d] : NewReply(d, x)
<1> USE DEF vars, netVars
<1>1. ASSUME NEW c \in Conns, open(c) \/ request(c) \/ leave(c) PROVE UNCHANGED received
  BY <1>1 DEF open, request, leave
<1>2. ASSUME NEW c \in Conns, registerClient(c), ~ reject(c), ~ confirm(c), ~ writeUnframed(c)
      PROVE  UNCHANGED received
  BY <1>2 DEF registerClient, readFirst, checkFrom, loadTempID, storeTempID, addFrom,
              checkTo, addTo, pushAuth
<1>3. ASSUME NEW h \in Handlers, handleClient(h) \/ readAborted(h) PROVE UNCHANGED received
  BY <1>3 DEF handleClient, readAborted, findMutex, readIP, nextMessage, route, endOfStream,
              handlerEraseEntry, handlerEraseMutex
<1>4. CASE UNCHANGED vars BY <1>4
<1>5. CASE \E m \in Managers : processWork(m) BY <1>5, ManagerReplies
<1>6. CASE \E c \in Conns : reject(c) \/ confirm(c) \/ writeUnframed(c)
  BY <1>6, RejectReplies, ConfirmReplies
<1> QED BY <1>1, <1>2, <1>3, <1>4, <1>5, <1>6 DEF Next, terminated

\* The id and the first message of a connection that has got something stay.
LEMMA FirstIsKept ==
  ASSUME ReplyInv, [Next]_vars, NEW c \in Conns
  PROVE  /\ first[c] # NoMessage => first'[c] = first[c]
         /\ tempID[c] # 0 => tempID'[c] = tempID[c]
<1>1. ASSUME NEW d \in Conns, open(d)
      PROVE  /\ tempID' = tempID
             /\ first[c] # NoMessage => first'[c] = first[c]
  BY <1>1 DEF open, ReplyInv, AddressInv, FirstInv, IInv, TypeOK
<1>2. ASSUME NEW d \in Conns, registerClient(d)
      PROVE  first' = first /\ (tempID[c] # 0 => tempID'[c] = tempID[c])
  BY <1>2 DEF registerClient, readFirst, checkFrom, reject, loadTempID, storeTempID, addFrom,
       confirm, writeUnframed, checkTo, addTo, pushAuth, netVars, regAt, ReplyInv, AddressInv,
       FirstInv, IInv, TypeOK
<1>3. ASSUME ~ \E d \in Conns : open(d) \/ registerClient(d)
      PROVE  UNCHANGED <<first, tempID>>
  BY <1>3, AddressOthers DEF ReplyInv, Next, terminated
<1> QED BY <1>1, <1>2, <1>3

\* Every step keeps the sockets under their ids.
LEMMA AddressStep == IInv /\ AddressInv /\ [Next]_vars => AddressInv'
BY AddressOpen, AddressRegister, AddressOthers DEF Next, terminated

\* Every step addresses its replies.
LEMMA ReplyStep == ReplyInv /\ [Next]_vars => RepliesAreAddressed'
<1> SUFFICES ASSUME ReplyInv, [Next]_vars, NEW c \in Conns, NEW msg \in received'[c]
             PROVE  \/ /\ first'[c].type = "CONNECT"
                       /\ msg.type \in {"CONNECT", "UNFRAMED"}
                       /\ msg.id = tempID'[c]
                    \/ /\ first'[c] = Authenticate(msg.id)
                       /\ msg.type = "CONNECT" =>
                            ~ msg.success /\ \E d \in Conns : first'[d] = Connect(msg.id)
  BY DEF RepliesAreAddressed
<1> DEFINE Claimed == \E d \in Conns : first[d] = Connect(msg.id)
<1>1. /\ IInv /\ AddressInv /\ RepliesAreAddressed
      /\ \A i : NoMessage # Connect(i) /\ NoMessage # Authenticate(i)
      /\ \A i : NoMessage.type # "CONNECT" /\ Authenticate(i).type # "CONNECT"
      /\ 0 \notin Ids
  <2>1. \A i : /\ NoMessage.type # Connect(i).type
               /\ NoMessage.type # Authenticate(i).type
               /\ NoMessage.type # "CONNECT" /\ Authenticate(i).type # "CONNECT"
    BY DEF NoMessage, Connect, Authenticate
  <2>2. \A i : NoMessage # Connect(i) /\ NoMessage # Authenticate(i) BY <2>1
  <2> QED BY <2>1, <2>2 DEF ReplyInv, Ids
<1>2. /\ first[c] # NoMessage => first'[c] = first[c]
      /\ tempID[c] # 0 => tempID'[c] = tempID[c]
  BY FirstIsKept
<1>3. Claimed => \E d \in Conns : first'[d] = Connect(msg.id) BY <1>1, FirstIsKept
<1>4. CASE msg \in received[c]
  <2>1. msg.id \in Ids BY <1>1, <1>4 DEF IInv, TypeOK
  <2>2. \/ /\ first[c].type = "CONNECT"
           /\ msg.type \in {"CONNECT", "UNFRAMED"}
           /\ msg.id = tempID[c]
        \/ /\ first[c] = Authenticate(msg.id)
           /\ msg.type = "CONNECT" => ~ msg.success /\ Claimed
    BY <1>1, <1>4 DEF RepliesAreAddressed
  <2> QED BY <1>1, <1>2, <1>3, <2>1, <2>2
<1>5. CASE msg \notin received[c]
  <2>1. NewReply(c, msg) BY <1>5, StepReplies
  <2>2. c # NoConn BY ConstantsAssumption
  <2>3. CASE first[c].type # "CONNECT"
    <3>1. tempID[c] = 0 BY <1>1, <2>3 DEF AddressInv, FirstInv
    <3>2. /\ msg.id \in Ids /\ c = toSocket[msg.id]
          /\ msg.type = "CONNECT" => ~ msg.success /\ Claimed
      BY <1>1, <2>1, <3>1 DEF NewReply, Message, IInv, TypeOK
    <3>3. first[c] = Authenticate(msg.id) BY <1>1, <2>2, <3>2 DEF AddressInv, EntryInv
    <3> QED BY <1>1, <1>2, <1>3, <3>2, <3>3
  <2>4. CASE first[c].type = "CONNECT"
    <3>1. ~ (msg.id \in Ids /\ c = toSocket[msg.id])
      BY <1>1, <2>2, <2>4 DEF AddressInv, EntryInv
    <3>2. /\ msg.type \in {"CONNECT", "UNFRAMED"} /\ msg.id = tempID[c]
          /\ tempID[c] # 0
      BY <1>1, <2>1, <3>1 DEF NewReply, Message, IInv, TypeOK
    <3> QED BY <1>1, <1>2, <2>4, <3>2
  <2> QED BY <2>3, <2>4
<1> QED BY <1>4, <1>5

\* At first nothing was sent and nothing is registered.
LEMMA ReplyInit == Init => AddressInv /\ RepliesAreAddressed
BY DEF Init, AddressInv, FirstInv, EntryInv, RepliesAreAddressed, NoMessage

\* The sockets are under their ids and the replies addressed in every reachable state.
THEOREM ReplyInvariance == Spec => []ReplyInv
<1>1. Init => ReplyInv BY InitIInv, ReplyInit DEF ReplyInv
<1>2. ReplyInv /\ [Next]_vars => ReplyInv'
  BY NextKeeps, StutterKeeps, AddressStep, ReplyStep DEF ReplyInv
<1> QED BY <1>1, <1>2, PTL DEF Spec

\* A client gets the replies to its own messages only, unless clients put the ids of
\* others into a CONNECT (Server.cpp:150-187).
THEOREM RepliesReachTheirClientAlways ==
  ASSUME Claims \subseteq {0}
  PROVE  Spec => []RepliesReachTheirClient
<1>1. ReplyInv => RepliesReachTheirClient
  <2> SUFFICES ASSUME ReplyInv, NEW c \in Conns, NEW msg \in received[c]
               PROVE  IF first[c].type = "CONNECT"
                        THEN msg.type \in {"CONNECT", "UNFRAMED"} /\ msg.id = tempID[c]
                        ELSE first[c] = Authenticate(msg.id) /\ msg.type # "CONNECT"
    BY DEF RepliesReachTheirClient
  <2>1. msg.id \in Ids /\ 0 \notin Ids BY DEF ReplyInv, IInv, TypeOK, Ids
  <2>2. \A d \in Conns : first[d] # Connect(msg.id)
    <3>1. \A d \in Conns : first[d].type = "CONNECT" => first[d].id = 0
      BY DEF ReplyInv, AddressInv, FirstInv
    <3>2. \A i : Connect(i).type = "CONNECT" /\ Connect(i).id = i BY DEF Connect
    <3> QED BY <2>1, <3>1, <3>2
  <2> QED BY <2>2 DEF ReplyInv, RepliesAreAddressed, Authenticate
<1> QED BY <1>1, ReplyInvariance, PTL

\* Whatever ids clients claim: a success, and every answer of a manager, reaches the
\* client it is about, and a refused CONNECT the client whose id was claimed.
THEOREM RepliesAreAddressedAlways == Spec => []RepliesAreAddressed
<1>1. ReplyInv => RepliesAreAddressed BY DEF ReplyInv
<1> QED BY <1>1, ReplyInvariance, PTL

-----------------------------------------------------------------------------
(* Who has an id that was given more than once.                            *)

\* A connection that was told an id and is still open has the entry of that id.
HolderInv ==
  \A i \in Ids : \A c \in Told(i) : sock[c] = "open" => fromSocket[i] = c

\* Only a connection nothing was said on opens, and an entry loses its FROM socket
\* only when that closes.
LEMMA SocketStep ==
  ASSUME IInv, AddressInv, [Next]_vars
  PROVE  /\ \A c \in Conns : sock'[c] = "open" => sock[c] = "open" \/ first[c] = NoMessage
         /\ \A c \in Conns : sock[c] # "none" => sock'[c] \in {sock[c], "closed"}
         /\ \A i \in Ids : fromSocket[i] # NoConn =>
              fromSocket'[i] = fromSocket[i] \/ sock'[fromSocket[i]] = "closed"
<1> USE DEF IInv, TypeOK
<1>1. ASSUME NEW d \in Conns, open(d)
      PROVE  /\ \A c \in Conns \ {d} : sock'[c] = sock[c]
             /\ first[d] = NoMessage /\ sock[d] = "none"
             /\ UNCHANGED fromSocket
  BY <1>1 DEF open, registryVars, AddressInv, FirstInv, OwnerInv
<1>2. ASSUME NEW d \in Conns, registerClient(d)
      PROVE  /\ \A c \in Conns : sock'[c] \in {sock[c], "closed"}
             /\ \A i \in Ids : fromSocket[i] # NoConn => fromSocket'[i] = fromSocket[i]
  <2>1. CASE addFrom(d)
    BY <2>1 DEF addFrom, regAt, goReg, endReg, addFromClientSocket, Present, registryVars,
       RegistrationInv
  <2>2. CASE ~ addFrom(d)
    <3>1. UNCHANGED fromSocket
      BY <1>2, <2>2 DEF registerClient, readFirst, checkFrom, reject, loadTempID,
         storeTempID, confirm, writeUnframed, checkTo, addTo, addToClientSocket, pushAuth,
         netVars, registryVars
    <3>2. UNCHANGED sock \/ endReg(d)
      BY <1>2, <2>2 DEF registerClient, readFirst, checkFrom, reject, loadTempID,
         storeTempID, confirm, writeUnframed, checkTo, addTo, pushAuth, netVars
    <3> QED BY <3>1, <3>2 DEF endReg
  <2> QED BY <2>1, <2>2
<1>3. ASSUME ~ \E d \in Conns : open(d) \/ registerClient(d)
      PROVE  /\ \A c \in Conns : sock'[c] \in {sock[c], "closed"}
             /\ \A i \in Ids : fromSocket[i] # NoConn =>
                  fromSocket'[i] = fromSocket[i] \/ sock'[fromSocket[i]] = "closed"
  <2>1. UNCHANGED <<sock, fromSocket, toSocket>> \/ \E i \in Ids : eraseEntry(i)
    BY <1>3, OthersErase DEF Next, terminated
  <2>2. ASSUME NEW j \in Ids, eraseEntry(j)
        PROVE  /\ \A c \in Conns : sock'[c] \in {sock[c], "closed"}
               /\ \A i \in Ids : fromSocket[i] # NoConn =>
                    fromSocket'[i] = fromSocket[i] \/ sock'[fromSocket[i]] = "closed"
    BY <2>2, ConstantsAssumption DEF eraseEntry
  <2> QED BY <2>1, <2>2
<1> QED BY <1>1, <1>2, <1>3

\* A connection that is told an id has the entry of it.
LEMMA ToldStep ==
  ASSUME ReplyInv, [Next]_vars, NEW i \in Ids, NEW c \in Told(i)'
  PROVE  c \in Conns /\ (c \in Told(i) \/ fromSocket[i] = c)
<1>1. c \in Conns /\ Message("CONNECT", i, TRUE) \in received'[c] BY DEF Told
<1>2. CASE Message("CONNECT", i, TRUE) \in received[c] BY <1>1, <1>2 DEF Told
<1>3. CASE Message("CONNECT", i, TRUE) \notin received[c]
  <2>1. NewReply(c, Message("CONNECT", i, TRUE)) BY <1>1, <1>3, StepReplies
  <2> QED BY <1>1, <2>1 DEF NewReply, Message
<1> QED BY <1>2, <1>3

\* A connection that was told an id has sent its first message.
LEMMA ToldHasSent ==
  ASSUME ReplyInv, NEW i \in Ids, NEW c \in Told(i)
  PROVE  c \in Conns /\ first[c] # NoMessage
<1>1. c \in Conns /\ Message("CONNECT", i, TRUE) \in received[c] BY DEF Told
<1>2. first[c].type \in {"CONNECT", "AUTHENTICATE"}
  <2>1. \/ first[c].type = "CONNECT"
        \/ first[c] = Authenticate(Message("CONNECT", i, TRUE).id)
    BY <1>1 DEF ReplyInv, RepliesAreAddressed
  <2> QED BY <2>1 DEF Authenticate
<1> QED BY <1>1, <1>2 DEF NoMessage

\* Every step keeps the holders.
LEMMA HolderStep == ReplyInv /\ HolderInv /\ [Next]_vars => HolderInv'
<1> SUFFICES ASSUME ReplyInv, HolderInv, [Next]_vars,
                    NEW i \in Ids, NEW c \in Told(i)', sock'[c] = "open"
             PROVE  fromSocket'[i] = c
  BY DEF HolderInv
<1>1. c \in Conns /\ (c \in Told(i) \/ fromSocket[i] = c) BY ToldStep
<1>2. IInv /\ AddressInv BY DEF ReplyInv
<1>3. fromSocket[i] = c
  <2>1. CASE c \in Told(i)
    <3>1. sock[c] = "open" BY <1>1, <1>2, <2>1, ToldHasSent, SocketStep
    <3> QED BY <2>1, <3>1 DEF HolderInv
  <2> QED BY <1>1, <2>1
<1>4. c # NoConn BY <1>1, ConstantsAssumption
<1>5. fromSocket'[i] = fromSocket[i] \/ sock'[c] = "closed"
  BY <1>2, <1>3, <1>4, SocketStep
<1> QED BY <1>3, <1>5

\* Of the connections that were told the same id, however it came to be given more
\* than once, one at most is open (Server.cpp:191, 473-482).
THEOREM LiveIdsAreUniqueAlways == Spec => []LiveIdsAreUnique
<1>1. Init => HolderInv BY DEF Init, HolderInv, Told
<1>2. HolderInv => LiveIdsAreUnique
  <2> SUFFICES ASSUME HolderInv, NEW i \in Ids
               PROVE  Cardinality({c \in Told(i) : sock[c] = "open"}) <= 1
    BY DEF LiveIdsAreUnique
  <2> DEFINE Holders == {c \in Told(i) : sock[c] = "open"}
  <2>1. \A c, d \in Holders : c = d BY DEF HolderInv
  <2>2. Holders = {} \/ \E c : Holders = {c} BY <2>1
  <2>3. Cardinality(Holders) \in {0, 1} BY <2>2, FS_EmptySet, FS_Singleton
  <2> QED BY <2>3
<1> QED BY <1>1, <1>2, HolderStep, ReplyInvariance, PTL DEF Spec

-----------------------------------------------------------------------------
(* What becomes of a CONNECT.                                              *)

\* Its client was told something on this connection, or waits for nothing any more.
Concluded(c) == peer[c] = "gone" \/ sock[c] = "closed" \/ received[c] # {}

\* A connection whose id is about to be confirmed is the one the registry has for it,
\* unless somebody has removed it in between, which closes it.
ConcludedAt(c) ==
  /\ reg[c] # "unborn" => sock[c] # "none"
  /\ reg[c] = "confirm" => sock[c] = "closed" \/ fromSocket[tempID[c]] = c
  /\ first[c].type = "CONNECT" /\ reg[c] = "done" => Concluded(c)

ConcludedInv == \A c \in Conns : ConcludedAt(c)

\* What a client got is not taken back.
LEMMA ReceivedStays ==
  ASSUME IInv, [Next]_vars, NEW c \in Conns
  PROVE  received[c] \subseteq received'[c]
<1> USE DEF vars, netVars
<1>0. ASSUME NEW d, NEW msg, NEW ok, write(d, msg, ok)
      PROVE  received[c] \subseteq received'[c]
  BY <1>0 DEF write, IInv, TypeOK
<1>1. ASSUME NEW i, NEW msg, NEW ok,
             sendMessageToClient(i, msg, ok) \/ sendConnectMessage(i, msg, ok)
      PROVE  received[c] \subseteq received'[c]
  BY <1>0, <1>1 DEF sendMessageToClient, sendConnectMessage
<1>2. ASSUME NEW d \in Conns, registerClient(d) PROVE received[c] \subseteq received'[c]
  <2>1. CASE reject(d) BY <1>1, <2>1 DEF reject
  <2>2. CASE confirm(d) BY <1>1, <2>2 DEF confirm
  <2>3. CASE writeUnframed(d) BY <1>0, <2>3 DEF writeUnframed
  <2>4. CASE ~ (reject(d) \/ confirm(d) \/ writeUnframed(d))
    BY <1>2, <2>4 DEF registerClient, readFirst, checkFrom, loadTempID, storeTempID, addFrom,
                      checkTo, addTo, pushAuth
  <2> QED BY <2>1, <2>2, <2>3, <2>4
<1>3. ASSUME NEW m \in Managers, processWork(m) PROVE received[c] \subseteq received'[c]
  <2>1. CASE welcome(m) BY <1>1, <2>1 DEF welcome
  <2>2. CASE refuse(m) BY <1>1, <2>2 DEF refuse
  <2>3. CASE bye(m) BY <1>1, <2>3 DEF bye
  <2>4. CASE byeAgain(m) BY <1>1, <2>4 DEF byeAgain
  <2>5. CASE answer(m) BY <1>1, <2>5 DEF answer
  <2>6. CASE ~ (welcome(m) \/ refuse(m) \/ bye(m) \/ byeAgain(m) \/ answer(m))
    BY <1>3, <2>6 DEF processWork, authUser, logoutUser, startJob, authCheckTo, authCheckFrom,
         findStarted, spawnHandler, markStarted, unmark, mgrEraseEntry, mgrEraseMutex
  <2> QED BY <2>1, <2>2, <2>3, <2>4, <2>5, <2>6
<1>4. ASSUME NEW h \in Handlers, handleClient(h) \/ readAborted(h) PROVE UNCHANGED received
  BY <1>4 DEF handleClient, readAborted, findMutex, readIP, nextMessage, route, endOfStream,
              handlerEraseEntry, handlerEraseMutex
<1>5. ASSUME NEW d \in Conns, open(d) \/ request(d) \/ leave(d) PROVE UNCHANGED received
  BY <1>5 DEF open, request, leave
<1>6. CASE UNCHANGED vars BY <1>6
<1> QED BY <1>2, <1>3, <1>4, <1>5, <1>6 DEF Next, terminated

\* A client that has gone stays gone.
LEMMA GoneStays ==
  ASSUME IInv, [Next]_vars, NEW c \in Conns, peer[c] = "gone" PROVE peer'[c] = "gone"
<1>1. ASSUME NEW d \in Conns, open(d) \/ leave(d) PROVE peer'[c] = "gone"
  BY <1>1 DEF open, leave, IInv, TypeOK
<1>2. ASSUME NEW d \in Conns, request(d) \/ registerClient(d) PROVE UNCHANGED peer
  BY <1>2 DEF request, registerClient, readFirst, checkFrom, reject, loadTempID, storeTempID,
     addFrom, confirm, writeUnframed, checkTo, addTo, pushAuth, netVars
<1>3. ASSUME NEW m \in Managers, processWork(m) PROVE UNCHANGED peer
  BY <1>3 DEF processWork, startJob, authUser, authCheckTo, authCheckFrom, findStarted,
     spawnHandler, markStarted, welcome, refuse, logoutUser, bye, byeAgain, unmark, answer,
     mgrEraseEntry, mgrEraseMutex, netVars
<1>4. ASSUME NEW h \in Handlers, handleClient(h) \/ readAborted(h) PROVE UNCHANGED peer
  BY <1>4 DEF handleClient, readAborted, findMutex, readIP, nextMessage, route, endOfStream,
     handlerEraseEntry, handlerEraseMutex, netVars
<1> QED BY <1>1, <1>2, <1>3, <1>4 DEF Next, terminated, vars, netVars

\* What a client waits for no more, it will not wait for again.
LEMMA ConcludedStays ==
  ASSUME IInv, AddressInv, [Next]_vars, NEW c \in Conns, Concluded(c) PROVE Concluded(c)'
BY GoneStays, ReceivedStays, SocketStep DEF Concluded

\* A registration thread that ends where its socket is not registered closes it; the
\* reply to a CONNECT reaches the socket the registry has, and the failure its own.
LEMMA EndConcludes ==
  ASSUME IInv, AddressInv, ConcludedInv, NEW c \in Conns, registerClient(c), first[c].type = "CONNECT",
         reg'[c] = "done"
  PROVE  Concluded(c)'
<1> USE DEF IInv, regAt, goReg
<1>1. CASE readFirst(c) \/ reject(c) \/ addFrom(c)
  <2>1. reg[c] \in Fresh BY <1>1 DEF readFirst, reject, addFrom, Fresh
  <2>2. ~ Registered(c) BY <2>1 DEF OwnerInv
  <2>3. endReg(c) BY <1>1 DEF readFirst, reject, addFrom, TypeOK
  <2> QED BY <2>2, <2>3 DEF endReg, Registered, TypeOK, Concluded
<1>2. CASE confirm(c)
  <2>1. PICK ok \in BOOLEAN :
          /\ sendConnectMessage(tempID[c], Message("CONNECT", tempID[c], TRUE), ok)
          /\ IF ok THEN endReg(c) ELSE goReg(c, "unframed")
    BY <1>2 DEF confirm
  <2>2. ok /\ endReg(c) BY <2>1 DEF TypeOK
  <2>3. sock'[c] \in {sock[c], "closed"} BY <2>2 DEF endReg, TypeOK
  <2>4. CASE sock[c] = "closed" BY <2>3, <2>4 DEF Concluded
  <2>5. CASE fromSocket[tempID[c]] = c
    <3>1. write(c, Message("CONNECT", tempID[c], TRUE), ok)
      BY <2>1, <2>2, <2>5 DEF sendConnectMessage, write
    <3>2. c # NoConn /\ UNCHANGED peer BY <1>2, ConstantsAssumption DEF confirm
    <3>3. CASE peer[c] = "open"
      BY <2>2, <3>1, <3>2, <3>3 DEF write, TypeOK, Concluded
    <3>4. CASE peer[c] # "open"
      <4>1. peer[c] = "gone" BY <1>2, <3>4 DEF confirm, OwnerInv, TypeOK
      <4> QED BY <3>2, <4>1 DEF Concluded
    <3> QED BY <3>3, <3>4
  <2>6. reg[c] = "confirm" BY <1>2 DEF confirm
  <2> QED BY <2>4, <2>5, <2>6 DEF ConcludedInv, ConcludedAt
<1>3. CASE writeUnframed(c)
  <2>1. PICK ok \in BOOLEAN : write(c, Message("UNFRAMED", tempID[c], FALSE), ok)
    BY <1>3 DEF writeUnframed
  <2>2. endReg(c) /\ UNCHANGED peer /\ reg[c] = "unframed" BY <1>3 DEF writeUnframed
  <2>3. sock'[c] \in {sock[c], "closed"} /\ c # NoConn
    BY <2>2, ConstantsAssumption DEF endReg, TypeOK
  <2>4. sock[c] \in {"open", "closed"} /\ peer[c] \in {"open", "gone"}
    BY <2>2 DEF ConcludedInv, ConcludedAt, OwnerInv, TypeOK
  <2> QED BY <2>1, <2>2, <2>3, <2>4 DEF write, TypeOK, Concluded
<1>4. CASE checkFrom(c) \/ loadTempID(c) \/ storeTempID(c) \/ checkTo(c) \/ addTo(c)
  BY <1>4 DEF checkFrom, loadTempID, storeTempID, checkTo, addTo, TypeOK
<1>5. CASE pushAuth(c) BY <1>5 DEF pushAuth, AddressInv, FirstInv
<1> QED BY <1>1, <1>2, <1>3, <1>4, <1>5 DEF registerClient

\* A step leaves a connection's thread where it is, opens it, or is its thread's own.
LEMMA RegMoves ==
  ASSUME IInv, AddressInv, [Next]_vars, NEW c \in Conns
  PROVE  reg'[c] = reg[c] \/ open(c) \/ registerClient(c)
<1>1. ASSUME NEW d \in Conns \ {c}, open(d) \/ registerClient(d) PROVE reg'[c] = reg[c]
  BY <1>1 DEF open, registerClient, readFirst, checkFrom, reject, loadTempID, storeTempID,
     addFrom, confirm, writeUnframed, checkTo, addTo, pushAuth, goReg, endReg, IInv, TypeOK
<1>2. ASSUME ~ \E d \in Conns : open(d) \/ registerClient(d) PROVE reg'[c] = reg[c]
  BY <1>2, AddressOthers DEF Next, terminated
<1> QED BY <1>1, <1>2

\* The first message of a connection changes only when it opens.
LEMMA FirstChanges ==
  ASSUME IInv, AddressInv, [Next]_vars, NEW c \in Conns, ~ open(c) PROVE first'[c] = first[c]
<1>1. ASSUME NEW d \in Conns \ {c}, open(d) PROVE first'[c] = first[c]
  BY <1>1 DEF open, IInv, TypeOK
<1>2. ASSUME NEW d \in Conns, registerClient(d) PROVE first' = first
  BY <1>2 DEF registerClient, readFirst, checkFrom, reject, loadTempID, storeTempID,
     addFrom, confirm, writeUnframed, checkTo, addTo, pushAuth, netVars
<1>3. ASSUME ~ \E d \in Conns : open(d) \/ registerClient(d) PROVE first' = first
  BY <1>3, AddressOthers DEF Next, terminated
<1> QED BY <1>1, <1>2, <1>3

\* Every step keeps that: the thread of a CONNECT ends only where its client has nothing
\* left to wait for.
LEMMA ConcludedStep == ReplyInv /\ ConcludedInv /\ [Next]_vars => ConcludedInv'
<1> SUFFICES ASSUME IInv, AddressInv, ReplyInv, ConcludedInv, [Next]_vars, NEW c \in Conns
             PROVE  ConcludedAt(c)'
  BY DEF ConcludedInv, ReplyInv
<1>1. CASE open(c)
  <2>1. reg'[c] = "read" /\ sock'[c] = "open" BY <1>1 DEF open, IInv, TypeOK
  <2> QED BY <2>1 DEF ConcludedAt
<1>2. SUFFICES ASSUME ~ open(c) PROVE ConcludedAt(c)' BY <1>1
<1>3. ASSUME reg[c] # "unborn"
      PROVE  sock'[c] # "none" /\ sock'[c] \in {sock[c], "closed"}
  BY <1>3, SocketStep DEF ConcludedInv, ConcludedAt
<1>4. ASSUME reg[c] # "unborn", reg'[c] = "confirm"
      PROVE  sock'[c] = "closed" \/ fromSocket'[tempID'[c]] = c
  <2>1. CASE reg[c] = "confirm"
    <3>1. tempID[c] \in Ids /\ tempID[c] # 0 BY <2>1 DEF IInv, RegistrationInv, Ids
    <3>2. tempID'[c] = tempID[c] BY <3>1, FirstIsKept
    <3>3. CASE sock[c] = "closed" BY <1>3, <1>4, <3>3
    <3>4. CASE fromSocket[tempID[c]] = c
      <4>1. fromSocket[tempID[c]] # NoConn BY <3>4, ConstantsAssumption
      <4> QED BY <3>1, <3>2, <3>4, <4>1, SocketStep
    <3> QED BY <2>1, <3>3, <3>4 DEF ConcludedInv, ConcludedAt
  <2>2. CASE registerClient(c) /\ reg[c] # "confirm"
    <3>1. addFrom(c) /\ ~ Present(tempID[c])
      BY <1>4, <2>2 DEF registerClient, readFirst, checkFrom, reject, loadTempID, storeTempID,
         addFrom, confirm, writeUnframed, checkTo, addTo, pushAuth, goReg, endReg, regAt,
         IInv, TypeOK
    <3>2. tempID[c] \in Ids BY <3>1 DEF addFrom, regAt, IInv, RegistrationInv
    <3>3. fromSocket' = [fromSocket EXCEPT ![tempID[c]] = c] /\ tempID' = tempID
      BY <3>1 DEF addFrom, addFromClientSocket
    <3> QED BY <1>4, <3>2, <3>3 DEF IInv, TypeOK
  <2>3. reg[c] = "confirm" \/ registerClient(c) BY <1>2, <1>4, RegMoves
  <2> QED BY <1>3, <1>4, <2>1, <2>2, <2>3
<1>5. ASSUME reg[c] # "unborn", reg'[c] = "done", first'[c].type = "CONNECT"
      PROVE  Concluded(c)'
  <2>1. CASE reg[c] = "done"
    <3>1. first[c].type = "CONNECT" BY <1>2, <1>5, FirstChanges
    <3>2. Concluded(c) BY <2>1, <3>1 DEF ConcludedInv, ConcludedAt
    <3> QED BY <1>3, <1>5, <3>2, ConcludedStays
  <2>2. CASE registerClient(c)
    <3>1. first'[c] = first[c] BY <1>2, FirstChanges
    <3> QED BY <1>3, <1>5, <2>2, <3>1, EndConcludes
  <2>3. reg[c] = "done" \/ registerClient(c) BY <1>2, <1>5, RegMoves
  <2> QED BY <2>1, <2>2, <2>3
<1>6. reg'[c] = reg[c] \/ registerClient(c) BY <1>2, RegMoves
<1>7. registerClient(c) => reg[c] # "unborn"
  BY DEF registerClient, readFirst, checkFrom, reject, loadTempID, storeTempID, addFrom,
     confirm, writeUnframed, checkTo, addTo, pushAuth, regAt
<1> QED BY <1>3, <1>4, <1>5, <1>6, <1>7 DEF ConcludedAt

\* When the thread of a CONNECT is done its client was told, failed without a size,
\* or is gone or closed (Server.cpp:197-231).
THEOREM ConnectIsSettledAlways == Spec => []ConnectIsSettled
<1>1. Init => ConcludedInv BY DEF Init, ConcludedInv, ConcludedAt, NoMessage
<1>2. ConcludedInv => ConnectIsSettled BY DEF ConcludedInv, ConcludedAt, Concluded, ConnectIsSettled
<1> QED BY <1>1, <1>2, ConcludedStep, ReplyInvariance, PTL DEF Spec

-----------------------------------------------------------------------------
(* How many ids are given.                                                 *)

\* The connections that sent a CONNECT, and those whose threads have an id, perhaps
\* one that another has too.
Connectors == {c \in Conns : first[c].type = "CONNECT"}
Given == {c \in Conns : tempID[c] # 0}

\* However threads get between the load and the store of _tempClientID, and whether it
\* wraps or not, it is never further than the number of ids that were given.
GivenInv ==
  /\ IsFiniteSet(Connectors) /\ Cardinality(Connectors) <= MaxConnects
  /\ tempClientID <= Cardinality(Given)
  /\ \A c \in Conns : tempID[c] <= Cardinality(Given)

\* Those that have one sent a CONNECT.
LEMMA GivenIsFinite ==
  ASSUME AddressInv, GivenInv
  PROVE  /\ IsFiniteSet(Given) /\ Cardinality(Given) \in Nat
         /\ Cardinality(Given) <= MaxConnects
<1>1. Given \subseteq Connectors BY DEF Given, Connectors, AddressInv, FirstInv
<1>2. /\ IsFiniteSet(Given) /\ Cardinality(Given) <= Cardinality(Connectors)
  BY <1>1, FS_Subset DEF GivenInv
<1>3. Cardinality(Given) \in Nat /\ Cardinality(Connectors) \in Nat
  BY <1>2, FS_CardinalityType DEF GivenInv
<1> QED BY <1>2, <1>3, ConstantsAssumption DEF GivenInv

\* At first none was given.
LEMMA GivenInit == Init => GivenInv
<1> SUFFICES ASSUME Init PROVE GivenInv OBVIOUS
<1>1. Connectors = {} /\ Given = {} BY DEF Init, NoMessage, Connectors, Given
<1> QED BY <1>1, FS_EmptySet, ConstantsAssumption DEF Init, GivenInv

\* A load gives one more id, which is no further than that.
LEMMA GivenLoad ==
  ASSUME IInv, AddressInv, GivenInv, NEW c \in Conns, loadTempID(c)
  PROVE  GivenInv'
<1>1. /\ tempID[c] = 0 /\ tempID' = [tempID EXCEPT ![c] = (tempClientID % MaxId) + 1]
      /\ UNCHANGED <<first, tempClientID>>
  BY DEF loadTempID, regAt, netVars, AddressInv, FirstInv
<1>2. tempClientID \in 0 .. MaxId /\ tempID \in [Conns -> 0 .. MaxId] BY DEF IInv, TypeOK
<1>3. tempClientID % MaxId \in Nat /\ tempClientID % MaxId <= tempClientID
  <2>1. CASE tempClientID = MaxId BY <2>1, ConstantsAssumption
  <2>2. CASE tempClientID # MaxId BY <1>2, <2>2, ConstantsAssumption
  <2> QED BY <2>1, <2>2
<1>4. Given' = Given \cup {c} /\ c \notin Given BY <1>1, <1>2, <1>3 DEF Given
<1>5. Cardinality(Given') = Cardinality(Given) + 1 /\ Cardinality(Given) \in Nat
  BY <1>4, GivenIsFinite, FS_AddElement
<1>6. tempClientID <= Cardinality(Given) /\ \A d \in Conns : tempID[d] <= Cardinality(Given)
  BY DEF GivenInv
<1>7. ASSUME NEW d \in Conns PROVE tempID'[d] <= Cardinality(Given) + 1
  <2> DEFINE n == Cardinality(Given)
  <2>1. tempID[d] \in Nat /\ tempID[d] <= n /\ tempClientID <= n /\ n \in Nat
    BY <1>2, <1>5, <1>6
  <2>2. tempID'[d] = IF d = c THEN (tempClientID % MaxId) + 1 ELSE tempID[d] BY <1>1, <1>2
  <2> HIDE DEF n
  <2> QED BY <1>2, <1>3, <2>1, <2>2 DEF n
<1>8. tempClientID <= Cardinality(Given) + 1 BY <1>2, <1>5, <1>6
<1>9. Connectors' = Connectors BY <1>1 DEF Connectors
<1> QED BY <1>1, <1>5, <1>7, <1>8, <1>9 DEF GivenInv

\* A connection is opened with a CONNECT only while fewer than MaxConnects were.
LEMMA ConnectorsOpen ==
  ASSUME IInv, AddressInv, IsFiniteSet(Connectors), Cardinality(Connectors) <= MaxConnects,
         NEW c \in Conns, open(c)
  PROVE  IsFiniteSet(Connectors)' /\ (Cardinality(Connectors) <= MaxConnects)'
<1>1. PICK msg \in Openings : first' = [first EXCEPT ![c] = msg] BY DEF open
<1>2. first[c] = NoMessage BY DEF open, IInv, OwnerInv, AddressInv, FirstInv
<1>3. CASE msg.type = "CONNECT"
  <2>1. mayConnect BY <1>1, <1>3 DEF Openings, Authenticate, Other, NoMessage
  <2>2. Connectors' = Connectors \cup {c} BY <1>1, <1>3 DEF Connectors, IInv, TypeOK
  <2>3. Cardinality(Connectors) < MaxConnects BY <2>1 DEF mayConnect, Connectors
  <2>4. Cardinality(Connectors) \in Nat BY FS_CardinalityType
  <2>5. /\ IsFiniteSet(Connectors \cup {c})
        /\ Cardinality(Connectors \cup {c}) \in {Cardinality(Connectors), Cardinality(Connectors) + 1}
    BY FS_AddElement
  <2> QED BY <2>2, <2>3, <2>4, <2>5, ConstantsAssumption
<1>4. CASE msg.type # "CONNECT"
  <2>1. Connectors' = Connectors BY <1>1, <1>2, <1>4 DEF Connectors, NoMessage, IInv, TypeOK
  <2> QED BY <2>1
<1> QED BY <1>3, <1>4

\* No other step gives an id, or counts one.
LEMMA IdsStay ==
  ASSUME IInv, AddressInv, [Next]_vars,
         ~ \E c \in Conns : open(c) \/ loadTempID(c) \/ storeTempID(c)
  PROVE  UNCHANGED <<first, tempID, tempClientID>>
<1>1. ASSUME NEW c \in Conns, registerClient(c)
      PROVE  UNCHANGED <<first, tempID, tempClientID>>
  BY <1>1 DEF registerClient, readFirst, checkFrom, reject, addFrom, confirm,
     writeUnframed, checkTo, addTo, pushAuth, netVars
<1>2. ASSUME ~ \E c \in Conns : registerClient(c)
      PROVE  UNCHANGED <<first, tempID, tempClientID>>
  BY <1>2, AddressOthers DEF Next, terminated
<1> QED BY <1>1, <1>2

\* No other step gives an id; a store writes one back that was given.
LEMMA GivenStep == IInv /\ AddressInv /\ GivenInv /\ [Next]_vars => GivenInv'
<1> SUFFICES ASSUME IInv, AddressInv, GivenInv, [Next]_vars PROVE GivenInv' OBVIOUS
<1>1. ASSUME NEW c \in Conns, open(c) PROVE GivenInv'
  <2>1. UNCHANGED <<tempID, tempClientID>> BY <1>1 DEF open
  <2>2. Given' = Given BY <2>1 DEF Given
  <2> QED BY <1>1, <2>1, <2>2, ConnectorsOpen DEF GivenInv
<1>2. ASSUME NEW c \in Conns, storeTempID(c) PROVE GivenInv'
  <2>1. UNCHANGED <<first, tempID>> /\ tempClientID' = tempID[c]
    BY <1>2 DEF storeTempID, netVars
  <2>2. Given' = Given /\ Connectors' = Connectors BY <2>1 DEF Given, Connectors
  <2> QED BY <2>1, <2>2 DEF GivenInv
<1>3. ASSUME ~ \E c \in Conns : open(c) \/ loadTempID(c) \/ storeTempID(c)
      PROVE  GivenInv'
  <2>1. UNCHANGED <<first, tempID, tempClientID>> BY <1>3, IdsStay
  <2>2. Given' = Given /\ Connectors' = Connectors BY <2>1 DEF Given, Connectors
  <2> QED BY <2>1, <2>2 DEF GivenInv
<1> QED BY <1>1, <1>2, <1>3, GivenLoad

\* No id beyond the number of CONNECTs is ever given, in every reachable state.
THEOREM GivenInvariance == Spec => []GivenInv
<1>1. ReplyInv /\ GivenInv /\ [Next]_vars => GivenInv' BY GivenStep DEF ReplyInv
<1> QED BY <1>1, GivenInit, ReplyInvariance, PTL DEF Spec
=============================================================================
