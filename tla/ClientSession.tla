---------------------------- MODULE ClientSession ----------------------------
(***************************************************************************)
(* The life of a client at the server: CONNECT registers its FROM socket   *)
(* under a temporary id, AUTHENTICATE on a second connection registers its *)
(* TO socket and makes a user manager start a handler thread, the handler  *)
(* reads requests until the client leaves or logs out, and the sockets are *)
(* removed.  Server.cpp (registration, handler, socket registry) and       *)
(* UserManager.cpp.                                                        *)
(*                                                                         *)
(* Threads: one registration thread per connection, the user managers, one *)
(* handler thread per spawn.  The work queue between them is a set, since   *)
(* with several managers works of one client may be served in any order:   *)
(* WorkDispatch, which LoadBalancer implements, promises no more.          *)
(*                                                                         *)
(* A temporary id -i of the code is i here.  A registry call finds the     *)
(* client's mutex, locks it and looks the client up: that is one step,     *)
(* except where another thread may come between: getClientSocketIP, and    *)
(* removeClientSocket, which erases the entry, then the mutex, and holds    *)
(* the mutex all the while.                                                *)
(*                                                                         *)
(* The client a request is about is the id in the message: nobody compares *)
(* it with the connection the message came on.                             *)
(***************************************************************************)
EXTENDS Naturals, FiniteSets, Sequences

CONSTANTS Conns,           \* the connections clients open, each used once
          Managers,        \* the managers of the user balancer
          NoConn,          \* a null socket pointer
          MaxId,           \* how many temporary ids there are before they wrap
          MaxConnects,     \* bound: how many CONNECTs are sent
          MaxHandlers,     \* bound: how many handler threads are spawned
          Claims,          \* the ids clients put into CONNECT; 0 for a foreign one
          StaleIds,        \* ids clients authenticate without having been told them
          Requests,        \* the requests a client sends once it knows its id
          Retry,           \* when a client authenticates an id once more: "never",
                           \* only after it was "answered", or at "any" time
          EagerRequests,   \* may it send them before it got the AUTH_RESPONSE
          ForeignNames     \* may it name another client's id in them

ASSUME ConstantsAssumption ==
  /\ NoConn \notin Conns
  /\ MaxId \in Nat \ {0} /\ MaxHandlers \in Nat /\ MaxConnects \in Nat
  /\ StaleIds \subseteq 1 .. MaxId
  /\ Claims \subseteq 0 .. MaxId
  /\ Requests \subseteq {"SEND_MESSAGE_TO_USER", "LOGOUT"}
  /\ Retry \in {"never", "answered", "any"}
  /\ {EagerRequests, ForeignNames} \subseteq BOOLEAN

VARIABLES
  sock,          \* the server's end of every connection: "none", "open", "closed"
  peer,          \* the client's end: "none", "open", "gone"
  first,         \* the first message of every connection
  inbox,         \* the requests sent on a connection and not yet read
  asked,         \* the requests ever sent on it
  received,      \* the messages the client got on it
  fromSocket,    \* _clientSocketMap[i].fromSocket
  toSocket,      \* _clientSocketMap[i].toSocket
  mutexes,       \* the keys of _clientSocketMutexMap
  tempClientID,  \* _tempClientID, negated; 0 before the first CONNECT
  reg,           \* where every registration thread is
  tempID,        \* its local tempID, negated, 0 while it has none
  works,         \* the works between the user balancer and its managers
  mgr,           \* where every manager thread is
  job,           \* the work it processes
  started,       \* the keys of _clientHandlerStarted
  hpc,           \* where every handler thread is
  client,        \* the clientID it serves
  reading,       \* the socket it is blocked on
  crashed        \* the process has dereferenced a null socket

netVars      == <<sock, peer, first, inbox, asked, received>>
registryVars == <<fromSocket, toSocket, mutexes>>
regVars      == <<tempClientID, reg, tempID>>
mgrVars      == <<works, mgr, job, started>>
handlerVars  == <<hpc, client, reading>>
vars == <<netVars, registryVars, regVars, mgrVars, handlerVars, crashed>>

Ids == 1 .. MaxId
Handlers == 1 .. MaxHandlers
Types == {"CONNECT", "AUTHENTICATE", "AUTH_RESPONSE", "UNFRAMED", "OTHER"} \cup Requests

Message(type, id, ok) == [type |-> type, id |-> id, success |-> ok]
NoMessage == [type |-> "NONE", id |-> 0]

Init ==
  /\ sock = [c \in Conns |-> "none"]
  /\ peer = [c \in Conns |-> "none"]
  /\ first = [c \in Conns |-> NoMessage]
  /\ inbox = [c \in Conns |-> << >>]
  /\ asked = [c \in Conns |-> {}]
  /\ received = [c \in Conns |-> {}]
  /\ fromSocket = [i \in Ids |-> NoConn]
  /\ toSocket = [i \in Ids |-> NoConn]
  /\ mutexes = {}
  /\ tempClientID = 0
  /\ reg = [c \in Conns |-> "unborn"]
  /\ tempID = [c \in Conns |-> 0]
  /\ works = {}
  /\ mgr = [m \in Managers |-> "idle"]
  /\ job = [m \in Managers |-> NoMessage]
  /\ started = {}
  /\ hpc = [h \in Handlers |-> "free"]
  /\ client = [h \in Handlers |-> 0]
  /\ reading = [h \in Handlers |-> NoConn]
  /\ crashed = FALSE

-----------------------------------------------------------------------------
(* Clients.                                                                *)

Connect(i)      == [type |-> "CONNECT", id |-> i]
Authenticate(i) == [type |-> "AUTHENTICATE", id |-> i]
Other(i)        == [type |-> "OTHER", id |-> i]
Request(r, i)   == [type |-> r, id |-> i]

Told(i) == {c \in Conns : Message("CONNECT", i, TRUE) \in received[c]}

Answered(i) == \E c \in Conns, ok \in BOOLEAN : Message("AUTH_RESPONSE", i, ok) \in received[c]

\* What a client may open a connection with: a CONNECT, the AUTHENTICATE of an id
\* some client was told or kept from an earlier server, a message that may not come
\* first, or nothing before it goes.
mayConnect == Cardinality({c \in Conns : first[c].type = "CONNECT"}) < MaxConnects
mayAuthenticate(i) ==
  /\ Told(i) # {} \/ i \in StaleIds
  /\ \/ \A c \in Conns : first[c] # Authenticate(i)
     \/ Retry = "answered" /\ Answered(i)
     \/ Retry = "any"

Openings == {Connect(i) : i \in {j \in Claims : mayConnect}}
              \cup {Authenticate(i) : i \in {j \in Ids : mayAuthenticate(j)}}
              \cup {Other(i) : i \in Claims} \cup {NoMessage}

\* A client connects and sends its first message; the acceptor starts a
\* registration thread for the connection.
open(c) ==
  /\ ~ crashed
  /\ peer[c] = "none"
  /\ sock' = [sock EXCEPT ![c] = "open"]
  /\ \E msg \in Openings :
       /\ first' = [first EXCEPT ![c] = msg]
       /\ peer' = [peer EXCEPT ![c] = IF msg = NoMessage THEN "gone" ELSE "open"]
  /\ reg' = [reg EXCEPT ![c] = "read"]
  /\ UNCHANGED <<inbox, asked, received, registryVars, tempClientID, tempID,
                 mgrVars, handlerVars, crashed>>

\* The clients a request on connection c may be about.
Names(c) == IF ForeignNames THEN Ids ELSE {i \in Ids : c \in Told(i)}

\* A client that was told its id sends requests, and nothing after LOGOUT.
request(c) ==
  /\ ~ crashed
  /\ peer[c] = "open"
  /\ \E i \in Ids :
       /\ c \in Told(i)
       /\ EagerRequests \/ \E d \in Conns :
            Message("AUTH_RESPONSE", i, TRUE) \in received[d]
  /\ \E r \in Requests, i \in Names(c) :
       /\ \A msg \in asked[c] : msg.type \notin {r, "LOGOUT"}
       /\ asked' = [asked EXCEPT ![c] = @ \cup {Request(r, i)}]
       /\ inbox' = [inbox EXCEPT ![c] = Append(@, Request(r, i))]
  /\ UNCHANGED <<sock, peer, first, received, registryVars, regVars, mgrVars,
                 handlerVars, crashed>>

leave(c) ==
  /\ ~ crashed
  /\ peer[c] = "open"
  /\ peer' = [peer EXCEPT ![c] = "gone"]
  /\ UNCHANGED <<sock, first, inbox, asked, received, registryVars, regVars,
                 mgrVars, handlerVars, crashed>>

-----------------------------------------------------------------------------
(* The socket registry.                                                    *)

Present(i) == fromSocket[i] # NoConn \/ toSocket[i] # NoConn

\* Nobody gets the mutex of a client between the two halves of its removal.
Lockable(i) == i \in mutexes => Present(i)

isFromClientSocketRegistered(i) == i \in mutexes /\ fromSocket[i] # NoConn
isToClientSocketRegistered(i)   == i \in mutexes /\ toSocket[i] # NoConn

\* A write to socket c succeeds when both ends are open; it may or may not
\* report an error when the client has gone.
write(c, msg, ok) ==
  IF c = NoConn \/ sock[c] # "open" THEN ~ ok /\ UNCHANGED received
  ELSE IF peer[c] = "open"
         THEN ok /\ received' = [received EXCEPT ![c] = @ \cup {msg}]
         ELSE UNCHANGED received

sendMessageToClient(i, msg, ok) ==
  write(IF i \in mutexes THEN toSocket[i] ELSE NoConn, msg, ok)

sendConnectMessage(i, msg, ok) ==
  write(IF i \in mutexes THEN fromSocket[i] ELSE NoConn, msg, ok)

addFromClientSocket(i, c) ==
  /\ fromSocket' = [fromSocket EXCEPT ![i] = c]
  /\ mutexes' = mutexes \cup {i}
  /\ UNCHANGED toSocket

\* An entry that is there keeps its mutex; a new one gets a new mutex.
addToClientSocket(i, c) ==
  /\ toSocket' = [toSocket EXCEPT ![i] = IF @ = NoConn THEN c ELSE @]
  /\ mutexes' = IF Present(i) THEN mutexes ELSE mutexes \cup {i}
  /\ UNCHANGED fromSocket

\* Mutant: only the FROM socket is closed.
eraseEntry_FromOnly(i) ==
  /\ sock' = [c \in Conns |-> IF c = fromSocket[i] THEN "closed" ELSE sock[c]]
  /\ fromSocket' = [fromSocket EXCEPT ![i] = NoConn]
  /\ toSocket' = [toSocket EXCEPT ![i] = NoConn]
  /\ UNCHANGED mutexes

\* The first half of removeClientSocket: under the client's mutex, both sockets
\* are closed and the entry is erased.
eraseEntry(i) ==
  /\ sock' = [c \in Conns |-> IF c \in {fromSocket[i], toSocket[i]}
                                THEN "closed" ELSE sock[c]]
  /\ fromSocket' = [fromSocket EXCEPT ![i] = NoConn]
  /\ toSocket' = [toSocket EXCEPT ![i] = NoConn]
  /\ UNCHANGED mutexes

\* The second half: the mutex is erased too.
removeClientSocketMutex(i) ==
  /\ mutexes' = mutexes \ {i}
  /\ UNCHANGED <<fromSocket, toSocket>>

-----------------------------------------------------------------------------
(* The registration thread of connection c: registerClient and              *)
(* registerFromClientSocket.                                               *)

regAt(c, where) == ~ crashed /\ reg[c] = where
goReg(c, where) == reg' = [reg EXCEPT ![c] = where]

\* Mutant: the socket is closed with the thread, registered or not.
endReg_Close(c) ==
  /\ goReg(c, "done")
  /\ sock' = [sock EXCEPT ![c] = "closed"]

\* The thread ends and drops its reference: a socket that is in no entry closes.
endReg(c) ==
  /\ goReg(c, "done")
  /\ sock' = [sock EXCEPT ![c] =
                IF \E i \in Ids : c \in {fromSocket[i], toSocket[i]}
                  THEN @ ELSE "closed"]

readFirst(c) ==
  /\ regAt(c, "read")
  /\ IF first[c] = NoMessage
       THEN endReg(c)
       ELSE /\ goReg(c, CASE first[c].type = "CONNECT"      -> "isFrom"
                          [] first[c].type = "AUTHENTICATE" -> "isTo"
                          [] OTHER                          -> "reject")
            /\ UNCHANGED sock
  /\ UNCHANGED <<peer, first, inbox, asked, received, registryVars, tempClientID,
                 tempID, mgrVars, handlerVars, crashed>>

\* The claimed id decides between a rejection and a new temporary id.
checkFrom(c) ==
  /\ regAt(c, "isFrom")
  /\ Lockable(first[c].id)
  /\ goReg(c, IF first[c].id # 0 /\ isFromClientSocketRegistered(first[c].id)
                THEN "reject" ELSE "load")
  /\ UNCHANGED <<netVars, registryVars, tempClientID, tempID, mgrVars,
                 handlerVars, crashed>>

\* The failure goes to the TO socket of the client that has the claimed id.
reject(c) ==
  /\ regAt(c, "reject")
  /\ Lockable(first[c].id)
  /\ \E ok \in BOOLEAN :
       sendMessageToClient(first[c].id, Message(first[c].type, first[c].id, FALSE), ok)
  /\ endReg(c)
  /\ UNCHANGED <<peer, first, inbox, asked, registryVars, tempClientID, tempID,
                 mgrVars, handlerVars, crashed>>

\* Mutant: the id does not wrap.
loadTempID_NoWrap(c) ==
  /\ regAt(c, "load")
  /\ tempID' = [tempID EXCEPT ![c] = tempClientID + 1]
  /\ goReg(c, "store")
  /\ UNCHANGED <<netVars, registryVars, tempClientID, mgrVars, handlerVars, crashed>>

\* --_tempClientID on a plain static int: a load and a store.  The ids are those of
\* an int that wraps, which is what the comment on it says and what the build does:
\* after MaxId of them the first is given again, whoever has it.
loadTempID(c) ==
  /\ regAt(c, "load")
  /\ tempID' = [tempID EXCEPT ![c] = (tempClientID % MaxId) + 1]
  /\ goReg(c, "store")
  /\ UNCHANGED <<netVars, registryVars, tempClientID, mgrVars, handlerVars, crashed>>

storeTempID(c) ==
  /\ regAt(c, "store")
  /\ tempClientID' = tempID[c]
  /\ goReg(c, "addFrom")
  /\ UNCHANGED <<netVars, registryVars, tempID, mgrVars, handlerVars, crashed>>

\* Mutant: whether the id has an entry is not looked at.
addFrom_Overwrite(c) ==
  /\ regAt(c, "addFrom")
  /\ addFromClientSocket(tempID[c], c)
  /\ goReg(c, "confirm")
  /\ UNCHANGED <<netVars, tempClientID, tempID, mgrVars, handlerVars, crashed>>

\* An id that has an entry already makes addFromClientSocket fail; the failure
\* reply cannot be built, since its type is not set yet, and the thread ends.
addFrom(c) ==
  /\ regAt(c, "addFrom")
  /\ IF Present(tempID[c])
       THEN endReg(c) /\ UNCHANGED registryVars
       ELSE /\ addFromClientSocket(tempID[c], c)
            /\ goReg(c, "confirm")
            /\ UNCHANGED sock
  /\ UNCHANGED <<peer, first, inbox, asked, received, tempClientID, tempID,
                 mgrVars, handlerVars, crashed>>

\* Mutant: the reply names _tempClientID as it is by now, not the local tempID.
confirm_Reread(c) ==
  /\ regAt(c, "confirm")
  /\ Lockable(tempID[c])
  /\ \E ok \in BOOLEAN :
       /\ sendConnectMessage(tempID[c], Message("CONNECT", tempClientID, TRUE), ok)
       /\ IF ok THEN endReg(c)
                ELSE goReg(c, "unframed") /\ UNCHANGED sock
  /\ UNCHANGED <<peer, first, inbox, asked, registryVars, tempClientID, tempID,
                 mgrVars, handlerVars, crashed>>

\* Mutant: the inner catch does not throw again.
confirm_NoThrow(c) ==
  /\ regAt(c, "confirm")
  /\ Lockable(tempID[c])
  /\ \E ok \in BOOLEAN :
       sendConnectMessage(tempID[c], Message("CONNECT", tempID[c], TRUE), ok)
  /\ endReg(c)
  /\ UNCHANGED <<peer, first, inbox, asked, registryVars, tempClientID, tempID,
                 mgrVars, handlerVars, crashed>>

confirm(c) ==
  /\ regAt(c, "confirm")
  /\ Lockable(tempID[c])
  /\ \E ok \in BOOLEAN :
       /\ sendConnectMessage(tempID[c], Message("CONNECT", tempID[c], TRUE), ok)
       /\ IF ok THEN endReg(c)
                ELSE goReg(c, "unframed") /\ UNCHANGED sock
  /\ UNCHANGED <<peer, first, inbox, asked, registryVars, tempClientID, tempID,
                 mgrVars, handlerVars, crashed>>

\* The catch block writes the failure to the socket without its size.
writeUnframed(c) ==
  /\ regAt(c, "unframed")
  /\ \E ok \in BOOLEAN : write(c, Message("UNFRAMED", tempID[c], FALSE), ok)
  /\ endReg(c)
  /\ UNCHANGED <<peer, first, inbox, asked, registryVars, tempClientID, tempID,
                 mgrVars, handlerVars, crashed>>

checkTo(c) ==
  /\ regAt(c, "isTo")
  /\ Lockable(first[c].id)
  /\ goReg(c, IF isToClientSocketRegistered(first[c].id) THEN "push" ELSE "addTo")
  /\ UNCHANGED <<netVars, registryVars, tempClientID, tempID, mgrVars,
                 handlerVars, crashed>>

\* Its result is not looked at: a second TO socket is dropped when the thread ends.
addTo(c) ==
  /\ regAt(c, "addTo")
  /\ addToClientSocket(first[c].id, c)
  /\ goReg(c, "push")
  /\ UNCHANGED <<netVars, tempClientID, tempID, mgrVars, handlerVars, crashed>>

pushAuth(c) ==
  /\ regAt(c, "push")
  /\ works' = works \cup {[type |-> "AUTHENTICATE", id |-> first[c].id, conn |-> c]}
  /\ endReg(c)
  /\ UNCHANGED <<peer, first, inbox, asked, received, registryVars, tempClientID,
                 tempID, mgr, job, started, handlerVars, crashed>>

-----------------------------------------------------------------------------
(* Manager m: UserManager::processWork and the functions it dispatches to.  *)

mgrAt(m, where) == ~ crashed /\ mgr[m] = where
goMgr(m, where) == mgr' = [mgr EXCEPT ![m] = where]

startJob(m) ==
  /\ mgrAt(m, "idle")
  /\ \E w \in works :
       /\ works' = works \ {w}
       /\ job' = [job EXCEPT ![m] = w]
       /\ goMgr(m, CASE w.type = "AUTHENTICATE" -> "checkTo"
                     [] w.type = "LOGOUT"       -> "bye"
                     [] OTHER                   -> "answer")
  /\ UNCHANGED <<netVars, registryVars, regVars, started, handlerVars, crashed>>

\* authUser: both sockets must be registered, asked one after the other.
authCheckTo(m) ==
  /\ mgrAt(m, "checkTo")
  /\ Lockable(job[m].id)
  /\ goMgr(m, IF isToClientSocketRegistered(job[m].id) THEN "checkFrom" ELSE "refuse")
  /\ UNCHANGED <<netVars, registryVars, regVars, works, job, started, handlerVars,
                 crashed>>

\* Mutant: only the TO socket is checked.
authCheckFrom_Skip(m) ==
  /\ mgrAt(m, "checkFrom")
  /\ goMgr(m, "find")
  /\ UNCHANGED <<netVars, registryVars, regVars, works, job, started, handlerVars,
                 crashed>>

authCheckFrom(m) ==
  /\ mgrAt(m, "checkFrom")
  /\ Lockable(job[m].id)
  /\ goMgr(m, IF isFromClientSocketRegistered(job[m].id) THEN "find" ELSE "refuse")
  /\ UNCHANGED <<netVars, registryVars, regVars, works, job, started, handlerVars,
                 crashed>>

\* _clientHandlerStarted.find: a client that has a handler gets no reply.
findStarted(m) ==
  /\ mgrAt(m, "find")
  /\ goMgr(m, IF job[m].id \in started THEN "idle" ELSE "spawn")
  /\ UNCHANGED <<netVars, registryVars, regVars, works, job, started, handlerVars,
                 crashed>>

spawnHandler(m) ==
  /\ mgrAt(m, "spawn")
  /\ \E h \in Handlers :
       /\ hpc[h] = "free"
       /\ \A g \in Handlers : hpc[g] = "free" => h <= g
       /\ hpc' = [hpc EXCEPT ![h] = "mutex"]
       /\ client' = [client EXCEPT ![h] = job[m].id]
  /\ goMgr(m, "mark")
  /\ UNCHANGED <<netVars, registryVars, regVars, works, job, started, reading, crashed>>

\* Mutant: the success reply is forgotten.
markStarted_NoReply(m) ==
  /\ mgrAt(m, "mark")
  /\ started' = started \cup {job[m].id}
  /\ goMgr(m, "idle")
  /\ UNCHANGED <<netVars, registryVars, regVars, works, job, handlerVars, crashed>>

markStarted(m) ==
  /\ mgrAt(m, "mark")
  /\ started' = started \cup {job[m].id}
  /\ goMgr(m, "welcome")
  /\ UNCHANGED <<netVars, registryVars, regVars, works, job, handlerVars, crashed>>

\* Sends whose result nobody looks at: the AUTH_RESPONSE, and the reply of
\* sendMessageToUser and of the other requests that only answer.
welcome(m) ==
  /\ mgrAt(m, "welcome")
  /\ Lockable(job[m].id)
  /\ \E ok \in BOOLEAN :
       sendMessageToClient(job[m].id, Message("AUTH_RESPONSE", job[m].id, TRUE), ok)
  /\ goMgr(m, "idle")
  /\ UNCHANGED <<sock, peer, first, inbox, asked, registryVars, regVars, works, job,
                 started, handlerVars, crashed>>

answer(m) ==
  /\ mgrAt(m, "answer")
  /\ Lockable(job[m].id)
  /\ \E ok \in BOOLEAN :
       sendMessageToClient(job[m].id, Message(job[m].type, job[m].id, TRUE), ok)
  /\ goMgr(m, "idle")
  /\ UNCHANGED <<sock, peer, first, inbox, asked, registryVars, regVars, works, job,
                 started, handlerVars, crashed>>

\* The catch block of authUser: the failure is sent, then the client is removed.
refuse(m) ==
  /\ mgrAt(m, "refuse")
  /\ Lockable(job[m].id)
  /\ \E ok \in BOOLEAN :
       sendMessageToClient(job[m].id, Message("AUTH_RESPONSE", job[m].id, FALSE), ok)
  /\ goMgr(m, "remove")
  /\ UNCHANGED <<sock, peer, first, inbox, asked, registryVars, regVars, works, job,
                 started, handlerVars, crashed>>

\* logoutUser: the reply, once more as a failure if it could not be sent.
bye(m) ==
  /\ mgrAt(m, "bye")
  /\ Lockable(job[m].id)
  /\ \E ok \in BOOLEAN :
       /\ sendMessageToClient(job[m].id, Message("LOGOUT", job[m].id, TRUE), ok)
       /\ goMgr(m, IF ok THEN "remove" ELSE "byeAgain")
  /\ UNCHANGED <<sock, peer, first, inbox, asked, registryVars, regVars, works, job,
                 started, handlerVars, crashed>>

\* Mutant: no cleanup after a logout whose reply failed.
byeAgain_NoCleanup(m) ==
  /\ mgrAt(m, "byeAgain")
  /\ Lockable(job[m].id)
  /\ \E ok \in BOOLEAN :
       sendMessageToClient(job[m].id, Message("LOGOUT", job[m].id, FALSE), ok)
  /\ goMgr(m, "idle")
  /\ UNCHANGED <<sock, peer, first, inbox, asked, registryVars, regVars, works, job,
                 started, handlerVars, crashed>>

byeAgain(m) ==
  /\ mgrAt(m, "byeAgain")
  /\ Lockable(job[m].id)
  /\ \E ok \in BOOLEAN :
       sendMessageToClient(job[m].id, Message("LOGOUT", job[m].id, FALSE), ok)
  /\ goMgr(m, "remove")
  /\ UNCHANGED <<sock, peer, first, inbox, asked, registryVars, regVars, works, job,
                 started, handlerVars, crashed>>

afterRemove(m) == IF job[m].type = "LOGOUT" THEN "unmark" ELSE "idle"

mgrEraseEntry(m) ==
  /\ mgrAt(m, "remove")
  /\ Lockable(job[m].id)
  /\ IF job[m].id \in mutexes /\ Present(job[m].id)
       THEN eraseEntry(job[m].id) /\ goMgr(m, "removeMutex")
       ELSE goMgr(m, afterRemove(m)) /\ UNCHANGED <<sock, registryVars>>
  /\ UNCHANGED <<peer, first, inbox, asked, received, regVars, works, job, started,
                 handlerVars, crashed>>

mgrEraseMutex(m) ==
  /\ mgrAt(m, "removeMutex")
  /\ removeClientSocketMutex(job[m].id)
  /\ goMgr(m, afterRemove(m))
  /\ UNCHANGED <<netVars, regVars, works, job, started, handlerVars, crashed>>

unmark(m) ==
  /\ mgrAt(m, "unmark")
  /\ started' = started \ {job[m].id}
  /\ goMgr(m, "idle")
  /\ UNCHANGED <<netVars, registryVars, regVars, works, job, handlerVars, crashed>>

-----------------------------------------------------------------------------
(* Handler thread h: Server::handleClient.                                 *)

handlerAt(h, where) == ~ crashed /\ hpc[h] = where
goHandler(h, where) == hpc' = [hpc EXCEPT ![h] = where]

\* getClientSocketIP finds the mutex ...
findMutex(h) ==
  /\ handlerAt(h, "mutex")
  /\ goHandler(h, IF client[h] \in mutexes THEN "ip" ELSE "remove")
  /\ UNCHANGED <<netVars, registryVars, regVars, mgrVars, client, reading, crashed>>

\* ... locks it and dereferences fromSocket without looking whether the client or
\* its FROM socket is still there.  A client that has gone has no address.
readIP(h) ==
  /\ handlerAt(h, "ip")
  /\ Lockable(client[h])
  /\ LET c == fromSocket[client[h]]
     IN IF c = NoConn
          THEN crashed' = TRUE /\ UNCHANGED hpc
          ELSE /\ \/ goHandler(h, "next")
                  \/ peer[c] = "gone" /\ goHandler(h, "remove")
               /\ UNCHANGED crashed
  /\ UNCHANGED <<netVars, registryVars, regVars, mgrVars, client, reading>>

\* readMessageFromClient fetches the FROM socket; the read itself blocks.
nextMessage(h) ==
  /\ handlerAt(h, "next")
  /\ Lockable(client[h])
  /\ IF isFromClientSocketRegistered(client[h])
       THEN /\ reading' = [reading EXCEPT ![h] = fromSocket[client[h]]]
            /\ goHandler(h, "blocked")
       ELSE /\ goHandler(h, "remove")
            /\ UNCHANGED reading
  /\ UNCHANGED <<netVars, registryVars, regVars, mgrVars, client, crashed>>

\* A message arrives and is routed to the user balancer.
route(h) ==
  /\ handlerAt(h, "blocked")
  /\ LET c == reading[h]
     IN /\ sock[c] = "open"
        /\ inbox[c] # << >>
        /\ LET msg == Head(inbox[c])
           IN works' = works \cup {[type |-> msg.type, id |-> msg.id, conn |-> c]}
        /\ inbox' = [inbox EXCEPT ![c] = Tail(@)]
  /\ goHandler(h, "next")
  /\ UNCHANGED <<sock, peer, first, asked, received, registryVars, regVars, mgr, job,
                 started, client, reading, crashed>>

\* Mutant: continue instead of break after a failed read.
endOfStream_Continue(h) ==
  /\ handlerAt(h, "blocked")
  /\ peer[reading[h]] = "gone"
  /\ inbox[reading[h]] = << >> \/ sock[reading[h]] = "closed"
  /\ goHandler(h, "next")
  /\ UNCHANGED <<netVars, registryVars, regVars, mgrVars, client, reading, crashed>>

\* Mutant: return instead of break after a failed read.
endOfStream_Return(h) ==
  /\ handlerAt(h, "blocked")
  /\ peer[reading[h]] = "gone"
  /\ inbox[reading[h]] = << >> \/ sock[reading[h]] = "closed"
  /\ goHandler(h, "done")
  /\ UNCHANGED <<netVars, registryVars, regVars, mgrVars, client, reading, crashed>>

\* The client has gone and everything it sent was read, or the server has closed
\* the socket: the read fails.
endOfStream(h) ==
  /\ handlerAt(h, "blocked")
  /\ peer[reading[h]] = "gone"
  /\ inbox[reading[h]] = << >> \/ sock[reading[h]] = "closed"
  /\ goHandler(h, "remove")
  /\ UNCHANGED <<netVars, registryVars, regVars, mgrVars, client, reading, crashed>>

\* Closing a socket another thread is blocked on need not wake that thread.
readAborted(h) ==
  /\ handlerAt(h, "blocked")
  /\ sock[reading[h]] = "closed"
  /\ peer[reading[h]] = "open"
  /\ goHandler(h, "remove")
  /\ UNCHANGED <<netVars, registryVars, regVars, mgrVars, client, reading, crashed>>

handlerEraseEntry(h) ==
  /\ handlerAt(h, "remove")
  /\ Lockable(client[h])
  /\ IF client[h] \in mutexes /\ Present(client[h])
       THEN eraseEntry(client[h]) /\ goHandler(h, "removeMutex")
       ELSE goHandler(h, "done") /\ UNCHANGED <<sock, registryVars>>
  /\ UNCHANGED <<peer, first, inbox, asked, received, regVars, mgrVars, client,
                 reading, crashed>>

handlerEraseMutex(h) ==
  /\ handlerAt(h, "removeMutex")
  /\ removeClientSocketMutex(client[h])
  /\ goHandler(h, "done")
  /\ UNCHANGED <<netVars, regVars, mgrVars, client, reading, crashed>>

-----------------------------------------------------------------------------
registerClient(c) ==
  \/ readFirst(c) \/ checkFrom(c) \/ reject(c)
  \/ loadTempID(c) \/ storeTempID(c) \/ addFrom(c) \/ confirm(c) \/ writeUnframed(c)
  \/ checkTo(c) \/ addTo(c) \/ pushAuth(c)

authUser(m) ==
  \/ authCheckTo(m) \/ authCheckFrom(m) \/ findStarted(m) \/ spawnHandler(m)
  \/ markStarted(m) \/ welcome(m) \/ refuse(m)

logoutUser(m) == bye(m) \/ byeAgain(m) \/ unmark(m)

processWork(m) ==
  \/ startJob(m) \/ authUser(m) \/ logoutUser(m) \/ answer(m)
  \/ mgrEraseEntry(m) \/ mgrEraseMutex(m)

handleClient(h) ==
  \/ findMutex(h) \/ readIP(h) \/ nextMessage(h) \/ route(h) \/ endOfStream(h)
  \/ handlerEraseEntry(h) \/ handlerEraseMutex(h)

\* Nothing is left to do: all clients have gone, or the process has died.
terminated ==
  /\ \/ crashed
     \/ /\ \A c \in Conns : peer[c] = "gone" /\ reg[c] = "done"
        /\ works = {}
        /\ \A m \in Managers : mgr[m] = "idle"
        /\ \A h \in Handlers : hpc[h] \in {"free", "done"}
  /\ UNCHANGED vars

Next ==
  \/ \E c \in Conns : open(c) \/ request(c) \/ leave(c) \/ registerClient(c)
  \/ \E m \in Managers : processWork(m)
  \/ \E h \in Handlers : handleClient(h) \/ readAborted(h)
  \/ terminated

Spec == Init /\ [][Next]_vars

\* Every thread of the server runs on; clients owe nothing, and a thread blocked
\* on a socket the server has closed may stay blocked until the client goes.
Fairness ==
  /\ \A c \in Conns : WF_vars(registerClient(c))
  /\ \A m \in Managers : WF_vars(processWork(m))
  /\ \A h \in Handlers : WF_vars(handleClient(h))

FairSpec == Spec /\ Fairness
-----------------------------------------------------------------------------
(* Properties.                                                             *)

RegistrationPlaces ==
  {"unborn", "read", "isFrom", "reject", "load", "store", "addFrom", "confirm", "unframed",
   "isTo", "addTo", "push", "done"}
ManagerPlaces ==
  {"idle", "checkTo", "checkFrom", "find", "spawn", "mark", "welcome", "refuse", "bye",
   "byeAgain", "answer", "remove", "removeMutex", "unmark"}
HandlerPlaces == {"free", "mutex", "ip", "next", "blocked", "remove", "removeMutex", "done"}

RequestMessages == [type : Requests, id : Ids]
Works == [type : {"AUTHENTICATE"} \cup Requests, id : Ids, conn : Conns]

TypeOK ==
  /\ sock \in [Conns -> {"none", "open", "closed"}]
  /\ peer \in [Conns -> {"none", "open", "gone"}]
  /\ first \in [Conns -> [type : {"NONE", "CONNECT", "AUTHENTICATE", "OTHER"}, id : 0 .. MaxId]]
  /\ inbox \in [Conns -> Seq(RequestMessages)]
  /\ asked \in [Conns -> SUBSET RequestMessages]
  /\ received \in [Conns -> SUBSET [type : Types, id : Ids, success : BOOLEAN]]
  /\ fromSocket \in [Ids -> Conns \cup {NoConn}]
  /\ toSocket \in [Ids -> Conns \cup {NoConn}]
  /\ mutexes \subseteq Ids
  /\ tempClientID \in 0 .. MaxId
  /\ reg \in [Conns -> RegistrationPlaces]
  /\ tempID \in [Conns -> 0 .. MaxId]
  /\ works \subseteq Works
  /\ mgr \in [Managers -> ManagerPlaces]
  /\ job \in [Managers -> Works \cup {NoMessage}]
  /\ started \subseteq Ids
  /\ hpc \in [Handlers -> HandlerPlaces]
  /\ client \in [Handlers -> 0 .. MaxId]
  /\ reading \in [Handlers -> Conns \cup {NoConn}]
  /\ crashed \in BOOLEAN

\* A socket in the registry is open at the server's end: no thread is given a
\* socket that removeClientSocket or the end of its registration closed.
RegisteredAreOpen ==
  \A i \in Ids : \A c \in {fromSocket[i], toSocket[i]} \ {NoConn} : sock[c] = "open"

\* A socket the server has not closed belongs to somebody: its registration thread
\* or the registry.  None leaks (the shared_ptrs of Server.cpp:102-187, 505-524).
OpenAreOwned ==
  \A c \in Conns : sock[c] = "open" =>
    reg[c] # "done" \/ \E i \in Ids : c \in {fromSocket[i], toSocket[i]}

\* What a step may do to an entry's places: keep them, fill an empty one, empty one.
SocketsAreKept ==
  \A i \in Ids :
    /\ fromSocket[i] # NoConn => fromSocket'[i] \in {fromSocket[i], NoConn}
    /\ toSocket[i] # NoConn => toSocket'[i] \in {toSocket[i], NoConn}

\* The sockets of a client are never taken over by another connection: an id that is
\* given twice, by two threads at once or after the ids have wrapped (Server.hpp:33),
\* and a second AUTHENTICATE leave an entry as it is until it is removed.
SocketsAreNotReplaced == [][SocketsAreKept]_vars

\* Of the connections that were told the same temporary id at most one is open: an
\* id is shared only after its first holder was removed (Server.cpp:191, 473-482).
LiveIdsAreUnique ==
  \A i \in Ids : Cardinality({c \in Told(i) : sock[c] = "open"}) <= 1

\* Two connections were given the id.
Shared(i) == \E c, d \in Conns : c # d /\ tempID[c] = i /\ tempID[d] = i

\* The handler threads of a client that may still touch its sockets.
Live(i) == {h \in Handlers : client[h] = i /\ hpc[h] \notin {"free", "done"}}

\* _clientHandlerStarted keeps a client from getting two handler threads, which
\* would share the bytes of one stream between them (UserManager.cpp:80-85).
OneHandlerPerClient == \A i \in Ids : Cardinality(Live(i)) <= 1

\* The server never dereferences a null FROM socket (Server.cpp:565).
NoCrash == ~ crashed

\* What puts the end of a session of id i before its beginning: i is authenticated
\* on two connections, or a LOGOUT of i is sent.
Again(i) ==
  \E c, d \in Conns : c # d /\ first[c] = Authenticate(i) /\ first[d] = Authenticate(i)
LoggedOut(i) == \E c \in Conns : Request("LOGOUT", i) \in asked[c]
Misused(i) == Again(i) \/ LoggedOut(i)

\* A handler finds its client's FROM socket gone between finding the mutex and
\* asking for the address only if somebody authenticated that client twice or sent
\* a LOGOUT naming it (Server.cpp:559-570).
NullOnlyIfMisused ==
  \A h \in Handlers :
    hpc[h] = "ip" /\ fromSocket[client[h]] = NoConn => Misused(client[h])

\* A client that had a session is neither registered nor half removed when its
\* threads are done, whatever other clients do; its id stays in
\* _clientHandlerStarted (UserManager.cpp:80, Server.cpp:318).
EndedSessionIsUnregistered ==
  \A i \in Ids :
    /\ \E h \in Handlers : client[h] = i /\ hpc[h] = "done"
    /\ ~ Shared(i) /\ ~ Misused(i)
    => ~ Present(i) /\ i \notin mutexes

\* Whatever ids clients claim, a message on a connection is about the client that
\* opened it: a CONNECT reply about the id it was given, the rest about the id it
\* authenticated.  One kind of message answers somebody else's: the refusal of a
\* CONNECT that claims this client's id (Server.cpp:148-154).
RepliesAreAddressed ==
  \A c \in Conns : \A msg \in received[c] :
    \/ /\ first[c].type = "CONNECT"
       /\ msg.type \in {"CONNECT", "UNFRAMED"}
       /\ msg.id = tempID[c]
    \/ /\ first[c] = Authenticate(msg.id)
       /\ msg.type = "CONNECT" => ~ msg.success /\ \E d \in Conns : first[d] = Connect(msg.id)

\* Once its thread is done, a CONNECT was answered on the connection it came on, be it by
\* the failure without a size, or that connection is closed: a client neither waits for
\* ever nor stays registered without having been told (Server.cpp:197-231).
ConnectIsSettled ==
  \A c \in Conns :
    first[c].type = "CONNECT" /\ reg[c] = "done"
      => peer[c] = "gone" \/ sock[c] = "closed" \/ received[c] # {}

\* A message on a connection is about the client that connection belongs to: a
\* CONNECT reply about the id it was given, the rest about the id it authenticated.
RepliesReachTheirClient ==
  \A c \in Conns : \A msg \in received[c] :
    IF first[c].type = "CONNECT" THEN msg.type \in {"CONNECT", "UNFRAMED"} /\ msg.id = tempID[c]
                                 ELSE first[c] = Authenticate(msg.id) /\ msg.type # "CONNECT"

\* Every AUTHENTICATE of a client that stays is answered on the connection it came
\* on, or that connection is closed (MessageType.hpp:5-6).
AuthenticateIsAnswered ==
  \A c \in Conns, i \in Ids :
    first[c] = Authenticate(i)
      ~> \/ peer[c] = "gone"
         \/ sock[c] = "closed"
         \/ \A d \in Told(i) : peer[d] = "gone"
         \/ \E msg \in received[c] : msg.type = "AUTH_RESPONSE"

\* A handler whose client goes ends, and its client is removed.
GoneIsRemoved ==
  \A i \in Ids :
    Live(i) # {} /\ (\A c \in Told(i) : peer[c] = "gone")
      ~> crashed \/ (Live(i) = {} /\ ~ Present(i) /\ i \notin mutexes)

\* A logout that was read removes the client even when its reply cannot be sent.
LogoutRemoves ==
  \A i \in Ids :
    (\E m \in Managers : mgr[m] = "bye" /\ job[m].id = i)
      ~> crashed \/ (~ Present(i) /\ i \notin mutexes /\ i \notin started)
=============================================================================
