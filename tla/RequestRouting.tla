---------------------------- MODULE RequestRouting ----------------------------
(***************************************************************************)
(* The requests of one authenticated client and the answers to them: the   *)
(* handler thread routes a request by its type to one of three balancers   *)
(* (Server::handleClient), a manager of that balancer answers it           *)
(* (UserManager, ChatroomManager, LogManager), and every answer is written *)
(* to the client's TO socket in two writes, its size and its body           *)
(* (Server::sendMessageToSocket), under no lock.                           *)
(*                                                                         *)
(* Nobody compares the id a message names with the client it comes from, so *)
(* a message is of one of four origins:                                     *)
(*   "own"    this client's, naming itself;                                 *)
(*   "away"   this client's, naming somebody else, who is answered;         *)
(*   "other"  another client's, naming this one, who is answered;           *)
(*   "first"  the first message on a connection of its own, naming this     *)
(*            client, who is told the failure (Server::registerClient).     *)
(*                                                                         *)
(* A message is named by its position in the order in which all were sent.  *)
(* A balancer's queue is the set of its waiting works, from which any of    *)
(* its managers may take any: WorkDispatch promises the order of one        *)
(* manager's works only, and a work of another client may be among them.    *)
(* The registry is reduced to whether this client is in it: its sockets     *)
(* are opened before and closed by ClientSession's removeClientSocket.      *)
(***************************************************************************)
EXTENDS Naturals, Sequences, FiniteSets

CONSTANTS UserManagers, ChatroomManagers, LogManagers,  \* the balancers' managers
          Handler,      \* the client's handler thread
          Registrars,   \* the registration threads of other connections
          Types,        \* the types of the messages
          MaxRequests,  \* bound: how many messages there are
          MaxStrays     \* bound: how many of them are not the client's own

UserTypes == {"LOGOUT", "ADD_USER", "CHANGE_USER_PASSWORD", "CHANGE_USER_NAME",
              "DELETE_USER", "SEND_MESSAGE_TO_USER"}
ChatroomTypes == {"CREATE_CHATROOM", "DELETE_CHATROOM", "ADD_USER_TO_CHATROOM",
                  "SEND_MESSAGE_TO_CHATROOM", "REMOVE_USER_FROM_CHATROOM"}
LogTypes == {"GET_TO_USER_MESSAGES", "GET_FROM_USER_MESSAGES",
             "GET_BETWEEN_USERS_MESSAGES", "GET_CHATROOM_MESSAGES",
             "GET_CHATROOM_MESSAGES_FROM_USER"}
RegistrationTypes == {"CONNECT", "AUTHENTICATE", "AUTH_RESPONSE"}

Managers == UserManagers \cup ChatroomManagers \cup LogManagers
Threads == Managers \cup {Handler} \cup Registrars

ASSUME ConstantsAssumption ==
  /\ UserManagers \cap ChatroomManagers = {}
  /\ LogManagers \cap (UserManagers \cup ChatroomManagers) = {}
  /\ Handler \notin Managers /\ Registrars \cap (Managers \cup {Handler}) = {}
  /\ Types \subseteq UserTypes \cup ChatroomTypes \cup LogTypes \cup RegistrationTypes
  /\ MaxRequests \in Nat /\ MaxStrays \in Nat

VARIABLES
  waits,      \* does the client await the answer to a request before it sends the next
  sent,       \* the messages' types and origins, in the order they were sent
  present,    \* is the client there
  taken,      \* the last message the handler has read, 0 before the first
  workQueue,  \* the works between each balancer and its managers
  registered, \* are the client's sockets in the registry, and open
  pc,         \* where every thread is
  job,        \* the message it serves, 0 if none
  failed,     \* is it sending the failure of logoutUser's catch block
  stream      \* what was written to the TO socket

vars == <<waits, sent, present, taken, workQueue, registered, pc, job, failed, stream>>

Balancers == {"user", "chatroom", "log"}
Routed == [user |-> UserTypes, chatroom |-> ChatroomTypes, log |-> LogTypes]

Init ==
  /\ waits \in BOOLEAN
  /\ sent = << >>
  /\ present = TRUE
  /\ taken = 0
  /\ workQueue = [b \in Balancers |-> {}]
  /\ registered = TRUE
  /\ pc = [t \in Threads |-> IF t = Handler THEN "look" ELSE "idle"]
  /\ job = [t \in Threads |-> 0]
  /\ failed = [t \in Threads |-> FALSE]
  /\ stream = << >>

-----------------------------------------------------------------------------
(* The client, and the others that name it.                                *)

Answered(n) == \E i \in DOMAIN stream : stream[i].part = "body" /\ stream[i].request = n

\* The messages that come on the client's own connection.
Mine(n) == sent[n].via \in {"own", "away"}

\* Those answered on this client's: the answer names who the message names, but the
\* handler's refusal goes to the client it reads from.  Log requests have none.
AnsweredHere(n) ==
  \/ sent[n].via = "first"
  \/ sent[n].via = "away" /\ sent[n].type \in RegistrationTypes
  \/ sent[n].via \in {"own", "other"} /\ sent[n].type \notin LogTypes

mayStray == Cardinality({n \in DOMAIN sent : sent[n].via # "own"}) < MaxStrays

send(type, via) ==
  /\ Len(sent) < MaxRequests
  /\ via # "own" => mayStray
  /\ sent' = Append(sent, [type |-> type, via |-> via])

\* Requests are sent as long as the client has not logged out; one that waits for its
\* answers waits for all that will come.
request ==
  /\ present
  /\ \A n \in DOMAIN sent : Mine(n) =>
       /\ sent[n] # [type |-> "LOGOUT", via |-> "own"]
       /\ waits /\ AnsweredHere(n) => Answered(n)
  /\ \E t \in Types, v \in {"own", "away"} : send(t, v)
  /\ UNCHANGED <<waits, present, taken, workQueue, registered, pc, job, failed, stream>>

leave ==
  /\ present
  /\ present' = FALSE
  /\ UNCHANGED <<waits, sent, taken, workQueue, registered, pc, job, failed, stream>>

-----------------------------------------------------------------------------
(* Writing an answer, by a manager, the handler or a registration thread.   *)

at(t, where) == pc[t] = where
go(t, where) == pc' = [pc EXCEPT ![t] = where]

\* What comes after an answer: logoutUser removes the client, the handler reads on, a
\* registration thread ends.
afterAnswer(t) ==
  CASE t = Handler       -> "look"
    [] t \in Registrars  -> "done"
    [] t \in Managers    -> IF sent[job[t]].type = "LOGOUT" THEN "remove" ELSE "idle"

\* A failed send is noticed by logoutUser only, which sends a failure once more.
giveUp(t) ==
  IF t \in Managers /\ sent[job[t]].type = "LOGOUT" /\ ~ failed[t]
    THEN /\ failed' = [failed EXCEPT ![t] = TRUE]
         /\ go(t, "find")
    ELSE /\ go(t, afterAnswer(t))
         /\ UNCHANGED failed

Part(t, part) ==
  [part |-> part, request |-> job[t], success |-> t \in Managers /\ ~ failed[t]]

\* sendMessageToClient looks the TO socket up ...
findSocket(t) ==
  /\ at(t, "find")
  /\ IF registered THEN go(t, "size") /\ UNCHANGED failed
                   ELSE giveUp(t)
  /\ UNCHANGED <<waits, sent, present, taken, workQueue, registered, job, stream>>

\* ... and one write may succeed or, once either end is closed, fail; what is
\* written to a client that has gone is lost.
writePart(t, part, next) ==
  \/ /\ registered
     /\ go(t, next)
     /\ stream' = IF present THEN Append(stream, Part(t, part)) ELSE stream
     /\ UNCHANGED failed
  \/ /\ ~ (registered /\ present)
     /\ giveUp(t)
     /\ UNCHANGED stream

writeSize(t) ==
  /\ at(t, "size")
  /\ writePart(t, "size", "body")
  /\ UNCHANGED <<waits, sent, present, taken, workQueue, registered, job>>

writeBody(t) ==
  /\ at(t, "body")
  /\ writePart(t, "body", afterAnswer(t))
  /\ UNCHANGED <<waits, sent, present, taken, workQueue, registered, job>>

\* removeClientSocket closes both sockets.
removeClientSocket(t) ==
  /\ at(t, "remove")
  /\ registered' = FALSE
  /\ go(t, IF t = Handler THEN "done" ELSE "idle")
  /\ UNCHANGED <<waits, sent, present, taken, workQueue, job, failed, stream>>

-----------------------------------------------------------------------------
(* The handler thread.                                                     *)

\* A work is pushed into the queue of the balancer of its type, if it has one.
pushWork(n, type) ==
  workQueue' = [b \in Balancers |-> IF type \in Routed[b] THEN workQueue[b] \cup {n}
                                                          ELSE workQueue[b]]

\* readMessageFromClient fetches the FROM socket; the read itself blocks.
nextMessage ==
  /\ at(Handler, "look")
  /\ go(Handler, IF registered THEN "read" ELSE "remove")
  /\ UNCHANGED <<waits, sent, present, taken, workQueue, registered, job, failed, stream>>

Unread == {n \in DOMAIN sent : n > taken /\ Mine(n)}
IsNext(n) == n \in Unread /\ \A k \in Unread : n <= k

\* A message that names somebody else becomes a work about them.
routeWork(n) ==
  IF sent[n].via = "own" THEN pushWork(n, sent[n].type) ELSE UNCHANGED workQueue

\* Mutant: the message is not consumed.
route_NotConsumed ==
  /\ at(Handler, "read")
  /\ registered
  /\ \E n \in DOMAIN sent : IsNext(n) /\ routeWork(n)
  /\ go(Handler, "look")
  /\ UNCHANGED <<waits, sent, present, taken, registered, job, failed, stream>>

\* Mutant: the case of the log requests has no break and falls into the default.
route_FallThrough ==
  /\ at(Handler, "read")
  /\ registered
  /\ \E n \in DOMAIN sent :
       /\ IsNext(n)
       /\ taken' = n
       /\ routeWork(n)
       /\ IF sent[n].type \in RegistrationTypes \cup LogTypes
            THEN job' = [job EXCEPT ![Handler] = n] /\ go(Handler, "find")
            ELSE UNCHANGED job /\ go(Handler, "look")
  /\ UNCHANGED <<waits, sent, present, registered, failed, stream>>

\* Mutant: a message that has no balancer ends the loop.
route_Break ==
  /\ at(Handler, "read")
  /\ registered
  /\ \E n \in DOMAIN sent :
       /\ IsNext(n)
       /\ taken' = n
       /\ routeWork(n)
       /\ go(Handler, IF sent[n].type \in RegistrationTypes THEN "remove" ELSE "look")
  /\ UNCHANGED <<waits, sent, present, registered, job, failed, stream>>

\* The next request goes to the balancer of its type; a message that has none is
\* answered with a failure by the handler itself.
route ==
  /\ at(Handler, "read")
  /\ registered
  /\ \E n \in DOMAIN sent :
       /\ IsNext(n)
       /\ taken' = n
       /\ routeWork(n)
       /\ IF sent[n].type \in RegistrationTypes
            THEN job' = [job EXCEPT ![Handler] = n] /\ go(Handler, "find")
            ELSE UNCHANGED job /\ go(Handler, "look")
  /\ UNCHANGED <<waits, sent, present, registered, failed, stream>>

\* The read fails: the client has left and all it sent was read, or its socket was
\* closed as well.
endOfStream ==
  /\ at(Handler, "read")
  /\ ~ present
  /\ ~ registered \/ Unread = {}
  /\ go(Handler, "remove")
  /\ UNCHANGED <<waits, sent, present, taken, workQueue, registered, job, failed, stream>>

\* Closing a socket another thread is blocked on need not wake that thread.
readAborted ==
  /\ at(Handler, "read")
  /\ present /\ ~ registered
  /\ go(Handler, "remove")
  /\ UNCHANGED <<waits, sent, present, taken, workQueue, registered, job, failed, stream>>

-----------------------------------------------------------------------------
(* The threads of other connections, as far as this client notices them.    *)

\* Another client's handler routes a request that names this client.
routeOther ==
  /\ \E t \in Types \ RegistrationTypes : send(t, "other") /\ pushWork(Len(sent) + 1, t)
  /\ UNCHANGED <<waits, present, taken, registered, pc, job, failed, stream>>

\* registerClient: a connection may not begin with this message, or, with a CONNECT,
\* not claim an id that is registered.  (An AUTHENTICATE finds this client's handler
\* started, and nothing is answered.)
registerClient(r) ==
  /\ r \in Registrars /\ at(r, "idle")
  /\ \E t \in Types \ {"AUTHENTICATE"} : send(t, "first")
  /\ job' = [job EXCEPT ![r] = Len(sent) + 1]
  /\ go(r, "find")
  /\ UNCHANGED <<waits, present, taken, workQueue, registered, failed, stream>>

-----------------------------------------------------------------------------
(* Manager m: processWork of its kind.  Outside the mock build every         *)
(* operation only answers.  (addUser also writes two lookup maps that nothing *)
(* in the program reads.)                                                  *)

\* Mutant: the work stays in the queue.
take_NoPop(m, b, next) ==
  /\ at(m, "idle")
  /\ \E n \in workQueue[b] : job' = [job EXCEPT ![m] = n]
  /\ go(m, next)
  /\ failed' = [failed EXCEPT ![m] = FALSE]
  /\ UNCHANGED <<waits, sent, present, taken, workQueue, stream>>

take(m, b, next) ==
  /\ at(m, "idle")
  /\ \E n \in workQueue[b] :
       /\ workQueue' = [workQueue EXCEPT ![b] = @ \ {n}]
       /\ job' = [job EXCEPT ![m] = n]
  /\ go(m, next)
  /\ failed' = [failed EXCEPT ![m] = FALSE]
  /\ UNCHANGED <<waits, sent, present, taken, stream>>

\* Mutant: logoutUser removes the client before it answers.
userWork_RemoveFirst(m) ==
  /\ m \in UserManagers
  /\ take(m, "user", "find")
  /\ registered' = (registered /\ sent[job'[m]].type # "LOGOUT")

userWork(m) == m \in UserManagers /\ take(m, "user", "find") /\ UNCHANGED registered

chatroomWork(m) ==
  m \in ChatroomManagers /\ take(m, "chatroom", "find") /\ UNCHANGED registered

\* answerLogRequest computes nothing and answers nothing.
logWork(m) == m \in LogManagers /\ take(m, "log", "idle") /\ UNCHANGED registered

-----------------------------------------------------------------------------
sendMessageToClient(t) == findSocket(t) \/ writeSize(t) \/ writeBody(t)

handleClient == nextMessage \/ route \/ endOfStream \/ sendMessageToClient(Handler)
                  \/ removeClientSocket(Handler)

manage(m) ==
  \/ userWork(m) \/ chatroomWork(m) \/ logWork(m)
  \/ sendMessageToClient(m) \/ removeClientSocket(m)

terminated ==
  /\ ~ present
  /\ at(Handler, "done")
  /\ \A t \in Managers \cup Registrars : pc[t] \in {"idle", "done"}
  /\ \A b \in Balancers : workQueue[b] = {}
  /\ UNCHANGED vars

Next ==
  \/ request \/ leave
  \/ handleClient \/ readAborted
  \/ \E m \in Managers : manage(m)
  \/ routeOther
  \/ \E r \in Registrars : registerClient(r) \/ sendMessageToClient(r)
  \/ terminated

Spec == Init /\ [][Next]_vars

\* The server's threads run on; a client owes nothing, but that it reads what it is
\* sent, or goes.
FairSpec ==
  /\ Spec
  /\ WF_vars(handleClient)
  /\ \A m \in Managers : WF_vars(manage(m))
  /\ \A r \in Registrars : WF_vars(sendMessageToClient(r))

-----------------------------------------------------------------------------
(* Properties.                                                             *)

Origins == {"own", "away", "other", "first"}

\* The messages some thread of the server has read.
Handed == {n \in DOMAIN sent : Mine(n) => n <= taken}

TypeOK ==
  /\ sent \in Seq([type : Types, via : Origins]) /\ Len(sent) <= MaxRequests
  /\ {waits, present, registered} \subseteq BOOLEAN
  /\ taken \in 0 .. Len(sent)
  /\ workQueue \in [Balancers -> SUBSET Handed]
  /\ pc \in [Threads -> {"look", "read", "idle", "find", "size", "body", "remove", "done"}]
  /\ job \in [Threads -> Handed \cup {0}]
  /\ failed \in [Threads -> BOOLEAN]
  /\ stream \in Seq([part : {"size", "body"}, request : Handed, success : BOOLEAN])

\* The bytes on the TO socket are whole messages, each size followed by its own
\* body, as its reader expects (demo_client/demo.cpp:29-42).
FramesAreWhole ==
  \A i \in DOMAIN stream :
    IF i % 2 = 1 THEN stream[i].part = "size"
                 ELSE stream[i] = [stream[i - 1] EXCEPT !.part = "body"]

\* No lock keeps two answers apart (Server.cpp:331-332), yet no two are ever being
\* written at once when the client awaits the answers to each request before the next,
\* and nobody else's message names it: log requests, which it cannot await, are not
\* answered at all.
FramesAreWholeInTurn ==
  waits /\ (\A n \in DOMAIN sent : Mine(n)) => FramesAreWhole

\* No request is answered twice: it is given to one balancer, one manager takes
\* it, and the failure logoutUser sends after a failed answer never arrives where
\* the answer did.
AnsweredOnce ==
  \A i, j \in DOMAIN stream :
    stream[i].part = "body" /\ stream[j].part = "body" /\ i # j
      => stream[i].request # stream[j].request

\* A client is told of a failure only for a message that has no business on an
\* authenticated connection, or none as the first on another: the failure of
\* logoutUser's catch block (UserManager.cpp:136-142) can never reach it.
OnlyMisplacedFail ==
  \A i \in DOMAIN stream :
    LET message == sent[stream[i].request]
    IN stream[i].success <=> message.via # "first" /\ message.type \notin RegistrationTypes

\* The LOGOUTs that end this client's session.
Ends(n) == sent[n].type = "LOGOUT" /\ sent[n].via \in {"own", "other"}

\* The session ends by the client's leaving or a LOGOUT that names it and was routed:
\* nothing else that is sent by the client or to its account, misplaced, about somebody
\* else, or first on another connection, makes the server hang up.
SessionSurvives ==
  ~ registered => ~ present \/ \E n \in DOMAIN sent : Ends(n)

\* Every request a client that stays can be answered is answered, LOGOUT included: the
\* answer goes out before the socket is closed (UserManager.cpp:126-134).  Only a LOGOUT
\* served by another manager overtakes it, the client's own if it does not wait for
\* its answers, or somebody else's.
RequestIsAnswered ==
  \A n \in 1 .. MaxRequests :
    n \in DOMAIN sent /\ AnsweredHere(n)
      ~> \/ ~ present \/ Answered(n)
         \/ n \in DOMAIN sent /\ \E k \in DOMAIN sent \ {n} :
              Ends(k) /\ ~ (waits /\ Mine(n) /\ Mine(k))
=============================================================================
