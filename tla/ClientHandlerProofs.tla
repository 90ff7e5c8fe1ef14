-------------------------- MODULE ClientHandlerProofs --------------------------
(***************************************************************************)
(* Where the works of ClientSession come from, that a client gets one       *)
(* handler thread at most, that a handler finds the socket it dereferences, *)
(* and that nothing of a client stays registered when its handler is done:  *)
(* for any number of connections, managers, ids and handler threads, and     *)
(* for every client that is authenticated on one connection, whatever the    *)
(* others do.                                                                *)
(***************************************************************************)
EXTENDS ClientIdProofs, SequenceTheorems

\* A manager that processes an AUTHENTICATE.
Auth(m) == mgr[m] # "idle" /\ job[m].type = "AUTHENTICATE"

\* A handler thread that has not yet read the address of its client, and one that
\* has, or has found no mutex.
Young(h) == hpc[h] \in {"mutex", "ip"}
Old(h)   == hpc[h] \notin {"free", "mutex", "ip"}

Spawned(i) == \E h \in Handlers : hpc[h] # "free" /\ client[h] = i
Full(i)    == isFromClientSocketRegistered(i) /\ isToClientSocketRegistered(i)

\* An entry that is there has its mutex.
Locked(i) == Present(i) => i \in mutexes

\* The functions of UserManager are run for the requests they are meant for.
PlaceInv ==
  \A m \in Managers :
    /\ mgr[m] \in {"checkTo", "checkFrom", "find", "spawn", "mark", "welcome", "refuse"}
         => job[m].type = "AUTHENTICATE"
    /\ mgr[m] \in {"bye", "byeAgain", "unmark"} => job[m].type = "LOGOUT"
    /\ mgr[m] = "answer" => job[m].type = "SEND_MESSAGE_TO_USER"
    /\ mgr[m] \in {"remove", "removeMutex"} => job[m].type \in {"AUTHENTICATE", "LOGOUT"}

\* An AUTHENTICATE becomes one work of its connection, whose thread is done by then,
\* and is with the balancer or with one manager.
TokenInv ==
  /\ \A w \in works : w.type = "AUTHENTICATE" =>
       first[w.conn] = Authenticate(w.id) /\ reg[w.conn] = "done"
  /\ \A v, w \in works :
       v.type = "AUTHENTICATE" /\ w.type = "AUTHENTICATE" /\ v.conn = w.conn => v = w
  /\ \A m \in Managers : Auth(m) =>
       /\ first[job[m].conn] = Authenticate(job[m].id) /\ reg[job[m].conn] = "done"
       /\ \A w \in works : w.type = "AUTHENTICATE" => w.conn # job[m].conn
       /\ \A n \in Managers : Auth(n) /\ job[n].conn = job[m].conn => n = m

\* What is yet to be read on a connection was asked on it, and who reads it is a
\* handler of the client whose FROM socket it is.
ReadInv ==
  /\ \A c \in Conns : inbox[c] \in Seq(asked[c])
  /\ \A h \in Handlers : hpc[h] = "blocked" => tempID[reading[h]] = client[h]

\* A request was asked on the connection in its work, by a client with a handler that
\* has read it; the client the work names may be another.
Routed(w) ==
  /\ Request(w.type, w.id) \in asked[w.conn]
  /\ \E h \in Handlers : Old(h) /\ client[h] = tempID[w.conn]

RouteInv ==
  /\ \A w \in works : w.type # "AUTHENTICATE" => Routed(w)
  /\ \A m \in Managers : mgr[m] # "idle" /\ job[m].type # "AUTHENTICATE" => Routed(job[m])

WorkInv == PlaceInv /\ TokenInv /\ ReadInv /\ RouteInv

\* What all the rest is about: the clients' connections, and their works.
BaseInv == ReplyInv /\ WorkInv

-----------------------------------------------------------------------------
(* What the steps of each kind of thread do to the works.                  *)

\* A registry entry loses neither of its sockets nor its mutex.
Keeps(i) ==
  /\ isFromClientSocketRegistered(i) => isFromClientSocketRegistered(i)'
  /\ isToClientSocketRegistered(i) => isToClientSocketRegistered(i)'
  /\ Locked(i) => Locked(i)'

workVars == <<works, mgr, job, started, hpc, client>>

\* A registration thread moves to its next place, and adds to the registry; when it
\* is done with an AUTHENTICATE it leaves a work behind.
LEMMA RegisterEffect ==
  ASSUME IInv, AddressInv, NEW c \in Conns, registerClient(c)
  PROVE  /\ UNCHANGED <<first, mgr, job, started, hpc, client>>
         /\ reg[c] \notin {"done", "unborn"}
         /\ \E p \in RegistrationPlaces \ {"unborn"} : reg' = [reg EXCEPT ![c] = p]
         /\ \/ works' = works
            \/ /\ reg[c] = "push" /\ reg'[c] = "done"
               /\ works' = works \cup {[type |-> "AUTHENTICATE", id |-> first[c].id, conn |-> c]}
         /\ \A i \in Ids : Keeps(i)
<1> USE DEF registryVars, mgrVars, handlerVars, netVars
<1>1. UNCHANGED <<first, mgr, job, started, hpc, client>>
  BY DEF registerClient, readFirst, checkFrom, reject, loadTempID, storeTempID, addFrom,
         confirm, writeUnframed, checkTo, addTo, pushAuth
<1>2. /\ reg[c] \notin {"done", "unborn"}
      /\ \E p \in RegistrationPlaces \ {"unborn"} : reg' = [reg EXCEPT ![c] = p]
  <2> USE DEF regAt, goReg, endReg, RegistrationPlaces
  <2>1. CASE readFirst(c) BY <2>1 DEF readFirst
  <2>2. CASE checkFrom(c) \/ reject(c) \/ loadTempID(c) \/ storeTempID(c)
    BY <2>2 DEF checkFrom, reject, loadTempID, storeTempID
  <2>3. CASE addFrom(c) \/ confirm(c) \/ writeUnframed(c)
    BY <2>3 DEF addFrom, confirm, writeUnframed
  <2>4. CASE checkTo(c) \/ addTo(c) \/ pushAuth(c)
    BY <2>4 DEF checkTo, addTo, pushAuth
  <2> QED BY <2>1, <2>2, <2>3, <2>4 DEF registerClient
<1>3. \/ works' = works
      \/ /\ reg[c] = "push" /\ reg'[c] = "done"
         /\ works' = works \cup {[type |-> "AUTHENTICATE", id |-> first[c].id, conn |-> c]}
  <2>1. CASE pushAuth(c)
    <3>1. reg \in [Conns -> RegistrationPlaces] BY DEF IInv, TypeOK
    <3> QED BY <2>1, <3>1 DEF pushAuth, regAt, endReg, goReg
  <2>2. CASE ~ pushAuth(c)
    BY <2>2 DEF registerClient, readFirst, checkFrom, reject, loadTempID, storeTempID,
         addFrom, confirm, writeUnframed, checkTo, addTo
  <2> QED BY <2>1, <2>2
<1>4. \A i \in Ids : Keeps(i)
  <2> USE DEF Keeps, isFromClientSocketRegistered, isToClientSocketRegistered, Locked, Present
  <2>1. CASE UNCHANGED registryVars BY <2>1
  <2>2. CASE addFrom(c)
    <3>1. c # NoConn /\ fromSocket \in [Ids -> Conns \cup {NoConn}] /\ tempID[c] \in Ids
      BY <2>2, ConstantsAssumption DEF addFrom, regAt, IInv, TypeOK, RegistrationInv
    <3> QED BY <2>2, <3>1 DEF addFrom, addFromClientSocket
  <2>3. CASE addTo(c)
    <3>1. c # NoConn /\ toSocket \in [Ids -> Conns \cup {NoConn}] /\ first[c].id \in Ids
      BY <2>3, ConstantsAssumption DEF addTo, regAt, IInv, TypeOK, RegistrationInv
    <3> QED BY <2>3, <3>1 DEF addTo, addToClientSocket
  <2>4. addFrom(c) \/ addTo(c) \/ UNCHANGED registryVars
    BY DEF registerClient, readFirst, checkFrom, reject, loadTempID, storeTempID, confirm,
           writeUnframed, checkTo, pushAuth
  <2> QED BY <2>1, <2>2, <2>3, <2>4
<1> QED BY <1>1, <1>2, <1>3, <1>4

\* A manager that does not take a work or spawn a handler moves to another place with
\* the work it has.
LEMMA ManagerEffect ==
  ASSUME IInv, NEW m \in Managers, processWork(m), ~ startJob(m), ~ spawnHandler(m)
  PROVE  /\ UNCHANGED <<first, reg, works, job, hpc, client>>
         /\ mgr[m] # "idle"
         /\ \E p \in ManagerPlaces : mgr' = [mgr EXCEPT ![m] = p]
<1> USE DEF registryVars, mgrVars, handlerVars, netVars, regVars
<1>1. UNCHANGED <<first, reg, works, job, hpc, client>>
  BY DEF processWork, authUser, authCheckTo, authCheckFrom, findStarted, markStarted, welcome,
         refuse, logoutUser, bye, byeAgain, unmark, answer, mgrEraseEntry, mgrEraseMutex
<1>2. /\ mgr[m] # "idle"
      /\ \E p \in ManagerPlaces : mgr' = [mgr EXCEPT ![m] = p]
  <2> USE DEF mgrAt, goMgr, ManagerPlaces, afterRemove
  <2>1. CASE authCheckTo(m) \/ authCheckFrom(m) \/ findStarted(m) \/ markStarted(m)
    BY <2>1 DEF authCheckTo, authCheckFrom, findStarted, markStarted
  <2>2. CASE welcome(m) \/ refuse(m) \/ bye(m) \/ byeAgain(m)
    BY <2>2 DEF welcome, refuse, bye, byeAgain
  <2>3. CASE unmark(m) \/ answer(m) \/ mgrEraseMutex(m)
    BY <2>3 DEF unmark, answer, mgrEraseMutex
  <2>4. CASE mgrEraseEntry(m) BY <2>4 DEF mgrEraseEntry
  <2> QED BY <2>1, <2>2, <2>3, <2>4 DEF processWork, authUser, logoutUser
<1> QED BY <1>1, <1>2

\* It takes from the registry only the client whose work it does, and only to remove it.
LEMMA ManagerEntries ==
  ASSUME IInv, NEW m \in Managers, processWork(m)
  PROVE  \A i \in Ids : Keeps(i) \/ (i = job[m].id /\ mgr[m] \in {"remove", "removeMutex"})
<1> USE DEF Keeps, isFromClientSocketRegistered, isToClientSocketRegistered, Locked, Present,
        registryVars, netVars
<1>1. CASE UNCHANGED registryVars BY <1>1
<1>2. CASE mgrEraseEntry(m)
  <2>1. mgr[m] = "remove" BY <1>2 DEF mgrEraseEntry, mgrAt
  <2>2. job[m].id \in Ids BY <2>1 DEF IInv, ThreadInv, Works
  <2> QED BY <1>1, <1>2, <2>1, <2>2 DEF mgrEraseEntry, eraseEntry, IInv, TypeOK
<1>3. CASE mgrEraseMutex(m)
  <2>1. mgr[m] = "removeMutex" BY <1>3 DEF mgrEraseMutex, mgrAt
  <2> QED BY <1>3, <2>1 DEF mgrEraseMutex, removeClientSocketMutex
<1>4. mgrEraseEntry(m) \/ mgrEraseMutex(m) \/ UNCHANGED registryVars
  BY DEF processWork, startJob, authUser, authCheckTo, authCheckFrom, findStarted, spawnHandler,
         markStarted, welcome, refuse, logoutUser, bye, byeAgain, unmark, answer
<1> QED BY <1>1, <1>2, <1>3, <1>4

\* A handler thread moves on, never back to the address, may route the request that is
\* next on the socket it reads, and takes from the registry what is its client's only.
LEMMA HandlerEffect ==
  ASSUME IInv, NEW h \in Handlers, handleClient(h) \/ readAborted(h)
  PROVE  /\ UNCHANGED <<first, reg, mgr, job, started, client>>
         /\ hpc[h] \notin {"free", "done"}
         /\ \E p \in HandlerPlaces \ {"free", "mutex"} :
              hpc' = [hpc EXCEPT ![h] = p] /\ (p = "ip" => hpc[h] \in {"mutex", "ip"})
         /\ \/ works' = works
            \/ /\ hpc[h] = "blocked" /\ inbox[reading[h]] # << >>
               /\ \E w \in Works :
                    /\ works' = works \cup {w} /\ w.conn = reading[h]
                    /\ w.type # "AUTHENTICATE"
                    /\ Request(w.type, w.id) = Head(inbox[reading[h]])
         /\ \A i \in Ids : Keeps(i) \/ (i = client[h] /\ Old(h))
<1> USE DEF registryVars, mgrVars, netVars, regVars
<1>0. hpc \in [Handlers -> HandlerPlaces] BY DEF IInv, TypeOK
<1>1. UNCHANGED <<first, reg, mgr, job, started, client>>
  BY DEF handleClient, readAborted, findMutex, readIP, nextMessage, route, endOfStream,
         handlerEraseEntry, handlerEraseMutex
<1>2. /\ hpc[h] \notin {"free", "done"}
      /\ \E p \in HandlerPlaces \ {"free", "mutex"} :
           hpc' = [hpc EXCEPT ![h] = p] /\ (p = "ip" => hpc[h] \in {"mutex", "ip"})
  <2> USE DEF handlerAt, goHandler, HandlerPlaces
  <2>1. CASE findMutex(h)
    <3>1. hpc[h] = "mutex" /\ (goHandler(h, "ip") \/ goHandler(h, "remove"))
      BY <2>1 DEF findMutex
    <3> QED BY <3>1
  <2>2. CASE readIP(h)
    <3>1. hpc[h] = "ip" BY <2>2 DEF readIP
    <3>2. UNCHANGED hpc \/ goHandler(h, "next") \/ goHandler(h, "remove")
      BY <2>2 DEF readIP
    <3>3. UNCHANGED hpc => hpc' = [hpc EXCEPT ![h] = "ip"] BY <1>0, <3>1
    <3> QED BY <3>1, <3>2, <3>3
  <2>3. CASE nextMessage(h)
    <3>1. hpc[h] = "next" /\ (goHandler(h, "blocked") \/ goHandler(h, "remove"))
      BY <2>3 DEF nextMessage
    <3> QED BY <3>1
  <2>4. CASE route(h) \/ endOfStream(h) \/ readAborted(h)
    BY <2>4 DEF route, endOfStream, readAborted
  <2>5. CASE handlerEraseEntry(h) \/ handlerEraseMutex(h)
    BY <2>5 DEF handlerEraseEntry, handlerEraseMutex
  <2> QED BY <2>1, <2>2, <2>3, <2>4, <2>5 DEF handleClient
<1>3. \/ works' = works
      \/ /\ hpc[h] = "blocked" /\ inbox[reading[h]] # << >>
         /\ \E w \in Works :
              /\ works' = works \cup {w} /\ w.conn = reading[h]
              /\ w.type # "AUTHENTICATE"
              /\ Request(w.type, w.id) = Head(inbox[reading[h]])
  <2>1. CASE route(h)
    <3> DEFINE msg == Head(inbox[reading[h]])
               w == [type |-> msg.type, id |-> msg.id, conn |-> reading[h]]
    <3>1. /\ hpc[h] = "blocked" /\ reading[h] \in Conns
          /\ inbox[reading[h]] \in Seq(RequestMessages) /\ inbox[reading[h]] # << >>
      BY <2>1 DEF route, handlerAt, IInv, ThreadInv, TypeOK
    <3>2. msg \in RequestMessages BY <3>1
    <3>3. w \in Works /\ w.conn = reading[h] /\ w.type # "AUTHENTICATE"
      BY <3>1, <3>2, ConstantsAssumption DEF Works, RequestMessages
    <3>4. Request(w.type, w.id) = msg BY <3>2 DEF RequestMessages, Request
    <3>5. works' = works \cup {w} BY <2>1 DEF route
    <3> QED BY <3>1, <3>3, <3>4, <3>5
  <2>2. CASE ~ route(h)
    BY <2>2 DEF handleClient, readAborted, findMutex, readIP, nextMessage, endOfStream,
           handlerEraseEntry, handlerEraseMutex
  <2> QED BY <2>1, <2>2
<1>4. \A i \in Ids : Keeps(i) \/ (i = client[h] /\ Old(h))
  <2> USE DEF Keeps, isFromClientSocketRegistered, isToClientSocketRegistered, Locked, Present
  <2>1. CASE UNCHANGED registryVars BY <2>1
  <2>2. CASE handlerEraseEntry(h)
    <3>1. Old(h) BY <2>2 DEF handlerEraseEntry, handlerAt, Old
    <3>2. client[h] \in Ids BY <2>2 DEF handlerEraseEntry, handlerAt, IInv, ThreadInv
    <3> QED BY <2>1, <2>2, <3>1, <3>2 DEF handlerEraseEntry, eraseEntry, IInv, TypeOK
  <2>3. CASE handlerEraseMutex(h)
    <3>1. Old(h) BY <2>3 DEF handlerEraseMutex, handlerAt, Old
    <3> QED BY <2>3, <3>1 DEF handlerEraseMutex, removeClientSocketMutex
  <2>4. handlerEraseEntry(h) \/ handlerEraseMutex(h) \/ UNCHANGED registryVars
    BY DEF handleClient, readAborted, findMutex, readIP, nextMessage, route, endOfStream
  <2> QED BY <2>1, <2>2, <2>3, <2>4
<1> QED BY <1>1, <1>2, <1>3, <1>4

\* The clients' own steps: only a new connection is of interest here.
LEMMA ClientEffect ==
  ASSUME IInv, AddressInv, NEW c \in Conns, open(c) \/ request(c) \/ leave(c)
  PROVE  /\ UNCHANGED <<received, registryVars, tempClientID, tempID, workVars>>
         /\ \/ UNCHANGED <<first, reg>>
            \/ /\ reg[c] = "unborn" /\ reg' = [reg EXCEPT ![c] = "read"]
               /\ first[c] = NoMessage
               /\ \E msg \in Openings : first' = [first EXCEPT ![c] = msg]
BY DEF open, request, leave, IInv, OwnerInv, AddressInv, FirstInv, registryVars, workVars,
       mgrVars, handlerVars, regVars

\* A manager takes a work and starts on it.
LEMMA StartEffect ==
  ASSUME NEW m \in Managers, startJob(m)
  PROVE  /\ UNCHANGED <<first, reg, received, registryVars, tempID, started, hpc, client>>
         /\ mgr[m] = "idle"
         /\ \E w \in works, p \in {"checkTo", "bye", "answer"} :
              /\ works' = works \ {w}
              /\ job' = [job EXCEPT ![m] = w]
              /\ mgr' = [mgr EXCEPT ![m] = p]
              /\ p = "checkTo" <=> w.type = "AUTHENTICATE"
              /\ p = "bye" <=> w.type = "LOGOUT"
BY DEF startJob, mgrAt, goMgr, netVars, regVars, registryVars, handlerVars

\* It spawns a handler thread that was free.
LEMMA SpawnEffect ==
  ASSUME NEW m \in Managers, spawnHandler(m)
  PROVE  /\ UNCHANGED <<first, reg, received, registryVars, tempID, works, job, started>>
         /\ mgr[m] = "spawn" /\ mgr' = [mgr EXCEPT ![m] = "mark"]
         /\ \E h \in Handlers :
              /\ hpc[h] = "free"
              /\ hpc' = [hpc EXCEPT ![h] = "mutex"]
              /\ client' = [client EXCEPT ![h] = job[m].id]
BY DEF spawnHandler, mgrAt, goMgr, netVars, regVars, registryVars

-----------------------------------------------------------------------------
(* What any step does, in the terms of the invariants.                     *)

\* What a manager at a place has just found out.
Moved(m) ==
  LET i == job[m].id
  IN /\ mgr'[m] = "checkFrom" => mgr[m] = "checkTo" /\ isToClientSocketRegistered(i)
     /\ mgr'[m] = "find" => mgr[m] = "checkFrom" /\ isFromClientSocketRegistered(i)
     /\ mgr'[m] = "spawn" => mgr[m] = "find" /\ i \notin started
     /\ mgr'[m] = "mark" => mgr[m] = "spawn"
     /\ mgr'[m] = "welcome" => mgr[m] = "mark" /\ i \in started'
     /\ mgr'[m] = "refuse" => \/ mgr[m] = "checkTo" /\ ~ isToClientSocketRegistered(i)
                              \/ mgr[m] = "checkFrom" /\ ~ isFromClientSocketRegistered(i)
     /\ mgr'[m] = "remove" => mgr[m] \in {"refuse", "bye", "byeAgain"}
     /\ mgr'[m] = "removeMutex" => mgr[m] = "remove"
     /\ mgr'[m] = "byeAgain" => mgr[m] = "bye"
     /\ mgr'[m] = "unmark" => mgr[m] \in {"remove", "removeMutex"}
     /\ mgr'[m] \in {"checkTo", "bye", "answer"} => mgr[m] = "idle"
     /\ mgr'[m] \notin {"idle", "checkTo", "bye", "answer"} => job'[m] = job[m]
     /\ mgr'[m] \in ManagerPlaces

\* A manager at work moves, and no other does.
LEMMA ManagerMoves ==
  ASSUME IInv, NEW m \in Managers, processWork(m)
  PROVE  /\ Moved(m)
         /\ \A n \in Managers \ {m} : mgr'[n] = mgr[n] /\ job'[n] = job[n]
<1> USE DEF mgrAt, goMgr
<1>0. mgr \in [Managers -> ManagerPlaces] /\ job \in [Managers -> Works \cup {NoMessage}]
  BY DEF IInv, TypeOK
<1>1. CASE startJob(m)
  <2>1. PICK w \in works, p \in {"checkTo", "bye", "answer"} :
          job' = [job EXCEPT ![m] = w] /\ mgr' = [mgr EXCEPT ![m] = p] /\ mgr[m] = "idle"
    BY <1>1, StartEffect
  <2> QED BY <1>0, <2>1 DEF Moved, ManagerPlaces
<1>2. CASE spawnHandler(m) BY <1>0, <1>2, SpawnEffect DEF Moved, ManagerPlaces
<1>3. CASE ~ startJob(m) /\ ~ spawnHandler(m)
  <2>1. job' = job /\ \E p \in ManagerPlaces : mgr' = [mgr EXCEPT ![m] = p]
    BY <1>3, ManagerEffect
  <2>2. Moved(m)
    <3>1. CASE authCheckTo(m) \/ authCheckFrom(m) \/ findStarted(m) \/ markStarted(m)
      BY <1>0, <2>1, <3>1 DEF authCheckTo, authCheckFrom, findStarted, markStarted, Moved
    <3>2. CASE welcome(m) \/ refuse(m) \/ bye(m) \/ byeAgain(m)
      BY <1>0, <2>1, <3>2 DEF welcome, refuse, bye, byeAgain, Moved
    <3>3. CASE unmark(m) \/ answer(m) \/ mgrEraseMutex(m) \/ mgrEraseEntry(m)
      BY <1>0, <2>1, <3>3 DEF unmark, answer, mgrEraseMutex, mgrEraseEntry, afterRemove, Moved
    <3> QED BY <1>3, <3>1, <3>2, <3>3 DEF processWork, authUser, logoutUser
  <2> QED BY <1>0, <2>1, <2>2
<1> QED BY <1>1, <1>2, <1>3

\* A manager stays where it is or moves.
LEMMA ManagersStep ==
  ASSUME IInv, AddressInv, [Next]_vars, NEW m \in Managers
  PROVE  (mgr'[m] = mgr[m] /\ job'[m] = job[m]) \/ Moved(m)
<1>1. CASE \E n \in Managers : processWork(n) BY <1>1, ManagerMoves
<1>2. CASE ~ \E n \in Managers : processWork(n)
  BY <1>2, ClientEffect, RegisterEffect, HandlerEffect
     DEF Next, terminated, workVars, vars, mgrVars
<1> QED BY <1>1, <1>2

\* A handler thread keeps its client, and is young only before it has its address.
LEMMA HandlersStep ==
  ASSUME IInv, AddressInv, [Next]_vars
  PROVE  /\ \A h \in Handlers : hpc[h] # "free" =>
              hpc'[h] # "free" /\ client'[h] = client[h] /\ (Young(h)' => Young(h))
         /\ (\E h \in Handlers : hpc[h] = "free" /\ hpc'[h] # "free")
              => \E m \in Managers : spawnHandler(m)
<1>0. hpc \in [Handlers -> HandlerPlaces] /\ client \in [Handlers -> 0 .. MaxId]
  BY DEF IInv, TypeOK
<1>1. CASE \E m \in Managers : spawnHandler(m)
  <2>1. PICK m \in Managers : spawnHandler(m) BY <1>1
  <2>2. PICK g \in Handlers :
          /\ hpc[g] = "free" /\ hpc' = [hpc EXCEPT ![g] = "mutex"]
          /\ client' = [client EXCEPT ![g] = job[m].id]
    BY <2>1, SpawnEffect
  <2> QED BY <1>0, <2>1, <2>2 DEF Young
<1>2. CASE \E h \in Handlers : handleClient(h) \/ readAborted(h)
  <2>1. PICK g \in Handlers, p \in HandlerPlaces \ {"free", "mutex"} :
          /\ client' = client /\ hpc[g] # "free" /\ hpc' = [hpc EXCEPT ![g] = p]
          /\ p = "ip" => hpc[g] \in {"mutex", "ip"}
    BY <1>2, HandlerEffect
  <2> QED BY <1>0, <2>1 DEF Young
<1>3. CASE UNCHANGED <<hpc, client>> BY <1>3 DEF Young
<1>4. ASSUME NEW m \in Managers, processWork(m), ~ spawnHandler(m)
      PROVE  UNCHANGED <<hpc, client>>
  BY <1>4, ManagerEffect, StartEffect
<1> QED BY <1>1, <1>2, <1>3, <1>4, ClientEffect, RegisterEffect
        DEF Next, terminated, workVars, vars, handlerVars

\* A client that got a handler has had one ever since.
LEMMA SpawnedKept ==
  ASSUME IInv, AddressInv, [Next]_vars, NEW i, Spawned(i) PROVE Spawned(i)'
BY HandlersStep DEF Spawned

\* An AUTHENTICATE gets to the works from the thread of its connection.
LEMMA WorkOrigin ==
  ASSUME IInv, AddressInv, [Next]_vars, NEW w \in works', w.type = "AUTHENTICATE"
  PROVE  w \in works \/ \E c \in Conns : /\ reg[c] = "push" /\ first[c] = Authenticate(w.id)
<1>1. ASSUME NEW c \in Conns, registerClient(c), w \notin works
      PROVE  reg[c] = "push" /\ first[c] = Authenticate(w.id)
  <2>1. reg[c] = "push" /\ w = [type |-> "AUTHENTICATE", id |-> first[c].id, conn |-> c]
    BY <1>1, RegisterEffect
  <2>2. first[c] = Authenticate(first[c].id)
    BY <2>1 DEF AddressInv, FirstInv, IInv, TypeOK, Authenticate
  <2> QED BY <2>1, <2>2
<1>2. ASSUME NEW m \in Managers, processWork(m) PROVE w \in works
  BY <1>2, ManagerEffect, StartEffect, SpawnEffect
<1> QED BY <1>1, <1>2, ClientEffect, HandlerEffect
        DEF Next, terminated, workVars, vars, mgrVars

\* Any other work is the next request on the socket a handler is blocked on.
LEMMA RequestOrigin ==
  ASSUME IInv, AddressInv, [Next]_vars, NEW w \in works', w.type # "AUTHENTICATE"
  PROVE  \/ w \in works
         \/ \E h \in Handlers :
              /\ hpc[h] = "blocked" /\ w.conn = reading[h] /\ inbox[reading[h]] # << >>
              /\ Request(w.type, w.id) = Head(inbox[reading[h]])
<1>1. ASSUME NEW c \in Conns, registerClient(c) PROVE w \in works BY <1>1, RegisterEffect
<1>2. ASSUME NEW m \in Managers, processWork(m) PROVE w \in works
  BY <1>2, ManagerEffect, StartEffect, SpawnEffect
<1> QED BY <1>1, <1>2, ClientEffect, HandlerEffect
        DEF Next, terminated, workVars, vars, mgrVars

\* A manager's work was that of the state before, or one of the works.
LEMMA JobOrigin ==
  ASSUME IInv, AddressInv, [Next]_vars, NEW m \in Managers, mgr'[m] # "idle"
  PROVE  \/ mgr[m] # "idle" /\ job'[m] = job[m]
         \/ job'[m] \in works /\ mgr'[m] \in {"checkTo", "bye", "answer"}
<1>0. mgr \in [Managers -> ManagerPlaces] /\ job \in [Managers -> Works \cup {NoMessage}]
  BY DEF IInv, TypeOK
<1>1. CASE startJob(m) BY <1>0, <1>1, StartEffect
<1>2. CASE processWork(m) /\ ~ startJob(m) BY <1>0, <1>2, ManagerEffect, SpawnEffect
<1>3. CASE ~ processWork(m)
  BY <1>3, ManagerMoves, ClientEffect, RegisterEffect, HandlerEffect
     DEF Next, terminated, workVars, vars, mgrVars
<1> QED BY <1>1, <1>2, <1>3

\* A registration thread that has ended does not come back.
LEMMA DoneIsKept ==
  ASSUME IInv, AddressInv, [Next]_vars, NEW c \in Conns, reg[c] = "done" PROVE reg'[c] = "done"
<1>0. reg \in [Conns -> RegistrationPlaces] BY DEF IInv, TypeOK
<1> QED
  BY <1>0, ClientEffect, RegisterEffect, ManagerEffect, StartEffect, SpawnEffect, HandlerEffect
        DEF Next, terminated, vars, regVars

\* A handler thread is started for the client of an AUTHENTICATE.
LEMMA NewHandler ==
  ASSUME IInv, AddressInv, [Next]_vars, NEW h \in Handlers, hpc[h] = "free", hpc'[h] # "free"
  PROVE  \E m \in Managers :
           /\ mgr[m] = "spawn" /\ mgr'[m] = "mark" /\ client'[h] = job[m].id
           /\ \A n \in Managers \ {m} : mgr'[n] = mgr[n]
           /\ \A g \in Handlers \ {h} : hpc'[g] = hpc[g] /\ client'[g] = client[g]
           /\ UNCHANGED <<first, reg, works, job, started, registryVars>>
<1>1. PICK m \in Managers : spawnHandler(m) BY HandlersStep
<1>2. /\ hpc \in [Handlers -> HandlerPlaces] /\ client \in [Handlers -> 0 .. MaxId]
      /\ mgr \in [Managers -> ManagerPlaces]
  BY DEF IInv, TypeOK
<1>3. PICK g \in Handlers :
        /\ hpc' = [hpc EXCEPT ![g] = "mutex"] /\ client' = [client EXCEPT ![g] = job[m].id]
  BY <1>1, SpawnEffect
<1>4. g = h BY <1>2, <1>3
<1> QED BY <1>1, <1>2, <1>3, <1>4, SpawnEffect

\* The entry of a client is taken from the registry by a manager that removes the
\* client, or by its handler at the end.
LEMMA Removal ==
  ASSUME IInv, AddressInv, [Next]_vars, NEW i \in Ids, ~ Keeps(i)
  PROVE  \/ \E m \in Managers : mgr[m] \in {"remove", "removeMutex"} /\ job[m].id = i
         \/ \E h \in Handlers : Old(h) /\ client[h] = i
<1>1. UNCHANGED registryVars => Keeps(i)
  BY DEF Keeps, isFromClientSocketRegistered, isToClientSocketRegistered, Locked, Present,
         registryVars
<1> QED BY <1>1, ClientEffect, RegisterEffect, ManagerEntries, HandlerEffect
        DEF Next, terminated, vars

\* Only clients add to what they asked for, and only their handlers read it.
LEMMA InboxStep ==
  ASSUME IInv, [Next]_vars
  PROVE  \/ UNCHANGED <<inbox, asked>>
         \/ \E c \in Conns, msg \in RequestMessages :
              /\ asked' = [asked EXCEPT ![c] = @ \cup {msg}]
              /\ inbox' = [inbox EXCEPT ![c] = Append(@, msg)]
         \/ \E c \in Conns : /\ inbox[c] # << >> /\ asked' = asked
                             /\ inbox' = [inbox EXCEPT ![c] = Tail(@)]
<1> USE DEF vars, netVars
<1>1. ASSUME NEW c \in Conns, open(c) \/ leave(c) PROVE UNCHANGED <<inbox, asked>>
  BY <1>1 DEF open, leave
<1>2. ASSUME NEW c \in Conns, request(c)
      PROVE  \E msg \in RequestMessages :
               /\ asked' = [asked EXCEPT ![c] = @ \cup {msg}]
               /\ inbox' = [inbox EXCEPT ![c] = Append(@, msg)]
  <2>1. PICK r \in Requests, i \in Names(c) :
          /\ asked' = [asked EXCEPT ![c] = @ \cup {Request(r, i)}]
          /\ inbox' = [inbox EXCEPT ![c] = Append(@, Request(r, i))]
    BY <1>2 DEF request
  <2>2. Request(r, i) \in RequestMessages BY DEF Names, Request, RequestMessages
  <2> QED BY <2>1, <2>2
<1>3. ASSUME NEW c \in Conns, registerClient(c) PROVE UNCHANGED <<inbox, asked>>
  BY <1>3 DEF registerClient, readFirst, checkFrom, reject, loadTempID, storeTempID, addFrom,
       confirm, writeUnframed, checkTo, addTo, pushAuth
<1>4. ASSUME NEW m \in Managers, processWork(m) PROVE UNCHANGED <<inbox, asked>>
  BY <1>4 DEF processWork, startJob, authUser, authCheckTo, authCheckFrom, findStarted,
       spawnHandler, markStarted, welcome, refuse, logoutUser, bye, byeAgain, unmark, answer,
       mgrEraseEntry, mgrEraseMutex
<1>5. ASSUME NEW h \in Handlers, handleClient(h) \/ readAborted(h)
      PROVE  \/ UNCHANGED <<inbox, asked>>
             \/ /\ hpc[h] = "blocked" /\ inbox[reading[h]] # << >> /\ asked' = asked
                /\ inbox' = [inbox EXCEPT ![reading[h]] = Tail(@)]
  BY <1>5 DEF handleClient, readAborted, findMutex, readIP, nextMessage, route, endOfStream,
       handlerEraseEntry, handlerEraseMutex, handlerAt
<1>6. \A h \in Handlers : hpc[h] = "blocked" => reading[h] \in Conns BY DEF IInv, ThreadInv
<1> QED BY <1>1, <1>2, <1>3, <1>4, <1>5, <1>6 DEF Next, terminated

\* Nothing that was asked is taken back.
LEMMA AskedKept ==
  ASSUME IInv, [Next]_vars, NEW c \in Conns PROVE asked[c] \subseteq asked'[c]
<1>1. asked \in [Conns -> SUBSET RequestMessages] BY DEF IInv, TypeOK
<1> QED BY <1>1, InboxStep

\* So what ends a session before its beginning, or makes its id shared, stays so.
LEMMA MisuseStays ==
  ASSUME ReplyInv, [Next]_vars, NEW i \in Ids
  PROVE  /\ Again(i) => Again(i)'
         /\ LoggedOut(i) => LoggedOut(i)'
         /\ Misused(i) => Misused(i)'
         /\ Shared(i) => Shared(i)'
<1>1. \A c \in Conns : first[c] = Authenticate(i) => first'[c] = Authenticate(i)
  <2>1. NoMessage.type # Authenticate(i).type BY DEF NoMessage, Authenticate
  <2> QED BY <2>1, FirstIsKept
<1>2. \A c \in Conns : tempID[c] = i => tempID'[c] = i BY FirstIsKept DEF Ids
<1>3. Again(i) => Again(i)' BY <1>1 DEF Again
<1>4. LoggedOut(i) => LoggedOut(i)' BY AskedKept DEF LoggedOut, ReplyInv
<1>5. Shared(i) => Shared(i)' BY <1>2 DEF Shared
<1> QED BY <1>3, <1>4, <1>5 DEF Misused

-----------------------------------------------------------------------------
(* Every AUTHENTICATE is one work, every other work comes from a handler.  *)

\* A new connection has no work yet.
LEMMA WorkOpen ==
  ASSUME IInv, AddressInv, WorkInv, NEW c \in Conns, open(c) \/ request(c) \/ leave(c)
  PROVE  PlaceInv' /\ TokenInv'
<1>1. UNCHANGED <<works, mgr, job, hpc, client>> BY ClientEffect DEF workVars
<1>2. \A d \in Conns : reg[d] = "done" => reg'[d] = "done" /\ first'[d] = first[d]
  <2>1. reg \in [Conns -> RegistrationPlaces] /\ first = [d \in Conns |-> first[d]]
    BY DEF IInv, TypeOK
  <2> QED BY <2>1, ClientEffect
<1>3. /\ \A w \in works : w.conn \in Conns
      /\ \A m \in Managers : Auth(m) => job[m].conn \in Conns
  BY DEF IInv, TypeOK, ThreadInv, Works, Auth
<1>4. PlaceInv' BY <1>1 DEF WorkInv, PlaceInv
<1>5. TokenInv' BY <1>1, <1>2, <1>3 DEF WorkInv, TokenInv, Auth
<1> QED BY <1>4, <1>5

\* The work of an AUTHENTICATE is the only one of its connection, whose thread ends.
LEMMA WorkRegister ==
  ASSUME IInv, AddressInv, WorkInv, NEW c \in Conns, registerClient(c)
  PROVE  PlaceInv' /\ TokenInv'
<1>1. UNCHANGED <<first, mgr, job, hpc, client>> BY RegisterEffect
<1>2. \A d \in Conns : reg[d] = "done" => reg'[d] = "done"
  BY RegisterEffect DEF IInv, TypeOK
<1>3. PlaceInv' BY <1>1 DEF WorkInv, PlaceInv
<1>4. TokenInv'
  <2>1. CASE works' = works
    BY <1>1, <1>2, <2>1 DEF WorkInv, TokenInv, Auth, IInv, TypeOK, ThreadInv, Works
  <2>2. CASE works' # works
    <3> DEFINE new == [type |-> "AUTHENTICATE", id |-> first[c].id, conn |-> c]
    <3>1. reg[c] = "push" /\ reg'[c] = "done" /\ works' = works \cup {new}
      BY <2>2, RegisterEffect
    <3>2. first[c] = Authenticate(first[c].id)
      BY <3>1 DEF AddressInv, FirstInv, IInv, TypeOK, Authenticate
    <3>3. \A w \in works : w.type = "AUTHENTICATE" => w.conn # c
      BY <3>1 DEF WorkInv, TokenInv
    <3>4. \A m \in Managers : Auth(m) => job[m].conn # c
      BY <3>1 DEF WorkInv, TokenInv
    <3>5. new.type = "AUTHENTICATE" /\ new.id = first[c].id /\ new.conn = c OBVIOUS
    <3> HIDE DEF new
    <3>6. \A w \in works : w.type = "AUTHENTICATE" =>
            first[w.conn] = Authenticate(w.id) /\ reg'[w.conn] = "done"
      BY <1>2 DEF WorkInv, TokenInv, IInv, TypeOK, Works
    <3>7. \A m \in Managers : Auth(m) =>
            first[job[m].conn] = Authenticate(job[m].id) /\ reg'[job[m].conn] = "done"
      BY <1>2 DEF WorkInv, TokenInv, IInv, ThreadInv, Works, Auth
    <3>8. /\ \A w \in works' : w.type = "AUTHENTICATE" =>
               first[w.conn] = Authenticate(w.id) /\ reg'[w.conn] = "done"
          /\ \A v, w \in works' :
               v.type = "AUTHENTICATE" /\ w.type = "AUTHENTICATE" /\ v.conn = w.conn => v = w
      BY <3>1, <3>2, <3>3, <3>5, <3>6 DEF WorkInv, TokenInv
    <3>9. \A m \in Managers : Auth(m) =>
            /\ \A w \in works' : w.type = "AUTHENTICATE" => w.conn # job[m].conn
            /\ \A n \in Managers : Auth(n) /\ job[n].conn = job[m].conn => n = m
      BY <3>1, <3>4, <3>5 DEF WorkInv, TokenInv
    <3> QED BY <1>1, <3>7, <3>8, <3>9 DEF TokenInv, Auth
  <2> QED BY <2>1, <2>2
<1> QED BY <1>3, <1>4

\* A work that was taken is no longer with the balancer.
LEMMA WorkStart ==
  ASSUME IInv, WorkInv, NEW m \in Managers, startJob(m) PROVE PlaceInv' /\ TokenInv'
<1>1. PICK w \in works, p \in {"checkTo", "bye", "answer"} :
        /\ works' = works \ {w}
        /\ job' = [job EXCEPT ![m] = w]
        /\ mgr' = [mgr EXCEPT ![m] = p]
        /\ p = "checkTo" <=> w.type = "AUTHENTICATE"
        /\ p = "bye" <=> w.type = "LOGOUT"
  BY StartEffect
<1>2. UNCHANGED <<first, reg, hpc, client>> /\ mgr[m] = "idle" BY StartEffect
<1>3. /\ mgr'[m] = p /\ job'[m] = w /\ p # "idle"
      /\ \A n \in Managers \ {m} : mgr'[n] = mgr[n] /\ job'[n] = job[n]
  BY <1>1 DEF IInv, TypeOK
<1>4. w.type \in {"AUTHENTICATE", "SEND_MESSAGE_TO_USER", "LOGOUT"}
  BY ConstantsAssumption DEF IInv, TypeOK, Works
<1>5. PlaceInv' BY <1>1, <1>3, <1>4 DEF WorkInv, PlaceInv
<1>6. Auth(m)' <=> w.type = "AUTHENTICATE" BY <1>3 DEF Auth
<1>7. \A n \in Managers \ {m} : Auth(n)' <=> Auth(n) BY <1>3 DEF Auth
<1>8. TokenInv'
  <2>1. \A v \in works' : v \in works /\ v # w BY <1>1
  <2>2. /\ \A v \in works' : v.type = "AUTHENTICATE" =>
             first[v.conn] = Authenticate(v.id) /\ reg[v.conn] = "done"
        /\ \A u, v \in works' :
             u.type = "AUTHENTICATE" /\ v.type = "AUTHENTICATE" /\ u.conn = v.conn => u = v
    BY <2>1 DEF WorkInv, TokenInv
  <2>3. w.type = "AUTHENTICATE" =>
          /\ first[w.conn] = Authenticate(w.id) /\ reg[w.conn] = "done"
          /\ \A v \in works' : v.type = "AUTHENTICATE" => v.conn # w.conn
          /\ \A n \in Managers \ {m} : Auth(n) => job[n].conn # w.conn
    BY <1>1, <2>1 DEF WorkInv, TokenInv
  <2>4. \A n \in Managers \ {m} : Auth(n) =>
          /\ first[job[n].conn] = Authenticate(job[n].id) /\ reg[job[n].conn] = "done"
          /\ \A v \in works' : v.type = "AUTHENTICATE" => v.conn # job[n].conn
          /\ \A l \in Managers \ {m} : Auth(l) /\ job[l].conn = job[n].conn => l = n
    BY <2>1 DEF WorkInv, TokenInv
  <2> QED BY <1>2, <1>3, <1>6, <1>7, <2>2, <2>3, <2>4 DEF TokenInv
<1> QED BY <1>5, <1>8

\* A manager that has spawned a handler has its work still.
LEMMA WorkSpawn ==
  ASSUME IInv, WorkInv, NEW m \in Managers, spawnHandler(m) PROVE PlaceInv' /\ TokenInv'
<1>2. UNCHANGED <<first, reg, works, job>> /\ mgr[m] = "spawn" /\ mgr'[m] = "mark"
  BY SpawnEffect DEF IInv, TypeOK
<1>3. \A n \in Managers \ {m} : mgr'[n] = mgr[n] BY SpawnEffect DEF IInv, TypeOK
<1>4. PlaceInv' BY <1>2, <1>3 DEF WorkInv, PlaceInv
<1>5. TokenInv' BY <1>2, <1>3 DEF WorkInv, TokenInv, Auth
<1> QED BY <1>4, <1>5

\* A manager moves along the function its work is for.
LEMMA WorkManager ==
  ASSUME IInv, WorkInv, NEW m \in Managers, processWork(m), ~ startJob(m), ~ spawnHandler(m)
  PROVE  PlaceInv' /\ TokenInv'
<1>1. UNCHANGED <<first, reg, works, job, hpc, client>> /\ mgr[m] # "idle" BY ManagerEffect
<1>2. \A n \in Managers \ {m} : mgr'[n] = mgr[n] BY ManagerEffect DEF IInv, TypeOK
<1>3. PlaceInv'
  <2> USE DEF mgrAt, goMgr
  <2>0. mgr \in [Managers -> ManagerPlaces] BY DEF IInv, TypeOK
  <2>1. CASE authCheckTo(m) \/ authCheckFrom(m) \/ findStarted(m) \/ markStarted(m)
    BY <1>1, <1>2, <2>0, <2>1 DEF authCheckTo, authCheckFrom, findStarted, markStarted,
         WorkInv, PlaceInv
  <2>2. CASE welcome(m) \/ refuse(m) \/ bye(m) \/ byeAgain(m)
    BY <1>1, <1>2, <2>0, <2>2 DEF welcome, refuse, bye, byeAgain, WorkInv, PlaceInv
  <2>3. CASE unmark(m) \/ answer(m)
    BY <1>1, <1>2, <2>0, <2>3 DEF unmark, answer, WorkInv, PlaceInv
  <2>4. CASE mgrEraseMutex(m) \/ mgrEraseEntry(m)
    <3>1. /\ mgr[m] \in {"remove", "removeMutex"}
          /\ goMgr(m, "removeMutex") \/ goMgr(m, afterRemove(m))
      BY <2>4 DEF mgrEraseMutex, mgrEraseEntry
    <3> QED BY <1>1, <1>2, <2>0, <3>1 DEF afterRemove, WorkInv, PlaceInv
  <2> QED BY <2>1, <2>2, <2>3, <2>4 DEF processWork, authUser, logoutUser
<1>4. TokenInv' BY <1>1, <1>2 DEF WorkInv, TokenInv, Auth
<1> QED BY <1>3, <1>4

\* A handler makes no AUTHENTICATE of what it reads.
LEMMA WorkHandler ==
  ASSUME IInv, WorkInv, NEW h \in Handlers, handleClient(h) \/ readAborted(h) PROVE PlaceInv' /\ TokenInv'
<1>1. UNCHANGED <<first, reg, mgr, job, client>> BY HandlerEffect
<1>2. \A w \in works' : \/ w \in works
                        \/ w.type # "AUTHENTICATE"
  BY HandlerEffect
<1>4. PlaceInv' BY <1>1 DEF WorkInv, PlaceInv
<1>5. TokenInv' BY <1>1, <1>2 DEF WorkInv, TokenInv, Auth
<1> QED BY <1>4, <1>5

\* A step that changes nothing.
LEMMA WorkStutter == WorkInv /\ UNCHANGED vars => PlaceInv' /\ TokenInv'
BY DEF WorkInv, PlaceInv, TokenInv, Auth, vars, netVars, regVars, mgrVars

\* A sequence over a set is one over a larger set.
LEMMA SeqGrows == ASSUME NEW S, NEW T, S \subseteq T, NEW s \in Seq(S) PROVE s \in Seq(T)
BY SeqDef

\* Every step keeps the requests on the connections they were asked on, to be read by
\* the handlers of those.
LEMMA ReadStep == ASSUME ReplyInv, ReadInv, [Next]_vars PROVE ReadInv'
<1>1. IInv /\ AddressInv BY DEF ReplyInv
<1>2. /\ asked \in [Conns -> SUBSET RequestMessages]
      /\ inbox \in [Conns -> Seq(RequestMessages)]
      /\ hpc \in [Handlers -> HandlerPlaces] /\ reading \in [Handlers -> Conns \cup {NoConn}]
  BY <1>1 DEF IInv, TypeOK
<1>3. ASSUME NEW d \in Conns PROVE inbox'[d] \in Seq(asked'[d])
  <2>1. CASE UNCHANGED <<inbox, asked>> BY <2>1 DEF ReadInv
  <2>2. ASSUME NEW c \in Conns, NEW msg \in RequestMessages,
               asked' = [asked EXCEPT ![c] = @ \cup {msg}],
               inbox' = [inbox EXCEPT ![c] = Append(@, msg)]
        PROVE  inbox'[d] \in Seq(asked'[d])
    <3>1. CASE d = c
      <4>1. asked'[d] = asked[d] \cup {msg} /\ inbox'[d] = Append(inbox[d], msg)
        BY <1>2, <2>2, <3>1
      <4>2. inbox[d] \in Seq(asked'[d]) BY <4>1, SeqGrows DEF ReadInv
      <4> QED BY <4>1, <4>2
    <3>2. CASE d # c BY <1>2, <2>2, <3>2 DEF ReadInv
    <3> QED BY <3>1, <3>2
  <2>3. ASSUME NEW c \in Conns, inbox[c] # << >>, asked' = asked,
               inbox' = [inbox EXCEPT ![c] = Tail(@)]
        PROVE  inbox'[d] \in Seq(asked'[d])
    <3>1. inbox[d] \in Seq(asked[d]) BY DEF ReadInv
    <3>2. CASE d = c
      <4>1. inbox'[d] = Tail(inbox[d]) /\ inbox[d] # << >> /\ asked'[d] = asked[d]
        BY <1>2, <2>3, <3>2
      <4>2. Tail(inbox[d]) \in Seq(asked[d]) BY <3>1, <4>1, HeadTailProperties
      <4> QED BY <4>1, <4>2
    <3>3. CASE d # c BY <1>2, <2>3, <3>1, <3>3
    <3> QED BY <3>2, <3>3
  <2> QED BY <1>1, <2>1, <2>2, <2>3, InboxStep
<1>4. ASSUME NEW h \in Handlers, hpc'[h] = "blocked" PROVE tempID'[reading'[h]] = client'[h]
  <2>1. CASE hpc[h] = "blocked" /\ reading'[h] = reading[h]
    <3>1. /\ client'[h] = client[h] /\ client[h] \in Ids
          /\ reading[h] \in Conns /\ tempID[reading[h]] = client[h]
      BY <1>1, <2>1, HandlersStep DEF IInv, ThreadInv, ReadInv
    <3>2. tempID[reading[h]] # 0 BY <3>1 DEF Ids
    <3> QED BY <2>1, <3>1, <3>2, FirstIsKept
  <2>2. CASE nextMessage(h)
    <3>1. /\ client' = client /\ tempID' = tempID /\ client[h] \in Ids
          /\ isFromClientSocketRegistered(client[h]) /\ reading'[h] = fromSocket[client[h]]
      BY <1>1, <1>2, <1>4, <2>2
         DEF nextMessage, handlerAt, goHandler, regVars, IInv, ThreadInv
    <3> QED BY <1>1, <3>1 DEF isFromClientSocketRegistered, AddressInv, EntryInv
  <2>3. nextMessage(h) \/ (hpc[h] = "blocked" /\ reading'[h] = reading[h])
    <3> USE DEF vars, handlerVars
    <3>1. ASSUME NEW c \in Conns, open(c) \/ request(c) \/ leave(c) \/ registerClient(c)
          PROVE  UNCHANGED <<hpc, reading>>
      BY <3>1 DEF open, request, leave, registerClient, readFirst, checkFrom, reject,
           loadTempID, storeTempID, addFrom, confirm, writeUnframed, checkTo, addTo, pushAuth
    <3>2. ASSUME NEW m \in Managers, processWork(m)
          PROVE  UNCHANGED reading /\ (UNCHANGED hpc \/ spawnHandler(m))
      BY <3>2 DEF processWork, startJob, authUser, authCheckTo, authCheckFrom, findStarted,
           spawnHandler, markStarted, welcome, refuse, logoutUser, bye, byeAgain, unmark,
           answer, mgrEraseEntry, mgrEraseMutex
    <3>3. ASSUME NEW m \in Managers, spawnHandler(m) PROVE hpc[h] = "blocked"
      BY <1>2, <1>4, <3>3, SpawnEffect
    <3>4. ASSUME NEW g \in Handlers, handleClient(g) \/ readAborted(g)
          PROVE  nextMessage(h) \/ (hpc[h] = "blocked" /\ reading'[h] = reading[h])
      <4>1. CASE nextMessage(g)
        BY <1>2, <1>4, <4>1 DEF nextMessage, goHandler
      <4>2. CASE ~ nextMessage(g)
        <5>1. reading' = reading
          BY <3>4, <4>2 DEF handleClient, readAborted, findMutex, readIP, route, endOfStream,
               handlerEraseEntry, handlerEraseMutex
        <5>2. hpc'[h] = "blocked" => hpc[h] = "blocked"
          <6> USE DEF goHandler
          <6>1. CASE findMutex(g) BY <1>2, <6>1 DEF findMutex
          <6>2. CASE readIP(g) BY <1>2, <6>2 DEF readIP
          <6>3. CASE route(g) \/ endOfStream(g) \/ readAborted(g)
            BY <1>2, <6>3 DEF route, endOfStream, readAborted
          <6>4. CASE handlerEraseEntry(g) \/ handlerEraseMutex(g)
            BY <1>2, <6>4 DEF handlerEraseEntry, handlerEraseMutex
          <6> QED BY <3>4, <4>2, <6>1, <6>2, <6>3, <6>4 DEF handleClient
        <5> QED BY <1>4, <5>1, <5>2
      <4> QED BY <4>1, <4>2
    <3> QED BY <1>4, <3>1, <3>2, <3>3, <3>4 DEF Next, terminated
  <2> QED BY <2>1, <2>2, <2>3
<1> QED BY <1>3, <1>4 DEF ReadInv

\* A request that was read stays one.
LEMMA RoutedStays ==
  ASSUME ReplyInv, [Next]_vars, NEW w \in Works, Routed(w) PROVE Routed(w)'
<1>1. IInv /\ AddressInv /\ w.conn \in Conns BY DEF ReplyInv, Works
<1>2. PICK h \in Handlers : Old(h) /\ client[h] = tempID[w.conn] BY DEF Routed
<1>3. hpc[h] # "free" /\ ~ Young(h) BY <1>2 DEF Old, Young
<1>4. hpc'[h] # "free" /\ client'[h] = client[h] /\ ~ Young(h)' BY <1>1, <1>3, HandlersStep
<1>5. Old(h)' BY <1>4 DEF Old, Young
<1>6. client[h] \in Ids BY <1>1, <1>3 DEF IInv, ThreadInv
<1>7. tempID'[w.conn] = tempID[w.conn] BY <1>1, <1>2, <1>6, FirstIsKept DEF Ids
<1>8. asked[w.conn] \subseteq asked'[w.conn] BY <1>1, AskedKept
<1> QED BY <1>2, <1>4, <1>5, <1>7, <1>8 DEF Routed

\* Every step keeps the requests with those who sent them.
LEMMA RouteStep ==
  ASSUME ReplyInv, ReadInv, RouteInv, [Next]_vars PROVE RouteInv'
<1>1. IInv /\ AddressInv BY DEF ReplyInv
<1>2. ASSUME NEW w \in works', w.type # "AUTHENTICATE" PROVE Routed(w)'
  <2>1. CASE w \in works
    <3>1. w \in Works BY <1>1, <2>1 DEF IInv, TypeOK
    <3> QED BY <1>2, <2>1, <3>1, RoutedStays DEF RouteInv
  <2>2. CASE w \notin works
    <3>1. PICK h \in Handlers :
            /\ hpc[h] = "blocked" /\ w.conn = reading[h] /\ inbox[reading[h]] # << >>
            /\ Request(w.type, w.id) = Head(inbox[reading[h]])
      BY <1>1, <1>2, <2>2, RequestOrigin
    <3>2. w.conn \in Conns /\ tempID[w.conn] = client[h]
      BY <1>1, <3>1 DEF IInv, ThreadInv, ReadInv
    <3>3. Request(w.type, w.id) \in asked[w.conn]
      <4>1. inbox[w.conn] \in Seq(asked[w.conn]) BY <3>2 DEF ReadInv
      <4> QED BY <3>1, <4>1
    <3>4. w \in Works
      <4>1. TypeOK' BY <1>1, NextKeeps, StutterKeeps DEF IInv
      <4> QED BY <4>1 DEF TypeOK, Works
    <3>5. Routed(w) BY <3>1, <3>2, <3>3 DEF Routed, Old
    <3> QED BY <3>4, <3>5, RoutedStays
  <2> QED BY <2>1, <2>2
<1>3. ASSUME NEW m \in Managers, NEW w, w = job'[m], mgr'[m] # "idle",
             w.type # "AUTHENTICATE"
      PROVE  Routed(w)'
  <2>1. \/ mgr[m] # "idle" /\ w = job[m]
        \/ w \in works
    BY <1>1, <1>3, JobOrigin
  <2>2. w \in Works /\ Routed(w)
    BY <1>1, <1>3, <2>1 DEF IInv, TypeOK, ThreadInv, RouteInv
  <2> QED BY <2>2, RoutedStays
<1> QED BY <1>2, <1>3 DEF RouteInv

\* Every step keeps the works accounted for.
LEMMA WorkStep == ReplyInv /\ WorkInv /\ [Next]_vars => WorkInv'
<1> SUFFICES ASSUME ReplyInv, WorkInv, [Next]_vars PROVE WorkInv' OBVIOUS
<1>1. IInv /\ AddressInv /\ ReadInv /\ RouteInv BY DEF ReplyInv, WorkInv
<1>2. PlaceInv' /\ TokenInv'
  BY <1>1, WorkOpen, WorkRegister, WorkStart, WorkSpawn, WorkManager, WorkHandler, WorkStutter
     DEF Next, terminated
<1>3. ReadInv' /\ RouteInv' BY <1>1, ReadStep, RouteStep
<1> QED BY <1>2, <1>3 DEF WorkInv

\* There are none at first.
LEMMA WorkInit == Init => WorkInv
<1>1. Init => ReadInv BY DEF Init, ReadInv
<1> QED BY <1>1 DEF Init, WorkInv, PlaceInv, TokenInv, RouteInv, Auth

\* Every AUTHENTICATE is one work of the connection it came on, and every other work a
\* request sent on the connection it names, by a client that has a handler, whomever
\* the request itself names (Server.cpp:242-264, UserManager.cpp:119, 134).
THEOREM WorkInvariance == Spec => []WorkInv
<1>1. ReplyInv /\ WorkInv /\ [Next]_vars => WorkInv' BY WorkStep
<1> QED BY <1>1, WorkInit, ReplyInvariance, PTL DEF Spec

-----------------------------------------------------------------------------
(* The client that is authenticated on one connection.                     *)

\* A handler's client was authenticated. On one connection only: the client has one
\* handler, and its AUTHENTICATE is with the manager that brought the handler, or done.
SpawnInv ==
  /\ \A g, h \in Handlers :
       hpc[g] # "free" /\ hpc[h] # "free" /\ client[g] = client[h] /\ ~ Again(client[h]) => g = h
  /\ \A h \in Handlers : hpc[h] # "free" =>
       /\ \E c \in Conns : first[c] = Authenticate(client[h])
       /\ ~ Again(client[h]) =>
            /\ \A c \in Conns : first[c] = Authenticate(client[h]) => reg[c] = "done"
            /\ \A w \in works : w.type = "AUTHENTICATE" => w.id # client[h]
            /\ \A m \in Managers : Auth(m) /\ job[m].id = client[h]
                 => mgr[m] \in {"mark", "welcome"}
  /\ \A m \in Managers :
       mgr[m] = "spawn" /\ ~ Again(job[m].id) => ~ Spawned(job[m].id)

\* Unless a LOGOUT names it, the sockets a manager has found are there until the handler
\* it spawns has read the address of its client.
FullInv ==
  /\ \A m \in Managers : ~ Misused(job[m].id) =>
       /\ mgr[m] = "checkFrom" => isToClientSocketRegistered(job[m].id)
       /\ mgr[m] \in {"find", "spawn"} => Full(job[m].id)
  /\ \A h \in Handlers : Young(h) /\ ~ Misused(client[h]) =>
       /\ Full(client[h])
       /\ \A m \in Managers :
            mgr[m] \in {"refuse", "remove", "removeMutex"} => job[m].id # client[h]

\* Only one AUTHENTICATE of it is with the server.
LEMMA Alone ==
  ASSUME IInv, WorkInv, NEW m \in Managers, Auth(m), ~ Again(job[m].id)
  PROVE  /\ \A n \in Managers : Auth(n) /\ job[n].id = job[m].id => n = m
         /\ \A w \in works : w.type = "AUTHENTICATE" => w.id # job[m].id
         /\ \A c \in Conns : first[c] = Authenticate(job[m].id) => reg[c] = "done"
<1>1. job[m].id \in Ids /\ job[m].conn \in Conns
  BY DEF Auth, IInv, ThreadInv, Works
<1>2. /\ \A w \in works : w.conn \in Conns
      /\ \A n \in Managers : Auth(n) => job[n].conn \in Conns
  BY DEF IInv, TypeOK, ThreadInv, Works, Auth
<1>3. \A c \in Conns : first[c] = Authenticate(job[m].id) => c = job[m].conn
  BY <1>1 DEF Again, WorkInv, TokenInv
<1> QED BY <1>2, <1>3 DEF WorkInv, TokenInv

\* A manager that removes a client does so for its AUTHENTICATE, or for a LOGOUT that
\* somebody sent.
LEMMA RemovesFor ==
  ASSUME IInv, WorkInv, NEW m \in Managers,
         mgr[m] \in {"bye", "byeAgain", "refuse", "remove", "removeMutex"}
  PROVE  job[m].id \in Ids /\ (Auth(m) \/ LoggedOut(job[m].id))
<1>1. job[m] \in Works BY DEF IInv, ThreadInv
<1>2. job[m].type \in {"AUTHENTICATE", "LOGOUT"} BY DEF WorkInv, PlaceInv
<1>3. CASE job[m].type = "AUTHENTICATE" BY <1>1, <1>3 DEF Auth, Works
<1>4. CASE job[m].type = "LOGOUT"
  <2>1. Request("LOGOUT", job[m].id) \in asked[job[m].conn]
    BY <1>4 DEF WorkInv, RouteInv, Routed
  <2> QED BY <1>1, <2>1 DEF LoggedOut, Works
<1> QED BY <1>2, <1>3, <1>4

\* What was so of the AUTHENTICATE of a client that has a handler stays so.
LEMMA SpawnedStays ==
  ASSUME BaseInv, SpawnInv, [Next]_vars,
         NEW h \in Handlers, hpc[h] # "free", NEW i \in Ids, i = client[h]
  PROVE  /\ \E c \in Conns : first'[c] = Authenticate(i)
         /\ ~ Again(i)' =>
              /\ \A c \in Conns : first'[c] = Authenticate(i) => reg'[c] = "done"
              /\ \A w \in works' : w.type = "AUTHENTICATE" => w.id # i
              /\ \A m \in Managers : Auth(m)' /\ job'[m].id = i => mgr'[m] \in {"mark", "welcome"}
<1>1. ReplyInv /\ IInv /\ AddressInv /\ WorkInv BY DEF BaseInv, ReplyInv
<1>2. PICK c \in Conns : first[c] = Authenticate(i) BY DEF SpawnInv
<1>3. first'[c] = Authenticate(i)
  <2>1. NoMessage.type # Authenticate(i).type BY DEF NoMessage, Authenticate
  <2> QED BY <1>1, <1>2, <2>1, FirstIsKept
<1> SUFFICES ASSUME ~ Again(i)'
             PROVE  /\ \A d \in Conns : first'[d] = Authenticate(i) => reg'[d] = "done"
                    /\ \A w \in works' : w.type = "AUTHENTICATE" => w.id # i
                    /\ \A m \in Managers : Auth(m)' /\ job'[m].id = i
                         => mgr'[m] \in {"mark", "welcome"}
  BY <1>3
<1>4. ~ Again(i) BY <1>1, MisuseStays
<1>5. ASSUME NEW d \in Conns, first'[d] = Authenticate(i) PROVE reg'[d] = "done"
  <2>1. d = c BY <1>3, <1>5 DEF Again
  <2>2. reg[c] = "done" BY <1>2, <1>4 DEF SpawnInv
  <2> QED BY <1>1, <2>1, <2>2, DoneIsKept
<1>6. ASSUME NEW w \in works', w.type = "AUTHENTICATE" PROVE w.id # i
  BY <1>1, <1>4, <1>6, WorkOrigin DEF SpawnInv
<1>7. ASSUME NEW m \in Managers, Auth(m)', job'[m].id = i PROVE mgr'[m] \in {"mark", "welcome"}
  <2>1. mgr'[m] # "idle" /\ job'[m].type = "AUTHENTICATE" BY <1>7 DEF Auth
  <2>2. Auth(m) /\ job'[m] = job[m]
    BY <1>1, <1>4, <1>7, <2>1, JobOrigin DEF SpawnInv, Auth
  <2>3. mgr[m] \in {"mark", "welcome"} BY <1>4, <1>7, <2>2 DEF SpawnInv
  <2> QED BY <1>1, <2>1, <2>3, ManagersStep DEF Moved, ManagerPlaces
<1> QED BY <1>5, <1>6, <1>7

\* A manager finds no handler for the client it is to start one for.
LEMMA SpawnChecked ==
  ASSUME BaseInv, SpawnInv, [Next]_vars,
         NEW m \in Managers, mgr'[m] = "spawn", NEW i, i = job'[m].id, ~ Again(i)'
  PROVE  ~ Spawned(i)'
<1>1. ReplyInv /\ IInv /\ AddressInv /\ WorkInv BY DEF BaseInv, ReplyInv
<1>2. job'[m] = job[m] /\ mgr[m] \in {"find", "spawn"} BY <1>1, ManagersStep DEF Moved
<1>3. Auth(m) /\ i \in Ids /\ i = job[m].id
  BY <1>1, <1>2 DEF WorkInv, PlaceInv, Auth, IInv, ThreadInv, Works
<1>4. ~ Again(i) BY <1>1, <1>3, MisuseStays
<1>5. ~ Spawned(i) BY <1>2, <1>3, <1>4 DEF SpawnInv, Spawned
<1>6. \A n \in Managers : mgr[n] = "spawn" /\ job[n].id = i => n = m
  BY <1>1, <1>3, <1>4, Alone DEF WorkInv, PlaceInv, Auth
<1>7. ASSUME NEW h \in Handlers, hpc'[h] # "free" PROVE client'[h] # i
  <2>1. CASE hpc[h] # "free" BY <1>1, <1>5, <2>1, HandlersStep DEF Spawned
  <2>2. CASE hpc[h] = "free" BY <1>1, <1>6, <1>7, <2>2, NewHandler
  <2> QED BY <2>1, <2>2
<1> QED BY <1>7 DEF Spawned

\* Every step keeps the handlers of the clients apart.
LEMMA SpawnStep ==
  ASSUME BaseInv, SpawnInv, [Next]_vars PROVE SpawnInv'
<1>1. ReplyInv /\ IInv /\ AddressInv /\ WorkInv BY DEF BaseInv, ReplyInv
<1>2. ASSUME NEW h \in Handlers, hpc[h] = "free", hpc'[h] # "free",
             NEW g \in Handlers \ {h}, hpc'[g] # "free", NEW i, i = client'[h], ~ Again(i)'
      PROVE  client'[g] # i
  <2>1. PICK m \in Managers :
          /\ mgr[m] = "spawn" /\ i = job[m].id
          /\ hpc'[g] = hpc[g] /\ client'[g] = client[g]
    BY <1>1, <1>2, NewHandler
  <2>2. i \in Ids BY <1>1, <2>1 DEF IInv, ThreadInv, Works
  <2>3. ~ Again(i) BY <1>1, <1>2, <2>2, MisuseStays
  <2> QED BY <1>2, <2>1, <2>3 DEF SpawnInv, Spawned
<1>3. ASSUME NEW g \in Handlers, NEW h \in Handlers, hpc'[g] # "free", hpc'[h] # "free",
             NEW i, i = client'[h], client'[g] = i, ~ Again(i)'
      PROVE  g = h
  <2>1. CASE hpc[g] # "free" /\ hpc[h] # "free"
    <3>1. client[g] = i /\ client[h] = i /\ i \in Ids
      BY <1>1, <1>3, <2>1, HandlersStep DEF IInv, ThreadInv
    <3>2. ~ Again(i) BY <1>1, <1>3, <3>1, MisuseStays
    <3> QED BY <2>1, <3>1, <3>2 DEF SpawnInv
  <2> QED BY <1>2, <1>3, <2>1
<1>4. ASSUME NEW h \in Handlers, hpc'[h] # "free", NEW i, i = client'[h]
      PROVE  /\ \E c \in Conns : first'[c] = Authenticate(i)
             /\ ~ Again(i)' =>
                  /\ \A c \in Conns : first'[c] = Authenticate(i) => reg'[c] = "done"
                  /\ \A w \in works' : w.type = "AUTHENTICATE" => w.id # i
                  /\ \A m \in Managers : Auth(m)' /\ job'[m].id = i
                       => mgr'[m] \in {"mark", "welcome"}
  <2>1. CASE hpc[h] # "free"
    <3>1. i = client[h] /\ i \in Ids BY <1>1, <1>4, <2>1, HandlersStep DEF IInv, ThreadInv
    <3> QED BY <2>1, <3>1, SpawnedStays
  <2>2. CASE hpc[h] = "free"
    <3>1. PICK m \in Managers :
            /\ mgr[m] = "spawn" /\ mgr'[m] = "mark" /\ i = job[m].id
            /\ UNCHANGED <<first, reg, works, job>>
            /\ \A n \in Managers \ {m} : mgr'[n] = mgr[n]
      BY <1>1, <1>4, <2>2, NewHandler
    <3>2. Auth(m) /\ i \in Ids
      BY <1>1, <3>1 DEF WorkInv, PlaceInv, Auth, IInv, ThreadInv, Works
    <3>3. \E c \in Conns : first[c] = Authenticate(i)
      BY <1>1, <3>1, <3>2 DEF WorkInv, TokenInv, Auth, IInv, ThreadInv, Works
    <3>4. ~ Again(i)' => ~ Again(i) BY <1>1, <3>2, MisuseStays
    <3>5. ~ Again(i) =>
            /\ \A n \in Managers : Auth(n) /\ job[n].id = i => n = m
            /\ \A w \in works : w.type = "AUTHENTICATE" => w.id # i
            /\ \A c \in Conns : first[c] = Authenticate(i) => reg[c] = "done"
      BY <1>1, <3>1, <3>2, Alone
    <3>6. ~ Again(i) => \A n \in Managers : Auth(n)' /\ job'[n].id = i => n = m
      BY <3>1, <3>2, <3>5 DEF Auth
    <3> QED BY <3>1, <3>3, <3>4, <3>5, <3>6
  <2> QED BY <2>1, <2>2
<1>5. ASSUME NEW m \in Managers, mgr'[m] = "spawn", NEW i, i = job'[m].id, ~ Again(i)'
      PROVE  ~ Spawned(i)'
  BY <1>5, SpawnChecked
<1> QED BY <1>3, <1>4, <1>5 DEF SpawnInv

-----------------------------------------------------------------------------
(* Its sockets, until the handler has its address.                         *)

\* While a manager that authenticates a client has not refused it, nobody takes the
\* client's entry.
LEMMA CheckedIsKept ==
  ASSUME BaseInv, SpawnInv, [Next]_vars, NEW m \in Managers,
         mgr[m] \in {"checkTo", "checkFrom", "find", "spawn"}, ~ Misused(job[m].id)
  PROVE  Keeps(job[m].id)
<1> DEFINE i == job[m].id
<1>1. IInv /\ AddressInv /\ WorkInv BY DEF BaseInv, ReplyInv
<1>2. Auth(m) /\ i \in Ids BY <1>1 DEF WorkInv, PlaceInv, Auth, IInv, ThreadInv, Works
<1>3. ~ Again(i) /\ ~ LoggedOut(i) BY DEF Misused
<1>4. ~ \E h \in Handlers : Old(h) /\ client[h] = i
  BY <1>2, <1>3 DEF SpawnInv, Spawned, Old
<1>5. ASSUME NEW n \in Managers, mgr[n] \in {"remove", "removeMutex"} PROVE job[n].id # i
  <2>1. SUFFICES ASSUME job[n].id = i PROVE FALSE OBVIOUS
  <2>2. Auth(n) BY <1>1, <1>3, <1>5, <2>1, RemovesFor
  <2>3. n = m BY <1>1, <1>2, <1>3, <2>1, <2>2, Alone
  <2> QED BY <1>5, <2>3
<1> QED BY <1>1, <1>2, <1>4, <1>5, Removal

\* While its handler has not read the address, neither.
LEMMA YoungIsKept ==
  ASSUME BaseInv, SpawnInv, FullInv, [Next]_vars, NEW h \in Handlers, Young(h),
         ~ Misused(client[h])
  PROVE  Keeps(client[h])
<1>1. IInv /\ AddressInv BY DEF BaseInv, ReplyInv
<1>2. client[h] \in Ids BY <1>1 DEF Young, IInv, ThreadInv
<1>3. \A g \in Handlers : Old(g) => client[g] # client[h]
  BY DEF SpawnInv, Young, Old, Misused
<1> QED BY <1>1, <1>2, <1>3, Removal DEF FullInv

\* What a manager has found in the registry is still there.
LEMMA FullChecked ==
  ASSUME BaseInv, SpawnInv, FullInv, [Next]_vars,
         NEW m \in Managers, NEW i, i = job'[m].id, ~ Misused(i)'
  PROVE  /\ mgr'[m] = "checkFrom" => isToClientSocketRegistered(i)'
         /\ mgr'[m] \in {"find", "spawn"} => Full(i)'
<1> SUFFICES ASSUME mgr'[m] \in {"checkFrom", "find", "spawn"}
             PROVE  /\ mgr'[m] = "checkFrom" => isToClientSocketRegistered(i)'
                    /\ mgr'[m] \in {"find", "spawn"} => Full(i)'
  OBVIOUS
<1>1. ReplyInv /\ IInv /\ AddressInv /\ WorkInv BY DEF BaseInv, ReplyInv
<1>2. i = job[m].id /\ (mgr'[m] = mgr[m] \/ Moved(m)) BY <1>1, ManagersStep DEF Moved
<1>3. mgr[m] \in {"checkTo", "checkFrom", "find", "spawn"} BY <1>2 DEF Moved
<1>4. i \in Ids BY <1>1, <1>2, <1>3 DEF IInv, ThreadInv, Works
<1>5. ~ Misused(i) BY <1>1, <1>4, MisuseStays
<1>6. Keeps(i) BY <1>2, <1>3, <1>5, CheckedIsKept
<1>7. /\ mgr'[m] = "checkFrom" => isToClientSocketRegistered(i)
      /\ mgr'[m] \in {"find", "spawn"} => Full(i)
  BY <1>2, <1>5 DEF Moved, FullInv, Full
<1> QED BY <1>6, <1>7 DEF Keeps, Full

\* What a handler is about to dereference is still there.
LEMMA FullYoung ==
  ASSUME BaseInv, SpawnInv, FullInv, [Next]_vars,
         NEW h \in Handlers, Young(h)', NEW i, i = client'[h], ~ Misused(i)'
  PROVE  /\ Full(i)'
         /\ \A m \in Managers :
              mgr'[m] \in {"refuse", "remove", "removeMutex"} => job'[m].id # i
<1>1. ReplyInv /\ IInv /\ AddressInv /\ WorkInv BY DEF BaseInv, ReplyInv
<1>2. CASE hpc[h] # "free"
  <2>1. Young(h) /\ client[h] = i /\ i \in Ids
    BY <1>1, <1>2, HandlersStep DEF IInv, ThreadInv
  <2>2. ~ Misused(i) /\ ~ LoggedOut(i) BY <1>1, <2>1, MisuseStays DEF Misused
  <2>3. Full(i) BY <2>1, <2>2 DEF FullInv
  <2>4. Full(i)' BY <2>1, <2>2, <2>3, YoungIsKept DEF Keeps, Full
  <2>5. ASSUME NEW m \in Managers, mgr'[m] \in {"refuse", "remove", "removeMutex"}
        PROVE  job'[m].id # i
    <3>1. job'[m] = job[m] BY <1>1, <2>5, ManagersStep DEF Moved
    <3>2. ASSUME mgr[m] \in {"bye", "byeAgain"}, job[m].id = i PROVE FALSE
      <4>1. Auth(m) BY <1>1, <2>2, <3>2, RemovesFor
      <4> QED BY <1>1, <3>2, <4>1 DEF WorkInv, PlaceInv, Auth
    <3> QED BY <1>1, <2>1, <2>2, <2>3, <2>5, <3>1, <3>2, ManagersStep DEF Moved, FullInv, Full
  <2> QED BY <2>4, <2>5
<1>3. CASE hpc[h] = "free"
  <2>1. PICK m \in Managers :
          /\ mgr[m] = "spawn" /\ mgr'[m] = "mark" /\ i = job[m].id
          /\ UNCHANGED <<job, registryVars>>
          /\ \A n \in Managers \ {m} : mgr'[n] = mgr[n]
    BY <1>1, <1>3, NewHandler DEF Young
  <2>2. Auth(m) /\ i \in Ids
    BY <1>1, <2>1 DEF WorkInv, PlaceInv, Auth, IInv, ThreadInv, Works
  <2>3. ~ Misused(i) /\ ~ Again(i) /\ ~ LoggedOut(i)
    BY <1>1, <2>2, MisuseStays DEF Misused
  <2>4. Full(i) BY <2>1, <2>3 DEF FullInv
  <2>5. Full(i)'
    BY <2>1, <2>4 DEF Full, isFromClientSocketRegistered, isToClientSocketRegistered, registryVars
  <2>6. ASSUME NEW n \in Managers, mgr'[n] \in {"refuse", "remove", "removeMutex"}
        PROVE  job'[n].id # i
    <3>1. n # m /\ mgr[n] = mgr'[n] /\ job'[n] = job[n] BY <2>1, <2>6
    <3>2. SUFFICES ASSUME job[n].id = i PROVE FALSE BY <3>1
    <3>3. Auth(n) BY <1>1, <2>3, <2>6, <3>1, <3>2, RemovesFor
    <3> QED BY <1>1, <2>1, <2>2, <2>3, <3>1, <3>2, <3>3, Alone
  <2> QED BY <2>5, <2>6
<1> QED BY <1>2, <1>3

\* Every step keeps the sockets that were found.
LEMMA FullStep ==
  ASSUME BaseInv, SpawnInv, FullInv, [Next]_vars PROVE FullInv'
<1>1. ASSUME NEW m \in Managers, NEW i, i = job'[m].id, ~ Misused(i)'
      PROVE  /\ mgr'[m] = "checkFrom" => isToClientSocketRegistered(i)'
             /\ mgr'[m] \in {"find", "spawn"} => Full(i)'
  BY <1>1, FullChecked
<1>2. ASSUME NEW h \in Handlers, Young(h)', NEW i, i = client'[h], ~ Misused(i)'
      PROVE  /\ Full(i)'
             /\ \A m \in Managers :
                  mgr'[m] \in {"refuse", "remove", "removeMutex"} => job'[m].id # i
  BY <1>2, FullYoung
<1> QED BY <1>1, <1>2 DEF FullInv

\* The server starts with no handler.
LEMMA SpawnInit == Init => SpawnInv /\ FullInv
BY DEF Init, SpawnInv, FullInv, Young

\* The clients' handlers and what they have found, in every reachable state.
THEOREM HandlerInvariance == Spec => [](BaseInv /\ SpawnInv /\ FullInv)
<1>1. Spec => []BaseInv BY ReplyInvariance, WorkInvariance, PTL DEF BaseInv
<1>2. BaseInv /\ SpawnInv /\ FullInv /\ [Next]_vars => SpawnInv' /\ FullInv'
  BY SpawnStep, FullStep
<1> QED BY <1>1, <1>2, SpawnInit, PTL DEF Spec

\* The handler of a client that was authenticated on one connection, and that no LOGOUT
\* names, finds the FROM socket it dereferences without a check (Server.cpp:565),
\* whatever other clients do.
THEOREM NullOnlyIfMisusedAlways == Spec => []NullOnlyIfMisused
<1>1. FullInv => NullOnlyIfMisused
  BY DEF FullInv, NullOnlyIfMisused, Young, Full, isFromClientSocketRegistered
<1> QED BY <1>1, HandlerInvariance, PTL

-----------------------------------------------------------------------------
(* What is left of a client whose handler is done.                         *)

\* Somebody has erased the entry of the client and is about to erase its mutex.
Remover(i) ==
  \/ \E m \in Managers : mgr[m] = "removeMutex" /\ job[m].id = i
  \/ \E h \in Handlers : hpc[h] = "removeMutex" /\ client[h] = i

\* The client has its entry with both sockets and its mutex, or no entry, and the mutex
\* then only until the one who erased the entry erases it too.
Clean(i) ==
  /\ Full(i) \/ ~ Present(i)
  /\ i \in mutexes => Present(i) \/ Remover(i)
  /\ Remover(i) => ~ Present(i)

\* Of a client with a handler that has its id to itself: the thread that registered
\* its FROM socket has nothing more to register, the client is wholly there or not at
\* all, and not after its handler is done.
EndInv ==
  \A h \in Handlers : hpc[h] # "free" /\ ~ Misused(client[h]) /\ ~ Shared(client[h]) =>
    /\ \E c \in Conns : tempID[c] = client[h] /\ reg[c] \in {"confirm", "unframed", "done"}
    /\ Clean(client[h])
    /\ hpc[h] = "done" => ~ Present(client[h])

\* The entry of id i is not touched.
Same(i) ==
  /\ fromSocket'[i] = fromSocket[i] /\ toSocket'[i] = toSocket[i]
  /\ i \in mutexes' <=> i \in mutexes

\* No registration thread fills the entry of a client that has a handler.
LEMMA RegistrationIsOver ==
  ASSUME BaseInv, SpawnInv, EndInv, NEW h \in Handlers, hpc[h] # "free",
         NEW i \in Ids, i = client[h], ~ Misused(i), ~ Shared(i),
         NEW c \in Conns, registerClient(c)
  PROVE  Same(i)
<1>1. IInv /\ AddressInv BY DEF BaseInv, ReplyInv
<1>2. /\ fromSocket \in [Ids -> Conns \cup {NoConn}] /\ toSocket \in [Ids -> Conns \cup {NoConn}]
      /\ 0 \notin Ids
  BY <1>1 DEF IInv, TypeOK, Ids
<1>3. CASE addFrom(c)
  <2>1. reg[c] = "addFrom" /\ tempID[c] \in Ids
    BY <1>1, <1>3 DEF addFrom, regAt, IInv, RegistrationInv
  <2>2. tempID[c] # i BY <2>1 DEF EndInv, Shared
  <2> QED BY <1>2, <1>3, <2>1, <2>2 DEF addFrom, addFromClientSocket, registryVars, Same
<1>4. CASE addTo(c)
  <2>1. reg[c] = "addTo" /\ first[c].id \in Ids
    BY <1>1, <1>4 DEF addTo, regAt, IInv, RegistrationInv
  <2>2. first[c] = Authenticate(first[c].id)
    BY <1>1, <2>1 DEF AddressInv, FirstInv, IInv, TypeOK, Authenticate
  <2>3. first[c].id # i BY <2>1, <2>2 DEF SpawnInv, Misused
  <2> QED BY <1>2, <1>4, <2>1, <2>3 DEF addTo, addToClientSocket, Same
<1>5. CASE ~ addFrom(c) /\ ~ addTo(c)
  BY <1>5 DEF registerClient, readFirst, checkFrom, reject, loadTempID, storeTempID, confirm,
       writeUnframed, checkTo, pushAuth, registryVars, Same
<1> QED BY <1>3, <1>4, <1>5

\* A manager empties an entry before it takes the mutex, and fills none.
LEMMA CleanManager ==
  ASSUME IInv, NEW i \in Ids, Clean(i), NEW m \in Managers, processWork(m)
  PROVE  Clean(i)' /\ (~ Present(i) => ~ Present(i)')
<1> USE DEF Clean, Full, Present, isFromClientSocketRegistered, isToClientSocketRegistered,
        registryVars
<1>0. /\ mgr \in [Managers -> ManagerPlaces] /\ hpc \in [Handlers -> HandlerPlaces]
      /\ fromSocket \in [Ids -> Conns \cup {NoConn}] /\ toSocket \in [Ids -> Conns \cup {NoConn}]
  BY DEF IInv, TypeOK
<1>1. CASE mgrEraseEntry(m)
  <2>1. mgr[m] = "remove" /\ UNCHANGED <<job, hpc, client>> /\ job[m].id \in Ids
    BY <1>1 DEF mgrEraseEntry, mgrAt, handlerVars, IInv, ThreadInv, Works
  <2>2. CASE eraseEntry(job[m].id) /\ goMgr(m, "removeMutex")
    <3>1. /\ fromSocket' = [fromSocket EXCEPT ![job[m].id] = NoConn]
          /\ toSocket' = [toSocket EXCEPT ![job[m].id] = NoConn]
          /\ mutexes' = mutexes /\ mgr' = [mgr EXCEPT ![m] = "removeMutex"]
      BY <2>2 DEF eraseEntry, goMgr
    <3>2. CASE job[m].id = i
      <4>1. Remover(i)' BY <1>0, <2>1, <3>1, <3>2 DEF Remover
      <4> QED BY <1>0, <3>1, <3>2, <4>1
    <3>3. CASE job[m].id # i
      <4>1. Remover(i)' <=> Remover(i) BY <1>0, <2>1, <3>1, <3>3 DEF Remover
      <4> QED BY <1>0, <3>1, <3>3, <4>1
    <3> QED BY <3>2, <3>3
  <2>3. CASE UNCHANGED registryVars /\ goMgr(m, afterRemove(m))
    <3>1. Remover(i)' <=> Remover(i) BY <1>0, <2>1, <2>3 DEF Remover, goMgr, afterRemove
    <3> QED BY <2>3, <3>1
  <2> QED BY <1>1, <2>2, <2>3 DEF mgrEraseEntry
<1>2. CASE mgrEraseMutex(m)
  <2>1. /\ mgr[m] = "removeMutex" /\ mgr' = [mgr EXCEPT ![m] = afterRemove(m)]
        /\ mutexes' = mutexes \ {job[m].id}
        /\ UNCHANGED <<job, hpc, client, fromSocket, toSocket>>
    BY <1>2 DEF mgrEraseMutex, mgrAt, goMgr, removeClientSocketMutex, handlerVars
  <2>2. CASE job[m].id = i
    <3>1. ~ Present(i) BY <2>1, <2>2 DEF Remover
    <3> QED BY <2>1, <2>2, <3>1
  <2>3. CASE job[m].id # i
    <3>1. Remover(i)' <=> Remover(i) BY <1>0, <2>1, <2>3 DEF Remover, afterRemove
    <3> QED BY <2>1, <2>3, <3>1
  <2> QED BY <2>2, <2>3
<1>3. CASE ~ mgrEraseEntry(m) /\ ~ mgrEraseMutex(m)
  <2>1. UNCHANGED registryVars
    BY <1>3 DEF processWork, startJob, authUser, authCheckTo, authCheckFrom, findStarted,
         spawnHandler, markStarted, welcome, refuse, logoutUser, bye, byeAgain, unmark, answer
  <2>2. \A h \in Handlers : /\ hpc'[h] = "removeMutex" <=> hpc[h] = "removeMutex"
                            /\ hpc[h] = "removeMutex" => client'[h] = client[h]
    <3>1. CASE spawnHandler(m) BY <1>0, <3>1, SpawnEffect DEF IInv, TypeOK
    <3>2. CASE ~ spawnHandler(m) BY <3>2, ManagerEffect, StartEffect
    <3> QED BY <3>1, <3>2
  <2>3. \A n \in Managers : /\ mgr'[n] = "removeMutex" <=> mgr[n] = "removeMutex"
                            /\ mgr[n] = "removeMutex" => job'[n] = job[n]
    <3>1. mgr[m] # "removeMutex"
      BY <1>3 DEF processWork, startJob, authUser, authCheckTo, authCheckFrom, findStarted,
           spawnHandler, markStarted, welcome, refuse, logoutUser, bye, byeAgain, unmark, answer,
           mgrAt
    <3>2. mgr'[m] # "removeMutex"
      <4>1. mgr[m] # "remove"
        BY <1>3 DEF processWork, startJob, authUser, authCheckTo, authCheckFrom, findStarted,
             spawnHandler, markStarted, welcome, refuse, logoutUser, bye, byeAgain, unmark,
             answer, mgrAt
      <4> QED BY <4>1, ManagerMoves DEF Moved
    <3> QED BY <3>1, <3>2, ManagerMoves
  <2>4. Remover(i)' <=> Remover(i) BY <2>2, <2>3 DEF Remover
  <2> QED BY <2>1, <2>4
<1> QED BY <1>1, <1>2, <1>3

\* So does a handler thread.
LEMMA CleanHandler ==
  ASSUME IInv, NEW i \in Ids, Clean(i), NEW h \in Handlers, handleClient(h) \/ readAborted(h)
  PROVE  Clean(i)' /\ (~ Present(i) => ~ Present(i)')
<1> USE DEF Clean, Full, Present, isFromClientSocketRegistered, isToClientSocketRegistered,
        registryVars
<1>0. /\ hpc \in [Handlers -> HandlerPlaces]
      /\ fromSocket \in [Ids -> Conns \cup {NoConn}] /\ toSocket \in [Ids -> Conns \cup {NoConn}]
      /\ UNCHANGED <<mgr, job, client>>
  BY HandlerEffect DEF IInv, TypeOK
<1>1. CASE handlerEraseEntry(h)
  <2>1. hpc[h] = "remove" /\ client[h] \in Ids
    BY <1>1 DEF handlerEraseEntry, handlerAt, IInv, ThreadInv
  <2>2. CASE eraseEntry(client[h]) /\ goHandler(h, "removeMutex")
    <3>1. /\ fromSocket' = [fromSocket EXCEPT ![client[h]] = NoConn]
          /\ toSocket' = [toSocket EXCEPT ![client[h]] = NoConn]
          /\ mutexes' = mutexes /\ hpc' = [hpc EXCEPT ![h] = "removeMutex"]
      BY <2>2 DEF eraseEntry, goHandler
    <3>2. CASE client[h] = i
      <4>1. Remover(i)' BY <1>0, <2>1, <3>1, <3>2 DEF Remover
      <4> QED BY <1>0, <3>1, <3>2, <4>1
    <3>3. CASE client[h] # i
      <4>1. Remover(i)' <=> Remover(i) BY <1>0, <2>1, <3>1, <3>3 DEF Remover
      <4> QED BY <1>0, <3>1, <3>3, <4>1
    <3> QED BY <3>2, <3>3
  <2>3. CASE UNCHANGED registryVars /\ goHandler(h, "done")
    <3>1. Remover(i)' <=> Remover(i) BY <1>0, <2>1, <2>3 DEF Remover, goHandler
    <3> QED BY <2>3, <3>1
  <2> QED BY <1>1, <2>2, <2>3 DEF handlerEraseEntry
<1>2. CASE handlerEraseMutex(h)
  <2>1. /\ hpc[h] = "removeMutex" /\ hpc' = [hpc EXCEPT ![h] = "done"]
        /\ mutexes' = mutexes \ {client[h]} /\ UNCHANGED <<fromSocket, toSocket>>
    BY <1>2 DEF handlerEraseMutex, handlerAt, goHandler, removeClientSocketMutex
  <2>2. CASE client[h] = i
    <3>1. ~ Present(i) BY <2>1, <2>2 DEF Remover
    <3> QED BY <2>1, <2>2, <3>1
  <2>3. CASE client[h] # i
    <3>1. Remover(i)' <=> Remover(i) BY <1>0, <2>1, <2>3 DEF Remover
    <3> QED BY <2>1, <2>3, <3>1
  <2> QED BY <2>2, <2>3
<1>3. CASE ~ handlerEraseEntry(h) /\ ~ handlerEraseMutex(h)
  <2>1. UNCHANGED registryVars
    BY <1>3 DEF handleClient, readAborted, findMutex, readIP, nextMessage, route, endOfStream
  <2>2. hpc[h] # "removeMutex" /\ hpc'[h] # "removeMutex"
    <3> USE DEF handlerAt, goHandler
    <3>1. CASE findMutex(h) \/ readIP(h) BY <1>0, <3>1 DEF findMutex, readIP
    <3>2. CASE nextMessage(h) BY <1>0, <3>2 DEF nextMessage
    <3>3. CASE route(h) \/ endOfStream(h) \/ readAborted(h)
      BY <1>0, <3>3 DEF route, endOfStream, readAborted
    <3> QED BY <1>3, <3>1, <3>2, <3>3 DEF handleClient
  <2>3. \A g \in Handlers \ {h} : hpc'[g] = hpc[g] BY <1>0, HandlerEffect
  <2>4. Remover(i)' <=> Remover(i) BY <1>0, <2>2, <2>3 DEF Remover
  <2> QED BY <2>1, <2>4
<1> QED BY <1>1, <1>2, <1>3

\* No step leaves the client of a handler half registered, or registers it once more.
LEMMA CleanStep ==
  ASSUME BaseInv, SpawnInv, EndInv, [Next]_vars, NEW h \in Handlers, hpc[h] # "free",
         NEW i \in Ids, i = client[h], ~ Misused(i), ~ Shared(i)
  PROVE  Clean(i)' /\ (~ Present(i) => ~ Present(i)')
<1>1. IInv /\ AddressInv /\ Clean(i)
  BY DEF BaseInv, ReplyInv, EndInv
<1>2. ASSUME Same(i), UNCHANGED <<mgr, job, hpc, client>>
      PROVE  Clean(i)' /\ (~ Present(i) => ~ Present(i)')
  BY <1>1, <1>2 DEF Same, Clean, Full, Present, Remover, isFromClientSocketRegistered,
       isToClientSocketRegistered
<1>3. ASSUME NEW c \in Conns, registerClient(c) PROVE Same(i) /\ UNCHANGED <<mgr, job, hpc, client>>
  BY <1>1, <1>3, RegistrationIsOver, RegisterEffect
<1>4. ASSUME NEW c \in Conns, open(c) \/ request(c) \/ leave(c)
      PROVE  Same(i) /\ UNCHANGED <<mgr, job, hpc, client>>
  BY <1>1, <1>4, ClientEffect DEF Same, workVars, registryVars
<1>5. CASE UNCHANGED vars
  BY <1>2, <1>5 DEF Same, vars, registryVars, mgrVars, handlerVars
<1> QED BY <1>1, <1>2, <1>3, <1>4, <1>5, CleanManager, CleanHandler DEF Next, terminated

\* A handler is done when there is no entry.
LEMMA LastStep ==
  ASSUME IInv, AddressInv, [Next]_vars, NEW h \in Handlers, hpc[h] \notin {"free", "done"},
         hpc'[h] = "done", NEW i \in Ids, i = client[h], Clean(i)
  PROVE  ~ Present(i)'
<1>0. hpc \in [Handlers -> HandlerPlaces] BY DEF IInv, TypeOK
<1>1. handleClient(h) \/ readAborted(h)
  <2>1. ASSUME NEW m \in Managers, processWork(m) PROVE hpc'[h] # "done"
    <3>1. CASE spawnHandler(m) BY <1>0, <3>1, SpawnEffect
    <3>2. CASE ~ spawnHandler(m) BY <2>1, <3>2, ManagerEffect, StartEffect
    <3> QED BY <3>1, <3>2
  <2>2. ASSUME NEW g \in Handlers \ {h}, handleClient(g) \/ readAborted(g) PROVE hpc'[h] # "done"
    BY <1>0, <2>2, HandlerEffect
  <2> QED BY <2>1, <2>2, ClientEffect, RegisterEffect
          DEF Next, terminated, workVars, vars, handlerVars
<1>2. CASE handlerEraseEntry(h)
  <2>1. ~ (i \in mutexes /\ Present(i)) /\ UNCHANGED registryVars
    BY <1>0, <1>2 DEF handlerEraseEntry, goHandler
  <2> QED BY <2>1 DEF Clean, Full, Present, isFromClientSocketRegistered, registryVars
<1>3. CASE handlerEraseMutex(h)
  <2>1. hpc[h] = "removeMutex" /\ UNCHANGED <<fromSocket, toSocket>>
    BY <1>3 DEF handlerEraseMutex, handlerAt, removeClientSocketMutex
  <2> QED BY <2>1 DEF Clean, Remover, Present
<1>4. CASE ~ handlerEraseEntry(h) /\ ~ handlerEraseMutex(h)
  <2> USE DEF handlerAt, goHandler
  <2>1. CASE findMutex(h) \/ readIP(h) BY <1>0, <2>1 DEF findMutex, readIP
  <2>2. CASE nextMessage(h) BY <1>0, <2>2 DEF nextMessage
  <2>3. CASE route(h) \/ endOfStream(h) \/ readAborted(h)
    BY <1>0, <2>3 DEF route, endOfStream, readAborted
  <2> QED BY <1>1, <1>4, <2>1, <2>2, <2>3 DEF handleClient
<1> QED BY <1>2, <1>3, <1>4

\* A thread that has registered a FROM socket has only its reply left to do.
LEMMA RegistrationEnds ==
  ASSUME IInv, AddressInv, [Next]_vars, NEW c \in Conns, reg[c] \in {"confirm", "unframed", "done"}
  PROVE  reg'[c] \in {"confirm", "unframed", "done"}
<1>0. reg \in [Conns -> RegistrationPlaces] BY DEF IInv, TypeOK
<1>1. CASE registerClient(c)
  <2> USE DEF regAt, goReg, endReg
  <2>1. confirm(c) \/ writeUnframed(c)
    BY <1>1 DEF registerClient, readFirst, checkFrom, reject, loadTempID, storeTempID, addFrom,
         checkTo, addTo, pushAuth
  <2> QED BY <1>0, <2>1 DEF confirm, writeUnframed
<1>2. CASE ~ registerClient(c)
  BY <1>0, <1>2, ClientEffect, RegisterEffect, ManagerEffect, StartEffect, SpawnEffect,
     HandlerEffect DEF Next, terminated, vars, regVars
<1> QED BY <1>1, <1>2

\* A new handler's client is wholly registered.
LEMMA NewIsClean ==
  ASSUME BaseInv, SpawnInv, FullInv, FullInv', [Next]_vars,
         NEW h \in Handlers, hpc[h] = "free", hpc'[h] # "free",
         NEW i \in Ids, i = client'[h], ~ Misused(i)'
  PROVE  /\ \E c \in Conns : tempID'[c] = i /\ reg'[c] \in {"confirm", "unframed", "done"}
         /\ Clean(i)'
         /\ hpc'[h] # "done"
<1>1. ReplyInv /\ IInv /\ AddressInv /\ WorkInv /\ ~ Misused(i) /\ ~ Again(i)
  BY MisuseStays DEF BaseInv, ReplyInv, Misused
<1>2. PICK m \in Managers :
        /\ spawnHandler(m) /\ mgr[m] = "spawn" /\ mgr'[m] = "mark" /\ i = job[m].id
        /\ \A n \in Managers \ {m} : mgr'[n] = mgr[n]
        /\ \A g \in Handlers \ {h} : hpc'[g] = hpc[g] /\ client'[g] = client[g]
        /\ UNCHANGED <<reg, job, registryVars, tempID>> /\ hpc'[h] = "mutex"
  <2>1. PICK m \in Managers : spawnHandler(m) BY <1>1, HandlersStep
  <2>2. PICK g \in Handlers :
          /\ hpc' = [hpc EXCEPT ![g] = "mutex"] /\ client' = [client EXCEPT ![g] = job[m].id]
    BY <2>1, SpawnEffect
  <2>3. /\ hpc \in [Handlers -> HandlerPlaces] /\ client \in [Handlers -> 0 .. MaxId]
        /\ mgr \in [Managers -> ManagerPlaces]
    BY <1>1 DEF IInv, TypeOK
  <2>4. g = h BY <2>2, <2>3
  <2> QED BY <2>1, <2>2, <2>3, <2>4, SpawnEffect
<1>3. Full(i) BY <1>1, <1>2 DEF FullInv
<1>4. Full(i)' /\ Present(i)'
  BY <1>2, <1>3 DEF Full, Present, isFromClientSocketRegistered, isToClientSocketRegistered,
       registryVars
<1>5. PICK c \in Conns : c = fromSocket[i] /\ tempID[c] = i
  BY <1>1, <1>3 DEF Full, isFromClientSocketRegistered, IInv, TypeOK, AddressInv, EntryInv
<1>6. reg[c] \in {"confirm", "unframed", "done"}
  <2>1. Registered(c) BY <1>5 DEF Registered
  <2>2. reg[c] \in RegistrationPlaces \ Fresh BY <1>1, <2>1 DEF IInv, TypeOK, OwnerInv
  <2>3. reg[c] \notin {"unborn", "push"}
    BY <1>1, <1>5 DEF AddressInv, FirstInv, Ids
  <2> QED BY <2>2, <2>3 DEF RegistrationPlaces, Fresh
<1>7. ~ Remover(i)'
  <2>1. Young(h)' BY <1>2 DEF Young
  <2>2. \A n \in Managers : mgr'[n] = "removeMutex" => job'[n].id # i
    BY <2>1 DEF FullInv
  <2>3. \A g \in Handlers : hpc'[g] = "removeMutex" => client'[g] # i
    BY <1>1, <1>2 DEF SpawnInv, Spawned
  <2> QED BY <2>2, <2>3 DEF Remover
<1> QED BY <1>2, <1>4, <1>5, <1>6, <1>7 DEF Clean

\* Every step keeps the clients of handlers whole or gone.
LEMMA EndStep ==
  ASSUME BaseInv, SpawnInv, FullInv, FullInv', EndInv, [Next]_vars PROVE EndInv'
<1>1. ReplyInv /\ IInv /\ AddressInv BY DEF BaseInv, ReplyInv
<1>2. ASSUME NEW h \in Handlers, hpc'[h] # "free", NEW i, i = client'[h],
             ~ Misused(i)', ~ Shared(i)'
      PROVE  /\ \E c \in Conns : tempID'[c] = i /\ reg'[c] \in {"confirm", "unframed", "done"}
             /\ Clean(i)'
             /\ hpc'[h] = "done" => ~ Present(i)'
  <2>1. CASE hpc[h] # "free"
    <3>1. i = client[h] /\ i \in Ids
      BY <1>1, <1>2, <2>1, HandlersStep DEF IInv, ThreadInv
    <3>0. ~ Misused(i) /\ ~ Shared(i) BY <1>1, <1>2, <3>1, MisuseStays
    <3>2. PICK c \in Conns : tempID[c] = i /\ reg[c] \in {"confirm", "unframed", "done"}
      BY <2>1, <3>0, <3>1 DEF EndInv
    <3>3. tempID'[c] = i /\ reg'[c] \in {"confirm", "unframed", "done"}
      BY <1>1, <3>1, <3>2, FirstIsKept, RegistrationEnds DEF Ids
    <3>4. Clean(i)' /\ (~ Present(i) => ~ Present(i)') BY <2>1, <3>0, <3>1, CleanStep
    <3>5. hpc'[h] = "done" => ~ Present(i)'
      <4>1. CASE hpc[h] = "done" BY <3>0, <3>1, <3>4, <4>1 DEF EndInv
      <4>2. CASE hpc[h] # "done" BY <1>1, <2>1, <3>0, <3>1, <4>2, LastStep DEF EndInv
      <4> QED BY <4>1, <4>2
    <3> QED BY <3>3, <3>4, <3>5
  <2>2. CASE hpc[h] = "free"
    <3>1. i \in Ids
      <4>1. PICK m \in Managers : mgr[m] = "spawn" /\ i = job[m].id
        BY <1>1, <1>2, <2>2, NewHandler
      <4> QED BY <1>1, <4>1 DEF IInv, ThreadInv, Works
    <3> QED BY <1>2, <2>2, <3>1, NewIsClean
  <2> QED BY <2>1, <2>2
<1> QED BY <1>2 DEF EndInv

\* A client with an id to itself, that was authenticated on one connection and that no
\* LOGOUT names, is neither registered nor half removed when its handler is done,
\* whatever other clients do (Server.cpp:482-487, 505-526).
THEOREM EndedSessionIsUnregisteredAlways == Spec => []EndedSessionIsUnregistered
<1>1. Init => EndInv BY DEF Init, EndInv
<1>2. BaseInv /\ SpawnInv /\ FullInv /\ FullInv' /\ EndInv /\ [Next]_vars => EndInv' BY EndStep
<1>3. Spec => []EndInv BY <1>1, <1>2, HandlerInvariance, PTL DEF Spec
<1>4. BaseInv /\ SpawnInv /\ FullInv /\ EndInv => EndedSessionIsUnregistered
  <2> SUFFICES ASSUME BaseInv, SpawnInv, EndInv, NEW i \in Ids, ~ Shared(i), ~ Misused(i),
                      NEW h \in Handlers, client[h] = i, hpc[h] = "done"
               PROVE  ~ Present(i) /\ i \notin mutexes
    BY DEF EndedSessionIsUnregistered
  <2>1. IInv /\ WorkInv /\ ~ Again(i) /\ ~ LoggedOut(i) BY DEF BaseInv, ReplyInv, Misused
  <2>2. Clean(i) /\ ~ Present(i) BY DEF EndInv
  <2>3. ASSUME NEW m \in Managers, mgr[m] = "removeMutex", job[m].id = i PROVE FALSE
    BY <2>1, <2>3, RemovesFor DEF SpawnInv
  <2>4. \A g \in Handlers : hpc[g] = "removeMutex" => client[g] # i BY <2>1 DEF SpawnInv
  <2>5. ~ Remover(i) BY <2>3, <2>4 DEF Remover
  <2> QED BY <2>2, <2>5 DEF Clean
<1> QED BY <1>3, <1>4, HandlerInvariance, PTL

-----------------------------------------------------------------------------
(* How clients use an id, so that no client gets two handlers.             *)

\* How clients use an id: each is authenticated once, or again by whoever was answered
\* about it, as long as nobody logs out and no id of an earlier start of the server is
\* given again. Whether two connections can be given the same id plays no part, and if
\* ids are authenticated once, neither does who logs out whom.
Orderly ==
  \/ Retry = "never"
  \/ /\ Retry = "answered"
     /\ "LOGOUT" \notin Requests
     /\ \A i \in StaleIds : i > MaxConnects

\* No AUTHENTICATE of the id can bring a handler any more, so that it may be
\* authenticated as often as clients like.
Settled(i) == Retry = "answered" /\ (i \in started \/ i \in StaleIds)

\* Until then the id is authenticated on one connection.
OnceInv == \A i \in Ids : Again(i) => Settled(i)

\* What a check of the registry will find while the id has no handler.
HasFrom(i) == Settled(i) \/ Spawned(i) \/ isFromClientSocketRegistered(i)
HasTo(i)   == Settled(i) \/ Spawned(i) \/ isToClientSocketRegistered(i)
HasLock(i) == Settled(i) \/ Spawned(i) \/ Locked(i)

\* A client whose id is not settled finds both its sockets registered: it was told
\* the id by the thread that registered the one, and its own has registered the other.
ShelterInv ==
  /\ \A c \in Conns, i \in Ids : first[c] = Authenticate(i) => Told(i) # {} \/ i \in StaleIds
  /\ \A i \in Ids : HasLock(i) /\ (Told(i) # {} => HasFrom(i))
  /\ \A c \in Conns : reg[c] = "push" => HasTo(first[c].id)
  /\ \A w \in works : w.type = "AUTHENTICATE" => HasTo(w.id)
  /\ \A m \in Managers : Auth(m) => HasTo(job[m].id)

\* So it is refused, or welcomed, only once it is settled.
VerdictInv ==
  \A m \in Managers :
    /\ mgr[m] \in {"find", "spawn", "mark", "welcome"} => job[m].id \notin StaleIds
    /\ mgr[m] = "welcome" => job[m].id \in started
    /\ mgr[m] \in {"refuse", "remove", "removeMutex"} => Settled(job[m].id)

\* So it is answered only then.
AnsweredInv ==
  \A c \in Conns : \A msg \in received[c] : msg.type = "AUTH_RESPONSE" => Settled(msg.id)

AnswerInv == Retry = "answered" => ShelterInv /\ VerdictInv /\ AnsweredInv

\* A client has one handler thread, and no manager is about to start one for an id that
\* is settled.
UniqueInv ==
  /\ \A g, h \in Handlers :
       hpc[g] # "free" /\ hpc[h] # "free" /\ client[g] = client[h] => g = h
  /\ \A m \in Managers : mgr[m] = "spawn" => ~ Settled(job[m].id)

\* What those rest on.
OrderInv == BaseInv /\ GivenInv /\ SpawnInv

\* _clientHandlerStarted gets a client when it was given a handler, and loses it at a
\* LOGOUT.
LEMMA StartedStep ==
  ASSUME IInv, AddressInv, WorkInv, [Next]_vars, NEW i
  PROVE  /\ i \in started /\ i \notin started' =>
              \E m \in Managers : mgr[m] # "idle" /\ job[m].type = "LOGOUT"
         /\ i \notin started /\ i \in started' =>
              \E m \in Managers : mgr[m] = "mark" /\ job[m].id = i
<1>1. ASSUME NEW m \in Managers, processWork(m), ~ markStarted(m), ~ unmark(m)
      PROVE  started' = started
  BY <1>1 DEF processWork, startJob, authUser, authCheckTo, authCheckFrom, findStarted,
       spawnHandler, welcome, refuse, logoutUser, bye, byeAgain, answer, mgrEraseEntry,
       mgrEraseMutex
<1>2. ASSUME NEW m \in Managers, markStarted(m)
      PROVE  started' = started \cup {job[m].id} /\ mgr[m] = "mark"
  BY <1>2 DEF markStarted, mgrAt
<1>3. ASSUME NEW m \in Managers, unmark(m)
      PROVE  started' \subseteq started /\ mgr[m] # "idle" /\ job[m].type = "LOGOUT"
  BY <1>3 DEF unmark, mgrAt, WorkInv, PlaceInv
<1>4. (\E m \in Managers : processWork(m)) \/ started' = started
  BY ClientEffect, RegisterEffect, HandlerEffect DEF Next, terminated, workVars, vars, mgrVars
<1> QED BY <1>1, <1>2, <1>3, <1>4

\* An id that is settled stays so, and becomes so when a manager marks its client.
LEMMA SettledStep ==
  ASSUME Orderly, IInv, AddressInv, WorkInv, [Next]_vars, NEW i
  PROVE  /\ Settled(i) => Settled(i)'
         /\ Retry = "answered" => started \subseteq started'
         /\ ~ Settled(i) /\ Settled(i)' => \E m \in Managers : mgr[m] = "mark" /\ job[m].id = i
<1>1. ASSUME Retry = "answered", NEW m \in Managers, mgr[m] # "idle" PROVE job[m].type # "LOGOUT"
  BY <1>1 DEF Orderly, IInv, ThreadInv, Works
<1> QED BY <1>1, StartedStep DEF Settled

\* What a client may open a connection with after it was told the id.
LEMMA NewAuthenticate ==
  ASSUME Orderly, IInv, AddressInv, AnswerInv, [Next]_vars,
         NEW c \in Conns, NEW i \in Ids, first'[c] = Authenticate(i), first[c] # Authenticate(i)
  PROVE  /\ \A d \in Conns \ {c} : first'[d] = first[d]
         /\ Told(i) # {} \/ i \in StaleIds
         /\ Settled(i) \/ \A d \in Conns : first[d] # Authenticate(i)
<1>1. PICK d \in Conns, msg \in Openings : first' = [first EXCEPT ![d] = msg]
  <2>1. \E d \in Conns : open(d)
    BY ClientEffect, RegisterEffect, ManagerEffect, StartEffect, SpawnEffect, HandlerEffect
       DEF Next, terminated, vars, netVars, request, leave
  <2> QED BY <2>1 DEF open
<1>2. d = c /\ msg = Authenticate(i) BY <1>1 DEF IInv, TypeOK
<1>3. mayAuthenticate(i)
  BY <1>2 DEF Openings, Connect, Authenticate, Other, NoMessage
<1>4. Retry = "answered" /\ Answered(i) => Settled(i)
  <2>1. SUFFICES ASSUME Retry = "answered", Answered(i) PROVE Settled(i) OBVIOUS
  <2>2. PICK e \in Conns, ok \in BOOLEAN : Message("AUTH_RESPONSE", i, ok) \in received[e]
    BY <2>1 DEF Answered
  <2>3. PICK x \in received[e] : x.type = "AUTH_RESPONSE" /\ x.id = i BY <2>2 DEF Message
  <2> QED BY <2>1, <2>3 DEF AnswerInv, AnsweredInv
<1> QED BY <1>1, <1>2, <1>3, <1>4 DEF mayAuthenticate, Orderly, IInv, TypeOK

\* An id that is not settled is authenticated on no second connection.
LEMMA OnceStep ==
  ASSUME Orderly, BaseInv, OnceInv, AnswerInv, [Next]_vars
  PROVE  OnceInv'
<1>1. ReplyInv /\ IInv /\ AddressInv /\ WorkInv BY DEF BaseInv, ReplyInv
<1> SUFFICES ASSUME NEW i \in Ids, ~ Settled(i)', NEW c \in Conns, NEW d \in Conns,
                    first'[c] = Authenticate(i), first'[d] = Authenticate(i)
             PROVE  c = d
  BY DEF OnceInv, Again
<1>2. ~ Settled(i) BY <1>1, SettledStep
<1>3. \A e \in Conns : first'[e] = Authenticate(i) /\ first[e] # Authenticate(i) =>
        /\ \A k \in Conns \ {e} : first'[k] = first[k]
        /\ \A k \in Conns : first[k] # Authenticate(i)
  BY <1>1, <1>2, NewAuthenticate
<1> QED BY <1>2, <1>3 DEF OnceInv, Again

-----------------------------------------------------------------------------
(* What a client is told, and what the registry has for it then.           *)

\* A write adds to what a client got.
LEMMA WriteKeeps ==
  ASSUME TypeOK, NEW k, NEW msg, NEW ok, write(k, msg, ok), NEW c \in Conns
  PROVE  received[c] \subseteq received'[c]
BY DEF write, TypeOK

\* Nothing a client got is taken back.
LEMMA ReceivedKept ==
  ASSUME IInv, [Next]_vars, NEW c \in Conns
  PROVE  received[c] \subseteq received'[c]
<1>1. (\E k, msg, ok : write(k, msg, ok)) \/ UNCHANGED received
  <2>1. ASSUME NEW d \in Conns, registerClient(d)
        PROVE  (\E k, msg, ok : write(k, msg, ok)) \/ UNCHANGED received
    <3>1. CASE reject(d) \/ confirm(d) \/ writeUnframed(d)
      BY <3>1 DEF reject, confirm, writeUnframed, sendMessageToClient, sendConnectMessage
    <3>2. CASE ~ (reject(d) \/ confirm(d) \/ writeUnframed(d))
      BY <2>1, <3>2 DEF registerClient, readFirst, checkFrom, loadTempID, storeTempID, addFrom,
           checkTo, addTo, pushAuth, netVars
    <3> QED BY <3>1, <3>2
  <2>2. ASSUME NEW m \in Managers, processWork(m)
        PROVE  (\E k, msg, ok : write(k, msg, ok)) \/ UNCHANGED received
    <3>1. CASE welcome(m) \/ refuse(m) \/ bye(m) \/ byeAgain(m) \/ answer(m)
      BY <3>1 DEF welcome, refuse, bye, byeAgain, answer, sendMessageToClient
    <3>2. CASE ~ (welcome(m) \/ refuse(m) \/ bye(m) \/ byeAgain(m) \/ answer(m))
      BY <2>2, <3>2 DEF processWork, authUser, logoutUser, startJob, authCheckTo, authCheckFrom,
           findStarted, spawnHandler, markStarted, unmark, mgrEraseEntry, mgrEraseMutex, netVars
    <3> QED BY <3>1, <3>2
  <2>3. ASSUME NEW h \in Handlers, handleClient(h) \/ readAborted(h) PROVE UNCHANGED received
    BY <2>3 DEF handleClient, readAborted, findMutex, readIP, nextMessage, route, endOfStream,
         handlerEraseEntry, handlerEraseMutex, netVars
  <2>4. ASSUME NEW d \in Conns, open(d) \/ request(d) \/ leave(d) PROVE UNCHANGED received
    BY <2>4 DEF open, request, leave
  <2> QED BY <2>1, <2>2, <2>3, <2>4 DEF Next, terminated, vars, netVars
<1> QED BY <1>1, WriteKeeps DEF IInv

\* An AUTH_RESPONSE is what a manager says of the work it has.
LEMMA AuthReplies ==
  ASSUME ReplyInv, [Next]_vars, NEW c \in Conns, NEW x \in received'[c], x \notin received[c],
         x.type = "AUTH_RESPONSE"
  PROVE  \E m \in Managers : mgr[m] \in {"welcome", "refuse"} /\ x.id = job[m].id
<1>0. TypeOK BY DEF ReplyInv, IInv
<1>1. ASSUME NEW m \in Managers, processWork(m)
      PROVE  mgr[m] \in {"welcome", "refuse"} /\ x.id = job[m].id
  BY <1>1, ManagerReplies
<1>2. ASSUME NEW d \in Conns, reject(d) \/ confirm(d) \/ writeUnframed(d) PROVE FALSE
  <2>1. CASE reject(d)
    <3> DEFINE msg == Message(first[d].type, first[d].id, FALSE)
    <3>1. PICK ok \in BOOLEAN : sendMessageToClient(first[d].id, msg, ok)
      BY <2>1 DEF reject
    <3>2. x = msg BY <1>0, <3>1, SendReaches DEF Message
    <3>3. x.type = first[d].type BY <3>1, <3>2 DEF Message
    <3> QED BY <1>0, <3>3 DEF TypeOK
  <2>2. CASE confirm(d)
    <3> DEFINE msg == Message("CONNECT", tempID[d], TRUE)
    <3>1. PICK ok \in BOOLEAN : sendConnectMessage(tempID[d], msg, ok)
      BY <2>2 DEF confirm
    <3>2. x = msg BY <1>0, <3>1, ConfirmReaches DEF Message
    <3> QED BY <3>1, <3>2 DEF Message
  <2>3. CASE writeUnframed(d)
    <3> DEFINE msg == Message("UNFRAMED", tempID[d], FALSE)
    <3>1. PICK ok \in BOOLEAN : write(d, msg, ok)
      BY <2>3 DEF writeUnframed
    <3>2. x = msg BY <1>0, <3>1 DEF Message, write, TypeOK
    <3> QED BY <3>1, <3>2 DEF Message
  <2> QED BY <1>2, <2>1, <2>2, <2>3
<1>3. ASSUME NEW d \in Conns, registerClient(d), ~ reject(d), ~ confirm(d), ~ writeUnframed(d)
      PROVE  UNCHANGED received
  BY <1>3 DEF registerClient, readFirst, checkFrom, loadTempID, storeTempID, addFrom,
              checkTo, addTo, pushAuth, netVars
<1>4. ASSUME NEW h \in Handlers, handleClient(h) \/ readAborted(h) PROVE UNCHANGED received
  BY <1>4 DEF handleClient, readAborted, findMutex, readIP, nextMessage, route, endOfStream,
              handlerEraseEntry, handlerEraseMutex, netVars
<1>5. ASSUME NEW d \in Conns, open(d) \/ request(d) \/ leave(d) PROVE UNCHANGED received
  BY <1>5 DEF open, request, leave
<1> QED BY <1>1, <1>2, <1>3, <1>4, <1>5 DEF Next, terminated, vars, netVars

\* A client is told an id while the registry has the socket it is told on.
LEMMA NewTold ==
  ASSUME ReplyInv, [Next]_vars, NEW i \in Ids, NEW c \in Told(i)', c \notin Told(i)
  PROVE  isFromClientSocketRegistered(i)
<1>1. c \in Conns /\ Message("CONNECT", i, TRUE) \in received'[c] \ received[c]
  BY DEF Told
<1>2. PICK x \in received'[c] \ received[c] :
        x = Message("CONNECT", i, TRUE) /\ x.type = "CONNECT" /\ x.id = i /\ x.success
  BY <1>1 DEF Message
<1>3. NewReply(c, x) BY <1>1, StepReplies
<1>4. x # Message("UNFRAMED", tempID[c], FALSE) BY <1>2 DEF Message
<1>5. i \in mutexes /\ c = fromSocket[i] BY <1>2, <1>3, <1>4 DEF NewReply
<1> QED BY <1>1, <1>5, ConstantsAssumption DEF isFromClientSocketRegistered

\* Nor is an id that a client was told.
LEMMA ToldKept ==
  ASSUME IInv, [Next]_vars, NEW i PROVE Told(i) \subseteq Told(i)'
BY ReceivedKept DEF Told

\* What is registered for an id that is not settled stays, or gets a handler.
LEMMA HasKept ==
  ASSUME Orderly, IInv, AddressInv, WorkInv, VerdictInv, [Next]_vars, NEW i \in Ids
  PROVE  /\ HasFrom(i) => HasFrom(i)'
         /\ HasTo(i) => HasTo(i)'
         /\ HasLock(i) => HasLock(i)'
<1>1. CASE Keeps(i) BY <1>1, SettledStep, SpawnedKept DEF Keeps, HasFrom, HasTo, HasLock
<1>2. CASE ~ Keeps(i)
  <2>1. Settled(i) \/ Spawned(i) BY <1>2, Removal DEF VerdictInv, Spawned, Old
  <2> QED BY <2>1, SettledStep, SpawnedKept DEF HasFrom, HasTo, HasLock
<1> QED BY <1>1, <1>2

\* A thread that is about to make a work of its AUTHENTICATE has registered its
\* socket, or found another there.
LEMMA NewPush ==
  ASSUME IInv, AddressInv, [Next]_vars, NEW c \in Conns, reg'[c] = "push", reg[c] # "push"
  PROVE  /\ first'[c] = first[c] /\ first[c].id \in Ids
         /\ Locked(first[c].id) => isToClientSocketRegistered(first[c].id)'
<1>0. reg \in [Conns -> RegistrationPlaces] BY DEF IInv, TypeOK
<1>1. checkTo(c) \/ addTo(c)
  <2>1. registerClient(c)
    <3>1. \A d \in Conns : registerClient(d) => \E p : reg' = [reg EXCEPT ![d] = p]
      BY RegisterEffect
    <3>2. \A d \in Conns : open(d) \/ request(d) \/ leave(d) =>
            reg' = reg \/ reg' = [reg EXCEPT ![d] = "read"]
      BY ClientEffect
    <3> QED BY <1>0, <3>1, <3>2, ManagerEffect, StartEffect, SpawnEffect, HandlerEffect
            DEF Next, terminated, vars, regVars
  <2>2. ~ (readFirst(c) \/ checkFrom(c) \/ reject(c))
    BY <1>0 DEF readFirst, checkFrom, reject, goReg, endReg
  <2>3. ~ (loadTempID(c) \/ storeTempID(c) \/ addFrom(c) \/ confirm(c) \/ writeUnframed(c))
    BY <1>0 DEF loadTempID, storeTempID, addFrom, confirm, writeUnframed, goReg, endReg
  <2>4. ~ pushAuth(c) BY <1>0 DEF pushAuth, goReg, endReg
  <2> QED BY <2>1, <2>2, <2>3, <2>4 DEF registerClient
<1>2. first[c].id \in Ids BY <1>1 DEF checkTo, addTo, regAt, IInv, RegistrationInv
<1>3. CASE checkTo(c)
  BY <1>0, <1>2, <1>3 DEF checkTo, goReg, netVars, registryVars, isToClientSocketRegistered
<1>4. CASE addTo(c)
  <2>1. toSocket \in [Ids -> Conns \cup {NoConn}] BY DEF IInv, TypeOK
  <2> QED BY <1>2, <1>4, <2>1, ConstantsAssumption DEF addTo, addToClientSocket, netVars, Locked,
          Present, isToClientSocketRegistered
<1> QED BY <1>1, <1>2, <1>3, <1>4

\* Every step keeps the sockets of clients that are not settled registered.
LEMMA ShelterStep ==
  ASSUME Orderly, BaseInv, Retry = "answered", AnswerInv, [Next]_vars
  PROVE  ShelterInv'
<1>1. ReplyInv /\ IInv /\ AddressInv /\ WorkInv /\ ShelterInv /\ VerdictInv /\ AnsweredInv
  BY DEF BaseInv, ReplyInv, AnswerInv
<1> USE <1>1
<1>2. ASSUME NEW c \in Conns, NEW i \in Ids, first'[c] = Authenticate(i)
      PROVE  Told(i)' # {} \/ i \in StaleIds
  BY <1>2, NewAuthenticate, ToldKept DEF ShelterInv
<1>3. ASSUME NEW i \in Ids PROVE HasLock(i)' BY HasKept DEF ShelterInv
<1>4. ASSUME NEW i \in Ids, Told(i)' # {} PROVE HasFrom(i)'
  <2>1. HasFrom(i) BY <1>4, NewTold DEF ShelterInv, HasFrom
  <2> QED BY <2>1, HasKept
<1>5. ASSUME NEW c \in Conns, reg'[c] = "push" PROVE HasTo(first[c].id)'
  <2>1. CASE reg[c] = "push"
    <3>1. first[c].id \in Ids /\ first[c].type = "AUTHENTICATE"
      BY <2>1 DEF IInv, RegistrationInv, AddressInv, FirstInv
    <3>2. first[c] # NoMessage BY <3>1 DEF NoMessage
    <3>3. first'[c] = first[c] BY <3>2, FirstIsKept
    <3> QED BY <2>1, <3>1, <3>3, HasKept DEF ShelterInv
  <2>2. CASE reg[c] # "push"
    <3> DEFINE i == first[c].id
    <3>1. /\ first'[c] = first[c] /\ i \in Ids
          /\ Locked(i) => isToClientSocketRegistered(i)'
      BY <1>5, <2>2, NewPush
    <3>2. Settled(i) \/ Spawned(i) \/ isToClientSocketRegistered(i)'
      BY <3>1 DEF ShelterInv, HasLock
    <3>3. Settled(i)' \/ Spawned(i)' \/ isToClientSocketRegistered(i)'
      BY <3>1, <3>2, SettledStep, SpawnedKept
    <3> QED BY <3>1, <3>3 DEF HasTo
  <2> QED BY <2>1, <2>2
<1>6. ASSUME NEW w \in works', w.type = "AUTHENTICATE" PROVE HasTo(w.id)'
  <2>1. CASE w \in works
    <3>1. w.id \in Ids BY <2>1 DEF IInv, TypeOK, Works
    <3> QED BY <1>6, <2>1, <3>1, HasKept DEF ShelterInv
  <2>2. CASE w \notin works
    <3>1. PICK c \in Conns : reg[c] = "push" /\ first[c] = Authenticate(w.id)
      BY <1>6, <2>2, WorkOrigin
    <3>2. first[c].id = w.id BY <3>1 DEF Authenticate
    <3>3. w.id \in Ids BY <3>1, <3>2 DEF IInv, RegistrationInv
    <3> QED BY <3>1, <3>2, <3>3, HasKept DEF ShelterInv
  <2> QED BY <2>1, <2>2
<1>7. ASSUME NEW m \in Managers, Auth(m)' PROVE HasTo(job[m].id)'
  <2>1. \/ Auth(m) /\ job'[m] = job[m]
        \/ job'[m] \in works /\ job'[m].type = "AUTHENTICATE"
    BY <1>7, JobOrigin DEF Auth
  <2>2. job'[m].id \in Ids /\ HasTo(job'[m].id)
    BY <2>1 DEF ShelterInv, Auth, IInv, TypeOK, ThreadInv, Works
  <2> QED BY <2>2, HasKept
<1> QED BY <1>2, <1>3, <1>4, <1>5, <1>6, <1>7 DEF ShelterInv

\* An id of an earlier start of the server is never registered for a FROM socket.
LEMMA FromIsNew ==
  ASSUME Orderly, Retry = "answered", IInv, AddressInv, GivenInv,
         NEW i \in Ids, isFromClientSocketRegistered(i)
  PROVE  i \notin StaleIds
<1> DEFINE c == fromSocket[i]
<1>1. c \in Conns /\ tempID[c] = i
  BY DEF isFromClientSocketRegistered, IInv, TypeOK, AddressInv, EntryInv
<1>2. i <= MaxConnects
  BY <1>1, GivenIsFinite, ConstantsAssumption DEF GivenInv, Ids
<1> QED BY <1>2, ConstantsAssumption DEF Orderly, Ids

\* A manager that is to refuse the client of an AUTHENTICATE finds it settled.
LEMMA RefusedIsSettled ==
  ASSUME Orderly, Retry = "answered", BaseInv, OnceInv, AnswerInv, SpawnInv, NEW m \in Managers,
         \/ mgr[m] = "checkTo" /\ ~ isToClientSocketRegistered(job[m].id)
         \/ mgr[m] = "checkFrom" /\ ~ isFromClientSocketRegistered(job[m].id)
  PROVE  Settled(job[m].id)
<1> DEFINE i == job[m].id
<1>1. IInv /\ WorkInv /\ ShelterInv BY DEF BaseInv, ReplyInv, AnswerInv
<1>2. Auth(m) /\ i \in Ids BY <1>1 DEF WorkInv, PlaceInv, Auth, IInv, ThreadInv, Works
<1>3. Spawned(i) => Settled(i) BY <1>2 DEF SpawnInv, Spawned, OnceInv
<1>4. CASE mgr[m] = "checkTo" BY <1>1, <1>2, <1>3, <1>4 DEF ShelterInv, HasTo
<1>5. CASE mgr[m] = "checkFrom"
  <2>1. first[job[m].conn] = Authenticate(i) /\ job[m].conn \in Conns
    BY <1>1, <1>2 DEF WorkInv, TokenInv, Auth, IInv, ThreadInv, Works
  <2>2. Told(i) # {} \/ i \in StaleIds BY <1>1, <1>2, <2>1 DEF ShelterInv
  <2> QED BY <1>1, <1>2, <1>3, <1>5, <2>2 DEF ShelterInv, HasFrom, Settled
<1> QED BY <1>4, <1>5

\* Every step of a manager leads to a verdict that is deserved.
LEMMA VerdictStep ==
  ASSUME Orderly, Retry = "answered", OrderInv, OnceInv, AnswerInv, [Next]_vars
  PROVE  VerdictInv'
<1>1. IInv /\ AddressInv /\ WorkInv /\ VerdictInv /\ GivenInv
  BY DEF OrderInv, BaseInv, ReplyInv, AnswerInv
<1> SUFFICES ASSUME NEW m \in Managers
             PROVE  /\ mgr'[m] \in {"find", "spawn", "mark", "welcome"}
                         => job'[m].id \notin StaleIds
                    /\ mgr'[m] = "welcome" => job'[m].id \in started'
                    /\ mgr'[m] \in {"refuse", "remove", "removeMutex"} => Settled(job[m].id)'
  BY DEF VerdictInv
<1>2. CASE mgr'[m] = mgr[m] /\ job'[m] = job[m]
  BY <1>1, <1>2, SettledStep DEF VerdictInv
<1>3. CASE Moved(m)
  <2>1. mgr[m] \notin {"bye", "byeAgain"}
    BY <1>1 DEF Orderly, WorkInv, PlaceInv, IInv, ThreadInv, Works
  <2>2. mgr[m] = "checkFrom" => job[m].id \in Ids BY <1>1 DEF IInv, ThreadInv, Works
  <2>3. mgr'[m] = "find" => job[m].id \notin StaleIds
    BY <1>1, <1>3, <2>2, FromIsNew DEF Moved
  <2>4. mgr'[m] = "refuse" => Settled(job[m].id)'
    BY <1>1, <1>3, RefusedIsSettled, SettledStep DEF Moved, OrderInv
  <2>5. mgr'[m] \in {"remove", "removeMutex"} => Settled(job[m].id)'
    BY <1>1, <1>3, <2>1, SettledStep DEF Moved, VerdictInv
  <2> QED BY <1>1, <1>3, <2>3, <2>4, <2>5 DEF Moved, VerdictInv
<1> QED BY <1>1, <1>2, <1>3, ManagersStep

\* Every AUTH_RESPONSE is about an id that is settled.
LEMMA AnsweredStep ==
  ASSUME Orderly, Retry = "answered", BaseInv, AnswerInv, [Next]_vars
  PROVE  AnsweredInv'
<1> SUFFICES ASSUME NEW c \in Conns, NEW msg \in received'[c], msg.type = "AUTH_RESPONSE"
             PROVE  Settled(msg.id)'
  BY DEF AnsweredInv
<1>1. ReplyInv /\ IInv /\ AddressInv /\ WorkInv /\ VerdictInv /\ AnsweredInv
  BY DEF BaseInv, ReplyInv, AnswerInv
<1>2. Settled(msg.id)
  <2>1. CASE msg \in received[c] BY <1>1, <2>1 DEF AnsweredInv
  <2>2. CASE msg \notin received[c] BY <1>1, <2>2, AuthReplies DEF VerdictInv, Settled
  <2> QED BY <2>1, <2>2
<1> QED BY <1>1, <1>2, SettledStep

\* The three together.
LEMMA AnswerStep ==
  ASSUME Orderly, OrderInv, OnceInv, AnswerInv, [Next]_vars PROVE AnswerInv'
BY ShelterStep, VerdictStep, AnsweredStep DEF AnswerInv, OrderInv

-----------------------------------------------------------------------------
(* One handler for a client.                                               *)

\* A manager is to start a handler for an id that is not settled only.
LEMMA SpawnIsFirst ==
  ASSUME Orderly, OrderInv, OnceInv, AnswerInv, UniqueInv, [Next]_vars,
         NEW m \in Managers, mgr'[m] = "spawn", NEW i, i = job'[m].id
  PROVE  ~ Settled(i)'
<1>1. IInv /\ AddressInv /\ WorkInv BY DEF OrderInv, BaseInv, ReplyInv
<1>2. /\ i = job[m].id
      /\ mgr[m] = "spawn" \/ (mgr[m] = "find" /\ i \notin started)
  BY <1>1, ManagersStep DEF Moved
<1>3. Auth(m) /\ i \in Ids BY <1>1, <1>2 DEF WorkInv, PlaceInv, Auth, IInv, ThreadInv, Works
<1>4. ~ Settled(i) BY <1>2 DEF UniqueInv, Settled, AnswerInv, VerdictInv
<1>5. ~ Again(i) BY <1>3, <1>4 DEF OnceInv
<1>6. \A n \in Managers : Auth(n) /\ job[n].id = i => n = m BY <1>1, <1>2, <1>3, <1>5, Alone
<1>7. \A n \in Managers : mgr[n] = "mark" => Auth(n) BY <1>1 DEF WorkInv, PlaceInv, Auth
<1> QED BY <1>1, <1>2, <1>4, <1>6, <1>7, SettledStep

\* Every step keeps the handlers apart, and those to come.
LEMMA UniqueStep ==
  ASSUME Orderly, OrderInv, OnceInv, AnswerInv, UniqueInv, [Next]_vars PROVE UniqueInv'
<1>1. IInv /\ AddressInv /\ WorkInv BY DEF OrderInv, BaseInv, ReplyInv
<1>2. ASSUME NEW h \in Handlers, hpc[h] = "free", hpc'[h] # "free",
             NEW g \in Handlers \ {h}, hpc'[g] # "free"
      PROVE  client'[h] # client'[g]
  <2>1. PICK m \in Managers :
          /\ mgr[m] = "spawn" /\ client'[h] = job[m].id
          /\ hpc'[g] = hpc[g] /\ client'[g] = client[g]
    BY <1>1, <1>2, NewHandler
  <2>2. job[m].id \in Ids BY <1>1, <2>1 DEF IInv, ThreadInv, Works
  <2>3. ~ Again(job[m].id) BY <2>1, <2>2 DEF UniqueInv, OnceInv
  <2>4. ~ Spawned(job[m].id) BY <2>1, <2>3 DEF OrderInv, SpawnInv
  <2> QED BY <1>2, <2>1, <2>4 DEF Spawned
<1>3. ASSUME NEW g \in Handlers, NEW h \in Handlers, hpc'[g] # "free", hpc'[h] # "free",
             client'[g] = client'[h]
      PROVE  g = h
  <2>1. CASE hpc[g] # "free" /\ hpc[h] # "free"
    BY <1>1, <1>3, <2>1, HandlersStep DEF UniqueInv
  <2> QED BY <1>2, <1>3, <2>1
<1>4. ASSUME NEW m \in Managers, mgr'[m] = "spawn", NEW i, i = job'[m].id PROVE ~ Settled(i)'
  BY <1>4, SpawnIsFirst
<1> QED BY <1>3, <1>4 DEF UniqueInv

\* The server starts with no handler and no answer given.
LEMMA OrderlyInit == Init => OnceInv /\ AnswerInv /\ UniqueInv
<1> SUFFICES ASSUME Init PROVE OnceInv /\ AnswerInv /\ UniqueInv OBVIOUS
<1>1. \A i : NoMessage # Authenticate(i)
  <2>1. \A i : NoMessage.type # Authenticate(i).type BY DEF NoMessage, Authenticate
  <2> QED BY <2>1
<1>2. \A c \in Conns : first[c] = NoMessage /\ reg[c] = "unborn" /\ received[c] = {}
  BY DEF Init
<1>3. \A m \in Managers : mgr[m] = "idle" BY DEF Init
<1>4. \A h \in Handlers : hpc[h] = "free" BY DEF Init
<1>5. works = {} /\ mutexes = {} BY DEF Init
<1>6. \A i \in Ids : ~ Present(i) BY DEF Init, Present
<1>7. \A i : Told(i) = {} BY <1>2 DEF Told
<1>8. OnceInv BY <1>1, <1>2 DEF OnceInv, Again
<1>9. AnswerInv
  BY <1>1, <1>2, <1>3, <1>5, <1>6, <1>7
     DEF AnswerInv, ShelterInv, VerdictInv, AnsweredInv, HasLock, Locked, Auth
<1>10. UniqueInv BY <1>3, <1>4 DEF UniqueInv
<1> QED BY <1>8, <1>9, <1>10

\* A client gets one handler thread at most (UserManager.cpp:80-85), so that no two
\* threads read from one stream, when clients are orderly.
THEOREM OneHandlerPerClientAlways ==
  ASSUME Orderly
  PROVE  Spec => []OneHandlerPerClient
<1>1. Spec => []OrderInv BY HandlerInvariance, GivenInvariance, PTL DEF OrderInv
<1> DEFINE I == OnceInv /\ AnswerInv /\ UniqueInv
<1>2. Init => I BY OrderlyInit
<1>3. OrderInv /\ I /\ [Next]_vars => I'
  BY OnceStep, AnswerStep, UniqueStep DEF OrderInv
<1>4. I => OneHandlerPerClient
  <2> SUFFICES ASSUME UniqueInv, NEW i \in Ids PROVE Cardinality(Live(i)) <= 1
    BY DEF OneHandlerPerClient
  <2>1. \A g, h \in Live(i) : g = h BY DEF UniqueInv, Live
  <2>2. Live(i) = {} \/ \E h : Live(i) = {h} BY <2>1
  <2>3. Cardinality(Live(i)) \in {0, 1} BY <2>2, FS_EmptySet, FS_Singleton
  <2> QED BY <2>3
<1> HIDE DEF I
<1> QED BY <1>1, <1>2, <1>3, <1>4, PTL DEF Spec
=============================================================================
