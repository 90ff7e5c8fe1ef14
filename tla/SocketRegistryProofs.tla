------------------------- MODULE SocketRegistryProofs -------------------------
(* The locks of SocketRegistry for any number of threads, clients and calls. *)
EXTENDS SocketRegistry, TLAPS

MapLocked == {"adding", "lookup", "eraseMutex"}
Locked == {"inside", "mapAgain", "eraseMutex", "leave"}

\* The map's mutex is held where the code holds it, and nowhere else ...
MapMutexInv == \A t \in Threads : mapOwner = t <=> pc[t] \in MapLocked

\* ... and so is a client's, by the thread that was given it.
ClientMutexInv ==
  \A k \in Mutexes, t \in Threads : owner[k] = t <=> (mine[t] = k /\ pc[t] \in Locked)

\* A thread has a mutex from getClientSocketMutex on.
MineInv ==
  \A t \in Threads :
    /\ pc[t] \in {"idle", "map", "adding", "lookup"} => mine[t] = 0
    /\ pc[t] \in Locked \ {"leave"} => mine[t] # 0

\* An add has a number of its own, and a call is where its operation takes it.
CallInv ==
  /\ \A t \in Threads :
       /\ at(t, "idle") => call[t] = NoCall
       /\ ~ at(t, "idle") => call[t] \in Calls
       /\ op(t) \in Adds => call[t].number \in 1 .. adds
       /\ at(t, "adding") => op(t) \in Adds
       /\ pc[t] \in {"mapAgain", "eraseMutex"} => op(t) = "remove"
  /\ \A t, u \in Threads :
       op(t) \in Adds /\ op(u) \in Adds /\ call[t].number = call[u].number => t = u

\* A mutex is made by the add it is named for.
MadeInv ==
  /\ \A k \in Mutexes : madeFor[k] # NoId => k <= adds
  /\ \A t \in Threads : op(t) \in Adds => madeFor[call[t].number] = NoId

\* The mutex of an id, and of a call, was made for that id.
NameInv ==
  /\ \A i \in Ids : mutex[i] # 0 => madeFor[mutex[i]] = i
  /\ \A t \in Threads : mine[t] # 0 => madeFor[mine[t]] = id(t)

\* Between the two halves of a removal the entry is gone, unless it was added there.
GoneInv ==
  \A t \in Threads :
    pc[t] \in {"mapAgain", "eraseMutex"} /\ id(t) \notin lost => ~ Present(id(t))

IInv ==
  /\ TypeOK /\ MapMutexInv /\ ClientMutexInv /\ MineInv /\ CallInv /\ MadeInv /\ NameInv
  /\ GoneInv /\ EntryIsReachable

\* The histories stay typed, and what was lost stays lost.
LEMMA HistoriesTyped ==
  ASSUME TypeOK, NEW t \in Threads, watch(t)
  PROVE  /\ seen' \in [Threads -> SUBSET BOOLEAN]
         /\ lost' \subseteq Ids /\ lost \subseteq lost'
         /\ filled' \in [Threads -> BOOLEAN]
<1> DEFINE now(u) == Atomically(u)'
           more(u) == /\ op(u)' \in Lookups
                      /\ filled[u] \/ (Fills(t, id(u)) /\ mutex'[id(u)] = 0)
<1>1. \A u \in Threads : now(u) \in BOOLEAN
  BY DEF Atomically
<1>2. \A u \in Threads : {now(u)} \in SUBSET BOOLEAN /\ seen[u] \cup {now(u)} \in SUBSET BOOLEAN
  BY <1>1 DEF TypeOK
<1>3. seen' = [u \in Threads |-> CASE op(u)' \notin Lookups -> {}
                                   [] op(u) \notin Lookups /\ op(u)' \in Lookups -> {now(u)}
                                   [] OTHER -> seen[u] \cup {now(u)}]
  BY DEF watch
<1>4. filled' = [u \in Threads |-> more(u)] BY DEF watch
<1>5. \A u \in Threads : more(u) \in BOOLEAN OBVIOUS
<1> HIDE DEF now, more
<1>6. seen' \in [Threads -> SUBSET BOOLEAN] BY <1>2, <1>3
<1>7. filled' \in [Threads -> BOOLEAN] BY <1>4, <1>5
<1>8. lost' \subseteq Ids /\ lost \subseteq lost' BY DEF watch, TypeOK
<1> QED BY <1>6, <1>7, <1>8

\* A call starts outside every mutex.
LEMMA beginKeeps == ASSUME IInv, NEW t \in Threads, begin(t), watch(t) PROVE IInv'
<1> USE NoneAssumption, MaxCallsAssumption DEF IInv, at, go, id, op, begin
<1>0. PICK o \in Operations, i \in Ids :
        /\ call' = [call EXCEPT ![t] = [op |-> o, id |-> i,
                                        number |-> IF o \in Adds THEN adds + 1 ELSE 0]]
        /\ adds' = IF o \in Adds THEN adds + 1 ELSE adds
  OBVIOUS
<1>1. TypeOK'
  <2>1. /\ seen' \in [Threads -> SUBSET BOOLEAN] /\ lost' \subseteq Ids
        /\ filled' \in [Threads -> BOOLEAN]
    BY HistoriesTyped
  <2>2. [op |-> o, id |-> i, number |-> IF o \in Adds THEN adds + 1 ELSE 0] \in Calls
    BY DEF TypeOK, Calls
  <2>3. call' \in [Threads -> Calls \cup {NoCall}] BY <1>0, <2>2 DEF TypeOK
  <2> QED BY <1>0, <2>1, <2>3 DEF TypeOK, Places
<1>2. MapMutexInv' BY DEF MapMutexInv, MapLocked
<1>3. ClientMutexInv' BY DEF ClientMutexInv, Locked
<1>4. MineInv' BY DEF MineInv, Locked
<1>5. CallInv'
  <2>1. call'[t] = [op |-> o, id |-> i, number |-> IF o \in Adds THEN adds + 1 ELSE 0]
    BY <1>0 DEF TypeOK
  <2>2. \A u \in Threads : u # t => call'[u] = call[u] /\ pc'[u] = pc[u] BY <1>0 DEF TypeOK
  <2>3. call'[t] \in Calls BY <1>0, <2>1 DEF TypeOK, Calls
  <2>4. o \in Adds => call'[t].number = adds + 1 /\ adds' = adds + 1 BY <1>0, <2>1
  <2>5. adds' \in Nat /\ adds <= adds' /\ pc'[t] = "map" /\ call'[t].op = o
    BY <1>0, <2>1 DEF TypeOK
  <2>6. ASSUME NEW u \in Threads, op(u)' \in Adds
        PROVE  call'[u].number \in 1 .. adds' /\ (u # t => call'[u].number \in 1 .. adds)
    BY <2>2, <2>4, <2>5, <2>6 DEF CallInv, TypeOK
  <2>7. ASSUME NEW u \in Threads, NEW v \in Threads, op(u)' \in Adds, op(v)' \in Adds,
               call'[u].number = call'[v].number
        PROVE  u = v
    <3>1. CASE u # t /\ v # t BY <2>2, <2>7, <3>1 DEF CallInv
    <3>2. CASE u = t \/ v = t BY <2>4, <2>5, <2>6, <2>7, <3>2 DEF TypeOK
    <3> QED BY <3>1, <3>2
  <2> QED BY <2>2, <2>3, <2>5, <2>6, <2>7 DEF CallInv
<1>6. MadeInv'
  <2>1. call'[t].op = o /\ (o \in Adds => call'[t].number = adds + 1) BY <1>0 DEF TypeOK
  <2>2. \A u \in Threads : u # t => call'[u] = call[u] BY <1>0 DEF TypeOK
  <2>3. adds' \in Nat /\ adds <= adds' /\ (o \in Adds => adds + 1 \in Mutexes)
    BY <1>0 DEF TypeOK, Mutexes
  <2>4. o \in Adds => madeFor[adds + 1] = NoId BY <2>3 DEF MadeInv, TypeOK
  <2>5. \A k \in Mutexes : madeFor[k] # NoId => k <= adds'
    BY <2>3 DEF MadeInv, TypeOK, Mutexes
  <2> QED BY <2>1, <2>2, <2>4, <2>5 DEF MadeInv
<1>7. NameInv' BY <1>0 DEF NameInv, MineInv, TypeOK
<1>8. GoneInv' BY HistoriesTyped DEF GoneInv, Present
<1>9. EntryIsReachable' BY HistoriesTyped DEF EntryIsReachable, Present
<1> QED BY <1>1, <1>2, <1>3, <1>4, <1>5, <1>6, <1>7, <1>8, <1>9 DEF IInv

\* The map's mutex has one holder.
LEMMA lockMapKeeps == ASSUME IInv, NEW t \in Threads, lockMap(t), watch(t) PROVE IInv'
<1> USE NoneAssumption, MaxCallsAssumption DEF IInv, at, go, id, op, lockMap
<1>1. TypeOK'
  <2>1. /\ seen' \in [Threads -> SUBSET BOOLEAN] /\ lost' \subseteq Ids
        /\ filled' \in [Threads -> BOOLEAN]
    BY HistoriesTyped
  <2> QED BY <2>1 DEF TypeOK, Places
<1>2. MapMutexInv' BY DEF MapMutexInv, TypeOK, MapLocked
<1>3. ClientMutexInv' BY DEF ClientMutexInv, Locked
<1>4. MineInv' BY DEF MineInv, Locked
<1>5. GoneInv' BY HistoriesTyped DEF GoneInv, Present
<1>6. EntryIsReachable' BY HistoriesTyped DEF EntryIsReachable, Present
<1>7. (CallInv /\ MadeInv /\ NameInv)'
  BY DEF CallInv, MadeInv, NameInv
<1> QED BY <1>1, <1>2, <1>3, <1>4, <1>5, <1>6, <1>7 DEF IInv

\* What an add does to the maps: nothing, a TO socket for an entry, or an entry with a
\* new mutex.
LEMMA AddOutcomes ==
  ASSUME NEW t \in Threads, add(t), op(t) \in Adds
  PROVE  \/ UNCHANGED <<fromSocket, toSocket, mutex, madeFor>>
         \/ /\ op(t) = "addTo" /\ toSocket' = toSocket \cup {id(t)}
            /\ Present(id(t)) /\ UNCHANGED <<fromSocket, mutex, madeFor>>
         \/ /\ \/ fromSocket' = fromSocket \cup {id(t)} /\ toSocket' = toSocket
               \/ fromSocket' = fromSocket \ {id(t)} /\ toSocket' = toSocket \cup {id(t)}
            /\ mutex' = [mutex EXCEPT ![id(t)] = call[t].number]
            /\ madeFor' = [madeFor EXCEPT ![call[t].number] = id(t)]
<1>1. CASE op(t) = "addFrom"
  BY <1>1 DEF add, addFromClientSocket, newMutex
<1>2. CASE op(t) = "addTo"
  <2>1. toSocket' = toSocket \cup {id(t)} BY <1>2 DEF add, addToClientSocket
  <2>2. PICK found \in Finds(t, Present(id(t))) :
          IF found THEN UNCHANGED <<fromSocket, mutex, madeFor>>
                   ELSE fromSocket' = fromSocket \ {id(t)} /\ newMutex(t)
    BY <1>2 DEF add, addToClientSocket
  <2>3. CASE found
    <3>1. Present(id(t)) BY <2>2, <2>3 DEF Finds, Present
    <3> QED BY <1>2, <2>1, <2>2, <2>3, <3>1
  <2>4. CASE ~ found BY <2>1, <2>2, <2>4 DEF newMutex
  <2> QED BY <2>3, <2>4
<1> QED BY <1>1, <1>2 DEF Adds

\* An insertion makes at most one mutex, for the id of the call.
LEMMA addKeeps == ASSUME IInv, NEW t \in Threads, add(t), watch(t) PROVE IInv'
<1> USE NoneAssumption, MaxCallsAssumption DEF IInv, at, go, id, op
<1> DEFINE i == id(t)
           k == call[t].number
<1>1. /\ i \in Ids /\ k \in Mutexes /\ k <= adds /\ madeFor[k] = NoId
      /\ op(t) \in Adds /\ pc[t] = "adding"
  BY DEF add, CallInv, MadeInv, Calls, Mutexes, TypeOK
<1>2. \/ /\ UNCHANGED <<mutex, madeFor>>
        /\ \A j \in Ids : Present(j)' => Present(j)
      \/ /\ mutex' = [mutex EXCEPT ![i] = k] /\ madeFor' = [madeFor EXCEPT ![k] = i]
        /\ \A j \in Ids : Present(j)' /\ j # i => Present(j)
  BY <1>1, AddOutcomes DEF Present
<1>3. fromSocket' \subseteq Ids /\ toSocket' \subseteq Ids
  BY <1>1, AddOutcomes DEF TypeOK
<1> HIDE DEF i, k
<1>4. /\ mapOwner' = NoThread /\ pc' = [pc EXCEPT ![t] = "idle"]
      /\ call' = [call EXCEPT ![t] = NoCall] /\ mine' = [mine EXCEPT ![t] = 0]
      /\ answer' = [answer EXCEPT ![t] = FALSE] /\ raced' = [raced EXCEPT ![t] = FALSE]
      /\ UNCHANGED <<owner, calls, adds>> /\ mine[t] = 0
  BY DEF add, endCall, MineInv
<1>5. TypeOK'
  <2>1. /\ seen' \in [Threads -> SUBSET BOOLEAN] /\ lost' \subseteq Ids
        /\ filled' \in [Threads -> BOOLEAN]
    BY HistoriesTyped
  <2>2. mutex' \in [Ids -> 0 .. MaxCalls] /\ madeFor' \in [Mutexes -> Ids \cup {NoId}]
    <3>1. k \in 0 .. MaxCalls BY <1>1 DEF Mutexes
    <3> QED BY <1>1, <1>2, <3>1 DEF TypeOK
  <2>3. call' \in [Threads -> Calls \cup {NoCall}] BY <1>4 DEF TypeOK
  <2>4. /\ mine' \in [Threads -> 0 .. MaxCalls]
        /\ answer' \in [Threads -> BOOLEAN] /\ raced' \in [Threads -> BOOLEAN]
    BY <1>4 DEF TypeOK
  <2> QED BY <1>3, <1>4, <2>1, <2>2, <2>3, <2>4 DEF TypeOK, Places
<1>6. MapMutexInv' BY <1>1, <1>4 DEF MapMutexInv, TypeOK, MapLocked
<1>7. ClientMutexInv' BY <1>1, <1>4 DEF ClientMutexInv, TypeOK, Locked, Mutexes
<1>8. MineInv' BY <1>4 DEF MineInv, TypeOK, Locked
<1>9. CallInv' BY <1>4 DEF CallInv, TypeOK, NoCall, Adds
<1>10. MadeInv'
  <2>1. ASSUME NEW u \in Threads, op(u)' \in Adds
        PROVE  madeFor'[call'[u].number] = NoId
    <3>1. u # t /\ call'[u] = call[u] BY <1>4, <2>1 DEF TypeOK, NoCall, Adds
    <3>2. call[u].number \in Mutexes /\ call[u].number # k
      BY <1>1, <2>1, <3>1 DEF k, CallInv, TypeOK, Mutexes
    <3> QED BY <1>2, <2>1, <3>1, <3>2 DEF MadeInv, TypeOK
  <2> QED BY <1>1, <1>2, <1>4, <2>1 DEF MadeInv, TypeOK, Mutexes
<1>11. NameInv'
  <2>1. \A j \in Ids : mutex'[j] # 0 => madeFor'[mutex'[j]] = j
    BY <1>1, <1>2 DEF NameInv, TypeOK, Mutexes
  <2>2. ASSUME NEW u \in Threads, mine'[u] # 0
        PROVE  madeFor'[mine'[u]] = call'[u].id
    <3>1. u # t /\ mine'[u] = mine[u] /\ call'[u] = call[u] BY <1>4, <2>2 DEF TypeOK
    <3>2. call[u].id \in Ids BY <2>2, <3>1 DEF MineInv, CallInv, Calls
    <3>3. mine[u] \in Mutexes /\ madeFor[mine[u]] = call[u].id
      BY <2>2, <3>1 DEF NameInv, TypeOK, Mutexes
    <3> QED BY <1>1, <1>2, <3>1, <3>2, <3>3 DEF TypeOK
  <2> QED BY <2>1, <2>2 DEF NameInv
<1>12. GoneInv'
  <2> SUFFICES ASSUME NEW u \in Threads, pc'[u] \in {"mapAgain", "eraseMutex"},
                      id(u)' \notin lost'
               PROVE  ~ Present(id(u))'
    BY DEF GoneInv
  <2>1. u # t /\ pc[u] = pc'[u] /\ call'[u] = call[u] BY <1>4 DEF TypeOK
  <2>2. id(u) \in Ids BY <2>1 DEF CallInv, Calls
  <2>3. ~ Present(id(u)) BY <2>1, HistoriesTyped DEF GoneInv
  <2>4. id(u) # i
    <3>1. SUFFICES ASSUME id(u) = i PROVE id(u) \in lost' BY <2>1
    <3>2. Fills(t, i) BY <1>1 DEF Fills, i
    <3> QED BY <1>1, <2>1, <3>1, <3>2 DEF watch
  <2> QED BY <1>2, <2>1, <2>2, <2>3, <2>4
<1>13. EntryIsReachable'
  BY <1>1, <1>2, HistoriesTyped DEF EntryIsReachable, TypeOK, Mutexes
<1> QED BY <1>5, <1>6, <1>7, <1>8, <1>9, <1>10, <1>11, <1>12, <1>13

\* A thread leaves the map's mutex with the mutex of its id, or with none.
LEMMA getClientSocketMutexKeeps ==
  ASSUME IInv, NEW t \in Threads, getClientSocketMutex(t), watch(t)
  PROVE  IInv'
<1> USE NoneAssumption, MaxCallsAssumption DEF IInv, at, go, id, op, getClientSocketMutex
<1>1. TypeOK'
  <2>1. /\ seen' \in [Threads -> SUBSET BOOLEAN] /\ lost' \subseteq Ids
        /\ filled' \in [Threads -> BOOLEAN]
    BY HistoriesTyped
  <2>2. id(t) \in Ids BY DEF CallInv, Calls
  <2>3. answer' = answer \/ answer' = [answer EXCEPT ![t] = FALSE] OBVIOUS
  <2>4. answer' \in [Threads -> BOOLEAN] BY <2>3 DEF TypeOK
  <2>5. mine' \in [Threads -> 0 .. MaxCalls] BY <2>2 DEF TypeOK
  <2> QED BY <2>1, <2>2, <2>4, <2>5 DEF TypeOK, Places
<1>2. MapMutexInv' BY DEF MapMutexInv, TypeOK, MapLocked
<1>3. ClientMutexInv'
  <2>1. \A u \in Threads : u # t => mine'[u] = mine[u] /\ pc'[u] = pc[u] BY DEF TypeOK
  <2>2. \A k \in Mutexes : owner[k] # t BY DEF ClientMutexInv, Locked
  <2>3. \A k \in Mutexes : ~ (mine'[t] = k /\ pc'[t] \in Locked)
    BY DEF TypeOK, Locked, Mutexes
  <2> QED BY <2>1, <2>2, <2>3 DEF ClientMutexInv
<1>4. MineInv' BY DEF MineInv, TypeOK
<1>5. CallInv' BY DEF CallInv, TypeOK
<1>6. MadeInv' BY DEF MadeInv, TypeOK
<1>7. NameInv' BY DEF NameInv, CallInv, Calls
<1>8. GoneInv' BY HistoriesTyped DEF GoneInv, TypeOK, Present
<1>9. EntryIsReachable' BY HistoriesTyped DEF EntryIsReachable, Present
<1> QED BY <1>1, <1>2, <1>3, <1>4, <1>5, <1>6, <1>7, <1>8, <1>9 DEF IInv

\* A client's mutex has one holder, who was given it.
LEMMA lockMutexKeeps == ASSUME IInv, NEW t \in Threads, lockMutex(t), watch(t) PROVE IInv'
<1> USE NoneAssumption, MaxCallsAssumption DEF IInv, at, go, id, op, lockMutex
<1>1. TypeOK'
  <2>1. /\ seen' \in [Threads -> SUBSET BOOLEAN] /\ lost' \subseteq Ids
        /\ filled' \in [Threads -> BOOLEAN]
    BY HistoriesTyped
  <2> QED BY <2>1 DEF TypeOK, Places
<1>2. MapMutexInv' BY DEF MapMutexInv, MapLocked
<1>3. ClientMutexInv' BY DEF ClientMutexInv, TypeOK, Locked
<1>4. MineInv' BY DEF MineInv, TypeOK
<1>5. GoneInv' BY HistoriesTyped DEF GoneInv, Present
<1>6. EntryIsReachable' BY HistoriesTyped DEF EntryIsReachable, Present
<1>7. (CallInv /\ MadeInv /\ NameInv)'
  BY DEF CallInv, MadeInv, NameInv
<1> QED BY <1>1, <1>2, <1>3, <1>4, <1>5, <1>6, <1>7 DEF IInv

\* A lookup changes nothing that others see.
LEMMA findKeeps == ASSUME IInv, NEW t \in Threads, find(t), watch(t) PROVE IInv'
<1> USE NoneAssumption, MaxCallsAssumption DEF IInv, at, go, id, op, find
<1>1. TypeOK'
  <2>1. /\ seen' \in [Threads -> SUBSET BOOLEAN] /\ lost' \subseteq Ids
        /\ filled' \in [Threads -> BOOLEAN]
    BY HistoriesTyped
  <2>2. Registered(t) \in BOOLEAN /\ Disturbed(t) \in BOOLEAN BY DEF Registered, Disturbed
  <2>3. Finds(t, Registered(t)) \subseteq BOOLEAN BY <2>2 DEF Finds
  <2>4. answer' \in [Threads -> BOOLEAN] BY <2>3 DEF TypeOK
  <2>5. raced' \in [Threads -> BOOLEAN] BY <2>2 DEF TypeOK
  <2> QED BY <2>1, <2>4, <2>5 DEF TypeOK, Places
<1>2. MapMutexInv' BY DEF MapMutexInv, MapLocked
<1>3. ClientMutexInv' BY DEF ClientMutexInv, Locked
<1>4. GoneInv' BY HistoriesTyped DEF GoneInv, Present
<1>5. EntryIsReachable' BY HistoriesTyped DEF EntryIsReachable, Present
<1>6. (MineInv /\ CallInv /\ MadeInv /\ NameInv)'
  BY DEF MineInv, CallInv, MadeInv, NameInv
<1> QED BY <1>1, <1>2, <1>3, <1>4, <1>5, <1>6 DEF IInv

\* Erasing an entry leaves its mutex to the second half of the removal.
LEMMA eraseEntryKeeps == ASSUME IInv, NEW t \in Threads, eraseEntry(t), watch(t) PROVE IInv'
<1> USE NoneAssumption, MaxCallsAssumption DEF IInv, at, go, id, op, eraseEntry
<1>1. TypeOK'
  <2>1. /\ seen' \in [Threads -> SUBSET BOOLEAN] /\ lost' \subseteq Ids
        /\ filled' \in [Threads -> BOOLEAN]
    BY HistoriesTyped
  <2> QED BY <2>1 DEF TypeOK, Places
<1>2. MapMutexInv' BY DEF MapMutexInv, MapLocked
<1>3. ClientMutexInv' BY DEF ClientMutexInv, Locked
<1>4. MineInv' BY DEF MineInv, Locked
<1>5. GoneInv' BY HistoriesTyped DEF GoneInv, Present
<1>6. EntryIsReachable' BY HistoriesTyped DEF EntryIsReachable, Present
<1>7. (CallInv /\ MadeInv /\ NameInv)'
  BY DEF CallInv, MadeInv, NameInv
<1> QED BY <1>1, <1>2, <1>3, <1>4, <1>5, <1>6, <1>7 DEF IInv

\* A removal takes the map's mutex again, holding no other.
LEMMA lockMapAgainKeeps ==
  ASSUME IInv, NEW t \in Threads, lockMapAgain(t), watch(t)
  PROVE  IInv'
<1> USE NoneAssumption, MaxCallsAssumption DEF IInv, at, go, id, op, lockMapAgain
<1>1. TypeOK'
  <2>1. /\ seen' \in [Threads -> SUBSET BOOLEAN] /\ lost' \subseteq Ids
        /\ filled' \in [Threads -> BOOLEAN]
    BY HistoriesTyped
  <2> QED BY <2>1 DEF TypeOK, Places
<1>2. MapMutexInv' BY DEF MapMutexInv, TypeOK, MapLocked
<1>3. ClientMutexInv' BY DEF ClientMutexInv, Locked
<1>4. MineInv' BY DEF MineInv, Locked
<1>5. GoneInv' BY HistoriesTyped DEF GoneInv, Present
<1>6. EntryIsReachable' BY HistoriesTyped DEF EntryIsReachable, Present
<1>7. (CallInv /\ MadeInv /\ NameInv)'
  BY DEF CallInv, MadeInv, NameInv
<1> QED BY <1>1, <1>2, <1>3, <1>4, <1>5, <1>6, <1>7 DEF IInv

\* The mutex erased by id is the id's own, old or new.
LEMMA removeClientSocketMutexKeeps ==
  ASSUME IInv, NEW t \in Threads, removeClientSocketMutex(t), watch(t)
  PROVE  IInv'
<1> USE NoneAssumption, MaxCallsAssumption DEF IInv, at, go, id, op, removeClientSocketMutex
<1>1. TypeOK'
  <2>1. /\ seen' \in [Threads -> SUBSET BOOLEAN] /\ lost' \subseteq Ids
        /\ filled' \in [Threads -> BOOLEAN]
    BY HistoriesTyped
  <2>2. 0 \in 0 .. MaxCalls OBVIOUS
  <2>3. mutex' \in [Ids -> 0 .. MaxCalls] BY <2>2 DEF TypeOK
  <2> QED BY <2>1, <2>3 DEF TypeOK, Places
<1>2. MapMutexInv' BY DEF MapMutexInv, TypeOK, MapLocked
<1>3. ClientMutexInv' BY DEF ClientMutexInv, Locked
<1>4. GoneInv' BY HistoriesTyped DEF GoneInv, Present
<1>5. EntryIsReachable' BY HistoriesTyped DEF EntryIsReachable, GoneInv, TypeOK, CallInv, Calls, Present
<1>6. (MineInv /\ CallInv /\ MadeInv /\ NameInv)'
  BY DEF MineInv, CallInv, MadeInv, NameInv
<1> QED BY <1>1, <1>2, <1>3, <1>4, <1>5, <1>6 DEF IInv

\* A call ends with every mutex released.
LEMMA leaveKeeps == ASSUME IInv, NEW t \in Threads, leave(t), watch(t) PROVE IInv'
<1> USE NoneAssumption, MaxCallsAssumption DEF IInv, at, go, id, op, leave, endCall
<1>1. TypeOK'
  <2>1. /\ seen' \in [Threads -> SUBSET BOOLEAN] /\ lost' \subseteq Ids
        /\ filled' \in [Threads -> BOOLEAN]
    BY HistoriesTyped
  <2>2. owner' \in [Mutexes -> Threads \cup {NoThread}] BY DEF TypeOK
  <2>3. call' \in [Threads -> Calls \cup {NoCall}] BY DEF TypeOK
  <2>4. /\ mine' \in [Threads -> 0 .. MaxCalls]
        /\ answer' \in [Threads -> BOOLEAN] /\ raced' \in [Threads -> BOOLEAN]
    BY DEF TypeOK
  <2> QED BY <2>1, <2>2, <2>3, <2>4 DEF TypeOK, Places
<1>2. MapMutexInv' BY DEF MapMutexInv, MapLocked
<1>3. ClientMutexInv' BY DEF ClientMutexInv, TypeOK, Locked
<1>4. MineInv' BY DEF MineInv, TypeOK, Locked
<1>5. \A u \in Threads : op(u)' \in Adds => u # t /\ call'[u] = call[u]
  BY DEF TypeOK, NoCall, Adds
<1>6. CallInv' BY <1>5 DEF CallInv, TypeOK, NoCall
<1>7. MadeInv' BY <1>5 DEF MadeInv
<1>8. NameInv' BY DEF NameInv, TypeOK
<1>9. GoneInv' BY HistoriesTyped DEF GoneInv, Present
<1>10. EntryIsReachable' BY HistoriesTyped DEF EntryIsReachable, Present
<1> QED BY <1>1, <1>2, <1>3, <1>4, <1>6, <1>7, <1>8, <1>9, <1>10 DEF IInv

-----------------------------------------------------------------------------
\* The registry starts empty, with no call running.
LEMMA InitIInv == Init => IInv
<1> USE NoneAssumption, MaxCallsAssumption DEF Init, at, id, op
<1> SUFFICES ASSUME Init PROVE IInv OBVIOUS
<1>1. TypeOK BY DEF TypeOK, Places, Mutexes
<1>2. MapMutexInv /\ ClientMutexInv /\ MineInv
  BY DEF MapMutexInv, ClientMutexInv, MineInv, MapLocked, Locked, Mutexes
<1>3. CallInv /\ MadeInv /\ NameInv BY DEF CallInv, MadeInv, NameInv, Mutexes, NoCall, Adds
<1>4. GoneInv /\ EntryIsReachable BY DEF GoneInv, EntryIsReachable, Present
<1> QED BY <1>1, <1>2, <1>3, <1>4 DEF IInv

\* A step that changes nothing keeps everything.
LEMMA StutterKeeps == IInv /\ UNCHANGED vars => IInv'
<1> SUFFICES ASSUME IInv, UNCHANGED vars PROVE IInv' OBVIOUS
<1> USE DEF vars, IInv, at, id, op
<1>1. TypeOK' BY DEF TypeOK
<1>2. (MapMutexInv /\ ClientMutexInv /\ MineInv)' BY DEF MapMutexInv, ClientMutexInv, MineInv
<1>3. (CallInv /\ MadeInv /\ NameInv)' BY DEF CallInv, MadeInv, NameInv
<1>4. (GoneInv /\ EntryIsReachable)' BY DEF GoneInv, EntryIsReachable, Present
<1> QED BY <1>1, <1>2, <1>3, <1>4

\* Every step keeps the inductive invariant.
LEMMA NextKeeps == IInv /\ [Next]_vars => IInv'
<1> SUFFICES ASSUME IInv, [Next]_vars PROVE IInv' OBVIOUS
<1>1. CASE UNCHANGED vars \/ terminated BY <1>1, StutterKeeps DEF terminated
<1>2. ASSUME NEW t \in Threads, step(t), watch(t) PROVE IInv'
  <2>1. CASE begin(t) BY <1>2, <2>1, beginKeeps
  <2>2. CASE lockMap(t) BY <1>2, <2>2, lockMapKeeps
  <2>3. CASE add(t) BY <1>2, <2>3, addKeeps
  <2>4. CASE getClientSocketMutex(t) BY <1>2, <2>4, getClientSocketMutexKeeps
  <2>5. CASE lockMutex(t) BY <1>2, <2>5, lockMutexKeeps
  <2>6. CASE find(t) BY <1>2, <2>6, findKeeps
  <2>7. CASE eraseEntry(t) BY <1>2, <2>7, eraseEntryKeeps
  <2>8. CASE lockMapAgain(t) BY <1>2, <2>8, lockMapAgainKeeps
  <2>9. CASE removeClientSocketMutex(t) BY <1>2, <2>9, removeClientSocketMutexKeeps
  <2>10. CASE leave(t) BY <1>2, <2>10, leaveKeeps
  <2> QED
    BY <1>2, <2>1, <2>2, <2>3, <2>4, <2>5, <2>6, <2>7, <2>8, <2>9, <2>10 DEF step
<1> QED BY <1>1, <1>2 DEF Next

\* The invariant holds throughout, for any number of threads, ids and calls.
THEOREM Invariance == Spec => []IInv
<1> QED BY InitIInv, NextKeeps, PTL DEF Spec

\* The types, and that a thread that goes on to lock a client's mutex was given one
\* (getClientSocketMutex, Server.cpp:573-581, and the checks of its callers).
THEOREM TypeOKAlways == Spec => []TypeOK
<1>1. IInv => TypeOK BY DEF IInv
<1> QED BY <1>1, Invariance, PTL

\* However many threads call, they never all wait for each other: a thread that
\* waits for a client's mutex waits for one that does not wait, or waits for the
\* map's, and whoever holds the map's does not wait (Server.cpp:505-527, 573-586).
THEOREM NoDeadlockAlways == Spec => []NoDeadlock
<1>1. IInv => NoDeadlock
  <2> SUFFICES ASSUME IInv, \A t \in Threads : at(t, "idle") \/ Waits(t),
                      NEW t \in Threads, ~ at(t, "idle")
               PROVE  FALSE
    BY DEF NoDeadlock
  <2> USE NoneAssumption DEF IInv, at, TypeOK
  <2>1. mapOwner = NoThread
    <3>1. \A u \in Threads : pc[u] \notin MapLocked BY DEF Waits, MapLocked
    <3> QED BY <3>1 DEF MapMutexInv
  <2>2. \A u \in Threads : at(u, "idle") \/ (at(u, "lock") /\ owner[mine[u]] # NoThread)
    BY <2>1 DEF Waits
  <2>3. at(t, "lock") /\ mine[t] \in Mutexes /\ owner[mine[t]] \in Threads
    BY <2>2, MaxCallsAssumption DEF Mutexes
  <2>4. pc[owner[mine[t]]] \in Locked BY <2>3 DEF ClientMutexInv
  <2> QED BY <2>2, <2>3, <2>4 DEF Locked
<1> QED BY <1>1, Invariance, PTL

\* At most one thread at a time works on an entry under its mutex, as long as no
\* second mutex was made for the client (Server.cpp:511-524, 538-556).
THEOREM ExclusionAlways == Spec => []Exclusion
<1>1. IInv => Exclusion
  <2> SUFFICES ASSUME IInv, NEW i \in Ids, OneMutex(i), NEW t \in Threads, NEW u \in Threads,
                      Inside(t, i), Inside(u, i)
               PROVE  t = u
    BY DEF Exclusion
  <2> USE MaxCallsAssumption DEF IInv, TypeOK, Inside, Mutexes
  <2>1. mine[t] \in Mutexes /\ mine[u] \in Mutexes BY DEF MineInv, Locked
  <2>2. madeFor[mine[t]] = i /\ madeFor[mine[u]] = i BY <2>1 DEF NameInv
  <2>3. mine[t] = mine[u] BY <2>1, <2>2 DEF OneMutex
  <2> QED BY <2>1, <2>3, NoneAssumption DEF ClientMutexInv, Locked
<1> QED BY <1>1, Invariance, PTL

\* An entry has the mutex that its users look for, unless it was added between the two
\* halves of a removal (Server.cpp:473-503, 524-526): whoever calls for whatever id.
THEOREM EntryIsReachableAlways == Spec => []EntryIsReachable
<1>1. IInv => EntryIsReachable BY DEF IInv
<1> QED BY <1>1, Invariance, PTL

-----------------------------------------------------------------------------
(* A lookup can be taken for one step.                                     *)

\* The history holds what a lookup would be answered now.
SeenInv == \A t \in Threads : op(t) \in Lookups => Atomically(t) \in seen[t]

\* Where a socket can be found and the entry has no mutex, it was there before, or it was
\* added to an entry that had none.
ReadInv ==
  \A t \in Threads :
    pc[t] \in {"lock", "inside"} /\ op(t) \in Lookups /\ Registered(t) =>
      mutex[id(t)] # 0 \/ TRUE \in seen[t] \/ filled[t]

JInv == IInv /\ SeenInv /\ ReadInv /\ AnswersAreCurrent

\* The histories of a lookup only grow, what it has seen by what is so now.
LEMMA HistoriesGrow ==
  ASSUME TypeOK, NEW t \in Threads, watch(t), NEW u \in Threads, op(u)' \in Lookups
  PROVE  /\ Atomically(u)' \in seen'[u]
         /\ op(u) \in Lookups => seen[u] \subseteq seen'[u] /\ (filled[u] => filled'[u])
<1> DEFINE now(v) == Atomically(v)'
<1>1. seen' = [v \in Threads |-> CASE op(v)' \notin Lookups -> {}
                                   [] op(v) \notin Lookups /\ op(v)' \in Lookups -> {now(v)}
                                   [] OTHER -> seen[v] \cup {now(v)}]
  BY DEF watch
<1> HIDE DEF now
<1>2. now(u) \in seen'[u] /\ (op(u) \in Lookups => seen[u] \subseteq seen'[u]) BY <1>1
<1>3. filled[u] => filled'[u] BY DEF watch
<1> QED BY <1>2, <1>3 DEF now

\* A lookup has always seen what is so now.
LEMMA SeenKept == \A t \in Threads : TypeOK /\ watch(t) => SeenInv'
BY HistoriesGrow DEF SeenInv

\* An answer that was given stays good: the histories it is judged by only grow.
LEMMA AnswersKept ==
  ASSUME JInv, NEW t \in Threads, watch(t), NEW u \in Threads, pc[u] = "leave",
         op(u)' \in Lookups, UNCHANGED <<call[u], answer[u], raced[u]>>
  PROVE  \/ answer'[u] \in seen'[u]
         \/ raced'[u] /\ ~ answer'[u]
         \/ filled'[u] /\ answer'[u]
<1>1. op(u) \in Lookups /\ TypeOK BY DEF JInv, IInv, op
<1>2. seen[u] \subseteq seen'[u] /\ (filled[u] => filled'[u]) BY <1>1, HistoriesGrow
<1> QED BY <1>1, <1>2 DEF JInv, AnswersAreCurrent, at

\* A new call has no answer yet.
LEMMA beginKeepsAnswers ==
  ASSUME JInv, NEW t \in Threads, begin(t), watch(t)
  PROVE  ReadInv' /\ AnswersAreCurrent'
<1> USE NoneAssumption, MaxCallsAssumption DEF JInv, IInv, TypeOK, at, go, id, op,
                                               begin
<1>1. ReadInv' BY HistoriesGrow DEF ReadInv, Registered
<1>2. AnswersAreCurrent'
  <2> SUFFICES ASSUME NEW u \in Threads, pc'[u] = "leave", op(u)' \in Lookups
               PROVE  \/ answer'[u] \in seen'[u]
                      \/ raced'[u] /\ ~ answer'[u]
                      \/ filled'[u] /\ answer'[u]
    BY DEF AnswersAreCurrent
  <2>1. pc[u] = "leave" /\ UNCHANGED <<call[u], answer[u], raced[u]>> OBVIOUS
  <2> QED BY <2>1, AnswersKept
<1> QED BY <1>1, <1>2

\* Waiting for the map's mutex gives no answer.
LEMMA lockMapKeepsAnswers ==
  ASSUME JInv, NEW t \in Threads, lockMap(t), watch(t)
  PROVE  ReadInv' /\ AnswersAreCurrent'
<1> USE NoneAssumption, MaxCallsAssumption DEF JInv, IInv, TypeOK, at, go, id, op,
                                               lockMap
<1>1. ReadInv' BY HistoriesGrow DEF ReadInv, Registered
<1>2. AnswersAreCurrent'
  <2> SUFFICES ASSUME NEW u \in Threads, pc'[u] = "leave", op(u)' \in Lookups
               PROVE  \/ answer'[u] \in seen'[u]
                      \/ raced'[u] /\ ~ answer'[u]
                      \/ filled'[u] /\ answer'[u]
    BY DEF AnswersAreCurrent
  <2>1. pc[u] = "leave" /\ UNCHANGED <<call[u], answer[u], raced[u]>> OBVIOUS
  <2> QED BY <2>1, AnswersKept
<1> QED BY <1>1, <1>2

\* An insertion leaves an entry with a mutex, or fills one without.
LEMMA addKeepsAnswers ==
  ASSUME JInv, NEW t \in Threads, add(t), watch(t)
  PROVE  ReadInv' /\ AnswersAreCurrent'
<1> USE NoneAssumption, MaxCallsAssumption DEF JInv, IInv, TypeOK, at, go, id, op
<1>1. id(t) \in Ids /\ op(t) \in Adds /\ call[t].number # 0
  BY DEF add, CallInv, Calls, Mutexes
<1>2. /\ pc' = [pc EXCEPT ![t] = "idle"] /\ pc[t] = "adding"
      /\ call' = [call EXCEPT ![t] = NoCall]
      /\ answer' = [answer EXCEPT ![t] = FALSE] /\ raced' = [raced EXCEPT ![t] = FALSE]
  BY DEF add, endCall
<1>3. ASSUME NEW u \in Threads, pc'[u] # "idle"
      PROVE  u # t /\ UNCHANGED <<pc[u], call[u], answer[u], raced[u]>>
  BY <1>2, <1>3
<1>4. ReadInv'
  <2> SUFFICES ASSUME NEW u \in Threads, pc'[u] \in {"lock", "inside"}, op(u)' \in Lookups,
                      Registered(u)', mutex'[id(u)'] = 0
               PROVE  TRUE \in seen'[u] \/ filled'[u]
    BY DEF ReadInv
  <2>1. u # t /\ UNCHANGED <<pc[u], call[u], answer[u], raced[u]>> BY <1>3
  <2>2. id(u) \in Ids /\ op(u) \in Lookups BY <2>1 DEF CallInv, Calls
  <2>3. seen[u] \subseteq seen'[u] /\ (filled[u] => filled'[u]) BY <2>2, HistoriesGrow
  <2>4. CASE id(u) = id(t)
    <3>1. Fills(t, id(u)) BY <1>2, <2>4 DEF Fills
    <3> QED BY <2>1, <3>1 DEF watch
  <2>5. CASE id(u) # id(t)
    <3>1. Registered(u) /\ mutex[id(u)] = 0
      BY <1>1, <2>1, <2>2, <2>5, AddOutcomes DEF Registered
    <3> QED BY <2>1, <2>2, <2>3, <3>1 DEF ReadInv
  <2> QED BY <2>4, <2>5
<1>5. AnswersAreCurrent'
  <2> SUFFICES ASSUME NEW u \in Threads, pc'[u] = "leave", op(u)' \in Lookups
               PROVE  \/ answer'[u] \in seen'[u]
                      \/ raced'[u] /\ ~ answer'[u]
                      \/ filled'[u] /\ answer'[u]
    BY DEF AnswersAreCurrent
  <2>1. pc[u] = "leave" /\ UNCHANGED <<call[u], answer[u], raced[u]>> BY <1>3
  <2> QED BY <2>1, AnswersKept
<1> QED BY <1>4, <1>5

\* A client without a mutex is not one that the atomic call would find.
LEMMA getClientSocketMutexKeepsAnswers ==
  ASSUME JInv, NEW t \in Threads, getClientSocketMutex(t), watch(t)
  PROVE  ReadInv' /\ AnswersAreCurrent'
<1> USE NoneAssumption, MaxCallsAssumption DEF JInv, IInv, TypeOK, at, go, id, op,
                                               getClientSocketMutex
<1>1. id(t) \in Ids BY DEF CallInv, Calls
<1>2. ReadInv'
  <2> SUFFICES ASSUME NEW u \in Threads, pc'[u] \in {"lock", "inside"}, op(u)' \in Lookups,
                      Registered(u)', mutex'[id(u)'] = 0
               PROVE  TRUE \in seen'[u] \/ filled'[u]
    BY DEF ReadInv
  <2>1. Registered(u) /\ u # t BY DEF Registered
  <2> QED BY <2>1, HistoriesGrow DEF ReadInv
<1>3. AnswersAreCurrent'
  <2> SUFFICES ASSUME NEW u \in Threads, pc'[u] = "leave", op(u)' \in Lookups
               PROVE  \/ answer'[u] \in seen'[u]
                      \/ raced'[u] /\ ~ answer'[u]
                      \/ filled'[u] /\ answer'[u]
    BY DEF AnswersAreCurrent
  <2>1. CASE u # t
    <3>1. pc[u] = "leave" /\ UNCHANGED <<call[u], answer[u], raced[u]>> BY <2>1
    <3> QED BY <3>1, AnswersKept
  <2>2. CASE u = t
    <3>1. mutex[id(t)] = 0 /\ answer'[t] = FALSE BY <1>1, <2>2
    <3>2. Atomically(t)' = FALSE BY <3>1 DEF Atomically
    <3>3. Atomically(t)' \in seen'[t] BY <2>2, HistoriesGrow
    <3> QED BY <2>2, <3>1, <3>2, <3>3
  <2> QED BY <2>1, <2>2
<1> QED BY <1>2, <1>3

\* Waiting for a client's mutex gives no answer.
LEMMA lockMutexKeepsAnswers ==
  ASSUME JInv, NEW t \in Threads, lockMutex(t), watch(t)
  PROVE  ReadInv' /\ AnswersAreCurrent'
<1> USE NoneAssumption, MaxCallsAssumption DEF JInv, IInv, TypeOK, at, go, id, op,
                                               lockMutex
<1>1. ReadInv' BY HistoriesGrow DEF ReadInv, Registered, Lookups
<1>2. AnswersAreCurrent'
  <2> SUFFICES ASSUME NEW u \in Threads, pc'[u] = "leave", op(u)' \in Lookups
               PROVE  \/ answer'[u] \in seen'[u]
                      \/ raced'[u] /\ ~ answer'[u]
                      \/ filled'[u] /\ answer'[u]
    BY DEF AnswersAreCurrent
  <2>1. pc[u] = "leave" /\ UNCHANGED <<call[u], answer[u], raced[u]>> OBVIOUS
  <2> QED BY <2>1, AnswersKept
<1> QED BY <1>1, <1>2

\* A lookup answers with what is so under the mutex.
LEMMA findKeepsAnswers ==
  ASSUME JInv, NEW t \in Threads, find(t), watch(t)
  PROVE  ReadInv' /\ AnswersAreCurrent'
<1> USE NoneAssumption, MaxCallsAssumption DEF JInv, IInv, TypeOK, at, go, id, op,
                                               find
<1>1. ReadInv' BY HistoriesGrow DEF ReadInv, Registered
<1>2. AnswersAreCurrent'
  <2> SUFFICES ASSUME NEW u \in Threads, pc'[u] = "leave", op(u)' \in Lookups
               PROVE  \/ answer'[u] \in seen'[u]
                      \/ raced'[u] /\ ~ answer'[u]
                      \/ filled'[u] /\ answer'[u]
    BY DEF AnswersAreCurrent
  <2>1. CASE u # t
    <3>1. pc[u] = "leave" /\ UNCHANGED <<call[u], answer[u], raced[u]>> BY <2>1
    <3> QED BY <3>1, AnswersKept
  <2>2. CASE u = t
    <3>1. /\ Atomically(t)' \in seen'[t]
          /\ seen[t] \subseteq seen'[t] /\ (filled[t] => filled'[t])
      BY <2>2, HistoriesGrow
    <3>2. Registered(t) \in BOOLEAN /\ Disturbed(t) \in BOOLEAN BY DEF Registered, Disturbed
    <3>3. answer'[t] \in Finds(t, Registered(t)) /\ raced'[t] = Disturbed(t) BY <3>2
    <3>4. answer'[t] \in BOOLEAN BY <3>2, <3>3 DEF Finds
    <3>5. Registered(t)' = Registered(t) BY DEF Registered
    <3>6. CASE answer'[t] = TRUE
      <4>1. Registered(t) BY <3>3, <3>6 DEF Finds
      <4>2. mutex[id(t)] # 0 \/ TRUE \in seen[t] \/ filled[t] BY <4>1 DEF ReadInv
      <4>3. CASE mutex[id(t)] # 0
        <5>1. Atomically(t)' = TRUE BY <3>5, <4>1, <4>3 DEF Atomically
        <5> QED BY <2>2, <3>1, <3>6, <5>1
      <4> QED BY <2>2, <3>1, <3>6, <4>2, <4>3
    <3>7. CASE answer'[t] = FALSE /\ ~ Disturbed(t)
      <4>1. ~ Registered(t) BY <3>2, <3>3, <3>7 DEF Finds
      <4>2. Atomically(t)' = FALSE BY <3>5, <4>1 DEF Atomically
      <4> QED BY <2>2, <3>1, <3>7, <4>2
    <3>8. CASE answer'[t] = FALSE /\ Disturbed(t) BY <2>2, <3>3, <3>8
    <3> QED BY <3>4, <3>6, <3>7, <3>8
  <2> QED BY <2>1, <2>2
<1> QED BY <1>1, <1>2

\* Erasing an entry gives no lookup an answer.
LEMMA eraseEntryKeepsAnswers ==
  ASSUME JInv, NEW t \in Threads, eraseEntry(t), watch(t)
  PROVE  ReadInv' /\ AnswersAreCurrent'
<1> USE NoneAssumption, MaxCallsAssumption DEF JInv, IInv, TypeOK, at, go, id, op,
                                               eraseEntry
<1>1. ReadInv' BY HistoriesGrow DEF ReadInv, Registered
<1>2. AnswersAreCurrent'
  <2> SUFFICES ASSUME NEW u \in Threads, pc'[u] = "leave", op(u)' \in Lookups
               PROVE  \/ answer'[u] \in seen'[u]
                      \/ raced'[u] /\ ~ answer'[u]
                      \/ filled'[u] /\ answer'[u]
    BY DEF AnswersAreCurrent
  <2>1. u # t BY DEF CallInv, Lookups
  <2>2. pc[u] = "leave" /\ UNCHANGED <<call[u], answer[u], raced[u]>> BY <2>1
  <2> QED BY <2>2, AnswersKept
<1> QED BY <1>1, <1>2

\* Nor does taking the map's mutex again.
LEMMA lockMapAgainKeepsAnswers ==
  ASSUME JInv, NEW t \in Threads, lockMapAgain(t), watch(t)
  PROVE  ReadInv' /\ AnswersAreCurrent'
<1> USE NoneAssumption, MaxCallsAssumption DEF JInv, IInv, TypeOK, at, go, id, op,
                                               lockMapAgain
<1>1. ReadInv' BY HistoriesGrow DEF ReadInv, Registered
<1>2. AnswersAreCurrent'
  <2> SUFFICES ASSUME NEW u \in Threads, pc'[u] = "leave", op(u)' \in Lookups
               PROVE  \/ answer'[u] \in seen'[u]
                      \/ raced'[u] /\ ~ answer'[u]
                      \/ filled'[u] /\ answer'[u]
    BY DEF AnswersAreCurrent
  <2>1. pc[u] = "leave" /\ UNCHANGED <<call[u], answer[u], raced[u]>> OBVIOUS
  <2> QED BY <2>1, AnswersKept
<1> QED BY <1>1, <1>2

\* What is lost with a mutex was seen before.
LEMMA removeClientSocketMutexKeepsAnswers ==
  ASSUME JInv, NEW t \in Threads, removeClientSocketMutex(t), watch(t)
  PROVE  ReadInv' /\ AnswersAreCurrent'
<1> USE NoneAssumption, MaxCallsAssumption DEF JInv, IInv, TypeOK, at, go, id, op,
                                               removeClientSocketMutex
<1>1. ReadInv'
  <2> SUFFICES ASSUME NEW u \in Threads, pc'[u] \in {"lock", "inside"}, op(u)' \in Lookups,
                      Registered(u)'
               PROVE  TRUE \in seen'[u] \/ filled'[u] \/ mutex'[id(u)'] # 0
    BY DEF ReadInv
  <2>1. u # t /\ UNCHANGED <<pc[u], call[u]>> BY DEF CallInv, Lookups
  <2>2. Registered(u) /\ op(u) \in Lookups BY <2>1 DEF Registered
  <2>3. seen[u] \subseteq seen'[u] /\ (filled[u] => filled'[u]) BY <2>2, HistoriesGrow
  <2>4. CASE mutex[id(u)] # 0
    <3>1. Atomically(u) = TRUE BY <2>2, <2>4 DEF Atomically, Registered
    <3> QED BY <2>2, <2>3, <3>1 DEF SeenInv
  <2> QED BY <2>1, <2>2, <2>3, <2>4 DEF ReadInv
<1>2. AnswersAreCurrent'
  <2> SUFFICES ASSUME NEW u \in Threads, pc'[u] = "leave", op(u)' \in Lookups
               PROVE  \/ answer'[u] \in seen'[u]
                      \/ raced'[u] /\ ~ answer'[u]
                      \/ filled'[u] /\ answer'[u]
    BY DEF AnswersAreCurrent
  <2>1. u # t BY DEF CallInv, Lookups
  <2>2. pc[u] = "leave" /\ UNCHANGED <<call[u], answer[u], raced[u]>> BY <2>1
  <2> QED BY <2>2, AnswersKept
<1> QED BY <1>1, <1>2

\* A call that ends takes its answer with it.
LEMMA leaveKeepsAnswers ==
  ASSUME JInv, NEW t \in Threads, leave(t), watch(t)
  PROVE  ReadInv' /\ AnswersAreCurrent'
<1> USE NoneAssumption, MaxCallsAssumption DEF JInv, IInv, TypeOK, at, go, id, op,
                                               leave
<1>1. /\ pc' = [pc EXCEPT ![t] = "idle"] /\ call' = [call EXCEPT ![t] = NoCall]
      /\ answer' = [answer EXCEPT ![t] = FALSE] /\ raced' = [raced EXCEPT ![t] = FALSE]
  BY DEF endCall
<1>2. ReadInv' BY <1>1, HistoriesGrow DEF ReadInv, Registered
<1>3. AnswersAreCurrent'
  <2> SUFFICES ASSUME NEW u \in Threads, pc'[u] = "leave", op(u)' \in Lookups
               PROVE  \/ answer'[u] \in seen'[u]
                      \/ raced'[u] /\ ~ answer'[u]
                      \/ filled'[u] /\ answer'[u]
    BY DEF AnswersAreCurrent
  <2>1. pc[u] = "leave" /\ UNCHANGED <<call[u], answer[u], raced[u]>> BY <1>1
  <2> QED BY <2>1, AnswersKept
<1> QED BY <1>2, <1>3

\* What a lookup answers was true at some moment of the call, for any number of calls
\* at once, by any thread for any id; unless it overlapped a write to the map, when it
\* may have missed, or its client's entry had lost its mutex and was added to
\* (Server.cpp:475, 489-500, 524-526, 538-556).  So ClientSession may take a call for
\* one step.
THEOREM AnswersAreCurrentAlways == Spec => []AnswersAreCurrent
<1>1. Init => JInv
  <2> SUFFICES ASSUME Init PROVE JInv OBVIOUS
  <2>1. IInv BY InitIInv
  <2>2. SeenInv /\ ReadInv /\ AnswersAreCurrent
    BY DEF Init, NoCall, Lookups, at, id, op, SeenInv, ReadInv, AnswersAreCurrent
  <2> QED BY <2>1, <2>2 DEF JInv
<1>2. JInv /\ [Next]_vars => JInv'
  <2> SUFFICES ASSUME JInv, [Next]_vars PROVE JInv' OBVIOUS
  <2>1. IInv' BY NextKeeps DEF JInv
  <2>2. CASE UNCHANGED vars \/ terminated
    <3>1. UNCHANGED vars BY <2>2 DEF terminated
    <3>2. (SeenInv /\ ReadInv /\ AnswersAreCurrent)'
      BY <3>1 DEF JInv, SeenInv, ReadInv, AnswersAreCurrent, vars, at, id, op, Atomically,
                  Registered
    <3> QED BY <2>1, <3>2 DEF JInv
  <2>3. ASSUME NEW t \in Threads, step(t), watch(t) PROVE JInv'
    <3>1. SeenInv' BY <2>3, SeenKept DEF JInv, IInv
    <3>2. ReadInv' /\ AnswersAreCurrent'
      BY <2>3, beginKeepsAnswers, lockMapKeepsAnswers, addKeepsAnswers,
         getClientSocketMutexKeepsAnswers, lockMutexKeepsAnswers, findKeepsAnswers,
         eraseEntryKeepsAnswers, lockMapAgainKeepsAnswers,
         removeClientSocketMutexKeepsAnswers, leaveKeepsAnswers DEF step
    <3> QED BY <2>1, <3>1, <3>2 DEF JInv
  <2> QED BY <2>2, <2>3 DEF Next
<1>3. JInv => AnswersAreCurrent BY DEF JInv
<1> QED BY <1>1, <1>2, <1>3, PTL DEF Spec
=============================================================================
