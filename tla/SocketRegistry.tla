---------------------------- MODULE SocketRegistry ----------------------------
(***************************************************************************)
(* The server's registry of client sockets, lock by lock: the entries of   *)
(* _clientSocketMap, one mutex object per entry in _clientSocketMutexMap,  *)
(* and _clientSocketMutexMapMutex over the latter (Server.cpp:340-595).    *)
(*                                                                         *)
(* An add runs under the map's mutex alone.  Every other call takes the    *)
(* map's mutex to find the client's, drops it, and then works on the entry *)
(* under the client's mutex; a removal takes the map's mutex once more     *)
(* while it holds the client's.  So the entries are written under one lock *)
(* and read under another: an access that overlaps an insertion, or the    *)
(* erasure of another client's entry, is a data race, and may miss an entry *)
(* that is there.                                                          *)
(*                                                                         *)
(* Nothing is asked of the callers: any thread makes any call for any id,  *)
(* as often as it likes, since an id may be given twice (Server.cpp:191)   *)
(* and claimed by anybody (Server.cpp:165-166).  ClientSession takes every *)
(* call for one step.  The properties say when that is sound, and that the *)
(* locks neither deadlock nor fail to exclude.                             *)
(* A mutex object is named by the number of the add that made it.          *)
(***************************************************************************)
EXTENDS Naturals

CONSTANTS Threads,   \* the threads that call the registry
          Ids,       \* the client ids
          NoThread,  \* the owner of a free mutex
          NoId,      \* the id of a mutex that was not made
          MaxCalls   \* bound: how many calls are made

ASSUME NoneAssumption == NoThread \notin Threads /\ NoId \notin Ids
ASSUME MaxCallsAssumption == MaxCalls \in Nat

VARIABLES
  fromSocket,  \* _clientSocketMap: the ids whose entry has a FROM socket,
  toSocket,    \* and those whose entry has a TO socket; an entry has one of them
  mutex,       \* _clientSocketMutexMap: the mutex of every id, 0 for none
  mapOwner,    \* the thread that holds _clientSocketMutexMapMutex
  owner,       \* the thread that holds a client's mutex
  madeFor,     \* the id a mutex was made for, if it was made
  calls,       \* how many calls were made,
  adds,        \* and how many of them add
  pc,          \* where every thread is
  call,        \* the call it makes: its operation, its id and, of an add, its number
  mine,        \* the mutex that getClientSocketMutex gave it
  answer,      \* what its lookup found
  raced,       \* did the lookup overlap an insertion or another erasure
  seen,        \* history: what was true of its client since the call began
  lost,        \* history: the ids added between the two halves of their removal
  filled       \* history: was its client, with an entry but no mutex, added since

vars == <<fromSocket, toSocket, mutex, mapOwner, owner, madeFor, calls, adds, pc, call, mine,
          answer, raced, seen, lost, filled>>

Mutexes == 1 .. MaxCalls
Adds == {"addFrom", "addTo"}
Lookups == {"isFrom", "isTo"}
Operations == Adds \cup Lookups \cup {"remove"}
Calls == [op : Operations, id : Ids, number : 0 .. MaxCalls]
NoCall == [op |-> "none", id |-> NoId, number |-> 0]

Present(i) == i \in fromSocket \cup toSocket

Init ==
  /\ fromSocket = {} /\ toSocket = {}
  /\ mutex = [i \in Ids |-> 0]
  /\ mapOwner = NoThread
  /\ owner = [k \in Mutexes |-> NoThread]
  /\ madeFor = [k \in Mutexes |-> NoId]
  /\ calls = 0 /\ adds = 0
  /\ pc = [t \in Threads |-> "idle"]
  /\ call = [t \in Threads |-> NoCall]
  /\ mine = [t \in Threads |-> 0]
  /\ answer = [t \in Threads |-> FALSE]
  /\ raced = [t \in Threads |-> FALSE]
  /\ seen = [t \in Threads |-> {}]
  /\ lost = {}
  /\ filled = [t \in Threads |-> FALSE]

at(t, where) == pc[t] = where
go(t, where) == pc' = [pc EXCEPT ![t] = where]
id(t) == call[t].id
op(t) == call[t].op

\* Any call, for any id.
begin(t) ==
  /\ at(t, "idle")
  /\ calls < MaxCalls
  /\ \E o \in Operations, i \in Ids :
       LET number == IF o \in Adds THEN adds + 1 ELSE 0
       IN  /\ call' = [call EXCEPT ![t] = [op |-> o, id |-> i, number |-> number]]
           /\ adds' = IF o \in Adds THEN adds + 1 ELSE adds
  /\ calls' = calls + 1
  /\ go(t, "map")
  /\ UNCHANGED <<fromSocket, toSocket, mutex, mapOwner, owner, madeFor, mine, answer, raced>>

\* The map's mutex, for an add or for getClientSocketMutex.
lockMap(t) ==
  /\ at(t, "map")
  /\ mapOwner = NoThread
  /\ mapOwner' = t
  /\ go(t, IF op(t) \in Adds THEN "adding" ELSE "lookup")
  /\ UNCHANGED <<fromSocket, toSocket, mutex, owner, madeFor, calls, adds, call, mine,
                 answer, raced>>

\* The locals of a call go when it returns.
endCall(t) ==
  /\ go(t, "idle")
  /\ call' = [call EXCEPT ![t] = NoCall]
  /\ mine' = [mine EXCEPT ![t] = 0]
  /\ answer' = [answer EXCEPT ![t] = FALSE]
  /\ raced' = [raced EXCEPT ![t] = FALSE]

newMutex(t) ==
  /\ mutex' = [mutex EXCEPT ![id(t)] = call[t].number]
  /\ madeFor' = [madeFor EXCEPT ![call[t].number] = id(t)]

\* Does a thread write to _clientSocketMap?  An add does under the map's mutex, a
\* removal under its client's.
Writing(u) == at(u, "adding") \/ (at(u, "inside") /\ op(u) = "remove")

Disturbed(t) == \E u \in Threads \ {t} : Writing(u)

\* What t's lookup in _clientSocketMap says: while another thread writes to the map, it
\* may also miss what it looks for.
Finds(t, present) == IF Disturbed(t) THEN {present, FALSE} ELSE {present}

addFromClientSocket(t) ==
  /\ \E found \in Finds(t, Present(id(t))) :
       IF found THEN UNCHANGED <<fromSocket, mutex, madeFor>>
                ELSE fromSocket' = fromSocket \cup {id(t)} /\ newMutex(t)
  /\ UNCHANGED toSocket

\* Mutant: only a FROM socket comes with a mutex.
addToClientSocket_NoMutex(t) ==
  /\ toSocket' = toSocket \cup {id(t)}
  /\ UNCHANGED <<fromSocket, mutex, madeFor>>

\* A TO socket that is there stays, and so does the mutex of an entry; an entry that
\* the lookup missed starts over, without its FROM socket.
addToClientSocket(t) ==
  /\ toSocket' = toSocket \cup {id(t)}
  /\ \E found \in Finds(t, Present(id(t))) :
       IF found THEN UNCHANGED <<fromSocket, mutex, madeFor>>
                ELSE fromSocket' = fromSocket \ {id(t)} /\ newMutex(t)

add(t) ==
  /\ at(t, "adding")
  /\ IF op(t) = "addFrom" THEN addFromClientSocket(t) ELSE addToClientSocket(t)
  /\ mapOwner' = NoThread
  /\ endCall(t)
  /\ UNCHANGED <<owner, calls, adds>>

\* Mutant: the optional is dereferenced unchecked.
getClientSocketMutex_Unchecked(t) ==
  /\ at(t, "lookup")
  /\ mine' = [mine EXCEPT ![t] = mutex[id(t)]]
  /\ mapOwner' = NoThread
  /\ go(t, "lock")
  /\ UNCHANGED <<fromSocket, toSocket, mutex, owner, madeFor, calls, adds, call, answer,
                 raced>>

\* Mutant: the map's mutex is kept until the client's is locked.
getClientSocketMutex_Held(t) ==
  /\ at(t, "lookup")
  /\ mine' = [mine EXCEPT ![t] = mutex[id(t)]]
  /\ IF mutex[id(t)] = 0 THEN go(t, "leave") /\ mapOwner' = NoThread
                         ELSE go(t, "lock") /\ UNCHANGED mapOwner
  /\ UNCHANGED <<fromSocket, toSocket, mutex, owner, madeFor, calls, adds, call, answer,
                 raced>>

\* The caller of a client that has no mutex takes it for unknown.
getClientSocketMutex(t) ==
  /\ at(t, "lookup")
  /\ mine' = [mine EXCEPT ![t] = mutex[id(t)]]
  /\ mapOwner' = NoThread
  /\ IF mutex[id(t)] = 0
       THEN answer' = [answer EXCEPT ![t] = FALSE] /\ go(t, "leave")
       ELSE go(t, "lock") /\ UNCHANGED answer
  /\ UNCHANGED <<fromSocket, toSocket, mutex, owner, madeFor, calls, adds, call, raced>>

\* Mutant: the lock_guard is missing.
lockMutex_None(t) ==
  /\ at(t, "lock")
  /\ go(t, "inside")
  /\ UNCHANGED <<fromSocket, toSocket, mutex, mapOwner, owner, madeFor, calls, adds, call,
                 mine, answer, raced>>

lockMutex(t) ==
  /\ at(t, "lock")
  /\ owner[mine[t]] = NoThread
  /\ owner' = [owner EXCEPT ![mine[t]] = t]
  /\ go(t, "inside")
  /\ UNCHANGED <<fromSocket, toSocket, mutex, mapOwner, madeFor, calls, adds, call, mine,
                 answer, raced>>

Registered(t) == id(t) \in (IF op(t) = "isFrom" THEN fromSocket ELSE toSocket)

\* Mutant: an entry is taken for a socket of either kind.
find_AnySocket(t) ==
  /\ at(t, "inside") /\ op(t) \in Lookups
  /\ \E found \in Finds(t, Present(id(t))) : answer' = [answer EXCEPT ![t] = found]
  /\ raced' = [raced EXCEPT ![t] = Disturbed(t)]
  /\ go(t, "leave")
  /\ UNCHANGED <<fromSocket, toSocket, mutex, mapOwner, owner, madeFor, calls, adds, call,
                 mine>>

\* isFromClientSocketRegistered, isToClientSocketRegistered, and the lookups of the
\* calls that send to or read from a socket once they have dropped the mutex.
find(t) ==
  /\ at(t, "inside") /\ op(t) \in Lookups
  /\ \E found \in Finds(t, Registered(t)) : answer' = [answer EXCEPT ![t] = found]
  /\ raced' = [raced EXCEPT ![t] = Disturbed(t)]
  /\ go(t, "leave")
  /\ UNCHANGED <<fromSocket, toSocket, mutex, mapOwner, owner, madeFor, calls, adds, call,
                 mine>>

\* removeClientSocket: the entry goes first ...
eraseEntry(t) ==
  /\ at(t, "inside") /\ op(t) = "remove"
  /\ \E found \in Finds(t, Present(id(t))) :
       /\ fromSocket' = IF found THEN fromSocket \ {id(t)} ELSE fromSocket
       /\ toSocket' = IF found THEN toSocket \ {id(t)} ELSE toSocket
       /\ go(t, IF found THEN "mapAgain" ELSE "leave")
  /\ UNCHANGED <<mutex, mapOwner, owner, madeFor, calls, adds, call, mine, answer, raced>>

\* ... and then, under both locks, the mutex the id has by now.
lockMapAgain(t) ==
  /\ at(t, "mapAgain")
  /\ mapOwner = NoThread
  /\ mapOwner' = t
  /\ go(t, "eraseMutex")
  /\ UNCHANGED <<fromSocket, toSocket, mutex, owner, madeFor, calls, adds, call, mine,
                 answer, raced>>

removeClientSocketMutex(t) ==
  /\ at(t, "eraseMutex")
  /\ mutex' = [mutex EXCEPT ![id(t)] = 0]
  /\ mapOwner' = NoThread
  /\ go(t, "leave")
  /\ UNCHANGED <<fromSocket, toSocket, owner, madeFor, calls, adds, call, mine, answer,
                 raced>>

\* The lock_guard unlocks when the call returns.
leave(t) ==
  /\ at(t, "leave")
  /\ owner' = [k \in Mutexes |-> IF k = mine[t] THEN NoThread ELSE owner[k]]
  /\ endCall(t)
  /\ UNCHANGED <<fromSocket, toSocket, mutex, mapOwner, madeFor, calls, adds>>

\* What ClientSession's registry, where a call is one step, would answer.
Atomically(t) == op(t) \in Lookups /\ mutex[id(t)] # 0 /\ Registered(t)

\* Does t, by adding, fill an entry of client i?
Fills(t, i) == at(t, "adding") /\ id(t) = i

\* The histories: what that answer was at any time since the call began, and the two
\* ways in which an add meets half a removal.
watch(t) ==
  /\ seen' = [u \in Threads |->
               CASE op(u)' \notin Lookups -> {}
                 [] op(u) \notin Lookups /\ op(u)' \in Lookups -> {Atomically(u)'}
                 [] OTHER -> seen[u] \cup {Atomically(u)'}]
  /\ lost' = lost \cup {i \in Ids : /\ Fills(t, i)
                                    /\ \E u \in Threads : /\ pc[u] \in {"mapAgain", "eraseMutex"}
                                                         /\ id(u) = i}
  /\ filled' = [u \in Threads |->
                 /\ op(u)' \in Lookups
                 /\ filled[u] \/ (Fills(t, id(u)) /\ mutex'[id(u)] = 0)]

step(t) ==
  \/ begin(t) \/ lockMap(t) \/ add(t) \/ getClientSocketMutex(t) \/ lockMutex(t)
  \/ find(t) \/ eraseEntry(t) \/ lockMapAgain(t) \/ removeClientSocketMutex(t) \/ leave(t)

terminated ==
  /\ calls = MaxCalls
  /\ \A t \in Threads : at(t, "idle")
  /\ UNCHANGED vars

Next == (\E t \in Threads : step(t) /\ watch(t)) \/ terminated

Spec == Init /\ [][Next]_vars

-----------------------------------------------------------------------------
(* Properties.                                                             *)

Places == {"idle", "map", "adding", "lookup", "lock", "inside", "mapAgain", "eraseMutex",
           "leave"}

\* The types, and that no thread waits for a mutex it was not given.
TypeOK ==
  /\ fromSocket \subseteq Ids /\ toSocket \subseteq Ids
  /\ mutex \in [Ids -> 0 .. MaxCalls]
  /\ mapOwner \in Threads \cup {NoThread}
  /\ owner \in [Mutexes -> Threads \cup {NoThread}]
  /\ madeFor \in [Mutexes -> Ids \cup {NoId}]
  /\ calls \in 0 .. MaxCalls /\ adds \in 0 .. calls
  /\ pc \in [Threads -> Places]
  /\ call \in [Threads -> Calls \cup {NoCall}]
  /\ mine \in [Threads -> 0 .. MaxCalls]
  /\ answer \in [Threads -> BOOLEAN]
  /\ raced \in [Threads -> BOOLEAN]
  /\ seen \in [Threads -> SUBSET BOOLEAN]
  /\ lost \subseteq Ids
  /\ filled \in [Threads -> BOOLEAN]
  /\ \A t \in Threads : at(t, "lock") => mine[t] # 0

Waits(t) ==
  \/ pc[t] \in {"map", "mapAgain"} /\ mapOwner # NoThread
  \/ at(t, "lock") /\ owner[mine[t]] # NoThread

\* No set of callers waits for each other, although a removal takes the map's mutex
\* while it holds a client's (Server.cpp:511-526): whoever holds the map's mutex
\* never waits, since getClientSocketMutex returns before the client's is locked.
NoDeadlock ==
  (\A t \in Threads : at(t, "idle") \/ Waits(t)) => \A t \in Threads : at(t, "idle")

Inside(t, i) == pc[t] \in {"inside", "mapAgain", "eraseMutex"} /\ id(t) = i

\* Has client i had one mutex object all the time?
OneMutex(i) ==
  \A k, l \in Mutexes : madeFor[k] = i /\ madeFor[l] = i => k = l

\* At most one thread works on the entry of a client under its mutex, as long as no
\* second mutex was made for it: then the two do not exclude each other, since a
\* caller may still hold, or wait for, the erased one (Server.cpp:514, 558-565).
Exclusion ==
  \A i \in Ids : OneMutex(i) =>
    \A t, u \in Threads : Inside(t, i) /\ Inside(u, i) => t = u

\* "Whenever a FROM socket added, a mutex is added to the map." (Server.hpp:39): an
\* entry without one is unknown to every call and never removed.  However often an id
\* is added, and however many removals of it overlap, there is one way to such an entry:
\* an add between the two halves of a removal, whose second half then erases the mutex
\* of the new entry (Server.cpp:524-526).
EntryIsReachable == \A i \in Ids : Present(i) /\ i \notin lost => mutex[i] # 0

\* What a lookup answers was true at some moment of the call, so that a call can be
\* taken for one step: although the mutex it locks may be one that was erased in the
\* meantime, and the entry another one.  There are two exceptions.  A lookup that
\* overlaps a write to the map may miss; and one that holds an erased mutex may find a
\* TO socket that was added, during the call, to an entry without a mutex.
AnswersAreCurrent ==
  \A t \in Threads : at(t, "leave") /\ op(t) \in Lookups =>
    \/ answer[t] \in seen[t]
    \/ raced[t] /\ ~ answer[t]
    \/ filled[t] /\ answer[t]
=============================================================================
