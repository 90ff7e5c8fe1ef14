# WeDiscuss++ server: a TLA+ verification project

The repository is a chat server (C++, asio, SQLite) with a demo client. The server
is multi-threaded: one thread per incoming connection, one per authenticated client,
and three load balancers with their manager threads. Nothing in the tests drives two
of these threads against each other, so that is what this project models: which
thread may do what, in which order, and what stays true whatever the scheduler does.

Sources are named relative to `src/`. "Production" means the build without
`_MOCK_TESTING`, which is the one modelled.

## 1. The system

| Component | State | Operations | Talks to |
|---|---|---|---|
| Load balancer (three of them), `server/src/LoadBalancer.cpp` | `_workQueue`, `_managers`, `_isRunning` | `initManagers`, `pushWork`, `waitForWork` (own thread), `findBestManager`, `assignWork`, `stopAllThreads` | gets works from registration and handler threads, gives them to managers |
| Manager, `server/src/Manager.cpp` | `_processQueue`, `_shouldDoWork` | `addWork`, `getQueueSize`, `handleClient` (own thread), `stop` | calls `processWork` of its kind |
| Client registration, `Server.cpp:125-231` | `_tempClientID` | `registerClient`, `registerFromClientSocket`, one thread per connection | registry, user balancer |
| Socket registry, `Server.cpp:340-595` | `_clientSocketMap`, `_clientSocketMutexMap` | add FROM/TO socket, remove, is-registered, send, read | everybody |
| Client handler, `Server.cpp:233-323` | its client id | `handleClient`, one thread per authenticated client | registry, the three balancers |
| User manager, `UserManager.cpp` | static `_clientHandlerStarted`, two user lookup maps | `authUser`, `logoutUser`, `addUser`, five operations that only answer | registry, starts handler threads |
| Chatroom manager, `ChatroomManager.cpp` | `_chatroomMap` (never filled) | five operations that only answer | registry |
| Log manager, `LogManager.cpp` | none | `answerLogRequest` (answers nothing in production), `storeConnectLog` (empty) | registry |
| Server lifecycle, `Server.cpp:5-123`, `main.cpp` | acceptor, balancers, `_isRunning` | `startServer`, `listenForConnections`, `stopServer` (also from the destructor) | balancers, database |
| Database, `Database.cpp` | SQLite handles | open, close, one connection per manager | managers |
| Message codec, `shared_files/` | none | `MessageBuilder::build`, `serialize`, `MessageFactory::deserialize` | all of them |
| Demo client, `demo_client/demo.cpp` | two sockets, its id | CONNECT, AUTHENTICATE, requests | the server |

How a session goes. A client opens a connection and sends CONNECT; the registration
thread gives it a temporary id (-1, -2, ...), puts the connection into the registry as
the client's FROM socket and answers on it. The client opens a second connection and
sends AUTHENTICATE with that id; the registration thread registers it as the TO socket
and pushes the message to the user balancer. A user manager checks both sockets, starts
the handler thread, records that in `_clientHandlerStarted` and answers AUTH_RESPONSE on
the TO socket. The handler reads requests from the FROM socket and pushes them to the
balancers; managers answer on the TO socket. The session ends when the handler cannot
read any more, when a LOGOUT is processed, or when an AUTHENTICATE is refused: each
removes both sockets and the client's mutex from the registry.

What is hard here: all threads are detached; the registry is two maps under two kinds
of locks; `_clientHandlerStarted` and `_tempClientID` have no lock; the balancer passes
works on with no lock held; queue sizes are sampled one at a time; nothing waits for
anything at shutdown. `PROJECT.json` lists each such hazard at its line.

## 2. The modules

| Module | Models | Depends on |
|---|---|---|
| `LoadBalancer` | one balancer, its queue and its managers' queues, start and stop | |
| `WorkDispatch` | what the balancer promises to those who push works, without queues | |
| `ClientSession` | clients, registration threads, registry, user managers, handler threads | uses a work queue that promises what `WorkDispatch` does, and a registry whose calls are single steps, which `SocketRegistry` justifies |
| `SocketRegistry` | the registry's two maps, lock by lock | |
| `RequestRouting` | one authenticated client's requests: routing by type, the three kinds of manager, replies written in two parts | uses three work queues of the same kind |
| `ServerLifecycle` | main, the server thread, the three balancers, the acceptor and the database through start, stop and destruction | |
| `MessageCodec` | a message from its builder over the wire to its receiver | |
| `LoadBalancerProofs`, `SocketRegistryProofs`, `ClientSessionProofs`, `RequestRoutingProofs`, `ServerLifecycleProofs`, `MessageCodecProofs` | theorems about the module they are named after | that module, `TLAPS` |
| `ClientIdProofs` | theorems about `ClientSession`: replies, temporary ids, what becomes of a CONNECT | `ClientSessionProofs` |
| `ClientHandlerProofs` | theorems about `ClientSession`: handler threads and what they leave | `ClientIdProofs` |
| `MCClientSession`, `MCSocketRegistry`, `MCMessageCodec` | symmetry sets and constants of TLC runs (the other modules are run as they are) | the module they are named after |

How they fit together. The queue between the threads that push works and the managers
is `LoadBalancer`'s business; `ClientSession` and `RequestRouting` keep a set of works
in its place, which is all `WorkDispatch` promises, and `LoadBalancer` is proved to
implement `WorkDispatch`. The locks of the registry are `SocketRegistry`'s business;
`ClientSession` makes each call one step, or two where another thread really gets in
between. `SocketRegistry!AnswersAreCurrent`, which is proved, says how far that is sound:
what a lookup answers was so at some moment of the call, with the two exceptions it names.
`ClientSession` leaves out the first, lookups that miss because another thread is writing to
the map; the second, an entry without a mutex that is added to, it has as a state of its own.
`ServerLifecycle` keeps of each balancer only its flag, its
map and its thread, and `MessageCodec` stands for what the others take for one record.

### LoadBalancer

Every variable names the field it models. Each C++ statement that another thread can
observe is a step: the test of a `while` condition, the locked pop, one turn of the
loop of `findBestManager` (it calls `getQueueSize`, which locks one manager), the
assignment, each `stop()`, and the clearing of the maps. A work is a number: its
position in the order of the `pushWork` calls. That makes "in order" and "exactly once"
statements about numbers.

`stopAllThreads` holds no lock and waits for no thread (`addManager` detached every
thread it would join), so a scan may still run when `_managers` is cleared. That is
undefined behaviour in the code; `findBestManager` then sees any manager it has not
seen, or none. The same goes for `_isRunning`, a plain `bool`: the model reads the value
written last. `terminated` is the only step of a server in which every thread has ended.

`WorkDispatch` has no queue and no scan: a manager starts any waiting work that is newer
than those it has done. `LoadBalancer!ImplementsDispatch` maps the two queues and the
hand of the balancer to `waiting`.

### ClientSession

Threads are program counters: `reg[c]` for the registration thread of connection `c`,
`mgr[m]` for a user manager, `hpc[h]` for a handler thread. One step is one registry
call (each takes and drops the client's mutex), one access to an unprotected static, or
one message sent. Three calls are split because other threads really get in between:
`--_tempClientID` into load and store, `getClientSocketIP` into finding the mutex and
dereferencing the socket, and `removeClientSocket` into erasing the entry and erasing
the mutex. The last holds the client's mutex all the while, so `Lockable` keeps every
caller of that client's mutex out between the halves; an add takes another lock and does
get in, and so does whoever only looks the mutex up. A thread that waits for a mutex that
is then erased goes on with it as it would before the removal or after.

The ids are `1 .. MaxId` (the code's are negative) and wrap at the end as a 32-bit
integer does on the machines the server is built for, so an id can be given while somebody
has it, for that reason or because two threads decremented at once. The model follows what
the code does then: the second `addFromClientSocket` fails, no answer can be built and the
connection is closed; or, if the first holder is being removed, the second half of its
removal takes the new holder's mutex away, its confirmation cannot be sent and the failure
without a size is written instead.

A request is about the client its message names. `handleClient` pushes the message as it
came, the managers act on its own id (`UserManager.cpp:119,134`), and nobody compares that
with the connection: with `ForeignNames`, any client's LOGOUT may name any other.

`sock` and `peer` are the two ends of a connection. A write succeeds when both are
open; when the client has gone the write may or may not fail (TCP buffers it); when the
server closed the socket it fails. A read from a socket another thread closed may
return an error or hang until the client goes (`readAborted`): asio promises neither.

Clients are the environment. They do what the demo client and the tests do, and, within
the limits of the constants, more: `Claims` are the ids they put into CONNECT (0: one that
nobody holds, such as the demo's 42; the tests reuse an id they were given), `Retry` says
when they authenticate again, `StaleIds` are ids from an earlier server, `EagerRequests`
whether they send requests before the AUTH_RESPONSE (the demo waits for it and for another
2.5 seconds), `ForeignNames` whether these may name others.

### SocketRegistry

Two maps and two kinds of lock. An add runs under the map's mutex
(`_clientSocketMutexMapMutex`); every other call takes that mutex to find the client's
(`getClientSocketMutex`), drops it, locks the client's and looks at the entry; a removal
takes the map's mutex once more, by then holding the client's. A mutex object is named
by the number of the add that made it, so that a thread can hold one that is no longer
in the map.

Nothing is asked of the callers: any thread makes any call for any id, as often as it
likes, since registration does not keep an id from being given twice, claimed or
authenticated again. `_clientSocketMap` is written by adds under the map's mutex and by
removals under the removed client's, and read under each client's own: any access that
overlaps a write by another thread (`Writing`, `Disturbed`) finds what is there or misses
it (`Finds`), be it a lookup, an add, which then replaces the entry, or a removal, which
then leaves through its `catch` with its locks released. `watch` adds the history variables:
`seen`, what was true of the client since the call began; `lost`, the ids that were added
between the two halves of their removal; `filled`, whether the client of a lookup had an
entry without a mutex that was added to. `raced` remembers that a lookup overlapped a write.

### RequestRouting

This module keeps what `ClientSession` abstracts, and abstracts what it keeps. The
client is authenticated; of the registry only "is it in, with open sockets" is left. In
return every type of request is there, the handler's `switch` sends it to one of three
queues (`route`), and a reply is no longer one step: `findSocket` is the part of
`sendMessageToClient` that runs under the client's mutex, `writeSize` and `writeBody`
are the two `asio::write` calls that run after it was dropped. `stream` is what the
TO socket carries, part by part.

Others write to that socket too, and others' messages name this client. So a message has
an origin (`via`): `"own"` comes on this client's connection and names it; `"away"` comes
on it and names somebody else, who is answered; `"other"` comes on another client's and
names this one, a LOGOUT included (`routeOther`); `"first"` is the message another connection
began with, whose refusal its registration thread (`Registrars`) sends to the client it
names (`Server.cpp:148-154`, `170-181`).

`giveUp` is the failure of a send: only `logoutUser` looks at it, and it sends a failure
once more before it removes the client. `afterAnswer` is what follows a send. Chatroom
operations and five of the user operations do nothing but answer; a log request is
taken and nothing is answered, which is what the production build does. `readAborted`, the
handler's read after another thread has closed the socket, is possible and not fair.

A client may send its next request before the last one was answered: the routing test
waits (`routing_test.cpp:178-202`), the demo client does not (`demo.cpp:78-87`), and the
framing of the replies depends on it. `waits` says which client this is.

### ServerLifecycle

Four kinds of thread share the server object: `main` (Enter, `stopServer`, join, then
the destructor with a second `stopServer`, then the members), the server thread
(`startServer` and `listenForConnections`, statement by statement), the detached
balancers and managers, and the acceptor with its registration threads. `main` may stop
the server at any moment of `startServer`.

Where the two meet, the code is taken apart. `addManager` is three steps: the manager is
put into its map, its thread is made (from then on it can be joined), the thread is
detached; a stop may come between any two. `stopAllThreads` is its loops: `tellManagers`
stops the managers in the map, `findJoinable`, `joinManager` and `managerJoined` look for a
thread that can be joined, join it and wait for its end, `clearManagers` empties the maps.
A manager added after `tellManagers` was never told; a join of a thread that is detached
between the look and the call throws in main, and clearing the map of a thread that can
still be joined terminates: both end the process (`"aborted"`). A detach of a thread that
main has joined throws in `startServer`, and the server thread ends there.

A balancer that does not exist yet is not stopped (the code tests the pointer); a map that
is being filled while it is read may be read in part, and `torn` holds such balancers, from the
look for the managers until the map is cleared. A loop over the threads may likewise miss one
that is under way (`"missed"`). Only misses are modelled: what else reading a map that is
being written may do, a crash included, is not. Every use of the server object after its
destruction, or of a balancer before its creation, is collected in `wrong`. A blocked
`accept` may return a connection even after the acceptor was closed.

### MessageCodec

A buffer is a sequence of cells; an int is one, a string its length and its characters,
a list its length and its elements, and nothing says which is which. What a class writes
(`UserWritten`, ...) and what it reads (`UserRead`, ...) are separate lists, since they
are separate functions in the code, and the factory picks the reader by the type
(`ReadAs`): LOGOUT is written as an `AuthMessage` and read as a `UserMessage`. The
builder keeps its fields from one `build` to the next, and `Copied` says which of them
each build function takes over. An AUTH_RESPONSE nests messages that were built before.

The code's `serialize` functions call each other for nested messages, and so do its
`deserialize` functions. Here one step is one cell. A place is a field of one of the objects
(the message, and the messages, chatrooms and users in it), the length of the list in a field,
or an element of it; `todo` is what the calls on the stack have still to come to, the
innermost call's first. `writeObject` and `readObject` put the fields of the class in front,
`writeCount` and `readCount` the elements of the list, and the value of a place is a cell of
its own (`writeValue`, `readValue`; a string's size and its characters are both done by
`serializeString`). So both functions run to any depth of nesting without recursion. The reader
fills `objects` and `memory` from cells only; nothing of the writer's is visible to it. `left`
is a history variable: what the writer had still to do before each cell.

One message is on its way at a time: frames that mix are the business of `RequestRouting`.
A map from ids to names is the list of its entries, each id once, so no entry that is read
replaces another. A bool is read with `== 1` by some classes and as "not 0" by others, which
is the same for the 0 and 1 that are written. Past the end of its buffer the reader may find
anything (`cells`); `InStep` is what keeps it from getting there.

## 3. The runs

| Run | Asks | Result |
|---|---|---|
| `balancer` | Are works lost, doubled, reordered or dropped early; are queues shared fairly? Is every work served, does a stop end every manager, is the abstract dispatch implemented? | holds |
| `session` | Any ids claimed, authenticated, repeated and logged out by anybody at any time, under a torn `--_tempClientID` and ids that wrap: do entries keep their sockets, open and owned; has each id one open holder; do replies reach whom they are about; is every CONNECT settled; what does a null socket take, and what is left of an undisturbed session? | holds |
| `session_liveness` | Is an AUTHENTICATE answered, are gone and logged-out clients removed? | holds |
| `session_twice` | Two AUTHENTICATEs of one client at once: one handler? | violated: finding |
| `session_orphan` | An AUTHENTICATE during a LOGOUT: client removed? | violated: finding |
| `session_null` | A LOGOUT by another client while the handler of this one starts: no null dereference? | violated: finding |
| `routing` | Messages of this client and others, with and without waiting: whole frames to those who wait and are left alone, no double answer, no undeserved failure, no hang-up, and an answer to each | holds |
| `routing_frames` | Whole frames to a client that does not wait? | violated: finding |
| `registry` | Do the two locks deadlock, exclude, and lead to every entry; is every answer one that was so during the call? | holds |
| `lifecycle` | Enter at any moment of the start: what is stopped, for whom does main wait, does the process end? | holds |
| `lifecycle_destroyed` | Does nothing use the server once main has destroyed it? | violated: finding |
| `codec` | Does every message arrive as it was set, does the reader take every cell for what the writer meant, is only an oversized frame refused? | holds |

The findings, with the lines of the code and what they disagree with, are in
`PROJECT.json`. The runs that find them are the smallest instances that show them. More
disagreements are part of the models and of the properties that hold, without a run of
their own; each is the exception such a property names:

- Two connections are given the same id when their threads decrement `_tempClientID` at
  once, and the second, which did nothing wrong, is hung up on without an answer
  (`Server.cpp:191`, `475-476`), though `Server.hpp:33` describes ids that are decremented
  and wrap. `LiveIdsAreUnique` says what is left: of those who were *told* the id, one is
  open; `ConnectIsSettled` that the other is closed, and does not wait for ever.
- A CONNECT that claims an id somebody holds is answered to the holder, on its TO
  socket, or to nobody, and the new connection is closed unanswered (`Server.cpp:148-154`),
  while `routing_test.cpp:106-108` reads the answer to a CONNECT on the connection it was
  sent on. `RepliesAreAddressed` has this as its one exception, and `FramesAreWholeInTurn`
  leaves out the clients it hits.
- A client that leaves without LOGOUT is removed by its handler, which does not erase its
  id from `_clientHandlerStarted` (`Server.cpp:318`, `UserManager.cpp:80`). Whoever is given
  that id later authenticates, gets neither a handler nor an answer, and waits.
  `EndedSessionIsUnregistered` speaks of sockets and mutexes only, for that reason.
- A LOGOUT, and any other request, acts on the client it names, whoever sent it. The
  properties of a session (`SessionSurvives`, `NullOnlyIfMisused`,
  `EndedSessionIsUnregistered`) name that as a way it ends; `session_null` is what it may do to a
  session that is just starting.
- Enter during `startServer` may meet a manager's thread before it is detached: main joins
  it although its manager was never told to stop, and waits for ever
  (`LoadBalancer.cpp:12-21`, `88-91`). `ProcessEndsOrJoinsUntold` states that this is the
  only way in which the process does not end.
- A stop that comes before the balancer's thread has entered `waitForWork` is undone
  there (`LoadBalancer.cpp:54`): the thread polls until main destroys the balancer, which
  is one of the behaviours behind `lifecycle_destroyed`. For that reason the balancers'
  flags are not part of `Stopped`.
- The same happens to the acceptor (`Server.cpp:97`): after an early stop
  `listenForConnections` sets `_isRunning` again and its loop spins on a closed acceptor
  until the destructor's second stop. `SecondStopIsComplete` is stated for that.

### What the properties are about

The exceptions in a property are the code's, not the model's. `Exclusion` speaks of
clients that have had one mutex, because a second one excludes nobody who still holds the
first. `EntryIsReachable` leaves out the ids that were added between the two halves of a
removal, which then erases the new entry's mutex (`session_orphan` shows what follows).
`AnswersAreCurrent` lets a lookup miss while another thread writes to the map, and find a
TO socket that was added to an entry without a mutex. `OpenAreOwned` counts an entry nobody
can reach any more as an owner: it says that sockets are not lost, not that they are closed.
`ConnectIsSettled` counts the failure without a size as an answer. `SecondStopIsComplete`
leaves out the managers of a map that was being filled while the first stop went through it:
they run until the process exits. `FramesAreWholeInTurn` speaks of clients that wait for
their answers and are named by nobody else; `FramesAreWhole`, which does not, is violated.
`AuthenticateIsAnswered` speaks of clients whose two connections stay and that authenticate
an id they were told, once. `LogoutRemoves` starts where a manager has read the LOGOUT.
`ManagersStop` speaks of a stop after the balancer's start, and of managers whose work
returns. `ArrivesAsSet` compares the fields the receivers of a type look at (`Expected`)
with what the builder holds when `build` is called, values left over from an earlier message
included: AUTH_RESPONSE carries neither contents nor a sender, `fromChatroom` is
never written by any class, and the `messages` of a log request are never set by the
builder.

### Bounds

- `Managers`: the server starts two managers of each kind (`Server.hpp:48-50`), and so do
  the runs wherever two of a kind can meet.
- `MaxWorks` = 4: a manager can be at its second work with a third in its queue, queues
  of different lengths are compared while they drain, and a work can be in every place at
  once. The proofs remove both bounds for all safety properties.
- `Conns` and `MaxConnects`: three connections are a client's FROM and TO and one more,
  which may be a third holder, authenticate the same id again or another one, or claim
  one. `session_null` has four, the connections of two clients.
- `MaxId` = 2 with up to three CONNECTs in `session`: the third id is the first one again,
  and a torn decrement gives one of them twice at once. One of the ids is stale, one is
  claimed. `session_liveness` has one id, which one client is given.
- `MaxHandlers` caps the handler threads that get spawned; two are enough for two
  handlers of one client. `spawnHandler` is disabled beyond it, so in the run under
  fairness it is at least the number of handlers the run's clients can cause.
- `Requests`: `session` has the LOGOUT, which is what changes the registry, sent at any time
  and for any client; `session_liveness` also a request that is only answered, since that
  answer may be in the way.
- `MaxRequests` = 2 and `MaxStrays` = 2 in `routing`: two messages, each of five kinds and
  of any of the four origins, at two user managers, one of each other kind, the handler and a
  registration thread. `FramesAreWhole` breaks with two.
- `MaxCalls` = 5 with three threads and two ids: an entry is made, extended, removed and
  made again while a fifth call waits for the mutex it found first.
- `lifecycle` has two managers in one balancer and none in the others, so that a map can be
  read half filled; `lifecycle_destroyed` has one in each.
- `MaxSets` = 2, `MaxBuilt` = 2, `MaxList` = 2, `MaxRooms` = 1, `MaxSize` = 20 cells: the second
  message still has fields of the first, may hold it twice in its inbox or in a chatroom, and
  is then larger than the limit. One type stands for each class, and one for those that
  `build` refuses. The proofs remove all of these.
- Symmetry is used in runs that check safety only.

### Fairness

`Spec` has none; safety runs use it, but for `routing`, which checks both. `FairSpec`
assumes weak fairness of each server thread: they are `std::thread`s the operating system
schedules, their loops poll instead of waiting (`LoadBalancer.cpp:57-64`,
`Manager.cpp:10-16`), and every lock is held for a few instructions; that the locks close
no cycle is `NoDeadlock`. `stopAllThreads` is fair once begun; beginning it is the
operator's choice. `ServerLifecycle` assumes fairness of the main thread, the server
thread and the managers' threads, which main may join.

One thing is assumed of clients: that a write to them returns. `sendMessageToSocket` uses
a blocking `asio::write` without a timeout (`Server.cpp:331-332`), so a manager that
answers a client which neither reads nor goes stays there as long as the client does, once
the buffers of the connection are full, and the works behind it wait. `Served` and
`ManagersStop` take `processWork` for something that returns, and the liveness properties
of the sessions take a write for one step. Otherwise clients owe nothing: they may stop
sending, or go, at any step. `readAborted` is not fair, because a blocking read on a
socket that another thread closes need not return. Deadlock is checked in every run but
`codec`, whose sender may have nothing more to send.

## 4. The proofs

The proof modules rest on the named assumptions of the module they are about: that null
values are not real ones, that there is a manager and that there are finitely many
(`FinitelyManyManagers`: `initManagers` is given their number, `LoadBalancer.cpp:4`), that
bounds are natural numbers, that no manager serves two balancers, that the types, texts and
numbers of messages are enumerators, strings and integers (`CodecAssumption`). The bounds
themselves are arbitrary. Two theorems about `ClientSession` have a hypothesis of their own,
about what clients do; no passing run checks their properties, and both say what can be had
beyond the theorems that need none:

- `RepliesReachTheirClientAlways` has `Claims \subseteq {0}`: no client puts an id into its
  CONNECT. The demo client does not.
- `OneHandlerPerClientAlways` has `Orderly`: each id is authenticated once (`Retry = "never"`),
  or again by a client that was answered (`Retry = "answered"`), and then without a LOGOUT and
  with ids of an earlier start of the server that are not given again. This cannot be left
  out. `session_twice` shows a second handler when a client repeats an AUTHENTICATE that was
  not answered. With a LOGOUT there is one even if clients wait for the answer: a manager has
  found both sockets for the repeated AUTHENTICATE, another manager's LOGOUT takes the id from
  `_clientHandlerStarted` and removes the entry, and the first spawns. Ids need not be unique
  here: a torn decrement, or one that wraps, gives an id twice, and the client still has one
  handler.

| Module | Theorem | Says |
|---|---|---|
| `LoadBalancerProofs` | `Correctness`, `TypeOKAlways` | the inductive invariant, the types |
| | `NoneLostAlways`, `NoneTwiceAlways`, `ServedInOrderAlways` | no work disappears, is given twice, or overtakes another at its manager |
| | `DropsOnlyWhenStopped` | a drop needs a stop before it |
| | `Refinement` | the balancer implements `WorkDispatch` |
| | `FairShareAlways` | no manager has more than its share of works waiting |
| `SocketRegistryProofs` | `NoDeadlockAlways` | never do all callers wait |
| | `ExclusionAlways`, `EntryIsReachableAlways` | one mutex excludes, and is found |
| | `AnswersAreCurrentAlways` | a lookup answers what was so during the call, unless it missed during a write or its client's entry had no mutex and was added to |
| `ClientSessionProofs` | `RegisteredAreOpenAlways`, `OpenAreOwnedAlways` | sockets neither dangle nor are lost |
| | `SocketsAreNotReplacedAlways` | no connection takes over another's place (an action property) |
| `ClientIdProofs` | `RepliesAreAddressedAlways` | every message is about its connection's client, but the refusal of a CONNECT, which goes to the client whose id was claimed |
| | `RepliesReachTheirClientAlways` | without claimed ids, every message without exception |
| | `LiveIdsAreUniqueAlways` | of the connections that were told one id, one is open |
| | `ConnectIsSettledAlways` | when its registration thread is done, a CONNECT was answered, or its client is gone, or its connection closed |
| | `GivenInvariance` | no id is beyond the number of those given, torn or not |
| `ClientHandlerProofs` | `WorkInvariance` | an AUTHENTICATE is one work of its connection at most; every other work was read by a handler of the client on whose connection it came, whomever it names |
| | `HandlerInvariance` | a client that authenticated on one connection has one handler, and keeps its sockets until the handler has its address if no LOGOUT names it |
| | `NullOnlyIfMisusedAlways` | a null socket is dereferenced only for a client that authenticated on two connections or that a LOGOUT names |
| | `EndedSessionIsUnregisteredAlways` | a client with its id to itself, on one connection and not logged out, is not in the registry once its handler is done |
| | `OneHandlerPerClientAlways` | if `Orderly`: one handler for a client |
| `RequestRoutingProofs` | `Invariance`, `TypeOKAlways` | the inductive invariant, the types |
| | `FramesAreWholeInTurnAlways` | a client that awaits its answers, and that no message of others names, reads whole frames |
| | `AnsweredOnceAlways`, `OnlyMisplacedFailAlways` | no request is answered twice, and only misplaced ones with a failure |
| | `SessionSurvivesAlways` | a session ends only when the client leaves or a LOGOUT names it |
| `ServerLifecycleProofs` | `NoNullBalancerAlways` | no work for a balancer that was not made |
| | `LateStopIsCompleteAlways`, `LateStopDoesNotWaitAlways` | what a stop after the start leaves (nothing), and for whom it waits (nobody) |
| | `SecondStopIsCompleteAlways` | however early the first stop was, the destructor's leaves no manager but those of a map that was filled while the first read it |
| `MessageCodecProofs` | `CodecInvariance`, `TypeOKAlways` | the inductive invariant, the types |
| | `InStepAlways` | the reader takes every cell for what the writer meant by it |
| | `ArrivesAsSetAlways` | what was set on the builder is what the receiver reads, however it is nested |
| | `OnlyOversizeIsRefusedAlways` | no reader throws at a message that was built |

`SocketRegistryProofs`, `ClientSessionProofs` and `ServerLifecycleProofs` also have
`TypeOKAlways`. None of the invariants is inductive as it stands; each module defines a
strengthening and has one lemma per action.

`LoadBalancer`. Popping a work could put it before one already at a manager, as far as
`NoneTwice` and `ServedInOrder` can tell. `Inv` adds `Positions`, what each thread's place
says of the state (a work is in hand exactly during a scan, a scan that has looked at a
manager has chosen one, `_managers` is complete from the balancer's start to the stop),
and `PoppedInOrder` (`_workQueue` holds the newest works without a gap, the work in hand is
the last one popped, everything dispatched or dropped is older). `MovingSteps` says that
only five steps move a work; `PushLemma` and `PopLemma` carry the reasoning about
sequences. In the refinement, `takeProcessWork` is `Start` because `ServedInOrder` makes the
work newer than those done, `clearManagers` is `Stop`, and a drop is `Lose` because by
`Positions` the map is empty only after the stop.

Fair share. The queue sizes are sampled one by one while the managers pop, so a sample says
nothing of a queue's length later. It does say something of the works the manager has had,
waiting, in work and done, which never become fewer: `SampledInv` keeps that every manager
looked at has had at least `minQueueSize` works, and that the chosen one's queue is no longer
than `minQueueSize`. When the scan has seen all managers, as `Positions` says it must have, each
has had as many works as the chosen one has waiting. The works of different managers are
different (`NoneTwice`), so that many times the number of managers were pushed before the one
in hand; `DisjointPartsBound` is that count, by an injection of pairs into the works.

`SocketRegistry`. `IInv` says that the map's mutex and a client's are held exactly where the
code holds them (`MapMutexInv`, `ClientMutexInv`), that a thread works with a mutex it was
given (`MineInv`) and that was made, by one add, for the id it asked for (`MadeInv`,
`NameInv`), that a call is where its operation takes it (`CallInv`), and that the entry is
gone between the two halves of a removal unless it was added there (`GoneInv`). No deadlock
follows: whoever holds the map's mutex is at a place that does not wait. For
`AnswersAreCurrent`, `JInv` adds that the history holds what is so now (`SeenInv`), and that a
socket found under an erased mutex was there before, or was added to an entry that had no
mutex (`ReadInv`). The steps of other threads, erasures of other ids among them, are allowed
to make a lookup miss, which `raced` records.

`ClientSession`. `IInv` adds that a socket is nobody else's until its registration thread
registers it, and is in one entry at most (`OwnerInv`), and that threads carry the ids and
messages their places need (`RegistrationInv`, `ThreadInv`). Only two steps fill a place and
two erase an entry (`EraseKeeps`); `EndRegKeeps` is the end of a registration thread.

Replies and ids. `EntryInv` says that a FROM socket in the registry is under the id its
connection was given, a TO socket under the id it authenticated; `FirstInv`, that a
registration thread goes where its first message sends it. So whoever finds a socket by an id
writes to that id's client. The exception is the reply to a CONNECT that names an id already
registered: it goes to the sockets of that id, and the proof shows it is the only one.
Ids are given twice, so `LiveIdsAreUnique` cannot count on `_tempClientID`: it follows from the
registry. `HolderInv` says that a connection that was told an id and is open is the FROM socket
of that id, of which there is one; `ToldStep` that only a thread that finds its own socket there
tells it, `SocketStep` that the entry loses its socket only when that closes. `ConcludedInv`
follows a CONNECT in the same way: a thread about to confirm finds its own socket, or it was
removed in between and is closed, or only its mutex was, and then the failure is written.
`GivenInv` is a bound: `_tempClientID` and every id given are at most the number of threads that
have one, so that ids above `MaxConnects` are never given.

Handlers. `WorkInv` follows the works: which manager's places an operation visits (`PlaceInv`),
that a connection's AUTHENTICATE is one work, with the balancer or with one manager
(`TokenInv`), that a handler reads the FROM socket of its client (`ReadInv`), and that what it
pushes was sent on that connection (`RouteInv`). Of whom the work is about nothing is said, for
the code compares nothing. `SpawnInv` is about an id that is authenticated on one connection
(not `Again`): that a second handler does not start cannot follow from `_clientHandlerStarted`,
which is checked in one step and set, after the thread was spawned, in another; it follows from
there being one AUTHENTICATE, and that is with the manager that spawned, or done. `FullInv`
keeps the sockets the manager has found until the handler has read the address of its client,
if no LOGOUT names that client (not `Misused`); this is `NullOnlyIfMisused`. For what is left of
a client, `EndInv` says, of an id nobody else was given (not `Shared`), that its entry is wholly
there or gone, that its mutex outlives the entry only between the two halves of a removal
(`Clean`, `Remover`), and that no registration thread fills the entry again.

One handler for clients that repeat an AUTHENTICATE after the answer needs another argument:
`Settled` names the ids that can bring no handler any more, because they are in
`_clientHandlerStarted` or were not given by this server; only these are authenticated again
(`OnceInv`). `AnswerInv` says that whoever was answered has a settled id (`AnsweredInv`): up to
then both sockets and the mutex are found (`ShelterInv`), so no manager refuses (`VerdictInv`).
`UniqueInv` then has one handler, and no manager about to spawn for a settled id.

`RequestRouting`. `ServesInv` says which thread serves requests of which type and which of the
four origins; `OwnInv`, that no two write the answer to one request and none of one that still
waits; `AnsweredInv`, that an answered request is with nobody: so none is answered twice. Frames
are whole by `InTurn` (a client that waits, and that no message of others names, has only its
last request with anybody, so that neither another manager nor a registration thread writes),
and `OpenFrame`, the stream ends with a size exactly while that request's body is being written.
`EndInv` says that a send fails, and the handler stops reading, only where nothing can be
delivered any more.

`ServerLifecycle`. `IInv` records that a connection comes after all three balancers
(`CreatedInv`), where a round of the stop may be (`RoundInv`, `StageInv`), that a late or second
stop finds the server thread gone (`QuietInv`) and so no thread to join (`ThreadInv`), what each
step of it has cleared and that it stays so (`FlagInv`, `MapsInv`, `ClosedInv`), that a manager
not told to stop is in a map, or in one that was filled while it was being stopped (`KeptInv`,
`ToldInv`), and that only an early stop meets such a map (`TornInv`).

`MessageCodec`. That a reader undoes a writer would be an induction over the nesting of messages,
which is out of reach here; the invariant makes it one over the cells. `Wrote(n)` is the whole of
the writer: cell n is what the first place left before it holds, and what was left behind it is
that place's fields or elements in front of the rest. Cells once written keep it, since objects
that are come to later change nothing at the places of earlier ones (`PlacesStay`). `Reads` is the
reader: at every offset it has left what the writer had, it has come to as many objects, each
reads the fields that were written of it, and every place of these objects was read right, or is
still to come, or is in a list whose length is. So the next cell is the one that was written for
the first place (`NextCell`), nothing is thrown, and the step behind it is the writer's
(`ReaderKeepsReads`). What the code must get right for this is in four lemmas about its tables:
`LayoutsAgree` (the class that is read for a type reads what the class that was built for it
writes), `FieldsAreKnown`, `MessagesAreSound` (what build copies and zeroes is well typed) and
`ExpectedIsSent` (every field the receivers look at is copied and written). A message that is read
to its end leaves no place to come, so all of them are right, which is `ArrivesAsSet`.

Types: those of `LoadBalancer` and `ServerLifecycle` are proved, for every value of the
constants, and no run repeats it; nor `Inv`, whose parts are properties of `balancer`
or proved.

Only model-checked: everything under fairness (`AuthenticateIsAnswered`, `GoneIsRemoved`,
`LogoutRemoves`, `Served`, `ManagersStop`, `RequestIsAnswered`, `ProcessEndsOrJoinsUntold`),
which this prover does not reach. Every safety property of a passing run is proved.

## 5. What is not modelled, and why

- A client that connects and leaves before it authenticates: its entry stays for ever
  (no handler thread, so nothing would remove it). `EndedSessionIsUnregistered` and
  `GoneIsRemoved` speak of clients that had a handler. The code makes no other promise.
- A write that blocks because the client does not read, see "Fairness".
- A stop before the balancer's thread was detached is in `ServerLifecycle`, not in
  `LoadBalancer`, which starts with its managers and thread in place.
- What a map that is read while it is written may do besides missing an element, a crash
  included. The same goes for `_clientHandlerStarted`, of which the model keeps the order of
  the accesses.
- A log request is not answered at all (`LogManager.cpp:76` calls empty functions), which
  the routing test would contradict outside the mock build: `RequestIsAnswered` excludes
  it by name.
- The signed overflow of `_tempClientID` is taken to wrap, which is what the comment in
  `Server.hpp:33` expects; a build may do otherwise.
- A thread that cannot be created (`std::thread` throws) and memory that runs out.
- The user lookup maps of `addUser` and `_chatroomMap`: nothing reads the first, nothing
  writes the second.
- SQL and the schema: no program logic reads the database. Its handle is in
  `ServerLifecycle`; that a schema which fails to load is ignored (`Database.hpp:17`) and that
  managers never close their own connections has no consequence yet.
- Whether fields left over in a `MessageBuilder` from an earlier message are meant to be sent:
  `ArrivesAsSet` takes them for set.
- Frames cut in the middle by a client that leaves: the reader ends the session, which
  `endOfStream` does too. Malformed frames are not sent by any client of the repository.
- The `_MOCK_TESTING` build, the graphical client stub, the demo server, asio and SQLite.
  The vendored libraries are nearly all of the repository's lines, so the share of lines
  that is modelled is small although the server's own code is covered almost entirely.

## 6. What is left

1. `ClientSession` takes a registry call for one step. `AnswersAreCurrent` says how far it
   may; a refinement of such a registry by `SocketRegistry` would say so in one theorem.
2. The user lookup maps and the chatrooms, once the program uses them.
3. The database operations of the managers, once there are any.
