---------------------------- MODULE ServerLifecycle ----------------------------
(***************************************************************************)
(* The life of the server object: main constructs it, starts it on a thread *)
(* of its own, stops it when Enter is pressed, joins that thread, and       *)
(* destroys the object, which stops it once more (main.cpp, Server.cpp:5-123*)
(* and Server.hpp:67, LoadBalancer.cpp:4-22 and 79-100, Database.cpp).      *)
(*                                                                         *)
(* Threads: main, the server thread, the acceptor, the three balancers,     *)
(* their managers, and a registration thread per connection.  All but the   *)
(* server thread are detached.  What balancers and managers do with works   *)
(* is in LoadBalancer, registration in ClientSession.                       *)
(*                                                                         *)
(* Enter may be pressed at any time, also while the server thread is still  *)
(* starting.  A stop that iterates over the managers of a balancer which the *)
(* server thread is filling is a data race: it may miss any of them.  Every *)
(* manager's thread can be joined for a moment, until it is detached: a stop *)
(* that meets it there waits for the manager.  The process ends when main   *)
(* returns, or aborts when a join or the clearing of the threads fails.     *)
(***************************************************************************)
EXTENDS Naturals

CONSTANTS ChatroomManagers, UserManagers, LogManagers,  \* the balancers' managers
          Conns                                         \* the connections clients open

ASSUME ManagersAssumption ==
  /\ ChatroomManagers \cap UserManagers = {}
  /\ LogManagers \cap (ChatroomManagers \cup UserManagers) = {}

Balancers == {"chatroom", "user", "log"}
Of == [chatroom |-> ChatroomManagers, user |-> UserManagers, log |-> LogManagers]
Managers == ChatroomManagers \cup UserManagers \cup LogManagers

VARIABLES
  main,          \* where the main thread is
  round,         \* the stopServer call it is in: 1, or 2 for the destructor's
  early,         \* did the first begin before the server thread was done
  server,        \* where the server thread is
  created,       \* the balancers that exist
  stage,         \* where main is in a balancer's stopAllThreads
  joining,       \* the manager whose thread main joins there
  managers,      \* _managers of every balancer
  shouldDoWork,  \* the managers with _shouldDoWork
  torn,          \* the balancers that were being filled during their stop
  thread,        \* _managerThreads: can a manager's thread be joined, or was it missed
  mgr,           \* where the managers and their threads are
  running,       \* the balancers with _isRunning
  balancer,      \* where the balancer threads are
  isRunning,     \* the server's _isRunning
  acceptorOpen,  \* is _connectionAcceptor open
  acceptor,      \* where the acceptor thread is
  conn,          \* where the registration threads are
  handle,        \* the server's database handle
  destroyed,     \* has the server object been destroyed
  wrong          \* what went wrong: a "null" or "destroyed" object was used

starting == <<server, created>>
stopping == <<main, round, early, stage, joining>>
maps == <<managers, shouldDoWork, torn, thread>>
workers == <<mgr, running, balancer>>
accepting == <<isRunning, acceptorOpen, acceptor, conn>>
object == <<handle, destroyed, wrong>>
vars == <<starting, stopping, maps, workers, accepting, object>>

\* Mutant: the server listens before it has created its balancers.
After_ListenFirst ==
  [start |-> "listen", listen |-> "run", run |-> "accept", accept |-> "create",
   create |-> "manage", manage |-> "detach", detach |-> "done"]

\* What the server thread does after what.
After ==
  [start |-> "create", create |-> "manage", manage |-> "detach", detach |-> "listen",
   listen |-> "run", run |-> "accept", accept |-> "done"]

\* The constructor binds and opens the database; a failure to set up its schema is
\* not looked at.
Init ==
  /\ main = "enter" /\ round = 1 /\ early = FALSE /\ stage = "tell" /\ joining = {}
  /\ server = After.start
  /\ created = {}
  /\ managers = [b \in Balancers |-> {}]
  /\ shouldDoWork = {} /\ torn = {}
  /\ thread = [m \in Managers |-> "none"]
  /\ mgr = [m \in Managers |-> "none"]
  /\ running = {}
  /\ balancer = [b \in Balancers |-> "none"]
  /\ isRunning = FALSE
  /\ acceptorOpen = TRUE
  /\ acceptor = "none"
  /\ conn = [c \in Conns |-> "none"]
  /\ handle = "open"
  /\ destroyed = FALSE
  /\ wrong = {}

-----------------------------------------------------------------------------
(* The server thread: startServer and listenForConnections.                *)

Alive == main \notin {"exited", "aborted"}

serverAt(where) == Alive /\ server = where
goOn(finished) == server' = IF finished THEN After[server] ELSE server

\* The balancers, one after the other.
createBalancer ==
  /\ serverAt("create")
  /\ created' = created \cup {IF "chatroom" \notin created THEN "chatroom"
                              ELSE IF "user" \notin created THEN "user" ELSE "log"}
  /\ goOn(created' = Balancers)
  /\ UNCHANGED <<stopping, maps, workers, accepting, object>>

Added(b) == {m \in Of[b] : mgr[m] # "none"}
Full(b) == Added(b) = Of[b]

\* The balancer whose managers are added next.
Filling ==
  IF ~ Full("chatroom") THEN "chatroom" ELSE IF ~ Full("user") THEN "user" ELSE "log"

\* Is main in stopAllThreads of b, past its loop over _managers?
Stopping(b) == main = b /\ stage # "tell"

\* initManagers, addManager: a manager ...
addManager ==
  /\ serverAt("manage")
  /\ ~ Full(Filling)
  /\ \E m \in Of[Filling] :
       /\ mgr[m] = "none"
       /\ managers' = [managers EXCEPT ![Filling] = @ \cup {m}]
       /\ shouldDoWork' = shouldDoWork \cup {m}
       /\ mgr' = [mgr EXCEPT ![m] = "made"]
  /\ torn' = IF Stopping(Filling) THEN torn \cup {Filling} ELSE torn
  /\ server' = "thread"
  /\ UNCHANGED <<created, stopping, thread, running, balancer, accepting, object>>

\* ... its thread, which a loop over the threads may miss if it is under way ...
startManagerThread ==
  /\ serverAt("thread")
  /\ \E b \in Balancers, m \in Managers :
       /\ m \in Of[b] /\ mgr[m] = "made"
       /\ mgr' = [mgr EXCEPT ![m] = "connect"]
       /\ thread' = [thread EXCEPT ![m] = IF Stopping(b) THEN "missed" ELSE "joinable"]
  /\ server' = "release"
  /\ UNCHANGED <<created, stopping, managers, shouldDoWork, torn, running, balancer, accepting,
                 object>>

Joinable == {m \in Managers : thread[m] # "none"}

\* Mutant: the thread is not detached.
detachManagerThread_Kept ==
  /\ serverAt("release")
  /\ server' = "manage"
  /\ UNCHANGED <<created, stopping, maps, workers, accepting, object>>

\* ... and its detach.  A thread that a stop has joined in the meantime cannot be
\* detached: startServer fails, but what it has started runs on.
detachManagerThread ==
  /\ serverAt("release")
  /\ server' = IF Joinable = {} THEN "done" ELSE "manage"
  /\ thread' = [m \in Managers |-> "none"]
  /\ UNCHANGED <<created, stopping, managers, shouldDoWork, torn, workers, accepting, object>>

managersAdded ==
  /\ serverAt("manage")
  /\ \A b \in Balancers : Full(b)
  /\ goOn(TRUE)
  /\ UNCHANGED <<created, stopping, maps, workers, accepting, object>>

detachBalancers ==
  /\ serverAt("detach")
  /\ balancer' = [b \in Balancers |-> "start"]
  /\ goOn(TRUE)
  /\ UNCHANGED <<created, stopping, maps, mgr, running, accepting, object>>

\* local_endpoint of a closed acceptor throws: startServer fails, as above.
localEndpoint ==
  /\ serverAt("listen")
  /\ IF acceptorOpen THEN goOn(TRUE) ELSE server' = "done"
  /\ UNCHANGED <<created, stopping, maps, workers, accepting, object>>

setRunning ==
  /\ serverAt("run")
  /\ isRunning' = TRUE
  /\ goOn(TRUE)
  /\ UNCHANGED <<created, stopping, maps, workers, acceptorOpen, acceptor, conn, object>>

detachAcceptor ==
  /\ serverAt("accept")
  /\ acceptor' = "test"
  /\ goOn(TRUE)
  /\ UNCHANGED <<created, stopping, maps, workers, isRunning, acceptorOpen, conn, object>>

startServer ==
  \/ createBalancer \/ addManager \/ startManagerThread \/ detachManagerThread
  \/ managersAdded \/ detachBalancers \/ localEndpoint \/ setRunning \/ detachAcceptor

-----------------------------------------------------------------------------
(* The main thread.                                                        *)

goMain(where) == main' = where

pressEnter ==
  /\ main = "enter"
  /\ early' = (server # "done")
  /\ goMain("flag")
  /\ UNCHANGED <<round, stage, joining, starting, maps, workers, accepting, object>>

clearFlag ==
  /\ main = "flag"
  /\ isRunning' = FALSE
  /\ goMain("chatroom")
  /\ UNCHANGED <<round, early, stage, joining, starting, maps, workers, acceptorOpen, acceptor,
                 conn, object>>

\* stopServer goes from balancer to balancer, past those that do not exist.
Stops == [chatroom |-> "user", user |-> "log", log |-> "acceptor"]
nextBalancer == goMain(Stops[main]) /\ stage' = "tell"

skipBalancer ==
  /\ main \in Balancers \ created /\ stage = "tell"
  /\ nextBalancer
  /\ UNCHANGED <<round, early, joining, starting, maps, workers, accepting, object>>

stopAt(where) == main \in Balancers /\ stage = where

\* Mutant: the map is cleared before the managers are told.
tellManagers_ClearFirst ==
  /\ stopAt("tell") /\ main \in created
  /\ running' = running \ {main}
  /\ managers' = [managers EXCEPT ![main] = {}]
  /\ stage' = "join"
  /\ UNCHANGED <<main, round, early, joining, starting, shouldDoWork, torn, thread, mgr, balancer,
                 accepting, object>>

\* stopAllThreads: every manager in the map is told to stop ...
tellManagers ==
  /\ stopAt("tell") /\ main \in created
  /\ running' = running \ {main}
  /\ IF server = "manage" /\ ~ Full(main) /\ main = Filling
       THEN /\ \E told \in SUBSET managers[main] : shouldDoWork' = shouldDoWork \ told
            /\ torn' = torn \cup {main}
       ELSE /\ shouldDoWork' = shouldDoWork \ managers[main]
            /\ UNCHANGED torn
  /\ stage' = "join"
  /\ UNCHANGED <<main, round, early, joining, starting, managers, thread, mgr, balancer,
                 accepting, object>>

\* ... the threads that can be joined are: the loop looks ...
findJoinable ==
  /\ stopAt("join") /\ joining = {}
  /\ \E m \in Of[main] \cap Joinable : joining' = {m}
  /\ UNCHANGED <<main, round, early, stage, starting, maps, workers, accepting, object>>

\* ... and joins, which throws in main if the thread was detached in between ...
joinManager ==
  /\ stopAt("join") /\ joining # {}
  /\ IF joining \subseteq Joinable THEN stage' = "wait" /\ UNCHANGED main
                                   ELSE goMain("aborted") /\ UNCHANGED stage
  /\ UNCHANGED <<round, early, joining, starting, maps, workers, accepting, object>>

\* ... or waits until the manager ends.
managerJoined ==
  /\ stopAt("wait")
  /\ \A m \in joining : mgr[m] = "done"
  /\ thread' = [m \in Managers |-> IF m \in joining THEN "none" ELSE thread[m]]
  /\ joining' = {}
  /\ stage' = "join"
  /\ UNCHANGED <<main, round, early, starting, managers, shouldDoWork, torn, workers, accepting,
                 object>>

allJoined ==
  /\ stopAt("join") /\ joining = {}
  /\ \A m \in Of[main] : thread[m] # "joinable"
  /\ stage' = "clear"
  /\ UNCHANGED <<main, round, early, joining, starting, maps, workers, accepting, object>>

\* Then the maps are cleared.  The destructor of a thread that can still be joined
\* aborts the process.
clearManagers ==
  /\ stopAt("clear")
  /\ IF Of[main] \cap Joinable = {}
       THEN managers' = [managers EXCEPT ![main] = {}] /\ nextBalancer
       ELSE goMain("aborted") /\ UNCHANGED <<managers, stage>>
  /\ UNCHANGED <<round, early, joining, starting, shouldDoWork, torn, thread, workers,
                 accepting, object>>

stopAllThreads ==
  \/ tellManagers \/ findJoinable \/ joinManager \/ managerJoined \/ allJoined
  \/ clearManagers

closeAcceptor ==
  /\ main = "acceptor"
  /\ acceptorOpen' = FALSE
  /\ goMain("db")
  /\ UNCHANGED <<round, early, stage, joining, starting, maps, workers, isRunning, acceptor,
                 conn, object>>

\* Database::close closes the handle unless it is null, and resets it.
close == handle' = "null"

closeDatabase ==
  /\ main = "db"
  /\ close
  /\ goMain(IF round = 1 THEN "join" ELSE "members")
  /\ UNCHANGED <<round, early, stage, joining, starting, maps, workers, accepting, destroyed,
                 wrong>>

\* Mutant: the accepting loop runs on the server thread itself.
join_Acceptor ==
  /\ main = "join"
  /\ server = "done" /\ acceptor \in {"none", "done"}
  /\ goMain("flag") /\ round' = 2
  /\ UNCHANGED <<early, stage, joining, starting, maps, workers, accepting, object>>

\* Mutant: the destructor does not stop the server.
join_NoSecondStop ==
  /\ main = "join"
  /\ server = "done"
  /\ goMain("members") /\ round' = 2
  /\ UNCHANGED <<early, stage, joining, starting, maps, workers, accepting, object>>

\* "Server stopped successfully.", and the destructor stops it again.
join ==
  /\ main = "join"
  /\ server = "done"
  /\ goMain("flag") /\ round' = 2
  /\ UNCHANGED <<early, stage, joining, starting, maps, workers, accepting, object>>

\* The members go: each balancer stops once more, with empty maps, and the database
\* closes a handle that is still there.
destroyMembers ==
  /\ main = "members"
  /\ running' = {}
  /\ shouldDoWork' = shouldDoWork \ UNION {managers[b] : b \in Balancers}
  /\ managers' = [b \in Balancers |-> {}]
  /\ close
  /\ destroyed' = TRUE
  /\ goMain("return")
  /\ UNCHANGED <<round, early, stage, joining, starting, torn, thread, mgr, balancer, accepting,
                 wrong>>

exit ==
  /\ main = "return"
  /\ goMain("exited")
  /\ UNCHANGED <<round, early, stage, joining, starting, maps, workers, accepting, object>>

stopServer ==
  \/ clearFlag \/ skipBalancer \/ stopAllThreads \/ closeAcceptor \/ closeDatabase
  \/ join \/ destroyMembers \/ exit

-----------------------------------------------------------------------------
(* The detached threads.  Each step uses the server object or a balancer of  *)
(* it, be it there or not.                                                  *)

touch == wrong' = IF destroyed THEN wrong \cup {"destroyed"} ELSE wrong

\* A manager thread opens its own connection through the server's Database ...
setUpDatabaseConnection(m) ==
  /\ Alive
  /\ mgr[m] = "connect"
  /\ mgr' = [mgr EXCEPT ![m] = "poll"]
  /\ touch
  /\ UNCHANGED <<starting, stopping, maps, running, balancer, accepting, handle, destroyed>>

\* ... and polls until it is told to stop: the manager itself is kept by its thread.
endManager(m) ==
  /\ Alive
  /\ mgr[m] = "poll"
  /\ m \notin shouldDoWork
  /\ mgr' = [mgr EXCEPT ![m] = "done"]
  /\ UNCHANGED <<starting, stopping, maps, running, balancer, accepting, object>>

\* waitForWork sets the balancer's flag, then polls as long as it is set.
enterWaitForWork(b) ==
  /\ Alive
  /\ balancer[b] = "start"
  /\ running' = running \cup {b}
  /\ balancer' = [balancer EXCEPT ![b] = "poll"]
  /\ touch
  /\ UNCHANGED <<starting, stopping, maps, mgr, accepting, handle, destroyed>>

pollWork(b) ==
  /\ Alive
  /\ balancer[b] = "poll"
  /\ balancer' = [balancer EXCEPT ![b] = IF b \in running THEN @ ELSE "done"]
  /\ touch
  /\ UNCHANGED <<starting, stopping, maps, mgr, running, accepting, handle, destroyed>>

\* The acceptor's loop.  A closed acceptor throws and the loop goes on.
acceptorStep(from, to) ==
  /\ Alive
  /\ acceptor = from
  /\ acceptor' = to
  /\ touch
  /\ UNCHANGED <<starting, stopping, maps, workers, isRunning, acceptorOpen, handle, destroyed>>

testRunning == acceptorStep("test", IF isRunning THEN "call" ELSE "done") /\ UNCHANGED conn

callAccept == acceptorStep("call", IF acceptorOpen THEN "blocked" ELSE "test") /\ UNCHANGED conn

\* A blocked accept returns with a connection, even if the acceptor was closed in
\* the meantime: a close need not wake it.
accepted ==
  /\ acceptorStep("blocked", "test")
  /\ \E c \in Conns : conn[c] = "none" /\ conn' = [conn EXCEPT ![c] = "push"]

acceptAborted == ~ acceptorOpen /\ acceptorStep("blocked", "test") /\ UNCHANGED conn

\* The registration thread of a connection ends up in the user balancer's queue.
registerClient(c) ==
  /\ Alive
  /\ conn[c] = "push"
  /\ conn' = [conn EXCEPT ![c] = "done"]
  /\ wrong' = wrong \cup (IF "user" \notin created THEN {"null"} ELSE {})
                    \cup (IF destroyed THEN {"destroyed"} ELSE {})
  /\ UNCHANGED <<starting, stopping, maps, workers, isRunning, acceptorOpen, acceptor, handle,
                 destroyed>>

terminated == ~ Alive /\ UNCHANGED vars

Next ==
  \/ pressEnter \/ stopServer \/ startServer
  \/ \E m \in Managers : setUpDatabaseConnection(m) \/ endManager(m)
  \/ \E b \in Balancers : enterWaitForWork(b) \/ pollWork(b)
  \/ testRunning \/ callAccept \/ accepted \/ acceptAborted
  \/ \E c \in Conns : registerClient(c)
  \/ terminated

Spec == Init /\ [][Next]_vars

\* The main thread runs on once Enter was pressed, and so do the server thread and every
\* manager's.
FairSpec ==
  /\ Spec
  /\ WF_vars(stopServer) /\ WF_vars(startServer)
  /\ \A m \in Managers : WF_vars(setUpDatabaseConnection(m) \/ endManager(m))

-----------------------------------------------------------------------------
(* Properties.                                                             *)

\* The types.
TypeOK ==
  /\ main \in Balancers \cup {"enter", "flag", "acceptor", "db", "join", "members", "return",
                              "exited", "aborted"}
  /\ round \in {1, 2}
  /\ stage \in {"tell", "join", "wait", "clear"} /\ joining \subseteq Managers
  /\ {early, isRunning, acceptorOpen, destroyed} \subseteq BOOLEAN
  /\ server \in DOMAIN After \cup {"thread", "release", "done"}
  /\ created \subseteq Balancers /\ running \subseteq Balancers /\ torn \subseteq Balancers
  /\ managers \in [Balancers -> SUBSET Managers]
  /\ \A b \in Balancers : managers[b] \subseteq Of[b]
  /\ shouldDoWork \subseteq Managers
  /\ thread \in [Managers -> {"none", "joinable", "missed"}]
  /\ mgr \in [Managers -> {"none", "made", "connect", "poll", "done"}]
  /\ balancer \in [Balancers -> {"none", "start", "poll", "done"}]
  /\ acceptor \in {"none", "test", "call", "blocked", "done"}
  /\ conn \in [Conns -> {"none", "push", "done"}]
  /\ handle \in {"open", "null"}
  /\ wrong \subseteq {"null", "destroyed"}

\* No work is pushed into a balancer that does not exist yet: a connection can only be
\* accepted once startServer has made them all (registerClient does not look,
\* Server.cpp:168), however early the stop comes.
NoNullBalancer == "null" \notin wrong

Stopped ==
  /\ ~ isRunning /\ ~ acceptorOpen
  /\ handle = "null"
  /\ \A m \in shouldDoWork : \E b \in torn : m \in Of[b]

\* What main reports as stopped is stopped, when the server had started before
\* Enter was pressed: flag, acceptor, database, and every manager was told.
LateStopIsComplete ==
  ~ early /\ (main = "join" \/ round = 2) => Stopped /\ torn = {}

\* The destructor's second stop makes up for a first one that overtook startServer:
\* the flag the server thread set afterwards and the managers it added afterwards,
\* except where the first stop found a map that was being filled, when it looked for
\* the managers or until it cleared the map.
SecondStopIsComplete == main \in {"members", "return", "exited"} => Stopped

\* No thread uses the server object after it was destroyed (main.cpp:89 reports it
\* stopped before that).
DestroyedIsUnused == "destroyed" \notin wrong

\* Main waits for a manager that was made when the stop had already told the others, or
\* was telling them, and that runs on (LoadBalancer.cpp:12-21, 82-91).
JoinsUntold == stage = "wait" /\ joining \cap shouldDoWork # {}

\* "Press Enter to stop..." (main.cpp:79): once Enter is pressed the process ends, one way
\* or the other, unless a stop that came while a manager's thread could be joined joins
\* it although that manager was not told to stop.
ProcessEndsOrJoinsUntold == main = "flag" ~> ~ Alive \/ JoinsUntold

\* A stop that finds the server started neither waits for a manager nor aborts.
LateStopDoesNotWait ==
  ~ early => main # "aborted" /\ ~ (stage = "wait" /\ main \in Balancers)
=============================================================================
