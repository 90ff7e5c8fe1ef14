---------------------------- MODULE LoadBalancer ----------------------------
(***************************************************************************)
(* One load balancer of the server (chatroom, user or log) together with   *)
(* the manager threads it feeds: LoadBalancer.cpp and Manager.cpp.          *)
(*                                                                         *)
(* Producer threads push works, the balancer thread pops them one by one,  *)
(* looks for the shortest process queue and appends the work there, every  *)
(* manager thread serves its own queue, and the main thread may stop all   *)
(* of them.  A work is named by its position in the order in which         *)
(* pushWork took _workQueueMutex; what a manager does with a work is left   *)
(* to the modules about sessions and routing.                              *)
(***************************************************************************)
EXTENDS Integers, Sequences, FiniteSets

CONSTANTS Managers,  \* the managers initManagers creates for this balancer
          None,      \* no manager: bestManagerID = -1
          MaxWorks   \* bound: how many works are ever pushed

ASSUME ManagersAssumption == Managers # {} /\ None \notin Managers
ASSUME MaxWorksAssumption == MaxWorks \in Nat
\* initManagers is given their number, a constant of the server (LoadBalancer.cpp:4).
ASSUME FinitelyManyManagers == IsFiniteSet(Managers)

VARIABLES
  pushed,        \* how many works were pushed so far
  workQueue,     \* _workQueue
  managers,      \* the keys of _managers
  isRunning,     \* _isRunning
  balancer,      \* where the balancer thread is
  hand,          \* the work it popped and has not yet assigned, 0 if none
  scanned,       \* the managers findBestManager has looked at
  best,          \* bestManagerID
  minQueueSize,  \* minQueueSize, read only when best # None
  processQueue,  \* _processQueue of every manager
  shouldDoWork,  \* _shouldDoWork of every manager
  worker,        \* where every manager thread is
  current,       \* the work it is processing, 0 if none
  finished,      \* the works every manager has processed
  dropped,       \* the works the balancer popped and gave to nobody
  stopper,       \* where the thread calling stopAllThreads is
  toStop         \* the managers that thread has still to stop

balancerVars == <<isRunning, balancer, hand, scanned, best, minQueueSize>>
workerVars   == <<worker, current, finished>>
stopVars     == <<managers, shouldDoWork, stopper, toStop>>
vars == <<pushed, workQueue, processQueue, dropped, balancerVars, workerVars,
          stopVars>>

Works == 1 .. pushed
Elems(q) == {q[i] : i \in DOMAIN q}

Init ==
  /\ pushed = 0
  /\ workQueue = << >>
  /\ managers = {}
  /\ isRunning = FALSE
  /\ balancer = "unborn"
  /\ hand = 0
  /\ scanned = {}
  /\ best = None
  /\ minQueueSize = 0
  /\ processQueue = [m \in Managers |-> << >>]
  /\ shouldDoWork = [m \in Managers |-> TRUE]
  /\ worker = [m \in Managers |-> "unborn"]
  /\ current = [m \in Managers |-> 0]
  /\ finished = [m \in Managers |-> {}]
  /\ dropped = {}
  /\ stopper = "idle"
  /\ toStop = {}

-----------------------------------------------------------------------------
(* The thread running Server::startServer.                                 *)

\* One turn of initManagers: the manager enters the map and its thread starts.
addManager(m) ==
  /\ balancer = "unborn"
  /\ m \notin managers
  /\ managers' = managers \cup {m}
  /\ worker' = [worker EXCEPT ![m] = "poll"]
  /\ UNCHANGED <<pushed, workQueue, processQueue, dropped, balancerVars,
                 current, finished, shouldDoWork, stopper, toStop>>

\* Mutant: the balancer thread is detached before initManagers is done.
startBalancer_Early ==
  /\ balancer = "unborn"
  /\ balancer' = "start"
  /\ UNCHANGED <<pushed, workQueue, processQueue, dropped, isRunning, hand,
                 scanned, best, minQueueSize, workerVars, stopVars>>

\* All managers exist: startServer detaches the balancer thread.
startBalancer ==
  /\ balancer = "unborn"
  /\ managers = Managers
  /\ balancer' = "start"
  /\ UNCHANGED <<pushed, workQueue, processQueue, dropped, isRunning, hand,
                 scanned, best, minQueueSize, workerVars, stopVars>>

-----------------------------------------------------------------------------
(* Producers: the registration and client handler threads.  They exist only *)
(* after startServer reached listenForConnections, and may outlive a stop.  *)

pushWork ==
  /\ balancer # "unborn"
  /\ pushed < MaxWorks
  /\ pushed' = pushed + 1
  /\ workQueue' = Append(workQueue, pushed + 1)
  /\ UNCHANGED <<processQueue, dropped, balancerVars, workerVars, stopVars>>

-----------------------------------------------------------------------------
(* The balancer thread: waitForWork.                                       *)

\* The test and set of _isRunning before the loop.
enterWaitForWork ==
  /\ balancer = "start"
  /\ IF isRunning THEN /\ balancer' = "done"
                       /\ UNCHANGED isRunning
                  ELSE /\ balancer' = "loop"
                       /\ isRunning' = TRUE
  /\ UNCHANGED <<pushed, workQueue, processQueue, dropped, hand, scanned, best,
                 minQueueSize, workerVars, stopVars>>

\* while(_isRunning)
checkRunning ==
  /\ balancer = "loop"
  /\ balancer' = IF isRunning THEN "take" ELSE "done"
  /\ UNCHANGED <<pushed, workQueue, processQueue, dropped, isRunning, hand,
                 scanned, best, minQueueSize, workerVars, stopVars>>

\* Mutant: front() without pop().
takeWork_NoPop ==
  /\ balancer = "take"
  /\ \/ /\ workQueue = << >>
        /\ balancer' = "loop"
        /\ UNCHANGED <<hand, scanned, best, minQueueSize>>
     \/ /\ workQueue # << >>
        /\ hand' = Head(workQueue)
        /\ balancer' = "scan"
        /\ scanned' = {}
        /\ best' = None
        /\ minQueueSize' = 0
  /\ UNCHANGED <<pushed, workQueue, processQueue, dropped, isRunning, workerVars,
                 stopVars>>

\* Mutant: an empty queue leaves the loop instead of continuing it.
takeWork_Return ==
  /\ balancer = "take"
  /\ \/ /\ workQueue = << >>
        /\ balancer' = "done"
        /\ UNCHANGED <<workQueue, hand, scanned, best, minQueueSize>>
     \/ /\ workQueue # << >>
        /\ hand' = Head(workQueue)
        /\ workQueue' = Tail(workQueue)
        /\ balancer' = "scan"
        /\ scanned' = {}
        /\ best' = None
        /\ minQueueSize' = 0
  /\ UNCHANGED <<pushed, processQueue, dropped, isRunning, workerVars, stopVars>>

\* Under _workQueueMutex: an empty queue sends the thread to sleep and back to
\* the loop, otherwise the oldest work is popped and findBestManager starts.
takeWork ==
  /\ balancer = "take"
  /\ \/ /\ workQueue = << >>
        /\ balancer' = "loop"
        /\ UNCHANGED <<workQueue, hand, scanned, best, minQueueSize>>
     \/ /\ workQueue # << >>
        /\ hand' = Head(workQueue)
        /\ workQueue' = Tail(workQueue)
        /\ balancer' = "scan"
        /\ scanned' = {}
        /\ best' = None
        /\ minQueueSize' = 0
  /\ UNCHANGED <<pushed, processQueue, dropped, isRunning, workerVars, stopVars>>

\* Mutant: minQueueSize is not updated with bestManagerID.
findBestManager_StaleMinimum(m) ==
  /\ balancer = "scan"
  /\ m \notin scanned
  /\ m \in managers \/ stopper = "stopped"
  /\ scanned' = scanned \cup {m}
  /\ best' = IF best = None \/ Len(processQueue[m]) < minQueueSize THEN m ELSE best
  /\ UNCHANGED <<pushed, workQueue, processQueue, dropped, isRunning, balancer,
                 hand, minQueueSize, workerVars, stopVars>>

\* One turn of the loop of findBestManager.  A loop still running when
\* stopAllThreads clears the map reads freed nodes: it may see any manager it
\* has not seen yet, or none.
findBestManager(m) ==
  /\ balancer = "scan"
  /\ m \notin scanned
  /\ m \in managers \/ stopper = "stopped"
  /\ scanned' = scanned \cup {m}
  /\ IF best = None \/ Len(processQueue[m]) < minQueueSize
       THEN /\ best' = m
            /\ minQueueSize' = Len(processQueue[m])
       ELSE UNCHANGED <<best, minQueueSize>>
  /\ UNCHANGED <<pushed, workQueue, processQueue, dropped, isRunning, balancer,
                 hand, workerVars, stopVars>>

\* The loop has ended: the work goes to the best manager, or to nobody when
\* there is none or when it is no longer in the map.
assignWork ==
  /\ balancer = "scan"
  /\ managers \subseteq scanned
  /\ IF best \in managers
       THEN /\ processQueue' = [processQueue EXCEPT ![best] = Append(@, hand)]
            /\ UNCHANGED dropped
       ELSE /\ dropped' = dropped \cup {hand}
            /\ UNCHANGED processQueue
  /\ hand' = 0
  /\ balancer' = "loop"
  /\ UNCHANGED <<pushed, workQueue, isRunning, scanned, best, minQueueSize,
                 workerVars, stopVars>>

-----------------------------------------------------------------------------
(* A manager thread: Manager::handleClient.                                *)

\* while(_shouldDoWork)
checkShouldDoWork(m) ==
  /\ worker[m] = "poll"
  /\ worker' = [worker EXCEPT ![m] = IF shouldDoWork[m] THEN "take" ELSE "gone"]
  /\ UNCHANGED <<pushed, workQueue, processQueue, dropped, balancerVars,
                 current, finished, stopVars>>

\* Mutant: the flag is tested again after the pop, and the work abandoned.
takeProcessWork_Abandon(m) ==
  /\ worker[m] = "take"
  /\ \/ /\ processQueue[m] = << >>
        /\ worker' = [worker EXCEPT ![m] = "poll"]
        /\ UNCHANGED <<processQueue, current>>
     \/ /\ processQueue[m] # << >>
        /\ processQueue' = [processQueue EXCEPT ![m] = Tail(@)]
        /\ IF shouldDoWork[m]
             THEN /\ current' = [current EXCEPT ![m] = Head(processQueue[m])]
                  /\ worker' = [worker EXCEPT ![m] = "busy"]
             ELSE /\ worker' = [worker EXCEPT ![m] = "gone"]
                  /\ UNCHANGED current
  /\ UNCHANGED <<pushed, workQueue, dropped, balancerVars, finished, stopVars>>

\* Mutant: the newest work is taken instead of the oldest.
takeProcessWork_Newest(m) ==
  /\ worker[m] = "take"
  /\ \/ /\ processQueue[m] = << >>
        /\ worker' = [worker EXCEPT ![m] = "poll"]
        /\ UNCHANGED <<processQueue, current>>
     \/ /\ processQueue[m] # << >>
        /\ LET n == Len(processQueue[m])
           IN /\ current' = [current EXCEPT ![m] = processQueue[m][n]]
              /\ processQueue' = [processQueue EXCEPT ![m] = SubSeq(@, 1, n - 1)]
        /\ worker' = [worker EXCEPT ![m] = "busy"]
  /\ UNCHANGED <<pushed, workQueue, dropped, balancerVars, finished, stopVars>>

\* Under _processQueueMutex: sleep when empty, otherwise pop the oldest work.
takeProcessWork(m) ==
  /\ worker[m] = "take"
  /\ \/ /\ processQueue[m] = << >>
        /\ worker' = [worker EXCEPT ![m] = "poll"]
        /\ UNCHANGED <<processQueue, current>>
     \/ /\ processQueue[m] # << >>
        /\ current' = [current EXCEPT ![m] = Head(processQueue[m])]
        /\ processQueue' = [processQueue EXCEPT ![m] = Tail(@)]
        /\ worker' = [worker EXCEPT ![m] = "busy"]
  /\ UNCHANGED <<pushed, workQueue, dropped, balancerVars, finished, stopVars>>

\* processWork returns or throws; either way the thread goes on.
processWork(m) ==
  /\ worker[m] = "busy"
  /\ finished' = [finished EXCEPT ![m] = @ \cup {current[m]}]
  /\ current' = [current EXCEPT ![m] = 0]
  /\ worker' = [worker EXCEPT ![m] = "poll"]
  /\ UNCHANGED <<pushed, workQueue, processQueue, dropped, balancerVars, stopVars>>

-----------------------------------------------------------------------------
(* stopAllThreads, called by the main thread once the server is up.  Its    *)
(* joins do nothing: addManager detached every thread it would join.       *)

\* Mutant: the managers to stop are read after the map was cleared.
beginStop_Cleared ==
  /\ stopper = "idle"
  /\ balancer # "unborn"
  /\ isRunning' = FALSE
  /\ toStop' = {}
  /\ stopper' = "signal"
  /\ UNCHANGED <<pushed, workQueue, processQueue, dropped, balancer, hand,
                 scanned, best, minQueueSize, workerVars, managers, shouldDoWork>>

beginStop ==
  /\ stopper = "idle"
  /\ balancer # "unborn"
  /\ isRunning' = FALSE
  /\ toStop' = managers
  /\ stopper' = "signal"
  /\ UNCHANGED <<pushed, workQueue, processQueue, dropped, balancer, hand,
                 scanned, best, minQueueSize, workerVars, managers, shouldDoWork>>

stop(m) ==
  /\ stopper = "signal"
  /\ m \in toStop
  /\ toStop' = toStop \ {m}
  /\ shouldDoWork' = [shouldDoWork EXCEPT ![m] = FALSE]
  /\ UNCHANGED <<pushed, workQueue, processQueue, dropped, balancerVars,
                 workerVars, managers, stopper>>

clearManagers ==
  /\ stopper = "signal"
  /\ toStop = {}
  /\ managers' = {}
  /\ stopper' = "stopped"
  /\ UNCHANGED <<pushed, workQueue, processQueue, dropped, balancerVars,
                 workerVars, shouldDoWork, toStop>>

\* Every thread has ended: nothing is left that could move.
terminated ==
  /\ pushed = MaxWorks
  /\ stopper = "stopped"
  /\ balancer = "done"
  /\ \A m \in Managers : worker[m] = "gone"
  /\ UNCHANGED vars

-----------------------------------------------------------------------------
startServer == startBalancer \/ \E m \in Managers : addManager(m)

waitForWork ==
  \/ enterWaitForWork
  \/ checkRunning
  \/ takeWork
  \/ \E m \in Managers : findBestManager(m)
  \/ assignWork

handleClient(m) == checkShouldDoWork(m) \/ takeProcessWork(m) \/ processWork(m)

stopAllThreads == clearManagers \/ \E m \in Managers : stop(m)

Next ==
  \/ startServer
  \/ pushWork
  \/ waitForWork
  \/ \E m \in Managers : handleClient(m)
  \/ beginStop
  \/ stopAllThreads
  \/ terminated

Spec == Init /\ [][Next]_vars

\* Every thread is scheduled by the operating system and never blocks for ever:
\* the mutexes are held over a few instructions only and processWork returns.
Fairness ==
  /\ WF_vars(startServer)
  /\ WF_vars(waitForWork)
  /\ \A m \in Managers : WF_vars(handleClient(m))
  /\ WF_vars(stopAllThreads)

FairSpec == Spec /\ Fairness
-----------------------------------------------------------------------------
(* Properties.                                                             *)

TypeOK ==
  /\ pushed \in 0 .. MaxWorks
  /\ workQueue \in Seq(Works)
  /\ managers \subseteq Managers
  /\ isRunning \in BOOLEAN
  /\ balancer \in {"unborn", "start", "loop", "take", "scan", "done"}
  /\ hand \in {0} \cup Works
  /\ scanned \subseteq Managers
  /\ best \in Managers \cup {None}
  /\ minQueueSize \in Nat
  /\ processQueue \in [Managers -> Seq(Works)]
  /\ shouldDoWork \in [Managers -> BOOLEAN]
  /\ worker \in [Managers -> {"unborn", "poll", "take", "busy", "gone"}]
  /\ current \in [Managers -> {0} \cup Works]
  /\ finished \in [Managers -> SUBSET Works]
  /\ dropped \subseteq Works
  /\ stopper \in {"idle", "signal", "stopped"}
  /\ toStop \subseteq Managers

Held == IF hand = 0 THEN {} ELSE {hand}
InProcess(m) == IF current[m] = 0 THEN {} ELSE {current[m]}
AtManager(m) == Elems(processQueue[m]) \cup InProcess(m) \cup finished[m]

\* No work is lost between the queues: every pushed work is in the balancer's
\* queue, in its hand, at some manager, or was dropped (LoadBalancer.cpp:41-77,
\* Manager.cpp:9-28 move a work with no lock held from one queue to the other).
NoneLost ==
  \A w \in Works : \/ w \in Elems(workQueue) \cup Held \cup dropped
                  \/ \E m \in Managers : w \in AtManager(m)

\* No work is processed by two managers, nor processed and still queued at the
\* balancer, nor both dropped and processed.
NoneTwice ==
  /\ \A m, n \in Managers : m # n => AtManager(m) \cap AtManager(n) = {}
  /\ \A m \in Managers :
       AtManager(m) \cap (Elems(workQueue) \cup Held \cup dropped) = {}

\* A manager serves its works in the order in which they were pushed: what it
\* has finished is older than what it processes, which is older than what
\* waits in its queue, and its queue is in order, each work once.
ServedInOrder ==
  \A m \in Managers :
    LET q == processQueue[m]
    IN /\ \A i, j \in DOMAIN q : i < j => q[i] < q[j]
       /\ \A i \in DOMAIN q : current[m] < q[i]
       /\ \A w \in finished[m] :
            /\ current[m] # 0 => w < current[m]
            /\ \A i \in DOMAIN q : w < q[i]

\* The balancer gives a work to nobody only after stopAllThreads emptied
\* _managers: the silent drop in findBestManager and assignWork
\* (LoadBalancer.cpp:36-45) cannot happen in a server that is up.
DroppedOnlyWhenStopped == dropped # {} => stopper = "stopped"

\* Although the sizes are sampled one by one while the managers go on working,
\* no manager ever has more works waiting than its even share of all the works
\* pushed so far, rounded up (LoadBalancer.cpp:24-39).
FairShare ==
  \A m \in Managers :
    Len(processQueue[m]) * Cardinality(Managers) < pushed + Cardinality(Managers)

\* What the threads' positions say of the state, on which the above rests: a work
\* is in hand during a scan only, a scan that has seen a manager has a best one,
\* and the map is complete from the start of the balancer thread to the stop.
Positions ==
  /\ hand # 0 <=> balancer = "scan"
  /\ \A m \in Managers : current[m] # 0 <=> worker[m] = "busy"
  /\ \A m \in Managers \ managers : stopper # "stopped" => worker[m] = "unborn"
  /\ balancer = "scan" /\ scanned # {} => best # None
  /\ balancer = "unborn" => stopper = "idle"
  /\ balancer # "unborn" /\ stopper # "stopped" => managers = Managers
  /\ stopper = "stopped" => managers = {}

\* The balancer's queue holds the newest works without a gap, the work in hand is
\* the one popped last, and everything dispatched or dropped is older.
Taken == pushed - Len(workQueue)
Older(w) == w <= Taken /\ (hand # 0 => w < hand)

PoppedInOrder ==
  /\ \A i \in DOMAIN workQueue : workQueue[i] = Taken + i
  /\ hand # 0 => hand = Taken
  /\ \A w \in dropped : Older(w)
  /\ \A m \in Managers : \A w \in AtManager(m) : Older(w)

\* The inductive invariant.
Inv ==
  /\ TypeOK
  /\ Positions
  /\ PoppedInOrder
  /\ NoneLost
  /\ NoneTwice
  /\ ServedInOrder
  /\ DroppedOnlyWhenStopped

\* Every pushed work is processed unless the server is stopped: no lost wake-up
\* is possible, since both loops poll (LoadBalancer.cpp:57-64, Manager.cpp:10-16).
Served ==
  \A w \in 1 .. MaxWorks :
    w \in Works ~> (stopper # "idle" \/ \E m \in Managers : w \in finished[m])

\* stopAllThreads ends every manager thread, whatever it was doing: none waits
\* for a work that never comes.
ManagersStop == stopper # "idle" ~> \A m \in Managers : worker[m] = "gone"

-----------------------------------------------------------------------------
(* The dispatching the balancer and its managers implement: a pool of       *)
(* waiting works from which every manager takes later and later ones.       *)

Waiting ==
  {w \in Works : \/ w \in Elems(workQueue) \cup Held
                 \/ \E m \in Managers : w \in Elems(processQueue[m])}

Dispatch == INSTANCE WorkDispatch WITH
  waiting <- Waiting, active <- current, done <- finished, lost <- dropped,
  stopped <- (stopper = "stopped")

\* Seen from outside, the queues, the scan and the stop are an order-respecting
\* dispatch that loses a work only after it was stopped.
ImplementsDispatch == Dispatch!Spec
=============================================================================
