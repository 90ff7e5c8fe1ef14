------------------------- MODULE LoadBalancerProofs -------------------------
(***************************************************************************)
(* Proofs about LoadBalancer for any finite set of managers and any number *)
(* of works: the invariant Inv, what the runs check as parts of it, that a *)
(* balancer with its managers implements WorkDispatch, and that it shares  *)
(* the works evenly.                                                       *)
(***************************************************************************)
EXTENDS LoadBalancer, FiniteSetTheorems, TLAPS

USE ManagersAssumption, MaxWorksAssumption

-----------------------------------------------------------------------------
(* The queues.                                                             *)

\* push() adds one element at the back of a queue and keeps the others
\* (LoadBalancer.cpp:50, Manager.cpp:6).
LEMMA PushLemma ==
  ASSUME NEW S, NEW q \in Seq(S), NEW e \in S
  PROVE  /\ Append(q, e) \in Seq(S)
         /\ Len(Append(q, e)) = Len(q) + 1
         /\ DOMAIN Append(q, e) = 1 .. Len(q) + 1
         /\ DOMAIN q = 1 .. Len(q)
         /\ \A i \in DOMAIN q : Append(q, e)[i] = q[i]
         /\ Append(q, e)[Len(q) + 1] = e
         /\ Elems(Append(q, e)) = Elems(q) \cup {e}
<1>1. /\ Append(q, e) \in Seq(S)
      /\ Len(Append(q, e)) = Len(q) + 1
      /\ DOMAIN Append(q, e) = 1 .. Len(q) + 1
      /\ DOMAIN q = 1 .. Len(q)
      /\ \A i \in DOMAIN q : Append(q, e)[i] = q[i]
      /\ Append(q, e)[Len(q) + 1] = e
      /\ Len(q) \in Nat
  OBVIOUS
<1>2. 1 .. Len(q) + 1 = (1 .. Len(q)) \cup {Len(q) + 1}
  BY <1>1
<1>3. QED
  BY <1>1, <1>2 DEF Elems

\* front() and pop() take the first element away and shift the others
\* (LoadBalancer.cpp:66-67, Manager.cpp:18-19).
LEMMA PopLemma ==
  ASSUME NEW S, NEW q \in Seq(S), q # << >>
  PROVE  /\ Tail(q) \in Seq(S)
         /\ Head(q) \in S
         /\ Head(q) = q[1]
         /\ 1 \in DOMAIN q
         /\ Len(Tail(q)) = Len(q) - 1
         /\ Len(q) \in Nat \ {0}
         /\ DOMAIN q = 1 .. Len(q)
         /\ DOMAIN Tail(q) = 1 .. Len(q) - 1
         /\ \A i \in DOMAIN Tail(q) : Tail(q)[i] = q[i + 1] /\ i + 1 \in DOMAIN q
         /\ Elems(q) = {Head(q)} \cup Elems(Tail(q))
<1>1. /\ Tail(q) \in Seq(S)
      /\ Head(q) \in S
      /\ Head(q) = q[1]
      /\ 1 \in DOMAIN q
      /\ Len(Tail(q)) = Len(q) - 1
      /\ Len(q) \in Nat \ {0}
      /\ DOMAIN q = 1 .. Len(q)
      /\ DOMAIN Tail(q) = 1 .. Len(q) - 1
      /\ \A i \in DOMAIN Tail(q) : Tail(q)[i] = q[i + 1] /\ i + 1 \in DOMAIN q
  OBVIOUS
<1>2. ASSUME NEW x \in Elems(q) PROVE x \in {Head(q)} \cup Elems(Tail(q))
  <2>1. PICK i \in DOMAIN q : x = q[i]
    BY <1>2 DEF Elems
  <2>2. CASE i = 1
    BY <2>1, <2>2, <1>1
  <2>3. CASE i # 1
    <3>1. i - 1 \in DOMAIN Tail(q) /\ Tail(q)[i - 1] = q[i]
      BY <2>1, <2>3, <1>1
    <3>2. QED
      BY <3>1, <2>1 DEF Elems
  <2>4. QED
    BY <2>2, <2>3
<1>3. ASSUME NEW x \in {Head(q)} \cup Elems(Tail(q)) PROVE x \in Elems(q)
  BY <1>1, <1>3 DEF Elems
<1>4. QED
  BY <1>1, <1>2, <1>3

\* The elements of a queue are what the queue is typed to hold.
LEMMA ElemsTypeLemma ==
  ASSUME NEW S, NEW q \in Seq(S)
  PROVE  Elems(q) \subseteq S /\ Len(q) \in Nat /\ DOMAIN q = 1 .. Len(q)
BY DEF Elems

\* Replacing one queue by a queue of its type leaves the queues typed.
LEMMA UpdateLemma ==
  ASSUME NEW S, NEW f \in [Managers -> S], NEW m \in Managers, NEW q \in S
  PROVE  [f EXCEPT ![m] = q] \in [Managers -> S]
OBVIOUS

-----------------------------------------------------------------------------
(* Type correctness.                                                       *)

\* A queue typed by the works pushed so far stays so typed when more are pushed.
LEMMA SeqMonotonic ==
  ASSUME NEW S, NEW T, S \subseteq T, NEW q \in Seq(S)
  PROVE  q \in Seq(T)
OBVIOUS

\* The types hold at the start.
LEMMA TypeInit == Init => TypeOK
<1> SUFFICES ASSUME Init PROVE TypeOK
  OBVIOUS
<1>1. pushed \in 0 .. MaxWorks
  BY DEF Init
<1>2. workQueue \in Seq(Works) /\ processQueue \in [Managers -> Seq(Works)]
  BY DEF Init
<1>3. finished \in [Managers -> SUBSET Works] /\ current \in [Managers -> {0} \cup Works]
  BY DEF Init
<1>4. QED
  BY <1>1, <1>2, <1>3 DEF Init, TypeOK

\* Every step keeps the types.
LEMMA TypeStep == TypeOK /\ Positions /\ [Next]_vars => TypeOK'
<1> SUFFICES ASSUME TypeOK, Positions, [Next]_vars PROVE TypeOK'
  OBVIOUS
<1> USE DEF TypeOK, Works
<1>1. ASSUME NEW m \in Managers, addManager(m) PROVE TypeOK'
  BY <1>1 DEF addManager, balancerVars
<1>2. CASE startBalancer
  BY <1>2 DEF startBalancer, workerVars, stopVars
<1>3. CASE pushWork
  <2>1. /\ pushed' \in 0 .. MaxWorks
        /\ Works \subseteq Works'
        /\ pushed + 1 \in Works'
    BY <1>3 DEF pushWork
  <2>2. workQueue' \in Seq(Works')
    <3>1. workQueue \in Seq(Works')
      BY <2>1, SeqMonotonic
    <3>2. QED
      BY <2>1, <3>1, PushLemma, <1>3 DEF pushWork
  <2>3. processQueue' \in [Managers -> Seq(Works')]
    BY <2>1, SeqMonotonic, <1>3 DEF pushWork
  <2>4. QED
    BY <2>1, <2>2, <2>3, <1>3 DEF pushWork, balancerVars, workerVars, stopVars
<1>4. CASE enterWaitForWork
  BY <1>4 DEF enterWaitForWork, workerVars, stopVars
<1>5. CASE checkRunning
  BY <1>5 DEF checkRunning, workerVars, stopVars
<1>6. CASE takeWork
  <2>1. workQueue # << >> => Tail(workQueue) \in Seq(Works) /\ Head(workQueue) \in Works
    BY PopLemma
  <2>2. CASE workQueue = << >>
    BY <2>2, <1>6 DEF takeWork, workerVars, stopVars
  <2>3. CASE workQueue # << >>
    <3>1. hand' \in Works /\ workQueue' \in Seq(Works)
      BY <2>1, <2>3, <1>6 DEF takeWork
    <3>2. UNCHANGED <<pushed, processQueue, dropped, isRunning, worker, current,
                      finished, managers, shouldDoWork, stopper, toStop>>
      BY <1>6 DEF takeWork, workerVars, stopVars
    <3>3. balancer' = "scan" /\ scanned' = {} /\ best' = None /\ minQueueSize' = 0
      BY <2>3, <1>6 DEF takeWork
    <3>4. QED
      BY <3>1, <3>2, <3>3
  <2>4. QED
    BY <2>2, <2>3
<1>7. ASSUME NEW m \in Managers, findBestManager(m) PROVE TypeOK'
  <2>1. Len(processQueue[m]) \in Nat
    OBVIOUS
  <2>2. QED
    BY <2>1, <1>7 DEF findBestManager, workerVars, stopVars
<1>8. CASE assignWork
  <2>1. hand \in Works
    BY <1>8 DEF assignWork, Positions
  <2>2. \A m \in Managers : Append(processQueue[m], hand) \in Seq(Works)
    BY <2>1, PushLemma
  <2>3. processQueue' \in [Managers -> Seq(Works)]
    <3>1. CASE best \in managers
      <4>1. processQueue' = [processQueue EXCEPT ![best] = Append(processQueue[best], hand)]
        BY <3>1, <1>8 DEF assignWork
      <4>2. best \in Managers /\ Append(processQueue[best], hand) \in Seq(Works)
        BY <3>1, <2>2
      <4>3. QED
        BY <4>1, <4>2, UpdateLemma
    <3>2. CASE best \notin managers
      BY <3>2, <1>8 DEF assignWork
    <3>3. QED
      BY <3>1, <3>2
  <2>4. dropped' \subseteq Works
    BY <2>1, <1>8 DEF assignWork
  <2>5. QED
    BY <2>3, <2>4, <1>8 DEF assignWork, workerVars, stopVars
<1>9. ASSUME NEW m \in Managers, checkShouldDoWork(m) PROVE TypeOK'
  BY <1>9 DEF checkShouldDoWork, balancerVars, stopVars
<1>10. ASSUME NEW m \in Managers, takeProcessWork(m) PROVE TypeOK'
  <2>1. processQueue[m] # << >> =>
          Tail(processQueue[m]) \in Seq(Works) /\ Head(processQueue[m]) \in Works
    BY PopLemma
  <2>2. CASE processQueue[m] = << >>
    BY <2>2, <1>10 DEF takeProcessWork, balancerVars, stopVars
  <2>3. CASE processQueue[m] # << >>
    <3>1. /\ current' \in [Managers -> {0} \cup Works]
          /\ worker' \in [Managers -> {"unborn", "poll", "take", "busy", "gone"}]
          /\ processQueue' \in [Managers -> Seq(Works)]
      <4>1. current' = [current EXCEPT ![m] = Head(processQueue[m])]
        BY <2>3, <1>10 DEF takeProcessWork
      <4>2. worker' = [worker EXCEPT ![m] = "busy"]
        BY <2>3, <1>10 DEF takeProcessWork
      <4>3. processQueue' = [processQueue EXCEPT ![m] = Tail(processQueue[m])]
        BY <2>3, <1>10 DEF takeProcessWork
      <4>4. Tail(processQueue[m]) \in Seq(Works) /\ Head(processQueue[m]) \in Works
        BY <2>1, <2>3
      <4>5. current' \in [Managers -> {0} \cup Works]
        BY <4>1, <4>4
      <4>6. worker' \in [Managers -> {"unborn", "poll", "take", "busy", "gone"}]
        BY <4>2
      <4>7. processQueue' \in [Managers -> Seq(Works)]
        BY <4>3, <4>4
      <4>8. QED
        BY <4>5, <4>6, <4>7
    <3>2. UNCHANGED <<pushed, workQueue, dropped, finished, balancerVars, stopVars>>
      BY <1>10 DEF takeProcessWork
    <3>3. QED
      BY <3>1, <3>2 DEF balancerVars, stopVars
  <2>4. QED
    BY <2>2, <2>3
<1>11. ASSUME NEW m \in Managers, processWork(m) PROVE TypeOK'
  <2>1. current[m] \in Works
    BY <1>11 DEF processWork, Positions
  <2>2. QED
    BY <2>1, <1>11 DEF processWork, balancerVars, stopVars
<1>12. CASE beginStop
  BY <1>12 DEF beginStop, workerVars
<1>13. ASSUME NEW m \in Managers, stop(m) PROVE TypeOK'
  BY <1>13 DEF stop, balancerVars, workerVars
<1>14. CASE clearManagers
  BY <1>14 DEF clearManagers, balancerVars, workerVars
<1>15. CASE UNCHANGED vars
  BY <1>15 DEF vars, balancerVars, workerVars, stopVars
<1>16. QED
  BY <1>1, <1>2, <1>3, <1>4, <1>5, <1>6, <1>7, <1>8, <1>9, <1>10, <1>11, <1>12,
     <1>13, <1>14, <1>15
  DEF Next, startServer, waitForWork, handleClient, stopAllThreads, terminated

\* The threads' positions stay consistent with the state they have left behind.
LEMMA PositionsStep == TypeOK /\ Positions /\ [Next]_vars => Positions'
<1> SUFFICES ASSUME TypeOK, Positions, [Next]_vars PROVE Positions'
  OBVIOUS
<1> USE DEF TypeOK, Positions, Works
<1>1. ASSUME NEW m \in Managers, addManager(m) PROVE Positions'
  BY <1>1 DEF addManager, balancerVars
<1>2. CASE startBalancer
  BY <1>2 DEF startBalancer, workerVars, stopVars
<1>3. CASE pushWork
  BY <1>3 DEF pushWork, balancerVars, workerVars, stopVars
<1>4. CASE enterWaitForWork
  BY <1>4 DEF enterWaitForWork, workerVars, stopVars
<1>5. CASE checkRunning
  BY <1>5 DEF checkRunning, workerVars, stopVars
<1>6. CASE takeWork
  <2>1. workQueue # << >> => Head(workQueue) # 0
    BY PopLemma
  <2>2. QED
    BY <2>1, <1>6 DEF takeWork, workerVars, stopVars
<1>7. ASSUME NEW m \in Managers, findBestManager(m) PROVE Positions'
  BY <1>7 DEF findBestManager, workerVars, stopVars
<1>8. CASE assignWork
  BY <1>8 DEF assignWork, workerVars, stopVars
<1>9. ASSUME NEW m \in Managers, checkShouldDoWork(m) PROVE Positions'
  BY <1>9 DEF checkShouldDoWork, balancerVars, stopVars
<1>10. ASSUME NEW m \in Managers, takeProcessWork(m) PROVE Positions'
  <2>1. processQueue[m] # << >> => Head(processQueue[m]) # 0
    BY PopLemma
  <2>2. CASE processQueue[m] = << >>
    BY <2>2, <1>10 DEF takeProcessWork, balancerVars, stopVars
  <2>3. CASE processQueue[m] # << >>
    <3>1. /\ current' = [current EXCEPT ![m] = Head(processQueue[m])]
          /\ worker' = [worker EXCEPT ![m] = "busy"]
          /\ worker[m] = "take"
          /\ UNCHANGED <<balancerVars, stopVars>>
      BY <2>3, <1>10 DEF takeProcessWork
    <3>2. QED
      BY <2>1, <2>3, <3>1 DEF balancerVars, stopVars
  <2>4. QED
    BY <2>2, <2>3
<1>11. ASSUME NEW m \in Managers, processWork(m) PROVE Positions'
  BY <1>11 DEF processWork, balancerVars, stopVars
<1>12. CASE beginStop
  BY <1>12 DEF beginStop, workerVars
<1>13. ASSUME NEW m \in Managers, stop(m) PROVE Positions'
  BY <1>13 DEF stop, balancerVars, workerVars
<1>14. CASE clearManagers
  BY <1>14 DEF clearManagers, balancerVars, workerVars
<1>15. CASE UNCHANGED vars
  BY <1>15 DEF vars, balancerVars, workerVars, stopVars
<1>16. QED
  BY <1>1, <1>2, <1>3, <1>4, <1>5, <1>6, <1>7, <1>8, <1>9, <1>10, <1>11, <1>12,
     <1>13, <1>14, <1>15
  DEF Next, startServer, waitForWork, handleClient, stopAllThreads, terminated

-----------------------------------------------------------------------------
(* Where the works are.                                                    *)

\* The variables that say where a work is.
places == <<pushed, workQueue, hand, processQueue, current, finished, dropped>>

\* Only five kinds of step move a work.
LEMMA MovingSteps ==
  ASSUME [Next]_vars
  PROVE  \/ UNCHANGED places
         \/ pushWork
         \/ takeWork /\ workQueue # << >>
         \/ assignWork
         \/ \E m \in Managers : takeProcessWork(m) /\ processQueue[m] # << >>
         \/ \E m \in Managers : processWork(m)
BY DEF Next, startServer, waitForWork, handleClient, stopAllThreads, terminated,
       places, vars, balancerVars, workerVars, stopVars, addManager, startBalancer,
       enterWaitForWork, checkRunning, takeWork, findBestManager,
       checkShouldDoWork, takeProcessWork, beginStop, stop, clearManagers

\* The works at the managers, in hand and dropped depend on the queues only.
LEMMA SameManager ==
  ASSUME NEW m \in Managers, processQueue'[m] = processQueue[m],
         current'[m] = current[m], finished'[m] = finished[m]
  PROVE  AtManager(m)' = AtManager(m)
BY DEF AtManager, InProcess, Elems

\* A work is a positive number, at a manager or not.
LEMMA AtManagerType ==
  ASSUME TypeOK, NEW m \in Managers
  PROVE  AtManager(m) \subseteq Works /\ Works \subseteq Nat \ {0}
<1>1. Elems(processQueue[m]) \subseteq Works
  BY ElemsTypeLemma DEF TypeOK
<1>2. QED
  BY <1>1 DEF AtManager, InProcess, TypeOK, Works

\* pushWork adds the newest work at the back of the balancer's queue.
LEMMA PushPreserves ==
  ASSUME TypeOK, Positions, PoppedInOrder, NoneLost, NoneTwice, ServedInOrder,
         pushWork
  PROVE  PoppedInOrder' /\ NoneLost' /\ NoneTwice' /\ ServedInOrder'
<1>1. /\ pushed' = pushed + 1
      /\ workQueue' = Append(workQueue, pushed + 1)
      /\ UNCHANGED <<hand, processQueue, current, finished, dropped>>
  BY DEF pushWork, balancerVars, workerVars
<1>2. \A m \in Managers : AtManager(m)' = AtManager(m)
  BY <1>1, SameManager
<1>3. /\ workQueue \in Seq(Nat)
      /\ pushed \in Nat
      /\ Works' = Works \cup {pushed + 1}
  BY <1>1 DEF TypeOK, Works
<1>4. /\ Len(workQueue) \in Nat
      /\ Len(workQueue') = Len(workQueue) + 1
      /\ DOMAIN workQueue = 1 .. Len(workQueue)
      /\ DOMAIN workQueue' = 1 .. Len(workQueue) + 1
      /\ \A i \in DOMAIN workQueue : workQueue'[i] = workQueue[i]
      /\ workQueue'[Len(workQueue) + 1] = pushed + 1
      /\ Elems(workQueue)' = Elems(workQueue) \cup {pushed + 1}
  <2>1. workQueue \in Seq(Nat) /\ pushed + 1 \in Nat
    BY <1>3
  <2>2. /\ Len(workQueue) \in Nat
        /\ DOMAIN workQueue = 1 .. Len(workQueue)
    BY <2>1, ElemsTypeLemma
  <2>3. Elems(workQueue)' = Elems(Append(workQueue, pushed + 1))
    BY <1>1 DEF Elems
  <2>4. QED
    BY <1>1, <2>1, <2>2, <2>3, PushLemma
<1>5. Taken' = Taken /\ Taken \in Int
  BY <1>1, <1>3, <1>4 DEF Taken
<1>6. PoppedInOrder'
  <2>1. \A i \in DOMAIN workQueue' : workQueue'[i] = Taken' + i
    BY <1>3, <1>4, <1>5 DEF PoppedInOrder, Taken
  <2>2. \A w : Older(w)' <=> Older(w)
    BY <1>1, <1>5 DEF Older
  <2>3. QED
    BY <2>1, <2>2, <1>1, <1>2, <1>5 DEF PoppedInOrder
<1>7. NoneLost'
  BY <1>1, <1>2, <1>3, <1>4 DEF NoneLost, Held
<1>8. NoneTwice'
  <2>1. \A m \in Managers : pushed + 1 \notin AtManager(m)
    BY <1>3, AtManagerType DEF Works
  <2>2. QED
    BY <2>1, <1>1, <1>2, <1>4 DEF NoneTwice, Held
<1>9. ServedInOrder'
  BY <1>1 DEF ServedInOrder
<1>10. QED
  BY <1>6, <1>7, <1>8, <1>9

\* takeWork moves the oldest work of the balancer's queue to its hand.
LEMMA TakePreserves ==
  ASSUME TypeOK, Positions, PoppedInOrder, NoneLost, NoneTwice, ServedInOrder,
         takeWork, workQueue # << >>
  PROVE  PoppedInOrder' /\ NoneLost' /\ NoneTwice' /\ ServedInOrder'
<1>1. /\ hand = 0
      /\ hand' = Head(workQueue)
      /\ workQueue' = Tail(workQueue)
      /\ UNCHANGED <<pushed, processQueue, current, finished, dropped>>
  BY DEF takeWork, workerVars, Positions
<1>2. \A m \in Managers : AtManager(m)' = AtManager(m)
  BY <1>1, SameManager
<1>3. workQueue \in Seq(Works) /\ pushed \in Nat /\ Works' = Works
  BY <1>1 DEF TypeOK, Works
<1>4. /\ Head(workQueue) = workQueue[1]
      /\ Head(workQueue) \in Works
      /\ 1 \in DOMAIN workQueue
      /\ Len(workQueue) \in Nat \ {0}
      /\ Len(workQueue') = Len(workQueue) - 1
      /\ DOMAIN workQueue' = 1 .. Len(workQueue) - 1
      /\ \A i \in DOMAIN workQueue' :
           workQueue'[i] = workQueue[i + 1] /\ i + 1 \in DOMAIN workQueue
      /\ Elems(workQueue) = {Head(workQueue)} \cup Elems(workQueue)'
  <2>1. Elems(workQueue)' = Elems(Tail(workQueue))
    BY <1>1 DEF Elems
  <2>2. QED
    BY <2>1, <1>1, <1>3, PopLemma
<1>5. Taken \in Int /\ Taken' = Taken + 1 /\ hand' = Taken' /\ hand' # 0
  <2>1. workQueue[1] = Taken + 1
    BY <1>4 DEF PoppedInOrder
  <2>2. Taken \in Int /\ Taken' = Taken + 1
    BY <1>1, <1>3, <1>4 DEF Taken
  <2>3. QED
    BY <2>1, <2>2, <1>1, <1>4 DEF Works
<1>6. \A w \in Nat : Older(w) => Older(w)'
  BY <1>5 DEF Older
<1>7. PoppedInOrder'
  <2>1. \A i \in DOMAIN workQueue' : workQueue'[i] = Taken' + i
    BY <1>4, <1>5 DEF PoppedInOrder
  <2>2. \A w \in dropped' : Older(w)'
    BY <1>1, <1>6 DEF PoppedInOrder, TypeOK, Works
  <2>3. \A m \in Managers : \A w \in AtManager(m)' : Older(w)'
    BY <1>2, <1>6, AtManagerType DEF PoppedInOrder
  <2>4. QED
    BY <2>1, <2>2, <2>3, <1>5 DEF PoppedInOrder
<1>8. Held = {} /\ Held' = {Head(workQueue)}
  BY <1>1, <1>5 DEF Held
<1>9. NoneLost'
  BY <1>1, <1>2, <1>3, <1>4, <1>8 DEF NoneLost
<1>10. NoneTwice'
  BY <1>1, <1>2, <1>4, <1>8 DEF NoneTwice
<1>11. ServedInOrder'
  BY <1>1 DEF ServedInOrder
<1>12. QED
  BY <1>7, <1>9, <1>10, <1>11

\* assignWork moves the work in hand to the back of the best manager's queue, or
\* drops it.
LEMMA AssignPreserves ==
  ASSUME TypeOK, Positions, PoppedInOrder, NoneLost, NoneTwice, ServedInOrder,
         assignWork
  PROVE  PoppedInOrder' /\ NoneLost' /\ NoneTwice' /\ ServedInOrder'
<1>1. /\ hand # 0
      /\ hand' = 0
      /\ UNCHANGED <<pushed, workQueue, current, finished>>
  BY DEF assignWork, workerVars, Positions
<1>2. /\ hand \in Works
      /\ hand = Taken
      /\ Taken' = Taken
      /\ Taken \in Int
      /\ Works' = Works
      /\ Elems(workQueue)' = Elems(workQueue)
      /\ Held = {hand}
      /\ Held' = {}
  <2>1. Len(workQueue) \in Nat
    BY DEF TypeOK
  <2>2. hand \in Works /\ hand = Taken
    BY <1>1 DEF TypeOK, PoppedInOrder
  <2>3. QED
    BY <2>1, <2>2, <1>1 DEF Taken, Works, Held, Elems, TypeOK
<1>3. /\ \A i \in DOMAIN workQueue : workQueue[i] > hand
      /\ hand \notin Elems(workQueue)
  BY <1>2 DEF PoppedInOrder, TypeOK, Works, Elems
<1>4. \A w \in Nat : (Older(w) \/ w = hand) => Older(w)'
  BY <1>1, <1>2 DEF Older
<1>5. \A m \in Managers : hand \notin AtManager(m)
  BY <1>2, AtManagerType, <1>1 DEF PoppedInOrder, Older, Works
<1>6. hand \notin dropped
  BY <1>1, <1>2 DEF PoppedInOrder, Older, Works
<1>7. CASE best \in managers
  <2>1. PICK b \in Managers :
          /\ processQueue' = [processQueue EXCEPT ![b] = Append(processQueue[b], hand)]
          /\ dropped' = dropped
    BY <1>7 DEF assignWork, TypeOK
  <2> DEFINE q == processQueue[b]
  <2>2. /\ q \in Seq(Works)
        /\ processQueue'[b] = Append(q, hand)
        /\ \A m \in Managers : m # b => processQueue'[m] = processQueue[m]
    BY <2>1 DEF TypeOK
  <2>3. /\ Len(q) \in Nat
        /\ DOMAIN q = 1 .. Len(q)
        /\ DOMAIN processQueue'[b] = 1 .. Len(q) + 1
        /\ \A i \in DOMAIN q : processQueue'[b][i] = q[i] /\ q[i] \in Elems(q)
        /\ processQueue'[b][Len(q) + 1] = hand
        /\ Elems(Append(q, hand)) = Elems(q) \cup {hand}
    <3>1. Len(q) \in Nat
      BY <2>2, ElemsTypeLemma
    <3>2. \A i \in DOMAIN q : q[i] \in Elems(q)
      BY DEF Elems
    <3> HIDE DEF q
    <3>3. QED
      BY <2>2, <1>2, <3>1, <3>2, PushLemma
  <2>4. \A m \in Managers : m # b => AtManager(m)' = AtManager(m)
    BY <2>2, <1>1, SameManager
  <2>5. AtManager(b)' = AtManager(b) \cup {hand}
    <3>1. Elems(processQueue[b])' = Elems(Append(q, hand))
      BY <2>1, <2>2 DEF Elems
    <3>2. QED
      BY <3>1, <2>3, <1>1 DEF AtManager, InProcess
  <2>6. PoppedInOrder'
    <3>1. \A m \in Managers : \A w \in AtManager(m)' : Older(w)'
      BY <2>1, <2>4, <2>5, <1>2, <1>4, AtManagerType DEF PoppedInOrder, Works
    <3>2. \A w \in dropped' : Older(w)'
      BY <2>1, <1>4 DEF PoppedInOrder, TypeOK, Works
    <3>3. QED
      BY <3>1, <3>2, <1>1, <1>2 DEF PoppedInOrder
  <2>7. NoneLost'
    BY <2>1, <2>4, <2>5, <1>2 DEF NoneLost
  <2>8. NoneTwice'
    BY <2>1, <2>4, <2>5, <1>2, <1>3, <1>5, <1>6 DEF NoneTwice
  <2>9. ServedInOrder'
    <3>1. \A w \in AtManager(b) : w < hand
      BY <2>1, <1>1 DEF PoppedInOrder, Older
    <3>2. \A i \in DOMAIN q : q[i] < hand
      BY <3>1, <2>3 DEF AtManager
    <3>3. current[b] < hand
      BY <3>1, <2>1, <1>1, <1>2 DEF AtManager, InProcess, Works, TypeOK
    <3>4. \A w \in finished[b] : w < hand
      BY <3>1 DEF AtManager
    <3>5. QED
      BY <3>2, <3>3, <3>4, <2>1, <2>2, <2>3, <1>1 DEF ServedInOrder
  <2>10. QED
    BY <2>6, <2>7, <2>8, <2>9
<1>8. CASE best \notin managers
  <2>1. processQueue' = processQueue /\ dropped' = dropped \cup {hand}
    BY <1>8 DEF assignWork
  <2>2. \A m \in Managers : AtManager(m)' = AtManager(m)
    BY <2>1, <1>1, SameManager
  <2>3. PoppedInOrder'
    <3>1. \A m \in Managers : \A w \in AtManager(m)' : Older(w)'
      BY <2>2, <1>4, AtManagerType DEF PoppedInOrder
    <3>2. \A w \in dropped' : Older(w)'
      BY <2>1, <1>2, <1>4 DEF PoppedInOrder, TypeOK, Works
    <3>3. QED
      BY <3>1, <3>2, <1>1, <1>2 DEF PoppedInOrder
  <2>4. NoneLost'
    BY <2>1, <2>2, <1>2 DEF NoneLost
  <2>5. NoneTwice'
    BY <2>1, <2>2, <1>2, <1>5 DEF NoneTwice
  <2>6. ServedInOrder'
    BY <2>1, <1>1 DEF ServedInOrder
  <2>7. QED
    BY <2>3, <2>4, <2>5, <2>6
<1>9. QED
  BY <1>7, <1>8

\* takeProcessWork moves the oldest work of a manager's queue to its thread.
LEMMA TakeProcessPreserves ==
  ASSUME TypeOK, Positions, PoppedInOrder, NoneLost, NoneTwice, ServedInOrder,
         NEW m \in Managers, takeProcessWork(m), processQueue[m] # << >>
  PROVE  PoppedInOrder' /\ NoneLost' /\ NoneTwice' /\ ServedInOrder'
<1> DEFINE q == processQueue[m]
<1>1. /\ current[m] = 0
      /\ current' = [current EXCEPT ![m] = Head(q)]
      /\ processQueue' = [processQueue EXCEPT ![m] = Tail(q)]
      /\ UNCHANGED <<pushed, workQueue, hand, finished, dropped>>
  BY DEF takeProcessWork, balancerVars, Positions
<1>2. /\ q \in Seq(Works)
      /\ current'[m] = Head(q)
      /\ processQueue'[m] = Tail(q)
      /\ \A n \in Managers : n # m => /\ current'[n] = current[n]
                                      /\ processQueue'[n] = processQueue[n]
  BY <1>1 DEF TypeOK
<1>3. /\ Head(q) = q[1]
      /\ Head(q) \in Works
      /\ 1 \in DOMAIN q
      /\ Len(q) \in Nat \ {0}
      /\ DOMAIN q = 1 .. Len(q)
      /\ DOMAIN Tail(q) = 1 .. Len(q) - 1
      /\ \A i \in DOMAIN Tail(q) : Tail(q)[i] = q[i + 1] /\ i + 1 \in DOMAIN q
      /\ Elems(q) = {Head(q)} \cup Elems(Tail(q))
  BY <1>2, PopLemma
<1>4. AtManager(m)' = AtManager(m)
  <2>1. InProcess(m) = {} /\ InProcess(m)' = {Head(q)}
    BY <1>1, <1>2, <1>3 DEF InProcess, Works
  <2>2. Elems(processQueue[m])' = Elems(Tail(q))
    BY <1>2 DEF Elems
  <2>3. QED
    BY <2>1, <2>2, <1>1, <1>3 DEF AtManager
<1>5. \A n \in Managers : AtManager(n)' = AtManager(n)
  BY <1>1, <1>2, <1>4, SameManager
<1>6. /\ Works' = Works
      /\ Held' = Held
      /\ Elems(workQueue)' = Elems(workQueue)
      /\ Taken' = Taken
      /\ \A w : Older(w)' <=> Older(w)
  BY <1>1 DEF Works, Held, Elems, Taken, Older
<1>7. PoppedInOrder' /\ NoneLost' /\ NoneTwice'
  BY <1>1, <1>5, <1>6 DEF PoppedInOrder, NoneLost, NoneTwice
<1>8. ServedInOrder'
  <2>1. /\ \A i, j \in DOMAIN q : i < j => q[i] < q[j]
        /\ \A w \in finished[m] : \A i \in DOMAIN q : w < q[i]
    BY DEF ServedInOrder
  <2>2. \A i, j \in DOMAIN Tail(q) : i < j => Tail(q)[i] < Tail(q)[j]
    <3>1. TAKE i, j \in DOMAIN Tail(q)
    <3>2. HAVE i < j
    <3>3. i + 1 \in DOMAIN q /\ j + 1 \in DOMAIN q /\ i + 1 < j + 1
      BY <1>3, <3>2
    <3>4. QED
      BY <1>3, <2>1, <3>3
  <2>3. \A i \in DOMAIN Tail(q) : Head(q) < Tail(q)[i]
    <3>1. TAKE i \in DOMAIN Tail(q)
    <3>2. i + 1 \in DOMAIN q /\ 1 < i + 1
      BY <1>3
    <3>3. QED
      BY <1>3, <2>1, <3>2
  <2>4. \A w \in finished[m] : w < Head(q) /\ \A i \in DOMAIN Tail(q) : w < Tail(q)[i]
    BY <1>3, <2>1
  <2>5. ASSUME NEW n \in Managers, n # m
        PROVE  LET r == processQueue'[n]
               IN /\ \A i, j \in DOMAIN r : i < j => r[i] < r[j]
                  /\ \A i \in DOMAIN r : current'[n] < r[i]
                  /\ \A w \in finished'[n] :
                       /\ current'[n] # 0 => w < current'[n]
                       /\ \A i \in DOMAIN r : w < r[i]
    BY <2>5, <1>1, <1>2 DEF ServedInOrder
  <2>6. LET r == processQueue'[m]
        IN /\ \A i, j \in DOMAIN r : i < j => r[i] < r[j]
           /\ \A i \in DOMAIN r : current'[m] < r[i]
           /\ \A w \in finished'[m] :
                /\ current'[m] # 0 => w < current'[m]
                /\ \A i \in DOMAIN r : w < r[i]
    BY <2>2, <2>3, <2>4, <1>1, <1>2
  <2>7. QED
    BY <2>5, <2>6 DEF ServedInOrder
<1>9. QED
  BY <1>7, <1>8

\* processWork moves the work of a manager's thread to what it has finished.
LEMMA ProcessPreserves ==
  ASSUME TypeOK, Positions, PoppedInOrder, NoneLost, NoneTwice, ServedInOrder,
         NEW m \in Managers, processWork(m)
  PROVE  PoppedInOrder' /\ NoneLost' /\ NoneTwice' /\ ServedInOrder'
<1>1. /\ current[m] # 0
      /\ current[m] \in Works
      /\ current' = [current EXCEPT ![m] = 0]
      /\ finished' = [finished EXCEPT ![m] = finished[m] \cup {current[m]}]
      /\ UNCHANGED <<pushed, workQueue, processQueue, hand, dropped>>
  BY DEF processWork, balancerVars, Positions, TypeOK
<1>2. /\ current'[m] = 0
      /\ finished'[m] = finished[m] \cup {current[m]}
      /\ \A n \in Managers : n # m => /\ current'[n] = current[n]
                                      /\ finished'[n] = finished[n]
  BY <1>1 DEF TypeOK
<1>3. \A n \in Managers : AtManager(n)' = AtManager(n)
  <2>1. AtManager(m)' = AtManager(m)
    BY <1>1, <1>2 DEF AtManager, InProcess, Elems
  <2>2. QED
    BY <2>1, <1>1, <1>2, SameManager
<1>4. /\ Works' = Works
      /\ Held' = Held
      /\ Elems(workQueue)' = Elems(workQueue)
      /\ Taken' = Taken
      /\ \A w : Older(w)' <=> Older(w)
  BY <1>1 DEF Works, Held, Elems, Taken, Older
<1>5. PoppedInOrder' /\ NoneLost' /\ NoneTwice'
  BY <1>1, <1>3, <1>4 DEF PoppedInOrder, NoneLost, NoneTwice
<1>6. ServedInOrder'
  <2>1. \A i \in DOMAIN processQueue[m] : processQueue[m][i] \in Nat /\ 0 < processQueue[m][i]
    BY DEF TypeOK, Works
  <2>2. QED
    BY <2>1, <1>1, <1>2 DEF ServedInOrder
<1>7. QED
  BY <1>5, <1>6

-----------------------------------------------------------------------------
(* The invariant.                                                          *)

\* The inductive invariant holds at the start.
LEMMA InvInit == Init => Inv
<1> SUFFICES ASSUME Init PROVE Inv
  OBVIOUS
<1>1. TypeOK
  BY TypeInit
<1>2. /\ \A m \in Managers : AtManager(m) = {}
      /\ Works = {}
      /\ DOMAIN workQueue = {}
      /\ \A m \in Managers : DOMAIN processQueue[m] = {}
  BY DEF Init, AtManager, InProcess, Elems, Works
<1>3. Positions
  BY DEF Init, Positions
<1>4. PoppedInOrder /\ NoneLost /\ NoneTwice /\ DroppedOnlyWhenStopped
  BY <1>2 DEF Init, PoppedInOrder, NoneLost, NoneTwice, DroppedOnlyWhenStopped, Held
<1>5. ServedInOrder
  BY <1>2 DEF Init, ServedInOrder
<1>6. QED
  BY <1>1, <1>3, <1>4, <1>5 DEF Inv

\* A work can be dropped only once the map has been cleared.
LEMMA DroppedStep ==
  TypeOK /\ Positions /\ DroppedOnlyWhenStopped /\ [Next]_vars
    => DroppedOnlyWhenStopped'
<1> SUFFICES ASSUME TypeOK, Positions, DroppedOnlyWhenStopped, [Next]_vars
             PROVE  DroppedOnlyWhenStopped'
  OBVIOUS
<1>1. CASE assignWork
  <2>1. CASE stopper = "stopped"
    BY <1>1, <2>1 DEF assignWork, stopVars, DroppedOnlyWhenStopped
  <2>2. CASE stopper # "stopped"
    <3>1. managers = Managers /\ managers \subseteq scanned
      BY <1>1, <2>2 DEF assignWork, Positions
    <3>2. best \in managers
      BY <3>1, <1>1 DEF assignWork, Positions, TypeOK
    <3>3. QED
      BY <3>2, <1>1 DEF assignWork, stopVars, DroppedOnlyWhenStopped
  <2>3. QED
    BY <2>1, <2>2
<1>2. CASE UNCHANGED dropped /\ (stopper' = stopper \/ stopper # "stopped")
  BY <1>2 DEF DroppedOnlyWhenStopped
<1>3. assignWork \/ (UNCHANGED dropped /\ (stopper' = stopper \/ stopper # "stopped"))
  BY DEF Next, startServer, waitForWork, handleClient, stopAllThreads, terminated,
         vars, balancerVars, workerVars, stopVars, addManager, startBalancer, pushWork,
         enterWaitForWork, checkRunning, takeWork, findBestManager, checkShouldDoWork,
         takeProcessWork, processWork, beginStop, stop, clearManagers
<1>4. QED
  BY <1>1, <1>2, <1>3

\* Every step keeps the inductive invariant.
LEMMA InvStep == Inv /\ [Next]_vars => Inv'
<1> SUFFICES ASSUME Inv, [Next]_vars PROVE Inv'
  OBVIOUS
<1>1. TypeOK' /\ Positions' /\ DroppedOnlyWhenStopped'
  BY TypeStep, PositionsStep, DroppedStep DEF Inv
<1>2. PoppedInOrder' /\ NoneLost' /\ NoneTwice' /\ ServedInOrder'
  <2>1. CASE UNCHANGED places
    <3>1. \A m \in Managers : AtManager(m)' = AtManager(m)
      BY <2>1, SameManager DEF places
    <3>2. /\ Works' = Works
          /\ Held' = Held
          /\ Elems(workQueue)' = Elems(workQueue)
          /\ Taken' = Taken
          /\ \A w : Older(w)' <=> Older(w)
      BY <2>1 DEF places, Works, Held, Elems, Taken, Older
    <3>3. PoppedInOrder' /\ NoneLost' /\ NoneTwice'
      BY <2>1, <3>1, <3>2 DEF places, Inv, PoppedInOrder, NoneLost, NoneTwice
    <3>4. ServedInOrder'
      BY <2>1 DEF places, Inv, ServedInOrder
    <3>5. QED
      BY <3>3, <3>4
  <2>2. CASE pushWork
    BY <2>2, PushPreserves DEF Inv
  <2>3. CASE takeWork /\ workQueue # << >>
    BY <2>3, TakePreserves DEF Inv
  <2>4. CASE assignWork
    BY <2>4, AssignPreserves DEF Inv
  <2>5. ASSUME NEW m \in Managers, takeProcessWork(m), processQueue[m] # << >>
        PROVE  PoppedInOrder' /\ NoneLost' /\ NoneTwice' /\ ServedInOrder'
    BY <2>5, TakeProcessPreserves DEF Inv
  <2>6. ASSUME NEW m \in Managers, processWork(m)
        PROVE  PoppedInOrder' /\ NoneLost' /\ NoneTwice' /\ ServedInOrder'
    BY <2>6, ProcessPreserves DEF Inv
  <2>7. QED
    BY <2>1, <2>2, <2>3, <2>4, <2>5, <2>6, MovingSteps
<1>3. QED
  BY <1>1, <1>2 DEF Inv

\* For any number of managers and works: the state is well typed, no work is lost,
\* duplicated or served out of order, and none is dropped before a stop
\* (LoadBalancer.cpp and Manager.cpp).
THEOREM Correctness == Spec => []Inv
<1>1. Init => Inv
  BY InvInit
<1>2. Inv /\ [Next]_vars => Inv'
  BY InvStep
<1>3. QED
  BY <1>1, <1>2, PTL DEF Spec

\* No work is lost between the queues of the balancer and its managers.
THEOREM NoneLostAlways == Spec => []NoneLost
<1>1. Inv => NoneLost
  BY DEF Inv
<1>2. QED
  BY <1>1, Correctness, PTL

\* No work is given to two managers, or to one twice.
THEOREM NoneTwiceAlways == Spec => []NoneTwice
<1>1. Inv => NoneTwice
  BY DEF Inv
<1>2. QED
  BY <1>1, Correctness, PTL

\* A manager serves its works in the order in which they were pushed.
THEOREM ServedInOrderAlways == Spec => []ServedInOrder
<1>1. Inv => ServedInOrder
  BY DEF Inv
<1>2. QED
  BY <1>1, Correctness, PTL

\* The types of the queues, the flags and the threads' positions.
THEOREM TypeOKAlways == Spec => []TypeOK
<1>1. Inv => TypeOK
  BY DEF Inv
<1>2. QED
  BY <1>1, Correctness, PTL

\* A server that is up drops no work.
THEOREM DropsOnlyWhenStopped == Spec => []DroppedOnlyWhenStopped
<1>1. Inv => DroppedOnlyWhenStopped
  BY DEF Inv
<1>2. QED
  BY <1>1, Correctness, PTL

-----------------------------------------------------------------------------
(* The refinement of WorkDispatch.                                         *)

\* What a waiting work is, element by element.
LEMMA WaitingLemma ==
  \A w : w \in Waiting <=>
           /\ w \in Works
           /\ \/ w \in Elems(workQueue) \cup Held
              \/ \E m \in Managers : w \in Elems(processQueue[m])
BY DEF Waiting

\* The initial states of the balancer are initial states of the dispatcher.
LEMMA DispatchInit == Init => Dispatch!Init
<1> SUFFICES ASSUME Init PROVE Dispatch!Init
  OBVIOUS
<1>1. Waiting = {}
  BY DEF Init, Waiting, Works
<1>2. QED
  BY <1>1 DEF Init, Dispatch!Init

\* Pushing a work hands it in.
LEMMA SubmitStep == Inv /\ pushWork => Dispatch!Submit
<1> SUFFICES ASSUME Inv, pushWork PROVE Dispatch!Submit
  OBVIOUS
<1>1. /\ pushed \in Nat
      /\ pushed < MaxWorks
      /\ pushed' = pushed + 1
      /\ workQueue' = Append(workQueue, pushed + 1)
      /\ UNCHANGED <<hand, processQueue, current, finished, dropped, stopper>>
  BY DEF pushWork, balancerVars, workerVars, stopVars, Inv, TypeOK
<1>2. workQueue \in Seq(Nat)
  BY DEF Inv, TypeOK, Works
<1>3. Elems(workQueue)' = Elems(workQueue) \cup {pushed + 1}
  <2>1. Elems(workQueue)' = Elems(Append(workQueue, pushed + 1))
    BY <1>1 DEF Elems
  <2>2. QED
    BY <1>1, <1>2, <2>1, PushLemma
<1>4. Works' = Works \cup {pushed + 1} /\ Held' = Held
  BY <1>1 DEF Works, Held
<1>5. \A m \in Managers : Elems(processQueue[m])' = Elems(processQueue[m])
  BY <1>1 DEF Elems
<1>6. Elems(workQueue) \subseteq Works /\ Held \subseteq Works
      /\ \A m \in Managers : Elems(processQueue[m]) \subseteq Works
  BY ElemsTypeLemma DEF Inv, TypeOK, Held
<1>7. Waiting' = Waiting \cup {pushed + 1}
  BY <1>3, <1>4, <1>5, <1>6 DEF Waiting
<1>8. QED
  BY <1>1, <1>7 DEF Dispatch!Submit

\* Taking a work in hand does not change what waits.
LEMMA TakeStutters ==
  Inv /\ takeWork /\ workQueue # << >> => UNCHANGED Dispatch!vars
<1> SUFFICES ASSUME Inv, takeWork, workQueue # << >> PROVE UNCHANGED Dispatch!vars
  OBVIOUS
<1>1. /\ hand = 0
      /\ hand' = Head(workQueue)
      /\ workQueue' = Tail(workQueue)
      /\ UNCHANGED <<pushed, processQueue, current, finished, dropped, stopper>>
  BY DEF takeWork, workerVars, stopVars, Inv, Positions
<1>2. /\ Head(workQueue) \in Works
      /\ Elems(workQueue) = {Head(workQueue)} \cup Elems(workQueue)'
  <2>1. Elems(workQueue)' = Elems(Tail(workQueue))
    BY <1>1 DEF Elems
  <2>2. QED
    BY <2>1, PopLemma DEF Inv, TypeOK
<1>3. Held = {} /\ Held' = {Head(workQueue)} /\ Works' = Works
  BY <1>1, <1>2 DEF Held, Works
<1>4. \A m \in Managers : Elems(processQueue[m])' = Elems(processQueue[m])
  BY <1>1 DEF Elems
<1>5. Waiting' = Waiting
  BY <1>2, <1>3, <1>4 DEF Waiting
<1>6. QED
  BY <1>1, <1>5 DEF Dispatch!vars

\* Assigning a work changes nothing outside, dropping it loses it.
LEMMA AssignStep ==
  Inv /\ assignWork => UNCHANGED Dispatch!vars \/ Dispatch!Next
<1> SUFFICES ASSUME Inv, assignWork PROVE UNCHANGED Dispatch!vars \/ Dispatch!Next
  OBVIOUS
<1>1. /\ hand # 0
      /\ hand' = 0
      /\ UNCHANGED <<pushed, workQueue, current, finished, stopper, managers>>
  BY DEF assignWork, workerVars, stopVars, Inv, Positions
<1>2. /\ hand \in Works
      /\ Works' = Works
      /\ Elems(workQueue)' = Elems(workQueue)
      /\ Held = {hand}
      /\ Held' = {}
  BY <1>1 DEF Inv, TypeOK, Works, Held, Elems
<1>3. CASE best \in managers
  <2>1. PICK b \in Managers :
          /\ processQueue' = [processQueue EXCEPT ![b] = Append(processQueue[b], hand)]
          /\ dropped' = dropped
    BY <1>3 DEF assignWork, Inv, TypeOK
  <2>2. /\ processQueue[b] \in Seq(Works)
        /\ processQueue'[b] = Append(processQueue[b], hand)
        /\ \A m \in Managers : m # b => processQueue'[m] = processQueue[m]
    BY <2>1 DEF Inv, TypeOK
  <2>3. Elems(processQueue[b])' = Elems(processQueue[b]) \cup {hand}
    <3>1. Elems(processQueue[b])' = Elems(Append(processQueue[b], hand))
      BY <2>2 DEF Elems
    <3>2. QED
      BY <3>1, <2>2, <1>2, PushLemma
  <2>4. \A m \in Managers : m # b => Elems(processQueue[m])' = Elems(processQueue[m])
    BY <2>2 DEF Elems
  <2>5. Waiting' = Waiting
    BY <1>2, <2>3, <2>4 DEF Waiting
  <2>6. QED
    BY <2>1, <2>5, <1>1 DEF Dispatch!vars
<1>4. CASE best \notin managers
  <2>1. processQueue' = processQueue /\ dropped' = dropped \cup {hand}
    BY <1>4 DEF assignWork
  <2>2. stopper = "stopped"
    BY <1>4 DEF assignWork, Inv, Positions, TypeOK
  <2>3. \A m \in Managers : Elems(processQueue[m])' = Elems(processQueue[m])
    BY <2>1 DEF Elems
  <2>4. /\ hand \notin Elems(workQueue)
        /\ \A m \in Managers : hand \notin Elems(processQueue[m])
    <3>1. \A m \in Managers : hand \notin AtManager(m)
      BY <1>2 DEF Inv, NoneTwice
    <3>2. \A i \in DOMAIN workQueue : workQueue[i] = hand + i /\ i \in Nat \ {0}
      BY <1>1 DEF Inv, PoppedInOrder, TypeOK
    <3>3. hand \notin Elems(workQueue)
      BY <3>2, <1>2 DEF Elems, Works
    <3>4. QED
      BY <3>1, <3>3 DEF AtManager
  <2>5. Waiting' = Waiting \ {hand} /\ hand \in Waiting
    BY <1>2, <2>3, <2>4 DEF Waiting
  <2>6. Dispatch!Lose(hand)
    BY <2>1, <2>2, <2>5, <1>1 DEF Dispatch!Lose
  <2>7. QED
    BY <2>5, <2>6 DEF Dispatch!Next
<1>5. QED
  BY <1>3, <1>4

\* A manager that pops a work starts it, and starts it after every work it has
\* finished.
LEMMA StartStep ==
  ASSUME Inv, NEW m \in Managers, takeProcessWork(m), processQueue[m] # << >>
  PROVE  Dispatch!Next
<1> DEFINE q == processQueue[m]
           w == Head(q)
<1>1. /\ current[m] = 0
      /\ current' = [current EXCEPT ![m] = w]
      /\ processQueue' = [processQueue EXCEPT ![m] = Tail(q)]
      /\ UNCHANGED <<pushed, workQueue, hand, finished, dropped, stopper>>
  BY DEF takeProcessWork, balancerVars, stopVars, Inv, Positions
<1>2. /\ q \in Seq(Works)
      /\ processQueue'[m] = Tail(q)
      /\ \A n \in Managers : n # m => processQueue'[n] = processQueue[n]
  BY <1>1 DEF Inv, TypeOK
<1>3. /\ w = q[1]
      /\ w \in Works
      /\ 1 \in DOMAIN q
      /\ DOMAIN q = 1 .. Len(q)
      /\ Len(q) \in Nat
      /\ DOMAIN Tail(q) = 1 .. Len(q) - 1
      /\ \A i \in DOMAIN Tail(q) : Tail(q)[i] = q[i + 1] /\ i + 1 \in DOMAIN q
      /\ Elems(q) = {w} \cup Elems(Tail(q))
  BY <1>2, PopLemma
<1>4. Elems(processQueue[m])' = Elems(Tail(q))
  BY <1>2 DEF Elems
<1>5. \A n \in Managers : n # m => Elems(processQueue[n])' = Elems(processQueue[n])
  BY <1>2 DEF Elems
<1>6. Works' = Works /\ Held' = Held /\ Elems(workQueue)' = Elems(workQueue)
  BY <1>1 DEF Works, Held, Elems
<1>7. w \notin Elems(Tail(q))
  <2>1. \A i, j \in DOMAIN q : i < j => q[i] < q[j]
    BY DEF Inv, ServedInOrder
  <2>2. \A i \in DOMAIN Tail(q) : w < Tail(q)[i]
    <3>1. TAKE i \in DOMAIN Tail(q)
    <3>2. i + 1 \in DOMAIN q /\ 1 < i + 1
      BY <1>3
    <3>3. QED
      BY <1>3, <2>1, <3>2
  <2>3. QED
    BY <2>2, <1>3 DEF Elems, Works
<1>8. /\ w \notin Elems(workQueue) \cup Held
      /\ \A n \in Managers : n # m => w \notin Elems(processQueue[n])
  BY <1>3 DEF Inv, NoneTwice, AtManager
<1>9. Waiting' = Waiting \ {w} /\ w \in Waiting
  BY <1>3, <1>4, <1>5, <1>6, <1>7, <1>8 DEF Waiting
<1>10. \A d \in finished[m] : d < w
  BY <1>3 DEF Inv, ServedInOrder
<1>11. Dispatch!Start(m, w)
  BY <1>1, <1>9, <1>10 DEF Dispatch!Start
<1>12. QED
  BY <1>9, <1>11 DEF Dispatch!Next

\* A manager whose processWork has returned finishes the work it started.
LEMMA FinishStep ==
  ASSUME Inv, NEW m \in Managers, processWork(m)
  PROVE  Dispatch!Next
<1>1. /\ current[m] # 0
      /\ current' = [current EXCEPT ![m] = 0]
      /\ finished' = [finished EXCEPT ![m] = @ \cup {current[m]}]
      /\ UNCHANGED <<pushed, workQueue, processQueue, hand, dropped, stopper>>
  BY DEF processWork, balancerVars, stopVars, Inv, Positions
<1>2. Waiting' = Waiting
  BY <1>1 DEF Waiting, Works, Elems, Held
<1>3. Dispatch!Finish(m)
  BY <1>1, <1>2 DEF Dispatch!Finish
<1>4. QED
  BY <1>3 DEF Dispatch!Next

\* For any number of managers and works, the balancer, its queues and its manager
\* threads implement the order-respecting dispatcher: a work is started at most
\* once, in push order at its manager, and is lost only after stopAllThreads.
THEOREM Refinement == Spec => ImplementsDispatch
<1>1. Init => Dispatch!Init
  BY DispatchInit
<1>2. Inv /\ [Next]_vars => [Dispatch!Next]_(Dispatch!vars)
  <2> SUFFICES ASSUME Inv, [Next]_vars
               PROVE  Dispatch!Next \/ UNCHANGED Dispatch!vars
    OBVIOUS
  <2>1. CASE UNCHANGED places /\ stopper # "stopped" /\ stopper' = "stopped"
    <3>1. Waiting' = Waiting
      BY <2>1 DEF places, Waiting, Works, Elems, Held
    <3>2. Dispatch!Stop
      BY <3>1, <2>1 DEF places, Dispatch!Stop
    <3>3. QED
      BY <3>2 DEF Dispatch!Next
  <2>2. CASE UNCHANGED places /\ (stopper = "stopped") = (stopper' = "stopped")
    <3>1. Waiting' = Waiting
      BY <2>2 DEF places, Waiting, Works, Elems, Held
    <3>2. QED
      BY <3>1, <2>2 DEF places, Dispatch!vars
  <2>3. CASE pushWork
    BY <2>3, SubmitStep DEF Dispatch!Next
  <2>4. CASE takeWork /\ workQueue # << >>
    BY <2>4, TakeStutters
  <2>5. CASE assignWork
    BY <2>5, AssignStep
  <2>6. ASSUME NEW m \in Managers, takeProcessWork(m), processQueue[m] # << >>
        PROVE  Dispatch!Next
    BY <2>6, StartStep
  <2>7. ASSUME NEW m \in Managers, processWork(m) PROVE Dispatch!Next
    BY <2>7, FinishStep
  <2>8. stopper = "stopped" => stopper' = "stopped"
    BY DEF Next, startServer, waitForWork, handleClient, stopAllThreads, terminated,
           vars, stopVars, addManager, startBalancer, pushWork, enterWaitForWork,
           checkRunning, takeWork, findBestManager, assignWork, checkShouldDoWork,
           takeProcessWork, processWork, beginStop, stop, clearManagers
  <2>9. QED
    BY <2>1, <2>2, <2>3, <2>4, <2>5, <2>6, <2>7, <2>8, MovingSteps
<1>3. QED
  BY <1>1, <1>2, Correctness, PTL DEF Spec, ImplementsDispatch, Dispatch!Spec

-----------------------------------------------------------------------------
(* That the works are shared evenly.                                       *)

\* What the scan of findBestManager has established so far: every manager it has
\* looked at has had at least minQueueSize works, and the best one's queue, which
\* only its own manager makes shorter meanwhile, is no longer than that
\* (LoadBalancer.cpp:24-39).
SampledInv ==
  balancer = "scan" =>
    /\ \A m \in scanned : minQueueSize <= Cardinality(AtManager(m))
    /\ best # None => Len(processQueue[best]) <= minQueueSize

FairInv == Inv /\ SampledInv /\ FairShare

-----------------------------------------------------------------------------
(* Counting.                                                               *)

\* Disjoint sets of at least k elements each, in a set of n, one for every element
\* of P: there is room for k times as many elements as P has.
LEMMA DisjointPartsBound ==
  ASSUME NEW P, IsFiniteSet(P), NEW S, IsFiniteSet(S), NEW k \in Nat,
         NEW A, A \in [P -> SUBSET S],
         \A p, q \in P : p # q => A[p] \cap A[q] = {},
         \A p \in P : k <= Cardinality(A[p])
  PROVE  Cardinality(P) * k <= Cardinality(S)
<1> DEFINE Count(p) == Cardinality(A[p])
           Numbering(p) == CHOOSE f : f \in Bijection(1 .. Count(p), A[p])
           g == [x \in P \X (1 .. k) |-> Numbering(x[1])[x[2]]]
<1>1. \A p \in P : Count(p) \in Nat /\ Numbering(p) \in Bijection(1 .. Count(p), A[p])
  <2>1. TAKE p \in P
  <2>2. A[p] \in SUBSET S OBVIOUS
  <2>3. IsFiniteSet(A[p]) BY <2>2, FS_Subset
  <2>4. Count(p) \in Nat /\ ExistsBijection(1 .. Count(p), A[p])
    BY <2>3, FS_CardinalityType
  <2> QED BY <2>4 DEF ExistsBijection
<1>2. \A p \in P : 1 .. k \subseteq 1 .. Count(p) BY <1>1
<1>3. ASSUME NEW p \in P
      PROVE  /\ \A i \in 1 .. k : Numbering(p)[i] \in A[p]
             /\ \A i, j \in 1 .. k : Numbering(p)[i] = Numbering(p)[j] => i = j
  <2> HIDE DEF Count, Numbering
  <2>1. \A i, j \in 1 .. Count(p) : /\ Numbering(p)[i] \in A[p]
                                    /\ Numbering(p)[i] = Numbering(p)[j] => i = j
    BY <1>1 DEF Bijection, Injection, Surjection, IsInjective
  <2> QED BY <1>2, <2>1
<1> HIDE DEF Count, Numbering
<1>4. ASSUME NEW x \in P \X (1 .. k), NEW y \in P \X (1 .. k), g[x] = g[y]
      PROVE  x = y
  <2>1. PICK p \in P, i \in 1 .. k : x = <<p, i>> OBVIOUS
  <2>2. PICK q \in P, j \in 1 .. k : y = <<q, j>> OBVIOUS
  <2>3. Numbering(p)[i] = Numbering(q)[j] BY <1>4, <2>1, <2>2
  <2>4. Numbering(p)[i] \in A[p] /\ Numbering(q)[j] \in A[q] BY <1>3
  <2>5. p = q BY <2>3, <2>4
  <2>6. i = j BY <1>3, <2>3, <2>5
  <2> QED BY <2>1, <2>2, <2>5, <2>6
<1>5. g \in [P \X (1 .. k) -> S]
  <2>1. ASSUME NEW x \in P \X (1 .. k) PROVE Numbering(x[1])[x[2]] \in S
    <3>1. x[1] \in P /\ x[2] \in 1 .. k OBVIOUS
    <3> QED BY <3>1, <1>3
  <2> QED BY <2>1
<1>6. g \in Injection(P \X (1 .. k), S)
  <2> HIDE DEF g
  <2> QED BY <1>4, <1>5 DEF Injection, IsInjective
<1>7. Cardinality(P \X (1 .. k)) <= Cardinality(S) BY <1>6, FS_Injection
<1>8. IsFiniteSet(1 .. k) /\ Cardinality(1 .. k) = k BY FS_Interval
<1>9. Cardinality(P \X (1 .. k)) = Cardinality(P) * k BY <1>8, FS_Product
<1> QED BY <1>7, <1>9

\* A product of natural numbers grows with its first factor.
LEMMA TimesMonotonic ==
  ASSUME NEW a \in Nat, NEW b \in Nat, NEW n \in Nat, a <= b
  PROVE  a * n <= b * n /\ a * n \in Nat /\ (a + 1) * n = n * a + n
<1>1. PICK d \in Nat : b = a + d
  <2>1. b - a \in Nat /\ b = a + (b - a) OBVIOUS
  <2> QED BY <2>1
<1>2. d * n \in Nat /\ a * n \in Nat OBVIOUS
<1>3. b * n = a * n + d * n BY <1>1
<1> QED BY <1>2, <1>3

\* The works a manager has had are finitely many, and the waiting ones among them
\* are all different.
LEMMA WorksOfManager ==
  ASSUME Inv, NEW m \in Managers
  PROVE  /\ IsFiniteSet(AtManager(m))
         /\ Cardinality(AtManager(m)) \in Nat
         /\ Len(processQueue[m]) \in Nat
         /\ Len(processQueue[m]) <= Cardinality(AtManager(m))
<1> DEFINE q == processQueue[m]
<1>1. pushed \in Nat /\ q \in Seq(Works) BY DEF Inv, TypeOK
<1>2. IsFiniteSet(Works) BY <1>1, FS_Interval DEF Works
<1>3. AtManager(m) \in SUBSET Works BY AtManagerType DEF Inv
<1>4. IsFiniteSet(AtManager(m)) BY <1>2, <1>3, FS_Subset
<1>5. Cardinality(AtManager(m)) \in Nat BY <1>4, FS_CardinalityType
<1>6. Len(q) \in Nat /\ DOMAIN q = 1 .. Len(q) BY <1>1, ElemsTypeLemma
<1>7. \A i, j \in DOMAIN q : q[i] = q[j] => i = j
  <2>1. \A i, j \in DOMAIN q : i < j => q[i] < q[j] BY DEF Inv, ServedInOrder
  <2>2. \A i \in DOMAIN q : q[i] \in Int BY <1>1, <1>6 DEF Works
  <2> QED BY <1>6, <2>1, <2>2
<1>8. q \in Injection(1 .. Len(q), AtManager(m))
  <2>1. \A i \in 1 .. Len(q) : q[i] \in AtManager(m) BY <1>6 DEF AtManager, Elems
  <2>2. q \in [1 .. Len(q) -> AtManager(m)] BY <1>1, <2>1
  <2> HIDE DEF q
  <2> QED BY <1>6, <1>7, <2>2 DEF Injection, IsInjective
<1>9. Cardinality(1 .. Len(q)) <= Cardinality(AtManager(m)) BY <1>4, <1>8, FS_Injection
<1>10. Cardinality(1 .. Len(q)) = Len(q) BY <1>6, FS_Interval
<1> QED BY <1>4, <1>5, <1>6, <1>9, <1>10

\* While a work is in hand, what the managers have had leaves it out: if each had at
\* least k works, k for every manager are fewer than were pushed.
LEMMA EvenShare ==
  ASSUME Inv, hand # 0, NEW k \in Nat,
         \A m \in Managers : k <= Cardinality(AtManager(m))
  PROVE  Cardinality(Managers) * k < pushed
<1> DEFINE Had == [m \in Managers |-> AtManager(m)]
<1>1. pushed \in Nat /\ hand \in Works BY DEF Inv, TypeOK
<1>2. IsFiniteSet(Works) /\ Cardinality(Works) = pushed
  BY <1>1, FS_Interval DEF Works
<1>3. IsFiniteSet(Works \ {hand}) /\ Cardinality(Works \ {hand}) = pushed - 1
  BY <1>1, <1>2, FS_RemoveElement
<1>4. \A m \in Managers : AtManager(m) \subseteq Works \ {hand}
  <2>1. \A m \in Managers : AtManager(m) \subseteq Works BY AtManagerType DEF Inv
  <2>2. \A m \in Managers : hand \notin AtManager(m) BY DEF Inv, NoneTwice, Held
  <2> QED BY <2>1, <2>2
<1>5. Had \in [Managers -> SUBSET (Works \ {hand})] BY <1>4
<1>6. \A m, n \in Managers : m # n => Had[m] \cap Had[n] = {} BY DEF Inv, NoneTwice
<1>7. \A m \in Managers : k <= Cardinality(Had[m]) OBVIOUS
<1>8. Cardinality(Managers) * k <= Cardinality(Works \ {hand})
  <2> HIDE DEF Had
  <2> QED BY <1>3, <1>5, <1>6, <1>7, FinitelyManyManagers, DisjointPartsBound
<1>9. Cardinality(Managers) * k \in Int
  BY FinitelyManyManagers, FS_CardinalityType
<1> QED BY <1>1, <1>3, <1>8, <1>9

-----------------------------------------------------------------------------
(* The steps.                                                              *)

\* Outside assignWork what a manager has had stays the same, and no queue grows.
LEMMA QueuesShrink ==
  ASSUME Inv, [Next]_vars, ~ assignWork, NEW m \in Managers
  PROVE  /\ AtManager(m)' = AtManager(m)
         /\ Len(processQueue'[m]) \in Nat
         /\ Len(processQueue'[m]) <= Len(processQueue[m])
<1>0. processQueue[m] \in Seq(Works) /\ Len(processQueue[m]) \in Nat
  BY ElemsTypeLemma DEF Inv, TypeOK
<1>1. CASE processQueue'[m] = processQueue[m] /\ current'[m] = current[m]
             /\ finished'[m] = finished[m]
  BY <1>0, <1>1, SameManager
<1>2. CASE takeProcessWork(m) /\ processQueue[m] # << >>
  <2>1. /\ current[m] = 0
        /\ current'[m] = Head(processQueue[m])
        /\ processQueue'[m] = Tail(processQueue[m])
        /\ finished'[m] = finished[m]
    BY <1>2 DEF takeProcessWork, Inv, Positions, TypeOK
  <2>2. /\ Head(processQueue[m]) \in Works
        /\ Len(Tail(processQueue[m])) = Len(processQueue[m]) - 1
        /\ Len(processQueue[m]) \in Nat \ {0}
        /\ Elems(processQueue[m]) = {Head(processQueue[m])} \cup Elems(Tail(processQueue[m]))
    BY <1>0, <1>2, PopLemma
  <2>3. Elems(processQueue[m])' = Elems(Tail(processQueue[m])) BY <2>1 DEF Elems
  <2>4. AtManager(m)' = AtManager(m)
    <3>1. InProcess(m) = {} /\ InProcess(m)' = {Head(processQueue[m])}
      BY <2>1, <2>2 DEF InProcess, Works
    <3> QED BY <2>1, <2>2, <2>3, <3>1 DEF AtManager
  <2> QED BY <2>1, <2>2, <2>4
<1>3. CASE processWork(m)
  <2>1. /\ current[m] # 0 /\ current'[m] = 0
        /\ finished'[m] = finished[m] \cup {current[m]}
        /\ processQueue'[m] = processQueue[m]
    BY <1>3 DEF processWork, Inv, Positions, TypeOK
  <2>2. InProcess(m) = {current[m]} /\ InProcess(m)' = {} BY <2>1 DEF InProcess
  <2>3. Elems(processQueue[m])' = Elems(processQueue[m]) BY <2>1 DEF Elems
  <2>4. AtManager(m)' = AtManager(m) BY <2>1, <2>2, <2>3 DEF AtManager
  <2> QED BY <1>0, <2>1, <2>4
<1>4. ASSUME NEW n \in Managers, n # m, takeProcessWork(n) \/ processWork(n)
      PROVE  /\ processQueue'[m] = processQueue[m] /\ current'[m] = current[m]
             /\ finished'[m] = finished[m]
  BY <1>4 DEF takeProcessWork, processWork, Inv, TypeOK
<1>5. CASE UNCHANGED places \/ pushWork \/ takeWork
  BY <1>1, <1>5 DEF places, pushWork, takeWork, workerVars
<1> QED BY <1>1, <1>2, <1>3, <1>4, <1>5, MovingSteps

\* A work is assigned to the shortest queue the scan has seen: no manager has fewer
\* works than that queue, so the share of its manager is still even.
LEMMA AssignIsFair == FairInv /\ assignWork => FairShare'
<1> SUFFICES ASSUME FairInv, assignWork PROVE FairShare' OBVIOUS
<1> DEFINE N == Cardinality(Managers)
<1>0. /\ Inv /\ FairShare /\ SampledInv
      /\ pushed \in Nat /\ pushed' = pushed
      /\ balancer = "scan" /\ hand # 0
      /\ N \in Nat
  <2>1. N \in Nat BY FinitelyManyManagers, FS_CardinalityType
  <2> QED BY <2>1 DEF FairInv, Inv, TypeOK, assignWork, Positions
<1>1. CASE best \in managers
  <2>1. /\ best \in Managers /\ best # None
        /\ managers = Managers
        /\ Managers \subseteq scanned
    BY <1>0, <1>1, ManagersAssumption DEF Inv, TypeOK, Positions, assignWork
  <2>2. minQueueSize \in Nat BY <1>0 DEF Inv, TypeOK
  <2>3. \A m \in Managers : minQueueSize <= Cardinality(AtManager(m))
    BY <1>0, <2>1 DEF SampledInv
  <2>4. N * minQueueSize < pushed BY <1>0, <2>2, <2>3, EvenShare
  <2>5. /\ processQueue[best] \in Seq(Works) /\ hand \in Works
        /\ processQueue'[best] = Append(processQueue[best], hand)
        /\ \A m \in Managers \ {best} : processQueue'[m] = processQueue[m]
    BY <1>0, <1>1, <2>1 DEF Inv, TypeOK, assignWork
  <2>6. /\ Len(processQueue'[best]) = Len(processQueue[best]) + 1
        /\ Len(processQueue[best]) \in Nat
    BY <2>5, PushLemma, ElemsTypeLemma
  <2>7. Len(processQueue[best]) <= minQueueSize BY <1>0, <2>1 DEF SampledInv
  <2>8. Len(processQueue'[best]) * N < pushed + N
    <3>1. Len(processQueue'[best]) * N <= (minQueueSize + 1) * N
      BY <1>0, <2>2, <2>6, <2>7, TimesMonotonic
    <3>2. (minQueueSize + 1) * N = N * minQueueSize + N
      BY <1>0, <2>2, TimesMonotonic
    <3>3. N * minQueueSize \in Nat /\ Len(processQueue'[best]) * N \in Nat
      BY <1>0, <2>2, <2>6
    <3> QED BY <1>0, <2>4, <3>1, <3>2, <3>3
  <2>9. \A m \in Managers \ {best} : Len(processQueue'[m]) * N < pushed + N
    BY <1>0, <2>5 DEF FairShare
  <2> QED BY <1>0, <2>8, <2>9 DEF FairShare
<1>2. CASE best \notin managers
  <2>1. processQueue' = processQueue BY <1>2 DEF assignWork
  <2> QED BY <1>0, <2>1 DEF FairShare
<1> QED BY <1>1, <1>2

\* Any other step takes works away from the queues, or pushes one.
LEMMA FairShareStep == FairInv /\ [Next]_vars => FairShare'
<1> SUFFICES ASSUME FairInv, [Next]_vars, ~ assignWork PROVE FairShare'
  BY AssignIsFair
<1> DEFINE N == Cardinality(Managers)
<1>1. N \in Nat BY FinitelyManyManagers, FS_CardinalityType
<1>2. pushed \in Nat /\ pushed' \in Nat /\ pushed <= pushed'
  <2>1. pushed' = pushed \/ pushed' = pushed + 1
    BY MovingSteps DEF places, pushWork, takeWork, takeProcessWork, processWork
  <2> QED BY <2>1 DEF FairInv, Inv, TypeOK
<1>3. ASSUME NEW m \in Managers PROVE Len(processQueue'[m]) * N < pushed' + N
  <2>1. /\ Len(processQueue[m]) \in Nat /\ Len(processQueue'[m]) \in Nat
        /\ Len(processQueue'[m]) <= Len(processQueue[m])
    BY QueuesShrink, WorksOfManager DEF FairInv
  <2>2. Len(processQueue'[m]) * N <= Len(processQueue[m]) * N
    BY <1>1, <2>1, TimesMonotonic
  <2>3. Len(processQueue'[m]) * N \in Nat /\ Len(processQueue[m]) * N \in Nat
    BY <1>1, <2>1
  <2>4. Len(processQueue[m]) * N < pushed + N BY DEF FairInv, FairShare
  <2> QED BY <1>1, <1>2, <2>2, <2>3, <2>4
<1> QED BY <1>3 DEF FairShare

\* What the scan has established stays true of the managers it goes on to look at
\* and of those it has left behind.
LEMMA SampledStep == Inv /\ SampledInv /\ [Next]_vars => SampledInv'
<1> SUFFICES ASSUME Inv, SampledInv, [Next]_vars, balancer' = "scan"
             PROVE  /\ \A m \in scanned' : minQueueSize' <= Cardinality(AtManager(m)')
                    /\ best' # None => Len(processQueue'[best']) <= minQueueSize'
  BY DEF SampledInv
<1>0. ~ assignWork BY DEF assignWork
<1>1. CASE takeWork BY <1>1 DEF takeWork, Inv, Positions, TypeOK
<1>2. ASSUME NEW n \in Managers, findBestManager(n)
      PROVE  /\ \A m \in scanned' : minQueueSize' <= Cardinality(AtManager(m)')
             /\ best' # None => Len(processQueue'[best']) <= minQueueSize'
  <2>1. /\ balancer = "scan" /\ scanned' = scanned \cup {n}
        /\ UNCHANGED <<processQueue, current, finished>>
    BY <1>2 DEF findBestManager, workerVars
  <2>2. /\ scanned \subseteq Managers /\ minQueueSize \in Nat
        /\ best \in Managers \cup {None}
        /\ scanned # {} => best # None
    BY <2>1 DEF Inv, TypeOK, Positions
  <2>3. /\ Len(processQueue[n]) \in Nat /\ Cardinality(AtManager(n)) \in Nat
        /\ Len(processQueue[n]) <= Cardinality(AtManager(n))
    BY WorksOfManager
  <2>4. \A m \in Managers : AtManager(m)' = AtManager(m)
    BY <1>0, QueuesShrink
  <2>5. \A m \in scanned : /\ Cardinality(AtManager(m)) \in Nat
                           /\ minQueueSize <= Cardinality(AtManager(m))
    BY <2>1, <2>2, WorksOfManager DEF SampledInv
  <2>6. best # None => Len(processQueue[best]) <= minQueueSize BY <2>1 DEF SampledInv
  <2>7. CASE best = None \/ Len(processQueue[n]) < minQueueSize
    <3>1. best' = n /\ minQueueSize' = Len(processQueue[n])
      BY <1>2, <2>7 DEF findBestManager
    <3>2. \A m \in scanned : minQueueSize' <= Cardinality(AtManager(m))
      BY <2>2, <2>3, <2>5, <2>7, <3>1
    <3> QED BY <2>1, <2>2, <2>3, <2>4, <3>1, <3>2
  <2>8. CASE ~ (best = None \/ Len(processQueue[n]) < minQueueSize)
    <3>1. best' = best /\ minQueueSize' = minQueueSize
      BY <1>2, <2>8 DEF findBestManager
    <3>2. minQueueSize <= Cardinality(AtManager(n)) BY <2>2, <2>3, <2>8
    <3> QED BY <2>1, <2>2, <2>4, <2>5, <2>6, <2>8, <3>1, <3>2
  <2> QED BY <2>7, <2>8
<1>3. CASE balancer = "scan" /\ UNCHANGED <<scanned, best, minQueueSize>>
  <2>1. /\ scanned \subseteq Managers /\ minQueueSize \in Nat
        /\ best \in Managers \cup {None}
    BY DEF Inv, TypeOK
  <2>2. \A m \in scanned : AtManager(m)' = AtManager(m) BY <1>0, <2>1, QueuesShrink
  <2>3. best # None => /\ Len(processQueue[best]) \in Nat /\ Len(processQueue'[best]) \in Nat
                       /\ Len(processQueue'[best]) <= Len(processQueue[best])
    BY <1>0, <2>1, QueuesShrink, WorksOfManager
  <2> QED BY <1>3, <2>1, <2>2, <2>3 DEF SampledInv
<1>4. \/ takeWork
      \/ \E n \in Managers : findBestManager(n)
      \/ balancer = "scan" /\ UNCHANGED <<scanned, best, minQueueSize>>
  BY <1>0 DEF Next, startServer, waitForWork, handleClient, stopAllThreads, terminated,
       vars, balancerVars, workerVars, stopVars, addManager, startBalancer, pushWork,
       enterWaitForWork, checkRunning, checkShouldDoWork, takeProcessWork, processWork,
       beginStop, stop, clearManagers
<1> QED BY <1>1, <1>2, <1>3, <1>4

\* At the start nothing waits anywhere.
LEMMA FairInit == Init => SampledInv /\ FairShare
<1> SUFFICES ASSUME Init PROVE FairShare BY DEF Init, SampledInv
<1>1. Cardinality(Managers) \in Nat /\ Cardinality(Managers) # 0
  BY FinitelyManyManagers, ManagersAssumption, FS_CardinalityType, FS_EmptySet
<1>2. \A m \in Managers : Len(processQueue[m]) = 0 /\ pushed = 0 BY DEF Init
<1> QED BY <1>1, <1>2 DEF FairShare

\* For any number of managers and works, although the queue sizes are sampled one by
\* one while the managers go on working: no manager ever has more works waiting than
\* its even share of all the works pushed so far, rounded up.
THEOREM FairShareAlways == Spec => []FairShare
<1>1. Init => FairInv BY InvInit, FairInit DEF FairInv
<1>2. FairInv /\ [Next]_vars => FairInv'
  BY InvStep, SampledStep, FairShareStep DEF FairInv
<1>3. FairInv => FairShare BY DEF FairInv
<1> QED BY <1>1, <1>2, <1>3, PTL DEF Spec
=============================================================================
