---------------------------- MODULE WorkDispatch ----------------------------
(***************************************************************************)
(* What a load balancer and its managers promise to the threads that push  *)
(* work, with no queue, no scan and no lock: every work is started at most *)
(* once, by one manager, every manager starts works in the order in which  *)
(* they were pushed, and a work is lost only once the server was stopped.   *)
(* LoadBalancer implements this specification.                             *)
(***************************************************************************)
EXTENDS Naturals

CONSTANTS Managers, MaxWorks

VARIABLES
  pushed,   \* how many works were handed in
  waiting,  \* the works nobody has started
  active,   \* the work every manager processes, 0 if none
  done,     \* the works every manager has processed
  lost,     \* the works that will never be started
  stopped   \* the managers were taken away

vars == <<pushed, waiting, active, done, lost, stopped>>

Init ==
  /\ pushed = 0
  /\ waiting = {}
  /\ active = [m \in Managers |-> 0]
  /\ done = [m \in Managers |-> {}]
  /\ lost = {}
  /\ stopped = FALSE

Submit ==
  /\ pushed < MaxWorks
  /\ pushed' = pushed + 1
  /\ waiting' = waiting \cup {pushed + 1}
  /\ UNCHANGED <<active, done, lost, stopped>>

Start(m, w) ==
  /\ active[m] = 0
  /\ w \in waiting
  /\ \A d \in done[m] : d < w
  /\ active' = [active EXCEPT ![m] = w]
  /\ waiting' = waiting \ {w}
  /\ UNCHANGED <<pushed, done, lost, stopped>>

Finish(m) ==
  /\ active[m] # 0
  /\ done' = [done EXCEPT ![m] = @ \cup {active[m]}]
  /\ active' = [active EXCEPT ![m] = 0]
  /\ UNCHANGED <<pushed, waiting, lost, stopped>>

Stop ==
  /\ ~ stopped
  /\ stopped' = TRUE
  /\ UNCHANGED <<pushed, waiting, active, done, lost>>

Lose(w) ==
  /\ stopped
  /\ w \in waiting
  /\ waiting' = waiting \ {w}
  /\ lost' = lost \cup {w}
  /\ UNCHANGED <<pushed, active, done, stopped>>

Next ==
  \/ Submit
  \/ \E m \in Managers, w \in waiting : Start(m, w)
  \/ \E m \in Managers : Finish(m)
  \/ Stop
  \/ \E w \in waiting : Lose(w)

Spec == Init /\ [][Next]_vars
=============================================================================
