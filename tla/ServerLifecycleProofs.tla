------------------------- MODULE ServerLifecycleProofs -------------------------
(* Stopping and destroying the server, for any managers and connections.     *)
EXTENDS ServerLifecycle, TLAPS

\* A connection is accepted only when every balancer was created.
CreatedInv ==
  /\ server # "create" => created = Balancers
  /\ acceptor # "none" => created = Balancers
  /\ \A c \in Conns : conn[c] # "none" => created = Balancers

\* The first round of a stop ends in the join, the second in the destructor; only a
\* first one that came early aborts.
RoundInv ==
  /\ main \in {"enter", "join"} => round = 1
  /\ main \in {"members", "return", "exited"} => round = 2
  /\ main = "aborted" => round = 1 /\ early

\* A late stop, and a second one, find the server thread gone.
QuietInv == round = 2 \/ (~ early /\ main # "enter") => server = "done"

\* A manager's thread can be joined only until the server thread has detached it.
ThreadInv == \A m \in Managers : thread[m] # "none" => server = "release"

\* So main waits for none in a late stop, nor in a second one, nor between balancers.
StageInv ==
  /\ main \notin Balancers \cup {"aborted"} => stage = "tell" /\ joining = {}
  /\ stage \in {"tell", "clear"} /\ main # "aborted" => joining = {}
  /\ round = 2 \/ ~ early => stage # "wait" /\ joining = {}

\* Was the stop that counts, a late one or the second, past the step that leads to
\* these places?
Past(places) ==
  \/ (round = 2 \/ ~ early) /\ main \in places
  \/ round = 2 /\ ~ early

Ending == {"join", "members", "return", "exited"}

\* What a step of that stop has cleared stays so.
FlagInv == Past({"chatroom", "user", "log", "acceptor", "db"} \cup Ending) => ~ isRunning
MapsInv ==
  /\ Past({"user", "log", "acceptor", "db"} \cup Ending) => managers["chatroom"] = {}
  /\ Past({"log", "acceptor", "db"} \cup Ending) => managers["user"] = {}
  /\ Past({"acceptor", "db"} \cup Ending) => managers["log"] = {}

\* What any stop has closed stays closed.
ClosedInv ==
  /\ round = 2 \/ main \in {"db"} \cup Ending => ~ acceptorOpen
  /\ round = 2 \/ main \in Ending => handle = "null"

\* A manager that was not told to stop is in its balancer's map, unless the map was
\* being filled while it was stopped.
KeptInv ==
  \A m \in shouldDoWork :
    \E b \in Balancers : m \in Of[b] /\ (m \in managers[b] \/ b \in torn)

\* A stop that has told the managers in the map finds no other in it.
ToldInv ==
  \A b \in Balancers : Stopping(b) /\ b \notin torn => managers[b] \cap shouldDoWork = {}

\* A late stop finds no map that is being filled.
TornInv == main = "enter" \/ ~ early => torn = {}

IInv ==
  /\ TypeOK /\ CreatedInv /\ RoundInv /\ QuietInv /\ ThreadInv /\ StageInv
  /\ FlagInv /\ MapsInv /\ ClosedInv /\ KeptInv /\ ToldInv /\ TornInv /\ NoNullBalancer

USE DEF starting, stopping, maps, workers, accepting, object

\* The balancer whose map is filled is one of the three.
LEMMA FillingTyped == Filling \in Balancers /\ Of[Filling] \subseteq Managers
BY DEF Filling, Balancers, Of, Managers

\* A manager belongs to one balancer.
LEMMA OneBalancer ==
  ASSUME NEW b \in Balancers, NEW c \in Balancers, NEW m \in Of[b], m \in Of[c]
  PROVE  b = c
BY ManagersAssumption DEF Balancers, Of

\* Before the acceptor exists, a new balancer is seen by main only.
LEMMA createBalancerKeeps == IInv /\ createBalancer => IInv'
<1> SUFFICES ASSUME IInv, createBalancer PROVE IInv' OBVIOUS
<1> USE DEF IInv, createBalancer, serverAt, goOn
<1>1. TypeOK' BY DEF TypeOK, Balancers, After
<1>2. CreatedInv'
  <2>1. created \subseteq created' /\ created' \subseteq Balancers BY DEF TypeOK, Balancers
  <2>2. server' # "create" => created' = Balancers OBVIOUS
  <2> QED BY <2>1, <2>2 DEF CreatedInv
<1>3. FlagInv' BY DEF FlagInv, Past
<1>4. MapsInv' BY DEF MapsInv, Past
<1>5. ToldInv' BY DEF ToldInv, Stopping
<1>6. (RoundInv /\ QuietInv /\ ThreadInv /\ StageInv /\ ClosedInv /\ KeptInv /\
       TornInv /\ NoNullBalancer)'
  BY DEF RoundInv, QuietInv, ThreadInv, StageInv, ClosedInv, KeptInv, TornInv,
         NoNullBalancer
<1> QED BY <1>1, <1>2, <1>3, <1>4, <1>5, <1>6

\* A manager is added to the map its loop condition was set for; if that is being
\* stopped, it is torn.
LEMMA addManagerKeeps == IInv /\ addManager => IInv'
<1> SUFFICES ASSUME IInv, addManager PROVE IInv' OBVIOUS
<1> USE DEF IInv, addManager, serverAt
<1> DEFINE b == Filling
<1>1. b \in Balancers /\ Of[b] \subseteq Managers BY FillingTyped
<1> HIDE DEF b
<1>2. PICK m \in Of[b] : /\ managers' = [managers EXCEPT ![b] = @ \cup {m}]
                         /\ shouldDoWork' = shouldDoWork \cup {m}
                         /\ mgr' = [mgr EXCEPT ![m] = "made"]
  BY DEF b
<1>3. /\ torn' = IF Stopping(b) THEN torn \cup {b} ELSE torn
      /\ server = "manage" /\ server' = "thread"
  BY DEF b
<1>4. TypeOK'
  <2>1. m \in Managers BY <1>1
  <2>2. managers' \in [Balancers -> SUBSET Managers]
    <3>1. managers[b] \cup {m} \in SUBSET Managers BY <1>1, <2>1 DEF TypeOK
    <3> QED BY <1>1, <1>2, <3>1 DEF TypeOK
  <2>3. \A x \in Balancers : managers'[x] \subseteq Of[x] BY <1>1, <1>2 DEF TypeOK
  <2>4. mgr' \in [Managers -> {"none", "made", "connect", "poll", "done"}]
    BY <1>2, <2>1 DEF TypeOK
  <2>5. torn' \subseteq Balancers BY <1>1, <1>3 DEF TypeOK
  <2> QED BY <1>2, <1>3, <2>1, <2>2, <2>3, <2>4, <2>5 DEF TypeOK
<1>5. FlagInv' BY DEF FlagInv, Past
<1>6. MapsInv' BY <1>3 DEF MapsInv, Past, Ending, QuietInv
<1>7. KeptInv' BY <1>1, <1>2, <1>3 DEF KeptInv, TypeOK
<1>8. ToldInv'
  <2> SUFFICES ASSUME NEW c \in Balancers, Stopping(c), c \notin torn'
               PROVE  managers'[c] \cap shouldDoWork' = {}
    BY DEF ToldInv, Stopping
  <2>1. c # b /\ c \notin torn BY <1>3
  <2>2. managers'[c] = managers[c] BY <1>2, <2>1 DEF TypeOK
  <2>3. m \notin Of[c] BY <1>1, <2>1, OneBalancer
  <2> QED BY <1>2, <2>1, <2>2, <2>3 DEF ToldInv, TypeOK
<1>9. TornInv' BY <1>1, <1>3 DEF TornInv, QuietInv, Stopping, Balancers, RoundInv
<1>10. (CreatedInv /\ RoundInv /\ QuietInv /\ ThreadInv /\ StageInv /\ ClosedInv /\
        NoNullBalancer)'
  BY <1>3 DEF CreatedInv, RoundInv, QuietInv, ThreadInv, StageInv, ClosedInv, NoNullBalancer
<1> QED BY <1>4, <1>5, <1>6, <1>7, <1>8, <1>9, <1>10

\* A manager's thread starts.
LEMMA startManagerThreadKeeps == IInv /\ startManagerThread => IInv'
<1> SUFFICES ASSUME IInv, startManagerThread PROVE IInv' OBVIOUS
<1> USE DEF IInv, startManagerThread, serverAt
<1>1. TypeOK'
  <2>1. PICK m \in Managers :
          /\ mgr' = [mgr EXCEPT ![m] = "connect"]
          /\ \/ thread' = [thread EXCEPT ![m] = "missed"]
             \/ thread' = [thread EXCEPT ![m] = "joinable"]
    OBVIOUS
  <2> QED BY <2>1 DEF TypeOK
<1>2. FlagInv' BY DEF FlagInv, Past
<1>3. MapsInv' BY DEF MapsInv, Past
<1>4. ToldInv' BY DEF ToldInv, Stopping
<1>5. (CreatedInv /\ RoundInv /\ QuietInv /\ ThreadInv /\ StageInv /\ ClosedInv /\
       KeptInv /\ TornInv /\ NoNullBalancer)'
  BY DEF CreatedInv, RoundInv, QuietInv, ThreadInv, StageInv, ClosedInv, KeptInv, TornInv,
         NoNullBalancer
<1> QED BY <1>1, <1>2, <1>3, <1>4, <1>5

\* The server thread detaches a manager's, or fails.
LEMMA detachManagerThreadKeeps == IInv /\ detachManagerThread => IInv'
<1> SUFFICES ASSUME IInv, detachManagerThread PROVE IInv' OBVIOUS
<1> USE DEF IInv, detachManagerThread, serverAt
<1>1. TypeOK' BY DEF TypeOK, After
<1>2. FlagInv' BY DEF FlagInv, Past
<1>3. MapsInv' BY DEF MapsInv, Past
<1>4. ToldInv' BY DEF ToldInv, Stopping
<1>5. (CreatedInv /\ RoundInv /\ QuietInv /\ ThreadInv /\ StageInv /\ ClosedInv /\
       KeptInv /\ TornInv /\ NoNullBalancer)'
  BY DEF CreatedInv, RoundInv, QuietInv, ThreadInv, StageInv, ClosedInv, KeptInv, TornInv,
         NoNullBalancer
<1> QED BY <1>1, <1>2, <1>3, <1>4, <1>5

\* A full map holds every manager of its balancer.
LEMMA managersAddedKeeps == IInv /\ managersAdded => IInv'
<1> SUFFICES ASSUME IInv, managersAdded PROVE IInv' OBVIOUS
<1> USE DEF IInv, managersAdded, serverAt, goOn
<1>1. TypeOK' BY DEF TypeOK, Balancers, After
<1>2. FlagInv' BY DEF FlagInv, Past
<1>3. MapsInv' BY DEF MapsInv, Past
<1>4. ToldInv' BY DEF ToldInv, Stopping
<1>5. (CreatedInv /\ RoundInv /\ QuietInv /\ ThreadInv /\ StageInv /\ ClosedInv /\
       KeptInv /\ TornInv /\ NoNullBalancer)'
  BY DEF CreatedInv, RoundInv, QuietInv, ThreadInv, StageInv, ClosedInv, KeptInv, TornInv,
         NoNullBalancer
<1> QED BY <1>1, <1>2, <1>3, <1>4, <1>5

\* The balancer threads start once all managers are in their maps.
LEMMA detachBalancersKeeps == IInv /\ detachBalancers => IInv'
<1> SUFFICES ASSUME IInv, detachBalancers PROVE IInv' OBVIOUS
<1> USE DEF IInv, detachBalancers, serverAt, goOn
<1>1. TypeOK' BY DEF TypeOK, Balancers, After
<1>2. FlagInv' BY DEF FlagInv, Past
<1>3. MapsInv' BY DEF MapsInv, Past
<1>4. ToldInv' BY DEF ToldInv, Stopping
<1>5. (CreatedInv /\ RoundInv /\ QuietInv /\ ThreadInv /\ StageInv /\ ClosedInv /\
       KeptInv /\ TornInv /\ NoNullBalancer)'
  BY DEF CreatedInv, RoundInv, QuietInv, ThreadInv, StageInv, ClosedInv, KeptInv, TornInv,
         NoNullBalancer
<1> QED BY <1>1, <1>2, <1>3, <1>4, <1>5

\* Printing the address, or failing to after a stop, changes no thread.
LEMMA localEndpointKeeps == IInv /\ localEndpoint => IInv'
<1> SUFFICES ASSUME IInv, localEndpoint PROVE IInv' OBVIOUS
<1> USE DEF IInv, localEndpoint, serverAt, goOn
<1>1. TypeOK' BY DEF TypeOK, Balancers, After
<1>2. FlagInv' BY DEF FlagInv, Past
<1>3. MapsInv' BY DEF MapsInv, Past
<1>4. ToldInv' BY DEF ToldInv, Stopping
<1>5. (CreatedInv /\ RoundInv /\ QuietInv /\ ThreadInv /\ StageInv /\ ClosedInv /\
       KeptInv /\ TornInv /\ NoNullBalancer)'
  BY DEF CreatedInv, RoundInv, QuietInv, ThreadInv, StageInv, ClosedInv, KeptInv, TornInv,
         NoNullBalancer
<1> QED BY <1>1, <1>2, <1>3, <1>4, <1>5

\* The acceptor starts, or goes on after a stop that was too early.
LEMMA setRunningKeeps == IInv /\ setRunning => IInv'
<1> SUFFICES ASSUME IInv, setRunning PROVE IInv' OBVIOUS
<1> USE DEF IInv, setRunning, serverAt, goOn
<1>1. TypeOK' BY DEF TypeOK, Balancers, After
<1>2. FlagInv' BY DEF FlagInv, Past, Ending, QuietInv
<1>3. MapsInv' BY DEF MapsInv, Past
<1>4. ToldInv' BY DEF ToldInv, Stopping
<1>5. (CreatedInv /\ RoundInv /\ QuietInv /\ ThreadInv /\ StageInv /\ ClosedInv /\
       KeptInv /\ TornInv /\ NoNullBalancer)'
  BY DEF CreatedInv, RoundInv, QuietInv, ThreadInv, StageInv, ClosedInv, KeptInv, TornInv,
         NoNullBalancer
<1> QED BY <1>1, <1>2, <1>3, <1>4, <1>5

\* The server thread detaches the acceptor and ends.
LEMMA detachAcceptorKeeps == IInv /\ detachAcceptor => IInv'
<1> SUFFICES ASSUME IInv, detachAcceptor PROVE IInv' OBVIOUS
<1> USE DEF IInv, detachAcceptor, serverAt, goOn
<1>1. TypeOK' BY DEF TypeOK, Balancers, After
<1>2. FlagInv' BY DEF FlagInv, Past
<1>3. MapsInv' BY DEF MapsInv, Past
<1>4. ToldInv' BY DEF ToldInv, Stopping
<1>5. (CreatedInv /\ RoundInv /\ QuietInv /\ ThreadInv /\ StageInv /\ ClosedInv /\
       KeptInv /\ TornInv /\ NoNullBalancer)'
  BY DEF CreatedInv, RoundInv, QuietInv, ThreadInv, StageInv, ClosedInv, KeptInv, TornInv,
         NoNullBalancer
<1> QED BY <1>1, <1>2, <1>3, <1>4, <1>5

\* main stops the server whenever Enter is pressed, early or late.
LEMMA pressEnterKeeps == IInv /\ pressEnter => IInv'
<1> SUFFICES ASSUME IInv, pressEnter PROVE IInv' OBVIOUS
<1> USE DEF IInv, pressEnter, goMain
<1>1. TypeOK' BY DEF TypeOK, Balancers, After
<1>2. StageInv' BY DEF StageInv, Balancers
<1>3. FlagInv' BY DEF FlagInv, Past, Ending, RoundInv
<1>4. MapsInv' BY DEF MapsInv, Past, Ending, RoundInv
<1>5. ClosedInv' BY DEF ClosedInv, Ending
<1>6. ToldInv' BY DEF ToldInv, Stopping, Balancers
<1>7. (CreatedInv /\ RoundInv /\ QuietInv /\ ThreadInv /\ KeptInv /\ TornInv /\
       NoNullBalancer)'
  BY DEF CreatedInv, RoundInv, QuietInv, ThreadInv, KeptInv, TornInv, NoNullBalancer
<1> QED BY <1>1, <1>2, <1>3, <1>4, <1>5, <1>6, <1>7

\* A stop begins with the flag.
LEMMA clearFlagKeeps == IInv /\ clearFlag => IInv'
<1> SUFFICES ASSUME IInv, clearFlag PROVE IInv' OBVIOUS
<1> USE DEF IInv, clearFlag, goMain
<1>1. TypeOK' BY DEF TypeOK, Balancers, After
<1>2. StageInv' BY DEF StageInv, Balancers
<1>3. FlagInv' BY DEF FlagInv, Past
<1>4. MapsInv' BY DEF MapsInv, Past, Ending
<1>5. ClosedInv' BY DEF ClosedInv, Ending
<1>6. ToldInv' BY DEF ToldInv, StageInv, Stopping, Balancers
<1>7. (CreatedInv /\ RoundInv /\ QuietInv /\ ThreadInv /\ KeptInv /\ TornInv /\
       NoNullBalancer)'
  BY DEF CreatedInv, RoundInv, QuietInv, ThreadInv, KeptInv, TornInv, NoNullBalancer
<1> QED BY <1>1, <1>2, <1>3, <1>4, <1>5, <1>6, <1>7

\* Where a stop goes from a balancer.
LEMMA NextBalancer ==
  main \in Balancers /\ nextBalancer =>
    /\ stage' = "tell"
    /\ \/ main = "chatroom" /\ main' = "user"
       \/ main = "user" /\ main' = "log"
       \/ main = "log" /\ main' = "acceptor"
BY DEF nextBalancer, goMain, Stops, Balancers

\* A balancer that does not exist is only passed by an early stop.
LEMMA skipBalancerKeeps == IInv /\ skipBalancer => IInv'
<1> SUFFICES ASSUME IInv, skipBalancer PROVE IInv' OBVIOUS
<1> USE DEF IInv, skipBalancer
<1>1. /\ stage' = "tell"
      /\ \/ main = "chatroom" /\ main' = "user"
         \/ main = "user" /\ main' = "log"
         \/ main = "log" /\ main' = "acceptor"
  BY NextBalancer
<1>2. round = 1 /\ early BY <1>1 DEF QuietInv, CreatedInv, TypeOK
<1>3. TypeOK' BY <1>1 DEF TypeOK, Balancers
<1>4. (FlagInv /\ MapsInv)' BY <1>2 DEF FlagInv, MapsInv, Past
<1>5. ClosedInv' BY <1>1, <1>2 DEF ClosedInv, Ending
<1>6. StageInv' BY <1>1, <1>2 DEF StageInv
<1>7. ToldInv' BY <1>1 DEF ToldInv, Stopping
<1>8. (CreatedInv /\ RoundInv /\ QuietInv /\ ThreadInv /\ KeptInv /\ TornInv /\
       NoNullBalancer)'
  BY <1>1, <1>2 DEF CreatedInv, RoundInv, QuietInv, ThreadInv, KeptInv, TornInv,
                    NoNullBalancer
<1> QED BY <1>3, <1>4, <1>5, <1>6, <1>7, <1>8

\* The managers in a map are told to stop, all unless it is being filled.
LEMMA tellManagersKeeps == IInv /\ tellManagers => IInv'
<1> SUFFICES ASSUME IInv, tellManagers PROVE IInv' OBVIOUS
<1> USE DEF IInv, stopAt
<1>1. /\ main \in Balancers /\ stage = "tell" /\ stage' = "join" /\ running' = running \ {main}
      /\ UNCHANGED <<main, round, early, joining, starting, managers, thread, mgr, balancer,
                     accepting, object>>
  BY DEF tellManagers
<1>2. /\ shouldDoWork' \subseteq shouldDoWork
      /\ shouldDoWork \ shouldDoWork' \subseteq managers[main]
      /\ torn \subseteq torn' /\ torn' \subseteq torn \cup {main}
      /\ torn' # torn => server = "manage"
      /\ main \notin torn' => managers[main] \cap shouldDoWork' = {}
  BY DEF tellManagers
<1>3. TypeOK'
  <2>1. shouldDoWork' \subseteq Managers /\ torn' \subseteq Balancers BY <1>1, <1>2 DEF TypeOK
  <2> QED BY <1>1, <2>1 DEF TypeOK
<1>4. (FlagInv /\ MapsInv)' BY <1>1 DEF FlagInv, MapsInv, Past
<1>5. StageInv' BY <1>1 DEF StageInv
<1>6. KeptInv' BY <1>1, <1>2 DEF KeptInv
<1>7. ToldInv' BY <1>1, <1>2 DEF ToldInv, Stopping
<1>8. TornInv' BY <1>1, <1>2 DEF TornInv, QuietInv, Balancers
<1>9. (CreatedInv /\ RoundInv /\ QuietInv /\ ThreadInv /\ ClosedInv /\ NoNullBalancer)'
  BY <1>1 DEF CreatedInv, RoundInv, QuietInv, ThreadInv, ClosedInv, NoNullBalancer
<1> QED BY <1>3, <1>4, <1>5, <1>6, <1>7, <1>8, <1>9

\* Only an early stop finds a thread that can be joined.
LEMMA findJoinableKeeps == IInv /\ findJoinable => IInv'
<1> SUFFICES ASSUME IInv, findJoinable PROVE IInv' OBVIOUS
<1> USE DEF IInv, findJoinable, stopAt
<1>1. \E m \in Joinable : joining' = {m} OBVIOUS
<1>2. server = "release" BY <1>1 DEF ThreadInv, Joinable
<1>3. round = 1 /\ early BY <1>2 DEF QuietInv, TypeOK, Balancers
<1>4. TypeOK' BY <1>1 DEF TypeOK, Joinable
<1>5. (FlagInv /\ MapsInv)' BY DEF FlagInv, MapsInv, Past
<1>6. StageInv' BY <1>3 DEF StageInv
<1>7. ToldInv' BY DEF ToldInv, Stopping
<1>8. (CreatedInv /\ RoundInv /\ QuietInv /\ ThreadInv /\ ClosedInv /\ KeptInv /\ TornInv /\
       NoNullBalancer)'
  BY DEF CreatedInv, RoundInv, QuietInv, ThreadInv, ClosedInv, KeptInv, TornInv,
         NoNullBalancer
<1> QED BY <1>4, <1>5, <1>6, <1>7, <1>8

\* So only an early stop joins one, or fails to.
LEMMA joinManagerKeeps == IInv /\ joinManager => IInv'
<1> SUFFICES ASSUME IInv, joinManager PROVE IInv' OBVIOUS
<1> USE DEF IInv, joinManager, stopAt, goMain
<1>1. round = 1 /\ early BY DEF StageInv, TypeOK
<1>2. \/ main' = "aborted" /\ stage' = stage
      \/ main' = main /\ stage' = "wait"
  OBVIOUS
<1>3. TypeOK' BY <1>2 DEF TypeOK
<1>4. (FlagInv /\ MapsInv)' BY <1>1 DEF FlagInv, MapsInv, Past
<1>5. ClosedInv' BY <1>1, <1>2 DEF ClosedInv, Ending
<1>6. StageInv' BY <1>1, <1>2 DEF StageInv
<1>7. ToldInv' BY <1>2 DEF ToldInv, Stopping, Balancers
<1>8. RoundInv' BY <1>1, <1>2 DEF RoundInv
<1>9. (CreatedInv /\ QuietInv /\ ThreadInv /\ KeptInv /\ TornInv /\ NoNullBalancer)'
  BY <1>1, <1>2 DEF CreatedInv, QuietInv, ThreadInv, KeptInv, TornInv, NoNullBalancer
<1> QED BY <1>3, <1>4, <1>5, <1>6, <1>7, <1>8, <1>9

\* A joined thread cannot be joined again.
LEMMA managerJoinedKeeps == IInv /\ managerJoined => IInv'
<1> SUFFICES ASSUME IInv, managerJoined PROVE IInv' OBVIOUS
<1> USE DEF IInv, managerJoined, stopAt
<1>1. TypeOK' BY DEF TypeOK
<1>2. FlagInv' BY DEF FlagInv, Past
<1>3. MapsInv' BY DEF MapsInv, Past
<1>4. ToldInv' BY DEF ToldInv, Stopping
<1>5. (CreatedInv /\ RoundInv /\ QuietInv /\ ThreadInv /\ StageInv /\ ClosedInv /\
       KeptInv /\ TornInv /\ NoNullBalancer)'
  BY DEF CreatedInv, RoundInv, QuietInv, ThreadInv, StageInv, ClosedInv, KeptInv, TornInv,
         NoNullBalancer
<1> QED BY <1>1, <1>2, <1>3, <1>4, <1>5

\* The loop over the threads ends.
LEMMA allJoinedKeeps == IInv /\ allJoined => IInv'
<1> SUFFICES ASSUME IInv, allJoined PROVE IInv' OBVIOUS
<1> USE DEF IInv, allJoined, stopAt
<1>1. TypeOK' BY DEF TypeOK
<1>2. FlagInv' BY DEF FlagInv, Past
<1>3. MapsInv' BY DEF MapsInv, Past
<1>4. ToldInv' BY DEF ToldInv, Stopping
<1>5. (CreatedInv /\ RoundInv /\ QuietInv /\ ThreadInv /\ StageInv /\ ClosedInv /\
       KeptInv /\ TornInv /\ NoNullBalancer)'
  BY DEF CreatedInv, RoundInv, QuietInv, ThreadInv, StageInv, ClosedInv, KeptInv, TornInv,
         NoNullBalancer
<1> QED BY <1>1, <1>2, <1>3, <1>4, <1>5

\* The managers left running while their map is cleared are those of a torn one.
LEMMA clearManagersKeeps == IInv /\ clearManagers => IInv'
<1> SUFFICES ASSUME IInv, clearManagers PROVE IInv' OBVIOUS
<1> USE DEF IInv, stopAt
<1>1. /\ main \in Balancers /\ stage = "clear"
      /\ UNCHANGED <<round, early, joining, starting, shouldDoWork, torn, thread, workers,
                     accepting, object>>
  BY DEF clearManagers
<1>2. CASE Of[main] \cap Joinable = {}
  <2>1. managers' = [managers EXCEPT ![main] = {}] /\ nextBalancer
    BY <1>2 DEF clearManagers
  <2>2. /\ stage' = "tell"
        /\ \/ main = "chatroom" /\ main' = "user"
           \/ main = "user" /\ main' = "log"
           \/ main = "log" /\ main' = "acceptor"
    BY <1>1, <2>1, NextBalancer
  <2>3. /\ managers' \in [Balancers -> SUBSET Managers] /\ managers'[main] = {}
        /\ \A b \in Balancers : b # main => managers'[b] = managers[b]
    BY <1>1, <2>1 DEF TypeOK
  <2>4. TypeOK'
    <3>1. \A b \in Balancers : managers'[b] \subseteq Of[b] BY <1>1, <2>3 DEF TypeOK
    <3>2. main' \in Balancers \cup {"acceptor"} BY <2>2 DEF Balancers
    <3> QED BY <1>1, <2>2, <2>3, <3>1, <3>2 DEF TypeOK
  <2>5. FlagInv' BY <1>1, <2>2 DEF FlagInv, Past
  <2>6. MapsInv'
    <3>1. CASE main = "chatroom"
      BY <1>1, <2>2, <2>3, <3>1 DEF MapsInv, Past, Ending, Balancers
    <3>2. CASE main = "user"
      BY <1>1, <2>2, <2>3, <3>2 DEF MapsInv, Past, Ending, Balancers
    <3>3. CASE main = "log"
      BY <1>1, <2>2, <2>3, <3>3 DEF MapsInv, Past, Ending, Balancers
    <3> QED BY <2>2, <3>1, <3>2, <3>3
  <2>7. ClosedInv' BY <1>1, <2>2 DEF ClosedInv, Ending
  <2>8. joining = {} BY <1>1 DEF StageInv, Balancers
  <2>9. StageInv' BY <1>1, <2>2, <2>8 DEF StageInv
  <2>10. KeptInv'
    <3> SUFFICES ASSUME NEW m \in shouldDoWork
                 PROVE  \E b \in Balancers : m \in Of[b] /\ (m \in managers'[b] \/ b \in torn)
      BY <1>1 DEF KeptInv
    <3>1. PICK b \in Balancers : m \in Of[b] /\ (m \in managers[b] \/ b \in torn)
      BY DEF KeptInv
    <3>2. b = main /\ m \in managers[b] => b \in torn BY <1>1 DEF ToldInv, Stopping
    <3> QED BY <2>3, <3>1, <3>2
  <2>11. ToldInv' BY <2>2 DEF ToldInv, Stopping
  <2>12. (CreatedInv /\ RoundInv /\ QuietInv /\ ThreadInv /\ TornInv /\ NoNullBalancer)'
    BY <1>1, <2>2 DEF CreatedInv, RoundInv, QuietInv, ThreadInv, TornInv, NoNullBalancer
  <2> QED BY <2>4, <2>5, <2>6, <2>7, <2>9, <2>10, <2>11, <2>12
<1>3. CASE Of[main] \cap Joinable # {}
  <2>1. main' = "aborted" /\ UNCHANGED <<managers, stage>> BY <1>3 DEF clearManagers, goMain
  <2>2. server = "release" BY <1>3 DEF ThreadInv, Joinable
  <2>3. round = 1 /\ early BY <1>1, <2>2 DEF QuietInv, TypeOK, Balancers
  <2>4. TypeOK' BY <1>1, <2>1 DEF TypeOK
  <2>5. (FlagInv /\ MapsInv)' BY <1>1, <2>3 DEF FlagInv, MapsInv, Past
  <2>6. ClosedInv' BY <1>1, <2>1, <2>3 DEF ClosedInv, Ending
  <2>7. (RoundInv /\ StageInv)' BY <1>1, <2>1, <2>3 DEF RoundInv, StageInv
  <2>8. ToldInv' BY <2>1 DEF ToldInv, Stopping, Balancers
  <2>9. (CreatedInv /\ QuietInv /\ ThreadInv /\ KeptInv /\ TornInv /\ NoNullBalancer)'
    BY <1>1, <2>1, <2>3 DEF CreatedInv, QuietInv, ThreadInv, KeptInv, TornInv, NoNullBalancer
  <2> QED BY <2>4, <2>5, <2>6, <2>7, <2>8, <2>9
<1> QED BY <1>2, <1>3

\* Closing the acceptor touches no balancer.
LEMMA closeAcceptorKeeps == IInv /\ closeAcceptor => IInv'
<1> SUFFICES ASSUME IInv, closeAcceptor PROVE IInv' OBVIOUS
<1> USE DEF IInv, closeAcceptor, goMain
<1>1. TypeOK' BY DEF TypeOK
<1>2. StageInv' BY DEF StageInv, Balancers
<1>3. FlagInv' BY DEF FlagInv, Past
<1>4. MapsInv' BY DEF MapsInv, Past
<1>5. ClosedInv' BY DEF ClosedInv, Ending
<1>6. ToldInv' BY DEF ToldInv, Stopping, Balancers
<1>7. (CreatedInv /\ RoundInv /\ QuietInv /\ ThreadInv /\ KeptInv /\ TornInv /\
       NoNullBalancer)'
  BY DEF CreatedInv, RoundInv, QuietInv, ThreadInv, KeptInv, TornInv, NoNullBalancer
<1> QED BY <1>1, <1>2, <1>3, <1>4, <1>5, <1>6, <1>7

\* The handle is closed and reset.
LEMMA closeDatabaseKeeps == IInv /\ closeDatabase => IInv'
<1> SUFFICES ASSUME IInv, closeDatabase PROVE IInv' OBVIOUS
<1> USE DEF IInv, closeDatabase, goMain, close
<1>1. TypeOK' BY DEF TypeOK
<1>2. RoundInv' BY DEF RoundInv, TypeOK
<1>3. StageInv' BY DEF StageInv, Balancers
<1>4. FlagInv' BY DEF FlagInv, Past
<1>5. MapsInv' BY DEF MapsInv, Past
<1>6. ToldInv' BY DEF ToldInv, Stopping, Balancers
<1>7. (CreatedInv /\ QuietInv /\ ThreadInv /\ ClosedInv /\ KeptInv /\ TornInv /\
       NoNullBalancer)'
  BY DEF CreatedInv, QuietInv, ThreadInv, ClosedInv, KeptInv, TornInv, NoNullBalancer
<1> QED BY <1>1, <1>2, <1>3, <1>4, <1>5, <1>6, <1>7

\* The stop returns, the second one to the destructor.
LEMMA joinKeeps == IInv /\ join => IInv'
<1> SUFFICES ASSUME IInv, join PROVE IInv' OBVIOUS
<1> USE DEF IInv, join, goMain
<1>1. TypeOK' BY DEF TypeOK
<1>2. StageInv' BY DEF StageInv, Balancers
<1>3. FlagInv' BY DEF FlagInv, Past, Ending
<1>4. MapsInv' BY DEF MapsInv, Past, Ending
<1>5. ClosedInv' BY DEF ClosedInv, Ending
<1>6. ToldInv' BY DEF ToldInv, Stopping, Balancers
<1>7. (CreatedInv /\ RoundInv /\ QuietInv /\ ThreadInv /\ KeptInv /\ TornInv /\
       NoNullBalancer)'
  BY DEF CreatedInv, RoundInv, QuietInv, ThreadInv, KeptInv, TornInv, NoNullBalancer
<1> QED BY <1>1, <1>2, <1>3, <1>4, <1>5, <1>6, <1>7

\* Destroying the members ends no thread.
LEMMA destroyMembersKeeps == IInv /\ destroyMembers => IInv'
<1> SUFFICES ASSUME IInv, destroyMembers PROVE IInv' OBVIOUS
<1> USE DEF IInv, destroyMembers, goMain, close
<1>1. TypeOK' BY DEF TypeOK
<1>2. StageInv' BY DEF StageInv, Balancers
<1>3. FlagInv' BY DEF FlagInv, Past, Ending
<1>4. MapsInv' BY DEF MapsInv, Balancers
<1>5. ClosedInv' BY DEF ClosedInv, Ending
<1>6. ToldInv' BY DEF ToldInv, Stopping, Balancers
<1>7. (CreatedInv /\ RoundInv /\ QuietInv /\ ThreadInv /\ KeptInv /\ TornInv /\
       NoNullBalancer)'
  BY DEF CreatedInv, RoundInv, QuietInv, ThreadInv, KeptInv, TornInv, NoNullBalancer
<1> QED BY <1>1, <1>2, <1>3, <1>4, <1>5, <1>6, <1>7

\* main returns and every thread ends.
LEMMA exitKeeps == IInv /\ exit => IInv'
<1> SUFFICES ASSUME IInv, exit PROVE IInv' OBVIOUS
<1> USE DEF IInv, exit, goMain
<1>1. TypeOK' BY DEF TypeOK
<1>2. StageInv' BY DEF StageInv, Balancers
<1>3. FlagInv' BY DEF FlagInv, Past, Ending
<1>4. MapsInv' BY DEF MapsInv, Past, Ending
<1>5. ClosedInv' BY DEF ClosedInv, Ending
<1>6. ToldInv' BY DEF ToldInv, Stopping, Balancers
<1>7. (CreatedInv /\ RoundInv /\ QuietInv /\ ThreadInv /\ KeptInv /\ TornInv /\
       NoNullBalancer)'
  BY DEF CreatedInv, RoundInv, QuietInv, ThreadInv, KeptInv, TornInv, NoNullBalancer
<1> QED BY <1>1, <1>2, <1>3, <1>4, <1>5, <1>6, <1>7

-----------------------------------------------------------------------------
\* The steps of the detached threads.
threadStep ==
  \/ \E m \in Managers : setUpDatabaseConnection(m) \/ endManager(m)
  \/ \E b \in Balancers : enterWaitForWork(b) \/ pollWork(b)
  \/ testRunning \/ callAccept \/ accepted \/ acceptAborted
  \/ \E c \in Conns : registerClient(c)

\* They leave alone what main and the server thread work on.
LEMMA ThreadFrame ==
  threadStep => UNCHANGED <<starting, stopping, maps, isRunning, acceptorOpen, handle, destroyed>>
<1>1. ASSUME NEW m \in Managers
      PROVE  setUpDatabaseConnection(m) \/ endManager(m)
               => UNCHANGED <<starting, stopping, maps, isRunning, acceptorOpen, handle, destroyed>>
  BY DEF setUpDatabaseConnection, endManager
<1>2. ASSUME NEW b \in Balancers
      PROVE  enterWaitForWork(b) \/ pollWork(b)
               => UNCHANGED <<starting, stopping, maps, isRunning, acceptorOpen, handle, destroyed>>
  BY DEF enterWaitForWork, pollWork
<1>3. ASSUME NEW c \in Conns
      PROVE  registerClient(c)
               => UNCHANGED <<starting, stopping, maps, isRunning, acceptorOpen, handle, destroyed>>
  BY DEF registerClient
<1>4. testRunning \/ callAccept \/ accepted \/ acceptAborted
        => UNCHANGED <<starting, stopping, maps, isRunning, acceptorOpen, handle, destroyed>>
  BY DEF testRunning, callAccept, accepted, acceptAborted, acceptorStep
<1> QED BY <1>1, <1>2, <1>3, <1>4 DEF threadStep

\* They stay where they can be, and a connection comes only from the acceptor.
LEMMA ThreadPlaces ==
  IInv /\ threadStep =>
    /\ TypeOK'
    /\ acceptor' # "none" => acceptor # "none"
    /\ \A c \in Conns : conn'[c] # "none" => conn[c] # "none" \/ acceptor # "none"
    /\ "null" \notin wrong'
<1> SUFFICES ASSUME IInv, threadStep
             PROVE  /\ TypeOK'
                    /\ acceptor' # "none" => acceptor # "none"
                    /\ \A c \in Conns : conn'[c] # "none" => conn[c] # "none" \/ acceptor # "none"
                    /\ "null" \notin wrong'
  OBVIOUS
<1> USE DEF IInv, TypeOK, touch, NoNullBalancer
<1>1. ASSUME NEW m \in Managers, setUpDatabaseConnection(m) \/ endManager(m)
      PROVE  /\ TypeOK' /\ UNCHANGED <<acceptor, conn>> /\ "null" \notin wrong'
  <2>1. CASE setUpDatabaseConnection(m) BY <2>1 DEF setUpDatabaseConnection
  <2>2. CASE endManager(m) BY <2>2 DEF endManager
  <2> QED BY <1>1, <2>1, <2>2
<1>2. ASSUME NEW b \in Balancers, enterWaitForWork(b) \/ pollWork(b)
      PROVE  /\ TypeOK' /\ UNCHANGED <<acceptor, conn>> /\ "null" \notin wrong'
  <2>1. CASE enterWaitForWork(b)
    <3>1. balancer' = [balancer EXCEPT ![b] = "poll"] /\ running' = running \cup {b}
      BY <2>1 DEF enterWaitForWork
    <3> QED BY <2>1, <3>1 DEF enterWaitForWork
  <2>2. CASE pollWork(b)
    <3>1. \/ balancer' = [balancer EXCEPT ![b] = balancer[b]]
          \/ balancer' = [balancer EXCEPT ![b] = "done"]
      BY <2>2 DEF pollWork
    <3> QED BY <2>2, <3>1 DEF pollWork
  <2> QED BY <1>2, <2>1, <2>2
<1>3. ASSUME NEW c \in Conns, registerClient(c)
      PROVE  /\ TypeOK' /\ acceptor' = acceptor /\ "null" \notin wrong'
             /\ \A d \in Conns : conn'[d] # "none" => conn[d] # "none"
  <2>1. conn[c] # "none" /\ created = Balancers BY <1>3 DEF registerClient, CreatedInv
  <2> QED BY <1>3, <2>1 DEF registerClient, Balancers
<1>4. ASSUME testRunning \/ callAccept \/ acceptAborted
      PROVE  /\ TypeOK' /\ conn' = conn /\ acceptor # "none" /\ "null" \notin wrong'
  BY <1>4 DEF testRunning, callAccept, acceptAborted, acceptorStep
<1>5. ASSUME accepted
      PROVE  /\ TypeOK' /\ acceptor # "none" /\ "null" \notin wrong'
  BY <1>5 DEF accepted, acceptorStep
<1> QED BY <1>1, <1>2, <1>3, <1>4, <1>5 DEF threadStep

\* The steps of all other threads keep the inductive invariant.
LEMMA ThreadKeeps == IInv /\ threadStep => IInv'
<1> SUFFICES ASSUME IInv, threadStep PROVE IInv' OBVIOUS
<1> USE ThreadFrame DEF IInv
<1>1. TypeOK' /\ NoNullBalancer' BY ThreadPlaces DEF NoNullBalancer
<1>2. CreatedInv' BY ThreadPlaces DEF CreatedInv
<1>3. (RoundInv /\ QuietInv /\ ThreadInv /\ StageInv /\ ClosedInv /\ TornInv)'
  BY DEF RoundInv, QuietInv, ThreadInv, StageInv, ClosedInv, TornInv
<1>4. (FlagInv /\ MapsInv)' BY DEF FlagInv, MapsInv, Past
<1>5. (KeptInv /\ ToldInv)' BY DEF KeptInv, ToldInv, Stopping
<1> QED BY <1>1, <1>2, <1>3, <1>4, <1>5

\* Nothing has been created when main starts.
LEMMA InitIInv == Init => IInv
<1> SUFFICES ASSUME Init PROVE IInv OBVIOUS
<1> USE DEF Init, After
<1>1. TypeOK BY DEF TypeOK
<1>2. CreatedInv /\ RoundInv /\ QuietInv /\ ThreadInv /\ StageInv /\ ClosedInv /\ TornInv
  BY DEF CreatedInv, RoundInv, QuietInv, ThreadInv, StageInv, ClosedInv, TornInv, Ending
<1>3. FlagInv /\ MapsInv BY DEF FlagInv, MapsInv, Past, Ending
<1>4. KeptInv /\ ToldInv /\ NoNullBalancer BY DEF KeptInv, ToldInv, Stopping, NoNullBalancer
<1> QED BY <1>1, <1>2, <1>3, <1>4 DEF IInv

\* A step that changes nothing keeps everything.
LEMMA StutterKeeps == IInv /\ UNCHANGED vars => IInv'
<1> SUFFICES ASSUME IInv, UNCHANGED vars PROVE IInv' OBVIOUS
<1> USE DEF vars, IInv
<1>1. TypeOK' BY DEF TypeOK
<1>2. (CreatedInv /\ RoundInv /\ QuietInv /\ ThreadInv /\ StageInv /\ ClosedInv /\ TornInv)'
  BY DEF CreatedInv, RoundInv, QuietInv, ThreadInv, StageInv, ClosedInv, TornInv
<1>3. (FlagInv /\ MapsInv)' BY DEF FlagInv, MapsInv, Past
<1>4. (KeptInv /\ ToldInv /\ NoNullBalancer)'
  BY DEF KeptInv, ToldInv, Stopping, NoNullBalancer
<1> QED BY <1>1, <1>2, <1>3, <1>4

\* Every step keeps the inductive invariant.
LEMMA NextKeeps == IInv /\ [Next]_vars => IInv'
<1>1. startServer /\ IInv => IInv'
  BY createBalancerKeeps, addManagerKeeps, startManagerThreadKeeps, detachManagerThreadKeeps,
     managersAddedKeeps, detachBalancersKeeps, localEndpointKeeps, setRunningKeeps,
     detachAcceptorKeeps DEF startServer
<1>2. stopServer /\ IInv => IInv'
  BY clearFlagKeeps, skipBalancerKeeps, tellManagersKeeps, findJoinableKeeps, joinManagerKeeps,
     managerJoinedKeeps, allJoinedKeeps, clearManagersKeeps, closeAcceptorKeeps,
     closeDatabaseKeeps, joinKeeps, destroyMembersKeeps, exitKeeps
     DEF stopServer, stopAllThreads
<1>3. [Next]_vars => \/ startServer \/ stopServer \/ pressEnter \/ threadStep
                     \/ UNCHANGED vars
  BY DEF Next, threadStep, terminated
<1> QED BY <1>1, <1>2, <1>3, pressEnterKeeps, ThreadKeeps, StutterKeeps

\* The invariant holds throughout, for any managers and connections.
THEOREM Invariance == Spec => []IInv
<1> QED BY InitIInv, NextKeeps, PTL DEF Spec

\* The types of the flags, the maps and the threads' places.
THEOREM TypeOKAlways == Spec => []TypeOK
<1>1. IInv => TypeOK BY DEF IInv
<1> QED BY <1>1, Invariance, PTL

\* A registration thread finds the user balancer it pushes to, however early the stop
\* comes: a connection is accepted only after all three were made
\* (Server.cpp:17-37, 99-117, 168).
THEOREM NoNullBalancerAlways == Spec => []NoNullBalancer
<1>1. IInv => NoNullBalancer BY DEF IInv
<1> QED BY <1>1, Invariance, PTL

\* A manager left running while its map is empty was torn from a map being filled.
LEMMA AllTold ==
  ASSUME IInv, \A b \in Balancers : managers[b] = {}
  PROVE  \A m \in shouldDoWork : \E b \in torn : m \in Of[b]
BY DEF IInv, KeptInv

\* After a stop that found the server started, nothing it stops is left
\* (Server.cpp:67-91, LoadBalancer.cpp:79-96).
THEOREM LateStopIsCompleteAlways == Spec => []LateStopIsComplete
<1>1. IInv => LateStopIsComplete
  <2> SUFFICES ASSUME IInv, ~ early, main = "join" \/ round = 2
               PROVE  Stopped /\ torn = {}
    BY DEF LateStopIsComplete
  <2>1. Past({"join"}) BY DEF Past
  <2>2. ~ isRunning /\ \A b \in Balancers : managers[b] = {}
    BY <2>1 DEF IInv, FlagInv, MapsInv, Past, Ending, Balancers
  <2>3. ~ acceptorOpen /\ handle = "null" BY DEF IInv, ClosedInv, Ending
  <2>4. torn = {} BY DEF IInv, TornInv
  <2> QED BY <2>2, <2>3, <2>4, AllTold DEF Stopped
<1> QED BY <1>1, Invariance, PTL

\* A stop that finds the server started joins no thread and never aborts
\* (LoadBalancer.cpp:20, 88-92).
THEOREM LateStopDoesNotWaitAlways == Spec => []LateStopDoesNotWait
<1>1. IInv => LateStopDoesNotWait
  BY DEF IInv, StageInv, RoundInv, TypeOK, LateStopDoesNotWait
<1> QED BY <1>1, Invariance, PTL

\* After the destructor's stop nothing is left either, however early the first one was
\* and whatever it met, but for managers in a map that was filled while it was stopped
\* (Server.hpp:67, LoadBalancer.cpp:12-20, 82-95).
THEOREM SecondStopIsCompleteAlways == Spec => []SecondStopIsComplete
<1>1. IInv => SecondStopIsComplete
  <2> SUFFICES ASSUME IInv, main \in {"members", "return", "exited"} PROVE Stopped
    BY DEF SecondStopIsComplete
  <2>1. round = 2 BY DEF IInv, RoundInv
  <2>2. ~ isRunning /\ \A b \in Balancers : managers[b] = {}
    BY <2>1 DEF IInv, FlagInv, MapsInv, Past, Ending, Balancers
  <2>3. ~ acceptorOpen /\ handle = "null" BY <2>1 DEF IInv, ClosedInv
  <2> QED BY <2>2, <2>3, AllTold DEF Stopped
<1> QED BY <1>1, Invariance, PTL
=============================================================================
