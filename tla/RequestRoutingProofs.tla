------------------------- MODULE RequestRoutingProofs -------------------------
(* The answers to one client's requests, for any managers, any types of        *)
(* request and any number of them.                                             *)
EXTENDS RequestRouting, TLAPS

Writing == {"find", "size", "body"}

\* A manager reads no stream and ends never, the handler is never idle, and only a
\* manager sends a second time.
PlacesInv ==
  /\ \A m \in Managers : pc[m] \in Writing \cup {"idle", "remove"}
  /\ pc[Handler] \in Writing \cup {"look", "read", "remove", "done"}
  /\ \A r \in Registrars : pc[r] \in Writing \cup {"idle", "done"}
  /\ \A t \in Threads \ Managers : ~ failed[t]

\* A request is with the managers its type is routed to, a LOGOUT that names the client
\* alone goes on to the removal, the handler answers what has no balancer, and a
\* registration thread the message its connection began with.
ServesInv ==
  /\ \A b \in Balancers : \A n \in workQueue[b] :
       sent[n].type \in Routed[b] /\ sent[n].via \in {"own", "other"}
  /\ \A m \in LogManagers : pc[m] = "idle"
  /\ \A m \in Managers : pc[m] # "idle" =>
       /\ job[m] # 0 /\ sent[job[m]].via \in {"own", "other"}
       /\ sent[job[m]].type \in UserTypes \cup ChatroomTypes
  /\ \A m \in Managers : pc[m] = "remove" => Ends(job[m])
  /\ pc[Handler] \in Writing =>
       /\ job[Handler] # 0 /\ sent[job[Handler]].type \in RegistrationTypes
       /\ sent[job[Handler]].via \in {"own", "away"}
  /\ \A r \in Registrars : pc[r] \in Writing => job[r] # 0 /\ sent[job[r]].via = "first"

\* No two threads answer the same request, and none answers one that still waits.
OwnInv ==
  /\ \A s, t \in Threads :
       pc[s] \in Writing /\ pc[t] \in Writing /\ job[s] = job[t] => s = t
  /\ \A t \in Threads : \A b \in Balancers :
       pc[t] \in Writing => job[t] \notin workQueue[b]

\* An answered request is with nobody any more.
AnsweredInv ==
  \A n \in DOMAIN sent : Answered(n) =>
    /\ \A b \in Balancers : n \notin workQueue[b]
    /\ \A t \in Threads : pc[t] \in Writing => job[t] # n

Reachable == registered /\ present

\* Only where nothing can be delivered any more has a send failed, and only there has
\* the handler stopped reading.
EndInv ==
  /\ \A m \in Managers : pc[m] # "idle" /\ failed[m] => ~ Reachable
  /\ pc[Handler] \in {"remove", "done"} => ~ Reachable

\* A client that waits and that nobody else names has no request out but its last.
Calm == waits /\ \A n \in DOMAIN sent : Mine(n)

InTurn ==
  Calm => \A n \in DOMAIN sent : n < Len(sent) /\ AnsweredHere(n) => Answered(n)

\* While messages can be delivered to it, the last part on the stream is a size for as
\* long as its body is being written, and for no longer.
Unfinished(t) == [part |-> "size", request |-> job[t], success |-> t \in Managers]

OpenFrame ==
  Calm /\ Reachable =>
    /\ \A t \in Threads : pc[t] = "body" =>
         Len(stream) % 2 = 1 /\ stream[Len(stream)] = Unfinished(t)
    /\ (\A t \in Threads : pc[t] # "body") => Len(stream) % 2 = 0

\* The frames, as a statement about the fields of the parts.
Framed(q, i) ==
  IF i % 2 = 1
    THEN q[i].part = "size"
    ELSE /\ q[i].part = "body"
         /\ q[i].request = q[i - 1].request
         /\ q[i].success = q[i - 1].success

WholeFrames == \A i \in DOMAIN stream : Framed(stream, i)

IInv ==
  /\ TypeOK
  /\ PlacesInv /\ ServesInv /\ OwnInv /\ AnsweredInv /\ EndInv /\ InTurn /\ OpenFrame
  /\ AnsweredOnce /\ OnlyMisplacedFail /\ SessionSurvives /\ (Calm => WholeFrames)

-----------------------------------------------------------------------------
(* The lemmas the steps share.                                             *)

\* No type has two balancers, and none of a balancer's types is one of registration.
LEMMA TypesAreDisjoint ==
  /\ Routed["user"] = UserTypes /\ Routed["chatroom"] = ChatroomTypes /\ Routed["log"] = LogTypes
  /\ \A b, d \in Balancers : b # d => Routed[b] \cap Routed[d] = {}
  /\ (UserTypes \cup ChatroomTypes) \cap LogTypes = {}
  /\ (UserTypes \cup ChatroomTypes \cup LogTypes) \cap RegistrationTypes = {}
  /\ "LOGOUT" \in UserTypes
BY DEF Routed, Balancers, UserTypes, ChatroomTypes, LogTypes, RegistrationTypes

\* Who writes to the client answers something that is answered there.
LEMMA WritersAnswer ==
  ASSUME IInv, NEW t \in Threads, pc[t] \in Writing
  PROVE  job[t] \in DOMAIN sent /\ AnsweredHere(job[t])
<1> USE DEF IInv
<1>1. job[t] \in Handed \cup {0} /\ Handed \subseteq DOMAIN sent BY DEF TypeOK, Handed
<1>2. CASE t \in Managers
  <2>1. pc[t] # "idle" BY DEF Writing
  <2> QED BY <1>1, <1>2, <2>1, TypesAreDisjoint DEF ServesInv, AnsweredHere
<1>3. CASE t = Handler
  BY <1>1, <1>3, TypesAreDisjoint DEF ServesInv, AnsweredHere
<1>4. CASE t \in Registrars BY <1>1, <1>4 DEF ServesInv, AnsweredHere
<1> QED BY <1>2, <1>3, <1>4 DEF Threads

\* While the client waits for its answers and nobody else names it, one thread at most
\* is writing to it.
LEMMA OneWriter ==
  ASSUME IInv, Calm, NEW s \in Threads, NEW t \in Threads, pc[s] \in Writing, pc[t] \in Writing
  PROVE  s = t
<1>1. ASSUME NEW r \in Threads, pc[r] \in Writing PROVE job[r] = Len(sent)
  <2>1. job[r] \in DOMAIN sent /\ AnsweredHere(job[r]) BY <1>1, WritersAnswer
  <2>2. DOMAIN sent = 1 .. Len(sent) /\ Len(sent) \in Nat BY DEF IInv, TypeOK
  <2>3. ~ Answered(job[r]) BY <1>1, <2>1 DEF IInv, AnsweredInv
  <2> QED BY <2>1, <2>2, <2>3 DEF IInv, InTurn
<1> QED BY <1>1 DEF IInv, OwnInv

\* A part that differs from another in its part only has its request and success.
LEMMA BodyOf ==
  ASSUME NEW S, NEW r \in [part : {"size", "body"}, request : S, success : BOOLEAN],
         NEW q \in [part : {"size", "body"}, request : S, success : BOOLEAN]
  PROVE  q = [r EXCEPT !.part = "body"]
           <=> q.part = "body" /\ q.request = r.request /\ q.success = r.success
OBVIOUS

\* Framed says of every part what FramesAreWhole does.
LEMMA FramesByField == ASSUME TypeOK PROVE FramesAreWhole <=> WholeFrames
<1> DEFINE Parts == [part : {"size", "body"}, request : Handed, success : BOOLEAN]
<1>1. stream \in Seq(Parts) BY DEF TypeOK
<1>2. \A i \in DOMAIN stream : stream[i] \in Parts
  <2> HIDE DEF Parts
  <2> QED BY <1>1
<1>3. \A i \in DOMAIN stream : i % 2 # 1 => i - 1 \in DOMAIN stream
  <2>1. 1 % 2 = 1 OBVIOUS
  <2>2. DOMAIN stream = 1 .. Len(stream) /\ Len(stream) \in Nat BY <1>1
  <2> QED BY <2>1, <2>2
<1>4. ASSUME NEW i \in DOMAIN stream, i % 2 # 1
      PROVE  stream[i] = [stream[i - 1] EXCEPT !.part = "body"] <=> Framed(stream, i)
  BY <1>2, <1>3, <1>4, BodyOf DEF Framed
<1>5. \A i \in DOMAIN stream : i % 2 = 1 => (Framed(stream, i) <=> stream[i].part = "size")
  BY DEF Framed
<1> QED BY <1>4, <1>5 DEF FramesAreWhole, WholeFrames

\* What was delivered stays delivered.
LEMMA DeliveredStays ==
  ASSUME TypeOK, NEW n, Answered(n), NEW e, stream' = stream \/ stream' = Append(stream, e)
  PROVE  Answered(n)'
<1>1. stream \in Seq([part : {"size", "body"}, request : Handed, success : BOOLEAN])
  BY DEF TypeOK
<1> QED BY <1>1 DEF Answered

\* The server starts with nothing asked and nobody at work.
LEMMA InitIInv == Init => IInv
<1> SUFFICES ASSUME Init PROVE IInv OBVIOUS
<1> USE ConstantsAssumption DEF Init
<1>1. TypeOK BY DEF TypeOK, Threads
<1>2. PlacesInv /\ ServesInv BY DEF PlacesInv, ServesInv, Writing, Managers, Threads
<1>3. OwnInv /\ AnsweredInv BY DEF OwnInv, AnsweredInv, Writing
<1>4. EndInv /\ InTurn /\ OpenFrame
  <2>1. Len(stream) % 2 = 0 BY 0 % 2 = 0
  <2>2. \A t \in Threads : pc[t] # "body" OBVIOUS
  <2>3. OpenFrame BY <2>1, <2>2 DEF OpenFrame
  <2>4. EndInv BY DEF EndInv, Managers, Threads
  <2> QED BY <2>3, <2>4 DEF InTurn
<1>5. AnsweredOnce /\ OnlyMisplacedFail /\ SessionSurvives /\ WholeFrames
  BY DEF AnsweredOnce, OnlyMisplacedFail, SessionSurvives, WholeFrames
<1> QED BY <1>1, <1>2, <1>3, <1>4, <1>5 DEF IInv

-----------------------------------------------------------------------------
(* The steps of an answer.                                                 *)

\* After an answer the handler reads on, a registration thread ends, and only a LOGOUT
\* goes on to the removal.
LEMMA AfterAnswer ==
  ASSUME IInv, NEW t \in Threads, pc[t] \in Writing
  PROVE  /\ t = Handler => afterAnswer(t) = "look"
         /\ t \in Registrars => afterAnswer(t) = "done"
         /\ t \in Managers => \/ afterAnswer(t) = "idle"
                              \/ afterAnswer(t) = "remove" /\ Ends(job[t])
         /\ afterAnswer(t) \in {"look", "done", "idle", "remove"}
<1>1. CASE t = Handler BY <1>1, ConstantsAssumption DEF afterAnswer
<1>2. CASE t \in Registrars BY <1>2, ConstantsAssumption DEF afterAnswer
<1>3. CASE t \in Managers
  <2>1. sent[job[t]].via \in {"own", "other"} BY <1>3 DEF IInv, ServesInv, Writing
  <2>2. afterAnswer(t) = IF sent[job[t]].type = "LOGOUT" THEN "remove" ELSE "idle"
    BY <1>3, ConstantsAssumption DEF afterAnswer
  <2> QED BY <1>3, <2>1, <2>2, ConstantsAssumption DEF Ends
<1> QED BY <1>1, <1>2, <1>3 DEF Threads

\* What has been read stays read.
LEMMA HandedStays == UNCHANGED <<sent, taken>> => Handed' = Handed
BY DEF Handed, Mine

\* Nothing new is sent, so who is named does not change.
LEMMA SentStays ==
  UNCHANGED <<sent, waits, stream>> =>
    /\ Calm' = Calm
    /\ \A n : /\ Answered(n)' = Answered(n) /\ AnsweredHere(n)' = AnsweredHere(n)
              /\ Mine(n)' = Mine(n) /\ Ends(n)' = Ends(n)
BY DEF Calm, Answered, AnsweredHere, Mine, Ends

\* A thread that goes on without delivering anything, because it has only found the
\* socket or because nothing can be delivered any more.
LEMMA QuietKeeps ==
  ASSUME IInv, NEW t \in Threads, pc[t] \in Writing, NEW p,
         p \in Writing \/ p = afterAnswer(t),
         pc' = [pc EXCEPT ![t] = p],
         \/ failed' = failed
         \/ /\ t \in Managers /\ ~ Reachable
            /\ failed' = [failed EXCEPT ![t] = TRUE],
         ~ Reachable \/ (pc[t] = "find" /\ p = "size"),
         UNCHANGED <<waits, sent, present, taken, workQueue, registered, job, stream>>
  PROVE  IInv'
<1> USE DEF IInv
<1>0. p \in Writing \cup {"look", "done", "idle", "remove"} BY AfterAnswer
<1>1. \A s \in Threads : s # t => pc'[s] = pc[s] /\ failed'[s] = failed[s] BY DEF TypeOK
<1>2. pc'[t] = p BY DEF TypeOK
<1>3. TypeOK'
  <2>1. pc' \in [Threads -> {"look", "read", "idle", "find", "size", "body", "remove", "done"}]
    BY <1>0 DEF TypeOK, Writing
  <2>2. failed' \in [Threads -> BOOLEAN] BY DEF TypeOK
  <2> QED BY <2>1, <2>2, HandedStays DEF TypeOK
<1>4. PlacesInv'
  BY <1>1, <1>2, <1>0, AfterAnswer, ConstantsAssumption DEF PlacesInv, Threads, TypeOK
<1>5. ServesInv'
  BY <1>0, <1>1, <1>2, AfterAnswer, ConstantsAssumption
     DEF ServesInv, Threads, Managers, Writing, Ends
<1>6. OwnInv' BY <1>1, <1>2, AfterAnswer DEF OwnInv
<1>7. AnsweredInv' BY <1>1, <1>2 DEF AnsweredInv, Answered
<1>8. EndInv' BY <1>1, <1>2, <1>0, AfterAnswer, ConstantsAssumption
         DEF EndInv, Threads, Reachable, TypeOK, Writing
<1>9. InTurn' BY SentStays DEF InTurn
<1>10. (AnsweredOnce /\ OnlyMisplacedFail /\ SessionSurvives)'
  BY DEF AnsweredOnce, OnlyMisplacedFail, SessionSurvives, Ends
<1>11. OpenFrame' BY <1>1, <1>2, SentStays DEF OpenFrame, Reachable, Unfinished, Writing
<1>12. (Calm => WholeFrames)' BY SentStays DEF WholeFrames
<1> QED BY <1>3, <1>4, <1>5, <1>6, <1>7, <1>8, <1>9, <1>10, <1>11, <1>12

\* Sizes have the odd places, bodies the even ones.
LEMMA Parity ==
  ASSUME NEW k \in Nat
  PROVE  /\ k % 2 = 0 \/ k % 2 = 1
         /\ k % 2 = 0 => (k + 1) % 2 = 1
         /\ k % 2 = 1 => (k + 1) % 2 = 0 /\ k # 0
OBVIOUS

\* What appending a part does to a sequence of parts.
LEMMA Appended ==
  ASSUME NEW S, NEW q \in Seq(S), NEW e \in S, NEW r, r = Append(q, e)
  PROVE  /\ r \in Seq(S) /\ Len(q) \in Nat /\ Len(r) = Len(q) + 1
         /\ DOMAIN q = 1 .. Len(q) /\ DOMAIN r = 1 .. (Len(q) + 1)
         /\ r[Len(q) + 1] = e
         /\ \A i \in 1 .. Len(q) : r[i] = q[i]
OBVIOUS

\* A body fits a size of the same request.
LEMMA BodyFits ==
  ASSUME NEW n \in Nat, NEW r, (n + 1) % 2 = 0, r[n + 1].part = "body",
         r[n + 1].request = r[n].request, r[n + 1].success = r[n].success
  PROVE  Framed(r, n + 1)
<1>1. n + 1 - 1 = n OBVIOUS
<1> QED BY <1>1 DEF Framed

\* A part that fits the one before it leaves the frames whole.
LEMMA FramesExtended ==
  ASSUME NEW n \in Nat, NEW q, NEW r, DOMAIN q = 1 .. n, DOMAIN r = 1 .. (n + 1),
         \A i \in 1 .. n : r[i] = q[i],
         \A i \in DOMAIN q : Framed(q, i),
         Framed(r, n + 1)
  PROVE  \A i \in DOMAIN r : Framed(r, i)
<1>1. SUFFICES ASSUME NEW i \in 1 .. n PROVE Framed(r, i)
  <2>1. DOMAIN r = 1 .. n \cup {n + 1} OBVIOUS
  <2> QED BY <1>1, <2>1
<1>2. r[i] = q[i] /\ Framed(q, i) OBVIOUS
<1>3. CASE i = 1
  <2>1. 1 % 2 = 1 OBVIOUS
  <2> QED BY <1>2, <1>3, <2>1 DEF Framed
<1>4. CASE i # 1
  <2>1. i - 1 \in 1 .. n BY <1>4
  <2>2. r[i - 1] = q[i - 1] BY <2>1
  <2> QED BY <1>2, <2>2 DEF Framed
<1> QED BY <1>3, <1>4

\* What a thread delivers names its request, and is a failure where the message is out of
\* place only.
LEMMA PartDelivered ==
  ASSUME IInv, Reachable, NEW t \in Threads, pc[t] \in Writing, NEW part
  PROVE  /\ Part(t, part) = [part |-> part, request |-> job[t], success |-> t \in Managers]
         /\ job[t] \in Handed
         /\ t \in Managers <=> /\ sent[job[t]].via # "first"
                               /\ sent[job[t]].type \notin RegistrationTypes
<1> USE DEF IInv
<1>1. ~ failed[t] BY DEF EndInv, PlacesInv, Threads, Writing
<1>2. job[t] \in Handed BY DEF TypeOK, ServesInv, Threads, Writing
<1>3. t \in Managers <=> /\ sent[job[t]].via # "first"
                         /\ sent[job[t]].type \notin RegistrationTypes
  BY TypesAreDisjoint, ConstantsAssumption DEF ServesInv, Threads, Writing
<1> QED BY <1>1, <1>2, <1>3 DEF Part

\* The size of an answer follows whole frames only, since nobody else is writing.
LEMMA SizeDelivered ==
  ASSUME IInv, Reachable, NEW t \in Threads, pc[t] = "size",
         pc' = [pc EXCEPT ![t] = "body"],
         stream' = Append(stream, Part(t, "size")),
         UNCHANGED <<waits, sent, present, taken, workQueue, registered, job, failed>>
  PROVE  IInv'
<1> USE DEF IInv
<1> DEFINE n == Len(stream)
           e == [part |-> "size", request |-> job[t], success |-> t \in Managers]
<1>0. pc[t] \in Writing BY DEF Writing
<1>1. \A s \in Threads : s # t => pc'[s] = pc[s] BY DEF TypeOK
<1>2. pc'[t] = "body" BY DEF TypeOK
<1>3. stream' = Append(stream, e) /\ e \in [part : {"size", "body"}, request : Handed,
                                             success : BOOLEAN]
  BY <1>0, PartDelivered
<1>4. /\ n \in Nat /\ Len(stream') = n + 1 /\ DOMAIN stream = 1 .. n
      /\ DOMAIN stream' = 1 .. (n + 1) /\ stream'[n + 1] = e
      /\ \A i \in 1 .. n : stream'[i] = stream[i]
      /\ stream' \in Seq([part : {"size", "body"}, request : Handed, success : BOOLEAN])
  <2>1. stream \in Seq([part : {"size", "body"}, request : Handed, success : BOOLEAN])
    BY DEF TypeOK
  <2> HIDE DEF e
  <2> QED BY <2>1, <1>3, Appended
<1>5. TypeOK'
  <2>1. pc' \in [Threads -> {"look", "read", "idle", "find", "size", "body", "remove", "done"}]
    BY DEF TypeOK
  <2> HIDE DEF n, e
  <2> QED BY <1>4, <2>1, HandedStays DEF TypeOK
<1> HIDE DEF n
<1>6. PlacesInv' BY <1>1, <1>2, ConstantsAssumption DEF PlacesInv, Threads, TypeOK, Writing
<1>7. ServesInv'
  BY <1>1, <1>2, ConstantsAssumption DEF ServesInv, Threads, Managers, Writing, Ends
<1>8. OwnInv' BY <1>0, <1>1, <1>2 DEF OwnInv, Writing
<1>9. \A k : Answered(k)' = Answered(k) BY <1>4 DEF Answered
<1>10. AnsweredInv' BY <1>0, <1>1, <1>2, <1>9 DEF AnsweredInv, Writing
<1>11. EndInv' BY <1>1, <1>2, ConstantsAssumption DEF EndInv, Threads, Reachable
<1>12. InTurn' BY <1>9 DEF InTurn, Calm, AnsweredHere, Mine
<1>13. AnsweredOnce' BY <1>4 DEF AnsweredOnce
<1>14. OnlyMisplacedFail'
  <2>1. /\ e.request = job[t]
        /\ e.success <=> /\ sent[job[t]].via # "first"
                         /\ sent[job[t]].type \notin RegistrationTypes
    BY <1>0, PartDelivered
  <2> HIDE DEF e
  <2> QED BY <1>4, <2>1 DEF OnlyMisplacedFail
<1>15. SessionSurvives' BY DEF SessionSurvives, Ends
<1>16. ASSUME Calm PROVE n % 2 = 0 /\ (n + 1) % 2 = 1
  <2>1. \A s \in Threads : pc[s] # "body" BY <1>0, <1>16, OneWriter DEF Writing
  <2>2. n % 2 = 0 BY <1>16, <2>1 DEF OpenFrame, n
  <2> QED BY <1>4, <2>2, Parity
<1>17. OpenFrame'
  <2> SUFFICES ASSUME Calm PROVE OpenFrame' BY DEF OpenFrame, Calm, Mine
  <2>1. \A s \in Threads : s # t => pc'[s] # "body"
    BY <1>0, <1>1, OneWriter DEF Writing
  <2> QED BY <1>2, <1>4, <1>16, <2>1 DEF OpenFrame, Unfinished, Reachable
<1>18. (Calm => WholeFrames)'
  <2> SUFFICES ASSUME Calm PROVE WholeFrames' BY DEF Calm, Mine
  <2>1. Framed(stream', n + 1) BY <1>4, <1>16 DEF Framed
  <2>2. WholeFrames OBVIOUS
  <2> QED BY <1>4, <2>1, <2>2, FramesExtended DEF WholeFrames
<1> QED BY <1>5, <1>6, <1>7, <1>8, <1>10, <1>11, <1>12, <1>13, <1>14, <1>15, <1>17, <1>18

\* The body of an answer follows its own size, and the request is done with.
LEMMA BodyDelivered ==
  ASSUME IInv, Reachable, NEW t \in Threads, pc[t] = "body",
         pc' = [pc EXCEPT ![t] = afterAnswer(t)],
         stream' = Append(stream, Part(t, "body")),
         UNCHANGED <<waits, sent, present, taken, workQueue, registered, job, failed>>
  PROVE  IInv'
<1> USE DEF IInv
<1> DEFINE n == Len(stream)
           e == [part |-> "body", request |-> job[t], success |-> t \in Managers]
<1>0. pc[t] \in Writing BY DEF Writing
<1>1. \A s \in Threads : s # t => pc'[s] = pc[s] BY DEF TypeOK
<1>2. pc'[t] = afterAnswer(t) /\ pc'[t] \in {"look", "done", "idle", "remove"}
  BY <1>0, AfterAnswer DEF TypeOK
<1>3. stream' = Append(stream, e) /\ e \in [part : {"size", "body"}, request : Handed,
                                             success : BOOLEAN]
  BY <1>0, PartDelivered
<1>4. /\ n \in Nat /\ Len(stream') = n + 1 /\ DOMAIN stream = 1 .. n
      /\ DOMAIN stream' = 1 .. (n + 1) /\ stream'[n + 1] = e
      /\ \A i \in 1 .. n : stream'[i] = stream[i]
      /\ stream' \in Seq([part : {"size", "body"}, request : Handed, success : BOOLEAN])
  <2>1. stream \in Seq([part : {"size", "body"}, request : Handed, success : BOOLEAN])
    BY DEF TypeOK
  <2> HIDE DEF e
  <2> QED BY <2>1, <1>3, Appended
<1>5. TypeOK'
  <2>1. pc' \in [Threads -> {"look", "read", "idle", "find", "size", "body", "remove", "done"}]
    BY <1>2 DEF TypeOK
  <2> HIDE DEF n, e
  <2> QED BY <1>4, <2>1, HandedStays DEF TypeOK
<1> HIDE DEF n
<1>6. PlacesInv'
  BY <1>0, <1>1, <1>2, AfterAnswer, ConstantsAssumption DEF PlacesInv, Threads
<1>7. ServesInv'
  BY <1>0, <1>1, <1>2, AfterAnswer, ConstantsAssumption
     DEF ServesInv, Threads, Managers, Writing, Ends
<1>8. OwnInv' BY <1>1, <1>2 DEF OwnInv, Writing
<1>9. \A k : Answered(k)' <=> Answered(k) \/ k = job[t] BY <1>4 DEF Answered
<1>10. AnsweredInv'
  <2>1. \A b \in Balancers : job[t] \notin workQueue[b] BY <1>0 DEF OwnInv
  <2>2. \A s \in Threads : s # t /\ pc[s] \in Writing => job[s] # job[t] BY <1>0 DEF OwnInv
  <2> QED BY <1>1, <1>2, <1>9, <2>1, <2>2 DEF AnsweredInv, Writing
<1>11. EndInv'
  BY <1>0, <1>1, <1>2, AfterAnswer, ConstantsAssumption DEF EndInv, Threads, Reachable
<1>12. InTurn' BY <1>9 DEF InTurn, Calm, AnsweredHere, Mine
<1>13. AnsweredOnce'
  <2>1. ~ Answered(job[t]) BY <1>0, WritersAnswer DEF AnsweredInv
  <2> QED BY <1>4, <2>1 DEF AnsweredOnce, Answered
<1>14. OnlyMisplacedFail'
  <2>1. /\ e.request = job[t]
        /\ e.success <=> /\ sent[job[t]].via # "first"
                         /\ sent[job[t]].type \notin RegistrationTypes
    BY <1>0, PartDelivered
  <2> HIDE DEF e
  <2> QED BY <1>4, <2>1 DEF OnlyMisplacedFail
<1>15. SessionSurvives' BY DEF SessionSurvives, Ends
<1>16. ASSUME Calm PROVE n % 2 = 1 /\ (n + 1) % 2 = 0 /\ stream[n] = Unfinished(t) /\ n # 0
  <2>1. n % 2 = 1 /\ stream[n] = Unfinished(t) BY <1>16 DEF OpenFrame, n
  <2> QED BY <1>4, <2>1, Parity
<1>17. OpenFrame'
  <2> SUFFICES ASSUME Calm PROVE OpenFrame' BY DEF OpenFrame, Calm, Mine
  <2>1. \A s \in Threads : pc'[s] # "body"
    BY <1>0, <1>1, <1>2, OneWriter DEF Writing
  <2> QED BY <1>4, <1>16, <2>1 DEF OpenFrame
<1>18. (Calm => WholeFrames)'
  <2> SUFFICES ASSUME Calm PROVE WholeFrames' BY DEF Calm, Mine
  <2>1. stream'[n] = stream[n] BY <1>4, <1>16
  <2>2. /\ stream'[n + 1].part = "body"
        /\ stream'[n + 1].request = stream'[n].request
        /\ stream'[n + 1].success = stream'[n].success
    BY <1>4, <1>16, <2>1 DEF Unfinished
  <2>3. Framed(stream', n + 1)
    BY <1>4, <1>16, <2>2, BodyFits
  <2>4. WholeFrames OBVIOUS
  <2> QED BY <1>4, <2>3, <2>4, FramesExtended DEF WholeFrames
<1> QED BY <1>5, <1>6, <1>7, <1>8, <1>10, <1>11, <1>12, <1>13, <1>14, <1>15, <1>17, <1>18

-----------------------------------------------------------------------------
(* Every step keeps the invariant.                                         *)

\* A failed send changes nothing but the thread's place, and whether it failed.
LEMMA GiveUpKeeps ==
  ASSUME IInv, NEW t \in Threads, pc[t] \in Writing, ~ Reachable, giveUp(t),
         UNCHANGED <<waits, sent, present, taken, workQueue, registered, job, stream>>
  PROVE  IInv'
<1>1. CASE t \in Managers /\ sent[job[t]].type = "LOGOUT" /\ ~ failed[t]
  <2>1. /\ failed' = [failed EXCEPT ![t] = TRUE]
        /\ pc' = [pc EXCEPT ![t] = "find"]
    BY <1>1 DEF giveUp, go
  <2>2. "find" \in Writing BY DEF Writing
  <2> QED BY <1>1, <2>1, <2>2, QuietKeeps
<1>2. CASE ~ (t \in Managers /\ sent[job[t]].type = "LOGOUT" /\ ~ failed[t])
  <2>1. failed' = failed /\ pc' = [pc EXCEPT ![t] = afterAnswer(t)]
    BY <1>2 DEF giveUp, go
  <2> QED BY <2>1, QuietKeeps
<1> QED BY <1>1, <1>2

\* A reply begins: the socket is looked up under the client's mutex.
LEMMA findSocketKeeps == ASSUME IInv, NEW t \in Threads, findSocket(t) PROVE IInv'
<1>1. /\ pc[t] = "find" /\ pc[t] \in Writing
      /\ UNCHANGED <<waits, sent, present, taken, workQueue, registered, job, stream>>
  BY DEF findSocket, at, Writing
<1>2. CASE registered
  <2>1. failed' = failed /\ pc' = [pc EXCEPT ![t] = "size"] BY <1>2 DEF findSocket, go
  <2>2. "size" \in Writing BY DEF Writing
  <2> QED BY <1>1, <2>1, <2>2, QuietKeeps
<1>3. CASE ~ registered
  <2>1. giveUp(t) /\ ~ Reachable BY <1>3 DEF findSocket, Reachable
  <2> QED BY <1>1, <2>1, GiveUpKeeps
<1> QED BY <1>2, <1>3

\* The first of the two writes of a reply.
LEMMA writeSizeKeeps == ASSUME IInv, NEW t \in Threads, writeSize(t) PROVE IInv'
<1>1. /\ pc[t] = "size" /\ pc[t] \in Writing /\ "body" \in Writing
      /\ UNCHANGED <<waits, sent, present, taken, workQueue, registered, job>>
      /\ writePart(t, "size", "body")
  BY DEF writeSize, at, Writing
<1>2. CASE /\ registered /\ present /\ go(t, "body") /\ failed' = failed
           /\ stream' = Append(stream, Part(t, "size"))
  BY <1>1, <1>2, SizeDelivered DEF go, Reachable
<1>3. CASE ~ present /\ go(t, "body") /\ failed' = failed /\ stream' = stream
  BY <1>1, <1>3, QuietKeeps DEF go, Reachable
<1>4. CASE ~ (registered /\ present) /\ giveUp(t) /\ stream' = stream
  BY <1>1, <1>4, GiveUpKeeps DEF Reachable
<1> QED BY <1>1, <1>2, <1>3, <1>4 DEF writePart

\* The second, which makes the answer.
LEMMA writeBodyKeeps == ASSUME IInv, NEW t \in Threads, writeBody(t) PROVE IInv'
<1>1. /\ pc[t] = "body" /\ pc[t] \in Writing
      /\ UNCHANGED <<waits, sent, present, taken, workQueue, registered, job>>
      /\ writePart(t, "body", afterAnswer(t))
  BY DEF writeBody, at, Writing
<1>2. CASE /\ registered /\ present /\ go(t, afterAnswer(t)) /\ failed' = failed
           /\ stream' = Append(stream, Part(t, "body"))
  BY <1>1, <1>2, BodyDelivered DEF go, Reachable
<1>3. CASE ~ present /\ go(t, afterAnswer(t)) /\ failed' = failed /\ stream' = stream
  BY <1>1, <1>3, QuietKeeps DEF go, Reachable
<1>4. CASE ~ (registered /\ present) /\ giveUp(t) /\ stream' = stream
  BY <1>1, <1>4, GiveUpKeeps DEF Reachable
<1> QED BY <1>1, <1>2, <1>3, <1>4 DEF writePart

\* The client is removed after its LOGOUT, or by a handler that nothing can reach.
LEMMA removeClientSocketKeeps ==
  ASSUME IInv, NEW t \in Threads, removeClientSocket(t) PROVE IInv'
<1> USE DEF IInv
<1>1. /\ pc[t] = "remove" /\ registered' = FALSE
      /\ pc' = [pc EXCEPT ![t] = IF t = Handler THEN "done" ELSE "idle"]
      /\ UNCHANGED <<waits, sent, present, taken, workQueue, job, failed, stream>>
  BY DEF removeClientSocket, at, go
<1>2. \A s \in Threads : s # t => pc'[s] = pc[s] BY <1>1 DEF TypeOK
<1>3. pc'[t] = IF t = Handler THEN "done" ELSE "idle" BY <1>1 DEF TypeOK
<1>4. ~ Reachable' BY <1>1 DEF Reachable
<1>5. TypeOK'
  <2>1. pc' \in [Threads -> {"look", "read", "idle", "find", "size", "body", "remove", "done"}]
    BY <1>1 DEF TypeOK
  <2> QED BY <1>1, <2>1, HandedStays DEF TypeOK
<1>6. PlacesInv'
  <2>1. t \in Managers \/ t = Handler BY <1>1 DEF PlacesInv, Threads, Writing
  <2> QED BY <1>1, <1>2, <1>3, <2>1, ConstantsAssumption DEF PlacesInv, Threads
<1>7. ServesInv'
  BY <1>1, <1>2, <1>3, ConstantsAssumption DEF ServesInv, Threads, Managers, Writing, Ends
<1>8. (OwnInv /\ AnsweredInv)'
  BY <1>1, <1>2, <1>3 DEF OwnInv, AnsweredInv, Answered, Writing
<1>9. EndInv' BY <1>4 DEF EndInv
<1>10. (InTurn /\ AnsweredOnce /\ OnlyMisplacedFail /\ (Calm => WholeFrames))'
  BY <1>1, SentStays DEF InTurn, AnsweredOnce, OnlyMisplacedFail, WholeFrames
<1>11. OpenFrame' BY <1>4 DEF OpenFrame
<1>12. SessionSurvives'
  <2>1. CASE t = Handler BY <1>1, <2>1 DEF EndInv, Reachable, SessionSurvives, Ends
  <2>2. CASE t \in Managers
    <3>1. Ends(job[t]) /\ job[t] \in Handed BY <1>1, <2>2 DEF ServesInv, Threads, TypeOK
    <3>2. job[t] \in DOMAIN sent BY <3>1 DEF Handed
    <3> QED BY <1>1, <3>1, <3>2 DEF SessionSurvives, Ends
  <2>3. CASE t \in Registrars BY <1>1, <2>3 DEF PlacesInv, Writing
  <2> QED BY <2>1, <2>2, <2>3 DEF Threads
<1> QED BY <1>5, <1>6, <1>7, <1>8, <1>9, <1>10, <1>11, <1>12

\* The handler goes back to reading, or stops when the client cannot be reached.
LEMMA HandlerMoves ==
  ASSUME IInv, pc[Handler] \in {"look", "read"},
         \/ pc' = [pc EXCEPT ![Handler] = "read"]
         \/ pc' = [pc EXCEPT ![Handler] = "remove"] /\ ~ Reachable,
         UNCHANGED <<waits, sent, present, taken, workQueue, registered, job, failed, stream>>
  PROVE  IInv'
<1> USE DEF IInv
<1>0. PICK p : /\ p = "read" \/ (p = "remove" /\ ~ Reachable)
               /\ pc' = [pc EXCEPT ![Handler] = p]
  OBVIOUS
<1>1. pc[Handler] \notin Writing /\ p \notin Writing BY <1>0 DEF Writing
<1>2. \A s \in Threads : s # Handler => pc'[s] = pc[s] BY <1>0 DEF TypeOK
<1>3. pc'[Handler] = p /\ Handler \in Threads BY <1>0 DEF TypeOK, Threads
<1>4. TypeOK'
  <2>1. pc' \in [Threads -> {"look", "read", "idle", "find", "size", "body", "remove", "done"}]
    BY <1>0 DEF TypeOK
  <2> QED BY <2>1, HandedStays DEF TypeOK
<1>5. (PlacesInv /\ ServesInv)'
  <2>1. LogManagers \subseteq Managers BY DEF Managers
  <2> QED BY <1>0, <1>1, <1>2, <1>3, <2>1, ConstantsAssumption
          DEF PlacesInv, ServesInv, Writing, Threads, Ends
<1>6. (OwnInv /\ AnsweredInv)' BY <1>1, <1>2, <1>3 DEF OwnInv, AnsweredInv, Answered
<1>7. EndInv' BY <1>0, <1>2, <1>3, ConstantsAssumption DEF EndInv, Reachable, Threads
<1>8. (InTurn /\ AnsweredOnce /\ OnlyMisplacedFail /\ SessionSurvives /\ (Calm => WholeFrames))'
  BY SentStays DEF InTurn, AnsweredOnce, OnlyMisplacedFail, SessionSurvives, Ends, WholeFrames
<1>9. OpenFrame'
  <2>1. \A t \in Threads : pc'[t] = "body" <=> pc[t] = "body" BY <1>1, <1>2, <1>3 DEF Writing
  <2> QED BY <2>1, SentStays DEF OpenFrame, Reachable, Unfinished
<1> QED BY <1>4, <1>5, <1>6, <1>7, <1>8, <1>9

\* The three ways in which it does.
LEMMA ReadingKeeps == ASSUME IInv, nextMessage \/ endOfStream \/ readAborted PROVE IInv'
<1>1. CASE nextMessage
  <2>1. /\ pc[Handler] = "look"
        /\ pc' = [pc EXCEPT ![Handler] = IF registered THEN "read" ELSE "remove"]
        /\ UNCHANGED <<waits, sent, present, taken, workQueue, registered, job, failed, stream>>
    BY <1>1 DEF nextMessage, at, go
  <2>2. CASE registered
    <3>1. pc' = [pc EXCEPT ![Handler] = "read"] BY <2>1, <2>2
    <3>2. pc[Handler] \in {"look", "read"} BY <2>1
    <3> QED BY <2>1, <3>1, <3>2, HandlerMoves
  <2>3. CASE ~ registered
    <3>1. pc' = [pc EXCEPT ![Handler] = "remove"] BY <2>1, <2>3
    <3>2. pc[Handler] \in {"look", "read"} /\ ~ Reachable BY <2>1, <2>3 DEF Reachable
    <3> QED BY <2>1, <3>1, <3>2, HandlerMoves
  <2> QED BY <2>2, <2>3
<1>2. CASE endOfStream \/ readAborted
  <2>1. /\ pc[Handler] = "read" /\ ~ Reachable
        /\ pc' = [pc EXCEPT ![Handler] = "remove"]
        /\ UNCHANGED <<waits, sent, present, taken, workQueue, registered, job, failed, stream>>
    BY <1>2 DEF endOfStream, readAborted, at, go, Reachable
  <2>2. pc[Handler] \in {"look", "read"} BY <2>1
  <2> QED BY <2>1, <2>2, HandlerMoves
<1> QED BY <1>1, <1>2

\* A client that has left cannot be reached.
LEMMA leaveKeeps == ASSUME IInv, leave PROVE IInv'
<1> USE DEF IInv
<1>1. /\ present' = FALSE
      /\ UNCHANGED <<waits, sent, taken, workQueue, registered, pc, job, failed, stream>>
  BY DEF leave
<1>2. TypeOK' BY <1>1, HandedStays DEF TypeOK
<1>3. (PlacesInv /\ ServesInv /\ OwnInv)' BY <1>1 DEF PlacesInv, ServesInv, OwnInv, Ends
<1>4. (AnsweredInv /\ InTurn)' BY <1>1, SentStays DEF AnsweredInv, InTurn
<1>5. (EndInv /\ OpenFrame)' BY <1>1 DEF EndInv, OpenFrame, Reachable
<1>6. (AnsweredOnce /\ OnlyMisplacedFail /\ SessionSurvives /\ (Calm => WholeFrames))'
  BY <1>1, SentStays DEF AnsweredOnce, OnlyMisplacedFail, SessionSurvives, Ends, WholeFrames
<1> QED BY <1>2, <1>3, <1>4, <1>5, <1>6

-----------------------------------------------------------------------------
(* Steps that send or route a message.                                     *)

\* The parts on a stream may name more messages than they do.
LEMMA StreamWidens ==
  ASSUME TypeOK, NEW H, Handed \subseteq H
  PROVE  stream \in Seq([part : {"size", "body"}, request : H, success : BOOLEAN])
<1> DEFINE Parts == [part : {"size", "body"}, request : Handed, success : BOOLEAN]
           Wider == [part : {"size", "body"}, request : H, success : BOOLEAN]
<1>1. stream \in Seq(Parts) BY DEF TypeOK
<1>2. Parts \subseteq Wider OBVIOUS
<1> HIDE DEF Parts, Wider
<1>3. stream \in Seq(Wider) BY <1>1, <1>2
<1> QED BY <1>3 DEF Wider

\* Every part on the stream names a message that was handed over.
LEMMA PartsNameHanded ==
  ASSUME TypeOK PROVE \A i \in DOMAIN stream : stream[i].request \in Handed
<1> DEFINE Parts == [part : {"size", "body"}, request : Handed, success : BOOLEAN]
<1>1. stream \in Seq(Parts) BY DEF TypeOK
<1>2. \A i \in DOMAIN stream : stream[i] \in Parts
  <2> HIDE DEF Parts
  <2> QED BY <1>1
<1> QED BY <1>2

\* One more message, of which nobody has heard.
LEMMA SentGrows ==
  ASSUME TypeOK, NEW type \in Types, NEW via \in Origins, send(type, via),
         UNCHANGED <<taken, stream, waits>>
  PROVE  LET n == Len(sent) + 1
         IN /\ sent' \in Seq([type : Types, via : Origins]) /\ Len(sent') <= MaxRequests
            /\ taken \in 0 .. Len(sent')
            /\ n \in Nat /\ n # 0 /\ n \notin DOMAIN sent /\ n \in DOMAIN sent'
            /\ DOMAIN sent' = DOMAIN sent \cup {n}
            /\ n = Len(sent') /\ \A k \in DOMAIN sent : k < n
            /\ sent'[n].type = type /\ sent'[n].via = via
            /\ \A k \in DOMAIN sent : sent'[k] = sent[k]
            /\ Handed \subseteq DOMAIN sent /\ Handed \subseteq Handed'
            /\ via \in {"other", "first"} => n \in Handed'
            /\ \A k : Answered(k)' = Answered(k)
            /\ ~ Answered(n)
<1> DEFINE n == Len(sent) + 1
           e == [type |-> type, via |-> via]
<1>1. sent' = Append(sent, e) /\ Len(sent) < MaxRequests BY DEF send
<1>2. sent \in Seq([type : Types, via : Origins]) /\ e \in [type : Types, via : Origins]
  BY DEF TypeOK
<1> HIDE DEF e
<1>3. /\ sent' \in Seq([type : Types, via : Origins]) /\ Len(sent) \in Nat /\ Len(sent') = n
      /\ DOMAIN sent = 1 .. Len(sent) /\ DOMAIN sent' = 1 .. n /\ sent'[n] = e
      /\ \A k \in 1 .. Len(sent) : sent'[k] = sent[k]
  BY <1>1, <1>2, Appended
<1>4. n \notin DOMAIN sent /\ DOMAIN sent' = DOMAIN sent \cup {n} /\ n \in Nat /\ n # 0
  BY <1>3
<1>5. Handed \subseteq DOMAIN sent BY DEF Handed
<1>6. Handed \subseteq Handed' BY <1>3, <1>4 DEF Handed, Mine
<1>7. sent'[n].type = type /\ sent'[n].via = via BY <1>3 DEF e
<1>8. via \in {"other", "first"} => n \in Handed' BY <1>4, <1>7 DEF Handed, Mine
<1>9. \A k : Answered(k)' = Answered(k) BY DEF Answered
<1>10. ~ Answered(n) BY <1>4, <1>5, PartsNameHanded DEF Answered
<1>11. taken \in 0 .. Len(sent') BY <1>3 DEF TypeOK
<1>12. Len(sent') <= MaxRequests BY <1>1, <1>3, ConstantsAssumption
<1> QED BY <1>3, <1>4, <1>5, <1>6, <1>7, <1>8, <1>9, <1>10, <1>11, <1>12

\* What is with whom stays so when one more is sent.
LEMMA ServesStays ==
  ASSUME IInv, Handed \subseteq DOMAIN sent, \A k \in DOMAIN sent : sent'[k] = sent[k],
         NEW t \in Threads, pc[t] # "idle", t \in Managers \/ pc[t] \in Writing
  PROVE  /\ job[t] \in DOMAIN sent
         /\ sent'[job[t]] = sent[job[t]]
<1>1. job[t] # 0 BY DEF IInv, ServesInv, Threads
<1> QED BY <1>1 DEF IInv, TypeOK

\* What goes for all three ways of sending.
LEMMA SendKeeps ==
  ASSUME IInv, NEW type \in Types, NEW via \in Origins, send(type, via),
         UNCHANGED <<waits, present, taken, registered, failed, stream>>
  PROVE  (AnsweredOnce /\ OnlyMisplacedFail /\ SessionSurvives)'
<1> USE DEF IInv
<1>1. /\ \A k \in DOMAIN sent : k \in DOMAIN sent' /\ sent'[k] = sent[k]
      /\ Handed \subseteq DOMAIN sent
  BY SentGrows
<1>2. AnsweredOnce' BY DEF AnsweredOnce
<1>3. OnlyMisplacedFail' BY <1>1, PartsNameHanded DEF OnlyMisplacedFail
<1>4. SessionSurvives' BY <1>1 DEF SessionSurvives, Ends
<1> QED BY <1>2, <1>3, <1>4

\* A client that waits sends only when nobody is writing to it.
LEMMA requestKeeps == ASSUME IInv, request PROVE IInv'
<1> USE DEF IInv
<1>1. PICK type \in Types, via \in {"own", "away"} : send(type, via) BY DEF request
<1>2. /\ \A k \in DOMAIN sent : Mine(k) => (waits /\ AnsweredHere(k) => Answered(k))
      /\ UNCHANGED <<waits, present, taken, workQueue, registered, pc, job, failed, stream>>
  BY DEF request
<1> DEFINE n == Len(sent) + 1
<1>3. /\ sent' \in Seq([type : Types, via : Origins]) /\ Len(sent') <= MaxRequests
      /\ taken \in 0 .. Len(sent')
      /\ n \in Nat /\ n \notin DOMAIN sent /\ DOMAIN sent' = DOMAIN sent \cup {n}
      /\ n = Len(sent')
      /\ \A k \in DOMAIN sent : sent'[k] = sent[k]
      /\ Handed \subseteq DOMAIN sent /\ Handed \subseteq Handed'
      /\ \A k : Answered(k)' = Answered(k)
      /\ ~ Answered(n)
  BY <1>1, <1>2, SentGrows DEF Origins
<1> HIDE DEF n
<1>4. TypeOK'
  <2>1. stream' \in Seq([part : {"size", "body"}, request : Handed', success : BOOLEAN])
    BY <1>2, <1>3, StreamWidens
  <2>2. workQueue' \in [Balancers -> SUBSET Handed'] BY <1>2, <1>3 DEF TypeOK
  <2>3. job' \in [Threads -> Handed' \cup {0}] BY <1>2, <1>3 DEF TypeOK
  <2> QED BY <1>2, <1>3, <2>1, <2>2, <2>3 DEF TypeOK
<1>5. PlacesInv' BY <1>2 DEF PlacesInv
<1>6. ServesInv'
  <2>1. \A b \in Balancers : \A k \in workQueue[b] : sent'[k] = sent[k]
    BY <1>3 DEF TypeOK
  <2>2. \A t \in Threads : pc[t] # "idle" /\ (t \in Managers \/ pc[t] \in Writing) =>
          sent'[job[t]] = sent[job[t]]
    BY <1>3, ServesStays
  <2>3. LogManagers \subseteq Managers BY DEF Managers
  <2> QED BY <1>2, <2>1, <2>2, <2>3 DEF ServesInv, Threads, Ends, Writing
<1>7. OwnInv' BY <1>2 DEF OwnInv
<1>8. AnsweredInv' BY <1>2, <1>3 DEF AnsweredInv
<1>9. EndInv' BY <1>2 DEF EndInv, Reachable
<1>10. Calm' => Calm BY <1>2, <1>3 DEF Calm, Mine
<1>11. InTurn'
  <2>1. \A k \in DOMAIN sent : /\ Mine(k)' = Mine(k) /\ AnsweredHere(k)' = AnsweredHere(k)
    BY <1>3 DEF Mine, AnsweredHere
  <2>2. \A k \in DOMAIN sent' : k < Len(sent') => k \in DOMAIN sent
    <3>1. Len(sent') = n /\ n = Len(sent) + 1 BY <1>3 DEF n
    <3> QED BY <1>3, <3>1
  <2>3. Calm => waits /\ \A k \in DOMAIN sent : Mine(k) BY DEF Calm
  <2> QED BY <1>2, <1>3, <1>10, <2>1, <2>2, <2>3 DEF InTurn
<1>12. (AnsweredOnce /\ OnlyMisplacedFail /\ SessionSurvives)'
  BY <1>1, <1>2, SendKeeps DEF Origins
<1>13. ((Calm => WholeFrames) /\ OpenFrame)'
  BY <1>2, <1>10 DEF WholeFrames, OpenFrame, Reachable, Unfinished
<1> QED BY <1>4, <1>5, <1>6, <1>7, <1>8, <1>9, <1>11, <1>12, <1>13

\* A message of another client waits at one balancer, or nowhere.
LEMMA routeOtherKeeps == ASSUME IInv, routeOther PROVE IInv'
<1> USE DEF IInv
<1>1. PICK type \in Types : send(type, "other") /\ pushWork(Len(sent) + 1, type)
  BY DEF routeOther
<1>2. UNCHANGED <<waits, present, taken, registered, pc, job, failed, stream>>
  BY DEF routeOther
<1> DEFINE n == Len(sent) + 1
<1>3. /\ sent' \in Seq([type : Types, via : Origins]) /\ Len(sent') <= MaxRequests
      /\ taken \in 0 .. Len(sent')
      /\ n # 0 /\ n \notin DOMAIN sent /\ DOMAIN sent' = DOMAIN sent \cup {n}
      /\ sent'[n].type = type /\ sent'[n].via = "other"
      /\ \A k \in DOMAIN sent : sent'[k] = sent[k]
      /\ Handed \subseteq DOMAIN sent /\ Handed \subseteq Handed' /\ n \in Handed'
      /\ \A k : Answered(k)' = Answered(k)
      /\ ~ Answered(n)
  BY <1>1, <1>2, SentGrows DEF Origins
<1>4. workQueue' = [b \in Balancers |-> IF type \in Routed[b] THEN workQueue[b] \cup {n}
                                                             ELSE workQueue[b]]
  BY <1>1 DEF pushWork
<1> HIDE DEF n
<1>5. \A b \in Balancers :
        /\ n \notin workQueue[b]
        /\ \A k \in workQueue'[b] : k \in workQueue[b] \/ (k = n /\ type \in Routed[b])
  BY <1>3, <1>4 DEF TypeOK
<1>6. TypeOK'
  <2>1. stream' \in Seq([part : {"size", "body"}, request : Handed', success : BOOLEAN])
    BY <1>2, <1>3, StreamWidens
  <2>2. workQueue' \in [Balancers -> SUBSET Handed'] BY <1>3, <1>4 DEF TypeOK
  <2>3. job' \in [Threads -> Handed' \cup {0}] BY <1>2, <1>3 DEF TypeOK
  <2> QED BY <1>2, <1>3, <2>1, <2>2, <2>3 DEF TypeOK
<1>7. PlacesInv' BY <1>2 DEF PlacesInv
<1>8. ServesInv'
  <2>1. \A b \in Balancers : \A k \in workQueue'[b] :
          sent'[k].type \in Routed[b] /\ sent'[k].via \in {"own", "other"}
    BY <1>3, <1>5 DEF ServesInv, TypeOK
  <2>2. \A t \in Threads : pc[t] # "idle" /\ (t \in Managers \/ pc[t] \in Writing) =>
          sent'[job[t]] = sent[job[t]]
    BY <1>3, ServesStays
  <2>3. LogManagers \subseteq Managers BY DEF Managers
  <2> QED BY <1>2, <2>1, <2>2, <2>3 DEF ServesInv, Threads, Ends, Writing
<1>9. \A t \in Threads : job[t] # n BY <1>3 DEF TypeOK
<1>10. OwnInv' BY <1>2, <1>5, <1>9 DEF OwnInv
<1>11. AnsweredInv' BY <1>2, <1>3, <1>5 DEF AnsweredInv
<1>12. EndInv' BY <1>2 DEF EndInv, Reachable
<1>13. ~ Calm' BY <1>3 DEF Calm, Mine
<1>14. (AnsweredOnce /\ OnlyMisplacedFail /\ SessionSurvives)'
  BY <1>1, <1>2, SendKeeps DEF Origins
<1> QED BY <1>6, <1>7, <1>8, <1>10, <1>11, <1>12, <1>13, <1>14 DEF InTurn, OpenFrame

\* A registration thread refuses a message that nobody else has.
LEMMA registerClientKeeps ==
  ASSUME IInv, NEW r \in Registrars, registerClient(r) PROVE IInv'
<1> USE DEF IInv
<1>1. PICK type \in Types : send(type, "first") BY DEF registerClient
<1> DEFINE n == Len(sent) + 1
<1>2. /\ pc[r] = "idle" /\ pc' = [pc EXCEPT ![r] = "find"] /\ job' = [job EXCEPT ![r] = n]
      /\ UNCHANGED <<waits, present, taken, workQueue, registered, failed, stream>>
  BY DEF registerClient, at, go
<1>3. /\ sent' \in Seq([type : Types, via : Origins]) /\ Len(sent') <= MaxRequests
      /\ taken \in 0 .. Len(sent')
      /\ n # 0 /\ n \notin DOMAIN sent /\ DOMAIN sent' = DOMAIN sent \cup {n}
      /\ sent'[n].via = "first"
      /\ \A k \in DOMAIN sent : sent'[k] = sent[k]
      /\ Handed \subseteq DOMAIN sent /\ Handed \subseteq Handed' /\ n \in Handed'
      /\ \A k : Answered(k)' = Answered(k)
      /\ ~ Answered(n)
  BY <1>1, <1>2, SentGrows DEF Origins
<1> HIDE DEF n
<1>4. r \in Threads /\ r \notin Managers /\ r # Handler BY ConstantsAssumption DEF Threads
<1>5. /\ \A t \in Threads : t # r => pc'[t] = pc[t] /\ job'[t] = job[t]
      /\ pc'[r] = "find" /\ job'[r] = n
  BY <1>2, <1>4 DEF TypeOK
<1>6. \A t \in Threads : job[t] # n BY <1>3 DEF TypeOK
<1>7. \A b \in Balancers : n \notin workQueue[b] BY <1>3 DEF TypeOK
<1>8. TypeOK'
  <2>1. stream' \in Seq([part : {"size", "body"}, request : Handed', success : BOOLEAN])
    BY <1>2, <1>3, StreamWidens
  <2>2. workQueue' \in [Balancers -> SUBSET Handed'] BY <1>2, <1>3 DEF TypeOK
  <2>3. job' \in [Threads -> Handed' \cup {0}] BY <1>2, <1>3, <1>4 DEF TypeOK
  <2>4. pc' \in [Threads -> {"look", "read", "idle", "find", "size", "body", "remove", "done"}]
    BY <1>2 DEF TypeOK
  <2> QED BY <1>2, <1>3, <2>1, <2>2, <2>3, <2>4 DEF TypeOK
<1>9. PlacesInv' BY <1>2, <1>4, <1>5 DEF PlacesInv, Threads, Writing
<1>10. ServesInv'
  <2>1. \A b \in Balancers : \A k \in workQueue[b] : sent'[k] = sent[k]
    BY <1>3 DEF TypeOK
  <2>2. \A t \in Threads : pc[t] # "idle" /\ (t \in Managers \/ pc[t] \in Writing) =>
          sent'[job[t]] = sent[job[t]]
    BY <1>3, ServesStays
  <2>3. LogManagers \subseteq Managers BY DEF Managers
  <2>4. \A m \in Managers : m \in Threads /\ m # r BY <1>4 DEF Threads
  <2>5. Handler \in Threads /\ Registrars \subseteq Threads BY DEF Threads
  <2> QED BY <1>2, <1>3, <1>4, <1>5, <2>1, <2>2, <2>3, <2>4, <2>5 DEF ServesInv, Ends, Writing
<1>11. OwnInv' BY <1>2, <1>5, <1>6, <1>7 DEF OwnInv
<1>12. AnsweredInv' BY <1>2, <1>3, <1>5, <1>7 DEF AnsweredInv
<1>13. EndInv' BY <1>2, <1>4, <1>5 DEF EndInv, Reachable, Threads
<1>14. ~ Calm' BY <1>3 DEF Calm, Mine
<1>15. (AnsweredOnce /\ OnlyMisplacedFail /\ SessionSurvives)'
  BY <1>1, <1>2, SendKeeps DEF Origins
<1> QED BY <1>8, <1>9, <1>10, <1>11, <1>12, <1>13, <1>14, <1>15 DEF InTurn, OpenFrame

\* The request routed next is new: it waits at one balancer, the handler has it, or it
\* is somebody else's.
LEMMA routeKeeps == ASSUME IInv, route PROVE IInv'
<1> USE DEF IInv
<1>1. PICK n \in DOMAIN sent :
        /\ IsNext(n) /\ taken' = n /\ routeWork(n)
        /\ IF sent[n].type \in RegistrationTypes
             THEN job' = [job EXCEPT ![Handler] = n] /\ go(Handler, "find")
             ELSE UNCHANGED job /\ go(Handler, "look")
  BY DEF route
<1> DEFINE misplaced == sent[n].type \in RegistrationTypes
<1>2. /\ pc[Handler] = "read"
      /\ misplaced => job' = [job EXCEPT ![Handler] = n] /\ pc' = [pc EXCEPT ![Handler] = "find"]
      /\ ~ misplaced => job' = job /\ pc' = [pc EXCEPT ![Handler] = "look"]
      /\ UNCHANGED <<waits, sent, present, registered, failed, stream>>
  BY <1>1 DEF route, at, go
<1>3. workQueue' \in [Balancers -> SUBSET (Handed \cup {n})] /\
      \A b \in Balancers :
        /\ workQueue[b] \subseteq workQueue'[b]
        /\ \A k \in workQueue'[b] :
             k \in workQueue[b] \/ (k = n /\ sent[n].type \in Routed[b] /\ sent[n].via = "own")
  BY <1>1 DEF routeWork, pushWork, TypeOK
<1> HIDE DEF misplaced
<1>4. n > taken /\ Mine(n) /\ n \notin Handed /\ n # 0 /\ taken \in Nat /\ n \in 0 .. Len(sent)
  <2>1. n > taken /\ Mine(n) BY <1>1 DEF IsNext, Unread
  <2>2. DOMAIN sent = 1 .. Len(sent) /\ Len(sent) \in Nat BY DEF TypeOK
  <2> QED BY <2>1, <2>2 DEF TypeOK, Handed
<1>5. Handed \subseteq Handed' /\ n \in Handed' /\ Handed \subseteq DOMAIN sent
  BY <1>1, <1>2, <1>4 DEF Handed, Mine, TypeOK
<1>6. /\ Handler \in Threads /\ \A m \in Managers : m \in Threads /\ m # Handler
      /\ \A r \in Registrars : r \in Threads /\ r # Handler
  BY ConstantsAssumption DEF Threads
<1>7. \A t \in Threads : t # Handler => pc'[t] = pc[t] /\ job'[t] = job[t]
  BY <1>2 DEF TypeOK
<1>8. \/ misplaced /\ pc'[Handler] = "find" /\ job'[Handler] = n
      \/ ~ misplaced /\ pc'[Handler] = "look"
  BY <1>2, <1>6 DEF TypeOK
<1>9. \A t \in Threads : job[t] # n BY <1>4 DEF TypeOK
<1>10. \A b \in Balancers : n \notin workQueue[b] BY <1>4 DEF TypeOK
<1>11. \A k : /\ Answered(k)' = Answered(k) /\ AnsweredHere(k)' = AnsweredHere(k)
  BY <1>2, SentStays
<1>12. Calm' = Calm BY <1>2, SentStays
<1>13. TypeOK'
  <2>1. stream' \in Seq([part : {"size", "body"}, request : Handed', success : BOOLEAN])
    BY <1>2, <1>5, StreamWidens
  <2>2. workQueue' \in [Balancers -> SUBSET Handed'] BY <1>3, <1>5
  <2>3. job' \in [Threads -> Handed' \cup {0}] BY <1>2, <1>5 DEF TypeOK
  <2>4. pc' \in [Threads -> {"look", "read", "idle", "find", "size", "body", "remove", "done"}]
    BY <1>2 DEF TypeOK
  <2> QED BY <1>1, <1>2, <1>4, <2>1, <2>2, <2>3, <2>4 DEF TypeOK
<1>14. PlacesInv' BY <1>2, <1>6, <1>7, <1>8 DEF PlacesInv, Writing
<1>15. ServesInv'
  <2>1. LogManagers \subseteq Managers BY DEF Managers
  <2>2. pc[Handler] \notin Writing BY <1>2 DEF Writing
  <2> QED BY <1>2, <1>3, <1>4, <1>6, <1>7, <1>8, <2>1, <2>2
          DEF ServesInv, misplaced, Writing, Mine, Ends
<1>16. OwnInv'
  <2>1. \A t \in Threads : t # Handler => job'[t] # n BY <1>7, <1>9
  <2>2. pc[Handler] \notin Writing BY <1>2 DEF Writing
  <2>3. \A s, t \in Threads :
          pc'[s] \in Writing /\ pc'[t] \in Writing /\ job'[s] = job'[t] => s = t
    BY <1>7, <1>8, <2>1 DEF OwnInv, Writing
  <2>4. \A b \in Balancers : misplaced => n \notin workQueue'[b]
    BY <1>3, <1>10, TypesAreDisjoint DEF misplaced, Balancers
  <2>5. \A t \in Threads : \A b \in Balancers :
          pc'[t] \in Writing => job'[t] \notin workQueue'[b]
    BY <1>3, <1>7, <1>8, <2>1, <2>4 DEF OwnInv, Writing
  <2> QED BY <2>3, <2>5 DEF OwnInv
<1>17. AnsweredInv'
  <2>1. ~ Answered(n) BY <1>4, PartsNameHanded DEF Answered
  <2> QED BY <1>2, <1>3, <1>7, <1>8, <1>11, <2>1 DEF AnsweredInv, Writing
<1>18. EndInv' BY <1>2, <1>6, <1>7, <1>8 DEF EndInv, Reachable
<1>19. (InTurn /\ AnsweredOnce /\ OnlyMisplacedFail /\ SessionSurvives /\ (Calm => WholeFrames))'
  BY <1>2, <1>11, <1>12
     DEF InTurn, AnsweredOnce, OnlyMisplacedFail, SessionSurvives, Ends, WholeFrames
<1>20. OpenFrame'
  <2>1. \A t \in Threads : pc'[t] = "body" <=> pc[t] = "body" BY <1>2, <1>7, <1>8
  <2>2. \A t \in Threads : pc[t] = "body" => Unfinished(t)' = Unfinished(t)
    BY <1>2, <1>7 DEF Unfinished
  <2> QED BY <1>2, <1>12, <2>1, <2>2 DEF OpenFrame, Reachable
<1> QED BY <1>13, <1>14, <1>15, <1>16, <1>17, <1>18, <1>19, <1>20

\* A manager takes a request that nobody else has, and one of its balancer's types.
LEMMA TakeKeeps ==
  ASSUME IInv, NEW m \in Managers, NEW b \in Balancers, NEW next,
         take(m, b, next), UNCHANGED registered,
         \/ next = "find" /\ m \notin LogManagers /\ b # "log"
         \/ next = "idle"
  PROVE  IInv'
<1> USE DEF IInv
<1>1. PICK n \in workQueue[b] :
        /\ workQueue' = [workQueue EXCEPT ![b] = @ \ {n}]
        /\ job' = [job EXCEPT ![m] = n]
  BY DEF take
<1>2. /\ pc[m] = "idle" /\ pc' = [pc EXCEPT ![m] = next]
      /\ failed' = [failed EXCEPT ![m] = FALSE]
      /\ UNCHANGED <<waits, sent, present, taken, stream, registered>>
  BY DEF take, at, go
<1>3. /\ n \in Handed /\ n \in DOMAIN sent /\ n # 0
      /\ sent[n].type \in Routed[b] /\ sent[n].via \in {"own", "other"}
  BY DEF TypeOK, ServesInv, Handed
<1>4. /\ m \in Threads /\ m # Handler /\ Handler \in Threads
      /\ \A r \in Registrars : r \in Threads /\ r # m
  BY ConstantsAssumption DEF Threads
<1>5. \A t \in Threads : t # m => pc'[t] = pc[t] /\ job'[t] = job[t] /\ failed'[t] = failed[t]
  BY <1>1, <1>2 DEF TypeOK
<1>6. pc'[m] = next /\ job'[m] = n /\ ~ failed'[m] BY <1>1, <1>2, <1>4 DEF TypeOK
<1>7. /\ n \notin workQueue'[b]
      /\ \A d \in Balancers : workQueue'[d] \subseteq workQueue[d]
      /\ \A d \in Balancers : d # b => workQueue'[d] = workQueue[d]
  BY <1>1 DEF TypeOK
<1>8. TypeOK'
  <2>1. pc' \in [Threads -> {"look", "read", "idle", "find", "size", "body", "remove", "done"}]
    BY <1>2 DEF TypeOK
  <2>2. workQueue' \in [Balancers -> SUBSET Handed] BY <1>1 DEF TypeOK
  <2>3. job' \in [Threads -> Handed \cup {0}] BY <1>1, <1>3 DEF TypeOK
  <2>4. failed' \in [Threads -> BOOLEAN] BY <1>2 DEF TypeOK
  <2> QED BY <1>2, <2>1, <2>2, <2>3, <2>4, HandedStays DEF TypeOK
<1>9. PlacesInv' BY <1>4, <1>5, <1>6 DEF PlacesInv, Writing, Threads
<1>10. ServesInv'
  <2>1. next = "find" => sent[n].type \in UserTypes \cup ChatroomTypes
    BY <1>3, TypesAreDisjoint DEF Balancers
  <2>2. LogManagers \subseteq Managers BY DEF Managers
  <2> QED BY <1>2, <1>3, <1>4, <1>5, <1>6, <1>7, <2>1, <2>2
          DEF ServesInv, Threads, Ends, Writing
<1>11. OwnInv'
  <2>1. \A t \in Threads : pc[t] \in Writing => job[t] # n BY DEF OwnInv
  <2>2. \A d \in Balancers : n \notin workQueue'[d]
    BY <1>3, <1>7, TypesAreDisjoint DEF ServesInv
  <2> QED BY <1>5, <1>6, <1>7, <2>1, <2>2 DEF OwnInv
<1>12. AnsweredInv'
  <2>1. \A k : Answered(k)' = Answered(k) BY <1>2 DEF Answered
  <2>2. ~ Answered(n) BY <1>3 DEF AnsweredInv
  <2> QED BY <1>2, <1>5, <1>6, <1>7, <2>1, <2>2 DEF AnsweredInv
<1>13. EndInv' BY <1>2, <1>4, <1>5, <1>6 DEF EndInv, Reachable, Threads
<1>14. (InTurn /\ AnsweredOnce /\ OnlyMisplacedFail /\ SessionSurvives /\ (Calm => WholeFrames))'
  BY <1>2, SentStays
     DEF InTurn, AnsweredOnce, OnlyMisplacedFail, SessionSurvives, Ends, WholeFrames
<1>15. OpenFrame'
  <2>1. \A t \in Threads : pc'[t] = "body" <=> pc[t] = "body" BY <1>2, <1>5, <1>6
  <2>2. \A t \in Threads : pc[t] = "body" => Unfinished(t)' = Unfinished(t)
    BY <1>2, <1>5 DEF Unfinished
  <2>3. stream' = stream /\ Reachable' = Reachable /\ Calm' = Calm
    BY <1>2, SentStays DEF Reachable
  <2> QED BY <2>1, <2>2, <2>3 DEF OpenFrame
<1> QED BY <1>8, <1>9, <1>10, <1>11, <1>12, <1>13, <1>14, <1>15

\* The steps of a manager.
LEMMA manageKeeps == ASSUME IInv, NEW m \in Managers, manage(m) PROVE IInv'
<1>1. m \in Threads BY DEF Threads
<1>2. "user" \in Balancers /\ "chatroom" \in Balancers /\ "log" \in Balancers
  BY DEF Balancers
<1>3. CASE userWork(m)
  BY <1>2, <1>3, TakeKeeps, ConstantsAssumption DEF userWork
<1>4. CASE chatroomWork(m)
  BY <1>2, <1>4, TakeKeeps, ConstantsAssumption DEF chatroomWork
<1>5. CASE logWork(m) BY <1>2, <1>5, TakeKeeps DEF logWork
<1>6. CASE sendMessageToClient(m)
  BY <1>1, <1>6, findSocketKeeps, writeSizeKeeps, writeBodyKeeps DEF sendMessageToClient
<1>7. CASE removeClientSocket(m) BY <1>1, <1>7, removeClientSocketKeeps
<1> QED BY <1>3, <1>4, <1>5, <1>6, <1>7 DEF manage

\* The steps of the handler thread.
LEMMA handleClientKeeps == ASSUME IInv, handleClient PROVE IInv'
<1>1. Handler \in Threads BY DEF Threads
<1> QED BY <1>1, routeKeeps, ReadingKeeps, findSocketKeeps, writeSizeKeeps, writeBodyKeeps,
           removeClientSocketKeeps
        DEF handleClient, sendMessageToClient

\* A step that changes nothing.
LEMMA StutterKeeps == IInv /\ UNCHANGED vars => IInv'
<1> SUFFICES ASSUME IInv, UNCHANGED vars PROVE IInv' OBVIOUS
<1> USE DEF vars, IInv
<1>1. TypeOK' BY HandedStays DEF TypeOK
<1>2. (PlacesInv /\ ServesInv /\ OwnInv /\ EndInv)'
  BY DEF PlacesInv, ServesInv, OwnInv, Ends, EndInv, Reachable
<1>3. (AnsweredInv /\ InTurn)' BY SentStays DEF AnsweredInv, InTurn
<1>4. (OpenFrame /\ AnsweredOnce /\ OnlyMisplacedFail /\ SessionSurvives)'
  BY SentStays DEF OpenFrame, Reachable, Unfinished, AnsweredOnce, OnlyMisplacedFail,
                   SessionSurvives, Ends
<1>5. (Calm => WholeFrames)' BY SentStays DEF WholeFrames
<1> QED BY <1>1, <1>2, <1>3, <1>4, <1>5

\* Every step of the program keeps the invariant.
LEMMA NextKeeps == IInv /\ Next => IInv'
<1> SUFFICES ASSUME IInv, Next PROVE IInv' OBVIOUS
<1>1. CASE request BY <1>1, requestKeeps
<1>2. CASE leave BY <1>2, leaveKeeps
<1>3. CASE handleClient BY <1>3, handleClientKeeps
<1>4. CASE readAborted BY <1>4, ReadingKeeps
<1>5. CASE \E m \in Managers : manage(m) BY <1>5, manageKeeps
<1>6. CASE routeOther BY <1>6, routeOtherKeeps
<1>7. CASE \E r \in Registrars : registerClient(r) \/ sendMessageToClient(r)
  <2>1. PICK r \in Registrars : registerClient(r) \/ sendMessageToClient(r) BY <1>7
  <2>2. r \in Threads BY DEF Threads
  <2> QED BY <2>1, <2>2, registerClientKeeps, findSocketKeeps, writeSizeKeeps, writeBodyKeeps
          DEF sendMessageToClient
<1>8. CASE terminated BY <1>8, StutterKeeps DEF terminated
<1> QED BY <1>1, <1>2, <1>3, <1>4, <1>5, <1>6, <1>7, <1>8 DEF Next

-----------------------------------------------------------------------------
(* The theorems, for any managers, types and number of requests.           *)

\* The inductive invariant holds in every reachable state.
THEOREM Invariance == Spec => []IInv
<1>1. Init => IInv BY InitIInv
<1>2. IInv /\ [Next]_vars => IInv' BY NextKeeps, StutterKeeps
<1> QED BY <1>1, <1>2, PTL DEF Spec

\* Queues, jobs and parts name requests that were read, and every thread is somewhere.
THEOREM TypeOKAlways == Spec => []TypeOK
<1>1. IInv => TypeOK BY DEF IInv
<1> QED BY <1>1, Invariance, PTL

\* A client that awaits each answer reads whole frames, although nothing keeps two
\* writers of its socket apart (Server.cpp:331-332).
THEOREM FramesAreWholeInTurnAlways == Spec => []FramesAreWholeInTurn
<1>1. IInv => FramesAreWholeInTurn
  BY FramesByField DEF IInv, WholeFrames, FramesAreWholeInTurn, Calm
<1> QED BY <1>1, Invariance, PTL

\* No request gets two answers, whoever serves it and however its sends fail.
THEOREM AnsweredOnceAlways == Spec => []AnsweredOnce
<1>1. IInv => AnsweredOnce BY DEF IInv
<1> QED BY <1>1, Invariance, PTL

\* The failure of logoutUser's catch block reaches nobody (UserManager.cpp:136-142).
THEOREM OnlyMisplacedFailAlways == Spec => []OnlyMisplacedFail
<1>1. IInv => OnlyMisplacedFail BY DEF IInv
<1> QED BY <1>1, Invariance, PTL

\* The server ends a session only for a client that left or logged out.
THEOREM SessionSurvivesAlways == Spec => []SessionSurvives
<1>1. IInv => SessionSurvives BY DEF IInv
<1> QED BY <1>1, Invariance, PTL
=============================================================================
