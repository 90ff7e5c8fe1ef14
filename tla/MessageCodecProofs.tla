--------------------------- MODULE MessageCodecProofs ---------------------------
(***************************************************************************)
(* That every message arrives as it was set, for any types, texts, ids and *)
(* limits, and however messages are nested in chatrooms and inboxes.       *)
(***************************************************************************)
EXTENDS MessageCodec, TLAPS

-----------------------------------------------------------------------------
(* The invariant.                                                          *)

AllFields == Bools \cup Ints \cup DOMAIN Element

\* What a list may hold, where ms are the messages that were built.
Of(element, ms) ==
  CASE element = "user"     -> Users
    [] element = "chatroom" -> Chatrooms(ms)
    [] element = "message"  -> ms
    [] OTHER                -> Int

\* x may be held by field f.
Held(f, x, ms) ==
  /\ f \in Bools => x \in BOOLEAN
  /\ f \in Ints => x \in Int
  /\ f \in DOMAIN Element => x \in Seq(Of(Element[f], ms))

\* The fields of a builder are well typed.
Filled(b, ms) ==
  /\ DOMAIN b = DOMAIN NewBuilder
  /\ \A f \in DOMAIN NewBuilder : Held(f, b[f], ms)

\* What build makes of a builder with such fields.
IsMessage(o, ms) ==
  \E type \in ToSet(MessageTypes) :
    Built(type) # "none" /\ Filled(o.said, ms) /\ o = message(type, o.said)

\* The builder's part of the invariant: what was built, lists only what was built.
Builds ==
  /\ messageType \in Types \cup {"UNDEFINED"}
  /\ sets \in 0 .. MaxSets
  /\ built \in Seq(ToSet(built)) /\ Len(built) <= MaxBuilt
  /\ Filled(builder, ToSet(built))
  /\ \A o \in ToSet(built) : IsMessage(o, ToSet(built))

\* The fields that are written of an object, and that they are well typed.
FieldsIn(o) == IF o.class = "Frame" THEN {"frame"} ELSE ToSet(Written[o.class])
Sound(o, ms) ==
  /\ o.class \in DOMAIN Written \cup {"Frame"} /\ o.tag \in Int
  /\ \A f \in FieldsIn(o) : Held(f, o.val[f], ms)

\* What is in the first k of the objects w; the length of the frame is not written.
Field(w, p) == w[p.of].val[p.field]
Indexes(w, of, f) ==
  (IF of = 1 THEN {} ELSE {0})
    \cup (IF f \in DOMAIN Element THEN 1 .. Len(w[of].val[f]) ELSE {})
PlacesIn(w, k) ==
  UNION {UNION {{Place(of, f, i) : i \in Indexes(w, of, f)} : f \in FieldsIn(w[of])}
           : of \in 1 .. k}

\* The cell for what is at p, and what is to be done behind it, after k objects.
CellAt(w, p) ==
  IF IsObject(p) THEN Field(w, p)[p.i].tag
  ELSE IF IsCount(p) THEN Len(Field(w, p))
  ELSE IF p.i > 0 THEN Field(w, p)[p.i]
  ELSE IF p.field \in Bools THEN (IF Field(w, p) THEN 1 ELSE 0)
  ELSE Field(w, p)
MoreAt(w, p, k) ==
  IF IsObject(p) THEN fieldsOf(k + 1, Written[Field(w, p)[p.i].class])
  ELSE IF IsCount(p) THEN elementsOf(p, Len(Field(w, p)))
  ELSE << >>
ComeTo(p, k) == IF IsObject(p) THEN k + 1 ELSE k

\* From before cell n to behind it.
Wrote(n) ==
  LET p == Head(left[n].todo)
      k == left[n].visited
  IN /\ left[n].todo # << >>
     /\ data[n] = CellAt(visited, p)
     /\ left[n + 1].todo = MoreAt(visited, p, k) \o Tail(left[n].todo)
     /\ left[n + 1].visited = ComeTo(p, k)
     /\ IsObject(p) => /\ k + 1 \in DOMAIN visited
                       /\ visited[k + 1] = Field(visited, p)[p.i]

Anywhere == [of : Nat, field : AllFields, i : Nat]

\* The writer's part: every cell is what the first place left before it holds, and what was
\* left is at places of the objects that were come to.
Writes ==
  /\ visited \in Seq(ToSet(visited)) /\ Len(visited) > 0
  /\ visited[1].class = "Frame"
  /\ \E m \in ToSet(built) : visited[1].val = [frame |-> <<m>>]
  /\ \A v \in DOMAIN visited : Sound(visited[v], ToSet(built))
  /\ \A v \in DOMAIN visited \ {1} :
       visited[v] \in Users \cup Chatrooms(ToSet(built)) \cup ToSet(built)
  /\ left \in Seq([todo : Seq(Anywhere), visited : Nat]) /\ Len(left) = Len(data) + 1
  /\ left[1] = [todo |-> <<TheMessage>>, visited |-> 1]
  /\ \A n \in DOMAIN left :
       /\ left[n].visited \in 1 .. Len(visited)
       /\ ToSet(left[n].todo) \subseteq PlacesIn(visited, left[n].visited)
  /\ \A n \in DOMAIN data : Wrote(n)

AtTheEnd(s, k) == left[Len(left)].todo = s /\ left[Len(left)].visited = k

\* What the reader keeps of place p.
Right(p) ==
  IF IsObject(p) THEN /\ memory[p] \in DOMAIN objects \ {1}
                      /\ visited[memory[p]] = Field(visited, p)[p.i]
  ELSE memory[p] = IF IsCount(p) THEN Len(Field(visited, p))
                   ELSE IF p.i > 0 THEN Field(visited, p)[p.i] ELSE Field(visited, p)

\* The reader's part: it has left what the writer had, it knows the class of every object, and
\* every place of the objects it has come to was read right or is still to come.
Reads ==
  /\ at \in DOMAIN left /\ todo = left[at].todo
  /\ objects \in Seq(ToSet(objects)) /\ Len(objects) = left[at].visited
  /\ objects[1].class = "Frame"
  /\ \A v \in DOMAIN objects \ {1} :
       /\ objects[v].tag = visited[v].tag
       /\ objects[v].class \in DOMAIN Read
       /\ Read[objects[v].class] = Written[visited[v].class]
  /\ DOMAIN memory \subseteq PlacesIn(visited, Len(objects))
  /\ \A p \in DOMAIN memory : Right(p)
  /\ \A p \in PlacesIn(visited, Len(objects)) :
       \/ p \in DOMAIN memory \cup ToSet(todo)
       \/ p.i > 0 /\ Place(p.of, p.field, 0) \in ToSet(todo)

\* The inductive invariant.
CodecInv ==
  /\ Builds
  /\ stage \in {"build", "write", "read", "hungUp"}
  /\ data \in Seq(Int)
  /\ stage \in {"write", "read"} => Writes
  /\ stage = "write" => AtTheEnd(todo, Len(visited))
  /\ stage = "read" => Reads /\ left[Len(left)].todo = << >>
  /\ stage # "read" => at = 1 /\ objects = << >> /\ memory = << >>
  /\ stage = "hungUp" => Len(data) > MaxSize

-----------------------------------------------------------------------------
(* Sequences.                                                              *)

\* A sequence over a set is one over any larger set.
LEMMA SeqGrows ==
  ASSUME NEW S, NEW T, S \subseteq T
  PROVE  Seq(S) \subseteq Seq(T)
OBVIOUS

\* What Append adds to a sequence and to the set of what is in it.
LEMMA ToSetAppend ==
  ASSUME NEW s, s \in Seq(ToSet(s)), NEW x
  PROVE  /\ Append(s, x) \in Seq(ToSet(Append(s, x)))
         /\ ToSet(Append(s, x)) = ToSet(s) \cup {x}
         /\ Len(Append(s, x)) = Len(s) + 1
         /\ DOMAIN Append(s, x) = DOMAIN s \cup {Len(s) + 1}
         /\ \A i \in DOMAIN s : Append(s, x)[i] = s[i]
         /\ Append(s, x)[Len(s) + 1] = x
<1> DEFINE T == ToSet(s) \cup {x}
<1>1. /\ s \in Seq(T) /\ Append(s, x) \in Seq(T)
      /\ Len(Append(s, x)) = Len(s) + 1 /\ Len(s) \in Nat
      /\ DOMAIN s = 1 .. Len(s) /\ DOMAIN Append(s, x) = 1 .. (Len(s) + 1)
      /\ \A i \in DOMAIN s : Append(s, x)[i] = s[i]
      /\ Append(s, x)[Len(s) + 1] = x
  <2> x \in T OBVIOUS
  <2> ToSet(s) \subseteq T OBVIOUS
  <2> HIDE DEF T
  <2>1. s \in Seq(T) BY SeqGrows
  <2> QED BY <2>1
<1>2. DOMAIN Append(s, x) = DOMAIN s \cup {Len(s) + 1} BY <1>1
<1>3. ToSet(Append(s, x)) = T BY <1>1, <1>2, Zenon DEF ToSet
<1> QED BY <1>1, <1>2, <1>3

\* What is in a sequence is its head and what is in its tail.
LEMMA ToSetTail ==
  ASSUME NEW S, NEW s \in Seq(S), s # << >>
  PROVE  /\ Tail(s) \in Seq(S) /\ Head(s) \in S
         /\ ToSet(s) = {Head(s)} \cup ToSet(Tail(s))
<1>1. /\ Tail(s) \in Seq(S) /\ Len(s) \in Nat \ {0} /\ Head(s) = s[1] /\ s[1] \in S
      /\ DOMAIN s = 1 .. Len(s) /\ DOMAIN Tail(s) = 1 .. (Len(s) - 1)
      /\ \A i \in 1 .. (Len(s) - 1) : Tail(s)[i] = s[i + 1]
  OBVIOUS
<1>2. ASSUME NEW x \in ToSet(s) PROVE x \in {Head(s)} \cup ToSet(Tail(s))
  <2>1. PICK i \in DOMAIN s : x = s[i] BY <1>2 DEF ToSet
  <2>2. CASE i = 1 BY <2>1, <2>2, <1>1
  <2>3. CASE i # 1
    <3>1. i - 1 \in DOMAIN Tail(s) /\ x = Tail(s)[i - 1] BY <2>1, <2>3, <1>1
    <3> QED BY <3>1 DEF ToSet
  <2> QED BY <2>2, <2>3
<1>3. Head(s) \in ToSet(s) BY <1>1 DEF ToSet
<1>4. ASSUME NEW x \in ToSet(Tail(s)) PROVE x \in ToSet(s)
  <2>1. PICK i \in DOMAIN Tail(s) : x = Tail(s)[i] BY <1>4 DEF ToSet
  <2>2. i + 1 \in DOMAIN s /\ x = s[i + 1] BY <2>1, <1>1
  <2> QED BY <2>2 DEF ToSet
<1> QED BY <1>1, <1>2, <1>3, <1>4

\* What is in two sequences in a row is what is in either.
LEMMA ToSetConcatenated ==
  ASSUME NEW S, NEW s \in Seq(S), NEW t \in Seq(S)
  PROVE  s \o t \in Seq(S) /\ ToSet(s \o t) = ToSet(s) \cup ToSet(t)
<1>1. /\ s \o t \in Seq(S) /\ Len(s) \in Nat /\ Len(t) \in Nat
      /\ DOMAIN s = 1 .. Len(s) /\ DOMAIN t = 1 .. Len(t)
      /\ DOMAIN (s \o t) = 1 .. (Len(s) + Len(t))
      /\ \A i \in 1 .. Len(s) : (s \o t)[i] = s[i]
      /\ \A i \in 1 .. Len(t) : (s \o t)[Len(s) + i] = t[i]
  OBVIOUS
<1>2. ASSUME NEW x \in ToSet(s \o t) PROVE x \in ToSet(s) \cup ToSet(t)
  <2>1. PICK i \in DOMAIN (s \o t) : x = (s \o t)[i] BY <1>2 DEF ToSet
  <2>2. CASE i <= Len(s)
    <3>1. i \in DOMAIN s /\ x = s[i] BY <2>1, <2>2, <1>1
    <3> QED BY <3>1 DEF ToSet
  <2>3. CASE i > Len(s)
    <3>1. i - Len(s) \in DOMAIN t /\ x = t[i - Len(s)]
      <4> DEFINE j == i - Len(s)
      <4>1. j \in 1 .. Len(t) /\ i = Len(s) + j BY <2>1, <2>3, <1>1
      <4> QED BY <4>1, <2>1, <1>1
    <3> QED BY <3>1 DEF ToSet
  <2> QED BY <2>1, <2>2, <2>3, <1>1
<1>3. ASSUME NEW x \in ToSet(s) PROVE x \in ToSet(s \o t)
  <2>1. PICK i \in DOMAIN s : x = s[i] BY <1>3 DEF ToSet
  <2>2. i \in DOMAIN (s \o t) /\ x = (s \o t)[i] BY <2>1, <1>1
  <2> QED BY <2>2 DEF ToSet
<1>4. ASSUME NEW x \in ToSet(t) PROVE x \in ToSet(s \o t)
  <2>1. PICK i \in DOMAIN t : x = t[i] BY <1>4 DEF ToSet
  <2>2. Len(s) + i \in DOMAIN (s \o t) /\ x = (s \o t)[Len(s) + i] BY <2>1, <1>1
  <2> QED BY <2>2 DEF ToSet
<1> QED BY <1>1, <1>2, <1>3, <1>4

\* A list of bounded length is a sequence.
LEMMA SeqOfIsSeq ==
  ASSUME NEW S, NEW n \in Nat, NEW s \in SeqOf(S, n)
  PROVE  s \in Seq(S)
BY DEF SeqOf

\* So is it one over any larger set.
LEMMA SeqOfGrows ==
  ASSUME NEW S, NEW T, S \subseteq T, NEW n \in Nat
  PROVE  SeqOf(S, n) \subseteq SeqOf(T, n)
<1>1. ASSUME NEW m \in 0 .. n PROVE [1 .. m -> S] \subseteq [1 .. m -> T] OBVIOUS
<1> QED BY <1>1, Zenon DEF SeqOf

-----------------------------------------------------------------------------
(* The layout of the classes.                                              *)

\* An enumerator can be told from its number (MessageType.hpp:3-26).
LEMMA MessageTypesAreNumbered ==
  ASSUME NEW type \in ToSet(MessageTypes)
  PROVE  /\ Number(type) + 1 \in DOMAIN MessageTypes
         /\ MessageTypes[Number(type) + 1] = type
         /\ Number(type) \in Nat
<1>1. DOMAIN MessageTypes = 1 .. 22 BY DEF MessageTypes
<1>2. \E n \in DOMAIN MessageTypes : MessageTypes[n] = type BY DEF ToSet
<1> QED BY <1>1, <1>2 DEF Number

\* A message that can be built is read by a class that reads what was written.
LEMMA LayoutsAgree ==
  ASSUME NEW type, Built(type) # "none"
  PROVE  /\ ReadAs(type) \in DOMAIN Read
         /\ Built(type) \in DOMAIN Written \ {"User", "ChatroomData"}
         /\ Read[ReadAs(type)] = Written[Built(type)]
BY DEF Built, ReadAs, Read, Written, UserTypes, ChatroomTypes, LogTypes,
       UserWritten, ConnectWritten, AuthWritten, ChatroomWritten, AuthResponseWritten,
       LogRequestWritten, UserRead, ConnectRead, AuthRead, ChatroomRead, AuthResponseRead,
       LogRequestRead

\* The fields behind the cell an object begins with.
LEMMA FieldsAreKnown ==
  ASSUME NEW class \in DOMAIN Written
  PROVE  /\ Written[class] \in Seq(AllFields)
         /\ class \notin {"User", "ChatroomData"} => ToSet(Written[class]) \subseteq DOMAIN Zeroed
         /\ class = "User" => ToSet(Written[class]) = {"name"}
         /\ class = "ChatroomData" => ToSet(Written[class]) = {"memberIds", "messages"}
<1> DEFINE s == Written[class]
<1>1. class = "User" => s = <<"name">> BY DEF Written
<1>2. class = "ChatroomData" => s = <<"memberIds", "messages">> BY DEF Written
<1>3. class \notin {"User", "ChatroomData"} =>
        s \in {UserWritten, ConnectWritten, AuthWritten, ChatroomWritten, AuthResponseWritten,
               LogRequestWritten}
  BY DEF Written
<1>4. ASSUME class \notin {"User", "ChatroomData"} PROVE s \in Seq(DOMAIN Zeroed)
  <2> DEFINE Z == {"success", "contents", "toName", "toId", "fromName", "fromId", "toChatroom",
                   "userMap", "chatrooms", "inbox", "messages"}
  <2>1. UserWritten \in Seq(Z) /\ ConnectWritten \in Seq(Z) /\ AuthWritten \in Seq(Z)
    BY DEF UserWritten, ConnectWritten, AuthWritten
  <2>2. ChatroomWritten \in Seq(Z) /\ AuthResponseWritten \in Seq(Z)
    BY DEF ChatroomWritten, AuthResponseWritten
  <2>3. LogRequestWritten \in Seq(Z) BY DEF LogRequestWritten
  <2>4. s \in Seq(Z) BY <1>3, <1>4, <2>1, <2>2, <2>3
  <2>5. Z \subseteq DOMAIN Zeroed BY DEF Zeroed
  <2> QED BY <2>4, <2>5
<1>5. DOMAIN Zeroed \cup {"name", "memberIds"} \subseteq AllFields
  BY DEF Zeroed, AllFields, Bools, Ints, Element
<1>6. "messages" \in AllFields BY DEF AllFields, Element
<1>7. s \in Seq(AllFields)
  <2>1. <<"name">> \in Seq(AllFields) BY <1>5
  <2>2. <<"memberIds", "messages">> \in Seq(AllFields) BY <1>5, <1>6
  <2>3. \A t \in Seq(DOMAIN Zeroed) : t \in Seq(AllFields) BY <1>5
  <2> QED BY <2>1, <2>2, <2>3, <1>1, <1>2, <1>4
<1>8. class \notin {"User", "ChatroomData"} => ToSet(s) \subseteq DOMAIN Zeroed
  BY <1>4 DEF ToSet
<1>9. ToSet(<<"name">>) = {"name"} BY DEF ToSet
<1>10. ToSet(<<"memberIds", "messages">>) = {"memberIds", "messages"}
  <2> DEFINE t == <<"memberIds", "messages">>
  <2>1. DOMAIN t = {1, 2} /\ t[1] = "memberIds" /\ t[2] = "messages" OBVIOUS
  <2> QED BY <2>1, Zenon DEF ToSet
<1> QED BY <1>1, <1>2, <1>7, <1>8, <1>9, <1>10

-----------------------------------------------------------------------------
(* What may be set, built and listed is well typed.                        *)

\* The bounds are natural numbers.
LEMMA Limits ==
  /\ MaxSets \in Nat /\ MaxBuilt \in Nat /\ MaxList \in Nat /\ MaxRooms \in Nat
  /\ MaxSize \in Nat
BY CodecAssumption

\* A field that is well typed stays so when more messages have been built.
LEMMA HeldGrows ==
  ASSUME NEW ms, NEW ns, ms \subseteq ns, NEW f, NEW x, Held(f, x, ms)
  PROVE  Held(f, x, ns)
<1>1. Chatrooms(ms) \subseteq Chatrooms(ns)
  <2>1. SeqOf(ms, MaxList) \subseteq SeqOf(ns, MaxList) BY SeqOfGrows, Limits
  <2> QED BY <2>1 DEF Chatrooms
<1>2. \A e : Of(e, ms) \subseteq Of(e, ns) BY <1>1 DEF Of
<1>3. Seq(Of(Element[f], ms)) \subseteq Seq(Of(Element[f], ns)) BY <1>2
<1> QED BY <1>3 DEF Held

\* So do the fields of a builder, and the messages.
LEMMA MessagesGrow ==
  ASSUME NEW ms, NEW ns, ms \subseteq ns
  PROVE  /\ \A b : Filled(b, ms) => Filled(b, ns)
         /\ \A o : IsMessage(o, ms) => IsMessage(o, ns)
<1>1. \A b : Filled(b, ms) => Filled(b, ns) BY HeldGrows DEF Filled
<1> QED BY <1>1 DEF IsMessage

\* A new builder's fields are well typed (MessageBuilder.hpp:44-53).
LEMMA NewBuilderIsFilled ==
  ASSUME NEW ms
  PROVE  Filled(NewBuilder, ms)
<1>1. ASSUME NEW f \in DOMAIN NewBuilder PROVE Held(f, NewBuilder[f], ms)
  <2>1. << >> \in Seq(Of(Element[f], ms)) OBVIOUS
  <2>2. f \in DOMAIN Element => NewBuilder[f] = << >> BY DEF NewBuilder, Element
  <2>3. f \in Bools => NewBuilder[f] \in BOOLEAN
    <3>1. NewBuilder["success"] \in BOOLEAN BY Zenon DEF NewBuilder
    <3> QED BY <3>1 DEF Bools
  <2>4. f \in Ints => NewBuilder[f] \in Int BY DEF NewBuilder, Ints
  <2> QED BY <2>1, <2>2, <2>3, <2>4 DEF Held
<1> QED BY <1>1 DEF Filled

\* A setter with a well-typed argument keeps them so.
LEMMA SetterFills ==
  ASSUME NEW ms, NEW b, Filled(b, ms), NEW f \in DOMAIN NewBuilder, NEW x, Held(f, x, ms)
  PROVE  Filled([b EXCEPT ![f] = x], ms)
BY DEF Filled

\* Build copies well-typed fields, and zeroes the others.
LEMMA MessagesAreSound ==
  ASSUME NEW ms, NEW o, IsMessage(o, ms)
  PROVE  /\ Sound(o, ms)
         /\ o.class \in DOMAIN Written \ {"User", "ChatroomData"}
         /\ o.tag + 1 \in DOMAIN MessageTypes
         /\ Built(MessageTypes[o.tag + 1]) = o.class /\ o.class # "none"
         /\ DOMAIN o.val = DOMAIN Zeroed
         /\ \A f \in DOMAIN Zeroed :
              f \in Copied(MessageTypes[o.tag + 1]) => o.val[f] = o.said[f]
<1>1. PICK type \in ToSet(MessageTypes) :
        Built(type) # "none" /\ Filled(o.said, ms) /\ o = message(type, o.said)
  BY DEF IsMessage
<1>2. /\ o.class = Built(type) /\ o.tag = Number(type) /\ DOMAIN o.val = DOMAIN Zeroed
      /\ \A f \in DOMAIN Zeroed :
           o.val[f] = IF f \in Copied(type) THEN o.said[f] ELSE Zeroed[f]
  BY <1>1 DEF message, Object
<1>3. o.tag \in Int /\ o.tag + 1 \in DOMAIN MessageTypes /\ MessageTypes[o.tag + 1] = type
  BY <1>2, MessageTypesAreNumbered
<1>4. o.class \in DOMAIN Written \ {"User", "ChatroomData"} BY <1>1, <1>2, LayoutsAgree
<1>5. o.class # "Frame" BY <1>4 DEF Written
<1>6. FieldsIn(o) \subseteq DOMAIN Zeroed BY <1>4, <1>5, FieldsAreKnown DEF FieldsIn
<1>7. ASSUME NEW f \in DOMAIN Zeroed PROVE Held(f, o.val[f], ms)
  <2>1. Copied(type) \subseteq DOMAIN NewBuilder
    BY DEF Copied, Common, ToUser, FromUser, NewBuilder
  <2>2. Held(f, Zeroed[f], ms)
    <3>1. << >> \in Seq(Of(Element[f], ms)) OBVIOUS
    <3>2. f \in DOMAIN Element => Zeroed[f] = << >> BY DEF Zeroed, Element
    <3>3. f \in Bools => Zeroed[f] \in BOOLEAN
      <4>1. Zeroed["success"] \in BOOLEAN BY Zenon DEF Zeroed
      <4> QED BY <4>1 DEF Bools
    <3>4. f \in Ints => Zeroed[f] \in Int BY DEF Zeroed, Ints
    <3> QED BY <3>1, <3>2, <3>3, <3>4 DEF Held
  <2> QED BY <2>1, <2>2, <1>1, <1>2 DEF Filled
<1>8. Sound(o, ms) BY <1>3, <1>4, <1>6, <1>7 DEF Sound
<1> QED BY <1>1, <1>2, <1>3, <1>4, <1>8

\* So is what a list of objects holds, and the reader knows its class by its first cell.
LEMMA ListedAreSound ==
  ASSUME NEW ms, \A m \in ms : IsMessage(m, ms), NEW e \in Nested, NEW o \in Of(e, ms)
  PROVE  /\ Sound(o, ms) /\ o.class \in DOMAIN Written /\ o.class # "Frame"
         /\ o.tag \in Int
         /\ e = "message" => o.tag >= 0
         /\ ClassOf(e, o.tag) \in DOMAIN Read
         /\ Read[ClassOf(e, o.tag)] = Written[o.class]
<1>1. CASE e = "user"
  <2>1. PICK id \in Numbers, name \in Texts : o = User(id, name) BY <1>1 DEF Of, Users
  <2>2. o.class = "User" /\ o.tag = id /\ o.val = [name |-> name] BY <2>1 DEF User, Object
  <2>3. id \in Int /\ name \in Seq(Int) BY CodecAssumption
  <2>4. "User" \in DOMAIN Written BY DEF Written
  <2>5. FieldsIn(o) = {"name"} BY <2>2, <2>4, FieldsAreKnown DEF FieldsIn
  <2>6. Held("name", name, ms) BY <2>3 DEF Held, Of, Element, Bools, Ints
  <2>7. ClassOf(e, o.tag) = "User" BY <1>1 DEF ClassOf
  <2>8. "User" \in DOMAIN Read /\ Read["User"] = Written["User"] BY DEF Read, Written
  <2> QED BY <1>1, <2>2, <2>3, <2>4, <2>5, <2>6, <2>7, <2>8 DEF Sound
<1>2. CASE e = "chatroom"
  <2>1. PICK id \in Numbers,
             fields \in [memberIds : SeqOf(Numbers, MaxList), messages : SeqOf(ms, MaxList)] :
          o = Chatroom(id, fields)
    BY <1>2 DEF Of, Chatrooms
  <2>2. o.class = "ChatroomData" /\ o.tag = id /\ o.val = fields BY <2>1 DEF Chatroom, Object
  <2>3. id \in Int /\ Numbers \subseteq Int BY CodecAssumption
  <2>4. "ChatroomData" \in DOMAIN Written BY DEF Written
  <2>5. FieldsIn(o) = {"memberIds", "messages"} BY <2>2, <2>4, FieldsAreKnown DEF FieldsIn
  <2>6. Held("memberIds", fields.memberIds, ms)
    <3>1. fields.memberIds \in Seq(Numbers) BY SeqOfIsSeq, Limits
    <3>2. Seq(Numbers) \subseteq Seq(Int) BY <2>3, SeqGrows, Zenon
    <3>3. fields.memberIds \in Seq(Int) BY <3>1, <3>2
    <3> QED BY <3>3 DEF Held, Of, Element, Bools, Ints
  <2>7. Held("messages", fields.messages, ms)
    <3>1. fields.messages \in Seq(ms) BY SeqOfIsSeq, Limits
    <3> QED BY <3>1 DEF Held, Of, Element, Bools, Ints
  <2>8. ClassOf(e, o.tag) = "ChatroomData" BY <1>2 DEF ClassOf
  <2>9. "ChatroomData" \in DOMAIN Read /\ Read["ChatroomData"] = Written["ChatroomData"]
    BY DEF Read, Written
  <2> QED BY <1>2, <2>2, <2>3, <2>4, <2>5, <2>6, <2>7, <2>8, <2>9 DEF Sound
<1>3. CASE e = "message"
  <2>1. IsMessage(o, ms) BY <1>3 DEF Of
  <2>2. ClassOf(e, o.tag) = ReadAs(MessageTypes[o.tag + 1])
    BY <1>3, <2>1, MessagesAreSound DEF ClassOf
  <2>3. DOMAIN MessageTypes = 1 .. 22 BY DEF MessageTypes
  <2>4. o.class # "Frame" BY <2>1, MessagesAreSound DEF Written
  <2> QED BY <2>1, <2>2, <2>3, <2>4, MessagesAreSound, LayoutsAgree DEF Sound
<1> QED BY <1>1, <1>2, <1>3 DEF Nested

-----------------------------------------------------------------------------
(* Places.                                                                 *)

\* The places of the first k objects, told by their parts.
LEMMA WhatAPlaceIs ==
  ASSUME NEW w, NEW k, NEW p
  PROVE  p \in PlacesIn(w, k) <=>
           /\ p = Place(p.of, p.field, p.i)
           /\ p.of \in 1 .. k /\ p.field \in FieldsIn(w[p.of])
           /\ p.i \in Indexes(w, p.of, p.field)
<1>1. ASSUME p \in PlacesIn(w, k)
      PROVE  /\ p = Place(p.of, p.field, p.i)
             /\ p.of \in 1 .. k /\ p.field \in FieldsIn(w[p.of])
             /\ p.i \in Indexes(w, p.of, p.field)
  <2>1. PICK of \in 1 .. k :
          p \in UNION {{Place(of, f, i) : i \in Indexes(w, of, f)} : f \in FieldsIn(w[of])}
    BY <1>1, Zenon DEF PlacesIn
  <2>2. PICK f \in FieldsIn(w[of]) : p \in {Place(of, f, i) : i \in Indexes(w, of, f)}
    BY <2>1, Zenon
  <2>3. PICK i \in Indexes(w, of, f) : p = Place(of, f, i) BY <2>2, Zenon
  <2>4. p.of = of /\ p.field = f /\ p.i = i BY <2>3 DEF Place
  <2> QED BY <2>3, <2>4, Zenon
<1>2. ASSUME NEW of \in 1 .. k, NEW f \in FieldsIn(w[of]), NEW i \in Indexes(w, of, f)
      PROVE  Place(of, f, i) \in PlacesIn(w, k)
  <2> DEFINE Under(g) == {Place(of, g, j) : j \in Indexes(w, of, g)}
             In(v) == UNION {{Place(v, g, j) : j \in Indexes(w, v, g)} : g \in FieldsIn(w[v])}
  <2>1. Place(of, f, i) \in Under(f) BY Zenon
  <2>2. Place(of, f, i) \in UNION {Under(g) : g \in FieldsIn(w[of])} BY <2>1, Zenon
  <2>3. Place(of, f, i) \in In(of) BY <2>2
  <2> HIDE DEF In
  <2>4. Place(of, f, i) \in UNION {In(v) : v \in 1 .. k} BY <2>3, Zenon
  <2> QED BY <2>4 DEF PlacesIn, In
<1> QED BY <1>1, <1>2, Zenon

\* The places of an object before any list in it is come to, and those of a list.
Starts(of, fields) == {Place(of, f, 0) : f \in fields}
Behind(p, n)       == {Place(p.of, p.field, i) : i \in 1 .. n}

\* What is behind the first cell of an object are the starts of its fields.
LEMMA FieldsOf ==
  ASSUME NEW n \in Nat, NEW s \in Seq(AllFields)
  PROVE  /\ fieldsOf(n, s) \in Seq(Anywhere)
         /\ ToSet(fieldsOf(n, s)) = Starts(n, ToSet(s))
<1>1. DOMAIN s = 1 .. Len(s) /\ Len(s) \in Nat /\ \A i \in DOMAIN s : s[i] \in AllFields
  OBVIOUS
<1>2. fieldsOf(n, s) \in Seq(Anywhere)
  <2>1. fieldsOf(n, s) \in [1 .. Len(s) -> Anywhere] BY <1>1 DEF fieldsOf, Place, Anywhere
  <2> QED BY <2>1, <1>1
<1>3. ToSet(fieldsOf(n, s)) = Starts(n, ToSet(s))
  BY Zenon DEF ToSet, fieldsOf, Starts
<1> QED BY <1>2, <1>3

\* What is behind a length are the elements.
LEMMA ElementsOf ==
  ASSUME NEW p \in Anywhere, NEW n \in Nat
  PROVE  /\ elementsOf(p, n) \in Seq(Anywhere)
         /\ ToSet(elementsOf(p, n)) = Behind(p, n)
<1>1. elementsOf(p, n) \in [1 .. n -> Anywhere] BY DEF elementsOf, Place, Anywhere
<1>2. elementsOf(p, n) \in Seq(Anywhere) BY <1>1
<1>3. ToSet(elementsOf(p, n)) = Behind(p, n)
  BY Zenon DEF ToSet, elementsOf, Behind
<1> QED BY <1>2, <1>3

\* Objects that are come to later change nothing at the places of the earlier ones.
LEMMA PlacesStay ==
  ASSUME NEW w, NEW x, NEW k \in Nat, \A v \in 1 .. k : x[v] = w[v]
  PROVE  /\ PlacesIn(x, k) = PlacesIn(w, k)
         /\ \A l \in Nat : k <= l => PlacesIn(w, k) \subseteq PlacesIn(x, l)
<1>1. ASSUME NEW l \in Nat, k <= l, NEW p \in PlacesIn(w, k)
      PROVE  p \in PlacesIn(x, l)
  <2>1. /\ p = Place(p.of, p.field, p.i)
        /\ p.of \in 1 .. k /\ p.field \in FieldsIn(w[p.of])
        /\ p.i \in Indexes(w, p.of, p.field)
    BY <1>1, WhatAPlaceIs, Zenon
  <2>2. p.of \in 1 .. l BY <2>1, <1>1
  <2>3. p.field \in FieldsIn(x[p.of]) /\ p.i \in Indexes(x, p.of, p.field)
    BY <2>1, Zenon DEF Indexes
  <2> QED BY <2>1, <2>2, <2>3, WhatAPlaceIs, Zenon
<1>2. ASSUME NEW p \in PlacesIn(x, k) PROVE p \in PlacesIn(w, k)
  <2>1. /\ p = Place(p.of, p.field, p.i)
        /\ p.of \in 1 .. k /\ p.field \in FieldsIn(x[p.of])
        /\ p.i \in Indexes(x, p.of, p.field)
    BY <1>2, WhatAPlaceIs, Zenon
  <2>2. p.field \in FieldsIn(w[p.of]) /\ p.i \in Indexes(w, p.of, p.field)
    BY <2>1, Zenon DEF Indexes
  <2> QED BY <2>1, <2>2, WhatAPlaceIs, Zenon
<1>3. k <= k OBVIOUS
<1> QED BY <1>1, <1>2, <1>3

\* Nor do they change the cells there and what is to be done behind them.
LEMMA WhatIsThereStays ==
  ASSUME NEW w, NEW x, NEW k, \A v \in 1 .. k : x[v] = w[v], NEW p \in PlacesIn(w, k), NEW n
  PROVE  /\ Field(x, p) = Field(w, p) /\ CellAt(x, p) = CellAt(w, p)
         /\ MoreAt(x, p, n) = MoreAt(w, p, n)
<1>1. p.of \in 1 .. k BY WhatAPlaceIs, Zenon
<1>2. Field(x, p) = Field(w, p) BY <1>1, Zenon DEF Field
<1> QED BY <1>2, Zenon DEF CellAt, MoreAt

\* What is at a place of well-typed objects.
LEMMA PlacesAreSound ==
  ASSUME NEW ms, \A m \in ms : IsMessage(m, ms),
         NEW w, NEW k \in Nat, \A v \in 1 .. k : Sound(w[v], ms), NEW p \in PlacesIn(w, k)
  PROVE  /\ p \in Anywhere
         /\ Held(p.field, Field(w, p), ms)
         /\ p.i > 0 => /\ p.field \in DOMAIN Element
                       /\ p.i \in DOMAIN Field(w, p)
                       /\ Field(w, p)[p.i] \in Of(Element[p.field], ms)
         /\ IsCount(p) => Len(Field(w, p)) \in Nat
         /\ CellAt(w, p) \in Int
<1>1. /\ p = Place(p.of, p.field, p.i)
      /\ p.of \in 1 .. k /\ p.field \in FieldsIn(w[p.of])
      /\ p.i \in Indexes(w, p.of, p.field)
  BY WhatAPlaceIs, Zenon
<1>2. Sound(w[p.of], ms) BY <1>1
<1>3. Held(p.field, Field(w, p), ms) BY <1>1, <1>2, Zenon DEF Sound, Field
<1>4. p.field \in AllFields
  <2>1. CASE w[p.of].class = "Frame"
    BY <2>1, <1>1 DEF FieldsIn, AllFields, Element
  <2>2. CASE w[p.of].class # "Frame"
    <3>1. w[p.of].class \in DOMAIN Written BY <2>2, <1>2 DEF Sound
    <3>2. Written[w[p.of].class] \in Seq(AllFields) BY <3>1, FieldsAreKnown
    <3>3. ToSet(Written[w[p.of].class]) \subseteq AllFields BY <3>2 DEF ToSet
    <3> QED BY <3>3, <2>2, <1>1 DEF FieldsIn
  <2> QED BY <2>1, <2>2
<1>5. p.field \in DOMAIN Element =>
        /\ Field(w, p) \in Seq(Of(Element[p.field], ms))
        /\ Len(Field(w, p)) \in Nat /\ DOMAIN Field(w, p) = 1 .. Len(Field(w, p))
  BY <1>3 DEF Held
<1>6. p.i \in Nat /\ (p.i > 0 => p.field \in DOMAIN Element /\ p.i \in DOMAIN Field(w, p))
  <2>1. p.field \in DOMAIN Element =>
          p.i \in 0 .. Len(w[p.of].val[p.field]) BY <1>1, <1>5 DEF Indexes, Field
  <2>2. p.field \notin DOMAIN Element => p.i = 0 BY <1>1 DEF Indexes
  <2> QED BY <2>1, <2>2, <1>5 DEF Field
<1>7. p \in Anywhere
  <2>1. p.of \in Nat BY <1>1
  <2> QED BY <2>1, <1>1, <1>4, <1>6 DEF Anywhere, Place
<1>8. p.i > 0 => Field(w, p)[p.i] \in Of(Element[p.field], ms) BY <1>5, <1>6
<1>9. IsCount(p) => Len(Field(w, p)) \in Nat BY <1>5 DEF IsCount
<1>10. CellAt(w, p) \in Int
  <2>1. CASE IsObject(p)
    BY <2>1, <1>8, ListedAreSound DEF IsObject, CellAt
  <2>2. CASE ~ IsObject(p) /\ IsCount(p) BY <2>2, <1>9 DEF CellAt
  <2>3. CASE ~ IsObject(p) /\ ~ IsCount(p) /\ p.i > 0
    <3>1. Element[p.field] \notin Nested BY <2>3 DEF IsObject
    <3>2. Of(Element[p.field], ms) = Int BY <3>1 DEF Of, Nested
    <3> QED BY <3>2, <2>3, <1>8 DEF CellAt
  <2>4. CASE ~ IsObject(p) /\ ~ IsCount(p) /\ ~ (p.i > 0)
    <3>1. p.field \notin DOMAIN Element BY <2>4, <1>6 DEF IsCount
    <3>2. CASE p.field \in Bools BY <3>2, <2>4 DEF CellAt
    <3>3. CASE p.field \notin Bools
      BY <3>1, <3>3, <2>4, <1>3, <1>4 DEF CellAt, AllFields, Held
    <3> QED BY <3>2, <3>3
  <2> QED BY <2>1, <2>2, <2>3, <2>4
<1> QED BY <1>3, <1>6, <1>7, <1>8, <1>9, <1>10

\* What is to be done behind a place.
NewPlaces(w, p, k) ==
  IF IsObject(p) THEN Starts(k + 1, FieldsIn(Field(w, p)[p.i]))
  ELSE IF IsCount(p) THEN Behind(p, Len(Field(w, p)))
  ELSE {}

\* What is to be done behind a cell are the new places.
LEMMA WhatMoreIs ==
  ASSUME NEW ms, \A m \in ms : IsMessage(m, ms),
         NEW w, NEW k \in Nat, \A v \in 1 .. k : Sound(w[v], ms),
         NEW p \in PlacesIn(w, k)
  PROVE  /\ MoreAt(w, p, k) \in Seq(Anywhere)
         /\ ToSet(MoreAt(w, p, k)) = NewPlaces(w, p, k)
<1>1. /\ p \in Anywhere
      /\ p.i > 0 => /\ p.field \in DOMAIN Element
                    /\ Field(w, p)[p.i] \in Of(Element[p.field], ms)
      /\ IsCount(p) => Len(Field(w, p)) \in Nat
  BY PlacesAreSound
<1>2. CASE IsObject(p)
  <2> DEFINE o == Field(w, p)[p.i]
  <2>1. Element[p.field] \in Nested /\ o \in Of(Element[p.field], ms)
    BY <1>1, <1>2 DEF IsObject
  <2>2. o.class \in DOMAIN Written /\ o.class # "Frame" BY <2>1, ListedAreSound
  <2>3. Written[o.class] \in Seq(AllFields) BY <2>2, FieldsAreKnown
  <2>4. MoreAt(w, p, k) = fieldsOf(k + 1, Written[o.class]) BY <1>2 DEF MoreAt
  <2>5. NewPlaces(w, p, k) = Starts(k + 1, ToSet(Written[o.class]))
    BY <1>2, <2>2 DEF NewPlaces, FieldsIn
  <2> QED BY <2>3, <2>4, <2>5, FieldsOf
<1>3. CASE ~ IsObject(p) /\ IsCount(p)
  BY <1>1, <1>3, ElementsOf DEF MoreAt, NewPlaces
<1>4. CASE ~ IsObject(p) /\ ~ IsCount(p)
  BY <1>4 DEF MoreAt, NewPlaces, ToSet
<1> QED BY <1>2, <1>3, <1>4

\* These are places, where x holds the object that is come to at p.
LEMMA NewPlacesArePlaces ==
  ASSUME NEW w, NEW k \in Nat \ {0}, NEW p \in PlacesIn(w, k),
         NEW x, \A v \in 1 .. k : x[v] = w[v],
         IsObject(p) => x[k + 1] = Field(w, p)[p.i]
  PROVE  NewPlaces(w, p, k) \subseteq PlacesIn(x, ComeTo(p, k))
<1>1. CASE IsObject(p)
  <2>1. NewPlaces(w, p, k) = Starts(k + 1, FieldsIn(x[k + 1])) BY <1>1, Zenon DEF NewPlaces
  <2>2. ASSUME NEW f \in FieldsIn(x[k + 1]) PROVE Place(k + 1, f, 0) \in PlacesIn(x, k + 1)
    <3> DEFINE q == Place(k + 1, f, 0)
    <3>1. q.of = k + 1 /\ q.field = f /\ q.i = 0 BY DEF Place
    <3>2. 0 \in Indexes(x, k + 1, f) BY DEF Indexes
    <3>3. k + 1 \in 1 .. k + 1 OBVIOUS
    <3> QED BY <3>1, <3>2, <3>3, <2>2, WhatAPlaceIs, Zenon
  <2> QED BY <1>1, <2>1, <2>2, Zenon DEF ComeTo, Starts
<1>2. CASE ~ IsObject(p) /\ IsCount(p)
  <2>1. NewPlaces(w, p, k) = Behind(p, Len(Field(w, p))) BY <1>2, Zenon DEF NewPlaces
  <2>2. ASSUME NEW i \in 1 .. Len(Field(w, p))
        PROVE  Place(p.of, p.field, i) \in PlacesIn(x, k)
    <3> DEFINE q == Place(p.of, p.field, i)
    <3>1. q.of = p.of /\ q.field = p.field /\ q.i = i BY DEF Place
    <3>2. p.of \in 1 .. k /\ p.field \in FieldsIn(w[p.of]) BY WhatAPlaceIs, Zenon
    <3>3. i \in Indexes(w, p.of, p.field) BY <1>2, <2>2 DEF Indexes, IsCount, Field
    <3>4. q \in PlacesIn(w, k) BY <3>1, <3>2, <3>3, WhatAPlaceIs, Zenon
    <3> QED BY <3>4, PlacesStay
  <2> QED BY <1>2, <2>1, <2>2, Zenon DEF ComeTo, Behind
<1>3. CASE ~ IsObject(p) /\ ~ IsCount(p) BY <1>3, Zenon DEF NewPlaces
<1> QED BY <1>1, <1>2, <1>3

-----------------------------------------------------------------------------
(* The writer.                                                             *)

\* What the three steps of the writer have in common.
LEMMA WriterSteps ==
  ASSUME writeValue \/ writeCount \/ writeObject
  PROVE  LET p == Head(todo)
         IN /\ stage = "write" /\ todo # << >>
            /\ visited' = IF IsObject(p) THEN Append(visited, Field(visited, p)[p.i])
                          ELSE visited
            /\ data' = Append(data, CellAt(visited, p))
            /\ todo' = MoreAt(visited, p, Len(visited)) \o Tail(todo)
            /\ left' = Append(left, [todo |-> todo', visited |-> Len(visited')])
            /\ UNCHANGED <<builderVars, stage, readerVars>>
<1> DEFINE p == Head(todo)
<1>0. there(p) = Field(visited, p) BY DEF there, Field
<1>1. CASE writeValue
  <2>1. ~ IsCount(p) /\ ~ IsObject(p) BY <1>1 DEF writeValue
  <2>2. /\ CellAt(visited, p) =
             (IF p.i > 0 THEN there(p)[p.i]
              ELSE IF p.field \in Bools THEN (IF there(p) THEN 1 ELSE 0)
              ELSE there(p))
        /\ MoreAt(visited, p, Len(visited)) = << >>
    BY <2>1, <1>0 DEF CellAt, MoreAt
  <2> QED BY <1>1, <2>1, <2>2 DEF writeValue, writeCell, writing
<1>2. CASE writeCount
  <2>1. IsCount(p) BY <1>2 DEF writeCount
  <2>2. ~ IsObject(p) BY <2>1 DEF IsCount, IsObject
  <2>3. /\ CellAt(visited, p) = Len(there(p))
        /\ MoreAt(visited, p, Len(visited)) = elementsOf(p, Len(there(p)))
    BY <2>1, <2>2, <1>0 DEF CellAt, MoreAt
  <2> QED BY <1>2, <2>2, <2>3 DEF writeCount, writeCell, writing
<1>3. CASE writeObject
  <2>1. IsObject(p) BY <1>3 DEF writeObject
  <2>2. /\ CellAt(visited, p) = there(p)[p.i].tag
        /\ MoreAt(visited, p, Len(visited)) =
             fieldsOf(Len(visited) + 1, Written[there(p)[p.i].class])
    BY <2>1, <1>0 DEF CellAt, MoreAt
  <2> QED BY <1>3, <2>1, <2>2, <1>0 DEF writeObject, writeCell, writing
<1> QED BY <1>1, <1>2, <1>3

\* What is still to do before a cell is at places that were come to before it.
LEMMA LeftIsSound ==
  ASSUME Writes, NEW n \in DOMAIN left
  PROVE  /\ left[n].todo \in Seq(Anywhere) /\ left[n].visited \in 1 .. Len(visited)
         /\ ToSet(left[n].todo) \subseteq PlacesIn(visited, left[n].visited)
         /\ \A v \in 1 .. left[n].visited : Sound(visited[v], ToSet(built))
         /\ left[n].todo # << >> =>
              /\ Head(left[n].todo) \in PlacesIn(visited, left[n].visited)
              /\ Tail(left[n].todo) \in Seq(Anywhere)
              /\ ToSet(left[n].todo) =
                   {Head(left[n].todo)} \cup ToSet(Tail(left[n].todo))
<1> DEFINE R == [todo : Seq(Anywhere), visited : Nat]
<1>1. left \in Seq(R) BY DEF Writes
<1>2. \A r \in R : r.todo \in Seq(Anywhere) OBVIOUS
<1>3. left[n].todo \in Seq(Anywhere)
  <2> HIDE DEF R
  <2>1. left[n] \in R BY <1>1
  <2> QED BY <2>1, <1>2
<1>4. /\ left[n].visited \in 1 .. Len(visited)
      /\ ToSet(left[n].todo) \subseteq PlacesIn(visited, left[n].visited)
  BY DEF Writes
<1>5. Len(visited) \in Nat /\ DOMAIN visited = 1 .. Len(visited) BY DEF Writes
<1>6. \A v \in 1 .. left[n].visited : v \in DOMAIN visited BY <1>4, <1>5
<1>7. \A v \in 1 .. left[n].visited : Sound(visited[v], ToSet(built))
  BY <1>6 DEF Writes
<1>8. ASSUME left[n].todo # << >>
      PROVE  /\ Head(left[n].todo) \in ToSet(left[n].todo)
             /\ Tail(left[n].todo) \in Seq(Anywhere)
             /\ ToSet(left[n].todo) =
                  {Head(left[n].todo)} \cup ToSet(Tail(left[n].todo))
  BY <1>3, <1>8, ToSetTail
<1> QED BY <1>3, <1>4, <1>7, <1>8

\* A step of the writer adds a cell that is what is at the first place, and the new places
\* are among the places of the objects it has come to.
LEMMA WriterKeepsWrites ==
  ASSUME Builds, Writes, AtTheEnd(todo, Len(visited)), data \in Seq(Int),
         writeValue \/ writeCount \/ writeObject
  PROVE  Writes' /\ AtTheEnd(todo, Len(visited))' /\ data' \in Seq(Int)
<1> DEFINE p  == Head(todo)
           k  == Len(visited)
           ms == ToSet(built)
           N  == Len(left)
<1>1. /\ stage = "write" /\ todo # << >>
      /\ visited' = IF IsObject(p) THEN Append(visited, Field(visited, p)[p.i]) ELSE visited
      /\ data' = Append(data, CellAt(visited, p))
      /\ todo' = MoreAt(visited, p, k) \o Tail(todo)
      /\ left' = Append(left, [todo |-> todo', visited |-> Len(visited')])
      /\ built' = built /\ p = Head(todo) /\ k = Len(visited) /\ N = Len(left)
      /\ ms = ToSet(built)
  BY WriterSteps DEF builderVars
<1>2. /\ \A m \in ms : IsMessage(m, ms) BY DEF Builds
<1>3. /\ visited \in Seq(ToSet(visited)) /\ k \in Nat \ {0} /\ DOMAIN visited = 1 .. k
      /\ \A v \in 1 .. k : Sound(visited[v], ms)
  BY DEF Writes
<1>4. /\ left \in Seq([todo : Seq(Anywhere), visited : Nat])
      /\ N = Len(data) + 1 /\ N \in Nat \ {0} /\ DOMAIN left = 1 .. N
      /\ Len(data) \in Nat /\ DOMAIN data = 1 .. Len(data)
  BY DEF Writes
<1>5. todo = left[N].todo /\ k = left[N].visited /\ N \in DOMAIN left
  BY <1>4 DEF AtTheEnd
<1> HIDE DEF p, k, ms, N
<1>6. todo \in Seq(Anywhere) /\ ToSet(todo) \subseteq PlacesIn(visited, k)
  BY <1>5, LeftIsSound
<1>7. /\ p \in PlacesIn(visited, k) /\ Tail(todo) \in Seq(Anywhere)
      /\ ToSet(Tail(todo)) \subseteq PlacesIn(visited, k)
  BY <1>1, <1>6, ToSetTail
<1>8. /\ IsObject(p) => Field(visited, p)[p.i] \in Of(Element[p.field], ms)
                        /\ Element[p.field] \in Nested
      /\ CellAt(visited, p) \in Int
  BY <1>2, <1>3, <1>7, PlacesAreSound DEF IsObject
<1>9. /\ visited' \in Seq(ToSet(visited'))
      /\ Len(visited') = ComeTo(p, k) /\ DOMAIN visited' = 1 .. ComeTo(p, k)
      /\ \A v \in 1 .. k : visited'[v] = visited[v]
      /\ IsObject(p) => visited'[k + 1] = Field(visited, p)[p.i]
  <2>1. CASE IsObject(p)
    <3>1. visited' = Append(visited, Field(visited, p)[p.i]) /\ ComeTo(p, k) = k + 1
      BY <2>1, <1>1 DEF ComeTo
    <3> DEFINE w == Append(visited, Field(visited, p)[p.i])
    <3>2. /\ w \in Seq(ToSet(w)) /\ Len(w) = k + 1
          /\ \A v \in DOMAIN visited : w[v] = visited[v]
          /\ w[k + 1] = Field(visited, p)[p.i]
      BY <1>1, <1>3, ToSetAppend
    <3> HIDE DEF w
    <3>3. DOMAIN w = 1 .. k + 1 BY <3>2
    <3>4. visited' = w BY <3>1 DEF w
    <3> QED BY <3>1, <3>2, <3>3, <3>4, <2>1, <1>3
  <2>2. CASE ~ IsObject(p)
    <3>1. visited' = visited /\ ComeTo(p, k) = k BY <2>2, <1>1 DEF ComeTo
    <3> QED BY <3>1, <2>2, <1>3
  <2> QED BY <2>1, <2>2
<1>10. ComeTo(p, k) \in Nat /\ k <= ComeTo(p, k) BY <1>3 DEF ComeTo
<1>11. /\ MoreAt(visited, p, k) \in Seq(Anywhere)
       /\ ToSet(MoreAt(visited, p, k)) \subseteq PlacesIn(visited', ComeTo(p, k))
  BY <1>2, <1>3, <1>7, <1>9, WhatMoreIs, NewPlacesArePlaces
<1>12. todo' \in Seq(Anywhere) /\ ToSet(todo') \subseteq PlacesIn(visited', ComeTo(p, k))
  <2> DEFINE s == MoreAt(visited, p, k)
             t == Tail(todo)
  <2>1. todo' = s \o t BY <1>1
  <2> HIDE DEF s, t
  <2>2. ToSet(s \o t) = ToSet(s) \cup ToSet(t) /\ s \o t \in Seq(Anywhere)
    BY <1>7, <1>11, ToSetConcatenated DEF s, t
  <2>3. PlacesIn(visited, k) \subseteq PlacesIn(visited', ComeTo(p, k))
    BY <1>3, <1>9, <1>10, PlacesStay
  <2> QED BY <2>1, <2>2, <2>3, <1>7, <1>11 DEF s, t
<1>13. /\ left' \in Seq([todo : Seq(Anywhere), visited : Nat])
       /\ Len(left') = N + 1 /\ DOMAIN left' = 1 .. N + 1
       /\ \A n \in 1 .. N : left'[n] = left[n]
       /\ left'[N + 1] = [todo |-> todo', visited |-> ComeTo(p, k)]
  <2> DEFINE r == [todo |-> todo', visited |-> ComeTo(p, k)]
  <2>1. r \in [todo : Seq(Anywhere), visited : Nat] BY <1>10, <1>12
  <2>2. left' = Append(left, r) BY <1>1, <1>9
  <2> HIDE DEF r
  <2>3. /\ Append(left, r) \in Seq([todo : Seq(Anywhere), visited : Nat])
        /\ Len(Append(left, r)) = N + 1 /\ DOMAIN Append(left, r) = 1 .. N + 1
        /\ \A n \in 1 .. N : Append(left, r)[n] = left[n]
        /\ Append(left, r)[N + 1] = r
    BY <2>1, <1>4
  <2> QED BY <2>2, <2>3 DEF r
<1>14. /\ data' \in Seq(Int) /\ Len(data') = N /\ DOMAIN data' = 1 .. N
       /\ \A n \in DOMAIN data : data'[n] = data[n]
       /\ data'[N] = CellAt(visited, p)
  BY <1>1, <1>4, <1>8
<1>15. \A v \in DOMAIN visited' :
         /\ Sound(visited'[v], ms)
         /\ v # 1 => visited'[v] \in Users \cup Chatrooms(ms) \cup ms
  <2>1. ASSUME NEW v \in 1 .. k
        PROVE  /\ Sound(visited'[v], ms)
               /\ v # 1 => visited'[v] \in Users \cup Chatrooms(ms) \cup ms
    BY <2>1, <1>1, <1>3, <1>9 DEF Writes
  <2>2. ASSUME IsObject(p)
        PROVE  /\ Sound(visited'[k + 1], ms)
               /\ visited'[k + 1] \in Users \cup Chatrooms(ms) \cup ms
    <3>1. Sound(visited'[k + 1], ms) BY <2>2, <1>2, <1>8, <1>9, ListedAreSound
    <3>2. visited'[k + 1] \in Users \cup Chatrooms(ms) \cup ms
      BY <2>2, <1>8, <1>9 DEF Of, Nested
    <3> QED BY <3>1, <3>2
  <2>3. \A v \in DOMAIN visited' : v \in 1 .. k \/ (v = k + 1 /\ IsObject(p))
    BY <1>3, <1>9 DEF ComeTo
  <2> QED BY <2>1, <2>2, <2>3
<1>16. \A n \in DOMAIN left' :
         /\ left'[n].visited \in 1 .. Len(visited')
         /\ ToSet(left'[n].todo) \subseteq PlacesIn(visited', left'[n].visited)
  <2>1. ASSUME NEW n \in 1 .. N
        PROVE  /\ left[n].visited \in 1 .. Len(visited')
               /\ ToSet(left[n].todo) \subseteq PlacesIn(visited', left[n].visited)
    <3>1. /\ left[n].visited \in 1 .. k
          /\ ToSet(left[n].todo) \subseteq PlacesIn(visited, left[n].visited)
      BY <1>1, <1>4, LeftIsSound
    <3>2. PlacesIn(visited', left[n].visited) = PlacesIn(visited, left[n].visited)
      <4> DEFINE l == left[n].visited
      <4>1. l \in Nat /\ \A v \in 1 .. l : visited'[v] = visited[v] BY <3>1, <1>3, <1>9
      <4> HIDE DEF l
      <4>2. PlacesIn(visited', l) = PlacesIn(visited, l) BY <4>1, PlacesStay
      <4> QED BY <4>2 DEF l
    <3> QED BY <3>1, <3>2, <1>3, <1>9, <1>10
  <2>2. /\ left'[N + 1].visited \in 1 .. Len(visited')
        /\ ToSet(left'[N + 1].todo) \subseteq PlacesIn(visited', left'[N + 1].visited)
    BY <1>3, <1>9, <1>10, <1>12, <1>13
  <2>3. ASSUME NEW n \in DOMAIN left' PROVE n = N + 1 \/ (n \in 1 .. N /\ left'[n] = left[n])
    <3>1. n \in 1 .. N + 1 BY <2>3, <1>13
    <3>2. N \in Nat BY <1>4
    <3>3. n = N + 1 \/ n \in 1 .. N BY <3>1, <3>2
    <3> QED BY <3>3, <1>13
  <2> QED BY <2>1, <2>2, <2>3
<1>17. ASSUME NEW n \in 1 .. N PROVE Wrote(n)'
  <2>1. CASE n < N
    <3> DEFINE q == Head(left[n].todo)
               l == left[n].visited
    <3>1. n \in DOMAIN data /\ n \in 1 .. N /\ n + 1 \in 1 .. N BY <2>1, <1>4
    <3>2. Wrote(n) BY <3>1 DEF Writes
    <3>3. left'[n] = left[n] /\ left'[n + 1] = left[n + 1] /\ data'[n] = data[n]
      BY <3>1, <1>13, <1>14
    <3>4. l \in 1 .. k BY <1>1, <3>1, <1>4, LeftIsSound
    <3>5. q \in PlacesIn(visited, l) BY <3>1, <3>2, <1>4, LeftIsSound DEF Wrote
    <3> HIDE DEF q, l
    <3>6. l \in Nat /\ \A v \in 1 .. l : visited'[v] = visited[v] BY <3>4, <1>3, <1>9
    <3>7. /\ Field(visited', q) = Field(visited, q) /\ CellAt(visited', q) = CellAt(visited, q)
          /\ MoreAt(visited', q, l) = MoreAt(visited, q, l)
      <4>1. \A v \in 1 .. l : visited'[v] = visited[v] BY <3>6
      <4> DEFINE w == visited'
      <4>2. \A v \in 1 .. l : w[v] = visited[v] BY <4>1
      <4> HIDE DEF w
      <4>3. Field(w, q) = Field(visited, q) BY <3>5, <4>2, WhatIsThereStays
      <4>4. CellAt(w, q) = CellAt(visited, q) BY <3>5, <4>2, WhatIsThereStays
      <4>5. MoreAt(w, q, l) = MoreAt(visited, q, l) BY <4>3, Zenon DEF MoreAt
      <4> QED BY <4>3, <4>4, <4>5 DEF w
    <3>8. IsObject(q) => l + 1 \in 1 .. k /\ visited[l + 1] = Field(visited, q)[q.i]
      BY <3>2, <1>3 DEF Wrote, q, l
    <3>9. IsObject(q) => /\ l + 1 \in DOMAIN visited'
                         /\ visited'[l + 1] = Field(visited', q)[q.i]
      BY <3>7, <3>8, <1>3, <1>9, <1>10
    <3> QED BY <3>2, <3>3, <3>7, <3>9 DEF Wrote, q, l
  <2>2. CASE n = N
    <3>1. left'[n] = left[n] /\ left[n].todo = todo /\ left[n].visited = k
      BY <2>2, <1>4, <1>5, <1>13
    <3>2. /\ data'[n] = CellAt(visited, p)
          /\ left'[n + 1].todo = todo' /\ left'[n + 1].visited = ComeTo(p, k)
      BY <2>2, <1>13, <1>14
    <3>3. /\ Field(visited', p) = Field(visited, p) /\ CellAt(visited', p) = CellAt(visited, p)
          /\ MoreAt(visited', p, k) = MoreAt(visited, p, k)
      BY <1>7, <1>9, WhatIsThereStays
    <3>4. IsObject(p) => k + 1 \in DOMAIN visited' BY <1>3, <1>9 DEF ComeTo
    <3>5. /\ left'[n].todo # << >> /\ Head(left'[n].todo) = p
          /\ left'[n].visited = k /\ Tail(left'[n].todo) = Tail(todo)
      BY <3>1, <1>1
    <3>6. /\ data'[n] = CellAt(visited', p)
          /\ left'[n + 1].todo = MoreAt(visited', p, k) \o Tail(todo)
      BY <3>2, <3>3, <1>1
    <3>7. IsObject(p) => visited'[k + 1] = Field(visited', p)[p.i] BY <3>3, <1>9
    <3> QED BY <3>2, <3>4, <3>5, <3>6, <3>7, Zenon DEF Wrote
  <2> QED BY <2>1, <2>2, <1>4
<1>18. Writes'
  <2>1. visited'[1] = visited[1] BY <1>3, <1>9
  <2>2. visited'[1].class = "Frame" /\ \E m \in ms : visited'[1].val = [frame |-> <<m>>]
    BY <2>1, <1>1 DEF Writes
  <2>3. left'[1] = [todo |-> <<TheMessage>>, visited |-> 1] BY <1>4, <1>13 DEF Writes
  <2>4. Len(visited') > 0 BY <1>3, <1>9, <1>10
  <2>5. Len(left') = Len(data') + 1 BY <1>13, <1>14
  <2> QED BY <2>2, <2>3, <2>4, <2>5, <1>1, <1>9, <1>13, <1>14, <1>15, <1>16, <1>17 DEF Writes
<1>19. AtTheEnd(todo, Len(visited))' BY <1>9, <1>13 DEF AtTheEnd
<1> QED BY <1>14, <1>18, <1>19

-----------------------------------------------------------------------------
(* The reader.                                                             *)

\* What the reader starts every step from.
ReaderInv == Builds /\ Writes /\ Reads /\ left[Len(left)].todo = << >>

\* While there is something to read, the next cell is the one that was written for the
\* first place, and nothing is thrown.
LEMMA NextCell ==
  ASSUME ReaderInv, todo # << >>
  PROVE  LET p == Head(todo)
             k == Len(objects)
         IN /\ at \in DOMAIN data /\ Wrote(at) /\ todo = left[at].todo /\ k = left[at].visited
            /\ k \in Nat \ {0} /\ \A v \in 1 .. k : Sound(visited[v], ToSet(built))
            /\ p \in PlacesIn(visited, k)
            /\ cells = {CellAt(visited, p)} /\ ~ throws(p, CellAt(visited, p))
            /\ IsObject(p) =>
                 /\ ClassOf(Element[p.field], CellAt(visited, p)) \in DOMAIN Read
                 /\ Read[ClassOf(Element[p.field], CellAt(visited, p))] =
                      Written[Field(visited, p)[p.i].class]
<1> DEFINE p  == Head(todo)
           k  == Len(objects)
           ms == ToSet(built)
           c  == CellAt(visited, p)
<1>1. /\ at \in DOMAIN left /\ todo = left[at].todo /\ k = left[at].visited
  BY DEF ReaderInv, Reads
<1>2. /\ Len(left) = Len(data) + 1 /\ Len(data) \in Nat /\ DOMAIN data = 1 .. Len(data)
      /\ DOMAIN left = 1 .. Len(left)
  BY DEF ReaderInv, Writes
<1>3. at # Len(left) BY <1>1 DEF ReaderInv
<1>4. at \in DOMAIN data BY <1>1, <1>2, <1>3
<1>5. Wrote(at) BY <1>4 DEF ReaderInv, Writes
<1>6. \A m \in ms : IsMessage(m, ms) BY DEF ReaderInv, Builds
<1>7. /\ k \in Nat \ {0} /\ \A v \in 1 .. k : Sound(visited[v], ms)
      /\ p \in PlacesIn(visited, k)
  BY <1>1, LeftIsSound DEF ReaderInv
<1>8. data[at] = c BY <1>1, <1>5 DEF Wrote
<1> HIDE DEF p, k, ms, c
<1>9. cells = {c} BY <1>4, <1>8 DEF cells
<1>10. ASSUME IsObject(p)
       PROVE  /\ ClassOf(Element[p.field], c) \in DOMAIN Read
              /\ Read[ClassOf(Element[p.field], c)] = Written[Field(visited, p)[p.i].class]
  <2>1. Element[p.field] \in Nested /\ Field(visited, p)[p.i] \in Of(Element[p.field], ms)
    BY <1>6, <1>7, <1>10, PlacesAreSound DEF IsObject
  <2>2. c = Field(visited, p)[p.i].tag BY <1>10 DEF c, CellAt
  <2> QED BY <1>6, <2>1, <2>2, ListedAreSound
<1>11. ~ throws(p, c)
  <2>1. CASE IsObject(p)
    <3>1. ClassOf(Element[p.field], c) # "none" BY <2>1, <1>10 DEF Read
    <3>2. ~ (at > Len(data)) BY <1>2, <1>4
    <3>3. ~ IsCount(p) BY <2>1 DEF IsObject, IsCount
    <3> QED BY <3>1, <3>2, <3>3 DEF throws
  <2>2. CASE ~ IsObject(p)
    <3>1. IsCount(p) => c \in Nat
      BY <2>2, <1>6, <1>7, PlacesAreSound DEF c, CellAt
    <3> QED BY <2>2, <3>1 DEF throws
  <2> QED BY <2>1, <2>2
<1> QED BY <1>1, <1>4, <1>5, <1>7, <1>9, <1>10, <1>11 DEF p, k, ms, c

\* What is kept of place p, after k objects.
Kept(p, k) ==
  IF IsObject(p) THEN k + 1
  ELSE IF IsCount(p) THEN Len(Field(visited, p))
  ELSE IF p.i > 0 THEN Field(visited, p)[p.i]
  ELSE Field(visited, p)

\* What the three steps of the reader have in common.
LEMMA ReaderSteps ==
  ASSUME ReaderInv, readValue \/ readCount \/ readObject
  PROVE  LET p == Head(todo)
             k == Len(objects)
             class == ClassOf(Element[p.field], CellAt(visited, p))
         IN /\ stage = "read" /\ todo # << >>
            /\ at' = at + 1
            /\ objects' = IF IsObject(p)
                            THEN Append(objects, [class |-> class, tag |-> CellAt(visited, p)])
                          ELSE objects
            /\ memory' = [q \in DOMAIN memory \cup {p} |->
                            IF q = p THEN Kept(p, k) ELSE memory[q]]
            /\ todo' = MoreAt(visited, p, k) \o Tail(todo)
            /\ UNCHANGED <<builderVars, stage, writerVars>>
<1> DEFINE p  == Head(todo)
           k  == Len(objects)
           ms == ToSet(built)
           c  == CellAt(visited, p)
<1>1. stage = "read" /\ todo # << >> BY DEF readValue, readCount, readObject, reading
<1>2. /\ k \in Nat \ {0} /\ \A v \in 1 .. k : Sound(visited[v], ms)
      /\ p \in PlacesIn(visited, k) /\ cells = {c}
      /\ IsObject(p) =>
           Read[ClassOf(Element[p.field], c)] = Written[Field(visited, p)[p.i].class]
      /\ ~ throws(p, c)
  BY <1>1, NextCell
<1>3. \A m \in ms : IsMessage(m, ms) BY DEF ReaderInv, Builds
<1>4. CASE readValue
  <2>1. /\ ~ IsCount(p) /\ ~ IsObject(p) /\ UNCHANGED objects /\ readCell(decode(p, c), << >>)
    BY <1>2, <1>4 DEF readValue
  <2>2. MoreAt(visited, p, k) = << >> BY <2>1 DEF MoreAt
  <2>3. p.i > 0 => p.field \in DOMAIN Element BY <1>2, <1>3, PlacesAreSound
  <2>4. Held(p.field, Field(visited, p), ms) BY <1>2, <1>3, PlacesAreSound
  <2>5. decode(p, c) = Kept(p, k)
    <3>1. CASE p.field \in Bools
      <4>1. ~ (p.i > 0) BY <2>3, <3>1 DEF Bools, Element
      <4>2. Kept(p, k) = Field(visited, p) BY <2>1, <4>1, Zenon DEF Kept
      <4>3. decode(p, c) = (c = 1) BY <3>1, Zenon DEF decode
      <4>4. Field(visited, p) \in BOOLEAN BY <2>4, <3>1 DEF Held
      <4>5. c = IF Field(visited, p) THEN 1 ELSE 0 BY <2>1, <3>1, <4>1, Zenon DEF CellAt
      <4>6. CASE Field(visited, p) = TRUE
        <5>1. c = 1 BY <4>5, <4>6
        <5> QED BY <4>2, <4>3, <4>6, <5>1, Zenon
      <4>7. CASE Field(visited, p) = FALSE
        <5>1. ~ (c = 1) BY <4>5, <4>7
        <5> QED BY <4>2, <4>3, <4>7, <5>1, Zenon
      <4> QED BY <4>4, <4>6, <4>7, Zenon
    <3>2. CASE p.field \notin Bools
      BY <2>1, <3>2, Zenon DEF decode, Kept, CellAt
    <3> QED BY <3>1, <3>2
  <2> QED BY <1>1, <2>1, <2>2, <2>5 DEF readCell
<1>5. CASE readCount
  <2>1. IsCount(p) /\ UNCHANGED objects /\ readCell(c, elementsOf(p, c))
    BY <1>2, <1>5 DEF readCount
  <2>2. ~ IsObject(p) BY <2>1 DEF IsCount, IsObject
  <2>3. c = Len(Field(visited, p)) BY <2>1, <2>2 DEF CellAt
  <2>4. /\ MoreAt(visited, p, k) = elementsOf(p, c)
        /\ Kept(p, k) = c
    BY <2>1, <2>2, <2>3 DEF MoreAt, Kept
  <2> QED BY <1>1, <2>1, <2>2, <2>4 DEF readCell
<1>6. CASE readObject
  <2> DEFINE class == ClassOf(Element[p.field], c)
  <2>1. /\ IsObject(p) /\ objects' = Append(objects, [class |-> class, tag |-> c])
        /\ readCell(k + 1, fieldsOf(k + 1, Read[class]))
    BY <1>2, <1>6 DEF readObject
  <2>2. /\ MoreAt(visited, p, k) = fieldsOf(k + 1, Read[class])
        /\ Kept(p, k) = k + 1
    BY <2>1, <1>2 DEF MoreAt, Kept
  <2> QED BY <1>1, <2>1, <2>2 DEF readCell
<1> QED BY <1>4, <1>5, <1>6

\* A step of the reader keeps it in step with the writer, and what it keeps is right.
LEMMA ReaderKeepsReads ==
  ASSUME ReaderInv, readValue \/ readCount \/ readObject
  PROVE  Reads'
<1> DEFINE p  == Head(todo)
           k  == Len(objects)
           ms == ToSet(built)
           c  == CellAt(visited, p)
           class == ClassOf(Element[p.field], c)
           l  == ComeTo(p, k)
<1>1. /\ todo # << >> /\ at' = at + 1
      /\ objects' = IF IsObject(p) THEN Append(objects, [class |-> class, tag |-> c]) ELSE objects
      /\ memory' = [q \in DOMAIN memory \cup {p} |-> IF q = p THEN Kept(p, k) ELSE memory[q]]
      /\ todo' = MoreAt(visited, p, k) \o Tail(todo)
      /\ visited' = visited /\ left' = left
  BY ReaderSteps DEF writerVars
<1>2. /\ at \in DOMAIN data /\ Wrote(at) /\ todo = left[at].todo /\ k = left[at].visited
      /\ k \in Nat \ {0} /\ \A v \in 1 .. k : Sound(visited[v], ms)
      /\ p \in PlacesIn(visited, k)
      /\ IsObject(p) => /\ class \in DOMAIN Read
                        /\ Read[class] = Written[Field(visited, p)[p.i].class]
  BY <1>1, NextCell
<1>3. \A m \in ms : IsMessage(m, ms) BY DEF ReaderInv, Builds
<1>4. /\ todo' = left[at + 1].todo /\ left[at + 1].visited = l
      /\ IsObject(p) => visited[k + 1] = Field(visited, p)[p.i]
  BY <1>1, <1>2 DEF Wrote
<1>5. at' \in DOMAIN left' /\ at \in DOMAIN left
  <2>1. /\ Len(left) = Len(data) + 1 /\ Len(data) \in Nat /\ DOMAIN data = 1 .. Len(data)
        /\ DOMAIN left = 1 .. Len(left)
    BY DEF ReaderInv, Writes
  <2> QED BY <2>1, <1>1, <1>2
<1>6. /\ c \in Int /\ p \in Anywhere
      /\ p.i > 0 => p.field \in DOMAIN Element
  BY <1>2, <1>3, PlacesAreSound
<1>7. /\ todo \in Seq(Anywhere) /\ Tail(todo) \in Seq(Anywhere)
      /\ ToSet(todo) = {p} \cup ToSet(Tail(todo))
  BY <1>1, <1>2, <1>5, LeftIsSound DEF ReaderInv
<1> HIDE DEF p, k, ms, c, class, l
<1>8. /\ MoreAt(visited, p, k) \in Seq(Anywhere)
      /\ ToSet(MoreAt(visited, p, k)) = NewPlaces(visited, p, k)
      /\ IsObject(p) => NewPlaces(visited, p, k) = Starts(k + 1, FieldsIn(visited[k + 1]))
      /\ IsCount(p) => NewPlaces(visited, p, k) = Behind(p, Len(Field(visited, p)))
  <2>1. ~ (IsObject(p) /\ IsCount(p)) BY DEF IsObject, IsCount
  <2> QED BY <1>2, <1>3, <1>4, <2>1, WhatMoreIs DEF NewPlaces
<1>9. ToSet(todo') = ToSet(MoreAt(visited, p, k)) \cup ToSet(Tail(todo))
  <2> DEFINE s == MoreAt(visited, p, k)
             t == Tail(todo)
  <2>1. todo' = s \o t BY <1>1
  <2> HIDE DEF s, t
  <2>2. s \in Seq(Anywhere) /\ t \in Seq(Anywhere) BY <1>7, <1>8 DEF s, t
  <2>3. ToSet(s \o t) = ToSet(s) \cup ToSet(t) BY <2>2, ToSetConcatenated
  <2> QED BY <2>1, <2>3 DEF s, t
<1>10. /\ objects \in Seq(ToSet(objects)) /\ DOMAIN objects = 1 .. k
       /\ objects[1].class = "Frame"
       /\ \A v \in DOMAIN objects \ {1} :
            /\ objects[v].tag = visited[v].tag
            /\ objects[v].class \in DOMAIN Read
            /\ Read[objects[v].class] = Written[visited[v].class]
       /\ DOMAIN memory \subseteq PlacesIn(visited, k)
       /\ \A q \in DOMAIN memory : Right(q)
       /\ \A q \in PlacesIn(visited, k) :
            \/ q \in DOMAIN memory \cup ToSet(todo)
            \/ q.i > 0 /\ Place(q.of, q.field, 0) \in ToSet(todo)
  BY DEF ReaderInv, Reads, k
<1>11. k <= l /\ l \in Nat /\ l = IF IsObject(p) THEN k + 1 ELSE k BY <1>2 DEF l, ComeTo
<1>12. k = Len(objects) BY DEF k
<1>13. /\ objects' \in Seq(ToSet(objects'))
       /\ Len(objects') = l /\ DOMAIN objects' = 1 .. l
       /\ \A v \in 1 .. k : objects'[v] = objects[v]
       /\ IsObject(p) => objects'[k + 1] = [class |-> class, tag |-> c]
  <2>1. CASE IsObject(p)
    <3> DEFINE r == [class |-> class, tag |-> c]
               s == Append(objects, r)
    <3>1. objects' = s BY <2>1, <1>1
    <3> HIDE DEF r
    <3>2. /\ s \in Seq(ToSet(s)) /\ Len(s) = k + 1
          /\ \A v \in DOMAIN objects : s[v] = objects[v]
          /\ s[k + 1] = r
      BY <1>10, <1>12, ToSetAppend
    <3> HIDE DEF s
    <3>3. DOMAIN s = 1 .. k + 1 BY <3>2
    <3> QED BY <3>1, <3>2, <3>3, <2>1, <1>10, <1>11 DEF r
  <2>2. CASE ~ IsObject(p) BY <2>2, <1>1, <1>10, <1>11, <1>12
  <2> QED BY <2>1, <2>2
<1>14. \A v \in DOMAIN objects' \ {1} :
         /\ objects'[v].tag = visited[v].tag
         /\ objects'[v].class \in DOMAIN Read
         /\ Read[objects'[v].class] = Written[visited[v].class]
  <2>1. ASSUME NEW v \in DOMAIN objects' \ {1}
        PROVE  v \in 1 .. k \/ (IsObject(p) /\ v = k + 1)
    BY <2>1, <1>2, <1>11, <1>13
  <2>2. ASSUME IsObject(p)
        PROVE  /\ objects'[k + 1].tag = visited[k + 1].tag
               /\ objects'[k + 1].class \in DOMAIN Read
               /\ Read[objects'[k + 1].class] = Written[visited[k + 1].class]
    <3>1. c = Field(visited, p)[p.i].tag BY <2>2 DEF c, CellAt
    <3> QED BY <3>1, <2>2, <1>2, <1>4, <1>13
  <2> QED BY <2>1, <2>2, <1>10, <1>13
<1>15. PlacesIn(visited, k) \subseteq PlacesIn(visited, l)
  BY <1>2, <1>11, PlacesStay
<1>16. ASSUME NEW q \in PlacesIn(visited, l), q \notin PlacesIn(visited, k)
       PROVE  /\ IsObject(p) /\ q.of = k + 1 /\ q.field \in FieldsIn(visited[k + 1])
              /\ q = Place(q.of, q.field, q.i) /\ q.i \in Indexes(visited, k + 1, q.field)
  <2>1. /\ q = Place(q.of, q.field, q.i)
        /\ q.of \in 1 .. l /\ q.field \in FieldsIn(visited[q.of])
        /\ q.i \in Indexes(visited, q.of, q.field)
    BY <1>16, WhatAPlaceIs, Zenon
  <2>2. q.of \notin 1 .. k BY <2>1, <1>16, WhatAPlaceIs, Zenon
  <2>3. IsObject(p) /\ q.of = k + 1 BY <2>1, <2>2, <1>2, <1>11
  <2> QED BY <2>1, <2>3
<1>17. DOMAIN memory' = DOMAIN memory \cup {p} /\ DOMAIN memory' \subseteq PlacesIn(visited, l)
  BY <1>1, <1>2, <1>10, <1>15
<1>18. \A q \in DOMAIN memory' : Right(q)'
  <2>1. ASSUME NEW q \in DOMAIN memory, q # p PROVE Right(q)'
    <3>1. memory'[q] = memory[q] BY <2>1, <1>1
    <3>2. Right(q) BY <1>10
    <3>3. DOMAIN objects \ {1} \subseteq DOMAIN objects' \ {1} BY <1>2, <1>10, <1>11, <1>13
    <3> QED BY <3>1, <3>2, <3>3, <1>1, Zenon DEF Right
  <2>2. ASSUME NEW q, q = p PROVE Right(q)'
    <3>1. memory'[q] = Kept(q, k) BY <2>2, <1>1
    <3>2. IsObject(q) => /\ k + 1 \in DOMAIN objects' \ {1}
                         /\ visited[k + 1] = Field(visited, q)[q.i]
      BY <2>2, <1>2, <1>4, <1>11, <1>13
    <3> QED BY <3>1, <3>2, <1>1, Zenon DEF Right, Kept
  <2> QED BY <2>1, <2>2, <1>17
<1>19. ASSUME NEW q \in PlacesIn(visited, l)
       PROVE  \/ q \in DOMAIN memory' \cup ToSet(todo')
              \/ q.i > 0 /\ Place(q.of, q.field, 0) \in ToSet(todo')
  <2>1. CASE q \notin PlacesIn(visited, k)
    <3>1. /\ IsObject(p) /\ q.of = k + 1 /\ q.field \in FieldsIn(visited[k + 1])
          /\ q = Place(q.of, q.field, q.i) /\ q.i \in Indexes(visited, k + 1, q.field)
      BY <2>1, <1>16
    <3>2. Place(k + 1, q.field, 0) \in ToSet(todo') BY <3>1, <1>8, <1>9 DEF Starts
    <3>3. q.i = 0 \/ q.i > 0 BY <3>1 DEF Indexes
    <3> QED BY <3>1, <3>2, <3>3
  <2>2. CASE q \in PlacesIn(visited, k)
    <3>1. CASE q \in DOMAIN memory \cup {p} BY <3>1, <1>17
    <3>2. CASE q \in ToSet(Tail(todo)) BY <3>2, <1>9
    <3>3. CASE q.i > 0 /\ Place(q.of, q.field, 0) \in ToSet(Tail(todo)) BY <3>3, <1>9
    <3>4. CASE q.i > 0 /\ Place(q.of, q.field, 0) = p
      <4>1. p.of = q.of /\ p.field = q.field /\ p.i = 0 BY <3>4 DEF Place
      <4>2. /\ q = Place(q.of, q.field, q.i) /\ q.i \in Indexes(visited, q.of, q.field)
        BY <2>2, WhatAPlaceIs, Zenon
      <4>3. q.field \in DOMAIN Element /\ q.i \in 1 .. Len(Field(visited, p))
        BY <3>4, <4>1, <4>2 DEF Indexes, Field
      <4>4. IsCount(p) BY <4>1, <4>3 DEF IsCount
      <4>5. q \in ToSet(todo') BY <4>1, <4>2, <4>3, <4>4, <1>8, <1>9 DEF Behind
      <4> QED BY <4>5
    <3> QED BY <2>2, <3>1, <3>2, <3>3, <3>4, <1>7, <1>10
  <2> QED BY <2>1, <2>2
<1>20. objects'[1].class = "Frame" BY <1>2, <1>10, <1>13
<1> QED
  BY <1>1, <1>4, <1>5, <1>13, <1>14, <1>17, <1>18, <1>19, <1>20 DEF Reads

-----------------------------------------------------------------------------
(* The builder, and the steps between a writer and a reader.               *)

\* A setter keeps the builder and the messages well typed.
LEMMA SetKeepsBuilds ==
  ASSUME Builds, set
  PROVE  Builds'
<1> DEFINE ms == ToSet(built)
<1>1. Filled(builder, ms) BY DEF Builds
<1>2. built' = built /\ messageType' = messageType /\ sets' \in 0 .. MaxSets
  <2>1. /\ built' = built /\ messageType' = messageType
        /\ sets < MaxSets /\ sets' = sets + 1
    BY Zenon DEF set
  <2> QED BY <2>1, Limits DEF Builds
<1>3. MaxList \in Nat /\ MaxRooms \in Nat BY Limits
<1>4. \A f \in DOMAIN NewBuilder : \A b, x :
        Filled(b, ms) /\ Held(f, x, ms) => Filled([b EXCEPT ![f] = x], ms)
  BY SetterFills
<1>5. \A i \in Numbers : /\ Held("toId", i, ms) /\ Held("fromId", i, ms)
                         /\ Held("toChatroom", i, ms) /\ Held("fromChatroom", i, ms)
  BY CodecAssumption DEF Held, Ints, Bools, Element
<1>6. \A t \in Texts : /\ Held("contents", t, ms) /\ Held("toName", t, ms)
                       /\ Held("fromName", t, ms)
  <2>1. Of("char", ms) = Int BY DEF Of
  <2> QED BY <2>1, CodecAssumption DEF Held, Ints, Bools, Element
<1>7. \A x \in BOOLEAN : Held("success", x, ms) BY DEF Held, Ints, Bools, Element
<1>8. \A x \in SeqOf(Users, MaxList) : Held("userMap", x, ms)
  <2>1. \A x \in SeqOf(Users, MaxList) : x \in Seq(Users) BY <1>3, SeqOfIsSeq
  <2>2. Of("user", ms) = Users BY DEF Of
  <2> QED BY <2>1, <2>2 DEF Held, Ints, Bools, Element
<1>9. \A x \in SeqOf(Chatrooms(ms), MaxRooms) : Held("chatrooms", x, ms)
  <2>1. \A x \in SeqOf(Chatrooms(ms), MaxRooms) : x \in Seq(Chatrooms(ms))
    BY <1>3, SeqOfIsSeq
  <2>2. Of("chatroom", ms) = Chatrooms(ms) BY DEF Of
  <2> QED BY <2>1, <2>2 DEF Held, Ints, Bools, Element
<1>10. \A x \in SeqOf(ms, MaxList) : Held("inbox", x, ms)
  <2>1. \A x \in SeqOf(ms, MaxList) : x \in Seq(ms) BY <1>3, SeqOfIsSeq
  <2>2. Of("message", ms) = ms BY DEF Of
  <2> QED BY <2>1, <2>2 DEF Held, Ints, Bools, Element
<1>11. {"success", "contents", "toName", "toId", "fromName", "fromId", "toChatroom",
        "fromChatroom", "userMap", "chatrooms", "inbox"} \subseteq DOMAIN NewBuilder
  BY DEF NewBuilder
<1>12. Filled(builder', ms)
  <2>1. CASE \E x \in BOOLEAN : builder' = [builder EXCEPT !["success"] = x]
    <3>1. PICK x \in BOOLEAN : builder' = [builder EXCEPT !["success"] = x]
      BY <2>1
    <3>2. Filled([builder EXCEPT !["success"] = x], ms) BY <1>1, <1>4, <1>7, <1>11
    <3> QED BY <3>1, <3>2
  <2>2. CASE \E x \in Texts : builder' = [builder EXCEPT !["contents"] = x]
    <3>1. PICK x \in Texts : builder' = [builder EXCEPT !["contents"] = x]
      BY <2>2
    <3>2. Filled([builder EXCEPT !["contents"] = x], ms) BY <1>1, <1>4, <1>6, <1>11
    <3> QED BY <3>1, <3>2
  <2>3. CASE \E n \in Texts, i \in Numbers :
               builder' = [builder EXCEPT !["toName"] = n, !["toId"] = i]
    <3>1. PICK n \in Texts, i \in Numbers :
            builder' = [[builder EXCEPT !["toName"] = n] EXCEPT !["toId"] = i]
      BY <2>3
    <3>2. Filled([builder EXCEPT !["toName"] = n], ms) BY <1>1, <1>4, <1>6, <1>11
    <3> QED BY <3>1, <3>2, <1>4, <1>5, <1>11
  <2>4. CASE \E n \in Texts, i \in Numbers :
               builder' = [builder EXCEPT !["fromName"] = n, !["fromId"] = i]
    <3>1. PICK n \in Texts, i \in Numbers :
            builder' = [[builder EXCEPT !["fromName"] = n] EXCEPT !["fromId"] = i]
      BY <2>4
    <3>2. Filled([builder EXCEPT !["fromName"] = n], ms) BY <1>1, <1>4, <1>6, <1>11
    <3> QED BY <3>1, <3>2, <1>4, <1>5, <1>11
  <2>5. CASE \E i \in Numbers : builder' = [builder EXCEPT !["toChatroom"] = i]
    <3>1. PICK i \in Numbers : builder' = [builder EXCEPT !["toChatroom"] = i]
      BY <2>5
    <3>2. Filled([builder EXCEPT !["toChatroom"] = i], ms) BY <1>1, <1>4, <1>5, <1>11
    <3> QED BY <3>1, <3>2
  <2>6. CASE \E i \in Numbers : builder' = [builder EXCEPT !["fromChatroom"] = i]
    <3>1. PICK i \in Numbers : builder' = [builder EXCEPT !["fromChatroom"] = i]
      BY <2>6
    <3>2. Filled([builder EXCEPT !["fromChatroom"] = i], ms) BY <1>1, <1>4, <1>5, <1>11
    <3> QED BY <3>1, <3>2
  <2>7. CASE \E x \in SeqOf(Users, MaxList) : builder' = [builder EXCEPT !["userMap"] = x]
    <3>1. PICK x \in SeqOf(Users, MaxList) : builder' = [builder EXCEPT !["userMap"] = x]
      BY <2>7
    <3>2. Filled([builder EXCEPT !["userMap"] = x], ms) BY <1>1, <1>4, <1>8, <1>11
    <3> QED BY <3>1, <3>2
  <2>8. CASE \E x \in SeqOf(Chatrooms(ms), MaxRooms) :
               builder' = [builder EXCEPT !["chatrooms"] = x]
    <3>1. PICK x \in SeqOf(Chatrooms(ms), MaxRooms) : builder' = [builder EXCEPT !["chatrooms"] = x]
      BY <2>8
    <3>2. Filled([builder EXCEPT !["chatrooms"] = x], ms) BY <1>1, <1>4, <1>9, <1>11
    <3> QED BY <3>1, <3>2
  <2>9. CASE \E x \in SeqOf(ms, MaxList) : builder' = [builder EXCEPT !["inbox"] = x]
    <3>1. PICK x \in SeqOf(ms, MaxList) : builder' = [builder EXCEPT !["inbox"] = x]
      BY <2>9
    <3>2. Filled([builder EXCEPT !["inbox"] = x], ms) BY <1>1, <1>4, <1>10, <1>11
    <3> QED BY <3>1, <3>2
  <2> QED BY <2>1, <2>2, <2>3, <2>4, <2>5, <2>6, <2>7, <2>8, <2>9, Zenon DEF set
<1> QED BY <1>2, <1>12 DEF Builds

\* So does build.
LEMMA BuildKeepsBuilds ==
  ASSUME Builds, build
  PROVE  Builds'
<1> DEFINE ms == ToSet(built)
           m  == message(messageType, builder)
           ns == ToSet(Append(built, m))
<1>1. /\ Len(built) < MaxBuilt /\ Built(messageType) # "none" /\ built' = Append(built, m)
      /\ UNCHANGED <<messageType, builder, sets>>
  BY DEF build
<1>2. /\ ns = ms \cup {m} /\ Append(built, m) \in Seq(ns)
      /\ Len(Append(built, m)) = Len(built) + 1
  BY ToSetAppend DEF Builds
<1>3. Filled(builder, ns) /\ \A o \in ms : IsMessage(o, ns) BY <1>2, MessagesGrow DEF Builds
<1>4. messageType \in ToSet(MessageTypes)
  <2>1. Built("UNDEFINED") = "none" BY DEF Built, UserTypes, ChatroomTypes, LogTypes
  <2> QED BY <2>1, <1>1, CodecAssumption DEF Builds
<1>5. m.said = builder BY DEF message, Object
<1>6. IsMessage(m, ns) BY <1>1, <1>3, <1>4, <1>5, Zenon DEF IsMessage
<1>7. Len(Append(built, m)) <= MaxBuilt
  <2>1. Len(built) \in Nat BY DEF Builds
  <2> QED BY <2>1, <1>1, <1>2, Limits
<1> HIDE DEF m
<1> QED BY <1>1, <1>2, <1>3, <1>6, <1>7, Zenon DEF Builds

\* The frame holds one message, and begins with it.
LEMMA TheFrame ==
  ASSUME NEW ms, NEW m \in ms, NEW w, w[1].class = "Frame", w[1].val = [frame |-> <<m>>]
  PROVE  /\ w[1].tag = 0 => Sound(w[1], ms)
         /\ TheMessage \in Anywhere
         /\ PlacesIn(w, 1) = {TheMessage}
<1>1. /\ TheMessage.of = 1 /\ TheMessage.field = "frame" /\ TheMessage.i = 1
      /\ TheMessage = [of |-> 1, field |-> "frame", i |-> 1]
  BY DEF TheMessage, Place
<1>2. TheMessage \in Anywhere BY <1>1 DEF Anywhere, AllFields, Element
<1>3. FieldsIn(w[1]) = {"frame"} BY DEF FieldsIn
<1>4. Held("frame", <<m>>, ms)
  <2>1. Of("message", ms) = ms BY DEF Of
  <2> QED BY <2>1 DEF Held, Ints, Bools, Element
<1>5. w[1].tag = 0 => Sound(w[1], ms) BY <1>3, <1>4 DEF Sound
<1>6. Indexes(w, 1, "frame") = {1} BY DEF Indexes, Element
<1>7. ASSUME NEW p \in PlacesIn(w, 1) PROVE p = TheMessage
  <2>1. /\ p = Place(p.of, p.field, p.i)
        /\ p.of \in 1 .. 1 /\ p.field \in FieldsIn(w[p.of])
        /\ p.i \in Indexes(w, p.of, p.field)
    BY WhatAPlaceIs, Zenon
  <2>2. p.of = 1 BY <2>1
  <2>3. p.field = "frame" BY <2>1, <2>2, <1>3
  <2>4. p.i = 1 BY <2>1, <2>2, <2>3, <1>6
  <2> QED BY <2>1, <2>2, <2>3, <2>4 DEF TheMessage
<1>8. TheMessage \in PlacesIn(w, 1)
  <2>1. 1 \in 1 .. 1 OBVIOUS
  <2>2. TheMessage = Place(TheMessage.of, TheMessage.field, TheMessage.i)
    BY <1>1 DEF Place
  <2> QED BY <2>1, <2>2, <1>1, <1>3, <1>6, WhatAPlaceIs
<1> QED BY <1>2, <1>5, <1>7, <1>8

\* A message that is sent is all that is to be written.
LEMMA SendStarts ==
  ASSUME Builds, send
  PROVE  Writes' /\ AtTheEnd(todo, Len(visited))' /\ data' \in Seq(Int)
<1> DEFINE ms == ToSet(built)
<1>1. PICK i \in DOMAIN built : visited' = <<Frame(<<built[i]>>)>> BY DEF send
<1> DEFINE m == built[i]
           r == [todo |-> <<TheMessage>>, visited |-> 1]
<1>2. /\ todo' = <<TheMessage>> /\ data' = << >> /\ left' = <<r>> /\ built' = built
  BY DEF send, builderVars
<1>3. m \in ms BY DEF ToSet
<1>4. /\ visited'[1] = Frame(<<m>>) /\ Len(visited') = 1 /\ DOMAIN visited' = {1}
      /\ visited' \in Seq(ToSet(visited'))
  <2> DEFINE o == Frame(<<m>>)
             s == <<o>>
  <2> HIDE DEF o
  <2>1. s[1] = o /\ Len(s) = 1 /\ DOMAIN s = {1} /\ s \in Seq({o}) OBVIOUS
  <2>2. ToSet(s) = {o} BY <2>1, Zenon DEF ToSet
  <2>3. s \in Seq(ToSet(s)) BY <2>1, <2>2
  <2>4. visited' = s BY <1>1 DEF o
  <2> HIDE DEF s
  <2> QED BY <2>1, <2>3, <2>4 DEF o
<1>5. /\ visited'[1].class = "Frame" /\ visited'[1].tag = 0
      /\ visited'[1].val = [frame |-> <<m>>]
  BY <1>4 DEF Frame, Object
<1> HIDE DEF m, ms
<1>6. Sound(visited'[1], ms) /\ TheMessage \in Anywhere /\ PlacesIn(visited', 1) = {TheMessage}
  BY <1>3, <1>5, TheFrame
<1>7. <<TheMessage>> \in Seq(Anywhere) /\ ToSet(<<TheMessage>>) = {TheMessage}
  <2>1. <<TheMessage>> \in Seq(Anywhere) BY <1>6
  <2>2. DOMAIN <<TheMessage>> = {1} /\ <<TheMessage>>[1] = TheMessage OBVIOUS
  <2>3. ToSet(<<TheMessage>>) = {TheMessage} BY <2>2, Zenon DEF ToSet
  <2> QED BY <2>1, <2>3
<1>8. /\ left' \in Seq([todo : Seq(Anywhere), visited : Nat]) /\ Len(left') = 1
      /\ DOMAIN left' = {1} /\ left'[1] = r
  <2>1. r \in [todo : Seq(Anywhere), visited : Nat] BY <1>7
  <2> HIDE DEF r
  <2> QED BY <2>1, <1>2
<1>9. data' \in Seq(Int) /\ Len(data') = 0 /\ DOMAIN data' = {} BY <1>2
<1>10. Writes'
  <2>1. \A v \in DOMAIN visited' : Sound(visited'[v], ToSet(built')) BY <1>2, <1>4, <1>6 DEF ms
  <2>2. \A v \in DOMAIN visited' \ {1} :
          visited'[v] \in Users \cup Chatrooms(ToSet(built')) \cup ToSet(built')
    BY <1>4
  <2>3. \A n \in DOMAIN left' :
          /\ left'[n].visited \in 1 .. Len(visited')
          /\ ToSet(left'[n].todo) \subseteq PlacesIn(visited', left'[n].visited)
    BY <1>4, <1>6, <1>7, <1>8
  <2>4. \A n \in DOMAIN data' : Wrote(n)' BY <1>9
  <2>5. \E x \in ToSet(built') : visited'[1].val = [frame |-> <<x>>]
    BY <1>2, <1>3, <1>5 DEF ms
  <2> QED BY <2>1, <2>2, <2>3, <2>4, <2>5, <1>4, <1>5, <1>8, <1>9 DEF Writes
<1>11. AtTheEnd(todo, Len(visited))' BY <1>2, <1>4, <1>8 DEF AtTheEnd
<1> QED BY <1>9, <1>10, <1>11

\* The reader begins where the writer began.
LEMMA ReceiveStarts ==
  ASSUME Builds, Writes, AtTheEnd(todo, Len(visited)), receive, stage' = "read"
  PROVE  Reads' /\ left'[Len(left')].todo = << >>
<1>1. /\ todo = << >> /\ todo' = <<TheMessage>>
      /\ at' = 1 /\ objects' = <<[class |-> "Frame", tag |-> 0]>> /\ memory' = << >>
      /\ visited' = visited /\ left' = left
  BY DEF receive, hangUp, writerVars
<1>2. /\ DOMAIN left = 1 .. Len(left) /\ Len(left) > 0 /\ Len(left) \in Nat
      /\ left[1] = [todo |-> <<TheMessage>>, visited |-> 1]
      /\ Len(visited) \in Nat /\ Len(visited) > 0 /\ DOMAIN visited = 1 .. Len(visited)
      /\ visited[1].class = "Frame"
  BY DEF Writes
<1>3. PICK m \in ToSet(built) : visited[1].val = [frame |-> <<m>>] BY DEF Writes
<1>4. PlacesIn(visited, 1) = {TheMessage} BY <1>2, <1>3, TheFrame
<1>5. TheMessage \in ToSet(todo') BY <1>1 DEF ToSet
<1>6. /\ objects' \in Seq(ToSet(objects')) /\ Len(objects') = 1 /\ DOMAIN objects' = {1}
      /\ objects'[1].class = "Frame"
  <2> DEFINE o == [class |-> "Frame", tag |-> 0]
             s == <<o>>
  <2>1. o.class = "Frame" OBVIOUS
  <2> HIDE DEF o
  <2>2. s[1] = o /\ Len(s) = 1 /\ DOMAIN s = {1} /\ s \in Seq({o}) OBVIOUS
  <2>3. ToSet(s) = {o} BY <2>2, Zenon DEF ToSet
  <2>4. s \in Seq(ToSet(s)) BY <2>2, <2>3
  <2>5. objects' = s BY <1>1 DEF o
  <2> HIDE DEF s
  <2> QED BY <2>1, <2>2, <2>4, <2>5
<1>7. DOMAIN memory' = {} BY <1>1
<1>8. left'[Len(left')].todo = << >> BY <1>1 DEF AtTheEnd
<1>9. at' \in DOMAIN left' /\ todo' = left'[at'].todo /\ Len(objects') = left'[at'].visited
  BY <1>1, <1>2, <1>6
<1> QED BY <1>1, <1>4, <1>5, <1>6, <1>7, <1>8, <1>9 DEF Reads

\* The invariant holds at first.
LEMMA CodecInvInit == Init => CodecInv
<1> SUFFICES ASSUME Init PROVE CodecInv OBVIOUS
<1>1. /\ messageType = "UNDEFINED" /\ builder = NewBuilder /\ sets = 0 /\ built = << >>
      /\ stage = "build" /\ data = << >> /\ at = 1 /\ objects = << >> /\ memory = << >>
  BY DEF Init
<1>2. ToSet(built) = {} /\ built \in Seq(ToSet(built)) /\ Len(built) = 0
  <2>1. DOMAIN built = {} BY <1>1
  <2>2. ToSet(built) = {} BY <2>1, Zenon DEF ToSet
  <2> QED BY <1>1, <2>2
<1>3. Filled(builder, ToSet(built)) BY <1>1, NewBuilderIsFilled
<1>4. Builds BY <1>1, <1>2, <1>3, Limits DEF Builds
<1>5. data \in Seq(Int) BY <1>1
<1> QED BY <1>1, <1>4, <1>5 DEF CodecInv

\* What is said of the builder stays so where the builder does,
LEMMA BuildsStays ==
  ASSUME Builds, UNCHANGED builderVars
  PROVE  Builds'
BY DEF Builds, builderVars

\* and what is said of the buffer where the buffer does.
LEMMA WritesStays ==
  ASSUME Writes, UNCHANGED <<builderVars, writerVars>>
  PROVE  Writes'
<1>1. built' = built /\ visited' = visited /\ data' = data /\ left' = left
  BY DEF builderVars, writerVars
<1>2. \A n : Wrote(n)' = Wrote(n) BY <1>1 DEF Wrote
<1> QED BY <1>1, <1>2 DEF Writes

\* Every step keeps the invariant.
LEMMA CodecInvNext == CodecInv /\ [Next]_vars => CodecInv'
<1> SUFFICES ASSUME CodecInv, [Next]_vars PROVE CodecInv' OBVIOUS
<1>1. CASE set \/ setMessageType \/ build
  <2>1. stage = "build" /\ UNCHANGED <<stage, data, at, objects, memory>>
    BY <1>1 DEF set, setMessageType, build, writerVars, readerVars
  <2>2. Builds'
    <3>1. CASE set BY <3>1, SetKeepsBuilds DEF CodecInv
    <3>2. CASE setMessageType
      <4>1. messageType' \in Types /\ UNCHANGED <<builder, sets, built>>
        BY <3>2 DEF setMessageType
      <4> QED BY <4>1 DEF CodecInv, Builds
    <3>3. CASE build BY <3>3, BuildKeepsBuilds DEF CodecInv
    <3> QED BY <1>1, <3>1, <3>2, <3>3
  <2> QED BY <2>1, <2>2 DEF CodecInv
<1>2. CASE send
  <2>1. stage = "build" /\ stage' = "write" /\ UNCHANGED <<builderVars, at, objects, memory>>
    BY <1>2 DEF send, readerVars
  <2>2. Builds' BY <2>1, BuildsStays DEF CodecInv
  <2>3. Writes' /\ AtTheEnd(todo, Len(visited))' /\ data' \in Seq(Int)
    BY <1>2, SendStarts DEF CodecInv
  <2> QED BY <2>1, <2>2, <2>3 DEF CodecInv
<1>3. CASE writeValue \/ writeCount \/ writeObject
  <2>1. stage = "write" /\ UNCHANGED <<builderVars, stage, at, objects, memory>>
    BY <1>3, WriterSteps DEF readerVars
  <2>2. Builds' BY <2>1, BuildsStays DEF CodecInv
  <2>3. Writes' /\ AtTheEnd(todo, Len(visited))' /\ data' \in Seq(Int)
    BY <1>3, <2>1, WriterKeepsWrites DEF CodecInv
  <2> QED BY <2>1, <2>2, <2>3 DEF CodecInv
<1>4. CASE receive
  <2>1. /\ stage = "write" /\ UNCHANGED <<builderVars, writerVars>>
        /\ \/ Len(data) > MaxSize /\ stage' = "hungUp" /\ UNCHANGED readerVars
           \/ stage' = "read"
    BY <1>4 DEF receive, hangUp
  <2>2. Builds' /\ Writes' /\ data' = data
    BY <2>1, BuildsStays, WritesStays DEF CodecInv, writerVars
  <2>3. CASE Len(data) > MaxSize /\ stage' = "hungUp" /\ UNCHANGED readerVars
    BY <2>1, <2>2, <2>3 DEF CodecInv, readerVars
  <2>4. CASE stage' = "read"
    <3>1. Reads' /\ left'[Len(left')].todo = << >>
      BY <1>4, <2>1, <2>4, ReceiveStarts DEF CodecInv
    <3> QED BY <2>2, <2>4, <3>1 DEF CodecInv
  <2> QED BY <2>1, <2>3, <2>4
<1>5. CASE readValue \/ readCount \/ readObject
  <2>1. stage = "read"
    BY <1>5 DEF readValue, readCount, readObject, reading
  <2>2. ReaderInv BY <2>1 DEF CodecInv, ReaderInv
  <2>3. UNCHANGED <<builderVars, stage, writerVars>> BY <1>5, <2>2, ReaderSteps
  <2>4. Builds' /\ Writes' /\ data' = data /\ left' = left
    BY <2>2, <2>3, BuildsStays, WritesStays DEF ReaderInv, writerVars
  <2>5. Reads' BY <1>5, <2>2, ReaderKeepsReads
  <2> QED BY <2>1, <2>2, <2>3, <2>4, <2>5 DEF CodecInv, ReaderInv
<1>6. CASE done
  <2>1. /\ stage' = "build" /\ UNCHANGED builderVars /\ data' = << >>
        /\ at' = 1 /\ objects' = << >> /\ memory' = << >>
    BY <1>6 DEF done
  <2>2. Builds' BY <2>1, BuildsStays DEF CodecInv
  <2>3. data' \in Seq(Int) BY <2>1
  <2> QED BY <2>1, <2>2, <2>3 DEF CodecInv
<1>7. CASE UNCHANGED vars
  <2>1. UNCHANGED <<builderVars, stage, todo, writerVars, readerVars>> BY <1>7 DEF vars
  <2>2. Builds' BY <2>1, BuildsStays DEF CodecInv
  <2>3. Writes => Writes' BY <2>1, WritesStays
  <2>4. /\ todo' = todo /\ visited' = visited /\ data' = data /\ left' = left
        /\ at' = at /\ objects' = objects /\ memory' = memory /\ stage' = stage
    BY <2>1 DEF writerVars, readerVars
  <2>5. Reads => Reads' BY <2>4 DEF Reads, Right
  <2>6. AtTheEnd(todo, Len(visited)) => AtTheEnd(todo, Len(visited))' BY <2>4 DEF AtTheEnd
  <2> QED BY <2>2, <2>3, <2>4, <2>5, <2>6 DEF CodecInv
<1> QED BY <1>1, <1>2, <1>3, <1>4, <1>5, <1>6, <1>7 DEF Next

-----------------------------------------------------------------------------
(* What the receivers look at.                                             *)

\* It is written, and build copied it.
LEMMA ExpectedIsSent ==
  ASSUME NEW ms, \A m \in ms : IsMessage(m, ms),
         NEW o \in Users \cup Chatrooms(ms) \cup ms, NEW f \in Expected(o)
  PROVE  o.class # "Frame" /\ f \in FieldsIn(o) /\ o.said[f] = o.val[f]
<1>1. CASE o \in Users
  <2>1. PICK id \in Numbers, name \in Texts : o = User(id, name) BY <1>1 DEF Users
  <2>2. o.class = "User" /\ o.val = [name |-> name] /\ o.said = o.val
    BY <2>1 DEF User, Object
  <2>3. "User" \in DOMAIN Written BY DEF Written
  <2>4. FieldsIn(o) = {"name"} BY <2>2, <2>3, FieldsAreKnown DEF FieldsIn
  <2> QED BY <2>2, <2>4 DEF Expected
<1>2. CASE o \in Chatrooms(ms)
  <2>1. PICK id \in Numbers,
             fields \in [memberIds : SeqOf(Numbers, MaxList), messages : SeqOf(ms, MaxList)] :
          o = Chatroom(id, fields)
    BY <1>2 DEF Chatrooms
  <2>2. o.class = "ChatroomData" /\ o.val = fields /\ o.said = o.val
    BY <2>1 DEF Chatroom, Object
  <2>3. "ChatroomData" \in DOMAIN Written BY DEF Written
  <2>4. FieldsIn(o) = {"memberIds", "messages"} BY <2>2, <2>3, FieldsAreKnown DEF FieldsIn
  <2> QED BY <2>2, <2>4 DEF Expected
<1>3. CASE o \in ms
  <2> DEFINE type == MessageTypes[o.tag + 1]
  <2>1. IsMessage(o, ms) BY <1>3
  <2>2. /\ o.class \in DOMAIN Written \ {"User", "ChatroomData"}
        /\ Built(type) = o.class /\ o.class # "none"
        /\ \A g \in DOMAIN Zeroed : g \in Copied(type) => o.val[g] = o.said[g]
    BY <2>1, MessagesAreSound
  <2>3. f \in
          CASE type = "LOGOUT"        -> Common \cup FromUser
            [] type = "AUTH_RESPONSE" -> {"success", "userMap", "chatrooms", "inbox"} \cup ToUser
            [] type \in ChatroomTypes -> Common \cup FromUser \cup {"toChatroom"}
            [] type \in LogTypes      -> Common \cup FromUser \cup ToUser \cup {"toChatroom"}
            [] OTHER                  -> Common \cup FromUser \cup ToUser
    BY <2>2, Zenon DEF Expected
  <2>4. o.class # "Frame" BY <2>2 DEF Written
  <2>5. FieldsIn(o) = ToSet(Written[o.class]) BY <2>4 DEF FieldsIn
  <2> HIDE DEF type
  <2> DEFINE UserFields == Common \cup FromUser \cup ToUser
  <2>6. CASE type \in {"CONNECT", "AUTHENTICATE", "LOGOUT"} \cup UserTypes
    <3>1. f \in Copied(type) /\ f \in UserFields
      BY <2>3, <2>6 DEF Copied, UserTypes, ChatroomTypes, LogTypes, Common, FromUser, ToUser
    <3>2. Written[o.class] \in {UserWritten, ConnectWritten, AuthWritten}
      <4>1. o.class \in {"UserMessage", "ConnectMessage", "AuthMessage"}
        BY <2>2, <2>6 DEF Built, UserTypes, ChatroomTypes, LogTypes
      <4> QED BY <4>1 DEF Written
    <3>3. /\ DOMAIN UserWritten = 1 .. 6 /\ UserWritten[1] = "success"
          /\ UserWritten[2] = "contents" /\ UserWritten[3] = "toName" /\ UserWritten[4] = "toId"
          /\ UserWritten[5] = "fromName" /\ UserWritten[6] = "fromId"
          /\ ConnectWritten = UserWritten /\ AuthWritten = UserWritten
      BY DEF UserWritten, ConnectWritten, AuthWritten
    <3>4. UserFields \subseteq ToSet(UserWritten)
      BY <3>3 DEF ToSet, Common, FromUser, ToUser
    <3>5. f \in FieldsIn(o) BY <2>5, <3>1, <3>2, <3>3, <3>4
    <3>6. f \in DOMAIN Zeroed BY <3>1 DEF Zeroed, Common, FromUser, ToUser
    <3> QED BY <2>2, <2>4, <3>1, <3>5, <3>6
  <2>7. CASE type = "AUTH_RESPONSE"
    <3> DEFINE s == AuthResponseWritten
    <3>1. f \in Copied(type)
          /\ f \in {"success", "userMap", "chatrooms", "inbox", "toName", "toId"}
      BY <2>3, <2>7 DEF Copied, UserTypes, ChatroomTypes, LogTypes, Common, FromUser, ToUser
    <3>2. Written[o.class] = s
      <4>1. o.class = "AuthResponseMessage"
        BY <2>2, <2>7 DEF Built, UserTypes, ChatroomTypes, LogTypes
      <4> QED BY <4>1 DEF Written
    <3>3. /\ DOMAIN s = 1 .. 6 /\ s[1] = "success" /\ s[2] = "toId" /\ s[3] = "toName"
          /\ s[4] = "userMap" /\ s[5] = "chatrooms" /\ s[6] = "inbox"
      BY DEF AuthResponseWritten
    <3>4. f \in ToSet(s) BY <3>1, <3>3 DEF ToSet
    <3>5. f \in DOMAIN Zeroed BY <3>1 DEF Zeroed
    <3> QED BY <2>2, <2>4, <2>5, <3>1, <3>2, <3>4, <3>5
  <2>8. CASE type \in ChatroomTypes
    <3> DEFINE s == ChatroomWritten
    <3>1. f \in Copied(type)
          /\ f \in {"success", "contents", "fromName", "fromId", "toChatroom"}
      BY <2>3, <2>8 DEF Copied, UserTypes, ChatroomTypes, LogTypes, Common, FromUser, ToUser
    <3>2. Written[o.class] = s
      BY <2>2, <2>8 DEF Built, Written, UserTypes, ChatroomTypes, LogTypes
    <3>3. /\ DOMAIN s = 1 .. 5 /\ s[1] = "success" /\ s[2] = "contents" /\ s[3] = "fromName"
          /\ s[4] = "fromId" /\ s[5] = "toChatroom"
      BY DEF ChatroomWritten
    <3>4. f \in ToSet(s) BY <3>1, <3>3 DEF ToSet
    <3>5. f \in DOMAIN Zeroed BY <3>1 DEF Zeroed
    <3> QED BY <2>2, <2>4, <2>5, <3>1, <3>2, <3>4, <3>5
  <2>9. CASE type \in LogTypes
    <3> DEFINE s == LogRequestWritten
    <3>1. f \in Copied(type)
          /\ f \in {"success", "contents", "fromName", "fromId", "toName", "toId", "toChatroom"}
      BY <2>3, <2>9 DEF Copied, UserTypes, ChatroomTypes, LogTypes, Common, FromUser, ToUser
    <3>2. Written[o.class] = s
      BY <2>2, <2>9 DEF Built, Written, UserTypes, ChatroomTypes, LogTypes
    <3>3. /\ DOMAIN s = 1 .. 8 /\ s[1] = "success" /\ s[2] = "toId" /\ s[3] = "toName"
          /\ s[4] = "fromId" /\ s[5] = "fromName" /\ s[6] = "toChatroom" /\ s[7] = "contents"
      BY DEF LogRequestWritten
    <3>4. f \in ToSet(s) BY <3>1, <3>3 DEF ToSet
    <3>5. f \in DOMAIN Zeroed BY <3>1 DEF Zeroed
    <3> QED BY <2>2, <2>4, <2>5, <3>1, <3>2, <3>4, <3>5
  <2> QED BY <2>2, <2>6, <2>7, <2>8, <2>9 DEF Built
<1> QED BY <1>1, <1>2, <1>3

-----------------------------------------------------------------------------
(* Theorems.                                                               *)

\* The same for all of them at once.
LEMMA ExpectedAreSent ==
  \A ms : (\A m \in ms : IsMessage(m, ms)) =>
    \A o \in Users \cup Chatrooms(ms) \cup ms : \A f \in Expected(o) :
      o.class # "Frame" /\ f \in FieldsIn(o) /\ o.said[f] = o.val[f]
BY ExpectedIsSent

\* The invariant behind the theorems below: the writer left a cell for the first place it
\* had still to come to, and the reader comes to the same places in the same order.
THEOREM CodecInvariance == Spec => []CodecInv
BY CodecInvInit, CodecInvNext, PTL DEF Spec

\* The reader has the same still to do at every offset as the writer had, and ends with
\* the buffer, however deep messages are nested (AuthResponseMessage.cpp:40-54, 83-94).
THEOREM InStepAlways == Spec => []InStep
<1>1. CodecInv => InStep
  <2> SUFFICES ASSUME CodecInv, stage = "read"
               PROVE  /\ at \in DOMAIN left
                      /\ todo = left[at].todo /\ Len(objects) = left[at].visited
                      /\ todo = << >> => at = Len(data) + 1
    BY DEF InStep
  <2>1. ReaderInv BY DEF CodecInv, ReaderInv
  <2>2. at \in DOMAIN left /\ todo = left[at].todo /\ Len(objects) = left[at].visited
    BY <2>1 DEF ReaderInv, Reads
  <2>3. /\ Len(left) = Len(data) + 1 /\ Len(data) \in Nat /\ DOMAIN data = 1 .. Len(data)
        /\ DOMAIN left = 1 .. Len(left) /\ \A n \in DOMAIN data : Wrote(n)
    BY <2>1 DEF ReaderInv, Writes
  <2>4. \A n \in DOMAIN data : left[n].todo # << >> BY <2>3, Zenon DEF Wrote
  <2>5. at \in 1 .. Len(data) + 1 BY <2>2, <2>3
  <2>6. at \in DOMAIN data \/ at = Len(data) + 1 BY <2>3, <2>5
  <2> QED BY <2>2, <2>4, <2>6
<1> QED BY <1>1, CodecInvariance, PTL

\* A receiver hangs up on an oversized frame only: what a builder can make is never
\* refused for its type, a negative length or the end of the buffer (MessageFactory.cpp:3-53).
THEOREM OnlyOversizeIsRefusedAlways == Spec => []OnlyOversizeIsRefused
<1>1. CodecInv => OnlyOversizeIsRefused BY DEF CodecInv, OnlyOversizeIsRefused
<1> QED BY <1>1, CodecInvariance, PTL

\* Every place the reader fills holds a value of its field.
THEOREM TypeOKAlways == Spec => []TypeOK
<1>1. CodecInv => TypeOK
  <2> SUFFICES ASSUME CodecInv PROVE TypeOK OBVIOUS
  <2>1. /\ messageType \in Types \cup {"UNDEFINED"} /\ DOMAIN builder = DOMAIN NewBuilder
        /\ sets \in 0 .. MaxSets /\ Len(built) <= MaxBuilt
        /\ stage \in {"build", "write", "read", "hungUp"} /\ data \in Seq(Int)
    BY DEF CodecInv, Builds, Filled
  <2>2. CASE stage # "read"
    <3>1. at = 1 /\ DOMAIN objects = {} /\ DOMAIN memory = {} BY <2>2 DEF CodecInv
    <3> QED BY <2>1, <3>1 DEF TypeOK
  <2>3. CASE stage = "read"
    <3> DEFINE ms == ToSet(built)
               k  == Len(objects)
    <3>1. ReaderInv BY <2>3 DEF CodecInv, ReaderInv
    <3>2. /\ at \in DOMAIN left /\ k = left[at].visited /\ DOMAIN objects = 1 .. k
          /\ objects[1].class = "Frame"
          /\ \A v \in DOMAIN objects \ {1} : objects[v].class \in DOMAIN Read
          /\ DOMAIN memory \subseteq PlacesIn(visited, k) /\ \A p \in DOMAIN memory : Right(p)
      BY <3>1 DEF ReaderInv, Reads
    <3>3. k \in Nat /\ \A v \in 1 .. k : Sound(visited[v], ms)
      BY <3>1, <3>2, LeftIsSound DEF ReaderInv
    <3>4. \A m \in ms : IsMessage(m, ms) BY <3>1 DEF ReaderInv, Builds
    <3>5. at \in Nat
      <4>1. DOMAIN left = 1 .. Len(left) /\ Len(left) \in Nat BY <3>1 DEF ReaderInv, Writes
      <4> QED BY <3>2, <4>1
    <3>6. \A v \in DOMAIN objects : objects[v].class \in DOMAIN Read \cup {"Frame"} BY <3>2
    <3>7. ASSUME NEW p \in DOMAIN memory
          PROVE  /\ p.of \in DOMAIN objects
                 /\ CASE IsCount(p)          -> memory[p] \in Nat
                      [] IsObject(p)         -> memory[p] \in DOMAIN objects
                      [] p.field \in Bools   -> memory[p] \in BOOLEAN
                      [] OTHER               -> memory[p] \in Int
      <4>1. p \in PlacesIn(visited, k) /\ Right(p) BY <3>2
      <4>2. p.of \in DOMAIN objects BY <4>1, <3>2, WhatAPlaceIs
      <4>3. /\ p \in Anywhere /\ Held(p.field, Field(visited, p), ms)
            /\ p.i > 0 => /\ p.field \in DOMAIN Element
                          /\ Field(visited, p)[p.i] \in Of(Element[p.field], ms)
            /\ IsCount(p) => Len(Field(visited, p)) \in Nat
        BY <3>3, <3>4, <4>1, PlacesAreSound
      <4>4. /\ ~ (IsCount(p) /\ IsObject(p))
            /\ p.field \in Bools => ~ IsCount(p) /\ ~ IsObject(p)
        BY <4>3 DEF IsCount, IsObject, Bools, Element
      <4>5. IsCount(p) => memory[p] \in Nat BY <4>1, <4>3, <4>4 DEF Right
      <4>6. IsObject(p) => memory[p] \in DOMAIN objects BY <4>1 DEF Right
      <4>7. ASSUME p.field \in Bools, ~ IsCount(p), ~ IsObject(p)
            PROVE  memory[p] \in BOOLEAN
        <5>1. ~ (p.i > 0) BY <4>3, <4>7 DEF Bools, Element
        <5>2. memory[p] = Field(visited, p) BY <4>1, <4>7, <5>1, Zenon DEF Right
        <5> QED BY <4>3, <4>7, <5>2, Zenon DEF Held
      <4>8. ASSUME p.field \notin Bools, ~ IsCount(p), ~ IsObject(p)
            PROVE  memory[p] \in Int
        <5>1. CASE p.i > 0
          <6>1. memory[p] = Field(visited, p)[p.i] BY <4>1, <4>8, <5>1 DEF Right
          <6>2. Element[p.field] \notin Nested BY <4>8, <5>1 DEF IsObject
          <6>3. Of(Element[p.field], ms) = Int BY <6>2 DEF Of, Nested
          <6> QED BY <4>3, <5>1, <6>1, <6>3
        <5>2. CASE ~ (p.i > 0)
          <6>1. memory[p] = Field(visited, p) BY <4>1, <4>8, <5>2 DEF Right
          <6>2. p.i \in Nat /\ p.field \in AllFields BY <4>3 DEF Anywhere
          <6>3. p.field \in Ints BY <4>8, <5>2, <6>2 DEF IsCount, AllFields
          <6> QED BY <4>3, <6>1, <6>3 DEF Held
        <5> QED BY <5>1, <5>2
      <4>9. CASE IsCount(p) BY <4>2, <4>4, <4>5, <4>9
      <4>10. CASE ~ IsCount(p) /\ IsObject(p) BY <4>2, <4>4, <4>6, <4>10
      <4>11. CASE ~ IsCount(p) /\ ~ IsObject(p) /\ p.field \in Bools BY <4>2, <4>7, <4>11
      <4>12. CASE ~ IsCount(p) /\ ~ IsObject(p) /\ p.field \notin Bools BY <4>2, <4>8, <4>12
      <4> QED BY <4>9, <4>10, <4>11, <4>12
    <3> QED BY <2>1, <3>5, <3>6, <3>7 DEF TypeOK
  <2> QED BY <2>2, <2>3
<1> QED BY <1>1, CodecInvariance, PTL

\* What was set on the builder is what the receiver reads, of the message and of every
\* object in it, although build copies some fields only and LOGOUT is read by another
\* class than it was written by (MessageBuilder.cpp:45-127, MessageFactory.cpp:15-45).
THEOREM ArrivesAsSetAlways == Spec => []ArrivesAsSet
<1>1. CodecInv => ArrivesAsSet
  <2> SUFFICES ASSUME CodecInv, stage = "read", todo = << >>
               PROVE  /\ <<visited[memory[TheMessage]]>> = visited[1].val.frame
                      /\ \A v \in DOMAIN objects \ {1} :
                           /\ objects[v].tag = visited[v].tag
                           /\ \A f \in Expected(visited[v]) : Holds(v, f, visited[v].said[f])
    BY DEF ArrivesAsSet
  <2> DEFINE ms == ToSet(built)
             k  == Len(objects)
  <2>1. ReaderInv BY DEF CodecInv, ReaderInv
  <2>2. /\ at \in DOMAIN left /\ k = left[at].visited /\ DOMAIN objects = 1 .. k
        /\ \A v \in DOMAIN objects \ {1} : objects[v].tag = visited[v].tag
        /\ \A p \in DOMAIN memory : Right(p)
    BY <2>1 DEF ReaderInv, Reads
  <2>3. \A p \in PlacesIn(visited, k) : p \in DOMAIN memory
    <3>1. ToSet(todo) = {}
      <4>1. DOMAIN todo = {} OBVIOUS
      <4> QED BY <4>1, Zenon DEF ToSet
    <3> QED BY <2>1, <3>1 DEF ReaderInv, Reads
  <2>4. k \in 1 .. Len(visited) /\ DOMAIN visited = 1 .. Len(visited) /\ Len(visited) \in Nat
    <3>1. Len(visited) \in Nat /\ DOMAIN visited = 1 .. Len(visited)
      BY <2>1 DEF ReaderInv, Writes
    <3> QED BY <2>1, <2>2, <3>1, LeftIsSound DEF ReaderInv
  <2>5. \A m \in ms : IsMessage(m, ms) BY <2>1 DEF ReaderInv, Builds
  <2>6. <<visited[memory[TheMessage]]>> = visited[1].val.frame
    <3>1. PICK m \in ms : visited[1].val = [frame |-> <<m>>] BY <2>1 DEF ReaderInv, Writes
    <3>2. visited[1].class = "Frame" BY <2>1 DEF ReaderInv, Writes
    <3>3. TheMessage \in PlacesIn(visited, 1) BY <3>1, <3>2, TheFrame
    <3>4. PlacesIn(visited, 1) \subseteq PlacesIn(visited, k)
      <4>1. \A v \in 1 .. 1 : visited[v] = visited[v] OBVIOUS
      <4>2. 1 \in Nat /\ k \in Nat /\ 1 <= k BY <2>4
      <4> QED BY <4>1, <4>2, PlacesStay
    <3>5. Right(TheMessage) BY <2>2, <2>3, <3>3, <3>4
    <3>6. /\ TheMessage.of = 1 /\ TheMessage.field = "frame" /\ TheMessage.i = 1
          /\ IsObject(TheMessage)
      BY DEF TheMessage, Place, IsObject, Element, Nested
    <3>7. visited[memory[TheMessage]] = m BY <3>1, <3>5, <3>6 DEF Right, Field
    <3> QED BY <3>1, <3>7
  <2>7. ASSUME NEW v \in DOMAIN objects \ {1}, NEW f \in Expected(visited[v])
        PROVE  Holds(v, f, visited[v].said[f])
    <3> DEFINE o == visited[v]
               x == o.said[f]
               start == Place(v, f, 0)
    <3>1. v \in 1 .. k /\ v # 1 /\ v \in DOMAIN visited BY <2>2, <2>4, <2>7
    <3>2. o \in Users \cup Chatrooms(ms) \cup ms BY <2>1, <3>1 DEF ReaderInv, Writes
    <3>3. o.class # "Frame" /\ f \in FieldsIn(o) /\ x = o.val[f]
      <4>1. \A y \in Users \cup Chatrooms(ms) \cup ms : \A g \in Expected(y) :
              y.class # "Frame" /\ g \in FieldsIn(y) /\ y.said[g] = y.val[g]
        <5> HIDE DEF ms
        <5> QED BY <2>5, ExpectedAreSent, Zenon
      <4> HIDE DEF ms
      <4> QED BY <3>2, <4>1
    <3>4. ASSUME NEW i \in Indexes(visited, v, f)
          PROVE  /\ Place(v, f, i) \in DOMAIN memory /\ Right(Place(v, f, i))
                 /\ Field(visited, Place(v, f, i)) = x
      <4> DEFINE p == Place(v, f, i)
      <4>1. p.of = v /\ p.field = f /\ p.i = i BY DEF Place
      <4>2. p \in PlacesIn(visited, k) BY <3>1, <3>3, <3>4, <4>1, WhatAPlaceIs, Zenon
      <4> QED BY <2>2, <2>3, <3>3, <4>1, <4>2 DEF Field
    <3>5. 0 \in Indexes(visited, v, f) BY <3>1 DEF Indexes
    <3>6. start \in DOMAIN memory /\ Right(start) /\ Field(visited, start) = x BY <3>4, <3>5
    <3>7. start.field = f /\ start.i = 0 BY DEF Place
    <3>8. ~ IsObject(start) BY <3>7 DEF IsObject
    <3>9. CASE f \notin DOMAIN Element
      <4>1. memory[start] = x BY <3>6, <3>7, <3>8, <3>9 DEF Right, IsCount
      <4> QED BY <3>6, <3>9, <4>1 DEF Holds
    <3>10. CASE f \in DOMAIN Element
      <4>1. memory[start] = Len(x) BY <3>6, <3>7, <3>8, <3>10 DEF Right, IsCount
      <4>2. x \in Seq(Of(Element[f], ms)) /\ DOMAIN x = 1 .. Len(x)
        <5>1. Sound(o, ms) BY <2>1, <3>1 DEF ReaderInv, Writes
        <5>2. x \in Seq(Of(Element[f], ms)) BY <3>3, <3>10, <5>1 DEF Sound, Held
        <5> QED BY <5>2
      <4>3. ASSUME NEW i \in DOMAIN x
            PROVE  /\ Place(v, f, i) \in DOMAIN memory
                   /\ IF Element[f] \in Nested
                        THEN /\ memory[Place(v, f, i)] \in DOMAIN objects
                             /\ visited[memory[Place(v, f, i)]] = x[i]
                        ELSE memory[Place(v, f, i)] = x[i]
        <5> DEFINE p == Place(v, f, i)
        <5>1. i \in 1 .. Len(o.val[f]) BY <3>3, <4>2
        <5>2. i \in Indexes(visited, v, f) BY <3>10, <5>1 DEF Indexes
        <5>3. p \in DOMAIN memory /\ Right(p) /\ Field(visited, p) = x BY <3>4, <5>2
        <5>4. p.field = f /\ p.i = i /\ p.i > 0 BY <5>1 DEF Place
        <5>5. CASE Element[f] \in Nested
          BY <5>3, <5>4, <5>5 DEF Right, IsObject
        <5>6. CASE Element[f] \notin Nested
          <6>1. ~ IsObject(p) /\ ~ IsCount(p) BY <5>4, <5>6 DEF IsObject, IsCount
          <6> QED BY <5>3, <5>4, <5>6, <6>1 DEF Right
        <5> QED BY <5>5, <5>6
      <4> QED BY <3>6, <3>10, <4>1, <4>3 DEF Holds
    <3> QED BY <3>9, <3>10
  <2> QED BY <2>2, <2>6, <2>7
<1> QED BY <1>1, CodecInvariance, PTL
=============================================================================
