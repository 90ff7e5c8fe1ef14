----------------------------- MODULE MessageCodec -----------------------------
(***************************************************************************)
(* Messages from their builder to their receiver: MessageBuilder::build,   *)
(* the serialize and deserialize of every message class, MessageFactory,   *)
(* and the size limit of Server.cpp:388.                                   *)
(*                                                                         *)
(* A buffer is a sequence of cells: an int or an enumerator takes one, a   *)
(* string one for its length and one per character, a list one for its     *)
(* length and then its elements.  Nothing in a buffer says what a cell is: *)
(* a reader that disagrees with the writer takes one field for another.    *)
(* What a class writes and what it reads are two lists, as they are two    *)
(* functions in the code.  The functions call each other for messages in   *)
(* chatrooms and inboxes; here a step is one cell, and what the calls on   *)
(* the stack have still to do is in todo, the innermost call's first.      *)
(***************************************************************************)
EXTENDS Integers, Sequences, SequencesExt

CONSTANTS Types,      \* the types the builder is set to
          Texts,      \* the user names and contents: sequences of characters
          Numbers,    \* the ids
          MaxSets,    \* bound: how many setters are called, other than setMessageType
          MaxBuilt,   \* bound: how many messages are built
          MaxList,    \* bound: how long a user map, a list of ids or an inbox is
          MaxRooms,   \* bound: how many chatrooms are listed
          MaxSize     \* the largest frame a receiver takes (1000000 in the code)

\* The enumerators of MessageType, in their order.
MessageTypes ==
  <<"CONNECT", "AUTHENTICATE", "AUTH_RESPONSE", "LOGOUT", "ADD_USER", "CHANGE_USER_PASSWORD",
    "CHANGE_USER_NAME", "DELETE_USER", "SEND_MESSAGE_TO_USER", "CREATE_CHATROOM",
    "DELETE_CHATROOM", "ADD_USER_TO_CHATROOM", "SEND_MESSAGE_TO_CHATROOM",
    "REMOVE_USER_FROM_CHATROOM", "GET_TO_USER_MESSAGES", "GET_FROM_USER_MESSAGES",
    "GET_BETWEEN_USERS_MESSAGES", "GET_CHATROOM_MESSAGES", "GET_CHATROOM_MESSAGES_FROM_USER",
    "STORE_CONNECT_LOG", "UNDEFINED", "TEST">>

ASSUME CodecAssumption ==
  /\ Types \subseteq ToSet(MessageTypes)
  /\ Texts \subseteq Seq(Int) /\ Numbers \subseteq Int
  /\ {MaxSets, MaxBuilt, MaxList, MaxRooms, MaxSize} \subseteq Nat

VARIABLES
  messageType,  \* _messageType of the MessageBuilder
  builder,      \* its other fields
  sets,         \* how many setters other than setMessageType were called
  built,        \* the messages it built
  stage,        \* "build", "write" and "read" a buffer, or "hungUp"
  todo,         \* the places the writer, or the reader, has still to come to
  visited,      \* the objects the writer has come to, in that order
  data,         \* the buffer
  left,         \* history: todo and how many objects were visited, before each cell
  at,           \* the reader's offset
  objects,      \* the objects the reader has come to, in that order
  memory        \* what it has read, by place

builderVars == <<messageType, builder, sets, built>>
writerVars  == <<visited, data, left>>
readerVars  == <<at, objects, memory>>
vars == <<builderVars, stage, todo, writerVars, readerVars>>

UserTypes == {"ADD_USER", "CHANGE_USER_PASSWORD", "CHANGE_USER_NAME", "DELETE_USER",
              "SEND_MESSAGE_TO_USER"}
ChatroomTypes == {"CREATE_CHATROOM", "DELETE_CHATROOM", "ADD_USER_TO_CHATROOM",
                  "SEND_MESSAGE_TO_CHATROOM", "REMOVE_USER_FROM_CHATROOM"}
LogTypes == {"GET_TO_USER_MESSAGES", "GET_FROM_USER_MESSAGES", "GET_BETWEEN_USERS_MESSAGES",
             "GET_CHATROOM_MESSAGES", "GET_CHATROOM_MESSAGES_FROM_USER"}

Common   == {"success", "contents"}
FromUser == {"fromName", "fromId"}
ToUser   == {"toName", "toId"}

\* The fields that are an int or a bool, and what the others are lists of.
Ints  == {"toId", "fromId", "toChatroom", "fromChatroom"}
Bools == {"success"}
Element ==
  [contents |-> "char", toName |-> "char", fromName |-> "char", name |-> "char",
   memberIds |-> "int", userMap |-> "user", chatrooms |-> "chatroom",
   inbox |-> "message", messages |-> "message", frame |-> "message"]
Nested == {"user", "chatroom", "message"}

\* An object of a class: the cell it begins with, the fields behind it, and what its
\* maker was told to put into them.
Object(class, tag, val, said) == [class |-> class, tag |-> tag, val |-> val, said |-> said]

-----------------------------------------------------------------------------
(* The builder.                                                            *)

NewBuilder ==
  [success |-> TRUE, contents |-> << >>, toName |-> << >>, toId |-> -1, fromName |-> << >>,
   fromId |-> -1, toChatroom |-> -1, fromChatroom |-> -1, userMap |-> << >>,
   chatrooms |-> << >>, inbox |-> << >>]

\* The class build makes for a type; it throws for the last three types.
Built(type) ==
  CASE type = "CONNECT"                  -> "ConnectMessage"
    [] type \in {"AUTHENTICATE", "LOGOUT"} -> "AuthMessage"
    [] type = "AUTH_RESPONSE"            -> "AuthResponseMessage"
    [] type \in UserTypes                -> "UserMessage"
    [] type \in ChatroomTypes            -> "ChatroomMessage"
    [] type \in LogTypes                 -> "LogRequestMessage"
    [] OTHER                             -> "none"

\* Mutant: the sender of a chatroom message is not copied.
Copied_NoSender(type) ==
  CASE type \in {"CONNECT", "AUTHENTICATE"} \cup UserTypes -> Common \cup ToUser \cup FromUser
    [] type = "LOGOUT"        -> Common \cup FromUser
    [] type = "AUTH_RESPONSE" -> Common \cup ToUser \cup {"userMap", "chatrooms", "inbox"}
    [] type \in ChatroomTypes -> Common \cup {"toChatroom", "fromChatroom"}
    [] OTHER                  -> Common \cup ToUser \cup FromUser \cup {"toChatroom"}

\* The fields each build function copies into the message.
Copied(type) ==
  CASE type \in {"CONNECT", "AUTHENTICATE"} \cup UserTypes -> Common \cup ToUser \cup FromUser
    [] type = "LOGOUT"        -> Common \cup FromUser
    [] type = "AUTH_RESPONSE" -> Common \cup ToUser \cup {"userMap", "chatrooms", "inbox"}
    [] type \in ChatroomTypes -> Common \cup FromUser \cup {"toChatroom", "fromChatroom"}
    [] OTHER                  -> Common \cup ToUser \cup FromUser \cup {"toChatroom"}

\* make_shared zeroes the fields of a class whose constructor is defaulted.
Zeroed ==
  [success |-> FALSE, contents |-> << >>, toName |-> << >>, toId |-> 0, fromName |-> << >>,
   fromId |-> 0, toChatroom |-> 0, fromChatroom |-> 0, userMap |-> << >>, chatrooms |-> << >>,
   inbox |-> << >>, messages |-> << >>]

\* The number of an enumerator.
Number(type) == (CHOOSE n \in DOMAIN MessageTypes : MessageTypes[n] = type) - 1

message(type, b) ==
  Object(Built(type), Number(type),
         [f \in DOMAIN Zeroed |-> IF f \in Copied(type) THEN b[f] ELSE Zeroed[f]], b)

\* The entries of a user map, and the chatrooms that list some of the messages ms.
User(id, name) == Object("User", id, [name |-> name], [name |-> name])
Users == {User(id, name) : id \in Numbers, name \in Texts}

Chatroom(id, fields) == Object("ChatroomData", id, fields, fields)
Chatrooms(ms) ==
  {Chatroom(id, fields) : id \in Numbers,
     fields \in [memberIds : SeqOf(Numbers, MaxList), messages : SeqOf(ms, MaxList)]}

\* An unordered_map is the list of its entries, in the order they are iterated.
IsMap(users) == \A i, j \in DOMAIN users : users[i].tag = users[j].tag => i = j

-----------------------------------------------------------------------------
(* The layout of the classes.                                              *)

\* What the serialize function of each class writes after the type.
UserWritten     == <<"success", "contents", "toName", "toId", "fromName", "fromId">>
ConnectWritten  == <<"success", "contents", "toName", "toId", "fromName", "fromId">>
AuthWritten     == <<"success", "contents", "toName", "toId", "fromName", "fromId">>
ChatroomWritten == <<"success", "contents", "fromName", "fromId", "toChatroom">>

\* Mutant: the user map is written in front, where none is read.
AuthResponseWritten_MapFirst ==
  <<"success", "userMap", "toName", "toId", "chatrooms", "inbox">>

AuthResponseWritten == <<"success", "toId", "toName", "userMap", "chatrooms", "inbox">>

\* Mutant: a log request is written without its chatroom.
LogRequestWritten_NoChatroom ==
  <<"success", "toId", "toName", "fromId", "fromName", "contents", "messages">>

LogRequestWritten ==
  <<"success", "toId", "toName", "fromId", "fromName", "toChatroom", "contents", "messages">>

\* What is written after the type, or after the id of a chatroom or a user.
Written ==
  [UserMessage |-> UserWritten, ConnectMessage |-> ConnectWritten, AuthMessage |-> AuthWritten,
   ChatroomMessage |-> ChatroomWritten, AuthResponseMessage |-> AuthResponseWritten,
   LogRequestMessage |-> LogRequestWritten,
   ChatroomData |-> <<"memberIds", "messages">>, User |-> <<"name">>]

\* What the deserialize function of each class reads after the type.
UserRead     == <<"success", "contents", "toName", "toId", "fromName", "fromId">>
ConnectRead  == <<"success", "contents", "toName", "toId", "fromName", "fromId">>
AuthRead     == <<"success", "contents", "toName", "toId", "fromName", "fromId">>
ChatroomRead == <<"success", "contents", "fromName", "fromId", "toChatroom">>
AuthResponseRead == <<"success", "toId", "toName", "userMap", "chatrooms", "inbox">>
LogRequestRead ==
  <<"success", "toId", "toName", "fromId", "fromName", "toChatroom", "contents", "messages">>

Read ==
  [UserMessage |-> UserRead, ConnectMessage |-> ConnectRead, AuthMessage |-> AuthRead,
   ChatroomMessage |-> ChatroomRead, AuthResponseMessage |-> AuthResponseRead,
   LogRequestMessage |-> LogRequestRead,
   ChatroomData |-> <<"memberIds", "messages">>, User |-> <<"name">>]

\* Mutant: LOGOUT is left out of the switch.
ReadAs_NoLogout(type) == IF type = "LOGOUT" THEN "none" ELSE Built(type)

\* The class MessageFactory makes for a type; it throws for the others.
ReadAs(type) ==
  CASE type = "CONNECT"                    -> "ConnectMessage"
    [] type = "AUTHENTICATE"               -> "AuthMessage"
    [] type = "AUTH_RESPONSE"              -> "AuthResponseMessage"
    [] type \in UserTypes \cup {"LOGOUT"} -> "UserMessage"
    [] type \in ChatroomTypes              -> "ChatroomMessage"
    [] type \in LogTypes                   -> "LogRequestMessage"
    [] OTHER                               -> "none"

-----------------------------------------------------------------------------
(* Places.                                                                 *)

\* Field f of the object of-th come to, or the length of the list there (i = 0), or an
\* element of it.  The first object stands for the frame.
Place(of, f, i) == [of |-> of, field |-> f, i |-> i]

IsCount(p)  == p.i = 0 /\ p.field \in DOMAIN Element
IsObject(p) == p.i > 0 /\ Element[p.field] \in Nested

\* What is to be done behind the first cell of an object, and behind a length.
fieldsOf(of, fields) == [k \in DOMAIN fields |-> Place(of, fields[k], 0)]
elementsOf(p, n)     == [i \in 1 .. n |-> Place(p.of, p.field, i)]

Frame(msgs) == Object("Frame", 0, [frame |-> msgs], [frame |-> msgs])
TheMessage  == Place(1, "frame", 1)

-----------------------------------------------------------------------------
Init ==
  /\ messageType = "UNDEFINED" /\ builder = NewBuilder /\ sets = 0 /\ built = << >>
  /\ stage = "build" /\ todo = << >>
  /\ visited = << >> /\ data = << >> /\ left = << >>
  /\ at = 1 /\ objects = << >> /\ memory = << >>

\* The setters, one a step; one that changes nothing is left out.
set ==
  /\ stage = "build" /\ sets < MaxSets /\ Len(built) < MaxBuilt
  /\ sets' = sets + 1
  /\ \/ \E s \in BOOLEAN : builder' = [builder EXCEPT !.success = s]
     \/ \E c \in Texts : builder' = [builder EXCEPT !.contents = c]
     \/ \E n \in Texts, i \in Numbers : builder' = [builder EXCEPT !.toName = n, !.toId = i]
     \/ \E n \in Texts, i \in Numbers : builder' = [builder EXCEPT !.fromName = n, !.fromId = i]
     \/ \E i \in Numbers : builder' = [builder EXCEPT !.toChatroom = i]
     \/ \E i \in Numbers : builder' = [builder EXCEPT !.fromChatroom = i]
     \/ \E users \in SeqOf(Users, MaxList) :
          IsMap(users) /\ builder' = [builder EXCEPT !.userMap = users]
     \/ \E rooms \in SeqOf(Chatrooms(ToSet(built)), MaxRooms) :
          builder' = [builder EXCEPT !.chatrooms = rooms]
     \/ \E msgs \in SeqOf(ToSet(built), MaxList) : builder' = [builder EXCEPT !.inbox = msgs]
  /\ builder' # builder
  /\ UNCHANGED <<messageType, built, stage, todo, writerVars, readerVars>>

setMessageType ==
  /\ stage = "build" /\ Len(built) < MaxBuilt
  /\ messageType' \in Types \ {messageType}
  /\ UNCHANGED <<builder, sets, built, stage, todo, writerVars, readerVars>>

\* It throws, and changes nothing, for a type that has no class.
build ==
  /\ stage = "build" /\ Len(built) < MaxBuilt
  /\ Built(messageType) # "none"
  /\ built' = Append(built, message(messageType, builder))
  /\ UNCHANGED <<messageType, builder, sets, stage, todo, writerVars, readerVars>>

-----------------------------------------------------------------------------
(* Serializing.                                                            *)

send ==
  /\ stage = "build" /\ stage' = "write"
  /\ \E i \in DOMAIN built : visited' = <<Frame(<<built[i]>>)>>
  /\ todo' = <<TheMessage>> /\ data' = << >>
  /\ left' = <<[todo |-> <<TheMessage>>, visited |-> 1]>>
  /\ UNCHANGED <<builderVars, readerVars>>

\* The field at p.
there(p) == visited[p.of].val[p.field]

\* Cell c is written, and more is to be done behind it.
writeCell(c, more) ==
  /\ data' = Append(data, c)
  /\ todo' = more \o Tail(todo)
  /\ left' = Append(left, [todo |-> todo', visited |-> Len(visited')])
  /\ UNCHANGED <<builderVars, stage, readerVars>>

writing == stage = "write" /\ todo # << >>

\* An int, a bool or a character.
writeValue ==
  LET p == Head(todo)
  IN /\ writing /\ ~ IsCount(p) /\ ~ IsObject(p)
     /\ UNCHANGED visited
     /\ writeCell(IF p.i > 0 THEN there(p)[p.i]
                  ELSE IF p.field \in Bools THEN (IF there(p) THEN 1 ELSE 0)
                  ELSE there(p), << >>)

\* The length of a string or a list.
writeCount ==
  LET p == Head(todo)
  IN /\ writing /\ IsCount(p)
     /\ UNCHANGED visited
     /\ writeCell(Len(there(p)), elementsOf(p, Len(there(p))))

\* The type of a message, or the id of a user or a chatroom.
writeObject ==
  LET p == Head(todo)
  IN /\ writing /\ IsObject(p)
     /\ visited' = Append(visited, there(p)[p.i])
     /\ LET o == there(p)[p.i]
        IN writeCell(o.tag, fieldsOf(Len(visited) + 1, Written[o.class]))

-----------------------------------------------------------------------------
(* Deserializing.                                                          *)

\* Every caller hangs up when readMessageFromSocket caught an exception.
hangUp ==
  /\ stage' = "hungUp"
  /\ UNCHANGED <<builderVars, todo, writerVars, readerVars>>

\* readMessageFromSocket asks for the size; sendMessageToSocket did not.
receive ==
  /\ stage = "write" /\ todo = << >>
  /\ IF Len(data) > MaxSize
       THEN hangUp
       ELSE /\ stage' = "read" /\ todo' = <<TheMessage>>
            /\ at' = 1 /\ objects' = <<[class |-> "Frame", tag |-> 0]>> /\ memory' = << >>
            /\ UNCHANGED <<builderVars, writerVars>>

\* Past the end of the buffer anything may be read; InStep says that no reader gets there.
cells == IF at \in DOMAIN data THEN {data[at]} ELSE {0, 1}

\* The class of an object that begins with cell c.
ClassOf(element, c) ==
  CASE element = "user"     -> "User"
    [] element = "chatroom" -> "ChatroomData"
    [] OTHER -> IF c + 1 \in DOMAIN MessageTypes THEN ReadAs(MessageTypes[c + 1]) ELSE "none"

\* MessageFactory throws at the end of the buffer and for a type it does not know, resize
\* and the constructor of a string for a negative size.
throws(p, c) ==
  \/ IsObject(p) /\ ClassOf(Element[p.field], c) = "none"
  \/ IsObject(p) /\ Element[p.field] = "message" /\ at > Len(data)
  \/ IsCount(p) /\ c < 0 /\ p.field # "userMap"

\* x is what was read at the first place, and more is to be read behind it.
readCell(x, more) ==
  /\ at' = at + 1
  /\ memory' = [p \in DOMAIN memory \cup {Head(todo)} |->
                  IF p = Head(todo) THEN x ELSE memory[p]]
  /\ todo' = more \o Tail(todo)
  /\ UNCHANGED <<builderVars, stage, writerVars>>

reading == stage = "read" /\ todo # << >>

decode(p, c) == IF p.field \in Bools THEN c = 1 ELSE c

readValue ==
  LET p == Head(todo)
  IN /\ reading /\ ~ IsCount(p) /\ ~ IsObject(p)
     /\ \E c \in cells : readCell(decode(p, c), << >>)
     /\ UNCHANGED objects

readCount ==
  LET p == Head(todo)
  IN /\ reading /\ IsCount(p)
     /\ \E c \in cells :
          IF throws(p, c) THEN hangUp ELSE readCell(c, elementsOf(p, c)) /\ UNCHANGED objects

readObject ==
  LET p == Head(todo)
  IN /\ reading /\ IsObject(p)
     /\ \E c \in cells :
          LET class == ClassOf(Element[p.field], c)
          IN IF throws(p, c) THEN hangUp
             ELSE /\ objects' = Append(objects, [class |-> class, tag |-> c])
                  /\ readCell(Len(objects) + 1, fieldsOf(Len(objects) + 1, Read[class]))

\* The caller has the message, and the buffers are gone.
done ==
  /\ stage = "read" /\ todo = << >>
  /\ stage' = "build"
  /\ visited' = << >> /\ data' = << >> /\ left' = << >>
  /\ at' = 1 /\ objects' = << >> /\ memory' = << >>
  /\ UNCHANGED <<builderVars, todo>>

Next ==
  \/ set \/ setMessageType \/ build
  \/ send \/ writeValue \/ writeCount \/ writeObject
  \/ receive \/ readValue \/ readCount \/ readObject \/ done

Spec == Init /\ [][Next]_vars

-----------------------------------------------------------------------------
(* Properties.                                                             *)

\* The types: a place holds a value of its field.
TypeOK ==
  /\ messageType \in Types \cup {"UNDEFINED"}
  /\ DOMAIN builder = DOMAIN NewBuilder
  /\ sets \in 0 .. MaxSets
  /\ Len(built) <= MaxBuilt
  /\ stage \in {"build", "write", "read", "hungUp"}
  /\ data \in Seq(Int) /\ at \in Nat
  /\ \A v \in DOMAIN objects : objects[v].class \in DOMAIN Read \cup {"Frame"}
  /\ \A p \in DOMAIN memory :
       /\ p.of \in DOMAIN objects
       /\ CASE IsCount(p)          -> memory[p] \in Nat
            [] IsObject(p)         -> memory[p] \in DOMAIN objects
            [] p.field \in Bools   -> memory[p] \in BOOLEAN
            [] OTHER               -> memory[p] \in Int

\* The reader takes every cell for what the writer meant by it, down to the cells of the
\* messages in chatrooms and inboxes, which have no size of their own: it has the same
\* still to do at every offset, so it is done where the writer was
\* (AuthResponseMessage.cpp:40-54, 83-94).
InStep ==
  stage = "read" =>
    /\ at \in DOMAIN left
    /\ todo = left[at].todo /\ Len(objects) = left[at].visited
    /\ todo = << >> => at = Len(data) + 1

\* The fields the receivers of an object look at (message_test.cpp:120-139, and the
\* managers' and the handler's replies for the types that have no test).
Expected(o) ==
  IF o.class \in {"User", "ChatroomData"} THEN DOMAIN o.val
  ELSE LET type == MessageTypes[o.tag + 1]
       IN CASE type = "LOGOUT"        -> Common \cup FromUser
            [] type = "AUTH_RESPONSE" -> {"success", "userMap", "chatrooms", "inbox"} \cup ToUser
            [] type \in ChatroomTypes -> Common \cup FromUser \cup {"toChatroom"}
            [] type \in LogTypes      -> Common \cup FromUser \cup ToUser \cup {"toChatroom"}
            [] OTHER                  -> Common \cup FromUser \cup ToUser

\* Does field f of the v-th object hold x?  Where x lists objects, it lists the ones that
\* were read for them.
Holds(v, f, x) ==
  /\ Place(v, f, 0) \in DOMAIN memory
  /\ IF f \notin DOMAIN Element THEN memory[Place(v, f, 0)] = x
     ELSE /\ memory[Place(v, f, 0)] = Len(x)
          /\ \A i \in DOMAIN x :
               /\ Place(v, f, i) \in DOMAIN memory
               /\ IF Element[f] \in Nested
                    THEN /\ memory[Place(v, f, i)] \in DOMAIN objects
                         /\ visited[memory[Place(v, f, i)]] = x[i]
                    ELSE memory[Place(v, f, i)] = x[i]

\* What was set on the builder is what the receiver reads, for the message and every
\* object in it; although build copies some of the fields, and LOGOUT is read by another
\* class than it was written by (MessageBuilder.cpp:45-127, MessageFactory.cpp:15-45).
ArrivesAsSet ==
  stage = "read" /\ todo = << >> =>
    /\ <<visited[memory[TheMessage]]>> = visited[1].val.frame
    /\ \A v \in DOMAIN objects \ {1} :
         /\ objects[v].tag = visited[v].tag
         /\ \A f \in Expected(visited[v]) : Holds(v, f, visited[v].said[f])

\* A receiver that hangs up was sent a frame over the limit that senders do not know
\* (Server.cpp:330-332, 388): no message that can be built is refused otherwise.
OnlyOversizeIsRefused == stage = "hungUp" => Len(data) > MaxSize
=============================================================================
