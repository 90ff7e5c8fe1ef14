---------------------------- MODULE MCMessageCodec ----------------------------
(* MessageCodec with one type of every class and one that has no class.      *)
EXTENDS MessageCodec

CodecTypes == {"CONNECT", "AUTH_RESPONSE", "LOGOUT", "SEND_MESSAGE_TO_USER",
               "SEND_MESSAGE_TO_CHATROOM", "GET_CHATROOM_MESSAGES", "TEST"}
CodecTexts == {<<5>>}
CodecNumbers == {2}
=============================================================================
