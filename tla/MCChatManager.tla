--------------------------- MODULE MCChatManager ---------------------------
(* ChatManager with a client of two chats. *)
EXTENDS ChatManager, TLC

Symmetric == Permutations(Chats)
=============================================================================
