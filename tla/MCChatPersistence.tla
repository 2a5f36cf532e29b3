-------------------------- MODULE MCChatPersistence --------------------------
(* Instance of ChatPersistence for TLC. *)
EXTENDS ChatPersistence
=============================================================================
