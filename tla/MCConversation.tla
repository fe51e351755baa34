---------------------------- MODULE MCConversation ----------------------------
(* Small instances of Conversation for TLC.                                 *)
EXTENDS Conversation
=============================================================================
