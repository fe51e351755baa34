---------------------------- MODULE MCGroupWords ----------------------------
(* Small instances of GroupWords for TLC.                                   *)
EXTENDS GroupWords
=============================================================================
