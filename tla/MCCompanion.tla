----------------------------- MODULE MCCompanion -----------------------------
(* Small instances of Companion for TLC.                                    *)
EXTENDS Companion

MCSizes == <<<<2, 0>>, <<1>>>>
=============================================================================
