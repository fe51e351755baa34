----------------------------- MODULE MCChanges -----------------------------
(* The second message answers the first; clocks agree, differ by the         *)
(* tolerance or by more. *)
EXTENDS Changes

MCAuthor == [m \in Msgs |-> m]
MCAnswerTo == [m \in Msgs |-> 1]
MCStarts == {<<1, 1>>, <<2, 1>>, <<1, 3>>}
=============================================================================
