------------------------- MODULE MCSessionRegistry -------------------------
(* Small instances of SessionRegistry for TLC.                              *)
EXTENDS SessionRegistry, TLC

CONSTANTS s1, s2, s3, s4, alice, desk, lan, tor

MCSessions == {s1, s2, s3, s4}
MCPeerOf   == (s1 :> alice) @@ (s2 :> alice) @@ (s3 :> alice) @@ (s4 :> desk)
MCFamilyOf == (s1 :> tor) @@ (s2 :> tor) @@ (s3 :> tor) @@ (s4 :> lan)

\* The three sessions of one slot are interchangeable.
SlotSymmetry == Permutations({s1, s2, s3})
=============================================================================
