-------------------------------- MODULE Queues --------------------------------
(***************************************************************************)
(* What several components do with a queue: keep a part of it, and take    *)
(* its entries one after the other.  Recursive functions over positions.   *)
(***************************************************************************)
EXTENDS Naturals, Sequences

\* What of s is in S, in order.
Joined(q, x, S) == IF x \in S THEN Append(q, x) ELSE q
Those(s, S) ==
    LET those[i \in 0..Len(s)] == IF i = 0 THEN <<>> ELSE Joined(those[i - 1], s[i], S)
    IN  those[Len(s)]

\* The entries of q handled in turn, from e on; p is the same for all.
InTurn(Take(_, _, _), e, q, p) ==
    LET pass[i \in 0..Len(q)] == IF i = 0 THEN e ELSE Take(pass[i - 1], q[i], p)
    IN  pass[Len(q)]
=============================================================================
