----------------------------- MODULE MCHandshake -----------------------------
(* Small instances of Handshake for TLC.                                    *)
EXTENDS Handshake

CONSTANTS a, b

\* Both talk; one talks, and it or the other may die.
AnyCast == {[talk |-> {a, b}, die |-> {}],
            [talk |-> {a}, die |-> {a}],
            [talk |-> {a}, die |-> {b}]}

\* One talks, the other may die.
CalledDies == {[talk |-> {a}, die |-> {b}]}
=============================================================================
