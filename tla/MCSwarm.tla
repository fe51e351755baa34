------------------------------ MODULE MCSwarm ------------------------------
EXTENDS Swarm

Shape(o, S) == [open |-> o, seeds |-> S]
MCShapes == {Shape(FALSE, {}), Shape(FALSE, {"t"}), Shape(FALSE, {"s", "t"}), Shape(TRUE, {"s"})}
=============================================================================
