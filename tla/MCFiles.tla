------------------------------ MODULE MCFiles ------------------------------
(* Two files from one sender, two senders of one receiver, or one file to    *)
(* two receivers. *)
EXTENDS Files

T(s, n, f) == [from |-> s, to |-> n, file |-> f]
MCShapes == {<<T("s1", "r1", "f1"), T("s1", "r1", "f2")>>,
             <<T("s1", "r1", "f1"), T("s2", "r1", "f2")>>,
             <<T("s1", "r1", "f1"), T("s1", "r2", "f1")>>}
=============================================================================
