------------------------------- MODULE OrSet -------------------------------
(***************************************************************************)
(* The observed-remove set that holds a group's members (crdt/orset.rs).   *)
(* An element is in the set while one of its tags is; a removal takes back *)
(* the tags its author had seen, and a tombstone of a tag stays, so that a *)
(* removal may come before the addition it removes.                        *)
(*                                                                         *)
(* A tag is [at |-> stamp of the clock, by |-> author, n |-> what makes it *)
(* unique].  An operation is [kind, who, tags]: an addition has one tag.   *)
(***************************************************************************)
EXTENDS Integers, FiniteSets

Restored(base) == [adds |-> {}, tombs |-> {}, base |-> base]

Pairs(op) == {<<op.who, t>> : t \in op.tags}

\* Fault: an addition does not look at the tombstones.
AppliedBlindly(s, op) ==
    IF op.kind = "add"
    THEN [s EXCEPT !.adds = @ \cup {p \in Pairs(op) : p[2].at >= s.base}]
    ELSE [s EXCEPT !.adds = @ \ Pairs(op), !.tombs = @ \cup Pairs(op)]

\* apply: an addition below the baseline, or already taken back, is ignored.
Applied(s, op) ==
    IF op.kind = "add"
    THEN [s EXCEPT !.adds = @ \cup {p \in Pairs(op) \ s.tombs : p[2].at >= s.base}]
    ELSE [s EXCEPT !.adds = @ \ Pairs(op), !.tombs = @ \cup Pairs(op)]

Elements(s) == {p[1] : p \in s.adds}

\* prepare_remove: the tags of x that the author sees.
Observed(s, x) == {p[2] : p \in {q \in s.adds : q[1] = x}}

Merged(s, t) ==
    LET gone == s.tombs \cup t.tombs
    IN  [adds  |-> (s.adds \cup t.adds) \ gone,
         tombs |-> gone,
         base  |-> IF s.base >= t.base THEN s.base ELSE t.base]

\* The tag compaction gives a survivor: the baseline, the owner, and the
\* survivor's place in the order of elements.  Negative numbers keep them
\* apart from the random ones of additions.
FoldTag(base, owner, x, all) ==
    [at |-> base, by |-> owner, n |-> -1 - Cardinality({y \in all : y < x})]

\* compact: survivors under new tags; of the tombstones, the recent ones.
Compacted(s, base, owner) ==
    [adds  |-> {<<x, FoldTag(base, owner, x, Elements(s))>> : x \in Elements(s)},
     tombs |-> {p \in s.tombs : p[2].at >= base},
     base  |-> base]
=============================================================================
