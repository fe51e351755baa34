-------------------------- MODULE MembershipProofs --------------------------
(***************************************************************************)
(* What Membership promises for any engines, times and numbers of changes. *)
(* First the laws of the set: in which order operations come, and in which *)
(* order sets are merged, does not matter.  Then the invariant HeardInv:   *)
(* an engine that has not folded holds, in memory and on disk, exactly     *)
(* what its log of blocks says.  Then that folding loses nobody whose      *)
(* addition came in time (FoldInv), and that members at rest have one      *)
(* roster as long as no changes crossed (RestInv).                         *)
(***************************************************************************)
EXTENDS Membership, FiniteSetTheorems, TLAPS

-----------------------------------------------------------------------------
(* The OR-set. *)

SetsOf(S) == [adds : SUBSET S, tombs : SUBSET S, base : Int]

LEMMA AppliedType ==
    ASSUME NEW S, NEW s \in SetsOf(S), NEW o, Pairs(o) \subseteq S
    PROVE  /\ Applied(s, o) \in SetsOf(S)
           /\ Applied(s, o).base = s.base
BY DEF SetsOf, Applied

\* Two operations may come in either order (orset.rs apply): a removal may
\* overtake the addition it removes.
THEOREM OrderIrrelevant ==
    ASSUME NEW S, NEW s \in SetsOf(S),
           NEW o, Pairs(o) \subseteq S, NEW q, Pairs(q) \subseteq S
    PROVE  Applied(Applied(s, o), q) = Applied(Applied(s, q), o)
<1>1. CASE o.kind = "add" /\ q.kind = "add"
  BY <1>1 DEF Applied, SetsOf
<1>2. CASE o.kind = "add" /\ q.kind # "add"
  BY <1>2 DEF Applied, SetsOf
<1>3. CASE o.kind # "add" /\ q.kind = "add"
  BY <1>3 DEF Applied, SetsOf
<1>4. CASE o.kind # "add" /\ q.kind # "add"
  BY <1>4 DEF Applied, SetsOf
<1> QED
  BY <1>1, <1>2, <1>3, <1>4

\* An operation applied twice is applied once.
THEOREM RepeatIrrelevant ==
    ASSUME NEW S, NEW s \in SetsOf(S), NEW o, Pairs(o) \subseteq S
    PROVE  Applied(Applied(s, o), o) = Applied(s, o)
<1>1. CASE o.kind = "add"
  BY <1>1 DEF Applied, SetsOf
<1>2. CASE o.kind # "add"
  BY <1>2 DEF Applied, SetsOf
<1> QED
  BY <1>1, <1>2

\* Merging is commutative, associative, and idempotent on sets without a tag
\* that is both live and taken back (orset.rs merge).
THEOREM MergeCommutes ==
    ASSUME NEW S, NEW s \in SetsOf(S), NEW t \in SetsOf(S)
    PROVE  Merged(s, t) = Merged(t, s)
BY DEF Merged, SetsOf

THEOREM MergeAssociates ==
    ASSUME NEW S, NEW r \in SetsOf(S), NEW s \in SetsOf(S), NEW t \in SetsOf(S)
    PROVE  Merged(Merged(r, s), t) = Merged(r, Merged(s, t))
BY DEF Merged, SetsOf

THEOREM MergeIdempotent ==
    ASSUME NEW S, NEW s \in SetsOf(S), s.adds \cap s.tombs = {}
    PROVE  Merged(s, s) = s
BY DEF Merged, SetsOf

\* A removal applied and a removal merged in do the same: what one engine heard
\* as a block and another met in a merge leaves both with one set.
THEOREM MergeIsApply ==
    ASSUME NEW S, NEW s \in SetsOf(S), s.adds \cap s.tombs = {},
           NEW o, Pairs(o) \subseteq S,
           o.kind = "add" => \A p \in Pairs(o) : p[2].at >= s.base
    PROVE  Merged(s, Applied(Restored(s.base), o)) = Applied(s, o)
<1>1. CASE o.kind = "add"
  BY <1>1 DEF Merged, Applied, Restored, SetsOf
<1>2. CASE o.kind # "add"
  BY <1>2 DEF Merged, Applied, Restored, SetsOf
<1> QED
  BY <1>1, <1>2

-----------------------------------------------------------------------------
(* Types. *)

Elems == Engines \X Tags

EngineType == [knows : BOOLEAN, set : Sets, rows : SUBSET Elems, off : SUBSET Elems,
               mark : 0..MaxNow, log : SUBSET Blocks]

Coherent(e) == e.set.base = e.mark /\ e.off \subseteq e.rows

NetType == [to : Engines, block : Blocks \cup {Intro}, sent : 0..MaxNow]

\* What the histories hold.
Histories == missed \in [Engines -> SUBSET Blocks] /\ crossed \in BOOLEAN

LEMMA TypeParts ==
    TypeOK <=> /\ engine \in [Engines -> EngineType]
               /\ \A m \in Engines : Coherent(engine[m])
               /\ net \subseteq NetType
               /\ now \in 0..MaxNow /\ ops \in 0..MaxOps /\ restarts \in 0..MaxRestarts
               /\ Histories
BY DEF TypeOK, EngineType, Elems, Coherent, NetType, Histories

LEMMA PairsType ==
    ASSUME NEW b \in Blocks
    PROVE  Pairs(b) \subseteq Elems
BY DEF Blocks, Pairs, Elems

LEMMA RosterType ==
    ASSUME NEW e \in EngineType
    PROVE  Roster(e) \subseteq Engines
BY DEF EngineType, Sets, Roster, Elements, Elems

LEMMA ObservedType ==
    ASSUME NEW e \in EngineType, NEW x
    PROVE  Observed(e.set, x) \subseteq Tags
BY DEF EngineType, Sets, Observed, Elems

LEMMA TakenType ==
    ASSUME NEW e \in EngineType, Coherent(e), NEW b \in Blocks
    PROVE  /\ Taken(e, b) \in EngineType
           /\ Coherent(Taken(e, b))
           /\ Taken(e, b).knows = e.knows
           /\ Taken(e, b).mark = e.mark
           /\ Taken(e, b).log = e.log \cup {b}
<1>1. Pairs(b) \subseteq Elems
  BY PairsType
<1>2. /\ PutRows(e, b) \in EngineType
      /\ Coherent(PutRows(e, b))
  BY <1>1 DEF PutRows, EngineType, Coherent
<1>3. CASE b.kind = "add"
  BY <1>1, <1>3 DEF Taken, Recorded, PutRows, Applied, EngineType, Coherent, Sets, Elems
<1>4. CASE b.kind # "add"
  BY <1>1, <1>4 DEF Taken, Recorded, PutRows, Applied, EngineType, Coherent, Sets, Elems
<1> QED
  BY <1>3, <1>4

LEMMA TakenParts ==
    ASSUME NEW e \in EngineType, NEW b \in Blocks
    PROVE  /\ Taken(e, b).set = Applied(e.set, b)
           /\ Taken(e, b).rows = e.rows \cup Pairs(b)
           /\ b.kind = "add" => Taken(e, b).off = e.off
           /\ b.kind = "remove" => Taken(e, b).off = e.off \cup Pairs(b)
BY DEF Taken, Recorded, PutRows, EngineType

LEMMA AppliedParts ==
    ASSUME NEW s \in Sets, NEW b, \A p \in Pairs(b) : p[2].at >= s.base
    PROVE  /\ b.kind = "add" => /\ Applied(s, b).adds = s.adds \cup (Pairs(b) \ s.tombs)
                                /\ Applied(s, b).tombs = s.tombs
           /\ b.kind = "remove" => /\ Applied(s, b).adds = s.adds \ Pairs(b)
                                   /\ Applied(s, b).tombs = s.tombs \cup Pairs(b)
<1>1. CASE b.kind = "add"
  <2>1. {p \in Pairs(b) \ s.tombs : p[2].at >= s.base} = Pairs(b) \ s.tombs
    OBVIOUS
  <2> QED
    BY <1>1, <2>1 DEF Applied, Sets
<1>2. CASE b.kind = "remove"
  BY <1>2 DEF Applied, Sets
<1>3. CASE b.kind \notin {"add", "remove"}
  BY <1>3
<1> QED
  BY <1>1, <1>2, <1>3

LEMMA FramesType ==
    ASSUME NEW to \in SUBSET Engines, NEW blocks \in SUBSET (Blocks \cup {Intro}),
           now \in 0..MaxNow
    PROVE  Frames(to, blocks) \subseteq NetType
BY DEF Frames, NetType

LEMMA CompactedType ==
    ASSUME NEW e \in EngineType, NEW h \in 0..MaxNow
    PROVE  /\ Compacted(e.set, h, Owner) \in Sets
           /\ Compacted(e.set, h, Owner).base = h
           /\ Compacted(e.set, h, Owner).adds \in SUBSET Elems
<1> DEFINE all == Elements(e.set)
<1>1. all \subseteq Engines
  BY RosterType DEF Roster
<1>2. ASSUME NEW x \in all
      PROVE  <<x, FoldTag(h, Owner, x, all)>> \in Elems
  <2>1. IsFiniteSet({y \in all : y < x})
    BY <1>1, FS_Subset, MembershipAssumption
  <2>2. Cardinality({y \in all : y < x}) \in Nat
    BY <2>1, FS_CardinalityType
  <2>3. FoldTag(h, Owner, x, all) \in Tags
    BY <2>2, MembershipAssumption DEF FoldTag, Tags
  <2> QED
    BY <1>1, <1>2, <2>3 DEF Elems
<1>3. e.set.tombs \subseteq Elems
  BY DEF EngineType, Sets, Elems
<1> QED
  BY <1>2, <1>3 DEF Compacted, Sets, Elems

-----------------------------------------------------------------------------
(* What an engine that has not folded holds. *)

Heard(e) ==
    e.mark = 0 =>
        /\ e.set.adds = Added(e) \ TakenBack(e)
        /\ e.set.tombs = TakenBack(e)
        /\ e.rows = Added(e) \cup TakenBack(e)
        /\ e.off = TakenBack(e)

HeardInv == TypeOK /\ \A m \in Engines : Heard(engine[m])

LEMMA LogGrows ==
    ASSUME NEW e, NEW f, NEW b, f.log = e.log \cup {b}
    PROVE  /\ b.kind = "add" => Added(f) = Added(e) \cup Pairs(b) /\ TakenBack(f) = TakenBack(e)
           /\ b.kind = "remove" => Added(f) = Added(e) /\ TakenBack(f) = TakenBack(e) \cup Pairs(b)
BY Zenon DEF Added, TakenBack

LEMMA LogKept ==
    ASSUME NEW e, NEW f, f.log = e.log
    PROVE  Added(f) = Added(e) /\ TakenBack(f) = TakenBack(e)
BY DEF Added, TakenBack

LEMMA TakenHeard ==
    ASSUME NEW e \in EngineType, Coherent(e), Heard(e), NEW b \in Blocks
    PROVE  Heard(Taken(e, b))
<1> DEFINE f == Taken(e, b)
<1>1. /\ f.log = e.log \cup {b}
      /\ f.mark = e.mark
  BY TakenType
<1> SUFFICES ASSUME e.mark = 0
             PROVE  Heard(f)
  BY <1>1, Zenon DEF Heard
<1>2. /\ e.set.adds = Added(e) \ TakenBack(e)
      /\ e.set.tombs = TakenBack(e)
      /\ e.rows = Added(e) \cup TakenBack(e)
      /\ e.off = TakenBack(e)
  BY DEF Heard
<1>3. \A p \in Pairs(b) : p[2].at >= e.set.base
  BY PairsType DEF Elems, Tags, Coherent
<1>6. /\ f.set = Applied(e.set, b)
      /\ f.rows = e.rows \cup Pairs(b)
      /\ b.kind = "add" => f.off = e.off
      /\ b.kind = "remove" => f.off = e.off \cup Pairs(b)
  BY TakenParts
<1>7. e.set \in Sets
  BY DEF EngineType
<1> HIDE DEF f
<1>4. CASE b.kind = "add"
  <2>1. Added(f) = Added(e) \cup Pairs(b) /\ TakenBack(f) = TakenBack(e)
    BY <1>1, <1>4, LogGrows
  <2>2. /\ f.set.adds = e.set.adds \cup (Pairs(b) \ e.set.tombs)
        /\ f.set.tombs = e.set.tombs
    BY <1>3, <1>4, <1>6, <1>7, AppliedParts
  <2> QED
    BY <1>2, <1>4, <1>6, <2>1, <2>2 DEF Heard
<1>5. CASE b.kind = "remove"
  <2>1. Added(f) = Added(e) /\ TakenBack(f) = TakenBack(e) \cup Pairs(b)
    BY <1>1, <1>5, LogGrows
  <2>2. /\ f.set.adds = e.set.adds \ Pairs(b)
        /\ f.set.tombs = e.set.tombs \cup Pairs(b)
    BY <1>3, <1>5, <1>6, <1>7, AppliedParts
  <2> QED
    BY <1>2, <1>5, <1>6, <2>1, <2>2 DEF Heard
<1> QED
  BY <1>4, <1>5 DEF Blocks

LEMMA RaisedIsSet ==
    ASSUME NEW e \in EngineType, Coherent(e), Heard(e), e.mark = 0
    PROVE  Raised(e) = e.set
<1>1. /\ e.set.adds = Added(e) \ TakenBack(e)
      /\ e.set.tombs = TakenBack(e)
      /\ e.rows = Added(e) \cup TakenBack(e)
      /\ e.off = TakenBack(e)
  BY DEF Heard
<1>2. {p \in e.rows \ e.off : p[2].at >= e.mark} = e.rows \ e.off
  BY DEF EngineType, Elems, Tags
<1>3. e.set \in Sets /\ e.set.base = e.mark
  BY DEF EngineType, Coherent
<1> QED
  BY <1>1, <1>2, <1>3 DEF Raised, Sets

LEMMA FoundingType == Stranger \in EngineType /\ Coherent(Stranger) /\ Heard(Stranger)
                      /\ Founding \in Blocks
<1>1. Stranger \in EngineType /\ Coherent(Stranger)
  BY MembershipAssumption DEF Stranger, EngineType, Coherent, Restored, Sets, Elems
<1>2. Added(Stranger) = {} /\ TakenBack(Stranger) = {}
  BY DEF Stranger, Added, TakenBack
<1>3. Heard(Stranger)
  BY <1>2 DEF Heard, Stranger, Restored
<1>4. Founding \in Blocks
  BY MembershipAssumption DEF Founding, Block, FirstTag, Blocks, Tags
<1> QED
  BY <1>1, <1>3, <1>4

LEMMA HeardInit == Init => HeardInv
<1> SUFFICES ASSUME Init
             PROVE  HeardInv
  OBVIOUS
<1> DEFINE first == [Stranger EXCEPT !.knows = TRUE]
<1>1. first \in EngineType /\ Coherent(first)
  BY FoundingType DEF EngineType, Coherent
<1>2. first.log = Stranger.log /\ first.mark = Stranger.mark /\ first.set = Stranger.set
      /\ first.rows = Stranger.rows /\ first.off = Stranger.off
  BY DEF Stranger
<1>3. Heard(first)
  BY <1>2, FoundingType, LogKept DEF Heard
<1> HIDE DEF first
<1>4. Taken(first, Founding) \in EngineType /\ Coherent(Taken(first, Founding))
      /\ Heard(Taken(first, Founding))
  BY <1>1, <1>3, FoundingType, TakenType, TakenHeard
<1>5. \A m \in Engines : engine[m] \in EngineType /\ Coherent(engine[m]) /\ Heard(engine[m])
  BY <1>4, FoundingType DEF Init, first
<1>6. engine \in [Engines -> EngineType]
  BY <1>5 DEF Init
<1>7. net \subseteq NetType /\ now \in 0..MaxNow /\ ops \in 0..MaxOps /\ restarts \in 0..MaxRestarts
  BY MembershipAssumption DEF Init
<1>h. Histories
  BY Zenon DEF Init, Histories
<1>8. TypeOK
  BY <1>h, <1>5, <1>6, <1>7, TypeParts
<1> QED
  BY <1>5, <1>8 DEF HeardInv

-----------------------------------------------------------------------------
(* Steps. *)

Sound(e) == e \in EngineType /\ Coherent(e) /\ Heard(e)

LEMMA HeardParts ==
    HeardInv <=> /\ engine \in [Engines -> EngineType]
                 /\ \A m \in Engines : Sound(engine[m])
                 /\ net \subseteq NetType
                 /\ now \in 0..MaxNow /\ ops \in 0..MaxOps /\ restarts \in 0..MaxRestarts
                 /\ Histories
BY TypeParts DEF HeardInv, Sound

\* A step changes one engine at most; the rest is a matter of types.
LEMMA OneChanges ==
    ASSUME HeardInv, NEW m \in Engines, NEW e, Sound(e), engine' = [engine EXCEPT ![m] = e],
           net' \subseteq NetType,
           now' \in 0..MaxNow, ops' \in 0..MaxOps, restarts' \in 0..MaxRestarts,
           missed' \in [Engines -> SUBSET Blocks], crossed' \in BOOLEAN
    PROVE  HeardInv'
<1>1. /\ engine \in [Engines -> EngineType]
      /\ \A k \in Engines : Sound(engine[k])
  BY HeardParts
<1>2. engine' \in [Engines -> EngineType]
  BY <1>1 DEF Sound
<1>3. \A k \in Engines : Sound(engine'[k])
  BY <1>1
<1>4. \A k \in Engines : Coherent(engine'[k]) /\ Heard(engine'[k])
  BY <1>3 DEF Sound
<1>5. TypeOK'
  BY <1>2, <1>4 DEF TypeOK, EngineType, Elems, Coherent, NetType
<1> QED
  BY <1>4, <1>5 DEF HeardInv

LEMMA TakenSound ==
    ASSUME NEW e, Sound(e), NEW b \in Blocks
    PROVE  Sound(Taken(e, b))
BY TakenType, TakenHeard DEF Sound

LEMMA InviteStep ==
    ASSUME HeardInv, NEW m \in Engines, NEW x \in Engines, Invite(m, x)
    PROVE  HeardInv'
<1> DEFINE tag == [at |-> now, by |-> m, n |-> ops + 1]
           b == Block("add", m, x, {tag})
           e == Taken(engine[m], b)
<1>1. Sound(engine[m]) /\ net \subseteq NetType /\ now \in 0..MaxNow /\ ops \in 0..MaxOps
      /\ restarts \in 0..MaxRestarts
  BY HeardParts
<1>2. b \in Blocks
  BY <1>1 DEF Block, Blocks, Tags
<1>3. Sound(e)
  BY <1>1, <1>2, TakenSound
<1>4. /\ engine' = [engine EXCEPT ![m] = e]
      /\ net' = net \cup Frames(Roster(e) \ {m, x}, {b}) \cup Frames({x}, e.log \cup {Intro})
      /\ now' = now /\ ops' = ops + 1 /\ restarts' = restarts /\ ops < MaxOps
  BY Zenon DEF Invite, CanChange
<1> HIDE DEF b, e
<1>5. Roster(e) \ {m, x} \in SUBSET Engines /\ e.log \cup {Intro} \in SUBSET (Blocks \cup {Intro})
  BY <1>3, RosterType DEF Sound, EngineType
<1>6. net' \subseteq NetType
  BY <1>1, <1>2, <1>4, <1>5, FramesType
<1>7. ops' \in 0..MaxOps
  BY <1>1, <1>4, MembershipAssumption
<1>8. missed' \in [Engines -> SUBSET Blocks] /\ crossed' \in BOOLEAN
  BY HeardParts DEF Invite, Histories
<1> QED
  BY <1>1, <1>3, <1>4, <1>6, <1>7, <1>8, OneChanges

LEMMA RemoveStep ==
    ASSUME HeardInv, NEW m \in Engines, NEW x \in Engines, NEW to \in SUBSET Engines,
           NEW b, b = Block("remove", m, x, Observed(engine[m].set, x)),
           engine' = [engine EXCEPT ![m] = Taken(engine[m], b)],
           net' = net \cup Frames(to, {b}),
           ops < MaxOps, ops' = ops + 1, now' = now, restarts' = restarts,
           missed' = missed, crossed' \in BOOLEAN
    PROVE  HeardInv'
<1>1. Sound(engine[m]) /\ net \subseteq NetType /\ now \in 0..MaxNow /\ ops \in 0..MaxOps
      /\ restarts \in 0..MaxRestarts
  BY HeardParts
<1>2. b \in Blocks
  BY <1>1, ObservedType DEF Sound, Block, Blocks
<1>3. Sound(Taken(engine[m], b))
  BY <1>1, <1>2, TakenSound
<1>4. net' \subseteq NetType
  BY <1>1, <1>2, FramesType
<1>5. ops' \in 0..MaxOps /\ missed' \in [Engines -> SUBSET Blocks]
  BY <1>1, HeardParts, MembershipAssumption DEF Histories
<1> QED
  BY <1>1, <1>3, <1>4, <1>5, OneChanges

LEMMA EvictStep ==
    ASSUME HeardInv, NEW x \in Engines, Evict(x)
    PROVE  HeardInv'
<1> DEFINE b == Block("remove", Owner, x, Observed(engine[Owner].set, x))
           e == Taken(engine[Owner], b)
<1>1. Owner \in Engines
  BY MembershipAssumption
<1>2. Sound(engine[Owner])
  BY <1>1, HeardParts
<1>3. b \in Blocks
  BY <1>1, <1>2, ObservedType DEF Sound, Block, Blocks
<1>4. (Roster(e) \ {Owner}) \cup {x} \in SUBSET Engines
  BY <1>2, <1>3, TakenSound, RosterType DEF Sound
<1>5. /\ engine' = [engine EXCEPT ![Owner] = e]
      /\ net' = net \cup Frames((Roster(e) \ {Owner}) \cup {x}, {b})
      /\ ops < MaxOps /\ ops' = ops + 1 /\ now' = now /\ restarts' = restarts
      /\ missed' = missed
  BY Zenon DEF Evict, CanChange
<1>6. crossed' \in BOOLEAN
  BY DEF Evict
<1> QED
  BY <1>1, <1>4, <1>5, <1>6, RemoveStep

LEMMA LeaveStep ==
    ASSUME HeardInv, NEW m \in Engines, Leave(m)
    PROVE  HeardInv'
<1> DEFINE b == Block("remove", m, m, Observed(engine[m].set, m))
<1>1. Roster(engine[m]) \ {m} \in SUBSET Engines
  BY HeardParts, RosterType DEF Sound
<1>2. /\ engine' = [engine EXCEPT ![m] = Taken(engine[m], b)]
      /\ net' = net \cup Frames(Roster(engine[m]) \ {m}, {b})
      /\ ops < MaxOps /\ ops' = ops + 1 /\ now' = now /\ restarts' = restarts
      /\ missed' = missed
  BY Zenon DEF Leave, CanChange
<1>3. crossed' \in BOOLEAN
  BY DEF Leave
<1> QED
  BY <1>1, <1>2, <1>3, RemoveStep

LEMMA DeliverStep ==
    ASSUME HeardInv, NEW f \in net, Deliver(f)
    PROVE  HeardInv'
<1> DEFINE m == f.to
<1>1. /\ net \subseteq NetType /\ now \in 0..MaxNow /\ ops \in 0..MaxOps
      /\ restarts \in 0..MaxRestarts /\ m \in Engines /\ f.block \in Blocks \cup {Intro}
  BY HeardParts DEF NetType
<1>2. Sound(engine[m]) /\ engine \in [Engines -> EngineType]
  BY <1>1, HeardParts
<1>3. net' \subseteq NetType /\ now' = now /\ ops' = ops /\ restarts' = restarts
      /\ crossed' \in BOOLEAN
  BY <1>1, HeardParts DEF Deliver, Histories
<1>4. CASE Introduced(m, f)
  <2> DEFINE e == [engine[m] EXCEPT !.knows = TRUE]
  <2>1. e \in EngineType /\ Coherent(e)
    BY <1>2 DEF Sound, EngineType, Coherent
  <2>2. e.log = engine[m].log /\ e.mark = engine[m].mark /\ e.set = engine[m].set
        /\ e.rows = engine[m].rows /\ e.off = engine[m].off
    BY <1>2 DEF Sound, EngineType
  <2>3. Added(e) = Added(engine[m]) /\ TakenBack(e) = TakenBack(engine[m])
    BY <2>2, LogKept
  <2>4. Sound(e)
    BY <1>2, <2>1, <2>2, <2>3 DEF Sound, Heard
  <2>5. engine' = [engine EXCEPT ![m] = e]
    BY <1>2, <1>4 DEF Introduced
  <2>6. missed' \in [Engines -> SUBSET Blocks]
    BY <1>4, HeardParts DEF Introduced, Histories
  <2> HIDE DEF e
  <2> QED
    BY <1>1, <1>3, <2>4, <2>5, <2>6, OneChanges
<1>5. CASE TakeBlock(m, f)
  <2>1. f.block \in Blocks
    BY <1>1, <1>5 DEF TakeBlock
  <2> DEFINE e == IF RemovalAllowed(f.block) THEN Taken(engine[m], f.block) ELSE engine[m]
  <2>2. Sound(e)
    BY <1>2, <2>1, TakenSound
  <2>3. engine' = [engine EXCEPT ![m] = e]
    BY <1>5, Zenon DEF TakeBlock
  <2>4. missed' \in [Engines -> SUBSET Blocks]
    BY <1>1, <1>5, <2>1, HeardParts DEF TakeBlock, Histories
  <2> HIDE DEF e
  <2> QED
    BY <1>1, <1>3, <2>2, <2>3, <2>4, OneChanges
<1> QED
  BY <1>4, <1>5 DEF Deliver

LEMMA FoldStep ==
    ASSUME HeardInv, NEW m \in Engines, Fold(m)
    PROVE  HeardInv'
<1> DEFINE h == Horizon(engine[m])
           s == Compacted(engine[m].set, h, Owner)
           e == [engine[m] EXCEPT !.set = s, !.rows = s.adds, !.off = {}, !.mark = h]
<1>1. /\ Sound(engine[m]) /\ net \subseteq NetType /\ now \in 0..MaxNow /\ ops \in 0..MaxOps
      /\ restarts \in 0..MaxRestarts
  BY HeardParts
<1>2. h \in 0..MaxNow /\ h > engine[m].set.base
  BY <1>1, MembershipAssumption DEF Fold, Horizon
<1>3. s \in Sets /\ s.base = h /\ s.adds \in SUBSET Elems
  BY <1>1, <1>2, CompactedType DEF Sound
<1>4. engine' = [engine EXCEPT ![m] = e]
  BY Zenon DEF Fold
<1>5. /\ UNCHANGED <<net, now, ops, restarts>>
      /\ missed' \in [Engines -> SUBSET Blocks] /\ crossed' \in BOOLEAN
  BY HeardParts DEF Fold, Histories
<1>6. h # 0
  BY <1>1, <1>2 DEF Sound, EngineType, Sets
<1> HIDE DEF h, s
<1>7. e \in EngineType /\ Coherent(e)
  BY <1>1, <1>2, <1>3 DEF Sound, EngineType, Coherent
<1>8. e.mark = h
  BY <1>1 DEF Sound, EngineType
<1>9. Sound(e)
  BY <1>6, <1>7, <1>8 DEF Sound, Heard
<1> HIDE DEF e
<1> QED
  BY <1>1, <1>4, <1>5, <1>9, OneChanges

LEMMA RestartStep ==
    ASSUME HeardInv, NEW m \in Engines, Restart(m)
    PROVE  HeardInv'
<1> DEFINE r == Raised(engine[m])
           e == [engine[m] EXCEPT !.set = r]
<1>1. /\ Sound(engine[m]) /\ net \subseteq NetType /\ now \in 0..MaxNow /\ ops \in 0..MaxOps
      /\ restarts \in 0..MaxRestarts
  BY HeardParts
<1>2. r \in Sets /\ r.base = engine[m].mark
  BY <1>1 DEF Raised, Sound, EngineType, Sets, Elems
<1>3. engine[m].mark = 0 => r = engine[m].set
  BY <1>1, RaisedIsSet DEF Sound
<1>4. engine' = [engine EXCEPT ![m] = e]
  BY <1>1, HeardParts, Zenon DEF Restart
<1>5. /\ net' = net /\ now' = now /\ ops' = ops /\ restarts' = restarts + 1 /\ restarts < MaxRestarts
      /\ missed' \in [Engines -> SUBSET Blocks] /\ crossed' \in BOOLEAN
  BY HeardParts DEF Restart, Histories
<1> HIDE DEF r
<1>6. e \in EngineType /\ Coherent(e)
  BY <1>1, <1>2 DEF Sound, EngineType, Coherent
<1>7. e.log = engine[m].log /\ e.mark = engine[m].mark /\ e.set = r
      /\ e.rows = engine[m].rows /\ e.off = engine[m].off
  BY <1>1 DEF Sound, EngineType
<1> HIDE DEF e
<1>8. Added(e) = Added(engine[m]) /\ TakenBack(e) = TakenBack(engine[m])
  BY <1>7, LogKept
<1>9. Sound(e)
  BY <1>1, <1>3, <1>6, <1>7, <1>8 DEF Sound, Heard
<1>10. restarts' \in 0..MaxRestarts
  BY <1>1, <1>5, MembershipAssumption
<1> QED
  BY <1>1, <1>4, <1>5, <1>9, <1>10, OneChanges

LEMMA QuietStep ==
    ASSUME HeardInv, Tick \/ UNCHANGED vars
    PROVE  HeardInv'
<1>1. /\ engine' = engine /\ net' = net /\ ops' = ops /\ restarts' = restarts
      /\ missed' = missed /\ crossed' = crossed
  BY DEF Tick, vars
<1>2. now' \in 0..MaxNow
  BY HeardParts, MembershipAssumption DEF Tick, vars
<1> QED
  BY <1>1, <1>2 DEF HeardInv, TypeOK, NetType

LEMMA HeardNext ==
    ASSUME HeardInv, [Next]_vars
    PROVE  HeardInv'
<1>1. CASE \E m, x \in Engines : Invite(m, x)
  BY <1>1, InviteStep
<1>2. CASE \E x \in Engines : Evict(x)
  BY <1>2, EvictStep
<1>3. CASE \E m \in Engines : Leave(m)
  BY <1>3, LeaveStep
<1>4. CASE \E m \in Engines : Fold(m)
  BY <1>4, FoldStep
<1>5. CASE \E m \in Engines : Restart(m)
  BY <1>5, RestartStep
<1>6. CASE \E f \in net : Deliver(f)
  BY <1>6, DeliverStep
<1>7. CASE Tick \/ UNCHANGED vars
  BY <1>7, QuietStep
<1> QED
  BY <1>1, <1>2, <1>3, <1>4, <1>5, <1>6, <1>7 DEF Next

LEMMA HeardAlways == Spec => []HeardInv
BY HeardInit, HeardNext, PTL DEF Spec

-----------------------------------------------------------------------------
(* What follows. *)

\* Types of memory, disk and network.
THEOREM TypeCorrect == Spec => []TypeOK
<1>1. HeardInv => TypeOK
  BY DEF HeardInv
<1> QED
  BY <1>1, HeardAlways, PTL

\* An engine that has not folded has in its roster those invited under a tag no
\* removal took back, in whatever order the blocks came.
THEOREM RosterFromBlocks == Spec => []RosterIsHeard
<1>1. HeardInv => RosterIsHeard
  BY DEF HeardInv, Heard, RosterIsHeard, Roster, Elements
<1> QED
  BY <1>1, HeardAlways, PTL

\* A restart raises the set that was in memory.
THEOREM RaisedAsItWas == Spec => []DiskFaithful
<1>1. HeardInv => DiskFaithful
  BY HeardParts, RaisedIsSet DEF Sound, DiskFaithful
<1> QED
  BY <1>1, HeardAlways, PTL

\* Two engines with the same blocks have the same roster, tombstones and rows:
\* what convergence rests on.
SameBlocksSameState ==
    \A m, o \in Engines :
        /\ engine[m].mark = 0 /\ engine[o].mark = 0
        /\ engine[m].log = engine[o].log
        => engine[m].set = engine[o].set /\ Roster(engine[m]) = Roster(engine[o])

THEOREM Converges == Spec => []SameBlocksSameState
<1>1. ASSUME HeardInv, NEW m \in Engines, NEW o \in Engines,
             engine[m].mark = 0, engine[o].mark = 0, engine[m].log = engine[o].log
      PROVE  engine[m].set = engine[o].set
  <2>1. Sound(engine[m]) /\ Sound(engine[o])
    BY <1>1, HeardParts
  <2>2. Added(engine[m]) = Added(engine[o]) /\ TakenBack(engine[m]) = TakenBack(engine[o])
    BY <1>1 DEF Added, TakenBack
  <2>3. /\ engine[m].set.adds = engine[o].set.adds
        /\ engine[m].set.tombs = engine[o].set.tombs
        /\ engine[m].set.base = engine[o].set.base
    BY <1>1, <2>1, <2>2 DEF Sound, Heard, Coherent
  <2>4. engine[m].set \in Sets /\ engine[o].set \in Sets
    BY <2>1 DEF Sound, EngineType
  <2> QED
    BY <2>3, <2>4 DEF Sets
<1>2. HeardInv => SameBlocksSameState
  BY <1>1 DEF SameBlocksSameState, Roster
<1> QED
  BY <1>2, HeardAlways, PTL

-----------------------------------------------------------------------------
(* Folding.  An addition is lost to an engine that has folded only if its  *)
(* tag lies below the mark when it comes.  One as old as its frame does    *)
(* not: the mark lags by more than any trip.  One older than its frame is  *)
(* history, and the claim leaves it out.                                   *)

Gone(e) == {b.who : b \in {c \in e.log : c.kind = "remove"}}

\* The pairs of the additions that came in time, and who they are about.
InTime(e, old) == UNION {Pairs(b) : b \in {c \in e.log \ old : c.kind = "add"}}
Stay(e, old) == {p[1] : p \in InTime(e, old)} \ Gone(e)

\* Whoever stays is in the roster, and has a row that a restart will raise.
Kept(e, old) ==
    \A x \in Stay(e, old) : /\ \E p \in e.set.adds : p[1] = x
                            /\ \E p \in e.rows : p[1] = x /\ p[2].at >= e.mark

\* Only who was removed has tombstones.
Buried(e) == \A p \in e.set.tombs \cup e.off : p[1] \in Gone(e)

\* No trip is too long, and every mark lags.
LagInv ==
    /\ \A f \in net : f.sent <= now /\ now <= f.sent + MaxTrip
    /\ \A m \in Engines : engine[m].mark > 0 => engine[m].mark + FoldAfter <= now

KeptInv == \A m \in Engines : Buried(engine[m]) /\ Kept(engine[m], missed[m])

FoldInv == LagInv /\ KeptInv

\* A block taken keeps whom it does not remove, unless it is an addition that
\* comes too late and is counted as missed.
LEMMA TakenKept ==
    ASSUME NEW e \in EngineType, Coherent(e), NEW b \in Blocks, Buried(e),
           NEW old, NEW new, old \subseteq new,
           b.kind = "add" => b \in e.log \/ b \in new \/ \A t \in b.tags : t.at >= e.mark
    PROVE  /\ Buried(Taken(e, b))
           /\ Kept(e, old) => Kept(Taken(e, b), new)
<1> DEFINE f == Taken(e, b)
<1>1. /\ f.log = e.log \cup {b}
      /\ f.mark = e.mark
      /\ f.set = Applied(e.set, b)
      /\ f.rows = e.rows \cup Pairs(b)
      /\ b.kind = "add" => f.off = e.off
      /\ b.kind = "remove" => f.off = e.off \cup Pairs(b)
  BY TakenType, TakenParts
<1>2. e.set \in Sets /\ e.set.base = e.mark
  BY DEF EngineType, Coherent
<1>3. \A p \in Pairs(b) : p[1] = b.who /\ p[2] \in b.tags
  BY DEF Pairs
<1> HIDE DEF f
<1>4. CASE b.kind = "add"
  <2>1. Gone(f) = Gone(e)
    BY <1>1, <1>4 DEF Gone
  <2>2. f.set.tombs = e.set.tombs /\ e.set.adds \subseteq f.set.adds
    BY <1>1, <1>2, <1>4 DEF Applied, Sets
  <2>3. Buried(f)
    BY <1>1, <1>4, <2>1, <2>2 DEF Buried
  <2>4. ASSUME Kept(e, old)
        PROVE  Kept(f, new)
    <3>1. ASSUME NEW x \in Stay(f, new)
          PROVE  /\ \E p \in f.set.adds : p[1] = x
                 /\ \E p \in f.rows : p[1] = x /\ p[2].at >= f.mark
      <4>1. CASE x \in Stay(e, old)
        <5>1. (\E p \in e.set.adds : p[1] = x) /\ \E p \in e.rows : p[1] = x /\ p[2].at >= e.mark
          BY <2>4, <4>1 DEF Kept
        <5> QED
          BY <1>1, <2>2, <5>1
      <4>2. CASE x \notin Stay(e, old)
        <5>1. PICK p \in InTime(f, new) : p[1] = x
          BY DEF Stay
        <5>2. PICK c \in f.log \ new : c.kind = "add" /\ p \in Pairs(c)
          BY <5>1 DEF InTime
        <5>3. x \notin Gone(e)
          BY <2>1, <3>1 DEF Stay
        <5>4. c \notin e.log
          <6>1. p \notin InTime(e, old)
            BY <4>2, <5>1, <5>3 DEF Stay
          <6> QED
            BY <5>2, <6>1 DEF InTime
        <5>5. c = b /\ \A t \in b.tags : t.at >= e.mark
          BY <1>1, <1>4, <5>2, <5>4
        <5>6. p[2].at >= e.mark /\ \A q \in Pairs(b) : q[2].at >= e.mark
          BY <1>3, <5>2, <5>5
        <5>7. f.set.adds = e.set.adds \cup (Pairs(b) \ e.set.tombs)
          BY <1>1, <1>2, <1>4, <5>6, AppliedParts
        <5>8. p \notin e.set.tombs
          BY <5>1, <5>3 DEF Buried
        <5> QED
          BY <1>1, <5>1, <5>2, <5>5, <5>6, <5>7, <5>8
      <4> QED
        BY <4>1, <4>2
    <3> QED
      BY <3>1 DEF Kept
  <2> QED
    BY <2>3, <2>4 DEF f
<1>5. CASE b.kind = "remove"
  <2>1. Stay(f, new) \subseteq Stay(e, old)
    BY <1>1, <1>5 DEF Stay, InTime, Gone
  <2>2. Gone(f) = Gone(e) \cup {b.who}
    BY <1>1, <1>5 DEF Gone
  <2>3. /\ f.set.tombs = e.set.tombs \cup Pairs(b)
        /\ f.set.adds = e.set.adds \ Pairs(b)
    BY <1>1, <1>2, <1>5 DEF Applied, Sets
  <2>4. Buried(f)
    BY <1>1, <1>3, <1>5, <2>2, <2>3 DEF Buried
  <2>5. ASSUME Kept(e, old)
        PROVE  Kept(f, new)
    <3>1. \A x \in Stay(f, new) : x \in Stay(e, old) /\ x # b.who
      BY <2>1, <2>2 DEF Stay
    <3> QED
      BY <1>1, <1>3, <2>3, <2>5, <3>1 DEF Kept
  <2> QED
    BY <2>4, <2>5 DEF f
<1> QED
  BY <1>4, <1>5 DEF Blocks

LEMMA FoldedKept ==
    ASSUME NEW e, Buried(e), NEW old, NEW h \in 0..MaxNow, NEW f,
           f.log = e.log, f.set = Compacted(e.set, h, Owner), f.rows = f.set.adds,
           f.off = {}, f.mark = h
    PROVE  /\ Buried(f)
           /\ Kept(e, old) => Kept(f, old)
<1> DEFINE s == f.set
<1>1. /\ f.log = e.log /\ f.set = s /\ f.rows = s.adds /\ f.off = {} /\ f.mark = h
  OBVIOUS
<1>2. Gone(f) = Gone(e) /\ Stay(f, old) = Stay(e, old)
  BY <1>1 DEF Gone, Stay, InTime
<1>3. s.tombs \subseteq e.set.tombs
  BY DEF Compacted
<1>4. Buried(f)
  BY <1>1, <1>2, <1>3 DEF Buried
<1>5. ASSUME Kept(e, old)
      PROVE  Kept(f, old)
  <2>1. SUFFICES ASSUME NEW x \in Stay(e, old)
                 PROVE  \E p \in s.adds : p[1] = x /\ p[2].at >= h
    BY <1>1, <1>2 DEF Kept
  <2>2. x \in Elements(e.set)
    BY <1>5, <2>1 DEF Kept, Elements
  <2> DEFINE p == <<x, FoldTag(h, Owner, x, Elements(e.set))>>
  <2>3. p \in s.adds
    BY <2>2 DEF Compacted
  <2>4. p[1] = x /\ p[2].at = h
    BY DEF FoldTag
  <2> QED
    BY <2>3, <2>4
<1> QED
  BY <1>4, <1>5

LEMMA RaisedKept ==
    ASSUME NEW e \in EngineType, Coherent(e), Buried(e), NEW old,
           NEW f, f = [e EXCEPT !.set = Raised(e)]
    PROVE  /\ Buried(f)
           /\ Kept(e, old) => Kept(f, old)
<1>1. /\ f.log = e.log /\ f.rows = e.rows /\ f.off = e.off /\ f.mark = e.mark
      /\ f.set = Raised(e)
  BY DEF EngineType
<1>2. Gone(f) = Gone(e) /\ Stay(f, old) = Stay(e, old)
  BY <1>1 DEF Gone, Stay, InTime
<1>3. f.set.tombs = e.off
  BY <1>1 DEF Raised
<1>4. Buried(f)
  BY <1>1, <1>2, <1>3 DEF Buried
<1>5. ASSUME Kept(e, old)
      PROVE  Kept(f, old)
  <2>1. SUFFICES ASSUME NEW x \in Stay(e, old)
                 PROVE  /\ \E p \in f.set.adds : p[1] = x
                        /\ \E p \in f.rows : p[1] = x /\ p[2].at >= f.mark
    BY <1>2 DEF Kept
  <2>2. PICK p \in e.rows : p[1] = x /\ p[2].at >= e.mark
    BY <1>5, <2>1 DEF Kept
  <2>3. p \notin e.off
    BY <2>1, <2>2 DEF Buried, Stay
  <2>4. p \in f.set.adds
    BY <1>1, <2>2, <2>3 DEF Raised
  <2> QED
    BY <1>1, <2>2, <2>4
<1> QED
  BY <1>4, <1>5

\* What a step of engine m must see to.
LEMMA StepKeeps ==
    ASSUME HeardInv, FoldInv, NEW m \in Engines, NEW e, NEW old,
           engine' = [engine EXCEPT ![m] = e],
           missed' = [missed EXCEPT ![m] = old],
           now' = now,
           \A f \in net' \ net : f.sent = now,
           e.mark > 0 => e.mark + FoldAfter <= now,
           Buried(e), Kept(e, old)
    PROVE  FoldInv'
<1>1. /\ engine \in [Engines -> EngineType] /\ missed \in [Engines -> SUBSET Blocks]
      /\ now \in 0..MaxNow /\ MaxTrip \in Nat
  BY HeardParts, MembershipAssumption DEF Histories
<1>2. /\ engine'[m] = e /\ missed'[m] = old
      /\ \A k \in Engines : k # m => engine'[k] = engine[k] /\ missed'[k] = missed[k]
  BY <1>1
<1>3. LagInv'
  BY <1>1, <1>2 DEF FoldInv, LagInv
<1>4. KeptInv'
  BY <1>2 DEF FoldInv, KeptInv
<1> QED
  BY <1>3, <1>4 DEF FoldInv

LEMMA FramesParts ==
    ASSUME NEW to, NEW blocks, NEW f \in Frames(to, blocks)
    PROVE  f.to \in to /\ f.block \in blocks /\ f.sent = now
BY DEF Frames

\* A change of one's own is as old as its frames.
LEMMA OwnBlockKeeps ==
    ASSUME HeardInv, FoldInv, NEW m \in Engines, NEW b \in Blocks,
           engine' = [engine EXCEPT ![m] = Taken(engine[m], b)],
           now' = now, missed' = missed,
           b.kind = "add" => \A t \in b.tags : t.at = now,
           \A f \in net' \ net : f.sent = now
    PROVE  FoldInv'
<1>1. /\ engine[m] \in EngineType /\ Coherent(engine[m])
      /\ missed \in [Engines -> SUBSET Blocks] /\ now \in 0..MaxNow /\ FoldAfter \in Nat
  BY HeardParts, MembershipAssumption DEF Sound, Histories
<1>2. PICK e : e = Taken(engine[m], b)
  OBVIOUS
<1>3. PICK old : old = missed[m]
  OBVIOUS
<1>4. e.mark = engine[m].mark
  BY <1>1, <1>2, TakenType
<1>5. /\ engine[m].mark \in 0..MaxNow
      /\ engine[m].mark > 0 => engine[m].mark + FoldAfter <= now
  BY <1>1 DEF FoldInv, LagInv, EngineType
<1>6. b.kind = "add" => \A t \in b.tags : t.at >= engine[m].mark
  BY <1>1, <1>5
<1>7. Buried(engine[m]) /\ Kept(engine[m], old)
  BY <1>3 DEF FoldInv, KeptInv
<1>8. Buried(e) /\ Kept(e, old)
  BY <1>1, <1>2, <1>6, <1>7, TakenKept
<1>9. engine' = [engine EXCEPT ![m] = e] /\ missed' = [missed EXCEPT ![m] = old]
  BY <1>1, <1>2, <1>3
<1> QED
  BY <1>4, <1>5, <1>8, <1>9, StepKeeps

LEMMA InviteKeeps ==
    ASSUME HeardInv, FoldInv, NEW m \in Engines, NEW x \in Engines, Invite(m, x)
    PROVE  FoldInv'
<1> DEFINE block == Block("add", m, x, {[at |-> now, by |-> m, n |-> ops + 1]})
<1>1. PICK b : b = block
  OBVIOUS
<1>2. PICK e : e = Taken(engine[m], b)
  OBVIOUS
<1>3. b \in Blocks /\ \A t \in b.tags : t.at = now
  BY <1>1, HeardParts DEF Block, Blocks, Tags
<1>4. /\ engine' = [engine EXCEPT ![m] = Taken(engine[m], b)]
      /\ net' = net \cup Frames(Roster(e) \ {m, x}, {b}) \cup Frames({x}, e.log \cup {Intro})
      /\ now' = now /\ missed' = missed
  BY <1>1, <1>2, Zenon DEF Invite
<1> HIDE DEF block
<1>5. \A f \in net' \ net : f.sent = now
  BY <1>4, FramesParts
<1> QED
  BY <1>3, <1>4, <1>5, OwnBlockKeeps

LEMMA RemoveKeeps ==
    ASSUME HeardInv, FoldInv, NEW m \in Engines, NEW x \in Engines, NEW to,
           NEW b, b = Block("remove", m, x, Observed(engine[m].set, x)),
           engine' = [engine EXCEPT ![m] = Taken(engine[m], b)],
           net' = net \cup Frames(to, {b}), now' = now, missed' = missed
    PROVE  FoldInv'
<1>1. b \in Blocks /\ b.kind = "remove"
  BY HeardParts, ObservedType DEF Sound, Block, Blocks
<1>2. \A f \in net' \ net : f.sent = now
  BY FramesParts
<1> QED
  BY <1>1, <1>2, OwnBlockKeeps

LEMMA EvictKeeps ==
    ASSUME HeardInv, FoldInv, NEW x \in Engines, Evict(x)
    PROVE  FoldInv'
<1> DEFINE block == Block("remove", Owner, x, Observed(engine[Owner].set, x))
<1>1. PICK b : b = block
  OBVIOUS
<1>2. PICK to : to = (Roster(Taken(engine[Owner], b)) \ {Owner}) \cup {x}
  OBVIOUS
<1>3. /\ engine' = [engine EXCEPT ![Owner] = Taken(engine[Owner], b)]
      /\ net' = net \cup Frames(to, {b}) /\ now' = now /\ missed' = missed
  BY <1>1, <1>2, Zenon DEF Evict
<1> QED
  BY <1>1, <1>3, MembershipAssumption, RemoveKeeps

LEMMA LeaveKeeps ==
    ASSUME HeardInv, FoldInv, NEW m \in Engines, Leave(m)
    PROVE  FoldInv'
<1> DEFINE block == Block("remove", m, m, Observed(engine[m].set, m))
<1>1. PICK b : b = block
  OBVIOUS
<1>2. PICK to : to = Roster(engine[m]) \ {m}
  OBVIOUS
<1>3. /\ engine' = [engine EXCEPT ![m] = Taken(engine[m], b)]
      /\ net' = net \cup Frames(to, {b}) /\ now' = now /\ missed' = missed
  BY <1>1, <1>2, Zenon DEF Leave
<1> QED
  BY <1>1, <1>3, RemoveKeeps

\* An addition as old as its frame lies above the mark when it comes.
LEMMA ArrivesAbove ==
    ASSUME HeardInv, FoldInv, MaxTrip < FoldAfter, NEW f \in net, f.block \in Blocks,
           f.block.kind = "add", f.block \notin engine[f.to].log, ~Misses(f.to, f),
           NEW t \in f.block.tags
    PROVE  t.at >= engine[f.to].mark
<1>1. /\ f.to \in Engines /\ f.sent \in 0..MaxNow /\ engine[f.to].mark \in 0..MaxNow
      /\ t.at \in 0..MaxNow /\ now \in 0..MaxNow /\ MaxTrip \in Nat /\ FoldAfter \in Nat
  BY HeardParts, MembershipAssumption DEF NetType, EngineType, Blocks, Tags
<1>2. t.at >= f.sent \/ t.at >= engine[f.to].mark
  BY <1>1 DEF Misses
<1>3. /\ now <= f.sent + MaxTrip
      /\ engine[f.to].mark > 0 => engine[f.to].mark + FoldAfter <= now
  BY <1>1 DEF FoldInv, LagInv
<1> QED
  BY <1>1, <1>2, <1>3

LEMMA DeliverKeeps ==
    ASSUME MaxTrip < FoldAfter, HeardInv, FoldInv, NEW f \in net, Deliver(f)
    PROVE  FoldInv'
<1>m. PICK m : m = f.to
  OBVIOUS
<1>1. /\ m \in Engines /\ f.block \in Blocks \cup {Intro} /\ engine[m] \in EngineType
      /\ Coherent(engine[m]) /\ engine \in [Engines -> EngineType]
      /\ missed \in [Engines -> SUBSET Blocks]
  BY <1>m, HeardParts DEF NetType, Sound, Histories
<1>2. /\ net' \subseteq net /\ now' = now
      /\ Introduced(m, f) \/ TakeBlock(m, f)
  BY <1>m DEF Deliver
<1>3. /\ Buried(engine[m]) /\ Kept(engine[m], missed[m])
      /\ engine[m].mark > 0 => engine[m].mark + FoldAfter <= now
  BY <1>1 DEF FoldInv, LagInv, KeptInv
<1>4. PICK was : was = missed[m]
  OBVIOUS
<1>5. CASE Introduced(m, f)
  <2>1. PICK e : e = [engine[m] EXCEPT !.knows = TRUE]
    OBVIOUS
  <2>2. /\ e.log = engine[m].log /\ e.mark = engine[m].mark /\ e.set = engine[m].set
        /\ e.rows = engine[m].rows /\ e.off = engine[m].off
    BY <1>1, <2>1 DEF EngineType
  <2>3. engine' = [engine EXCEPT ![m] = e] /\ missed' = [missed EXCEPT ![m] = was]
    BY <1>1, <1>4, <1>5, <2>1 DEF Introduced
  <2>4. Buried(e) /\ Kept(e, was)
    BY <1>3, <1>4, <2>2 DEF Buried, Kept, Stay, InTime, Gone
  <2> QED
    BY <1>1, <1>2, <1>3, <2>2, <2>3, <2>4, StepKeeps
<1>6. CASE TakeBlock(m, f)
  <2>1. PICK b : b = f.block
    OBVIOUS
  <2>2. b \in Blocks
    BY <1>1, <1>6, <2>1 DEF TakeBlock
  <2>3. PICK old : old = IF Misses(m, f) THEN was \cup {b} ELSE was
    OBVIOUS
  <2>4. PICK e : e = IF RemovalAllowed(b) THEN Taken(engine[m], b) ELSE engine[m]
    OBVIOUS
  <2>5. missed' = [missed EXCEPT ![m] = old]
    <3>1. CASE Misses(m, f)
      BY <1>1, <1>4, <1>6, <2>1, <2>3, <3>1 DEF TakeBlock
    <3>2. CASE ~Misses(m, f)
      BY <1>1, <1>4, <1>6, <2>3, <3>2 DEF TakeBlock
    <3> QED
      BY <3>1, <3>2
  <2>6. engine' = [engine EXCEPT ![m] = e]
    BY <1>6, <2>1, <2>4, Zenon DEF TakeBlock
  <2>7. was \subseteq old
    BY <2>3
  <2>8. b.kind = "add" => b \in engine[m].log \/ b \in old \/ \A t \in b.tags : t.at >= engine[m].mark
    <3>1. CASE Misses(m, f)
      BY <2>3, <3>1
    <3>2. ASSUME ~Misses(m, f), b.kind = "add", b \notin engine[m].log, NEW t \in b.tags
          PROVE  t.at >= engine[m].mark
      BY <1>m, <2>1, <2>2, <3>2, ArrivesAbove
    <3> QED
      BY <3>1, <3>2
  <2>9. CASE RemovalAllowed(b)
    <3>1. e = Taken(engine[m], b)
      BY <2>4, <2>9
    <3>2. PICK d : d = engine[m]
      OBVIOUS
    <3>3. Buried(Taken(d, b)) /\ (Kept(d, was) => Kept(Taken(d, b), old))
      BY <1>1, <1>3, <2>2, <2>7, <2>8, <3>2, TakenKept
    <3>4. Buried(e) /\ Kept(e, old)
      BY <1>3, <1>4, <3>1, <3>2, <3>3
    <3>5. e.mark = engine[m].mark
      BY <1>1, <2>2, <3>1, TakenType
    <3> QED
      BY <1>1, <1>2, <1>3, <2>5, <2>6, <3>4, <3>5, StepKeeps
  <2>10. CASE ~RemovalAllowed(b)
    <3>1. e = engine[m] /\ b.kind = "remove"
      BY <2>2, <2>4, <2>10 DEF RemovalAllowed
    <3>2. old = was
      BY <2>1, <2>3, <3>1 DEF Misses
    <3> QED
      BY <1>1, <1>2, <1>3, <1>4, <2>5, <2>6, <3>1, <3>2, StepKeeps
  <2> QED
    BY <2>9, <2>10
<1> QED
  BY <1>2, <1>5, <1>6

LEMMA FoldKeeps ==
    ASSUME HeardInv, FoldInv, NEW m \in Engines, Fold(m)
    PROVE  FoldInv'
<1>1. PICK h : h = Horizon(engine[m])
  OBVIOUS
<1>2. PICK s : s = Compacted(engine[m].set, h, Owner)
  OBVIOUS
<1>3. PICK e : e = [engine[m] EXCEPT !.set = s, !.rows = s.adds, !.off = {}, !.mark = h]
  OBVIOUS
<1>4. /\ Sound(engine[m]) /\ engine[m] \in EngineType /\ now \in 0..MaxNow
      /\ missed \in [Engines -> SUBSET Blocks] /\ FoldAfter \in Nat
  BY HeardParts, MembershipAssumption DEF Sound, Histories
<1>5. /\ h > engine[m].set.base /\ net' = net /\ now' = now /\ missed' = missed
      /\ engine' = [engine EXCEPT ![m] = e]
  BY <1>1, <1>2, <1>3, Zenon DEF Fold
<1>6. h \in 0..MaxNow /\ (h > 0 => h + FoldAfter <= now)
  <2>1. MaxNow \in Nat
    BY MembershipAssumption
  <2>2. h = IF now < FoldAfter THEN 0 ELSE now - FoldAfter
    BY <1>1 DEF Horizon
  <2> QED
    BY <1>4, <2>1, <2>2
<1>7. /\ e.log = engine[m].log /\ e.set = s /\ e.rows = s.adds /\ e.off = {} /\ e.mark = h
  BY <1>3, <1>4 DEF EngineType
<1>8. PICK old : old = missed[m]
  OBVIOUS
<1>9. Buried(engine[m]) /\ Kept(engine[m], old)
  BY <1>8 DEF FoldInv, KeptInv
<1>10. PICK d : d = engine[m]
  OBVIOUS
<1>11. Buried(d) /\ Kept(d, old) /\ e.log = d.log /\ e.set = Compacted(d.set, h, Owner)
       /\ e.rows = e.set.adds
  BY <1>2, <1>7, <1>9, <1>10
<1>12. Buried(e) /\ Kept(e, old)
  BY <1>6, <1>7, <1>11, FoldedKept
<1>13. missed' = [missed EXCEPT ![m] = old]
  BY <1>4, <1>5, <1>8
<1> QED
  BY <1>5, <1>6, <1>7, <1>12, <1>13, StepKeeps

LEMMA RestartKeeps ==
    ASSUME HeardInv, FoldInv, NEW m \in Engines, Restart(m)
    PROVE  FoldInv'
<1>1. PICK d : d = engine[m]
  OBVIOUS
<1>2. PICK e : e = [d EXCEPT !.set = Raised(d)]
  OBVIOUS
<1>3. /\ d \in EngineType /\ Coherent(d) /\ engine \in [Engines -> EngineType]
      /\ missed \in [Engines -> SUBSET Blocks]
  BY <1>1, HeardParts DEF Sound, Histories
<1>4. PICK old : old = missed[m]
  OBVIOUS
<1>5. /\ engine' = [engine EXCEPT ![m] = e] /\ missed' = [missed EXCEPT ![m] = old]
      /\ net' = net /\ now' = now
  BY <1>1, <1>2, <1>3, <1>4 DEF Restart
<1>6. e.mark = d.mark
  BY <1>2, <1>3 DEF EngineType
<1>7. Buried(d) /\ Kept(d, old) /\ (d.mark > 0 => d.mark + FoldAfter <= now)
  BY <1>1, <1>4 DEF FoldInv, LagInv, KeptInv
<1>8. Buried(e) /\ Kept(e, old)
  BY <1>2, <1>3, <1>7, RaisedKept
<1> QED
  BY <1>5, <1>6, <1>7, <1>8, StepKeeps

LEMMA QuietKeeps ==
    ASSUME HeardInv, FoldInv, Tick \/ UNCHANGED vars
    PROVE  FoldInv'
<1>1. engine' = engine /\ net' = net /\ missed' = missed
  BY DEF Tick, vars
<1>2. /\ now \in 0..MaxNow /\ MaxTrip \in Nat /\ FoldAfter \in Nat
      /\ \A f \in net : f.sent \in 0..MaxNow
      /\ \A m \in Engines : engine[m].mark \in 0..MaxNow
  BY HeardParts, MembershipAssumption DEF NetType, EngineType
<1>3. now' = now \/ (now' = now + 1 /\ \A f \in net : now < f.sent + MaxTrip)
  BY DEF Tick, vars
<1>4. LagInv'
  BY <1>1, <1>2, <1>3 DEF FoldInv, LagInv
<1>5. KeptInv'
  BY <1>1 DEF FoldInv, KeptInv
<1> QED
  BY <1>4, <1>5 DEF FoldInv

LEMMA FoldInit == Init => FoldInv
<1> SUFFICES ASSUME Init
             PROVE  FoldInv
  OBVIOUS
<1> DEFINE founder == [Stranger EXCEPT !.knows = TRUE]
<1>1. PICK first : first = founder
  OBVIOUS
<1>2. PICK e : e = Taken(first, Founding)
  OBVIOUS
<1>3. /\ Owner \in Engines /\ engine[Owner] = e /\ net = {} /\ now = 0
      /\ \A m \in Engines : m # Owner => engine[m] = Stranger
      /\ \A m \in Engines : missed[m] = {}
  BY <1>1, <1>2, MembershipAssumption DEF Init
<1>4. first \in EngineType /\ Coherent(first) /\ Founding \in Blocks
  BY <1>1, FoundingType DEF EngineType, Coherent
<1>5. /\ first.log = {} /\ first.rows = {} /\ first.mark = 0 /\ first.off = {}
      /\ first.set.adds = {} /\ first.set.tombs = {}
  BY <1>1 DEF Stranger, Restored
<1>6. /\ Stranger.log = {} /\ Stranger.rows = {} /\ Stranger.mark = 0 /\ Stranger.off = {}
      /\ Stranger.set.adds = {} /\ Stranger.set.tombs = {}
  BY DEF Stranger, Restored
<1>7. Founding.kind = "add" /\ \A t \in Founding.tags : t.at >= 0
  BY DEF Founding, Block, FirstTag
<1>8. \A d, old : d.log = {} => Stay(d, old) = {}
  BY DEF Stay, InTime
<1>9. /\ Buried(first) /\ Buried(Stranger)
      /\ \A old : Kept(first, old) /\ Kept(Stranger, old)
  BY <1>5, <1>6, <1>8 DEF Buried, Kept
<1>10. PICK none : none = {}
  OBVIOUS
<1>11. Buried(e) /\ Kept(e, none) /\ e.mark = 0
  BY <1>2, <1>4, <1>5, <1>7, <1>9, TakenKept, TakenType
<1>12. KeptInv
  BY <1>3, <1>9, <1>10, <1>11 DEF KeptInv
<1>13. LagInv
  BY <1>3, <1>6, <1>11 DEF LagInv
<1> QED
  BY <1>12, <1>13 DEF FoldInv

LEMMA FoldNext ==
    ASSUME MaxTrip < FoldAfter, HeardInv, FoldInv, [Next]_vars
    PROVE  FoldInv'
<1>1. CASE \E m, x \in Engines : Invite(m, x)
  BY <1>1, InviteKeeps
<1>2. CASE \E x \in Engines : Evict(x)
  BY <1>2, EvictKeeps
<1>3. CASE \E m \in Engines : Leave(m)
  BY <1>3, LeaveKeeps
<1>4. CASE \E m \in Engines : Fold(m)
  BY <1>4, FoldKeeps
<1>5. CASE \E m \in Engines : Restart(m)
  BY <1>5, RestartKeeps
<1>6. CASE \E f \in net : Deliver(f)
  BY <1>6, DeliverKeeps
<1>7. CASE Tick \/ UNCHANGED vars
  BY <1>7, QuietKeeps
<1> QED
  BY <1>1, <1>2, <1>3, <1>4, <1>5, <1>6, <1>7 DEF Next

\* Folding takes nobody out of a roster whose addition came in time, if the mark
\* lags by more than the longest trip (fold_horizon, MEMBERSHIP_FOLD_AFTER_MS):
\* whenever each engine folds, restarts, leaves or is invited again.  Not in
\* time comes only a part of a history handed over that lies below the mark.
THEOREM FoldingLosesNobody ==
    ASSUME MaxTrip < FoldAfter
    PROVE  Spec => []NoneFoldedAway
<1>1. HeardInv /\ FoldInv => NoneFoldedAway
  <2>1. SUFFICES ASSUME FoldInv, NEW m \in Engines
                 PROVE  Stay(engine[m], missed[m]) \subseteq Roster(engine[m])
    BY DEF NoneFoldedAway, Stay, InTime, Gone
  <2> QED
    BY <2>1 DEF FoldInv, KeptInv, Kept, Roster, Elements
<1>2. HeardInv /\ FoldInv /\ [Next]_vars => FoldInv'
  BY FoldNext
<1> QED
  BY <1>1, <1>2, FoldInit, HeardAlways, PTL DEF Spec

-----------------------------------------------------------------------------
(* Agreement at rest, of engines that have not folded, as long as no       *)
(* changes crossed.  An engine counts                                      *)
(* itself in, by all that it has heard or will hear, only if that is all   *)
(* there is to hear: then two such engines that wait for nothing have one  *)
(* roster.                                                                 *)

\* All that m has heard or will hear.
Told(m) == engine[m].log \cup {f.block : f \in {g \in net : g.to = m}}

PairsOf(blocks, kind) == UNION {Pairs(b) : b \in {c \in blocks : c.kind = kind}}

ToldAdded(k) == PairsOf(Told(k), "add")
ToldBack(k) == PairsOf(Told(k), "remove")

In(k) == \E p \in ToldAdded(k) \ ToldBack(k) : p[1] = k

Whole(m) ==
    \A k \in Engines : ToldAdded(k) \subseteq ToldAdded(m) /\ ToldBack(k) \subseteq ToldBack(m)

Unfolded == \A m \in Engines : engine[m].mark = 0

RestInv ==
    ~crossed /\ Unfolded =>
        \A m \in Engines :
            /\ In(m) => Whole(m)
            /\ \A b \in Told(m) : /\ RemovalAllowed(b)
                                  /\ b.kind = "remove" /\ b.who = Owner
                                         => b \in engine[Owner].log

LEMMA PairsOfUnion ==
    ASSUME NEW S, NEW T, NEW kind
    PROVE  /\ PairsOf(S \cup T, kind) = PairsOf(S, kind) \cup PairsOf(T, kind)
           /\ S \subseteq T => PairsOf(S, kind) \subseteq PairsOf(T, kind)
BY Zenon DEF PairsOf

LEMMA PairsOfOne ==
    ASSUME NEW b, NEW kind
    PROVE  PairsOf({b}, kind) = IF b.kind = kind THEN Pairs(b) ELSE {}
<1>1. CASE b.kind = kind
  BY <1>1 DEF PairsOf
<1>2. CASE b.kind # kind
  BY <1>2 DEF PairsOf
<1> QED
  BY <1>1, <1>2

LEMMA PairsOfLog ==
    ASSUME NEW e
    PROVE  Added(e) = PairsOf(e.log, "add") /\ TakenBack(e) = PairsOf(e.log, "remove")
BY DEF Added, TakenBack, PairsOf

LEMMA FirstIsWho ==
    ASSUME NEW S, NEW kind, NEW p \in PairsOf(S, kind)
    PROVE  \E b \in S : b.kind = kind /\ p \in Pairs(b) /\ p[1] = b.who
BY DEF PairsOf, Pairs

\* What the log holds has been told.
LEMMA LogIsTold ==
    ASSUME NEW k \in Engines
    PROVE  /\ engine[k].log \subseteq Told(k)
           /\ Added(engine[k]) \subseteq ToldAdded(k)
           /\ TakenBack(engine[k]) \subseteq ToldBack(k)
<1>1. engine[k].log \subseteq Told(k)
  BY DEF Told
<1>2. PICK log : log = engine[k].log
  OBVIOUS
<1>3. PICK told : told = Told(k)
  OBVIOUS
<1>4. PairsOf(log, "add") \subseteq PairsOf(told, "add")
      /\ PairsOf(log, "remove") \subseteq PairsOf(told, "remove")
  BY <1>1, <1>2, <1>3, PairsOfUnion
<1>5. Added(engine[k]) = PairsOf(log, "add") /\ TakenBack(engine[k]) = PairsOf(log, "remove")
  BY <1>2, PairsOfLog
<1> QED
  BY <1>1, <1>3, <1>4, <1>5 DEF ToldAdded, ToldBack

\* Whoever knows all that is on its way has been told no more than it holds.
LEMMA InformedHolds ==
    ASSUME NEW k \in Engines, NEW kinds, NEW kind \in kinds, Informed(k, kinds)
    PROVE  PairsOf(Told(k), kind) = PairsOf(engine[k].log, kind)
<1>1. \A b \in Told(k) : b.kind = kind => b \in engine[k].log
  BY DEF Told, Informed
<1> QED
  BY <1>1 DEF PairsOf, Told

LEMMA RosterHeard ==
    ASSUME HeardInv, Unfolded, NEW k \in Engines
    PROVE  /\ engine[k].set.adds = Added(engine[k]) \ TakenBack(engine[k])
           /\ Roster(engine[k]) = {p[1] : p \in Added(engine[k]) \ TakenBack(engine[k])}
BY DEF HeardInv, Heard, Unfolded, Roster, Elements

\* Pairs of what is told before and of what is told in addition.
GrewBy(k, S, T) == Told(k)' = (Told(k) \cup S) \cup T

LEMMA ToldMore ==
    ASSUME NEW k \in Engines, NEW S, NEW T, GrewBy(k, S, T)
    PROVE  /\ ToldAdded(k)' = (ToldAdded(k) \cup PairsOf(S, "add")) \cup PairsOf(T, "add")
           /\ ToldBack(k)' = (ToldBack(k) \cup PairsOf(S, "remove")) \cup PairsOf(T, "remove")
<1>0. Told(k)' = (Told(k) \cup S) \cup T
  BY DEF GrewBy
<1>1. PICK told : told = Told(k)
  OBVIOUS
<1>2. ASSUME NEW kind
      PROVE  PairsOf((told \cup S) \cup T, kind)
                 = (PairsOf(told, kind) \cup PairsOf(S, kind)) \cup PairsOf(T, kind)
  <2>1. PairsOf((told \cup S) \cup T, kind) = PairsOf(told \cup S, kind) \cup PairsOf(T, kind)
    BY PairsOfUnion
  <2>2. PairsOf(told \cup S, kind) = PairsOf(told, kind) \cup PairsOf(S, kind)
    BY PairsOfUnion
  <2> QED
    BY <2>1, <2>2
<1>3. PICK next : next = Told(k)'
  OBVIOUS
<1>4. PairsOf(next, "add") = (PairsOf(told, "add") \cup PairsOf(S, "add")) \cup PairsOf(T, "add")
  BY <1>0, <1>1, <1>2, <1>3
<1>5. PairsOf(next, "remove")
          = (PairsOf(told, "remove") \cup PairsOf(S, "remove")) \cup PairsOf(T, "remove")
  BY <1>0, <1>1, <1>2, <1>3
<1>6. ToldAdded(k)' = PairsOf(next, "add") /\ ToldBack(k)' = PairsOf(next, "remove")
  BY <1>3 DEF ToldAdded, ToldBack
<1> QED
  BY <1>1, <1>4, <1>5, <1>6 DEF ToldAdded, ToldBack

\* Who is told what by a change of m.
LEMMA ChangeTold ==
    ASSUME HeardInv, NEW m \in Engines, NEW b \in Blocks, NEW to, NEW more, NEW blocks,
           engine' = [engine EXCEPT ![m] = Taken(engine[m], b)],
           net' = net \cup Frames(to, {b}) \cup Frames(more, blocks),
           NEW k \in Engines
    PROVE  /\ Told(k)' = (Told(k) \cup (IF k = m \/ k \in to THEN {b} ELSE {}))
                             \cup (IF k \in more THEN blocks ELSE {})
           /\ engine'[k].mark = engine[k].mark
           /\ engine[k].log \subseteq engine'[k].log
<1>1. /\ Taken(engine[m], b).log = engine[m].log \cup {b}
      /\ Taken(engine[m], b).mark = engine[m].mark
      /\ engine \in [Engines -> EngineType]
  BY HeardParts, TakenType DEF Sound
<1>2. engine'[k].log = engine[k].log \cup (IF k = m THEN {b} ELSE {})
  BY <1>1
<1>3. ASSUME NEW c
      PROVE  (\E f \in net' : f.to = k /\ f.block = c)
                 <=> \/ \E f \in net : f.to = k /\ f.block = c
                     \/ k \in to /\ c = b
                     \/ k \in more /\ c \in blocks
  <2> DEFINE f == [to |-> k, block |-> c, sent |-> now]
  <2>1. f.to = k /\ f.block = c
    OBVIOUS
  <2>2. k \in to /\ c = b => f \in Frames(to, {b})
    BY DEF Frames
  <2>3. k \in more /\ c \in blocks => f \in Frames(more, blocks)
    BY DEF Frames
  <2>4. /\ \A g \in Frames(to, {b}) : g.to \in to /\ g.block = b
        /\ \A g \in Frames(more, blocks) : g.to \in more /\ g.block \in blocks
    BY FramesParts
  <2> HIDE DEF f
  <2>5. ASSUME \E g \in net' : g.to = k /\ g.block = c
        PROVE  \/ \E g \in net : g.to = k /\ g.block = c
               \/ k \in to /\ c = b
               \/ k \in more /\ c \in blocks
    <3>1. PICK g \in net' : g.to = k /\ g.block = c
      BY <2>5
    <3>2. g \in net \/ g \in Frames(to, {b}) \/ g \in Frames(more, blocks)
      BY <3>1
    <3> QED
      BY <2>4, <3>1, <3>2
  <2>6. (k \in to /\ c = b) \/ (k \in more /\ c \in blocks) => f \in net'
    BY <2>2, <2>3
  <2> QED
    BY <2>1, <2>5, <2>6
<1>4. Told(k)' = (Told(k) \cup (IF k = m \/ k \in to THEN {b} ELSE {}))
                     \cup (IF k \in more THEN blocks ELSE {})
  <2>1. \A c : c \in Told(k) <=> c \in engine[k].log \/ \E f \in net : f.to = k /\ f.block = c
    BY DEF Told
  <2>2. \A c : c \in Told(k)' <=> c \in engine'[k].log \/ \E f \in net' : f.to = k /\ f.block = c
    BY DEF Told
  <2> QED
    BY <1>2, <1>3, <2>1, <2>2
<1> QED
  BY <1>1, <1>2, <1>4

\* Everything there is lies in one pair of sets, and these are told to k.
LEMMA WholeNext ==
    ASSUME NEW A, NEW R, NEW k \in Engines,
           \A j \in Engines : ToldAdded(j)' \subseteq A /\ ToldBack(j)' \subseteq R,
           A \subseteq ToldAdded(k)', R \subseteq ToldBack(k)'
    PROVE  Whole(k)'
<1>1. \A j \in Engines : ToldAdded(j)' \subseteq ToldAdded(k)' /\ ToldBack(j)' \subseteq ToldBack(k)'
  OBVIOUS
<1> QED
  BY <1>1 DEF Whole

LEMMA InviteRest ==
    ASSUME HeardInv, RestInv, NEW m \in Engines, NEW x \in Engines, Invite(m, x)
    PROVE  RestInv'
<1> DEFINE block == Block("add", m, x, {[at |-> now, by |-> m, n |-> ops + 1]})
<1>1. PICK b : b = block
  OBVIOUS
<1>2. PICK e : e = Taken(engine[m], b)
  OBVIOUS
<1>3. /\ Sound(engine[m]) /\ now \in 0..MaxNow /\ ops \in 0..MaxOps
      /\ engine \in [Engines -> EngineType] /\ m \in Engines
  BY HeardParts
<1>4. b.kind = "add" /\ b.who = x /\ b \in Blocks /\ RemovalAllowed(b)
  BY <1>1, <1>3 DEF Block, Blocks, Tags, RemovalAllowed
<1>5. PICK to : to = Roster(e) \ {m, x}
  OBVIOUS
<1>6. PICK blocks : blocks = e.log \cup {Intro}
  OBVIOUS
<1>7. /\ engine' = [engine EXCEPT ![m] = Taken(engine[m], b)]
      /\ net' = net \cup Frames(to, {b}) \cup Frames({x}, blocks)
      /\ m \in Roster(engine[m])
  BY <1>1, <1>2, <1>5, <1>6, <1>3, Zenon DEF Invite, CanChange
<1> HIDE DEF block
<1>8. \A k \in Engines :
          /\ Told(k)' = (Told(k) \cup (IF k = m \/ k \in to THEN {b} ELSE {}))
                            \cup (IF k \in {x} THEN blocks ELSE {})
          /\ engine'[k].mark = engine[k].mark
          /\ engine[k].log \subseteq engine'[k].log
  BY <1>4, <1>7, ChangeTold
<1>9. e.log = engine[m].log \cup {b}
  BY <1>2, <1>3, <1>4, TakenType DEF Sound
<1> SUFFICES ASSUME ~crossed', Unfolded'
             PROVE  \A k \in Engines :
                        /\ In(k)' => Whole(k)'
                        /\ \A c \in Told(k)' : /\ RemovalAllowed(c)
                                               /\ c.kind = "remove" /\ c.who = Owner
                                                     => c \in engine'[Owner].log
  BY DEF RestInv
<1>i. ~crossed /\ Informed(m, {"add", "remove"})
  BY DEF Invite
<1>10. Unfolded
  BY <1>8 DEF Unfolded
<1>11. \A k \in Engines : In(k) => Whole(k)
  BY <1>10, <1>i DEF RestInv
<1>12. PICK A : A = Added(engine[m])
  OBVIOUS
<1>13. PICK R : R = TakenBack(engine[m])
  OBVIOUS
<1>14. ToldAdded(m) = A /\ ToldBack(m) = R
  BY <1>3, <1>i, <1>12, <1>13, InformedHolds, PairsOfLog DEF ToldAdded, ToldBack
<1>15. /\ engine[m].set.adds = A \ R
       /\ Roster(engine[m]) = {p[1] : p \in A \ R}
  BY <1>10, <1>12, <1>13, RosterHeard
<1>16. Whole(m)
  BY <1>7, <1>11, <1>14, <1>15 DEF In
<1>17. \A k \in Engines : ToldAdded(k) \subseteq A /\ ToldBack(k) \subseteq R
  BY <1>14, <1>16 DEF Whole
<1>18. /\ PairsOf({b}, "add") = Pairs(b) /\ PairsOf({b}, "remove") = {}
       /\ PairsOf({}, "add") = {} /\ PairsOf({}, "remove") = {}
       /\ PairsOf({Intro}, "add") = {} /\ PairsOf({Intro}, "remove") = {}
  BY <1>4, PairsOfOne DEF PairsOf, Intro, Block
<1>19. PairsOf(blocks, "add") = A \cup Pairs(b) /\ PairsOf(blocks, "remove") = R
  <2>1. PICK log : log = engine[m].log
    OBVIOUS
  <2>2. A = PairsOf(log, "add") /\ R = PairsOf(log, "remove")
    BY <1>12, <1>13, <2>1, PairsOfLog
  <2>3. blocks = (log \cup {b}) \cup {Intro}
    BY <1>6, <1>9, <2>1
  <2>4. ASSUME NEW kind
        PROVE  PairsOf(blocks, kind)
                   = (PairsOf(log, kind) \cup PairsOf({b}, kind)) \cup PairsOf({Intro}, kind)
    <3>1. PairsOf(blocks, kind) = PairsOf(log \cup {b}, kind) \cup PairsOf({Intro}, kind)
      BY <2>3, PairsOfUnion
    <3>2. PairsOf(log \cup {b}, kind) = PairsOf(log, kind) \cup PairsOf({b}, kind)
      BY PairsOfUnion
    <3> QED
      BY <3>1, <3>2
  <2> QED
    BY <1>18, <2>2, <2>4
<1>20. ASSUME NEW k \in Engines
       PROVE  /\ ToldAdded(k)' = (ToldAdded(k) \cup (IF k = m \/ k \in to THEN Pairs(b) ELSE {}))
                                     \cup (IF k = x THEN A \cup Pairs(b) ELSE {})
              /\ ToldBack(k)' = ToldBack(k) \cup (IF k = x THEN R ELSE {})
  <2>1. PICK S : S = IF k = m \/ k \in to THEN {b} ELSE {}
    OBVIOUS
  <2>2. PICK T : T = IF k = x THEN blocks ELSE {}
    OBVIOUS
  <2>3. GrewBy(k, S, T)
    BY <1>8, <2>1, <2>2 DEF GrewBy
  <2>4. /\ PairsOf(S, "add") = IF k = m \/ k \in to THEN Pairs(b) ELSE {}
        /\ PairsOf(S, "remove") = {}
    BY <1>18, <2>1
  <2>5. /\ PairsOf(T, "add") = IF k = x THEN A \cup Pairs(b) ELSE {}
        /\ PairsOf(T, "remove") = IF k = x THEN R ELSE {}
    BY <1>18, <1>19, <2>2
  <2>6. /\ ToldAdded(k)' = (ToldAdded(k) \cup PairsOf(S, "add")) \cup PairsOf(T, "add")
        /\ ToldBack(k)' = (ToldBack(k) \cup PairsOf(S, "remove")) \cup PairsOf(T, "remove")
    BY <2>3, ToldMore
  <2> QED
    BY <2>4, <2>5, <2>6
<1>21. \A k \in Engines : ToldAdded(k)' \subseteq A \cup Pairs(b) /\ ToldBack(k)' \subseteq R
  BY <1>17, <1>20
<1>22. ASSUME NEW k \in Engines, In(k)'
       PROVE  Whole(k)'
  <2>1. CASE k = m \/ k = x
    <3>1. A \cup Pairs(b) \subseteq ToldAdded(k)' /\ R \subseteq ToldBack(k)'
      BY <1>14, <1>20, <2>1
    <3> QED
      BY <1>21, <3>1, WholeNext
  <2>2. CASE k # m /\ k # x
    <3>1. PICK p \in ToldAdded(k)' \ ToldBack(k)' : p[1] = k
      BY <1>22 DEF In
    <3>2. \A q \in Pairs(b) : q[1] = x
      BY <1>4 DEF Pairs
    <3>3. p \in ToldAdded(k) \ ToldBack(k)
      BY <1>20, <2>2, <3>1, <3>2
    <3>4. Whole(k)
      BY <1>11, <3>1, <3>3 DEF In
    <3>5. A \subseteq ToldAdded(k) /\ R \subseteq ToldBack(k)
      BY <1>14, <3>4 DEF Whole
    <3>6. k \in Roster(e)
      <4>1. p \in engine[m].set.adds
        BY <1>15, <1>17, <3>3, <3>5
      <4>2. e.set = Applied(engine[m].set, b) /\ engine[m].set \in Sets
        BY <1>2, <1>3, <1>4, TakenParts DEF Sound, EngineType
      <4>3. p \in e.set.adds
        BY <1>4, <4>1, <4>2 DEF Applied, Sets
      <4> QED
        BY <3>1, <4>3 DEF Roster, Elements
    <3>7. A \cup Pairs(b) \subseteq ToldAdded(k)' /\ R \subseteq ToldBack(k)'
      BY <1>5, <1>20, <2>2, <3>5, <3>6
    <3> QED
      BY <1>21, <3>7, WholeNext
  <2> QED
    BY <2>1, <2>2
<1>23. ASSUME NEW k \in Engines, NEW c \in Told(k)'
       PROVE  /\ RemovalAllowed(c)
              /\ c.kind = "remove" /\ c.who = Owner => c \in engine'[Owner].log
  <2>1. c = b \/ c = Intro \/ c \in Told(k) \/ c \in Told(m)
    <3>1. engine[m].log \subseteq Told(m)
      BY LogIsTold
    <3> QED
      BY <1>6, <1>8, <1>9, <1>23, <3>1
  <2>2. CASE c = b
    BY <1>4, <2>2
  <2>3. CASE c = Intro
    BY <2>3 DEF Intro, Block, RemovalAllowed
  <2>4. CASE c \in Told(k) \/ c \in Told(m)
    <3>1. /\ RemovalAllowed(c)
          /\ c.kind = "remove" /\ c.who = Owner => c \in engine[Owner].log
      BY <1>10, <1>i, <2>4 DEF RestInv
    <3> QED
      BY <1>8, <3>1, MembershipAssumption
  <2> QED
    BY <2>1, <2>2, <2>3, <2>4
<1> QED
  BY <1>22, <1>23

LEMMA RemovalTold ==
    ASSUME HeardInv, NEW m \in Engines, NEW b \in Blocks, NEW to,
           engine' = [engine EXCEPT ![m] = Taken(engine[m], b)],
           net' = net \cup Frames(to, {b}),
           NEW k \in Engines
    PROVE  /\ Told(k)' = Told(k) \cup (IF k = m \/ k \in to THEN {b} ELSE {})
           /\ engine'[k].mark = engine[k].mark
           /\ engine[k].log \subseteq engine'[k].log
<1>1. PICK none : none = {}
  OBVIOUS
<1>2. Frames(none, none) = {}
  BY <1>1 DEF Frames
<1>3. net' = net \cup Frames(to, {b}) \cup Frames(none, none)
  BY <1>2
<1>4. /\ Told(k)' = (Told(k) \cup (IF k = m \/ k \in to THEN {b} ELSE {}))
                         \cup (IF k \in none THEN none ELSE {})
      /\ engine'[k].mark = engine[k].mark
      /\ engine[k].log \subseteq engine'[k].log
  BY <1>3, ChangeTold
<1> QED
  BY <1>1, <1>4

LEMMA RemovalRest ==
    ASSUME HeardInv, RestInv, NEW m \in Engines, NEW x \in Engines,
           NEW to \in SUBSET Engines,
           NEW b \in Blocks, b.kind = "remove", b.who = x, b.by = m,
           b.tags = Observed(engine[m].set, x),
           engine' = [engine EXCEPT ![m] = Taken(engine[m], b)],
           net' = net \cup Frames(to, {b}),
           Roster(engine[m]) \subseteq to \cup {m},
           ~crossed' => ~crossed /\ Informed(m, {"add"}),
           RemovalAllowed(b), x = Owner => m = Owner,
           ~crossed /\ Unfolded => In(m) \/ x = m
    PROVE  RestInv'
<1>1. Sound(engine[m]) /\ engine \in [Engines -> EngineType] /\ Owner \in Engines
  BY HeardParts, MembershipAssumption
<1>2. b.kind = "remove" /\ b.who = x /\ b.by = m /\ b \in Blocks
      /\ b.tags = Observed(engine[m].set, x)
  OBVIOUS
<1>5. \A k \in Engines :
          /\ Told(k)' = Told(k) \cup (IF k = m \/ k \in to THEN {b} ELSE {})
          /\ engine'[k].mark = engine[k].mark
          /\ engine[k].log \subseteq engine'[k].log
  BY RemovalTold
<1> SUFFICES ASSUME ~crossed', Unfolded'
             PROVE  \A k \in Engines :
                        /\ In(k)' => Whole(k)'
                        /\ \A c \in Told(k)' : /\ RemovalAllowed(c)
                                               /\ c.kind = "remove" /\ c.who = Owner
                                                     => c \in engine'[Owner].log
  BY DEF RestInv
<1>6. ~crossed /\ Unfolded /\ Informed(m, {"add"})
  BY <1>5 DEF Unfolded
<1>7. \A k \in Engines : In(k) => Whole(k)
  BY <1>6 DEF RestInv
<1>8. PairsOf({b}, "add") = {} /\ PairsOf({b}, "remove") = Pairs(b)
      /\ PairsOf({}, "add") = {} /\ PairsOf({}, "remove") = {}
  BY <1>2, PairsOfOne DEF PairsOf
<1>9. ASSUME NEW k \in Engines
      PROVE  /\ ToldAdded(k)' = ToldAdded(k)
             /\ ToldBack(k)' = ToldBack(k) \cup (IF k = m \/ k \in to THEN Pairs(b) ELSE {})
  <2>1. PICK S : S = IF k = m \/ k \in to THEN {b} ELSE {}
    OBVIOUS
  <2>2. GrewBy(k, S, S)
    BY <1>5, <2>1 DEF GrewBy
  <2>3. /\ PairsOf(S, "add") = {}
        /\ PairsOf(S, "remove") = IF k = m \/ k \in to THEN Pairs(b) ELSE {}
    BY <1>8, <2>1
  <2>4. /\ ToldAdded(k)' = (ToldAdded(k) \cup PairsOf(S, "add")) \cup PairsOf(S, "add")
        /\ ToldBack(k)' = (ToldBack(k) \cup PairsOf(S, "remove")) \cup PairsOf(S, "remove")
    BY <2>2, ToldMore
  <2> QED
    BY <2>3, <2>4
<1>10. \A k \in Engines : In(k)' => In(k)
  BY <1>9 DEF In
<1>11. /\ engine[m].set.adds = Added(engine[m]) \ TakenBack(engine[m])
       /\ Roster(engine[m]) = {p[1] : p \in Added(engine[m]) \ TakenBack(engine[m])}
  BY <1>6, RosterHeard
<1>12. ToldAdded(m) = Added(engine[m]) /\ TakenBack(engine[m]) \subseteq ToldBack(m)
  BY <1>6, InformedHolds, PairsOfLog, LogIsTold DEF ToldAdded
<1>13. ASSUME In(m), NEW k \in Engines, In(k)'
       PROVE  Whole(k)'
  <2>1. Whole(k) /\ Whole(m) /\ In(k)
    BY <1>7, <1>10, <1>13
  <2>2. k = m \/ k \in to
    <3>1. PICK p \in ToldAdded(k) \ ToldBack(k) : p[1] = k
      BY <2>1 DEF In
    <3>2. p \in Added(engine[m]) /\ p \notin TakenBack(engine[m])
      BY <1>12, <2>1, <3>1 DEF Whole
    <3> QED
      BY <1>11, <3>1, <3>2
  <2>3. PICK A : A = ToldAdded(k)
    OBVIOUS
  <2>4. PICK R : R = ToldBack(k) \cup Pairs(b)
    OBVIOUS
  <2>5. \A j \in Engines : ToldAdded(j)' \subseteq A /\ ToldBack(j)' \subseteq R
    BY <1>9, <2>1, <2>3, <2>4 DEF Whole
  <2>6. A \subseteq ToldAdded(k)' /\ R \subseteq ToldBack(k)'
    BY <1>9, <2>2, <2>3, <2>4
  <2> QED
    BY <2>5, <2>6, WholeNext
<1>14. ASSUME ~In(m), NEW k \in Engines, In(k)'
       PROVE  Whole(k)'
  <2>1. Whole(k) /\ x = m
    BY <1>6, <1>7, <1>10, <1>14
  <2>2. Pairs(b) \subseteq ToldBack(m)
    <3>1. SUFFICES ASSUME NEW p \in Pairs(b)
                   PROVE  p \in ToldBack(m)
      OBVIOUS
    <3>2. p[1] = m
      BY <1>2, <2>1, <3>1 DEF Pairs
    <3>3. p \in engine[m].set.adds
      <4>1. PICK t \in b.tags : p = <<b.who, t>>
        BY <3>1 DEF Pairs
      <4>2. PICK q \in engine[m].set.adds : q[1] = x /\ q[2] = t
        BY <1>2, <4>1 DEF Observed
      <4>3. q = <<q[1], q[2]>>
        BY <1>1, <4>2 DEF EngineType, Sets
      <4> QED
        BY <1>2, <4>1, <4>2, <4>3
    <3> QED
      BY <1>11, <1>12, <1>14, <3>2, <3>3 DEF In
  <2>3. PICK A : A = ToldAdded(k)
    OBVIOUS
  <2>4. PICK R : R = ToldBack(k)
    OBVIOUS
  <2>5. \A j \in Engines : ToldAdded(j) \subseteq A /\ ToldBack(j) \subseteq R
    BY <2>1, <2>3, <2>4 DEF Whole
  <2>6. \A j \in Engines : ToldAdded(j)' \subseteq A /\ ToldBack(j)' \subseteq R
    BY <1>9, <2>2, <2>5
  <2>7. A \subseteq ToldAdded(k)' /\ R \subseteq ToldBack(k)'
    BY <1>9, <2>3, <2>4
  <2> QED
    BY <2>6, <2>7, WholeNext
<1>15. ASSUME NEW k \in Engines, NEW c \in Told(k)'
       PROVE  /\ RemovalAllowed(c)
              /\ c.kind = "remove" /\ c.who = Owner => c \in engine'[Owner].log
  <2>1. CASE c = b
    <3>1. Taken(engine[m], b).log = engine[m].log \cup {b}
      BY <1>1, <1>2, TakenType DEF Sound
    <3>2. x = Owner => b \in engine'[Owner].log
      BY <1>1, <3>1
    <3> QED
      BY <1>2, <2>1, <3>2
  <2>2. CASE c # b
    <3>1. c \in Told(k)
      BY <1>5, <1>15, <2>2
    <3>2. /\ RemovalAllowed(c)
          /\ c.kind = "remove" /\ c.who = Owner => c \in engine[Owner].log
      BY <1>6, <3>1 DEF RestInv
    <3> QED
      BY <1>1, <1>5, <3>2
  <2> QED
    BY <2>1, <2>2
<1> QED
  BY <1>13, <1>14, <1>15

LEMMA EvictRest ==
    ASSUME HeardInv, RestInv, NEW x \in Engines, Evict(x)
    PROVE  RestInv'
<1> DEFINE block == Block("remove", Owner, x, Observed(engine[Owner].set, x))
<1>1. PICK b : b = block
  OBVIOUS
<1>2. PICK to : to = (Roster(Taken(engine[Owner], block)) \ {Owner}) \cup {x}
  OBVIOUS
<1>3. Owner \in Engines /\ Sound(engine[Owner])
  BY MembershipAssumption, HeardParts
<1>4. b \in Blocks /\ b.kind = "remove" /\ b.who = x /\ b.by = Owner
  BY <1>1, <1>3, ObservedType DEF Sound, Block, Blocks
<1>5. /\ engine' = [engine EXCEPT ![Owner] = Taken(engine[Owner], b)]
      /\ net' = net \cup Frames(to, {b})
      /\ x # Owner /\ Owner \in Roster(engine[Owner])
  BY <1>1, <1>2, Zenon DEF Evict, CanChange
<1>6. to \in SUBSET Engines /\ Roster(engine[Owner]) \subseteq to \cup {Owner}
  <2>1. /\ engine[Owner].set \in Sets
        /\ Taken(engine[Owner], b).set = Applied(engine[Owner].set, b)
    BY <1>3, <1>4, TakenParts DEF Sound, EngineType
  <2>2. Taken(engine[Owner], b).set.adds = engine[Owner].set.adds \ Pairs(b)
    BY <1>4, <2>1 DEF Applied, Sets
  <2>3. \A p \in Pairs(b) : p[1] = x
    BY <1>4 DEF Pairs
  <2>4. to = (Roster(Taken(engine[Owner], b)) \ {Owner}) \cup {x}
    BY <1>1, <1>2
  <2>5. Roster(engine[Owner]) \subseteq to \cup {Owner}
    BY <2>2, <2>3, <2>4 DEF Roster, Elements
  <2>6. Roster(Taken(engine[Owner], b)) \subseteq Engines
    BY <1>3, <1>4, TakenSound, RosterType DEF Sound
  <2> QED
    BY <2>4, <2>5, <2>6
<1>c. ~crossed' => ~crossed /\ Informed(Owner, {"add"})
  BY DEF Evict
<1>7. ~crossed /\ Unfolded => In(Owner)
  <2>1. SUFFICES ASSUME ~crossed, Unfolded
                 PROVE  In(Owner)
    OBVIOUS
  <2>2. PICK p \in Added(engine[Owner]) \ TakenBack(engine[Owner]) : p[1] = Owner
    BY <1>3, <1>5, <2>1, RosterHeard
  <2>3. p \in ToldAdded(Owner)
    BY <1>3, <2>2, LogIsTold
  <2>4. ASSUME p \in ToldBack(Owner)
        PROVE  FALSE
    <3>1. PICK c \in Told(Owner) : c.kind = "remove" /\ p \in Pairs(c) /\ p[1] = c.who
      BY <2>4, FirstIsWho DEF ToldBack
    <3>2. c \in engine[Owner].log
      BY <1>3, <2>1, <2>2, <3>1 DEF RestInv
    <3> QED
      BY <2>2, <3>1, <3>2 DEF TakenBack
  <2> QED
    BY <2>2, <2>3, <2>4 DEF In
<1>8. RemovalAllowed(b) /\ b.tags = Observed(engine[Owner].set, x)
  BY <1>1, <1>4 DEF RemovalAllowed, Block
<1> HIDE DEF block
<1> QED
  BY <1>3, <1>4, <1>5, <1>6, <1>7, <1>8, <1>c, RemovalRest

LEMMA LeaveRest ==
    ASSUME HeardInv, RestInv, NEW m \in Engines, Leave(m)
    PROVE  RestInv'
<1> DEFINE block == Block("remove", m, m, Observed(engine[m].set, m))
<1>1. PICK b : b = block
  OBVIOUS
<1>2. PICK to : to = Roster(engine[m]) \ {m}
  OBVIOUS
<1>3. /\ engine' = [engine EXCEPT ![m] = Taken(engine[m], b)]
      /\ net' = net \cup Frames(to, {b})
  BY <1>1, <1>2, HeardParts, Zenon DEF Leave
<1>c. ~crossed' => ~crossed /\ Informed(m, {"add"})
  BY DEF Leave
<1>4. to \in SUBSET Engines /\ Roster(engine[m]) \subseteq to \cup {m}
  BY <1>2, HeardParts, RosterType DEF Sound
<1>5. /\ RemovalAllowed(b) /\ b.kind = "remove" /\ b.who = m /\ b.by = m
      /\ b.tags = Observed(engine[m].set, m)
  BY <1>1 DEF RemovalAllowed, Block
<1>6. b \in Blocks
  BY <1>1, HeardParts, ObservedType DEF Sound, Block, Blocks
<1> HIDE DEF block
<1> QED
  BY <1>3, <1>4, <1>5, <1>6, <1>c, RemovalRest

\* A step after which everybody is told of the same changes, in logs no shorter.
LEMMA SameTold ==
    ASSUME HeardInv, RestInv, ~crossed' /\ Unfolded' => ~crossed /\ Unfolded,
           ~crossed /\ Unfolded => \A k \in Engines :
               /\ \A c : c.kind \in {"add", "remove"} => (c \in Told(k)' <=> c \in Told(k))
               /\ \A c \in Told(k)' : c.kind \in {"add", "remove"} \/ c = Intro
               /\ engine[k].log \subseteq engine'[k].log
    PROVE  RestInv'
<1> SUFFICES ASSUME ~crossed', Unfolded', ~crossed, Unfolded
             PROVE  \A k \in Engines :
                        /\ In(k)' => Whole(k)'
                        /\ \A c \in Told(k)' : /\ RemovalAllowed(c)
                                               /\ c.kind = "remove" /\ c.who = Owner
                                                     => c \in engine'[Owner].log
  BY DEF RestInv
<1>1. \A k \in Engines : ToldAdded(k)' = ToldAdded(k) /\ ToldBack(k)' = ToldBack(k)
  <2>1. SUFFICES ASSUME NEW k \in Engines
                 PROVE  ToldAdded(k)' = ToldAdded(k) /\ ToldBack(k)' = ToldBack(k)
    OBVIOUS
  <2>2. /\ {c \in Told(k)' : c.kind = "add"} = {c \in Told(k) : c.kind = "add"}
        /\ {c \in Told(k)' : c.kind = "remove"} = {c \in Told(k) : c.kind = "remove"}
    OBVIOUS
  <2> QED
    BY <2>2 DEF ToldAdded, ToldBack, PairsOf
<1>2. \A k \in Engines : (In(k)' <=> In(k)) /\ (Whole(k)' <=> Whole(k))
  BY <1>1 DEF In, Whole
<1>3. ASSUME NEW k \in Engines, NEW c \in Told(k)'
      PROVE  /\ RemovalAllowed(c)
             /\ c.kind = "remove" /\ c.who = Owner => c \in engine'[Owner].log
  <2>1. CASE c = Intro
    BY <2>1 DEF Intro, Block, RemovalAllowed
  <2>2. CASE c # Intro
    <3>1. c \in Told(k)
      BY <1>3, <2>2
    <3> QED
      BY <3>1, MembershipAssumption DEF RestInv
  <2> QED
    BY <2>1, <2>2
<1> QED
  BY <1>2, <1>3 DEF RestInv

\* A block that arrives goes where the rest of what was told is.
LEMMA DeliverRest ==
    ASSUME HeardInv, RestInv, NEW f \in net, Deliver(f)
    PROVE  RestInv'
<1>m. PICK m : m = f.to
  OBVIOUS
<1>1. /\ net' = net \ {f} /\ m \in Engines /\ f.block \in Blocks \cup {Intro}
      /\ engine \in [Engines -> EngineType]
      /\ Introduced(m, f) \/ TakeBlock(m, f)
  BY <1>m, HeardParts DEF Deliver, NetType
<1>2. f.block \in Told(m)
  BY <1>m DEF Told
<1>3. \A k \in Engines : \A c \in Told(k) : c \in Blocks \cup {Intro}
  BY <1>1, HeardParts DEF Told, EngineType, NetType
<1>4. ASSUME f.block # Intro
      PROVE  /\ Taken(engine[m], f.block).log = engine[m].log \cup {f.block}
             /\ Taken(engine[m], f.block).mark = engine[m].mark
  BY <1>1, <1>4, HeardParts, TakenType DEF Sound
<1>5. \A k \in Engines : /\ engine'[k].mark = engine[k].mark
                         /\ engine[k].log \subseteq engine'[k].log
                         /\ engine'[k].log \subseteq engine[k].log \cup (IF k = m THEN {f.block} ELSE {})
  <2>1. CASE Introduced(m, f)
    BY <1>1, <2>1 DEF Introduced, EngineType
  <2>2. CASE TakeBlock(m, f)
    BY <1>1, <1>4, <2>2 DEF TakeBlock
  <2> QED
    BY <1>1, <2>1, <2>2
<1>6. crossed' = crossed /\ (Unfolded' => Unfolded)
  BY <1>5 DEF Unfolded, Deliver
<1>7. ASSUME ~crossed, Unfolded, f.block # Intro
      PROVE  f.block \in engine'[m].log
  <2>1. RemovalAllowed(f.block)
    BY <1>1, <1>2, <1>7 DEF RestInv
  <2>2. engine' = [engine EXCEPT ![m] = Taken(engine[m], f.block)]
    BY <1>1, <1>7, <2>1 DEF Introduced, TakeBlock
  <2> QED
    BY <1>1, <1>4, <1>7, <2>2
<1>8. ASSUME ~crossed, Unfolded, NEW k \in Engines
      PROVE  /\ \A c : c.kind \in {"add", "remove"} => (c \in Told(k)' <=> c \in Told(k))
             /\ \A c \in Told(k)' : c.kind \in {"add", "remove"} \/ c = Intro
             /\ engine[k].log \subseteq engine'[k].log
  <2>1. \A c : c \in Told(k) <=> c \in engine[k].log \/ \E g \in net : g.to = k /\ g.block = c
    BY DEF Told
  <2>2. \A c : c \in Told(k)' <=> c \in engine'[k].log \/ \E g \in net' : g.to = k /\ g.block = c
    BY DEF Told
  <2>3. \A c \in Told(k)' : c \in Told(k)
    BY <1>m, <1>1, <1>5, <2>1, <2>2
  <2>4. ASSUME NEW c \in Told(k), c.kind \in {"add", "remove"}
        PROVE  c \in Told(k)'
    <3>1. c # Intro
      BY <2>4 DEF Intro, Block
    <3>2. CASE c \in engine[k].log
      BY <1>5, <2>2, <3>2
    <3>3. CASE \E g \in net : g.to = k /\ g.block = c
      <4>1. PICK g \in net : g.to = k /\ g.block = c
        BY <3>3
      <4>2. CASE g = f
        BY <1>m, <1>7, <1>8, <2>2, <3>1, <4>1, <4>2
      <4>3. CASE g # f
        BY <1>1, <2>2, <4>1, <4>3
      <4> QED
        BY <4>2, <4>3
    <3> QED
      BY <2>1, <3>2, <3>3
  <2>5. \A c \in Told(k)' : c.kind \in {"add", "remove"} \/ c = Intro
    BY <1>3, <2>3 DEF Blocks
  <2> QED
    BY <1>5, <2>3, <2>4, <2>5
<1> QED
  BY <1>6, <1>8, SameTold

\* Once somebody folds, the claim is no longer about this run.
LEMMA FoldRest ==
    ASSUME HeardInv, RestInv, NEW m \in Engines, Fold(m)
    PROVE  RestInv'
<1>1. engine \in [Engines -> EngineType] /\ Sound(engine[m]) /\ now \in 0..MaxNow
  BY HeardParts
<1>2. Horizon(engine[m]) > engine[m].set.base
  BY DEF Fold
<1>3. engine'[m].mark = Horizon(engine[m])
  BY <1>1 DEF Fold, EngineType
<1>4. engine[m].set.base \in 0..MaxNow /\ Horizon(engine[m]) \in Int
  BY <1>1, MembershipAssumption DEF Sound, EngineType, Sets, Horizon
<1>5. engine'[m].mark # 0
  BY <1>2, <1>3, <1>4
<1> QED
  BY <1>5 DEF RestInv, Unfolded

\* Steps that touch no log and no frame.
LEMMA StillRest ==
    ASSUME HeardInv, RestInv, net' = net, crossed' = crossed,
           \A k \in Engines : engine'[k].log = engine[k].log /\ engine'[k].mark = engine[k].mark
    PROVE  RestInv'
<1>1. \A k \in Engines : Told(k)' = Told(k)
  BY DEF Told
<1>2. \A k \in Engines : \A c \in Told(k) : c.kind \in {"add", "remove"} \/ c = Intro
  BY HeardParts DEF Told, EngineType, NetType, Blocks
<1>3. Unfolded' => Unfolded
  BY DEF Unfolded
<1>4. ~crossed /\ Unfolded => \A k \in Engines :
          /\ \A c : c.kind \in {"add", "remove"} => (c \in Told(k)' <=> c \in Told(k))
          /\ \A c \in Told(k)' : c.kind \in {"add", "remove"} \/ c = Intro
          /\ engine[k].log \subseteq engine'[k].log
  BY <1>1, <1>2
<1> QED
  BY <1>3, <1>4, SameTold

LEMMA RestNext ==
    ASSUME HeardInv, RestInv, [Next]_vars
    PROVE  RestInv'
<1>1. CASE \E m, x \in Engines : Invite(m, x)
  BY <1>1, InviteRest
<1>2. CASE \E x \in Engines : Evict(x)
  BY <1>2, EvictRest
<1>3. CASE \E m \in Engines : Leave(m)
  BY <1>3, LeaveRest
<1>4. CASE \E m \in Engines : Fold(m)
  BY <1>4, FoldRest
<1>5. CASE \E m \in Engines : Restart(m)
  <2>1. engine \in [Engines -> EngineType]
    BY HeardParts
  <2>2. /\ net' = net /\ crossed' = crossed
        /\ \A k \in Engines : engine'[k].log = engine[k].log /\ engine'[k].mark = engine[k].mark
    BY <1>5, <2>1 DEF Restart, EngineType
  <2> QED
    BY <2>2, StillRest
<1>6. CASE \E f \in net : Deliver(f)
  BY <1>6, DeliverRest
<1>7. CASE Tick \/ UNCHANGED vars
  <2>1. engine' = engine /\ net' = net /\ crossed' = crossed
    BY <1>7 DEF Tick, vars
  <2> QED
    BY <2>1, StillRest
<1> QED
  BY <1>1, <1>2, <1>3, <1>4, <1>5, <1>6, <1>7 DEF Next

LEMMA RestInit == Init => RestInv
<1> SUFFICES ASSUME Init
             PROVE  RestInv
  OBVIOUS
<1> DEFINE founder == [Stranger EXCEPT !.knows = TRUE]
<1>1. PICK first : first = founder
  OBVIOUS
<1>2. PICK e : e = Taken(first, Founding)
  OBVIOUS
<1>3. /\ Owner \in Engines /\ engine[Owner] = e /\ net = {}
      /\ \A m \in Engines : m # Owner => engine[m] = Stranger
  BY <1>1, <1>2, MembershipAssumption DEF Init
<1>4. first \in EngineType /\ Coherent(first) /\ Founding \in Blocks
  BY <1>1, FoundingType DEF EngineType, Coherent
<1>5. first.log = {} /\ Stranger.log = {}
  BY <1>1 DEF Stranger
<1>6. Founding.kind = "add" /\ Founding.who = Owner
  BY DEF Founding, Block
<1>7. e.log = {Founding}
  <2>1. e.log = first.log \cup {Founding}
    BY <1>2, <1>4, TakenType
  <2> QED
    BY <1>5, <2>1
<1>8. Told(Owner) = {Founding} /\ \A m \in Engines : m # Owner => Told(m) = {}
  BY <1>3, <1>5, <1>7 DEF Told
<1>9. /\ PairsOf({}, "add") = {} /\ PairsOf({}, "remove") = {}
      /\ PairsOf({Founding}, "remove") = {}
  BY <1>6, PairsOfOne DEF PairsOf
<1>10. \A m \in Engines : /\ m # Owner => ToldAdded(m) = {}
                          /\ ToldBack(m) = {}
  BY <1>8, <1>9 DEF ToldAdded, ToldBack
<1>11. ASSUME NEW m \in Engines, In(m)
       PROVE  Whole(m)
  <2>1. m = Owner
    BY <1>10, <1>11 DEF In
  <2> QED
    BY <1>10, <2>1 DEF Whole
<1>12. \A m \in Engines : \A b \in Told(m) : RemovalAllowed(b) /\ b.kind # "remove"
  BY <1>6, <1>8 DEF RemovalAllowed
<1> QED
  BY <1>11, <1>12 DEF RestInv

\* Two members of a group at rest, neither folded, list the same people, if no
\* change crossed another on the way (hand_over_group gives the newcomer all
\* its author knows, on_evict_from_group tells all its author knows).
THEOREM RestingAgree == Spec => []AgreeAtRest
<1>1. HeardInv /\ RestInv => AgreeAtRest
  <2>1. SUFFICES ASSUME HeardInv, RestInv, net = {}, ~crossed, Unfolded, NEW m \in InGroup, NEW o \in InGroup
                 PROVE  Roster(engine[m]) = Roster(engine[o])
    BY DEF AgreeAtRest, Unfolded
  <2>2. ASSUME NEW k \in Engines
        PROVE  ToldAdded(k) = Added(engine[k]) /\ ToldBack(k) = TakenBack(engine[k])
    <3>1. Told(k) = engine[k].log
      BY <2>1 DEF Told
    <3> QED
      BY <3>1, PairsOfLog DEF ToldAdded, ToldBack
  <2>3. \A k \in Engines :
            Roster(engine[k]) = {p[1] : p \in ToldAdded(k) \ ToldBack(k)}
    BY <2>1, <2>2, RosterHeard
  <2>4. m \in Engines /\ o \in Engines /\ Whole(m) /\ Whole(o)
    BY <2>1, <2>3 DEF InGroup, In, RestInv
  <2>5. ToldAdded(m) = ToldAdded(o) /\ ToldBack(m) = ToldBack(o)
    BY <2>4 DEF Whole
  <2> QED
    BY <2>3, <2>4, <2>5
<1>2. HeardInv /\ RestInv /\ [Next]_vars => RestInv'
  BY RestNext
<1> QED
  BY <1>1, <1>2, RestInit, HeardAlways, PTL DEF Spec
=============================================================================
