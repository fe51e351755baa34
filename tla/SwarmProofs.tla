---------------------------- MODULE SwarmProofs ----------------------------
(***************************************************************************)
(* A block for one stays between its author and whom it names, in channels *)
(* of any size and shape, whatever is lost, restarted or asked for.  The   *)
(* invariant speaks of archives and of frames at once: a node archives     *)
(* what a frame brings, and a frame carries what an archive shows.         *)
(***************************************************************************)
EXTENDS Swarm, FiniteSetTheorems, TLAPS

AnyBlock == [author : Nodes, seq : Nat, to : Nodes \cup {Everyone}]

Mem == [held : SUBSET AnyBlock, seen : SUBSET AnyBlock, heard : BOOLEAN,
        attached : SUBSET Nodes, dialed : SUBSET Nodes,
        eager : SUBSET Nodes, lazy : SUBSET Nodes,
        awaited : SUBSET [block : AnyBlock, who : Nodes, asked : BOOLEAN],
        misses : [Nodes -> Nat], cooling : SUBSET Nodes]

Frames ==
    [kind : {"attach", "prune"}, src : Nodes, dst : Nodes]
    \cup [kind : {"block", "ihave", "graft"}, src : Nodes, dst : Nodes, block : AnyBlock]
    \cup [kind : {"have"}, src : Nodes, dst : Nodes, vector : SUBSET AnyBlock]
    \cup [kind : {"want"}, src : Nodes, dst : Nodes, author : Nodes, first : Nat, last : Nat]

\* May n have b?
Open(n, b) == IsWord(b) \/ n \in {b.author, b.to}

MemOK(n, me) == /\ me \in Mem
                /\ IsFiniteSet(me.held)
                /\ \A b \in me.held : Open(n, b)

FrameOK(f) == f \in Frames /\ (f.kind = "block" => Open(f.dst, f.block))

AddressInv ==
    /\ open \in BOOLEAN /\ known \subseteq Nodes /\ announced \subseteq Nodes
    /\ node \in [Nodes -> Mem]
    /\ \A n \in Nodes : MemOK(n, node[n])
    /\ \A f \in net : FrameOK(f)

-----------------------------------------------------------------------------
(* The pieces. *)

\* only sound frames come onto the net
Sends(out) == net' \subseteq net \cup out /\ \A f \in out : FrameOK(f)

LEMMA StepKeeps ==
    ASSUME AddressInv, NEW n \in Nodes, NEW me, MemOK(n, me), Becomes(n, me),
           NEW out, Sends(out), UNCHANGED <<open, known, announced>>
    PROVE  AddressInv'
<1>1. node' \in [Nodes -> Mem]
  BY DEF AddressInv, Becomes, MemOK
<1>2. \A m \in Nodes : MemOK(m, node'[m])
  BY DEF AddressInv, Becomes
<1>3. \A f \in net' : FrameOK(f)
  BY DEF AddressInv, Sends
<1>4. open' \in BOOLEAN /\ known' \subseteq Nodes /\ announced' \subseteq Nodes
  BY DEF AddressInv
<1> QED
  BY <1>1, <1>2, <1>3, <1>4 DEF AddressInv

LEMMA NetKeeps ==
    ASSUME AddressInv, UNCHANGED node, NEW out, Sends(out),
           open' = open, known' \subseteq known, announced' \subseteq announced
    PROVE  AddressInv'
<1>1. \A f \in net' : FrameOK(f)
  BY DEF AddressInv, Sends
<1> QED
  BY <1>1 DEF AddressInv

LEMMA PlainOK ==
    ASSUME NEW p \in Nodes, NEW q \in Nodes
    PROVE  FrameOK(Plain("attach", p, q)) /\ FrameOK(Plain("prune", p, q))
BY DEF FrameOK, Plain, Frames

LEMMA OfOK ==
    ASSUME NEW p \in Nodes, NEW q \in Nodes, NEW b \in AnyBlock
    PROVE  /\ FrameOK(Of("ihave", p, q, b)) /\ FrameOK(Of("graft", p, q, b))
           /\ Open(q, b) => FrameOK(Of("block", p, q, b))
BY DEF FrameOK, Of, Frames

LEMMA HaveOK ==
    ASSUME NEW p \in Nodes, NEW q \in Nodes, NEW me \in Mem
    PROVE  FrameOK(Have(p, q, me))
<1>1. VisibleTo(q, me) \in SUBSET AnyBlock
  BY DEF VisibleTo, Mem
<1> QED
  BY <1>1 DEF FrameOK, Have, Frames

LEMMA AttachOK ==
    ASSUME NEW p \in Nodes, NEW q \in Nodes, NEW me \in Mem
    PROVE  \A f \in Attach(p, q, me) : FrameOK(f)
BY HaveOK, PlainOK DEF Attach

LEMMA CandidatesType ==
    ASSUME NEW n \in Nodes, NEW mine \in BOOLEAN, NEW me \in Mem
    PROVE  Candidates(n, mine, me) \subseteq Nodes
BY SwarmAssumption DEF Candidates, Members, Mem

LEMMA SplitsType ==
    ASSUME NEW n \in Nodes, NEW mine \in BOOLEAN, NEW me \in Mem, NEW E \in Splits(n, mine, me)
    PROVE  E \subseteq Nodes
<1>1. E \subseteq Candidates(n, mine, me)
  BY Zenon DEF Splits
<1> QED
  BY <1>1, CandidatesType

LEMMA SplitOK ==
    ASSUME NEW n \in Nodes, NEW mine \in BOOLEAN, NEW me, MemOK(n, me),
           NEW E \in Splits(n, mine, me)
    PROVE  MemOK(n, Split(n, mine, me, E))
<1>1. me \in Mem
  BY DEF MemOK
<1>2. E \subseteq Nodes /\ Candidates(n, mine, me) \subseteq Nodes
  BY <1>1, SplitsType, CandidatesType
<1>3. Split(n, mine, me, E) \in Mem /\ Split(n, mine, me, E).held = me.held
  BY <1>1, <1>2 DEF Split, Mem
<1> QED
  BY <1>3 DEF MemOK

LEMMA SpreadOK ==
    ASSUME NEW n \in Nodes, NEW from, NEW me \in Mem, NEW b \in AnyBlock, IsWord(b)
    PROVE  \A f \in Spread(n, from, me, b) : FrameOK(f)
<1>1. me.eager \subseteq Nodes /\ me.lazy \subseteq Nodes
  BY DEF Mem
<1>2. \A q \in Nodes : Open(q, b)
  BY DEF Open
<1> QED
  BY <1>1, <1>2, OfOK DEF Spread

LEMMA HoldingOK ==
    ASSUME NEW n \in Nodes, NEW me, MemOK(n, me), NEW b \in AnyBlock, Open(n, b)
    PROVE  MemOK(n, [me EXCEPT !.held = @ \cup {b}])
<1>1. me \in Mem /\ IsFiniteSet(me.held)
  BY DEF MemOK
<1>2. IsFiniteSet(me.held \cup {b})
  BY <1>1, FS_AddElement
<1>3. /\ [me EXCEPT !.held = @ \cup {b}] \in Mem
      /\ [me EXCEPT !.held = @ \cup {b}].held = me.held \cup {b}
  BY <1>1 DEF Mem
<1> QED
  BY <1>2, <1>3 DEF MemOK

LEMMA NextSeqType ==
    ASSUME AddressInv, NEW n \in Nodes
    PROVE  NextSeq(n) \in Nat
<1>1. IsFiniteSet({b \in node[n].held : b.author = n})
  BY FS_Subset DEF AddressInv, MemOK
<1> QED
  BY <1>1, FS_CardinalityType DEF NextSeq

-----------------------------------------------------------------------------
(* The steps. *)

LEMMA AddressInit == Init => AddressInv
<1> SUFFICES ASSUME Init PROVE AddressInv
  OBVIOUS
<1>1. Document \in AnyBlock /\ IsWord(Document)
  BY SwarmAssumption DEF Document, AnyBlock, IsWord
<1>2. Woken({Document}, {Document}, FALSE) \in Mem
  BY <1>1 DEF Woken, Mem
<1>3. Woken({Document}, {Document}, FALSE).held = {Document}
  BY DEF Woken
<1>4. \A n \in Nodes : MemOK(n, Woken({Document}, {Document}, FALSE))
  BY <1>1, <1>2, <1>3, FS_Singleton DEF MemOK, Open
<1>5. open \in BOOLEAN /\ known \subseteq Nodes /\ announced \subseteq Nodes
  BY SwarmAssumption DEF Init
<1> QED
  BY <1>2, <1>4, <1>5 DEF Init, AddressInv

LEMMA SayKeeps == ASSUME AddressInv, NEW n \in Nodes, Say(n) PROVE AddressInv'
<1> DEFINE b == [author |-> n, seq |-> NextSeq(n), to |-> Everyone]
           mine == [node[n] EXCEPT !.held = @ \cup {b}]
<1>1. b \in AnyBlock /\ IsWord(b)
  BY NextSeqType DEF AnyBlock, IsWord
<1>2. MemOK(n, mine)
  BY <1>1, HoldingOK DEF AddressInv, Open
<1>3. PICK E \in Splits(n, TRUE, node[n]) :
          /\ Becomes(n, Split(n, TRUE, mine, E))
          /\ net' = net \cup Spread(n, n, Split(n, TRUE, mine, E), b)
  BY DEF Say
<1>4. node[n] \in Mem
  BY DEF AddressInv
<1>5. E \subseteq Nodes /\ Candidates(n, TRUE, mine) \subseteq Nodes
  BY <1>2, <1>3, <1>4, SplitsType, CandidatesType DEF MemOK
<1>6. MemOK(n, Split(n, TRUE, mine, E)) /\ Split(n, TRUE, mine, E) \in Mem
  <2> HIDE DEF mine
  <2>1. Split(n, TRUE, mine, E) \in Mem /\ Split(n, TRUE, mine, E).held = mine.held
    BY <1>2, <1>5 DEF Split, Mem, MemOK
  <2> QED
    BY <1>2, <2>1 DEF MemOK
<1>7. \A f \in Spread(n, n, Split(n, TRUE, mine, E), b) : FrameOK(f)
  <2> HIDE DEF b, mine
  <2> QED BY <1>1, <1>6, SpreadOK
<1>8. UNCHANGED <<open, known, announced>>
  BY DEF Say
<1>9. Sends(Spread(n, n, Split(n, TRUE, mine, E), b))
  BY <1>3, <1>7 DEF Sends
<1> HIDE DEF b, mine
<1> QED
  BY <1>3, <1>6, <1>8, <1>9, StepKeeps

LEMMA GrantKeeps == ASSUME AddressInv, NEW p \in Nodes, Grant(p) PROVE AddressInv'
<1> DEFINE b == [author |-> Owner, seq |-> NextSeq(Owner), to |-> p]
           mine == [node[Owner] EXCEPT !.held = @ \cup {b}]
<1>1. Owner \in Nodes /\ b \in AnyBlock
  BY NextSeqType, SwarmAssumption DEF AnyBlock
<1>2. MemOK(Owner, mine)
  BY <1>1, HoldingOK DEF AddressInv, Open
<1>3. FrameOK(Of("block", Owner, p, b))
  BY <1>1, OfOK DEF Open
<1>4. Becomes(Owner, mine) /\ net' = net \cup {Of("block", Owner, p, b)}
      /\ UNCHANGED <<open, known, announced>>
  BY DEF Grant
<1>5. Sends({Of("block", Owner, p, b)})
  BY <1>3, <1>4 DEF Sends
<1> HIDE DEF b, mine
<1> QED
  BY <1>1, <1>2, <1>4, <1>5, StepKeeps

\* Every frame of the net is one of four sorts.
LEMMA FrameParts ==
    ASSUME AddressInv, NEW f \in net
    PROVE  /\ f.src \in Nodes /\ f.dst \in Nodes
           /\ MemOK(f.dst, node[f.dst]) /\ node[f.dst] \in Mem
           /\ f.kind \in {"block", "ihave", "graft"} => f.block \in AnyBlock
           /\ f.kind = "block" => Open(f.dst, f.block)
           /\ f.kind = "have" => f.vector \in SUBSET AnyBlock
           /\ f.kind = "want" => f.author \in Nodes
BY DEF AddressInv, FrameOK, Frames

LEMMA BlockKeeps ==
    ASSUME AddressInv, NEW f \in net, f.kind = "block", OnBlock(f),
           UNCHANGED <<open, known, announced>>
    PROVE  AddressInv'
<1> DEFINE b == f.block
           n == f.dst
           me == [node[n] EXCEPT !.seen = @ \cup {b}, !.held = @ \cup {b},
                                 !.heard = @ \/ (IsWord(b) /\ b.author = Owner)]
           met == Answered(f.src, me)
<1>1. n \in Nodes /\ b \in AnyBlock /\ Open(n, b) /\ node[n] \in Mem /\ MemOK(n, node[n])
      /\ f.src \in Nodes
  BY FrameParts
<1>2. IsFiniteSet(node[n].held \cup {b})
  BY <1>1, FS_AddElement DEF MemOK
<1>3. me \in Mem /\ me.held = node[n].held \cup {b}
  BY <1>1 DEF Mem, IsWord
<1>4. MemOK(n, me)
  BY <1>1, <1>2, <1>3 DEF MemOK
<1>5. met \in Mem /\ met.held = me.held
  <2> HIDE DEF me
  <2> QED BY <1>3 DEF Answered, Mem
<1>6. MemOK(n, met)
  BY <1>4, <1>5 DEF MemOK
<1> HIDE DEF me, met
<1>7. CASE ~IsWord(b) /\ Becomes(n, me) /\ Answer(f, {})
  <2>1. Sends({})
    BY <1>7 DEF Sends, Answer
  <2> QED
    BY <1>1, <1>4, <1>7, <2>1, StepKeeps
<1>8. ASSUME IsWord(b), NEW E \in Splits(n, FALSE, met),
             Becomes(n, Split(n, FALSE, met, E)),
             Answer(f, Spread(n, f.src, Split(n, FALSE, met, E), b))
      PROVE  AddressInv'
  <2>1. MemOK(n, Split(n, FALSE, met, E))
    BY <1>1, <1>6, <1>8, SplitOK
  <2>2. \A g \in Spread(n, f.src, Split(n, FALSE, met, E), b) : FrameOK(g)
    BY <1>1, <1>8, <2>1, SpreadOK DEF MemOK
  <2>3. Sends(Spread(n, f.src, Split(n, FALSE, met, E), b))
    BY <1>8, <2>2 DEF Answer, Sends
  <2> QED
    BY <1>1, <1>8, <2>1, <2>3, StepKeeps
<1> QED
  BY <1>7, <1>8 DEF OnBlock, me, met

LEMMA RepeatKeeps ==
    ASSUME AddressInv, NEW f \in net, OnRepeat(f), UNCHANGED <<open, known, announced>>
    PROVE  AddressInv'
<1>1. FrameOK(Plain("prune", f.dst, f.src))
  BY FrameParts, PlainOK
<1>2. PICK out \in {{}, {Plain("prune", f.dst, f.src)}} : Answer(f, out)
  BY DEF OnRepeat
<1>3. Sends(out)
  BY <1>1, <1>2 DEF Answer, Sends
<1> QED
  BY <1>3, NetKeeps DEF OnRepeat

LEMMA AttachKeeps ==
    ASSUME AddressInv, NEW f \in net, OnAttach(f), UNCHANGED <<open, known, announced>>
    PROVE  AddressInv'
<1> DEFINE n == f.dst
           me == [node[n] EXCEPT !.attached = @ \cup {f.src}]
<1>1. n \in Nodes /\ f.src \in Nodes /\ MemOK(n, node[n]) /\ node[n] \in Mem
  BY FrameParts
<1>2. me \in Mem /\ me.held = node[n].held
  BY <1>1 DEF Mem
<1>3. MemOK(n, me)
  BY <1>1, <1>2 DEF MemOK
<1>4. FrameOK(Have(n, f.src, me))
  BY <1>1, <1>2, HaveOK
<1>5. PICK out \in {{}, {Have(n, f.src, me)}} : Answer(f, out)
  BY DEF OnAttach
<1>6. Sends(out)
  <2> HIDE DEF me
  <2> QED BY <1>4, <1>5 DEF Answer, Sends
<1>7. Becomes(n, me)
  BY DEF OnAttach
<1> HIDE DEF me
<1> QED
  BY <1>1, <1>3, <1>6, <1>7, StepKeeps

LEMMA AwaitOK ==
    ASSUME NEW n, NEW me, MemOK(n, me),
           NEW w \in [block : AnyBlock, who : Nodes, asked : BOOLEAN]
    PROVE  /\ MemOK(n, [me EXCEPT !.awaited = @ \cup {w}])
           /\ MemOK(n, [me EXCEPT !.awaited = @ \ {w}])
<1>1. /\ [me EXCEPT !.awaited = @ \cup {w}] \in Mem
      /\ [me EXCEPT !.awaited = @ \cup {w}].held = me.held
      /\ [me EXCEPT !.awaited = @ \ {w}] \in Mem
      /\ [me EXCEPT !.awaited = @ \ {w}].held = me.held
  BY DEF Mem, MemOK
<1> QED
  BY <1>1 DEF MemOK

LEMMA IHaveKeeps ==
    ASSUME AddressInv, NEW f \in net, f.kind = "ihave", OnIHave(f),
           UNCHANGED <<open, known, announced>>
    PROVE  AddressInv'
<1> DEFINE w == [block |-> f.block, who |-> f.src, asked |-> FALSE]
           me == [node[f.dst] EXCEPT !.awaited = @ \cup {w}]
<1>1. f.dst \in Nodes /\ f.src \in Nodes /\ MemOK(f.dst, node[f.dst]) /\ f.block \in AnyBlock
  BY FrameParts
<1>2. w \in [block : AnyBlock, who : Nodes, asked : BOOLEAN]
  BY <1>1
<1>3. MemOK(f.dst, me)
  <2> HIDE DEF w
  <2> QED BY <1>1, <1>2, AwaitOK
<1>4. UNCHANGED node \/ Becomes(f.dst, me)
  BY DEF OnIHave
<1>5. Sends({})
  BY DEF OnIHave, Answer, Sends
<1> HIDE DEF me
<1> QED
  BY <1>1, <1>3, <1>4, <1>5, StepKeeps, NetKeeps

LEMMA TreeOK ==
    ASSUME NEW n \in Nodes, NEW p \in Nodes, NEW me, MemOK(n, me)
    PROVE  MemOK(n, ToEager(p, me)) /\ MemOK(n, ToLazy(p, me))
<1>1. /\ ToEager(p, me) \in Mem /\ ToEager(p, me).held = me.held
      /\ ToLazy(p, me) \in Mem /\ ToLazy(p, me).held = me.held
  BY DEF ToEager, ToLazy, Mem, MemOK
<1> QED
  BY <1>1 DEF MemOK

LEMMA GraftKeeps ==
    ASSUME AddressInv, NEW f \in net, f.kind = "graft", OnGraft(f),
           UNCHANGED <<open, known, announced>>
    PROVE  AddressInv'
<1>1. f.dst \in Nodes /\ f.src \in Nodes /\ MemOK(f.dst, node[f.dst]) /\ f.block \in AnyBlock
  BY FrameParts
<1>2. MemOK(f.dst, ToEager(f.src, node[f.dst]))
  BY <1>1, TreeOK
<1>3. \A g \in Given(f.dst, f.src, f.block) : FrameOK(g)
  BY <1>1, OfOK DEF Given, Open
<1>4. CASE Answer(f, {}) /\ UNCHANGED node
  <2>1. Sends({})
    BY <1>4 DEF Answer, Sends
  <2> QED
    BY <1>4, <2>1, NetKeeps
<1>5. CASE Becomes(f.dst, ToEager(f.src, node[f.dst])) /\ Answer(f, Given(f.dst, f.src, f.block))
  <2>1. Sends(Given(f.dst, f.src, f.block))
    BY <1>3, <1>5 DEF Answer, Sends
  <2> QED
    BY <1>1, <1>2, <1>5, <2>1, StepKeeps
<1> QED
  BY <1>4, <1>5 DEF OnGraft

LEMMA PruneKeeps ==
    ASSUME AddressInv, NEW f \in net, OnPrune(f), UNCHANGED <<open, known, announced>>
    PROVE  AddressInv'
<1>1. f.dst \in Nodes /\ f.src \in Nodes /\ MemOK(f.dst, node[f.dst])
  BY FrameParts
<1>2. MemOK(f.dst, ToLazy(f.src, node[f.dst]))
  BY <1>1, TreeOK
<1>3. Becomes(f.dst, ToLazy(f.src, node[f.dst])) /\ Sends({})
  BY DEF OnPrune, Answer, Sends
<1> QED
  BY <1>1, <1>2, <1>3, StepKeeps

LEMMA HaveKeeps ==
    ASSUME AddressInv, NEW f \in net, f.kind = "have", OnHave(f),
           UNCHANGED <<open, known, announced>>
    PROVE  AddressInv'
<1> DEFINE n == f.dst
           wants == UNION {{Want(n, f.src, a, hole) : hole \in Runs(Asked(a, f.vector, node[n]))}
                              : a \in Writers \cup {Owner}}
           own == IF n = Owner THEN {Have(n, f.src, node[n])} ELSE {}
<1>1. n \in Nodes /\ f.src \in Nodes /\ node[n] \in Mem /\ f.vector \in SUBSET AnyBlock
  BY FrameParts
<1>2. \A a : Asked(a, f.vector, node[n]) \subseteq Nat
  BY <1>1 DEF Asked, Seqs, AnyBlock
<1>3. \A a \in Writers \cup {Owner} : \A hole \in Runs(Asked(a, f.vector, node[n])) :
          FrameOK(Want(n, f.src, a, hole))
  <2> TAKE a \in Writers \cup {Owner}
  <2> TAKE hole \in Runs(Asked(a, f.vector, node[n]))
  <2>1. hole[1] \in Nat /\ hole[2] \in Nat
    BY <1>2 DEF Runs
  <2>2. a \in Nodes
    BY SwarmAssumption
  <2> QED
    BY <1>1, <2>1, <2>2 DEF FrameOK, Want, Frames
<1>4. \A g \in wants \cup own : FrameOK(g)
  BY <1>1, <1>3, HaveOK
<1>5. Answer(f, wants \cup own) /\ UNCHANGED node
  BY DEF OnHave
<1> HIDE DEF wants, own
<1>6. Sends(wants \cup own)
  BY <1>4, <1>5 DEF Answer, Sends
<1> QED
  BY <1>5, <1>6, NetKeeps

LEMMA WantKeeps ==
    ASSUME AddressInv, NEW f \in net, OnWant(f), UNCHANGED <<open, known, announced>>
    PROVE  AddressInv'
<1> DEFINE there == {b \in VisibleTo(f.src, node[f.dst]) :
                        b.author = f.author /\ b.seq \in f.first..f.last}
           out == {Of("block", f.dst, f.src, b) : b \in there}
<1>1. f.dst \in Nodes /\ f.src \in Nodes /\ node[f.dst] \in Mem
  BY FrameParts
<1>2. \A b \in there : b \in AnyBlock /\ Open(f.src, b)
  BY <1>1 DEF VisibleTo, Mem, Open
<1>3. \A g \in out : FrameOK(g)
  BY <1>1, <1>2, OfOK
<1>4. PICK sent \in {{}, out} : Answer(f, sent)
  BY DEF OnWant
<1>5. Sends(sent)
  <2> HIDE DEF out
  <2> QED BY <1>3, <1>4 DEF Answer, Sends
<1> QED
  BY <1>5, NetKeeps DEF OnWant

LEMMA ReceiveKeeps ==
    ASSUME AddressInv, NEW f \in net, Receive(f)
    PROVE  AddressInv'
<1>1. UNCHANGED <<open, known, announced>>
  BY DEF Receive
<1>2. CASE f.kind = "block" /\ (OnRepeat(f) \/ OnBlock(f))
  BY <1>1, <1>2, RepeatKeeps, BlockKeeps
<1>3. CASE f.kind = "attach" /\ OnAttach(f)
  BY <1>1, <1>3, AttachKeeps
<1>4. CASE f.kind = "ihave" /\ OnIHave(f)
  BY <1>1, <1>4, IHaveKeeps
<1>5. CASE f.kind = "graft" /\ OnGraft(f)
  BY <1>1, <1>5, GraftKeeps
<1>6. CASE f.kind = "prune" /\ OnPrune(f)
  BY <1>1, <1>6, PruneKeeps
<1>7. CASE f.kind = "have" /\ OnHave(f)
  BY <1>1, <1>7, HaveKeeps
<1>8. CASE f.kind = "want" /\ OnWant(f)
  BY <1>1, <1>8, WantKeeps
<1> QED
  BY <1>2, <1>3, <1>4, <1>5, <1>6, <1>7, <1>8 DEF Receive

LEMMA MissedOK ==
    ASSUME NEW n, NEW me, MemOK(n, me), NEW p \in Nodes
    PROVE  MemOK(n, Missed(p, me))
<1>1. me \in Mem /\ me.misses[p] \in Nat /\ MaxMisses \in Nat
  BY SwarmAssumption DEF MemOK, Mem
<1>2. [me.misses EXCEPT ![p] = 0] \in [Nodes -> Nat]
  BY <1>1 DEF Mem
<1>3. Missed(p, me) \in Mem /\ Missed(p, me).held = me.held
  <2> DEFINE k == me.misses[p] + 1
  <2>1. k \in Nat /\ 0 \in Nat
    BY <1>1
  <2>2. \/ Missed(p, me) = [me EXCEPT !.misses[p] = k]
        \/ Missed(p, me) = [me EXCEPT !.misses[p] = MaxMisses]
        \/ Missed(p, me) = [me EXCEPT !.misses[p] = 0, !.cooling = @ \cup {p}]
    BY Zenon DEF Missed
  <2> HIDE DEF k
  <2>3. CASE Missed(p, me) = [me EXCEPT !.misses[p] = k]
    BY <1>1, <2>1, <2>3 DEF Mem
  <2>4. CASE Missed(p, me) = [me EXCEPT !.misses[p] = MaxMisses]
    BY <1>1, <2>4 DEF Mem
  <2>5. CASE Missed(p, me) = [me EXCEPT !.misses[p] = 0, !.cooling = @ \cup {p}]
    <3> DEFINE m == [me.misses EXCEPT ![p] = 0]
               c == me.cooling \cup {p}
    <3>1. Missed(p, me) = [me EXCEPT !.misses = m, !.cooling = c]
      BY <1>1, <2>5 DEF Mem
    <3>2. m \in [Nodes -> Nat] /\ c \in SUBSET Nodes
      BY <1>1, <1>2 DEF Mem
    <3> HIDE DEF m, c
    <3>3. [me EXCEPT !.misses = m, !.cooling = c] \in Mem
      BY <1>1, <3>2 DEF Mem
    <3>4. [me EXCEPT !.misses = m, !.cooling = c].held = me.held
      BY <1>1 DEF Mem
    <3> QED
      BY <3>1, <3>3, <3>4, Zenon
  <2> QED
    BY <2>2, <2>3, <2>4, <2>5
<1> QED
  BY <1>3 DEF MemOK

LEMMA TimerKeeps ==
    ASSUME AddressInv, NEW n \in Nodes, NEW w \in node[n].awaited, GraftTimer(n, w)
    PROVE  AddressInv'
<1> DEFINE me == [node[n] EXCEPT !.awaited = @ \ {w}]
           v == [w EXCEPT !.asked = TRUE]
           again == [me EXCEPT !.awaited = @ \cup {v}]
<1>1. MemOK(n, node[n]) /\ w \in [block : AnyBlock, who : Nodes, asked : BOOLEAN]
  BY DEF AddressInv, Mem
<1>2. MemOK(n, me)
  BY <1>1, AwaitOK
<1>3. w.who \in Nodes /\ w.block \in AnyBlock /\ v \in [block : AnyBlock, who : Nodes, asked : BOOLEAN]
  BY <1>1
<1>4. MemOK(n, again)
  <2> HIDE DEF me, v
  <2> QED BY <1>2, <1>3, AwaitOK
<1>5. MemOK(n, Missed(w.who, me)) /\ MemOK(n, ToEager(w.who, again))
  BY <1>2, <1>3, <1>4, MissedOK, TreeOK
<1>6. FrameOK(Of("graft", n, w.who, w.block))
  BY <1>3, OfOK
<1>7. UNCHANGED <<open, known, announced>>
  BY DEF GraftTimer
<1>8. \/ Becomes(n, me) /\ UNCHANGED net
      \/ Becomes(n, Missed(w.who, me)) /\ UNCHANGED net
      \/ /\ Becomes(n, ToEager(w.who, again))
         /\ net' = net \cup {Of("graft", n, w.who, w.block)}
  BY DEF GraftTimer
<1>9. Sends({Of("graft", n, w.who, w.block)})
  BY <1>6, <1>8 DEF Sends
<1> HIDE DEF me, again
<1> QED
  BY <1>2, <1>5, <1>7, <1>8, <1>9, StepKeeps

LEMMA SweepKeeps ==
    ASSUME AddressInv, NEW n \in Nodes, Sweep(n)
    PROVE  AddressInv'
<1>1. PICK gone \in SUBSET node[n].attached :
        LET kept == [node[n] EXCEPT !.attached = @ \ gone, !.eager = @ \ gone,
                                    !.lazy = @ \ gone, !.heard = FALSE]
        IN /\ \E up \in SUBSET kept.lazy :
                Becomes(n, [kept EXCEPT !.lazy = @ \ up, !.eager = @ \cup up,
                                        !.dialed = @ \cup Targets(n)])
           /\ net' \subseteq net \cup (UNION {Attach(n, p, kept) : p \in Targets(n)})
                                \cup {Have(n, Owner, kept)}
           /\ UNCHANGED <<open, known, announced>>
  BY DEF Sweep
<1> DEFINE kept == [node[n] EXCEPT !.attached = @ \ gone, !.eager = @ \ gone,
                                   !.lazy = @ \ gone, !.heard = FALSE]
           out == (UNION {Attach(n, p, kept) : p \in Targets(n)}) \cup {Have(n, Owner, kept)}
<1>2. MemOK(n, node[n]) /\ Owner \in Nodes /\ Targets(n) \subseteq Nodes
  BY SwarmAssumption DEF AddressInv, Targets
<1>3. kept \in Mem /\ kept.held = node[n].held
  BY <1>2 DEF MemOK, Mem
<1>4. \A f \in out : FrameOK(f)
  <2> HIDE DEF kept
  <2> QED BY <1>2, <1>3, AttachOK, HaveOK
<1>5. PICK up \in SUBSET kept.lazy :
        Becomes(n, [kept EXCEPT !.lazy = @ \ up, !.eager = @ \cup up,
                                !.dialed = @ \cup Targets(n)])
  BY <1>1
<1> DEFINE me == [kept EXCEPT !.lazy = @ \ up, !.eager = @ \cup up,
                              !.dialed = @ \cup Targets(n)]
<1>6. MemOK(n, me)
  <2> HIDE DEF kept
  <2>1. me \in Mem /\ me.held = kept.held
    BY <1>2, <1>3 DEF Mem
  <2> QED
    BY <1>2, <1>3, <2>1 DEF MemOK
<1>7. Sends(out)
  BY <1>1, <1>4 DEF Sends
<1> HIDE DEF me, out
<1> QED
  BY <1>1, <1>5, <1>6, <1>7, StepKeeps DEF me

LEMMA HourKeeps == AddressInv /\ NewHour => AddressInv'
<1> SUFFICES ASSUME AddressInv, NewHour PROVE AddressInv'
  OBVIOUS
<1>1. \A n \in Nodes : MemOK(n, [node[n] EXCEPT !.cooling = {}])
  <2> TAKE n \in Nodes
  <2>0. \A me \in Mem : /\ [me EXCEPT !.cooling = {}] \in Mem
                        /\ [me EXCEPT !.cooling = {}].held = me.held
    BY DEF Mem
  <2>1. /\ [node[n] EXCEPT !.cooling = {}] \in Mem
        /\ [node[n] EXCEPT !.cooling = {}].held = node[n].held
    BY <2>0 DEF AddressInv
  <2> QED
    BY <2>1 DEF AddressInv, MemOK
<1>2. node' = [n \in Nodes |-> [node[n] EXCEPT !.cooling = {}]]
      /\ UNCHANGED <<open, known, announced, net>>
  BY DEF NewHour
<1>3. \A n \in Nodes : MemOK(n, node'[n])
  BY <1>1, <1>2
<1>4. node' \in [Nodes -> Mem]
  BY <1>1, <1>2 DEF MemOK
<1> QED
  BY <1>2, <1>3, <1>4 DEF AddressInv

LEMMA RestartKeeps ==
    ASSUME AddressInv, NEW n \in Nodes, Restart(n)
    PROVE  AddressInv'
<1> DEFINE me == Woken(node[n].held, node[n].seen, node[n].heard)
<1>1. node[n] \in Mem /\ MemOK(n, node[n])
  BY DEF AddressInv
<1>2. me \in Mem /\ me.held = node[n].held
  BY <1>1 DEF Woken, Mem
<1>3. MemOK(n, me)
  BY <1>1, <1>2 DEF MemOK
<1>4. Becomes(n, me) /\ Sends({}) /\ UNCHANGED <<open, known, announced>>
  BY DEF Restart, Sends
<1> HIDE DEF me
<1> QED
  BY <1>3, <1>4, StepKeeps

LEMMA ReattachKeeps ==
    ASSUME AddressInv, NEW n \in Nodes, NEW p \in Nodes, Reattach(n, p)
    PROVE  AddressInv'
<1> DEFINE me == [node[n] EXCEPT !.dialed = @ \cup {p}]
<1>1. node[n] \in Mem /\ MemOK(n, node[n])
  BY DEF AddressInv
<1>2. me \in Mem /\ me.held = node[n].held
  BY <1>1 DEF Mem
<1>3. MemOK(n, me)
  BY <1>1, <1>2 DEF MemOK
<1>4. Becomes(n, me) /\ UNCHANGED <<open, known, announced>>
  BY DEF Reattach
<1>5. Sends(Attach(n, p, node[n]))
  BY <1>1, AttachOK DEF Reattach, Sends
<1> HIDE DEF me
<1> QED
  BY <1>3, <1>4, <1>5, StepKeeps

LEMMA AddressNext == AddressInv /\ [Next]_vars => AddressInv'
<1> SUFFICES ASSUME AddressInv, [Next]_vars PROVE AddressInv'
  OBVIOUS
<1>1. ASSUME NEW f \in net, Receive(f) PROVE AddressInv'
  BY <1>1, ReceiveKeeps
<1>2. ASSUME NEW n \in Nodes, NEW w \in node[n].awaited, GraftTimer(n, w) PROVE AddressInv'
  BY <1>2, TimerKeeps
<1>3. ASSUME NEW n \in Nodes, Sweep(n) PROVE AddressInv'
  BY <1>3, SweepKeeps
<1>4. CASE NewHour
  BY <1>4, HourKeeps
<1>5. ASSUME NEW n \in Nodes, Say(n) \/ Grant(n) PROVE AddressInv'
  BY <1>5, SayKeeps, GrantKeeps
<1>6. ASSUME NEW n \in Nodes, Restart(n) PROVE AddressInv'
  BY <1>6, RestartKeeps
<1>7. ASSUME NEW n \in Nodes, Stop(n) \/ Lapse(n) PROVE AddressInv'
  <2>1. /\ UNCHANGED node /\ UNCHANGED open /\ UNCHANGED net
        /\ known' \subseteq known /\ announced' \subseteq announced
    BY <1>7 DEF Stop, Lapse
  <2>2. Sends({})
    BY <2>1 DEF Sends
  <2> QED
    BY <2>1, <2>2, NetKeeps
<1>8. ASSUME NEW f \in net, Lose(f) PROVE AddressInv'
  <2>1. Sends({}) /\ UNCHANGED <<open, node, known, announced>>
    BY <1>8 DEF Lose, Sends
  <2> QED
    BY <2>1, NetKeeps
<1>9. ASSUME NEW n \in Nodes, NEW p \in Nodes, Reattach(n, p) PROVE AddressInv'
  BY <1>9, ReattachKeeps
<1>10. CASE UNCHANGED vars
  BY <1>10 DEF vars, AddressInv, MemOK, FrameOK, Open
<1> QED
  BY <1>1, <1>2, <1>3, <1>4, <1>5, <1>6, <1>7, <1>8, <1>9, <1>10 DEF Next, Progress

(***************************************************************************)
(* A block for one is held by its author and its addressee only, and only  *)
(* towards the addressee does it ever fly: push_block, archive_give,       *)
(* on_have and on_want together show it to nobody else, for any number of  *)
(* nodes, losses, restarts and catalogues.                                 *)
(***************************************************************************)
THEOREM StaysBetween == Spec => []OnlyTheAddressee
<1>1. AddressInv => OnlyTheAddressee
  BY DEF AddressInv, OnlyTheAddressee, MemOK, FrameOK, Open
<1> QED
  BY <1>1, AddressInit, AddressNext, PTL DEF Spec

-----------------------------------------------------------------------------
(***************************************************************************)
(* The tree, while nothing is lost.  Every word of who serves is at the    *)
(* owner or on its way there, and once the owner has it, it is with every  *)
(* member or on its way: whole, as a call of somebody who will answer, or  *)
(* awaited from one.  A call that was taken up is answered before it is    *)
(* counted as a miss, so nobody who serves is cooled.                      *)
(***************************************************************************)

\* what p called out p can give, and gives
Vouched(p, b) == b \in node[p].held /\ IsWord(b) /\ (p \in Serving \/ b.author = p)

MemberCalm(n, me) ==
    /\ me.seen \subseteq me.held
    /\ me.dialed \subseteq Serving
    /\ me.attached # {} => n \in Serving
    /\ me.cooling \cap Serving = {}

FrameCalm(f) ==
    /\ f.kind = "attach" => f.dst \in Serving
    /\ f.kind = "ihave" => Vouched(f.src, f.block)
    /\ f.kind = "block" => f.block \in node[f.src].held

\* what was asked for has come, is coming, or the question is still on its way
Answering(n, w) ==
    \/ w.block \in node[n].seen
    \/ Of("graft", n, w.who, w.block) \in net
    \/ Of("block", w.who, n, w.block) \in net

AwaitCalm(n, w) ==
    /\ Vouched(w.who, w.block)
    /\ w.asked /\ w.who \in Serving => Answering(n, w)

\* m has b, or will
Coming(m, b) ==
    \/ b \in node[m].held
    \/ \E f \in net : f.kind = "block" /\ f.dst = m /\ f.block = b
    \/ \E f \in net : f.kind = "ihave" /\ f.dst = m /\ f.block = b /\ f.src \in Serving
    \/ \E w \in node[m].awaited : w.block = b /\ w.who \in Serving

Served(b) == IsWord(b) /\ b.author \in Serving
Handed(b) == Coming(Owner, b) /\ (b \in node[Owner].held => \A m \in Members : Coming(m, b))

CalmInv ==
    /\ known = announced /\ Owner \notin announced
    /\ \A n \in Nodes : /\ MemberCalm(n, node[n])
                        /\ \A w \in node[n].awaited : AwaitCalm(n, w)
                        /\ \A b \in node[n].held : Served(b) => Handed(b)
    /\ \A f \in net : FrameCalm(f)

TreeInv == faults \in Nat /\ (faults = 0 => CalmInv)

-----------------------------------------------------------------------------
(* What a step must keep. *)

Grows(n, me) == node[n].held \subseteq me.held /\ node[n].seen \subseteq me.seen

\* n turns into me, the rest stays; what is new is calm, and what was coming still is
CalmTo(n, me) ==
    /\ n \in Nodes /\ Becomes(n, me) /\ UNCHANGED <<open, known, announced>>
    /\ Grows(n, me) /\ MemberCalm(n, me)
    /\ \A f \in net' : f \in net \/ FrameCalm(f)'
    /\ \A w \in me.awaited : w \in node[n].awaited \/ AwaitCalm(n, w)'

LEMMA Grown ==
    ASSUME AddressInv, NEW n, NEW me, CalmTo(n, me)
    PROVE  /\ \A m \in Nodes : Grows(m, node'[m])
           /\ \A m \in Nodes : m # n => node'[m] = node[m]
           /\ node'[n] = me
           /\ Serving' = Serving /\ Members' = Members
BY DEF CalmTo, Becomes, Grows, AddressInv, Serving, Members

LEMMA CalmStep ==
    ASSUME AddressInv, CalmInv, NEW n, NEW me, CalmTo(n, me),
           \A m \in Nodes : \A w \in node[m].awaited :
               Vouched(w.who, w.block) /\ w.who \in Serving /\ Answering(m, w)
                   => Answering(m, w)',
           \A m \in Nodes : \A b : Served(b) /\ Coming(m, b) => Coming(m, b)',
           \A b \in me.held : b \in node[n].held \/ (Served(b) => Handed(b)')
    PROVE  CalmInv'
<1>1. /\ \A m \in Nodes : Grows(m, node'[m])
      /\ \A m \in Nodes : m # n => node'[m] = node[m]
      /\ node'[n] = me /\ n \in Nodes
      /\ Serving' = Serving /\ Members' = Members
  BY Grown DEF CalmTo
<1>2. known' = announced' /\ Owner \notin announced'
  BY DEF CalmTo, CalmInv
<1>3. \A m \in Nodes : MemberCalm(m, node[m])'
  BY <1>1 DEF CalmTo, CalmInv, MemberCalm
<1>4. \A p \in Nodes : \A b : Vouched(p, b) => Vouched(p, b)'
  BY <1>1 DEF Vouched, Grows, IsWord
<1>5. \A f \in net' : FrameCalm(f)'
  <2> TAKE f \in net'
  <2>1. CASE f \in net
    <3>1. FrameCalm(f) /\ f.src \in Nodes
      BY <2>1, FrameParts DEF CalmInv
    <3> QED
      BY <1>1, <1>4, <3>1 DEF FrameCalm, Grows
  <2> QED
    BY <2>1 DEF CalmTo
<1>6. \A m \in Nodes : \A w \in node'[m].awaited : AwaitCalm(m, w)'
  <2> TAKE m \in Nodes
  <2> TAKE w \in node'[m].awaited
  <2>1. CASE w \in node[m].awaited
    <3>1. AwaitCalm(m, w) /\ w.who \in Nodes
      BY <2>1 DEF CalmInv, AddressInv, Mem
    <3> QED
      BY <1>1, <1>4, <2>1, <3>1 DEF AwaitCalm
  <2>2. CASE w \notin node[m].awaited
    BY <1>1, <2>2 DEF CalmTo
  <2> QED
    BY <2>1, <2>2
<1>7. \A m \in Nodes : \A b \in node'[m].held : Served(b)' => Handed(b)'
  <2> TAKE m \in Nodes
  <2> TAKE b \in node'[m].held
  <2> HAVE Served(b)'
  <2>1. Served(b)
    BY <1>1 DEF Served, IsWord
  <2>2. Owner \in Nodes /\ Members \subseteq Nodes
    BY SwarmAssumption DEF Members
  <2>3. CASE \E p \in Nodes : b \in node'[p].held /\ b \notin node[p].held
    BY <1>1, <2>1, <2>3
  <2>4. CASE \A p \in Nodes : b \in node'[p].held => b \in node[p].held
    <3>1. Handed(b)
      BY <2>1, <2>4 DEF CalmInv
    <3> QED
      BY <1>1, <2>1, <2>2, <2>4, <3>1 DEF Handed
  <2> QED
    BY <2>3, <2>4
<1> QED
  BY <1>2, <1>3, <1>5, <1>6, <1>7 DEF CalmInv

\* The frames by which a block comes
Bearing == {"block", "graft", "ihave"}

LEMMA CalmQuiet ==
    ASSUME AddressInv, CalmInv, NEW n, NEW me, CalmTo(n, me),
           node[n].awaited \subseteq me.awaited,
           \A f \in net : f \in net' \/ f.kind \notin Bearing,
           \A b \in me.held : b \in node[n].held \/ (Served(b) => Handed(b)')
    PROVE  CalmInv'
<1>1. /\ \A m \in Nodes : Grows(m, node'[m])
      /\ \A m \in Nodes : m # n => node'[m] = node[m]
      /\ node'[n] = me /\ n \in Nodes
      /\ Serving' = Serving
  BY Grown DEF CalmTo
<1>2. \A m \in Nodes : \A w : Answering(m, w) => Answering(m, w)'
  BY <1>1 DEF Answering, Grows, Bearing, Of
<1>3. \A m \in Nodes : node[m].awaited \subseteq node'[m].awaited
  BY <1>1
<1>4. \A m \in Nodes : \A b : Coming(m, b) => Coming(m, b)'
  BY <1>1, <1>3 DEF Coming, Grows, Bearing
<1> QED
  BY <1>2, <1>4, CalmStep

\* Nobody changes: only frames come and go.
LEMMA CalmStill ==
    ASSUME AddressInv, CalmInv, UNCHANGED <<open, known, announced, node>>,
           \A f \in net' : f \in net \/ FrameCalm(f)'
    PROVE  CalmTo(Owner, node[Owner])
BY SwarmAssumption DEF CalmTo, Becomes, Grows, AddressInv, CalmInv

\* Who is reached by Spread: every candidate but who brought the block.
LEMMA SpreadReaches ==
    ASSUME NEW n \in Nodes, NEW mine \in BOOLEAN, NEW me, MemOK(n, me),
           NEW E \in SUBSET Candidates(n, mine, me), NEW from, NEW b,
           NEW q \in Candidates(n, mine, me), q # from
    PROVE  \/ Of("block", n, q, b) \in Spread(n, from, Split(n, mine, me, E), b)
           \/ Of("ihave", n, q, b) \in Spread(n, from, Split(n, mine, me, E), b)
BY DEF Spread, Split, MemOK, Mem

LEMMA SplitFields ==
    ASSUME NEW n \in Nodes, NEW mine \in BOOLEAN, NEW me, MemOK(n, me),
           NEW E \in Splits(n, mine, me)
    PROVE  LET to == Split(n, mine, me, E) IN
           /\ to.held = me.held /\ to.seen = me.seen /\ to.awaited = me.awaited
           /\ to.dialed = me.dialed /\ to.attached = me.attached /\ to.cooling = me.cooling
           /\ to.eager \subseteq Candidates(n, mine, me)
           /\ to.lazy \subseteq Candidates(n, mine, me)
           /\ E \in SUBSET Candidates(n, mine, me)
<1>1. E \subseteq Candidates(n, mine, me)
  BY Zenon DEF Splits
<1> QED
  BY <1>1 DEF Split, MemOK, Mem

LEMMA CalmSay ==
    ASSUME AddressInv, CalmInv, NEW n \in Nodes, Say(n)
    PROVE  CalmInv'
<1>b. PICK b : b = [author |-> n, seq |-> NextSeq(n), to |-> Everyone]
  OBVIOUS
<1>m. PICK mine : mine = [node[n] EXCEPT !.held = @ \cup {b}]
  OBVIOUS
<1>1. b \in AnyBlock /\ IsWord(b) /\ b.author = n
  BY <1>b, NextSeqType DEF AnyBlock, IsWord
<1>2. MemOK(n, mine) /\ MemOK(n, node[n])
  BY <1>m, <1>1, HoldingOK DEF AddressInv, Open
<1>3. PICK E \in Splits(n, TRUE, node[n]) :
          /\ Becomes(n, Split(n, TRUE, mine, E))
          /\ net' = net \cup Spread(n, n, Split(n, TRUE, mine, E), b)
          /\ UNCHANGED <<open, known, announced>>
  BY <1>b, <1>m DEF Say
<1>4. /\ mine.held = node[n].held \cup {b} /\ mine.seen = node[n].seen
      /\ mine.awaited = node[n].awaited /\ mine.dialed = node[n].dialed
      /\ mine.attached = node[n].attached /\ mine.cooling = node[n].cooling
      /\ mine.lazy = node[n].lazy /\ mine.eager = node[n].eager
  BY <1>m, <1>2 DEF MemOK, Mem
<1>e. PICK me : me = Split(n, TRUE, mine, E)
  OBVIOUS
<1>5. E \in Splits(n, TRUE, mine)
  <2>1. \A p : MayServe(n, p, mine) = MayServe(n, p, node[n])
    BY <1>4, Zenon DEF MayServe
  <2>2. Candidates(n, TRUE, mine) = Candidates(n, TRUE, node[n])
    BY <1>4, <2>1 DEF Candidates
  <2> QED
    BY <1>3, <1>4, <2>2, Zenon DEF Splits
<1>6. /\ me.held = node[n].held \cup {b} /\ me.seen = node[n].seen
      /\ me.awaited = node[n].awaited /\ me.dialed = node[n].dialed
      /\ me.attached = node[n].attached /\ me.cooling = node[n].cooling
      /\ E \in SUBSET Candidates(n, TRUE, mine)
  <2>1. /\ me.held = mine.held /\ me.seen = mine.seen /\ me.awaited = mine.awaited
        /\ me.dialed = mine.dialed /\ me.attached = mine.attached
        /\ me.cooling = mine.cooling /\ E \in SUBSET Candidates(n, TRUE, mine)
    BY <1>e, <1>2, <1>5, SplitFields, Zenon
  <2> QED
    BY <1>4, <2>1
<1>7. node'[n] = me /\ Serving' = Serving /\ Members' = Members
  BY <1>e, <1>3 DEF Becomes, AddressInv, Serving, Members
<1>8. \A f \in net' : f \in net \/ FrameCalm(f)'
  <2> TAKE f \in net'
  <2>1. CASE f \in Spread(n, n, me, b)
    <3>1. f.kind \in {"block", "ihave"} /\ f.src = n /\ f.block = b
      BY <2>1 DEF Spread, Of
    <3>2. b \in node'[n].held /\ Vouched(n, b)'
      BY <1>1, <1>6, <1>7 DEF Vouched, IsWord
    <3> QED
      BY <3>1, <3>2 DEF FrameCalm
  <2> QED
    BY <1>e, <1>3, <2>1
<1>9. CalmTo(n, me)
  BY <1>e, <1>3, <1>6, <1>8 DEF CalmTo, Grows, CalmInv, MemberCalm
<1>10. \A m \in Nodes : \A c : Coming(m, c) => Coming(m, c)'
  <2>1. \A m \in Nodes : /\ node[m].held \subseteq node'[m].held
                         /\ node[m].awaited \subseteq node'[m].awaited
    BY <1>6, <1>9, Grown DEF Grows
  <2> QED
    BY <1>3, <1>7, <2>1 DEF Coming
<1>11. Served(b) => Handed(b)'
  <2> SUFFICES ASSUME n \in Serving PROVE Handed(b)'
    BY <1>1 DEF Served
  <2>0. \A q \in Candidates(n, TRUE, mine) : q # n => Coming(q, b)'
    <3> TAKE q \in Candidates(n, TRUE, mine)
    <3> HAVE q # n
    <3>1. Of("block", n, q, b) \in net' \/ Of("ihave", n, q, b) \in net'
      BY <1>e, <1>2, <1>3, <1>6, SpreadReaches
    <3> QED
      BY <1>7, <3>1 DEF Coming, Of
  <2>1. Coming(n, b)'
    BY <1>6, <1>7 DEF Coming
  <2>2. CASE n = Owner
    <3>1. \A m \in Members : m # n /\ m \in Candidates(n, TRUE, mine)
      BY <2>2 DEF Candidates, Members
    <3> QED
      BY <1>7, <2>0, <2>1, <2>2, <3>1 DEF Handed
  <2>3. CASE n # Owner
    <3>1. Coming(Owner, b)'
      BY <2>0, <2>3 DEF Candidates
    <3>2. node'[Owner] = node[Owner]
      BY <1>9, <2>3, Grown, SwarmAssumption
    <3>3. b \in node[Owner].held => \A m \in Members : Coming(m, b)
      BY <1>1, SwarmAssumption DEF CalmInv, Served, Handed
    <3> QED
      BY <1>7, <1>10, <3>1, <3>2, <3>3 DEF Handed, Members
  <2> QED
    BY <2>2, <2>3
<1> QED
  BY <1>3, <1>6, <1>9, <1>11, CalmQuiet

LEMMA CalmGrant ==
    ASSUME AddressInv, CalmInv, NEW p \in Nodes, Grant(p)
    PROVE  CalmInv'
<1>b. PICK b : b = [author |-> Owner, seq |-> NextSeq(Owner), to |-> p]
  OBVIOUS
<1>m. PICK mine : mine = [node[Owner] EXCEPT !.held = @ \cup {b}]
  OBVIOUS
<1>1. Owner \in Nodes /\ b.to \in Nodes /\ ~IsWord(b)
  BY <1>b, SwarmAssumption DEF IsWord
<1>2. Becomes(Owner, mine) /\ net' = net \cup {Of("block", Owner, p, b)}
      /\ UNCHANGED <<open, known, announced>>
  BY <1>b, <1>m DEF Grant
<1>3. /\ mine.held = node[Owner].held \cup {b} /\ mine.seen = node[Owner].seen
      /\ mine.awaited = node[Owner].awaited /\ mine.dialed = node[Owner].dialed
      /\ mine.attached = node[Owner].attached /\ mine.cooling = node[Owner].cooling
  BY <1>m, <1>1 DEF AddressInv, Mem
<1>4. node'[Owner] = mine
  BY <1>1, <1>2 DEF Becomes, AddressInv
<1>5. \A f \in net' : f \in net \/ FrameCalm(f)'
  BY <1>2, <1>3, <1>4 DEF FrameCalm, Of
<1>6. CalmTo(Owner, mine)
  BY <1>1, <1>2, <1>3, <1>5 DEF CalmTo, Grows, CalmInv, MemberCalm
<1> QED
  BY <1>1, <1>2, <1>3, <1>6, CalmQuiet DEF Served

LEMMA CalmAttach ==
    ASSUME AddressInv, CalmInv, NEW f \in net, f.kind = "attach", OnAttach(f),
           UNCHANGED <<open, known, announced>>
    PROVE  CalmInv'
<1>n. PICK n : n = f.dst
  OBVIOUS
<1>m. PICK me : me = [node[n] EXCEPT !.attached = @ \cup {f.src}]
  OBVIOUS
<1>1. n \in Nodes /\ node[n] \in Mem /\ n \in Serving
  BY <1>n, FrameParts DEF CalmInv, FrameCalm
<1>2. /\ Becomes(n, me)
      /\ \A g \in net' : g \in net \/ g.kind = "have"
      /\ \A g \in net : g \in net' \/ g = f
  BY <1>n, <1>m DEF OnAttach, Answer, Have
<1>3. /\ me.held = node[n].held /\ me.seen = node[n].seen /\ me.awaited = node[n].awaited
      /\ me.dialed = node[n].dialed /\ me.cooling = node[n].cooling
  BY <1>m, <1>1 DEF Mem
<1>4. \A g \in net' : g \in net \/ FrameCalm(g)'
  BY <1>2 DEF FrameCalm
<1>5. CalmTo(n, me)
  BY <1>1, <1>2, <1>3, <1>4 DEF CalmTo, Grows, CalmInv, MemberCalm
<1> QED
  BY <1>2, <1>3, <1>5, CalmQuiet DEF Bearing

LEMMA CalmPrune ==
    ASSUME AddressInv, CalmInv, NEW f \in net, f.kind = "prune", OnPrune(f),
           UNCHANGED <<open, known, announced>>
    PROVE  CalmInv'
<1>n. PICK n : n = f.dst
  OBVIOUS
<1>m. PICK me : me = ToLazy(f.src, node[n])
  OBVIOUS
<1>1. n \in Nodes /\ node[n] \in Mem
  BY <1>n, FrameParts
<1>2. /\ Becomes(n, me)
      /\ \A g \in net' : g \in net
      /\ \A g \in net : g \in net' \/ g = f
  BY <1>n, <1>m DEF OnPrune, Answer
<1>3. /\ me.held = node[n].held /\ me.seen = node[n].seen /\ me.awaited = node[n].awaited
      /\ me.dialed = node[n].dialed /\ me.cooling = node[n].cooling
      /\ me.attached = node[n].attached
  BY <1>m, <1>1 DEF ToLazy, Mem
<1>5. CalmTo(n, me)
  BY <1>1, <1>2, <1>3 DEF CalmTo, Grows, CalmInv, MemberCalm
<1> QED
  BY <1>2, <1>3, <1>5, CalmQuiet DEF Bearing

LEMMA CalmHave ==
    ASSUME AddressInv, CalmInv, NEW f \in net, f.kind = "have", OnHave(f),
           UNCHANGED <<open, known, announced>>
    PROVE  CalmInv'
<1>1. /\ UNCHANGED node
      /\ \A g \in net' : g \in net \/ g.kind \in {"want", "have"}
      /\ \A g \in net : g \in net' \/ g = f
  <2>1. \A p, q, a, h : Want(p, q, a, h).kind = "want"
    BY DEF Want
  <2>2. \A p, q, me : Have(p, q, me).kind = "have"
    BY DEF Have
  <2> QED
    BY <2>1, <2>2 DEF OnHave, Answer
<1>2. \A g \in net' : g \in net \/ FrameCalm(g)'
  BY <1>1 DEF FrameCalm
<1>3. CalmTo(Owner, node[Owner])
  BY <1>1, <1>2, CalmStill
<1> QED
  BY <1>1, <1>3, CalmQuiet DEF Bearing

LEMMA CalmWant ==
    ASSUME AddressInv, CalmInv, NEW f \in net, f.kind = "want", OnWant(f),
           UNCHANGED <<open, known, announced>>
    PROVE  CalmInv'
<1>1. /\ UNCHANGED node
      /\ \A g \in net' : \/ g \in net
                         \/ g.kind = "block" /\ g.src = f.dst /\ g.block \in node[f.dst].held
      /\ \A g \in net : g \in net' \/ g = f
  BY DEF OnWant, Answer, Of, VisibleTo
<1>2. \A g \in net' : g \in net \/ FrameCalm(g)'
  BY <1>1 DEF FrameCalm
<1>3. CalmTo(Owner, node[Owner])
  BY <1>1, <1>2, CalmStill
<1> QED
  BY <1>1, <1>3, CalmQuiet DEF Bearing

LEMMA CalmSweep ==
    ASSUME AddressInv, CalmInv, NEW n \in Nodes, Sweep(n)
    PROVE  CalmInv'
<1>1. PICK gone \in SUBSET node[n].attached :
        LET kept == [node[n] EXCEPT !.attached = @ \ gone, !.eager = @ \ gone,
                                    !.lazy = @ \ gone, !.heard = FALSE]
        IN /\ \E up \in SUBSET kept.lazy :
                Becomes(n, [kept EXCEPT !.lazy = @ \ up, !.eager = @ \cup up,
                                        !.dialed = @ \cup Targets(n)])
           /\ net \subseteq net'
           /\ net' \subseteq net \cup (UNION {Attach(n, p, kept) : p \in Targets(n)})
                                \cup {Have(n, Owner, kept)}
           /\ UNCHANGED <<open, known, announced>>
  BY DEF Sweep
<1>k. PICK kept : kept = [node[n] EXCEPT !.attached = @ \ gone, !.eager = @ \ gone,
                                         !.lazy = @ \ gone, !.heard = FALSE]
  OBVIOUS
<1>2. node[n] \in Mem
  BY DEF AddressInv
<1>3. kept \in Mem /\ kept.held = node[n].held /\ kept.seen = node[n].seen
      /\ kept.awaited = node[n].awaited /\ kept.dialed = node[n].dialed
      /\ kept.attached \subseteq node[n].attached /\ kept.cooling = node[n].cooling
  BY <1>k, <1>2 DEF Mem
<1>4. Targets(n) \subseteq Serving
  BY DEF Targets, Serving, CalmInv
<1>5. PICK up \in SUBSET kept.lazy :
        Becomes(n, [kept EXCEPT !.lazy = @ \ up, !.eager = @ \cup up,
                                !.dialed = @ \cup Targets(n)])
  BY <1>1, <1>k
<1>m. PICK me : me = [kept EXCEPT !.lazy = @ \ up, !.eager = @ \cup up,
                                  !.dialed = @ \cup Targets(n)]
  OBVIOUS
<1>6. /\ me.held = node[n].held /\ me.seen = node[n].seen /\ me.awaited = node[n].awaited
      /\ me.dialed \subseteq Serving /\ me.cooling = node[n].cooling
      /\ me.attached \subseteq node[n].attached
  BY <1>3, <1>4, <1>m DEF Mem, CalmInv, MemberCalm
<1>7. \A f \in net' : f \in net \/ FrameCalm(f)'
  <2>1. \A f \in net' : f \in net \/ f.kind = "have" \/ (f.kind = "attach" /\ f.dst \in Targets(n))
    <3>1. \A f \in net' : \/ f \in net
                          \/ \E p \in Targets(n) : f \in Attach(n, p, kept)
                          \/ f = Have(n, Owner, kept)
      <4>1. net' \subseteq net \cup (UNION {Attach(n, p, kept) : p \in Targets(n)})
                              \cup {Have(n, Owner, kept)}
        BY <1>1, <1>k
      <4> QED
        BY <4>1, Zenon
    <3>2. \A p : Have(n, p, kept).kind = "have"
      BY DEF Have
    <3>3. \A p : /\ Plain("attach", n, p).kind = "attach"
                 /\ Plain("attach", n, p).dst = p
      BY DEF Plain
    <3>4. ASSUME NEW f, NEW p \in Targets(n), f \in Attach(n, p, kept)
          PROVE  f.kind = "have" \/ (f.kind = "attach" /\ f.dst \in Targets(n))
      <4>1. f = Plain("attach", n, p) \/ f = Have(n, p, kept)
        BY <3>4 DEF Attach
      <4> QED
        BY <3>2, <3>3, <4>1
    <3> QED
      BY <3>1, <3>2, <3>4
  <2>2. Serving' = Serving
    BY <1>1 DEF Serving
  <2> QED
    BY <1>4, <2>1, <2>2 DEF FrameCalm
<1>8. CalmTo(n, me)
  BY <1>1, <1>5, <1>m, <1>6, <1>7 DEF CalmTo, Grows, CalmInv, MemberCalm
<1> QED
  BY <1>1, <1>6, <1>8, CalmQuiet

LEMMA CalmHour == AddressInv /\ CalmInv /\ NewHour => CalmInv'
<1> SUFFICES ASSUME AddressInv, CalmInv, NewHour PROVE CalmInv'
  OBVIOUS
<1>1. /\ node' = [n \in Nodes |-> [node[n] EXCEPT !.cooling = {}]]
      /\ UNCHANGED <<open, known, announced, net>>
  BY DEF NewHour
<1>2. \A n \in Nodes :
        /\ node'[n].held = node[n].held /\ node'[n].seen = node[n].seen
        /\ node'[n].awaited = node[n].awaited /\ node'[n].dialed = node[n].dialed
        /\ node'[n].attached = node[n].attached /\ node'[n].cooling = {}
  <2>1. \A me \in Mem : LET cool == [me EXCEPT !.cooling = {}] IN
          /\ cool.held = me.held /\ cool.seen = me.seen /\ cool.awaited = me.awaited
          /\ cool.dialed = me.dialed /\ cool.attached = me.attached /\ cool.cooling = {}
    BY DEF Mem
  <2> QED
    BY <1>1, <2>1 DEF AddressInv
<1>3. Serving' = Serving /\ Members' = Members
  BY <1>1 DEF Serving, Members
<1>4. \A p \in Nodes : \A b : Vouched(p, b)' = Vouched(p, b)
  BY <1>2, <1>3 DEF Vouched, IsWord
<1>5. \A n \in Nodes : \A b : Coming(n, b)' = Coming(n, b)
  BY <1>1, <1>2, <1>3 DEF Coming
<1>6. \A f \in net' : FrameCalm(f)'
  BY <1>1, <1>2, <1>3, <1>4, FrameParts DEF CalmInv, FrameCalm
<1>7. \A n \in Nodes : MemberCalm(n, node[n])'
  BY <1>2, <1>3 DEF CalmInv, MemberCalm
<1>8. \A n \in Nodes : \A w \in node'[n].awaited : AwaitCalm(n, w)'
  <2> TAKE n \in Nodes
  <2> TAKE w \in node'[n].awaited
  <2>1. w.who \in Nodes /\ w \in node[n].awaited
    BY <1>2 DEF AddressInv, Mem
  <2>2. Answering(n, w)' = Answering(n, w)
    BY <1>1, <1>2 DEF Answering
  <2> QED
    BY <1>3, <1>4, <2>1, <2>2 DEF CalmInv, AwaitCalm
<1>9. \A n \in Nodes : \A b \in node'[n].held : Served(b)' => Handed(b)'
  <2> TAKE n \in Nodes
  <2> TAKE b \in node'[n].held
  <2>1. Owner \in Nodes /\ Members \subseteq Nodes
    BY SwarmAssumption DEF Members
  <2>2. Served(b)' = Served(b) /\ Handed(b)' = Handed(b)
    BY <1>2, <1>3, <1>5, <2>1 DEF Served, Handed, IsWord
  <2> QED
    BY <1>2, <2>2 DEF CalmInv
<1> QED
  BY <1>1, <1>6, <1>7, <1>8, <1>9 DEF CalmInv

LEMMA CalmRepeat ==
    ASSUME AddressInv, CalmInv, NEW f \in net, f.kind = "block", OnRepeat(f),
           UNCHANGED <<open, known, announced>>
    PROVE  CalmInv'
<1>1. /\ UNCHANGED node
      /\ \A g \in net' : g \in net \/ g.kind = "prune"
      /\ \A g \in net : g \in net' \/ g = f
  BY DEF OnRepeat, Answer, Plain
<1>2. f.dst \in Nodes /\ f.block \in node[f.dst].seen /\ f.block \in node[f.dst].held
  BY FrameParts DEF OnRepeat, CalmInv, MemberCalm
<1>3. \A g \in net' : g \in net \/ FrameCalm(g)'
  BY <1>1 DEF FrameCalm
<1>4. CalmTo(Owner, node[Owner])
  BY <1>1, <1>3, CalmStill
<1>5. \A m \in Nodes : \A w : Answering(m, w) => Answering(m, w)'
  BY <1>1, <1>2 DEF Answering, Of
<1>6. Serving' = Serving
  BY DEF Serving
<1>7. \A m \in Nodes : \A b : Coming(m, b) => Coming(m, b)'
  BY <1>1, <1>2, <1>6 DEF Coming
<1> QED
  BY <1>4, <1>5, <1>7, CalmStep

\* A call is dropped only when its caller does not serve, or the block is here
\* or awaited from one who does.
LEMMA CalmIHave ==
    ASSUME AddressInv, CalmInv, NEW f \in net, f.kind = "ihave", OnIHave(f),
           UNCHANGED <<open, known, announced>>
    PROVE  CalmInv'
<1>n. PICK n : n = f.dst
  OBVIOUS
<1>w. PICK v : v = [block |-> f.block, who |-> f.src, asked |-> FALSE]
  OBVIOUS
<1>1. /\ n \in Nodes /\ node[n] \in Mem /\ Vouched(f.src, f.block)
      /\ MemberCalm(n, node[n]) /\ f.src \in Nodes
      /\ \A w \in node[n].awaited : Vouched(w.who, w.block)
  BY <1>n, FrameParts DEF CalmInv, FrameCalm, AwaitCalm
<1>m. PICK me : me = IF Ignored(f) THEN node[n] ELSE [node[n] EXCEPT !.awaited = @ \cup {v}]
  OBVIOUS
<1>2. Becomes(n, me) /\ net' = net \ {f}
  <2>1. net' = net \ {f}
    BY DEF OnIHave, Answer
  <2>2. Ignored(f) => Becomes(n, me)
    <3> SUFFICES ASSUME Ignored(f) PROVE Becomes(n, me)
      OBVIOUS
    <3>1. UNCHANGED node
      BY DEF OnIHave
    <3> QED
      BY <1>m, <3>1 DEF Becomes, AddressInv
  <2>3. ~Ignored(f) => Becomes(n, me)
    BY <1>m, <1>n, <1>w DEF OnIHave, Becomes
  <2> QED
    BY <2>1, <2>2, <2>3
<1>3. /\ me.held = node[n].held /\ me.seen = node[n].seen /\ me.dialed = node[n].dialed
      /\ me.attached = node[n].attached /\ me.cooling = node[n].cooling
      /\ node[n].awaited \subseteq me.awaited
      /\ \A w \in me.awaited : w \in node[n].awaited \/ w = v
      /\ ~Ignored(f) => v \in me.awaited
  BY <1>m, <1>1 DEF Mem
<1>4. /\ node'[n] = me /\ \A m \in Nodes : m # n => node'[m] = node[m]
      /\ Serving' = Serving
  BY <1>1, <1>2 DEF Becomes, AddressInv, Serving
<1>5. AwaitCalm(n, v)'
  BY <1>w, <1>1, <1>3, <1>4 DEF AwaitCalm, Vouched, IsWord
<1>6. CalmTo(n, me)
  BY <1>1, <1>2, <1>3, <1>5 DEF CalmTo, Grows, MemberCalm
<1>7. \A m \in Nodes : \A w : Answering(m, w) => Answering(m, w)'
  BY <1>2, <1>3, <1>4 DEF Answering, Of
<1>8. \A m \in Nodes : \A b : Served(b) /\ Coming(m, b) => Coming(m, b)'
  <2> TAKE m \in Nodes
  <2> TAKE b
  <2> HAVE Served(b) /\ Coming(m, b)
  <2>1. CASE m = n /\ b = f.block /\ f.src \in Serving /\ Ignored(f)
    <3>1. f.src \notin node[n].cooling
      BY <1>1, <2>1 DEF MemberCalm
    <3>2. b \in node[n].seen => b \in node'[n].held
      BY <1>1, <1>3, <1>4 DEF MemberCalm
    <3>3. ASSUME NEW w \in node[n].awaited, w.block = b PROVE Coming(n, b)'
      <4>1. w.who \in Serving'
        BY <1>1, <1>4, <3>3 DEF Vouched, Served
      <4> QED
        BY <1>3, <1>4, <3>3, <4>1 DEF Coming
    <3> QED
      BY <1>n, <2>1, <3>1, <3>2, <3>3 DEF Ignored, Coming
  <2>2. CASE m = n /\ b = f.block /\ f.src \in Serving /\ ~Ignored(f)
    BY <1>w, <1>3, <1>4, <2>2 DEF Coming
  <2>3. CASE ~(m = n /\ b = f.block /\ f.src \in Serving)
    BY <1>n, <1>2, <1>3, <1>4, <2>3 DEF Coming
  <2> QED
    BY <2>1, <2>2, <2>3
<1> QED
  BY <1>3, <1>6, <1>7, <1>8, CalmStep

\* Who brought a block holds it: so if it is the owner's news, it was handed on.
LEMMA CalmBlock ==
    ASSUME AddressInv, CalmInv, NEW f \in net, f.kind = "block", OnBlock(f),
           UNCHANGED <<open, known, announced>>
    PROVE  CalmInv'
<1>n. PICK n : n = f.dst
  OBVIOUS
<1>b. PICK b : b = f.block
  OBVIOUS
<1>m. PICK me : me = [node[n] EXCEPT !.seen = @ \cup {b}, !.held = @ \cup {b},
                                     !.heard = @ \/ (IsWord(b) /\ b.author = Owner)]
  OBVIOUS
<1>t. PICK met : met = Answered(f.src, me)
  OBVIOUS
<1>1. /\ n \in Nodes /\ f.src \in Nodes /\ b \in AnyBlock /\ Open(n, b)
      /\ node[n] \in Mem /\ MemOK(n, node[n]) /\ b \in node[f.src].held
      /\ MemberCalm(n, node[n])
  BY <1>n, <1>b, FrameParts DEF CalmInv, FrameCalm
<1>2. IsFiniteSet(node[n].held \cup {b})
  BY <1>1, FS_AddElement DEF MemOK
<1>3. /\ me \in Mem
      /\ me.held = node[n].held \cup {b} /\ me.seen = node[n].seen \cup {b}
      /\ me.awaited = node[n].awaited /\ me.dialed = node[n].dialed
      /\ me.attached = node[n].attached /\ me.cooling = node[n].cooling
  BY <1>m, <1>1 DEF Mem, IsWord
<1>4. /\ met \in Mem
      /\ met.held = me.held /\ met.seen = me.seen /\ met.awaited = me.awaited
      /\ met.dialed = me.dialed /\ met.attached = me.attached
      /\ met.cooling \subseteq me.cooling
  BY <1>t, <1>3 DEF Answered, Mem
<1>5. MemOK(n, met)
  BY <1>1, <1>2, <1>3, <1>4 DEF MemOK
<1>6. \/ ~IsWord(b) /\ Becomes(n, me) /\ net' = net \ {f}
      \/ /\ IsWord(b)
         /\ \E E \in Splits(n, FALSE, met) :
              /\ Becomes(n, Split(n, FALSE, met, E))
              /\ net' = (net \ {f}) \cup Spread(n, f.src, Split(n, FALSE, met, E), b)
  BY <1>n, <1>b, <1>m, <1>t DEF OnBlock, Answer
\* what both cases share
<1>7. ASSUME NEW on, Becomes(n, on), on.held = me.held, on.seen = me.seen,
             on.awaited = me.awaited, on.dialed = me.dialed,
             on.attached = me.attached, on.cooling \subseteq me.cooling,
             net \ {f} \subseteq net', \A g \in net' : g \in net \/ FrameCalm(g)',
             (Served(b) /\ n = Owner) =>
                 \A m \in Members : m # f.src => Coming(m, b)'
      PROVE  CalmInv'
  <2>1. CalmTo(n, on)
    BY <1>1, <1>3, <1>7 DEF CalmTo, Grows, MemberCalm
  <2>2. /\ node'[n] = on /\ \A m \in Nodes : m # n => node'[m] = node[m]
        /\ \A m \in Nodes : Grows(m, node'[m])
        /\ Serving' = Serving /\ Members' = Members
    BY <2>1, Grown
  <2>3. b \in node'[n].held /\ b \in node'[n].seen
    BY <1>3, <1>7, <2>2
  <2>4. \A m \in Nodes : node'[m].awaited = node[m].awaited
    BY <1>3, <1>7, <2>2
  <2>5. \A m \in Nodes : \A w : Answering(m, w) => Answering(m, w)'
    BY <1>n, <1>b, <1>7, <2>2, <2>3 DEF Answering, Of, Grows
  <2>6. \A m \in Nodes : \A c : Coming(m, c) => Coming(m, c)'
    BY <1>n, <1>b, <1>7, <2>2, <2>3, <2>4 DEF Coming, Grows
  <2>7. Served(b) => Handed(b)'
    <3> SUFFICES ASSUME Served(b) PROVE Handed(b)'
      OBVIOUS
    <3>1. Owner \in Nodes /\ Members \subseteq Nodes
      BY SwarmAssumption DEF Members
    <3>2. Handed(b)
      BY <1>1 DEF CalmInv
    <3>3. Coming(Owner, b)'
      BY <2>6, <3>1, <3>2 DEF Handed
    <3>4. CASE n = Owner
      <4>1. Coming(f.src, b)'
        BY <1>1, <2>2 DEF Coming, Grows
      <4> QED
        BY <1>7, <2>2, <3>3, <3>4, <4>1 DEF Handed
    <3>5. CASE n # Owner
      <4>1. node'[Owner] = node[Owner]
        BY <2>2, <3>1, <3>5
      <4> QED
        BY <2>2, <2>6, <3>1, <3>2, <3>3, <4>1 DEF Handed
    <3> QED
      BY <3>4, <3>5
  <2>8. \A c \in on.held : c \in node[n].held \/ (Served(c) => Handed(c)')
    BY <1>3, <1>7, <2>7
  <2> QED
    BY <2>1, <2>5, <2>6, <2>8, CalmStep
<1>8. CASE ~IsWord(b) /\ Becomes(n, me) /\ net' = net \ {f}
  BY <1>7, <1>8 DEF Served
<1>9. ASSUME IsWord(b), NEW E \in Splits(n, FALSE, met), NEW on,
             on = Split(n, FALSE, met, E), Becomes(n, on),
             net' = (net \ {f}) \cup Spread(n, f.src, on, b)
      PROVE  CalmInv'
  <2>1. /\ on.held = met.held /\ on.seen = met.seen /\ on.awaited = met.awaited
        /\ on.dialed = met.dialed /\ on.attached = met.attached /\ on.cooling = met.cooling
        /\ E \in SUBSET Candidates(n, FALSE, met)
        /\ on.lazy \subseteq Candidates(n, FALSE, met)
    BY <1>1, <1>5, <1>9, SplitFields, Zenon
  <2>2. node'[n] = on /\ Serving' = Serving /\ Members' = Members
    BY <1>1, <1>9 DEF Becomes, AddressInv, Serving, Members
  <2>3. b \in node'[n].held
    BY <1>3, <1>4, <2>1, <2>2
  <2>4. on.lazy # {} => n \in Serving
    BY <1>1, <1>3, <1>4, <2>1 DEF Candidates, MemberCalm, Serving
  <2>5. \A g \in net' : g \in net \/ FrameCalm(g)'
    <3> TAKE g \in net'
    <3>1. CASE g \in Spread(n, f.src, on, b)
      <4>1. /\ g.src = n /\ g.block = b
            /\ g.kind = "block" \/ (g.kind = "ihave" /\ on.lazy # {})
        BY <3>1 DEF Spread, Of
      <4>2. on.lazy # {} => Vouched(n, b)'
        BY <1>9, <2>2, <2>3, <2>4 DEF Vouched, IsWord
      <4> QED
        BY <2>3, <4>1, <4>2 DEF FrameCalm
    <3> QED
      BY <1>9, <3>1
  <2>6. (Served(b) /\ n = Owner) => \A m \in Members : m # f.src => Coming(m, b)'
    <3> SUFFICES ASSUME n = Owner, NEW m \in Members, m # f.src PROVE Coming(m, b)'
      OBVIOUS
    <3>1. m \in Candidates(n, FALSE, met)
      BY DEF Candidates
    <3>2. Of("block", n, m, b) \in net' \/ Of("ihave", n, m, b) \in net'
      BY <1>1, <1>5, <1>9, <2>1, <3>1, SpreadReaches
    <3>3. n \in Serving'
      BY <2>2 DEF Serving
    <3> QED
      BY <3>2, <3>3 DEF Coming, Of
  <2> QED
    BY <1>3, <1>4, <1>7, <1>9, <2>1, <2>5, <2>6
<1> QED
  BY <1>6, <1>8, <1>9

\* Who serves answers every question for what it called out.
LEMMA CalmGraft ==
    ASSUME AddressInv, CalmInv, NEW f \in net, f.kind = "graft", OnGraft(f),
           UNCHANGED <<open, known, announced>>
    PROVE  CalmInv'
<1>n. PICK n : n = f.dst
  OBVIOUS
<1>1. n \in Nodes /\ f.src \in Nodes /\ node[n] \in Mem
  BY <1>n, FrameParts
<1>m. PICK me : me = IF MayServe(n, f.src, node[n]) THEN ToEager(f.src, node[n]) ELSE node[n]
  OBVIOUS
<1>2. Becomes(n, me)
  <2>1. MayServe(n, f.src, node[n]) => Becomes(n, me)
    BY <1>n, <1>m DEF OnGraft
  <2>2. ~MayServe(n, f.src, node[n]) => node' = node
    BY <1>n DEF OnGraft
  <2> QED
    BY <1>m, <2>1, <2>2 DEF Becomes, AddressInv
<1>3. /\ \A g \in net' : \/ g \in net
                         \/ g.kind = "block" /\ g.src = n /\ g.block \in node[n].held
      /\ \A g \in net : g \in net' \/ g = f
  BY <1>n DEF OnGraft, Answer, Given, Of
<1>4. /\ me.held = node[n].held /\ me.seen = node[n].seen /\ me.awaited = node[n].awaited
      /\ me.dialed = node[n].dialed /\ me.cooling = node[n].cooling
      /\ me.attached = node[n].attached
  BY <1>m, <1>1 DEF ToEager, Mem
<1>5. /\ node'[n] = me /\ \A m \in Nodes : m # n => node'[m] = node[m]
      /\ Serving' = Serving
  BY <1>1, <1>2 DEF Becomes, AddressInv, Serving
<1>6. \A g \in net' : g \in net \/ FrameCalm(g)'
  BY <1>3, <1>4, <1>5 DEF FrameCalm
<1>7. CalmTo(n, me)
  BY <1>1, <1>2, <1>4, <1>6 DEF CalmTo, Grows, CalmInv, MemberCalm
<1>8. \A m \in Nodes : \A w \in node[m].awaited :
        Vouched(w.who, w.block) /\ w.who \in Serving /\ Answering(m, w) => Answering(m, w)'
  <2> TAKE m \in Nodes
  <2> TAKE w \in node[m].awaited
  <2> HAVE Vouched(w.who, w.block) /\ w.who \in Serving /\ Answering(m, w)
  <2>1. CASE f = Of("graft", m, w.who, w.block)
    <3>1. f.src = m /\ w.who = n /\ f.block = w.block
      BY <1>n, <2>1 DEF Of
    <3>2. MayServe(n, f.src, node[n])
      BY <3>1 DEF MayServe, Serving
    <3>3. Of("block", w.who, m, w.block) \in net'
      BY <1>n, <3>1, <3>2 DEF OnGraft, Answer, Given, Vouched
    <3> QED
      BY <3>3 DEF Answering
  <2>2. CASE f # Of("graft", m, w.who, w.block)
    <3>1. f # Of("block", w.who, m, w.block)
      BY DEF Of
    <3>2. node'[m].seen = node[m].seen
      BY <1>4, <1>5
    <3> QED
      BY <1>3, <2>2, <3>1, <3>2 DEF Answering
  <2> QED
    BY <2>1, <2>2
<1>9. \A m \in Nodes : \A b : Coming(m, b) => Coming(m, b)'
  BY <1>3, <1>4, <1>5 DEF Coming
<1> QED
  BY <1>4, <1>7, <1>8, <1>9, CalmStep

\* A call taken up is let go when the block is here, or its caller is cooled; it
\* counts as a miss only for who does not serve, unless an answer was late.
LEMMA CalmTimer ==
    ASSUME AddressInv, CalmInv, NEW n \in Nodes, NEW w \in node[n].awaited,
           GraftTimer(n, w), faults = 0, faults' = 0
    PROVE  CalmInv'
<1>c. PICK me : me = [node[n] EXCEPT !.awaited = @ \ {w}]
  OBVIOUS
<1>v. PICK v : v = [w EXCEPT !.asked = TRUE]
  OBVIOUS
<1>1. /\ node[n] \in Mem /\ MemberCalm(n, node[n]) /\ AwaitCalm(n, w)
      /\ w \in [block : AnyBlock, who : Nodes, asked : BOOLEAN]
  BY DEF AddressInv, CalmInv, Mem
<1>2. v = [block |-> w.block, who |-> w.who, asked |-> TRUE]
  BY <1>1, <1>v
<1>3. /\ me \in Mem
      /\ me.held = node[n].held /\ me.seen = node[n].seen
      /\ me.awaited = node[n].awaited \ {w}
      /\ me.dialed = node[n].dialed /\ me.attached = node[n].attached
      /\ me.cooling = node[n].cooling
  BY <1>1, <1>c DEF Mem
\* what every outcome shares
<1>4. ASSUME NEW on, Becomes(n, on), on.held = me.held, on.seen = me.seen,
             on.dialed = me.dialed, on.attached = me.attached,
             on.cooling \cap Serving = {},
             me.awaited \subseteq on.awaited,
             \A u \in on.awaited : u \in me.awaited \/ AwaitCalm(n, u)',
             net \subseteq net', \A g \in net' : g \in net \/ FrameCalm(g)',
             w.who \in Serving => (w.block \in node[n].held \/ v \in on.awaited),
             UNCHANGED <<open, known, announced>>
      PROVE  CalmInv'
  <2>1. CalmTo(n, on)
    BY <1>1, <1>3, <1>4 DEF CalmTo, Grows, MemberCalm
  <2>2. /\ node'[n] = on /\ \A m \in Nodes : m # n => node'[m] = node[m]
        /\ \A m \in Nodes : Grows(m, node'[m])
        /\ Serving' = Serving
    BY <2>1, Grown
  <2>3. \A m \in Nodes : \A u : Answering(m, u) => Answering(m, u)'
    BY <1>4, <2>2 DEF Answering, Grows
  <2>4. \A m \in Nodes : \A b : Coming(m, b) => Coming(m, b)'
    <3> TAKE m \in Nodes
    <3> TAKE b
    <3> HAVE Coming(m, b)
    <3>1. CASE m = n /\ w.block = b /\ w.who \in Serving
      <4>1. v.block = b /\ v.who \in Serving'
        BY <1>2, <2>2, <3>1
      <4> QED
        BY <1>3, <1>4, <2>2, <3>1, <4>1 DEF Coming
    <3>2. CASE ~(m = n /\ w.block = b /\ w.who \in Serving)
      <4>1. \A u \in node[m].awaited :
              u.block = b /\ u.who \in Serving => u \in node'[m].awaited
        BY <1>3, <1>4, <2>2, <3>2
      <4> QED
        BY <1>4, <2>2, <4>1 DEF Coming, Grows
    <3> QED
      BY <3>1, <3>2
  <2>5. \A b \in on.held : b \in node[n].held
    BY <1>3, <1>4
  <2> QED
    BY <2>1, <2>3, <2>4, <2>5, CalmStep
<1>5. UNCHANGED <<open, known, announced>>
  BY DEF GraftTimer
<1>6. CASE /\ w.block \in me.seen \/ (~w.asked /\ w.who \in me.cooling)
           /\ Becomes(n, me) /\ UNCHANGED net
  BY <1>1, <1>3, <1>4, <1>5, <1>6 DEF MemberCalm
<1>7. CASE /\ w.block \notin me.seen /\ w.asked
           /\ Becomes(n, Missed(w.who, me)) /\ UNCHANGED net
  <2>1. w.who \notin Serving
    <3>1. {Of("graft", n, w.who, w.block), Of("block", w.who, n, w.block)} \cap net = {}
      BY <1>7 DEF GraftTimer
    <3> QED
      BY <1>1, <1>3, <1>7, <3>1 DEF AwaitCalm, Answering
  <2>2. PICK on : on = Missed(w.who, me)
    OBVIOUS
  <2>3. /\ on.held = me.held /\ on.seen = me.seen /\ on.awaited = me.awaited
        /\ on.dialed = me.dialed /\ on.attached = me.attached
        /\ on.cooling \subseteq me.cooling \cup {w.who}
    <3> DEFINE k == me.misses[w.who] + 1
    <3>1. \/ on = [me EXCEPT !.misses[w.who] = k]
          \/ on = [me EXCEPT !.misses[w.who] = MaxMisses]
          \/ on = [me EXCEPT !.misses[w.who] = 0, !.cooling = @ \cup {w.who}]
      BY <2>2, Zenon DEF Missed
    <3> HIDE DEF k
    <3> QED
      BY <1>3, <3>1 DEF Mem
  <2>4. on.cooling \cap Serving = {}
    BY <1>1, <1>3, <2>1, <2>3 DEF MemberCalm
  <2> QED
    BY <1>4, <1>5, <1>7, <2>1, <2>2, <2>3, <2>4
<1>8. CASE /\ w.block \notin me.seen /\ ~w.asked /\ w.who \notin me.cooling
           /\ Becomes(n, ToEager(w.who, [me EXCEPT !.awaited = @ \cup {v}]))
           /\ net' = net \cup {Of("graft", n, w.who, w.block)}
  <2>1. PICK on : on = ToEager(w.who, [me EXCEPT !.awaited = @ \cup {v}])
    OBVIOUS
  <2>2. /\ on.held = me.held /\ on.seen = me.seen /\ on.awaited = me.awaited \cup {v}
        /\ on.dialed = me.dialed /\ on.attached = me.attached /\ on.cooling = me.cooling
    BY <1>3, <2>1 DEF ToEager, Mem
  <2>3. AwaitCalm(n, v)'
    <3>1. Of("graft", n, v.who, v.block) \in net'
      BY <1>2, <1>8
    <3>2. /\ node[v.who].held \subseteq node'[v.who].held
          /\ Serving' = Serving
      BY <1>1, <1>2, <1>3, <1>5, <1>8, <2>1, <2>2 DEF Becomes, AddressInv, Serving
    <3> QED
      BY <1>1, <1>2, <3>1, <3>2 DEF AwaitCalm, Answering, Vouched, IsWord
  <2>4. \A g \in net' : g \in net \/ FrameCalm(g)'
    BY <1>8 DEF FrameCalm, Of
  <2>5. on.cooling \cap Serving = {}
    BY <1>1, <1>3, <2>2 DEF MemberCalm
  <2> QED
    BY <1>4, <1>5, <1>8, <2>1, <2>2, <2>3, <2>4, <2>5
<1> QED
  BY <1>c, <1>v, <1>6, <1>7, <1>8 DEF GraftTimer

-----------------------------------------------------------------------------
(* All steps together. *)

LEMMA TreeInit == Init => TreeInv
<1> SUFFICES ASSUME Init PROVE TreeInv
  OBVIOUS
<1>1. \A n \in Nodes : node[n] = Woken({Document}, {Document}, FALSE)
  BY DEF Init
<1>2. \A n \in Nodes :
        /\ node[n].held = {Document} /\ node[n].seen = {Document}
        /\ node[n].dialed = {} /\ node[n].attached = {} /\ node[n].awaited = {}
        /\ node[n].cooling = {}
  BY <1>1 DEF Woken
<1>3. known = announced /\ Owner \notin announced /\ net = {} /\ faults = 0
  BY SwarmAssumption DEF Init
<1>4. \A n \in Nodes : MemberCalm(n, node[n])
  BY <1>2 DEF MemberCalm
<1>5. Owner \in Nodes /\ Members \subseteq Nodes
  BY SwarmAssumption DEF Members
<1>6. \A m \in Nodes : \A b \in {Document} : Coming(m, b)
  BY <1>2 DEF Coming
<1>7. \A n \in Nodes : \A b \in node[n].held : Handed(b)
  BY <1>2, <1>5, <1>6 DEF Handed
<1> QED
  BY <1>2, <1>3, <1>4, <1>7 DEF TreeInv, CalmInv

LEMMA CalmReceive ==
    ASSUME AddressInv, CalmInv, NEW f \in net, Receive(f)
    PROVE  CalmInv'
<1>1. UNCHANGED <<open, known, announced>>
  BY DEF Receive
<1>2. CASE f.kind = "block" /\ (OnRepeat(f) \/ OnBlock(f))
  BY <1>1, <1>2, CalmRepeat, CalmBlock
<1>3. CASE f.kind = "attach" /\ OnAttach(f)
  BY <1>1, <1>3, CalmAttach
<1>4. CASE f.kind = "ihave" /\ OnIHave(f)
  BY <1>1, <1>4, CalmIHave
<1>5. CASE f.kind = "graft" /\ OnGraft(f)
  BY <1>1, <1>5, CalmGraft
<1>6. CASE f.kind = "prune" /\ OnPrune(f)
  BY <1>1, <1>6, CalmPrune
<1>7. CASE f.kind = "have" /\ OnHave(f)
  BY <1>1, <1>7, CalmHave
<1>8. CASE f.kind = "want" /\ OnWant(f)
  BY <1>1, <1>8, CalmWant
<1> QED
  BY <1>2, <1>3, <1>4, <1>5, <1>6, <1>7, <1>8 DEF Receive

\* A step that leaves nothing to excuse leaves nothing wrong.
LEMMA TreeNext == AddressInv /\ TreeInv /\ [Next]_vars => TreeInv'
<1> SUFFICES ASSUME AddressInv, TreeInv, [Next]_vars PROVE TreeInv'
  OBVIOUS
<1> USE DEF TreeInv
<1>1. ASSUME NEW f \in net, Receive(f) PROVE TreeInv'
  BY <1>1, CalmReceive DEF Receive
<1>2. ASSUME NEW n \in Nodes, NEW w \in node[n].awaited, GraftTimer(n, w) PROVE TreeInv'
  <2>1. faults' = faults \/ faults' = faults + 1
    BY <1>2 DEF GraftTimer
  <2> QED
    BY <1>2, <2>1, CalmTimer
<1>3. ASSUME NEW n \in Nodes, Sweep(n) PROVE TreeInv'
  <2>1. PICK gone \in SUBSET node[n].attached : faults' = faults + Cardinality(gone)
    BY <1>3 DEF Sweep
  <2>2. Cardinality(gone) \in Nat
    BY SwarmAssumption, FS_Subset, FS_CardinalityType DEF AddressInv, Mem
  <2> QED
    BY <1>3, <2>1, <2>2, CalmSweep
<1>4. CASE NewHour
  BY <1>4, CalmHour DEF NewHour
<1>5. ASSUME NEW n \in Nodes, Say(n) \/ Grant(n) PROVE TreeInv'
  BY <1>5, CalmSay, CalmGrant DEF Say, Grant
<1>6. ASSUME NEW n \in Nodes, Restart(n) \/ Stop(n) PROVE TreeInv'
  BY <1>6 DEF Restart, Stop, Fault
<1>7. ASSUME NEW n \in Nodes, Lapse(n) PROVE TreeInv'
  BY <1>7 DEF Lapse, CalmInv
<1>8. ASSUME NEW f \in net, Lose(f) PROVE TreeInv'
  BY <1>8 DEF Lose, Fault
<1>9. ASSUME NEW n \in Nodes, NEW p \in Nodes, Reattach(n, p) PROVE TreeInv'
  BY <1>9 DEF Reattach, Fault
<1>10. CASE UNCHANGED vars
  <2>1. UNCHANGED <<open, node, known, announced, net, faults>>
    BY <1>10 DEF vars
  <2>2. CASE faults = 0
    <3>1. CalmInv /\ UNCHANGED <<open, known, announced, node>>
          /\ \A f \in net' : f \in net \/ FrameCalm(f)'
      BY <2>1, <2>2
    <3>2. CalmTo(Owner, node[Owner])
      BY <3>1, CalmStill
    <3>3. CalmInv'
      BY <2>1, <3>1, <3>2, CalmQuiet
    <3> QED
      BY <2>1, <3>3
  <2> QED
    BY <2>1, <2>2
<1> QED
  BY <1>1, <1>2, <1>3, <1>4, <1>5, <1>6, <1>7, <1>8, <1>9, <1>10 DEF Next, Progress

(***************************************************************************)
(* Without a fault the tree alone, with its cuts and its calls, brings     *)
(* every word of the owner and of the seeds to every member: push_block,   *)
(* on_ihave, on_graft and on_graft_timer together, however split_tree      *)
(* chooses, for any number of members and of seeds.                        *)
(***************************************************************************)
THEOREM TreeSuffices == Spec => []TreeReachesAll
<1>1. AddressInv /\ TreeInv => TreeReachesAll
  <2> SUFFICES ASSUME AddressInv, TreeInv, faults = 0, Settled,
                      NEW n \in Nodes, NEW m \in Nodes, NEW b \in node[n].held,
                      IsWord(b), b.author \in Serving, m \in Members
               PROVE  b \in node[m].held
    BY DEF TreeReachesAll
  <2>1. \A p \in Nodes : Coming(p, b) => b \in node[p].held
    BY DEF Settled, Coming
  <2>2. Handed(b)
    BY DEF TreeInv, CalmInv, Served
  <2> QED
    BY <2>1, <2>2, SwarmAssumption DEF Handed
<1> QED
  BY <1>1, AddressInit, AddressNext, TreeInit, TreeNext, PTL DEF Spec

(***************************************************************************)
(* Without a fault no seed is cooled: on_graft_timer counts a miss only    *)
(* against who did not answer, and a seed answers every question for what  *)
(* it called out, for any MISSES_BEFORE_COOLING, one included.             *)
(***************************************************************************)
THEOREM SlowIsNotSilent == Spec => []HonestNotCooled
<1>1. TreeInv => HonestNotCooled
  BY DEF TreeInv, CalmInv, MemberCalm, HonestNotCooled, Serving
<1> QED
  BY <1>1, AddressInit, AddressNext, TreeInit, TreeNext, PTL DEF Spec
=============================================================================
