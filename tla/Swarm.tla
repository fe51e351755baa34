------------------------------- MODULE Swarm -------------------------------
(***************************************************************************)
(* A channel handed round: its owner sends a block whole to a few (eager)  *)
(* and only a call to the rest (lazy); who reads takes from the seeds it   *)
(* has attached to; a block that comes twice has the edge cut, a call that *)
(* no block follows asks for it; and what the tree lost is found by        *)
(* comparing what each side has.  Trees, attachments and awaited blocks    *)
(* live in memory only; the archive and the window of repeats on disk.     *)
(***************************************************************************)
EXTENDS Naturals, FiniteSets

CONSTANTS
    Nodes,
    Owner,
    Writers,       \* who has the right to write
    Everyone,      \* the addressee of a block for all
    Shapes,        \* the channels: open or by invitation, and who announced itself a seed
    KEager,        \* K_EAGER
    MaxMisses,     \* MISSES_BEFORE_COOLING
    MaxBlocks,     \* bound: blocks said
    MaxFaults      \* bound: frames lost or late, restarts, seeds and readers gone

ASSUME SwarmAssumption ==
    /\ IsFiniteSet(Nodes) /\ Owner \in Nodes /\ Writers \subseteq Nodes /\ Everyone \notin Nodes
    /\ Shapes \subseteq [open : BOOLEAN, seeds : SUBSET (Nodes \ {Owner})]
    /\ KEager \in Nat \ {0} /\ MaxMisses \in Nat \ {0}
    /\ MaxBlocks \in Nat /\ MaxFaults \in Nat

VARIABLES
    open,          \* is the channel open: the owner knows no members
    node,          \* node[n]: the archive and repeats on disk, the rest in memory
    known,         \* the catalogue as the others see it
    announced,     \* who serves everyone: Seeding::Announced, the rest Quiet
    net,           \* the frames on their way
    swept,         \* bound: who has been round in this hour
    said, faults

vars == <<open, node, known, announced, net, swept, said, faults>>

Blocks == [author : Writers \cup {Owner}, seq : 0..MaxBlocks, to : Nodes \cup {Everyone}]
IsWord(b) == b.to = Everyone

\* the signed document: the first block of the owner, and everyone has it
Document == [author |-> Owner, seq |-> 0, to |-> Everyone]

\* the archive and the repeats are on disk, and when the owner was last heard
Woken(held, seen, heard) ==
    [held |-> held, seen |-> seen, heard |-> heard,
     attached |-> {}, dialed |-> {}, eager |-> {}, lazy |-> {},
     awaited |-> {}, misses |-> [p \in Nodes |-> 0], cooling |-> {}]

Init ==
    /\ \E s \in Shapes : /\ open = s.open
                         /\ known = s.seeds
                         /\ announced = s.seeds
    /\ node = [n \in Nodes |-> Woken({Document}, {Document}, FALSE)]
    /\ net = {} /\ swept = {} /\ said = 0 /\ faults = 0

-----------------------------------------------------------------------------
(* The frames. *)

Plain(kind, p, q) == [kind |-> kind, src |-> p, dst |-> q]
Of(kind, p, q, b) == [kind |-> kind, src |-> p, dst |-> q, block |-> b]
Want(p, q, a, hole) == [kind |-> "want", src |-> p, dst |-> q, author |-> a,
                        first |-> hole[1], last |-> hole[2]]

\* fault: the archive shows everything to everyone
Shown(q, me) == me.held

\* what the archive shows to q: blocks addressed to another are not in it
VisibleTo(q, me) == {b \in me.held : IsWord(b) \/ b.to = q}

\* the have-vector
Have(p, q, me) == [kind |-> "have", src |-> p, dst |-> q, vector |-> VisibleTo(q, me)]

-----------------------------------------------------------------------------
(* Whom a node serves, asks and sends to. *)

Members == IF open THEN {} ELSE Nodes \ {Owner}

\* fault: the owner's right to serve is asked below the screen's
MayServeAnnounced(n, p, me) == n \in announced \/ p \in me.dialed
MayServe(n, p, me) == n = Owner \/ n \in announced \/ p \in me.dialed

\* attach_targets: the seeds, or the owner of an open channel nobody serves
Targets(n) ==
    LET seeds == known \ {n} IN
    CASE n = Owner            -> {}
      [] n # Owner /\ seeds # {} -> seeds
      [] n # Owner /\ seeds = {} -> IF open THEN {Owner} ELSE {}

\* push_candidates: a word of one's own goes upstream too
Candidates(n, mine, me) ==
    IF n = Owner THEN Members \cup me.attached
    ELSE {p \in me.attached : MayServe(n, p, me)}
         \cup IF mine THEN {Owner} \cup me.dialed ELSE {}

\* has a lazy one a second way to the block
SwarmAlive(n) == n # Owner \/ known \ {n} # {}

\* split_tree: the eager ones it may leave; which of them, the order of the keys says
Splits(n, mine, me) ==
    LET all == Candidates(n, mine, me)
        old == me.eager \cap all
        fresh == all \ (old \cup me.lazy)
        size(S) == Cardinality(S)
    IN IF ~SwarmAlive(n) THEN {all}
       ELSE IF size(old) >= KEager THEN {E \in SUBSET old : size(E) = KEager}
       ELSE LET grown == {E \in SUBSET (old \cup fresh) :
                            /\ old \subseteq E
                            /\ \/ E = old \cup fresh /\ size(E) <= KEager
                               \/ size(E) = KEager}
            IN IF grown = {{}} /\ all # {} THEN {{p} : p \in all} ELSE grown

Split(n, mine, me, E) ==
    [me EXCEPT !.eager = E, !.lazy = Candidates(n, mine, me) \ E]

\* push_block: whole to the eager, a call to the lazy, nothing to who brought it
Spread(n, from, me, b) ==
    {Of("block", n, q, b) : q \in me.eager \ {from}}
        \cup {Of("ihave", n, q, b) : q \in me.lazy \ {from}}

Becomes(n, me) == node' = [node EXCEPT ![n] = me]

-----------------------------------------------------------------------------
(* Saying. *)

\* bound: seconds settle what flies; blocks are said, and the nodes go round, at
\* different minutes
Settled == net = {} /\ \A n \in Nodes : node[n].awaited = {}

NextSeq(n) == Cardinality({b \in node[n].held : b.author = n})

\* a word: archived, then spread
Say(n) ==
    LET b == [author |-> n, seq |-> NextSeq(n), to |-> Everyone] IN
    /\ n \in Writers /\ said < MaxBlocks /\ Settled
    /\ \E E \in Splits(n, TRUE, node[n]) :
         LET me == Split(n, TRUE, [node[n] EXCEPT !.held = @ \cup {b}], E) IN
         /\ Becomes(n, me)
         /\ net' = net \cup Spread(n, n, me, b)
    /\ said' = said + 1
    /\ UNCHANGED <<open, known, announced, swept, faults>>

\* a block for one: the read key of who was let in
Grant(p) ==
    LET b == [author |-> Owner, seq |-> NextSeq(Owner), to |-> p] IN
    /\ p \in Members /\ said < MaxBlocks /\ Settled
    /\ Becomes(Owner, [node[Owner] EXCEPT !.held = @ \cup {b}])
    /\ net' = net \cup {Of("block", Owner, p, b)}
    /\ said' = said + 1
    /\ UNCHANGED <<open, known, announced, swept, faults>>

-----------------------------------------------------------------------------
(* Hearing. Every handler takes its frame off the net. *)

Answer(f, out) == net' = (net \ {f}) \cup out

\* a repeat cuts the edge it came by; the owner is never cut
OnRepeat(f) ==
    /\ f.block \in node[f.dst].seen
    /\ Answer(f, IF f.src = Owner THEN {} ELSE {Plain("prune", f.dst, f.src)})
    /\ UNCHANGED node

\* note_swarm_answer
Answered(p, me) == [me EXCEPT !.misses[p] = 0, !.cooling = @ \ {p}]

\* a word is archived and goes on; a block for one is only archived
OnBlock(f) ==
    LET b == f.block  n == f.dst
        me == [node[n] EXCEPT !.seen = @ \cup {b}, !.held = @ \cup {b},
                              !.heard = @ \/ (IsWord(b) /\ b.author = Owner)]
        met == Answered(f.src, me)
    IN
    /\ b \notin node[n].seen
    /\ \/ ~IsWord(b) /\ Becomes(n, me) /\ Answer(f, {})
       \/ /\ IsWord(b)
          /\ \E E \in Splits(n, FALSE, met) :
               LET on == Split(n, FALSE, met, E) IN
               Becomes(n, on) /\ Answer(f, Spread(n, f.src, on, b))

\* on_swarm_attach: remembered even by who does not serve
OnAttach(f) ==
    LET n == f.dst  me == [node[n] EXCEPT !.attached = @ \cup {f.src}] IN
    /\ Becomes(n, me)
    /\ Answer(f, IF MayServe(n, f.src, me) THEN {Have(n, f.src, me)} ELSE {})

\* a call is taken up once; another's call for the same block is not
Ignored(f) == LET me == node[f.dst] IN
    \/ f.src \in me.cooling
    \/ f.block \in me.seen
    \/ \E w \in me.awaited : w.block = f.block

OnIHave(f) ==
    /\ Answer(f, {})
    /\ IF Ignored(f) THEN UNCHANGED node
       ELSE Becomes(f.dst, [node[f.dst] EXCEPT
              !.awaited = @ \cup {[block |-> f.block, who |-> f.src, asked |-> FALSE]}])

ToEager(p, me) == [me EXCEPT !.lazy = @ \ {p}, !.eager = @ \cup {p}]
ToLazy(p, me) == [me EXCEPT !.eager = @ \ {p}, !.lazy = @ \cup {p}]

\* what the archive gives to p for one block
Given(n, p, b) ==
    IF b \in node[n].held /\ (IsWord(b) \/ b.to = p) THEN {Of("block", n, p, b)} ELSE {}

OnGraft(f) ==
    LET n == f.dst IN
    IF ~MayServe(n, f.src, node[n]) THEN Answer(f, {}) /\ UNCHANGED node
    ELSE /\ Becomes(n, ToEager(f.src, node[n]))
         /\ Answer(f, Given(n, f.src, f.block))

OnPrune(f) == Becomes(f.dst, ToLazy(f.src, node[f.dst])) /\ Answer(f, {})

-----------------------------------------------------------------------------
(* What the tree lost. *)

Seqs(a, S) == {b.seq : b \in {c \in S : c.author = a}}

\* the runs of consecutive numbers of S
Runs(S) == {r \in S \X S : /\ r[1] <= r[2] /\ r[1]..r[2] \subseteq S
                           /\ r[1] - 1 \notin S /\ r[2] + 1 \notin S}

\* fault: only what is newer than the last held is asked for
AskedTail(a, theirs, me) ==
    LET ours == Seqs(a, me.held) IN
    {q \in Seqs(a, theirs) : ours # {} /\ \A o \in ours : o < q}

\* openable_from: nothing below the first that is held, nothing if none is
Asked(a, theirs, me) ==
    LET ours == Seqs(a, me.held) IN
    {q \in Seqs(a, theirs) \ ours : \E o \in ours : o < q}

\* on_have: the holes of every author, and the owner answers with its own vector
OnHave(f) ==
    LET n == f.dst  me == node[n] IN
    /\ Answer(f, (UNION {{Want(n, f.src, a, hole) : hole \in Runs(Asked(a, f.vector, me))}
                            : a \in Writers \cup {Owner}})
                 \cup IF n = Owner THEN {Have(n, f.src, me)} ELSE {})
    /\ UNCHANGED node

\* on_want
OnWant(f) ==
    LET n == f.dst
        there == {b \in VisibleTo(f.src, node[n]) :
                    b.author = f.author /\ b.seq \in f.first..f.last}
    IN /\ Answer(f, IF MayServe(n, f.src, node[n])
                    THEN {Of("block", n, f.src, b) : b \in there} ELSE {})
       /\ UNCHANGED node

Receive(f) ==
    /\ \/ f.kind = "block" /\ (OnRepeat(f) \/ OnBlock(f))
       \/ f.kind = "attach" /\ OnAttach(f)
       \/ f.kind = "ihave" /\ OnIHave(f)
       \/ f.kind = "graft" /\ OnGraft(f)
       \/ f.kind = "prune" /\ OnPrune(f)
       \/ f.kind = "have" /\ OnHave(f)
       \/ f.kind = "want" /\ OnWant(f)
    /\ UNCHANGED <<open, known, announced, swept, said, faults>>

-----------------------------------------------------------------------------
(* Time. *)

\* note_swarm_miss, cool_down: the owner never cools
Missed(p, me) ==
    IF me.misses[p] + 1 < MaxMisses THEN [me EXCEPT !.misses[p] = @ + 1]
    ELSE IF p = Owner THEN [me EXCEPT !.misses[p] = MaxMisses]
    ELSE [me EXCEPT !.misses[p] = 0, !.cooling = @ \cup {p}]

\* fault: whoever called is blamed at once, while the block may be on its way
GraftTimerBlaming(n, w) ==
    /\ w \in node[n].awaited
    /\ Becomes(n, LET me == [node[n] EXCEPT !.awaited = @ \ {w}] IN
                  IF w.block \in me.seen THEN me ELSE Missed(w.who, me))
    /\ UNCHANGED <<open, known, announced, net, swept, said, faults>>

\* on_graft_timer: the first time asks, the second counts a miss
GraftTimer(n, w) ==
    LET me == [node[n] EXCEPT !.awaited = @ \ {w}]
        coming == {Of("graft", n, w.who, w.block), Of("block", w.who, n, w.block)} \cap net
        late == w.asked /\ coming # {}
    IN
    /\ w \in node[n].awaited
    /\ faults' = faults + (IF late THEN 1 ELSE 0) /\ faults' <= MaxFaults
    /\ \/ /\ w.block \in me.seen \/ (~w.asked /\ w.who \in me.cooling)
          /\ Becomes(n, me) /\ UNCHANGED net
       \/ /\ w.block \notin me.seen /\ w.asked
          /\ Becomes(n, Missed(w.who, me)) /\ UNCHANGED net
       \/ /\ w.block \notin me.seen /\ ~w.asked /\ w.who \notin me.cooling
          /\ Becomes(n, ToEager(w.who, [me EXCEPT !.awaited = @ \cup {[w EXCEPT !.asked = TRUE]}]))
          /\ net' = net \cup {Of("graft", n, w.who, w.block)}
    /\ UNCHANGED <<open, known, announced, swept, said>>

Attach(n, p, me) == {Plain("attach", n, p), Have(n, p, me)}

\* keep_catalogue_fresh: forget who was silent, raise one lazy, attach anew;
\* and ask the owner, if nothing has been heard from it for an hour
Sweep(n) ==
    \E gone \in SUBSET node[n].attached :
    LET kept == [node[n] EXCEPT !.attached = @ \ gone, !.eager = @ \ gone,
                                !.lazy = @ \ gone, !.heard = FALSE]
        lucky == IF kept.lazy = {} THEN {{}} ELSE {{p} : p \in kept.lazy}
        asks == n # Owner /\ Owner \notin kept.dialed \cup Targets(n) /\ ~node[n].heard
    IN
    /\ n \notin swept /\ Settled
    /\ swept' = swept \cup {n}
    /\ faults' = faults + Cardinality(gone) /\ faults' <= MaxFaults
    /\ \E up \in lucky :
         Becomes(n, [kept EXCEPT !.lazy = @ \ up, !.eager = @ \cup up,
                                 !.dialed = @ \cup Targets(n)])
    /\ net' = net \cup (UNION {Attach(n, p, kept) : p \in Targets(n)})
                  \cup IF asks THEN {Have(n, Owner, kept)} ELSE {}
    /\ UNCHANGED <<open, known, announced, said>>

\* bound: an hour outlasts the cooling
NewHour ==
    /\ swept = Nodes /\ Settled
    /\ swept' = {}
    /\ node' = [n \in Nodes |-> [node[n] EXCEPT !.cooling = {}]]
    /\ UNCHANGED <<open, known, announced, net, said, faults>>

-----------------------------------------------------------------------------
(* What goes wrong. *)

Fault == faults < MaxFaults /\ faults' = faults + 1

Lose(f) ==
    /\ Fault /\ net' = net \ {f}
    /\ UNCHANGED <<open, node, known, announced, swept, said>>

Restart(n) ==
    /\ Fault
    /\ Becomes(n, Woken(node[n].held, node[n].seen, node[n].heard))
    /\ swept' = swept \ {n}
    /\ UNCHANGED <<open, known, announced, net, said>>

\* reattach_to: a session raised anew
Reattach(n, p) ==
    /\ Fault /\ p \in Targets(n)
    /\ Becomes(n, [node[n] EXCEPT !.dialed = @ \cup {p}])
    /\ net' = net \cup Attach(n, p, node[n])
    /\ UNCHANGED <<open, known, announced, swept, said>>

\* a seed turns quiet; its record lives on until it runs out
Stop(s) ==
    /\ Fault /\ s \in announced
    /\ announced' = announced \ {s}
    /\ UNCHANGED <<open, node, known, net, swept, said>>

Lapse(s) ==
    /\ s \in known \ announced
    /\ known' = known \ {s}
    /\ UNCHANGED <<open, node, announced, net, swept, said, faults>>

-----------------------------------------------------------------------------

Progress ==
    \/ \E f \in net : Receive(f)
    \/ \E n \in Nodes : \E w \in node[n].awaited : GraftTimer(n, w)
    \/ \E n \in Nodes : Sweep(n)
    \/ NewHour

Next ==
    \/ Progress
    \/ \E n \in Nodes : Say(n) \/ Grant(n) \/ Restart(n) \/ Stop(n) \/ Lapse(n)
    \/ \E f \in net : Lose(f)
    \/ \E n, p \in Nodes : Reattach(n, p)

Spec == Init /\ [][Next]_vars

\* Frames come, timers fire and every node goes round once an hour.
FairSpec == Spec /\ WF_vars(Progress)

-----------------------------------------------------------------------------
(* Properties. *)

\* A block for one reaches nobody but who wrote it and whom it names: not by
\* the tree, not by a call answered, not by comparing archives.
OnlyTheAddressee ==
    /\ \A n \in Nodes : \A b \in node[n].held : IsWord(b) \/ n \in {b.author, b.to}
    /\ \A f \in net : f.kind = "block" => IsWord(f.block) \/ f.dst \in {f.block.author, f.block.to}

\* who serves everyone; a quiet writer serves only those it takes from
Serving == {Owner} \cup announced

\* Without a fault the tree alone brings every word of the owner and of the
\* seeds to every member.
TreeReachesAll ==
    (faults = 0 /\ Settled) =>
        \A n, m \in Nodes : \A b \in node[n].held :
            (IsWord(b) /\ b.author \in Serving /\ m \in Members) => b \in node[m].held

\* Without a fault no seed is cooled: slower than the owner is not silent.
HonestNotCooled == faults = 0 => \A n \in Nodes : node[n].cooling \cap announced = {}

\* Whatever was lost, everyone comes to hold every word that follows one it
\* holds, of the owner and of the writers that serve.
Whole ==
    \A n, m \in Nodes : \A b \in node[m].held :
        (/\ IsWord(b) /\ b.author \in Serving
         /\ \E c \in node[n].held : c.author = b.author /\ c.seq < b.seq)
        => b \in node[n].held
EveryoneCatchesUp == []<>Whole
=============================================================================
