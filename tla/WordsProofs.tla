------------------------------ MODULE WordsProofs ------------------------------
(***************************************************************************)
(* Proofs about what is said, in a closed group (GroupWords) and between   *)
(* two (Conversation), for any members, start, queue, messages and number  *)
(* of changes, words, mishaps and deaths.                                  *)
(*                                                                         *)
(* The group first: a mark means an effect, copies of chains go forward,   *)
(* nothing waits that has come, and who was seen to leave reads no more.   *)
(* An engine handles one frame and then, round after round, the frames of  *)
(* its queue; Step says what one frame may do, and is transitive, and      *)
(* Settles what a round achieves; so the rounds are followed by induction  *)
(* on the frames taken, and the drain by induction on its rounds.          *)
(***************************************************************************)
EXTENDS GroupWords, Conversation, QueueProofs, TLAPS

-----------------------------------------------------------------------------
(* Frames and engines. *)

ForMe(m) == {f \in Frames : f.to = m}

Engines(m) ==
    [knows : BOOLEAN, ins : SUBSET Members, outs : SUBSET Members,
     chains : [Members -> Chains], parked : Seq(ForMe(m)), seen : SUBSET ForMe(m),
     read : SUBSET Frames, passed : SUBSET Frames, turned : SUBSET Members,
     out : SUBSET Frames]

\* Whom it saw leave was in, is out, and is another.
Engine(m, e) ==
    /\ e \in Engines(m)
    /\ Len(e.parked) <= MaxParked
    /\ e.turned \subseteq (e.ins \cap e.outs) \ {m}

Forward(c, d) == d.epoch > c.epoch \/ (d.epoch = c.epoch /\ d.next >= c.next)

\* Nothing is forgotten between e and d.
Grown(e, d) ==
    /\ e.knows => d.knows
    /\ e.ins \subseteq d.ins /\ e.outs \subseteq d.outs
    /\ e.read \subseteq d.read /\ e.passed \subseteq d.passed
    /\ e.turned \subseteq d.turned
    /\ \A s \in Members : Forward(e.chains[s], d.chains[s])

\* What d holds and e did not comes from frames of N.
Sourced(m, e, d, N) ==
    /\ ToSet(d.parked) \subseteq N
    /\ d.knows => e.knows \/ \E g \in N : g.kind = "intro" /\ g.to = m
    /\ \A x \in d.ins : x \in e.ins \/ \E g \in N : g.kind = "add" /\ g.to = m /\ g.who = x
    /\ \A s \in Members \ {m} :
           \/ d.chains[s].epoch = e.chains[s].epoch
           \/ \E g \in N : g.kind = "key" /\ g.to = m /\ g.who = s
                           /\ g.epoch = d.chains[s].epoch

\* What is sent besides chains; a word is always under a chain.
Besides(g) == g.kind = "remove" \/ (g.kind = "word" /\ g.epoch > 0)

\* What is sent between e and d: of chains, the own one, to nobody known to be
\* removed; and whoever is seen to leave meanwhile was told of older ones only.
Spoken(m, e, d) ==
    /\ \A x \in d.turned \ e.turned : e.chains[m].epoch < d.chains[m].epoch
    /\ \A g \in d.out :
           \/ g \in e.out
           \/ Besides(g)
           \/ /\ g.kind = "key" /\ g.who = m /\ g.to \notin e.outs
              /\ g.epoch <= d.chains[m].epoch
              /\ g.to \in d.turned => g.epoch < d.chains[m].epoch

Step(m, e, d, N) == Engine(m, d) /\ Grown(e, d) /\ Sourced(m, e, d, N) /\ Spoken(m, e, d)

LEMMA EngineFacts ==
    ASSUME NEW m, NEW e \in Engines(m)
    PROVE  /\ e.knows \in BOOLEAN /\ e.ins \in SUBSET Members /\ e.outs \in SUBSET Members
           /\ e.chains \in [Members -> Chains] /\ e.parked \in Seq(ForMe(m))
           /\ e.seen \in SUBSET ForMe(m) /\ e.read \in SUBSET Frames
           /\ e.passed \in SUBSET Frames /\ e.turned \in SUBSET Members
           /\ e.out \in SUBSET Frames
           /\ \A s \in Members : e.chains[s] \in Chains
BY DEF Engines

LEMMA ChainFacts ==
    ASSUME NEW c \in Chains
    PROVE  c.epoch \in Nat /\ c.next \in Nat /\ c.skipped \in SUBSET Nat
BY DEF Chains

LEMMA ChainIs ==
    ASSUME NEW epoch \in Nat, NEW next \in Nat
    PROVE  /\ Chain(epoch, next) \in Chains
           /\ Chain(epoch, next).epoch = epoch /\ Chain(epoch, next).next = next
BY DEF Chain, Chains

LEMMA FrameFacts ==
    ASSUME NEW f \in Frames
    PROVE  /\ f.kind \in Kinds /\ f.from \in Members /\ f.to \in Members /\ f.who \in Members
           /\ f.epoch \in Nat /\ f.at \in Nat
BY DEF Frames

LEMMA ForwardTrans ==
    ASSUME NEW c \in Chains, NEW d \in Chains, NEW k \in Chains, Forward(c, d), Forward(d, k)
    PROVE  Forward(c, k)
BY ChainFacts DEF Forward

LEMMA ForwardEpoch ==
    ASSUME NEW c \in Chains, NEW d \in Chains, Forward(c, d)
    PROVE  c.epoch <= d.epoch
BY ChainFacts DEF Forward

LEMMA StepTrans ==
    ASSUME NEW m \in Members, NEW e, Engine(m, e), NEW d, NEW k, NEW N,
           Step(m, e, d, N), Step(m, d, k, N)
    PROVE  Step(m, e, k, N)
<1>1. e \in Engines(m) /\ d \in Engines(m) /\ k \in Engines(m) /\ Engine(m, k)
  BY DEF Step, Engine
<1>2. \A s \in Members : /\ e.chains[s] \in Chains /\ d.chains[s] \in Chains
                         /\ k.chains[s] \in Chains
                         /\ Forward(e.chains[s], d.chains[s]) /\ Forward(d.chains[s], k.chains[s])
  BY <1>1, EngineFacts DEF Step, Grown
<1>3. \A s \in Members : Forward(e.chains[s], k.chains[s])
  BY <1>2, ForwardTrans
<1>4. Grown(e, k)
  BY <1>3 DEF Step, Grown
<1>5. Sourced(m, e, k, N)
  BY DEF Step, Sourced
<1>6. /\ e.chains[m].epoch \in Nat /\ d.chains[m].epoch \in Nat /\ k.chains[m].epoch \in Nat
      /\ e.chains[m].epoch <= d.chains[m].epoch /\ d.chains[m].epoch <= k.chains[m].epoch
  BY <1>2, ForwardEpoch, ChainFacts
<1>7. d.out \subseteq Frames /\ k.out \subseteq Frames
  BY <1>1, EngineFacts
<1>8. \A x \in k.turned \ e.turned : e.chains[m].epoch < k.chains[m].epoch
  BY <1>6 DEF Step, Spoken
<1>9. ASSUME NEW g \in k.out, g \notin e.out, ~Besides(g)
      PROVE  /\ g.kind = "key" /\ g.who = m /\ g.to \notin e.outs
             /\ g.epoch <= k.chains[m].epoch
             /\ g.to \in k.turned => g.epoch < k.chains[m].epoch
  <2>1. CASE g \in d.out
    <3>1. /\ g.kind = "key" /\ g.who = m /\ g.to \notin e.outs /\ g.epoch \in Nat
          /\ g.epoch <= d.chains[m].epoch
          /\ g.to \in d.turned => g.epoch < d.chains[m].epoch
      BY <1>7, <1>9, <2>1, FrameFacts DEF Step, Spoken
    <3>2. g.to \in k.turned => g.epoch < k.chains[m].epoch
      BY <1>6, <3>1 DEF Step, Spoken
    <3> QED
      BY <1>6, <3>1, <3>2
  <2>2. CASE g \notin d.out
    BY <1>9, <2>2 DEF Step, Spoken, Grown
  <2> QED
    BY <2>1, <2>2
<1>10. Spoken(m, e, k)
  BY <1>8, <1>9 DEF Spoken
<1> QED
  BY <1>1, <1>4, <1>5, <1>10 DEF Step

LEMMA StepSame ==
    ASSUME NEW m \in Members, NEW e, Engine(m, e), NEW N, ToSet(e.parked) \subseteq N
    PROVE  Step(m, e, e, N)
BY EngineFacts, ChainFacts DEF Step, Engine, Grown, Forward, Sourced, Spoken

-----------------------------------------------------------------------------
(* The handlers. *)

\* A full queue makes room, so that there is always a place for one more.
LEMMA QueueTaken ==
    ASSUME NEW X, NEW q \in Seq(X), Len(q) <= MaxParked, NEW f \in X
    PROVE  LET p == Append(Shorter(Without(q, f)), f)
           IN  /\ p \in Seq(X) /\ Len(p) <= MaxParked /\ Len(p) <= Len(q) + 1
               /\ ToSet(p) \subseteq ToSet(q) \cup {f}
<1> DEFINE w == Without(q, f)
           r == Shorter(w)
<1>1. w \in Seq(X) /\ Len(w) <= Len(q) /\ ToSet(w) \subseteq ToSet(q) /\ Len(q) \in Nat
  BY ThoseShorter, ThoseFacts DEF Without
<1> HIDE DEF w
<1>2. /\ r \in Seq(X) /\ Len(r) < MaxParked /\ Len(r) <= Len(w)
      /\ ToSet(r) \subseteq ToSet(w)
  <2>1. CASE Len(w) >= MaxParked
    <3>1. w # <<>> /\ Len(w) \in Nat
      BY <1>1, <2>1, GroupWordsAssumption
    <3>2. /\ Tail(w) \in Seq(X) /\ Len(Tail(w)) = Len(w) - 1
          /\ \A i \in 1..Len(Tail(w)) : Tail(w)[i] = w[i + 1]
      BY <1>1, <3>1
    <3>3. ToSet(Tail(w)) \subseteq ToSet(w)
      <4> SUFFICES ASSUME NEW x \in ToSet(Tail(w))
                   PROVE  x \in ToSet(w)
        OBVIOUS
      <4>1. PICK i \in 1..Len(Tail(w)) : x = Tail(w)[i]
        BY <3>2 DEF ToSet
      <4>2. i + 1 \in 1..Len(w) /\ DOMAIN w = 1..Len(w)
        BY <1>1, <3>1, <3>2, <4>1
      <4> QED
        BY <3>2, <4>1, <4>2 DEF ToSet
    <3>4. r = Tail(w)
      BY <2>1 DEF Shorter
    <3> QED
      BY <1>1, <2>1, <3>1, <3>2, <3>3, <3>4, GroupWordsAssumption
  <2>2. CASE ~(Len(w) >= MaxParked)
    BY <1>1, <2>2, GroupWordsAssumption DEF Shorter
  <2> QED
    BY <2>1, <2>2
<1> HIDE DEF r
<1>3. Append(r, f) \in Seq(X) /\ Len(Append(r, f)) = Len(r) + 1 /\ Len(r) \in Nat
  BY <1>2
<1>4. ToSet(Append(r, f)) = ToSet(r) \cup {f}
  BY <1>2, OneMore
<1> QED
  BY <1>1, <1>2, <1>3, <1>4, GroupWordsAssumption DEF r, w

LEMMA ParkedStep ==
    ASSUME NEW m \in Members, NEW e, Engine(m, e), NEW N, ToSet(e.parked) \subseteq N,
           NEW f \in ForMe(m), f \in N
    PROVE  Step(m, e, Parked(e, f), N) /\ Parked(e, f).seen = e.seen \ {f}
<1> DEFINE d == Parked(e, f)
<1>1. e \in Engines(m) /\ e.turned \subseteq (e.ins \cap e.outs) \ {m}
  BY DEF Engine
<1>2. PICK p : p = Append(Shorter(Without(e.parked, f)), f)
  OBVIOUS
<1>3. /\ p \in Seq(ForMe(m)) /\ Len(p) <= MaxParked
      /\ ToSet(p) \subseteq ToSet(e.parked) \cup {f}
  BY <1>1, <1>2, QueueTaken, EngineFacts DEF Engine
<1>4. d = [e EXCEPT !.parked = p, !.seen = e.seen \ {f}]
  BY <1>2 DEF Parked
<1>5. /\ d \in Engines(m) /\ d.parked = p /\ d.seen = e.seen \ {f}
      /\ d.knows = e.knows /\ d.ins = e.ins /\ d.outs = e.outs /\ d.chains = e.chains
      /\ d.read = e.read /\ d.passed = e.passed /\ d.turned = e.turned /\ d.out = e.out
  BY <1>1, <1>3, <1>4 DEF Engines
<1> HIDE DEF d
<1>6. Engine(m, d)
  BY <1>1, <1>3, <1>5 DEF Engine
<1>7. \A s \in Members : Forward(e.chains[s], d.chains[s])
  BY <1>1, <1>5, EngineFacts, ChainFacts DEF Forward
<1>8. Grown(e, d)
  BY <1>5, <1>7 DEF Grown
<1>9. Sourced(m, e, d, N) /\ Spoken(m, e, d)
  BY <1>3, <1>5 DEF Sourced, Spoken
<1> QED
  BY <1>5, <1>6, <1>8, <1>9 DEF Step, d

\* announce_sender_key
LEMMA AnnouncedStep ==
    ASSUME NEW m \in Members, NEW e, Engine(m, e), NEW N, ToSet(e.parked) \subseteq N
    PROVE  Step(m, e, Announced(m, e), N) /\ Announced(m, e).seen = e.seen
<1> DEFINE d == Announced(m, e)
           sent == {Frame("key", m, o, m, e.chains[m].epoch, e.chains[m].next) :
                       o \in Roster(e) \ {m}}
<1>1. /\ e \in Engines(m) /\ e.turned \subseteq (e.ins \cap e.outs) \ {m}
      /\ e.ins \subseteq Members /\ e.chains[m] \in Chains
  BY EngineFacts DEF Engine
<1>2. \A g \in sent : /\ g \in Frames /\ g.kind = "key" /\ g.who = m /\ g.to \notin e.outs
                      /\ g.epoch = e.chains[m].epoch
  BY <1>1, ChainFacts DEF Frame, Frames, Roster, Kinds
<1>3. d = [e EXCEPT !.out = e.out \cup sent]
  BY DEF Announced, Send
<1> HIDE DEF sent, d
<1>4. sent \subseteq Frames
  BY <1>2
<1>5. /\ d \in Engines(m) /\ d.parked = e.parked /\ d.seen = e.seen
      /\ d.knows = e.knows /\ d.ins = e.ins /\ d.outs = e.outs /\ d.chains = e.chains
      /\ d.read = e.read /\ d.passed = e.passed /\ d.turned = e.turned
      /\ d.out = e.out \cup sent
  BY <1>1, <1>3, <1>4 DEF Engines
<1>6. Engine(m, d)
  BY <1>1, <1>5 DEF Engine
<1>7. \A s \in Members : Forward(e.chains[s], d.chains[s])
  BY <1>1, <1>5, EngineFacts, ChainFacts DEF Forward
<1>8. Grown(e, d) /\ Sourced(m, e, d, N)
  BY <1>5, <1>7 DEF Grown, Sourced
<1>9. e.chains[m].epoch \in Nat
  BY <1>1, ChainFacts
<1>10. Spoken(m, e, d)
  BY <1>1, <1>2, <1>5, <1>9 DEF Spoken
<1> QED
  BY <1>5, <1>6, <1>8, <1>10 DEF Step, d

\* What is sent besides chains.
LEMMA SentStep ==
    ASSUME NEW m \in Members, NEW e, Engine(m, e), NEW N, ToSet(e.parked) \subseteq N,
           NEW F, \A g \in F : g \in Frames /\ Besides(g),
           NEW d, d = Send(e, F)
    PROVE  Step(m, e, d, N) /\ d.seen = e.seen /\ d.ins = e.ins /\ d.outs = e.outs
           /\ d.chains = e.chains
<1>1. e \in Engines(m) /\ e.turned \subseteq (e.ins \cap e.outs) \ {m}
  BY DEF Engine
<1>2. /\ d \in Engines(m) /\ d.parked = e.parked /\ d.seen = e.seen
      /\ d.knows = e.knows /\ d.ins = e.ins /\ d.outs = e.outs /\ d.chains = e.chains
      /\ d.read = e.read /\ d.passed = e.passed /\ d.turned = e.turned
      /\ d.out = e.out \cup F
  BY <1>1 DEF Engines, Send
<1>3. Engine(m, d)
  BY <1>1, <1>2 DEF Engine
<1>4. \A s \in Members : Forward(e.chains[s], d.chains[s])
  BY <1>1, <1>2, EngineFacts, ChainFacts DEF Forward
<1>5. Grown(e, d) /\ Sourced(m, e, d, N)
  BY <1>2, <1>4 DEF Grown, Sourced
<1>6. Spoken(m, e, d)
  BY <1>2 DEF Spoken
<1> QED
  BY <1>2, <1>3, <1>5, <1>6 DEF Step

\* rotate_sender_chain, perhaps because some have left.
LEMMA RotatedStep ==
    ASSUME NEW m \in Members, NEW e, Engine(m, e), NEW N, ToSet(e.parked) \subseteq N,
           NEW L, L \subseteq (e.ins \cap e.outs) \ {m}
    PROVE  LET d == Rotated(m, [e EXCEPT !.turned = @ \cup L])
           IN  /\ Step(m, e, d, N) /\ d.seen = e.seen
               /\ d.chains[m].epoch = e.chains[m].epoch + 1
<1> DEFINE d == Rotated(m, [e EXCEPT !.turned = @ \cup L])
<1>1. /\ e \in Engines(m) /\ e.turned \subseteq (e.ins \cap e.outs) \ {m}
      /\ e.ins \subseteq Members /\ e.chains \in [Members -> Chains]
  BY EngineFacts DEF Engine
<1>2. PICK c : c = Chain(e.chains[m].epoch + 1, 0)
  OBVIOUS
<1>3. c \in Chains /\ c.epoch = e.chains[m].epoch + 1 /\ e.chains[m].epoch \in Nat
  <2>1. PICK n : n = e.chains[m].epoch + 1
    OBVIOUS
  <2>2. e.chains[m].epoch \in Nat /\ n \in Nat /\ c = Chain(n, 0)
    BY <1>1, <1>2, <2>1, ChainFacts
  <2> QED
    BY <2>1, <2>2, ChainIs
<1>4. d = [[e EXCEPT !.turned = e.turned \cup L]
              EXCEPT !.chains[m] = Chain([e EXCEPT !.turned = e.turned \cup L].chains[m].epoch + 1, 0)]
  BY DEF Rotated
<1>5. [e EXCEPT !.turned = e.turned \cup L].chains = e.chains
  BY <1>1 DEF Engines
<1>6. d = [[e EXCEPT !.turned = e.turned \cup L] EXCEPT !.chains[m] = c]
  BY <1>2, <1>4, <1>5
<1> HIDE DEF d
<1>7. /\ d \in Engines(m) /\ d.parked = e.parked /\ d.seen = e.seen
      /\ d.knows = e.knows /\ d.ins = e.ins /\ d.outs = e.outs
      /\ d.chains = [e.chains EXCEPT ![m] = c]
      /\ d.read = e.read /\ d.passed = e.passed /\ d.turned = e.turned \cup L /\ d.out = e.out
  BY <1>1, <1>3, <1>6 DEF Engines
<1>8. Engine(m, d)
  BY <1>1, <1>7 DEF Engine
<1>9. d.chains[m] = c /\ \A s \in Members : s # m => d.chains[s] = e.chains[s]
  BY <1>1, <1>7
<1>10. \A s \in Members : Forward(e.chains[s], d.chains[s])
  BY <1>1, <1>3, <1>9, EngineFacts, ChainFacts DEF Forward
<1>11. Grown(e, d) /\ Sourced(m, e, d, N)
  BY <1>7, <1>9, <1>10 DEF Grown, Sourced
<1>12. Spoken(m, e, d)
  BY <1>3, <1>7, <1>9 DEF Spoken
<1> QED
  BY <1>3, <1>7, <1>8, <1>9, <1>11, <1>12 DEF Step, d

\* What one may come to know from the frames of N.
Learned(m, e, N, knows, ins, outs, passed) ==
    /\ knows \in BOOLEAN /\ ins \in SUBSET Members /\ outs \in SUBSET Members
    /\ passed \in SUBSET Frames
    /\ e.knows => knows
    /\ e.ins \subseteq ins /\ e.outs \subseteq outs /\ e.passed \subseteq passed
    /\ knows => e.knows \/ \E g \in N : g.kind = "intro" /\ g.to = m
    /\ \A x \in ins : x \in e.ins \/ \E g \in N : g.kind = "add" /\ g.to = m /\ g.who = x

Knowing(e, knows, ins, outs, passed) ==
    [e EXCEPT !.knows = knows, !.ins = ins, !.outs = outs, !.passed = passed]

LEMMA LearnedStep ==
    ASSUME NEW m \in Members, NEW e, Engine(m, e), NEW N, ToSet(e.parked) \subseteq N,
           NEW knows, NEW ins, NEW outs, NEW passed, Learned(m, e, N, knows, ins, outs, passed),
           NEW d, d = Knowing(e, knows, ins, outs, passed)
    PROVE  Step(m, e, d, N) /\ d.seen = e.seen /\ d.knows = knows /\ d.ins = ins
           /\ d.outs = outs /\ d.passed = passed /\ d.parked = e.parked
<1> USE DEF Learned, Knowing
<1>1. e \in Engines(m) /\ e.turned \subseteq (e.ins \cap e.outs) \ {m}
  BY DEF Engine
<1>2. /\ d \in Engines(m) /\ d.parked = e.parked /\ d.seen = e.seen
      /\ d.knows = knows /\ d.ins = ins /\ d.outs = outs /\ d.chains = e.chains
      /\ d.read = e.read /\ d.passed = passed /\ d.turned = e.turned /\ d.out = e.out
  BY <1>1 DEF Engines
<1>3. Engine(m, d)
  BY <1>1, <1>2 DEF Engine
<1>4. \A s \in Members : Forward(e.chains[s], d.chains[s])
  BY <1>1, <1>2, EngineFacts, ChainFacts DEF Forward
<1>5. Grown(e, d) /\ Sourced(m, e, d, N) /\ Spoken(m, e, d)
  BY <1>2, <1>4 DEF Grown, Sourced, Spoken
<1> QED
  BY <1>2, <1>3, <1>5 DEF Step

\* What a handler owes for the frame f: its mark, if it stays, is true.
Owed(m, e, d, f) ==
    /\ d.seen \subseteq e.seen
    /\ f \in d.seen => Applied(m, d, f) \/ f \in d.passed

LEMMA ParkedOwed ==
    ASSUME NEW m \in Members, NEW e, Engine(m, e), NEW N, ToSet(e.parked) \subseteq N,
           NEW f \in ForMe(m), f \in N
    PROVE  Step(m, e, Parked(e, f), N) /\ Owed(m, e, Parked(e, f), f)
BY ParkedStep DEF Owed

\* on_group_intro
LEMMA IntroStep ==
    ASSUME NEW m \in Members, NEW e, Engine(m, e), NEW N, ToSet(e.parked) \subseteq N,
           NEW f \in ForMe(m), f \in N, f.kind = "intro"
    PROVE  Step(m, e, OnIntro(m, e), N) /\ Owed(m, e, OnIntro(m, e), f)
<1>1. /\ e.knows \in BOOLEAN /\ e.ins \in SUBSET Members /\ e.outs \in SUBSET Members
      /\ e.passed \in SUBSET Frames /\ f.to = m /\ e \in Engines(m)
  BY EngineFacts DEF Engine, ForMe
<1>2. CASE e.knows
  <2>1. OnIntro(m, e) = e
    BY <1>2 DEF OnIntro
  <2> QED
    BY <1>2, <2>1, StepSame DEF Owed, Applied
<1>3. CASE ~e.knows
  <2>1. PICK a : a = [e EXCEPT !.knows = TRUE]
    OBVIOUS
  <2>0. PICK yes : yes = TRUE
    OBVIOUS
  <2>2. a = Knowing(e, yes, e.ins, e.outs, e.passed)
    BY <1>1, <2>0, <2>1 DEF Engines, Knowing
  <2>3. /\ Step(m, e, a, N) /\ a.seen = e.seen /\ a.knows = TRUE /\ a.parked = e.parked
    <3>1. Learned(m, e, N, yes, e.ins, e.outs, e.passed)
      BY <1>1, <2>0 DEF Learned
    <3>2. /\ Step(m, e, a, N) /\ a.seen = e.seen /\ a.knows = yes /\ a.parked = e.parked
      BY <2>2, <3>1, LearnedStep
    <3> QED
      BY <2>0, <3>2
  <2>4. Engine(m, a) /\ ToSet(a.parked) \subseteq N
    BY <2>3 DEF Step
  <2>5. PICK b : b = Rotated(m, [a EXCEPT !.turned = @ \cup {}])
    OBVIOUS
  <2>6. b = Rotated(m, a)
    <3>1. [a EXCEPT !.turned = @ \cup {}] = a
      BY <2>4 DEF Engine, Engines
    <3> QED
      BY <2>5, <3>1
  <2>7. Step(m, a, b, N) /\ b.seen = a.seen
    BY <2>4, <2>5, RotatedStep
  <2>8. Engine(m, b) /\ ToSet(b.parked) \subseteq N
    BY <2>7 DEF Step, Sourced
  <2>9. Step(m, b, Announced(m, b), N) /\ Announced(m, b).seen = b.seen
    BY <2>8, AnnouncedStep
  <2>10. OnIntro(m, e) = Announced(m, b)
    BY <1>3, <2>1, <2>6 DEF OnIntro
  <2>11. Step(m, e, OnIntro(m, e), N)
    BY <2>3, <2>4, <2>7, <2>8, <2>9, <2>10, StepTrans
  <2>12. OnIntro(m, e).knows
    BY <2>3, <2>7, <2>9, <2>10 DEF Step, Grown
  <2> QED
    BY <2>3, <2>7, <2>9, <2>10, <2>11, <2>12 DEF Owed, Applied
<1> QED
  BY <1>2, <1>3

\* on_membership_block
LEMMA BlockStep ==
    ASSUME NEW m \in Members, NEW e, Engine(m, e), NEW N, ToSet(e.parked) \subseteq N,
           NEW f \in ForMe(m), f \in N, f.kind \in {"add", "remove"}
    PROVE  Step(m, e, OnBlock(m, e, f), N) /\ Owed(m, e, OnBlock(m, e, f), f)
<1>1. /\ e.knows \in BOOLEAN /\ e.ins \in SUBSET Members /\ e.outs \in SUBSET Members
      /\ e.passed \in SUBSET Frames /\ f.to = m /\ e \in Engines(m) /\ f.who \in Members
  BY EngineFacts, FrameFacts DEF Engine, ForMe
<1>2. PICK a : a = IF f.kind = "add" THEN [e EXCEPT !.ins = @ \cup {f.who}]
                   ELSE [e EXCEPT !.outs = @ \cup {f.who}]
  OBVIOUS
<1> DEFINE ins == IF f.kind = "add" THEN e.ins \cup {f.who} ELSE e.ins
           outs == IF f.kind = "add" THEN e.outs ELSE e.outs \cup {f.who}
<1>3. a = Knowing(e, e.knows, ins, outs, e.passed)
  BY <1>1, <1>2 DEF Engines, Knowing
<1>4. /\ Step(m, e, a, N) /\ a.seen = e.seen /\ a.ins = ins /\ a.outs = outs
      /\ a.parked = e.parked
  <2>1. Learned(m, e, N, e.knows, ins, outs, e.passed)
    BY <1>1 DEF Learned
  <2> HIDE DEF ins, outs
  <2> QED
    BY <1>3, <2>1, LearnedStep
<1>5. Engine(m, a) /\ ToSet(a.parked) \subseteq N /\ Applied(m, a, f)
  BY <1>4 DEF Step, Applied
<1> DEFINE left == Roster(e) \ (Roster(a) \cup {m})
           joined == Roster(a) \ (Roster(e) \cup {m})
           weLeft == m \in Roster(e) \ Roster(a)
<1>6. left \subseteq (a.ins \cap a.outs) \ {m}
  BY <1>4 DEF Roster
<1>7. OnBlock(m, e, f) =
         CASE weLeft -> a
           [] ~weLeft /\ left # {} -> Announced(m, Rotated(m, [a EXCEPT !.turned = @ \cup left]))
           [] ~weLeft /\ left = {} /\ joined # {} -> Announced(m, a)
           [] OTHER -> a
  BY <1>2 DEF OnBlock
<1> HIDE DEF left, joined, weLeft, ins, outs
<1>8. CASE OnBlock(m, e, f) = a
  BY <1>4, <1>5, <1>8 DEF Owed
<1>9. CASE OnBlock(m, e, f) = Announced(m, a)
  <2>1. Step(m, a, Announced(m, a), N) /\ Announced(m, a).seen = a.seen
    BY <1>5, AnnouncedStep
  <2>2. Step(m, e, Announced(m, a), N)
    BY <1>4, <2>1, StepTrans
  <2>3. Applied(m, Announced(m, a), f)
    BY <1>5, <2>1 DEF Applied, Step, Grown
  <2> QED
    BY <1>4, <1>9, <2>1, <2>2, <2>3 DEF Owed
<1>10. CASE OnBlock(m, e, f) = Announced(m, Rotated(m, [a EXCEPT !.turned = @ \cup left]))
  <2>1. PICK b : b = Rotated(m, [a EXCEPT !.turned = @ \cup left])
    OBVIOUS
  <2>2. Step(m, a, b, N) /\ b.seen = a.seen
    BY <1>5, <1>6, <2>1, RotatedStep
  <2>3. Engine(m, b) /\ ToSet(b.parked) \subseteq N
    BY <2>2 DEF Step, Sourced
  <2>4. Step(m, b, Announced(m, b), N) /\ Announced(m, b).seen = b.seen
    BY <2>3, AnnouncedStep
  <2>5. Step(m, e, Announced(m, b), N)
    BY <1>4, <1>5, <2>2, <2>3, <2>4, StepTrans
  <2>6. Applied(m, Announced(m, b), f)
    BY <1>5, <2>2, <2>4 DEF Applied, Step, Grown
  <2> QED
    BY <1>4, <1>10, <2>1, <2>2, <2>4, <2>5, <2>6 DEF Owed
<1> QED
  BY <1>7, <1>8, <1>9, <1>10

\* A copy of a chain that goes forward.
Turning(e, s, c, read) == [e EXCEPT !.chains[s] = c, !.read = read]

\* c may follow on the chain of s that e holds.
Follows(m, e, N, s, c) ==
    /\ s \in Members /\ c \in Chains
    /\ Forward(e.chains[s], c)
    /\ \/ c.epoch = e.chains[s].epoch
       \/ s # m /\ \E g \in N : g.kind = "key" /\ g.to = m /\ g.who = s /\ g.epoch = c.epoch

LEMMA TurningStep ==
    ASSUME NEW m \in Members, NEW e, Engine(m, e), NEW N, ToSet(e.parked) \subseteq N,
           NEW s, NEW c, Follows(m, e, N, s, c), NEW read \in SUBSET Frames, e.read \subseteq read
    PROVE  LET d == Turning(e, s, c, read)
           IN  Step(m, e, d, N) /\ d.seen = e.seen /\ d.read = read /\ d.chains[s] = c
<1> USE DEF Follows
<1> DEFINE d == Turning(e, s, c, read)
<1>1. e \in Engines(m) /\ e.turned \subseteq (e.ins \cap e.outs) \ {m} /\ e.chains \in [Members -> Chains]
  BY EngineFacts DEF Engine
<1>2. /\ d \in Engines(m) /\ d.parked = e.parked /\ d.seen = e.seen
      /\ d.knows = e.knows /\ d.ins = e.ins /\ d.outs = e.outs
      /\ d.chains = [e.chains EXCEPT ![s] = c]
      /\ d.read = read /\ d.passed = e.passed /\ d.turned = e.turned /\ d.out = e.out
  BY <1>1 DEF Engines, Turning
<1> HIDE DEF d
<1>3. Engine(m, d)
  BY <1>1, <1>2 DEF Engine
<1>4. d.chains[s] = c /\ \A o \in Members : o # s => d.chains[o] = e.chains[o]
  BY <1>1, <1>2
<1>5. \A o \in Members : Forward(e.chains[o], d.chains[o])
  BY <1>1, <1>4, EngineFacts, ChainFacts DEF Forward
<1>6. Grown(e, d)
  BY <1>2, <1>5 DEF Grown
<1>7. Sourced(m, e, d, N)
  BY <1>2, <1>4 DEF Sourced
<1>8. Spoken(m, e, d)
  BY <1>2 DEF Spoken
<1> QED
  BY <1>2, <1>3, <1>4, <1>6, <1>7, <1>8 DEF Step, d

\* on_sender_key
LEMMA KeyStep ==
    ASSUME NEW m \in Members, NEW e, Engine(m, e), NEW N, ToSet(e.parked) \subseteq N,
           NEW f \in ForMe(m), f \in N, f.kind = "key"
    PROVE  Step(m, e, OnKey(m, e, f), N) /\ Owed(m, e, OnKey(m, e, f), f)
<1>1. /\ f.to = m /\ f.who \in Members /\ f.epoch \in Nat /\ f.at \in Nat
      /\ e.chains[f.who] \in Chains /\ e.read \in SUBSET Frames /\ e \in Engines(m)
  BY EngineFacts, FrameFacts DEF Engine, ForMe
<1>2. CASE f.who = m
  <2>1. OnKey(m, e, f) = e
    BY <1>2 DEF OnKey
  <2> QED
    BY <1>2, <2>1, StepSame DEF Owed, Applied
<1>3. CASE f.who # m /\ ~({f.from, f.who} \subseteq Roster(e))
  BY <1>3, ParkedOwed DEF OnKey
<1>4. CASE f.who # m /\ {f.from, f.who} \subseteq Roster(e)
  <2>1. CASE f.epoch <= e.chains[f.who].epoch
    <3>1. OnKey(m, e, f) = e
      BY <1>4, <2>1 DEF OnKey
    <3> QED
      BY <2>1, <3>1, StepSame DEF Owed, Applied
  <2>2. CASE ~(f.epoch <= e.chains[f.who].epoch)
    <3>1. PICK c : c = Chain(f.epoch, f.at)
      OBVIOUS
    <3>2. c \in Chains /\ c.epoch = f.epoch /\ e.chains[f.who].epoch \in Nat
      BY <1>1, <3>1, ChainIs, ChainFacts
    <3>3. Forward(e.chains[f.who], c)
      BY <1>1, <2>2, <3>2 DEF Forward
    <3>4. PICK r : r = e.read
      OBVIOUS
    <3>5. OnKey(m, e, f) = [e EXCEPT !.chains[f.who] = c]
      BY <1>4, <2>2, <3>1 DEF OnKey
    <3>6. PICK d : d = Turning(e, f.who, c, r)
      OBVIOUS
    <3>7. OnKey(m, e, f) = d
      BY <1>1, <3>4, <3>5, <3>6 DEF Turning, Engines
    <3>8. Follows(m, e, N, f.who, c)
      BY <1>1, <1>4, <3>2, <3>3 DEF Follows
    <3>9. Step(m, e, d, N) /\ d.seen = e.seen /\ d.chains[f.who] = c
      <4>1. r \in SUBSET Frames /\ e.read \subseteq r
        BY <1>1, <3>4
      <4> QED
        BY <3>6, <3>8, <4>1, TurningStep
    <3>10. Applied(m, d, f)
      BY <1>1, <3>2, <3>9 DEF Applied
    <3> QED
      BY <3>9, <3>10, <3>7 DEF Owed
  <2> QED
    BY <2>1, <2>2
<1> QED
  BY <1>2, <1>3, <1>4

\* open_group_frame and on_group_message
LEMMA WordStep ==
    ASSUME NEW m \in Members, NEW e, Engine(m, e), NEW N, ToSet(e.parked) \subseteq N,
           NEW f \in ForMe(m), f \in N, f.kind = "word"
    PROVE  Step(m, e, OnWord(m, e, f), N) /\ Owed(m, e, OnWord(m, e, f), f)
<1>1. /\ f.to = m /\ f.who \in Members /\ f.epoch \in Nat /\ f.at \in Nat /\ f \in Frames
      /\ e.chains[f.who] \in Chains /\ e.read \in SUBSET Frames /\ e \in Engines(m)
      /\ e.knows \in BOOLEAN /\ e.ins \in SUBSET Members /\ e.outs \in SUBSET Members
      /\ e.passed \in SUBSET Frames
  BY EngineFacts, FrameFacts DEF Engine, ForMe
<1>2. PICK c : c = e.chains[f.who]
  OBVIOUS
<1>3. CASE f.who \notin Roster(e) \/ c = NoChain
  BY <1>2, <1>3, ParkedOwed DEF OnWord
<1>4. CASE f.who \in Roster(e) /\ c # NoChain /\ ~Opens(c, f.at)
  <2>1. PICK p : p = e.passed \cup ({f} \ e.read)
    OBVIOUS
  <2>2. PICK d : d = [e EXCEPT !.passed = p]
    OBVIOUS
  <2>3. OnWord(m, e, f) = d
    BY <1>2, <1>4, <2>1, <2>2 DEF OnWord
  <2>4. d = Knowing(e, e.knows, e.ins, e.outs, p)
    BY <1>1, <2>2 DEF Knowing, Engines
  <2>5. Learned(m, e, N, e.knows, e.ins, e.outs, p)
    BY <1>1, <2>1 DEF Learned
  <2>6. Step(m, e, d, N) /\ d.seen = e.seen /\ d.passed = p
    BY <2>4, <2>5, LearnedStep
  <2>7. f \in d.read \/ f \in d.passed
    BY <2>1, <2>6 DEF Step, Grown
  <2> QED
    BY <2>3, <2>6, <2>7 DEF Owed, Applied
<1>5. CASE f.who \in Roster(e) /\ c # NoChain /\ Opens(c, f.at)
  <2>1. CASE c.epoch # f.epoch
    BY <1>2, <1>5, <2>1, ParkedOwed DEF OnWord
  <2>2. CASE c.epoch = f.epoch
    <3>1. PICK k : k = Advanced(c, f.at)
      OBVIOUS
    <3>2. k \in Chains /\ k.epoch = c.epoch /\ Forward(c, k)
      <4>1. c.epoch \in Nat /\ c.next \in Nat /\ c.skipped \in SUBSET Nat /\ c \in Chains
        BY <1>1, <1>2, ChainFacts
      <4>2. CASE f.at >= c.next
        <5>1. PICK sk : sk = c.skipped \cup c.next..(f.at - 1)
          OBVIOUS
        <5>2. PICK n : n = f.at + 1
          OBVIOUS
        <5>3. sk \in SUBSET Nat /\ n \in Nat
          BY <1>1, <4>1, <5>1, <5>2
        <5>4. k = [c EXCEPT !.next = n, !.skipped = sk]
          BY <3>1, <4>2, <5>1, <5>2 DEF Advanced
        <5>5. /\ k \in Chains /\ k.epoch = c.epoch /\ k.next = n
          BY <4>1, <5>3, <5>4 DEF Chains
        <5> QED
          BY <1>1, <4>1, <4>2, <5>2, <5>5 DEF Forward
      <4>3. CASE ~(f.at >= c.next)
        <5>1. k = [c EXCEPT !.skipped = c.skipped \ {f.at}]
          BY <3>1, <4>3 DEF Advanced
        <5>2. k \in Chains /\ k.epoch = c.epoch /\ k.next = c.next
          BY <4>1, <5>1 DEF Chains
        <5> QED
          BY <4>1, <5>2 DEF Forward
      <4> QED
        BY <4>2, <4>3
    <3>3. PICK r : r = e.read \cup {f}
      OBVIOUS
    <3>4. PICK d : d = Turning(e, f.who, k, r)
      OBVIOUS
    <3>5. OnWord(m, e, f) = d
      BY <1>2, <1>5, <2>2, <3>1, <3>3, <3>4 DEF OnWord, Turning
    <3>6. Follows(m, e, N, f.who, k)
      BY <1>1, <1>2, <3>2 DEF Follows
    <3>7. r \in SUBSET Frames /\ e.read \subseteq r
      BY <1>1, <3>3
    <3>8. Step(m, e, d, N) /\ d.seen = e.seen /\ d.read = r
      BY <3>4, <3>6, <3>7, TurningStep
    <3> QED
      BY <3>3, <3>5, <3>8 DEF Owed, Applied
  <2> QED
    BY <2>1, <2>2
<1> QED
  BY <1>3, <1>4, <1>5

\* dispatch_group_frame
LEMMA DispatchedStep ==
    ASSUME NEW m \in Members, NEW e, Engine(m, e), NEW N, ToSet(e.parked) \subseteq N,
           NEW f \in ForMe(m), f \in N
    PROVE  Step(m, e, Dispatched(m, e, f), N) /\ Owed(m, e, Dispatched(m, e, f), f)
<1>1. f.kind \in {"intro", "add", "remove", "key", "word"} /\ e.knows \in BOOLEAN
  BY FrameFacts, EngineFacts DEF ForMe, Kinds, Engine
<1>2. CASE f.kind = "intro"
  BY <1>2, IntroStep DEF Dispatched
<1>3. CASE f.kind # "intro" /\ ~e.knows
  BY <1>3, ParkedOwed DEF Dispatched
<1>4. CASE f.kind \in {"add", "remove"} /\ e.knows
  <2>1. Dispatched(m, e, f) = OnBlock(m, e, f)
    BY <1>4 DEF Dispatched
  <2> QED
    BY <1>4, <2>1, BlockStep
<1>5. CASE f.kind = "key" /\ e.knows
  <2>1. Dispatched(m, e, f) = OnKey(m, e, f)
    BY <1>5 DEF Dispatched
  <2> QED
    BY <1>5, <2>1, KeyStep
<1>6. CASE f.kind = "word" /\ e.knows
  <2>1. Dispatched(m, e, f) = OnWord(m, e, f)
    BY <1>6 DEF Dispatched
  <2> QED
    BY <1>6, <2>1, WordStep
<1> QED
  BY <1>1, <1>2, <1>3, <1>4, <1>5, <1>6

-----------------------------------------------------------------------------
(* The queue, frame by frame and round by round. *)

\* Every mark has had its effect.
Marked(m, e) == \A g \in e.seen : Applied(m, e, g) \/ g \in e.passed

LEMMA GrownApplied ==
    ASSUME NEW m \in Members, NEW e \in Engines(m), NEW d \in Engines(m), Grown(e, d),
           NEW g \in Frames, Applied(m, e, g) \/ g \in e.passed
    PROVE  Applied(m, d, g) \/ g \in d.passed
<1>1. /\ g.who \in Members /\ g.epoch \in Nat /\ e.chains[g.who] \in Chains
      /\ d.chains[g.who] \in Chains /\ Forward(e.chains[g.who], d.chains[g.who])
  BY FrameFacts, EngineFacts DEF Grown
<1>2. /\ e.chains[g.who].epoch \in Nat /\ d.chains[g.who].epoch \in Nat
      /\ e.chains[g.who].epoch <= d.chains[g.who].epoch
  BY <1>1, ForwardEpoch, ChainFacts
<1>3. g.kind \in {"intro", "add", "remove", "key", "word"}
  BY FrameFacts DEF Kinds
<1>4. CASE g \in e.passed
  BY <1>4 DEF Grown
<1>5. CASE Applied(m, e, g) /\ g.kind = "intro"
  BY <1>5 DEF Applied, Grown
<1>6. CASE Applied(m, e, g) /\ g.kind = "add"
  BY <1>6 DEF Applied, Grown
<1>7. CASE Applied(m, e, g) /\ g.kind = "remove"
  BY <1>7 DEF Applied, Grown
<1>8. CASE Applied(m, e, g) /\ g.kind = "key"
  <2>1. g.who = m \/ g.epoch <= e.chains[g.who].epoch
    BY <1>8 DEF Applied
  <2>2. g.who = m \/ g.epoch <= d.chains[g.who].epoch
    BY <1>1, <1>2, <2>1
  <2> QED
    BY <1>8, <2>2 DEF Applied
<1>9. CASE Applied(m, e, g) /\ g.kind = "word"
  BY <1>9 DEF Applied, Grown
<1> QED
  BY <1>3, <1>4, <1>5, <1>6, <1>7, <1>8, <1>9

\* An engine whose marks are true takes one more frame, marked as seen.
LEMMA TakenStep ==
    ASSUME NEW m \in Members, NEW e, Engine(m, e), Marked(m, e),
           NEW N, ToSet(e.parked) \subseteq N, NEW f \in ForMe(m), f \in N
    PROVE  Step(m, e, Again(e, f, m), N) /\ Marked(m, Again(e, f, m))
<1>1. PICK a : a = [e EXCEPT !.seen = @ \cup {f}]
  OBVIOUS
<1>2. e \in Engines(m) /\ e.seen \in SUBSET ForMe(m) /\ f \in Frames
  BY EngineFacts DEF Engine, ForMe
<1>3. /\ a \in Engines(m) /\ a.parked = e.parked /\ a.seen = e.seen \cup {f}
      /\ a.knows = e.knows /\ a.ins = e.ins /\ a.outs = e.outs /\ a.chains = e.chains
      /\ a.read = e.read /\ a.passed = e.passed /\ a.turned = e.turned /\ a.out = e.out
  BY <1>1, <1>2 DEF Engines
<1>4. Engine(m, a) /\ ToSet(a.parked) \subseteq N
  BY <1>3 DEF Engine
<1>5. PICK d : d = Again(e, f, m)
  OBVIOUS
<1>6. Step(m, a, d, N) /\ Owed(m, a, d, f)
  BY <1>1, <1>4, <1>5, DispatchedStep DEF Again
<1>7. Step(m, e, d, N)
  BY <1>3, <1>6 DEF Step, Grown, Sourced, Spoken
<1>8. d \in Engines(m) /\ d.seen \subseteq ForMe(m) /\ Grown(e, d)
  BY <1>7, EngineFacts DEF Step, Engine
<1>9. ASSUME NEW g \in d.seen
      PROVE  Applied(m, d, g) \/ g \in d.passed
  <2>1. CASE g = f
    BY <1>6, <1>9, <2>1 DEF Owed
  <2>2. CASE g # f
    <3>1. g \in e.seen /\ g \in Frames
      BY <1>2, <1>3, <1>6, <1>9, <2>2 DEF Owed, ForMe
    <3>2. Applied(m, e, g) \/ g \in e.passed
      BY <3>1 DEF Marked
    <3> QED
      BY <1>2, <1>8, <3>1, <3>2, GrownApplied
  <2> QED
    BY <2>1, <2>2
<1> QED
  BY <1>5, <1>7, <1>9 DEF Marked

\* Whoever knows the group has a chain of its own.
Chained(m, e) == e.knows => e.chains[m].epoch > 0

\* Nothing but an introduction makes an engine know the group.
LEMMA KnowsAfter ==
    ASSUME NEW m \in Members, NEW e \in Engines(m), NEW f \in Frames, f.kind # "intro"
    PROVE  Dispatched(m, e, f).knows = e.knows
<1>1. ASSUME NEW d \in Engines(m)
      PROVE  Announced(m, d).knows = d.knows
  BY <1>1 DEF Announced, Send, Engines
<1>2. ASSUME NEW d \in Engines(m), NEW L \in SUBSET Members
      PROVE  LET r == Rotated(m, [d EXCEPT !.turned = @ \cup L])
             IN  r \in Engines(m) /\ r.knows = d.knows
  <2>1. PICK a : a = [d EXCEPT !.turned = @ \cup L]
    OBVIOUS
  <2>2. a \in Engines(m) /\ a.knows = d.knows /\ a.chains = d.chains
    BY <1>2, <2>1 DEF Engines
  <2>3. PICK n : n = a.chains[m].epoch + 1
    OBVIOUS
  <2>4. n \in Nat
    BY <2>2, <2>3, EngineFacts, ChainFacts
  <2>5. PICK c : c = Chain(n, 0)
    OBVIOUS
  <2>6. c \in Chains
    BY <2>4, <2>5, ChainIs
  <2>7. PICK r : r = [a EXCEPT !.chains[m] = c]
    OBVIOUS
  <2>8. Rotated(m, a) = r
    BY <2>3, <2>5, <2>7 DEF Rotated
  <2>9. r \in Engines(m) /\ r.knows = a.knows
    BY <2>2, <2>6, <2>7 DEF Engines
  <2> QED
    BY <2>1, <2>2, <2>8, <2>9
<1>3. Parked(e, f).knows = e.knows
  BY DEF Parked, Engines
<1>4. f.kind \in {"add", "remove", "key", "word"} /\ e.knows \in BOOLEAN /\ f.who \in Members
  BY FrameFacts, EngineFacts DEF Kinds
<1>5. CASE ~e.knows
  BY <1>3, <1>5 DEF Dispatched
<1>6. CASE f.kind \in {"add", "remove"} /\ e.knows
  <2>1. PICK a : a = IF f.kind = "add" THEN [e EXCEPT !.ins = @ \cup {f.who}]
                     ELSE [e EXCEPT !.outs = @ \cup {f.who}]
    OBVIOUS
  <2>2. a \in Engines(m) /\ a.knows = e.knows
    BY <1>4, <2>1 DEF Engines
  <2>3. PICK L : L = Roster(e) \ (Roster(a) \cup {m})
    OBVIOUS
  <2>4. L \in SUBSET Members
    BY <2>3, EngineFacts DEF Roster
  <2>5. PICK r : r = Rotated(m, [a EXCEPT !.turned = @ \cup L])
    OBVIOUS
  <2>6. r \in Engines(m) /\ r.knows = e.knows
    BY <1>2, <2>2, <2>4, <2>5
  <2>7. OnBlock(m, e, f) \in {a, Announced(m, r), Announced(m, a)}
    BY <2>1, <2>3, <2>5 DEF OnBlock
  <2>8. Announced(m, r).knows = e.knows /\ Announced(m, a).knows = e.knows
    BY <1>1, <2>2, <2>6
  <2>9. Dispatched(m, e, f) = OnBlock(m, e, f)
    BY <1>6 DEF Dispatched
  <2> QED
    BY <2>2, <2>7, <2>8, <2>9
<1>7. CASE f.kind = "key" /\ e.knows
  <2>1. PICK c : c = Chain(f.epoch, f.at)
    OBVIOUS
  <2>2. OnKey(m, e, f) \in {e, Parked(e, f), [e EXCEPT !.chains[f.who] = c]}
    BY <2>1 DEF OnKey
  <2>3. [e EXCEPT !.chains[f.who] = c].knows = e.knows
    BY DEF Engines
  <2>4. Dispatched(m, e, f) = OnKey(m, e, f)
    BY <1>7 DEF Dispatched
  <2> QED
    BY <1>3, <2>2, <2>3, <2>4
<1>8. CASE f.kind = "word" /\ e.knows
  <2>1. PICK c : c = Advanced(e.chains[f.who], f.at)
    OBVIOUS
  <2>2. PICK p : p = e.passed \cup ({f} \ e.read)
    OBVIOUS
  <2>3. OnWord(m, e, f) \in {Parked(e, f), [e EXCEPT !.passed = p],
                             [e EXCEPT !.chains[f.who] = c, !.read = @ \cup {f}]}
    BY <2>1, <2>2 DEF OnWord
  <2>4. /\ [e EXCEPT !.passed = p].knows = e.knows
        /\ [e EXCEPT !.chains[f.who] = c, !.read = @ \cup {f}].knows = e.knows
    BY DEF Engines
  <2>5. Dispatched(m, e, f) = OnWord(m, e, f)
    BY <1>8 DEF Dispatched
  <2> QED
    BY <1>3, <2>3, <2>4, <2>5
<1> QED
  BY <1>4, <1>5, <1>6, <1>7, <1>8

\* An engine that goes forward without coming to know the group stays so.
LEMMA ChainedGrown ==
    ASSUME NEW m \in Members, NEW e \in Engines(m), NEW d \in Engines(m), Grown(e, d),
           Chained(m, e), d.knows = e.knows
    PROVE  Chained(m, d)
<1>1. e.chains[m] \in Chains /\ d.chains[m] \in Chains /\ Forward(e.chains[m], d.chains[m])
  BY EngineFacts DEF Grown
<1>2. /\ e.chains[m].epoch \in Nat /\ d.chains[m].epoch \in Nat
      /\ e.chains[m].epoch <= d.chains[m].epoch
  BY <1>1, ForwardEpoch, ChainFacts
<1> QED
  BY <1>2 DEF Chained

LEMMA TakenChained ==
    ASSUME NEW m \in Members, NEW e, Engine(m, e), Marked(m, e), Chained(m, e),
           NEW N, ToSet(e.parked) \subseteq N, NEW f \in ForMe(m), f \in N
    PROVE  Chained(m, Again(e, f, m))
<1>1. PICK a : a = [e EXCEPT !.seen = @ \cup {f}]
  OBVIOUS
<1>2. e \in Engines(m) /\ e.seen \in SUBSET ForMe(m) /\ f \in Frames
  BY EngineFacts DEF Engine, ForMe
<1>3. a \in Engines(m) /\ a.knows = e.knows /\ a.chains = e.chains
  BY <1>1, <1>2 DEF Engines
<1>4. PICK d : d = Again(e, f, m)
  OBVIOUS
<1>5. d = Dispatched(m, a, f)
  BY <1>1, <1>4 DEF Again
<1>6. Step(m, e, d, N)
  BY <1>4, TakenStep
<1>7. d \in Engines(m) /\ Grown(e, d)
  BY <1>6 DEF Step, Engine
<1>8. CASE f.kind # "intro"
  <2>1. d.knows = e.knows
    BY <1>2, <1>3, <1>5, <1>8, KnowsAfter
  <2> QED
    BY <1>2, <1>4, <1>7, <2>1, ChainedGrown
<1>9. CASE f.kind = "intro" /\ a.knows
  <2>1. d = a
    BY <1>5, <1>9 DEF Dispatched, OnIntro
  <2> QED
    BY <1>3, <1>4, <2>1 DEF Chained
<1>10. CASE f.kind = "intro" /\ ~a.knows
  <2>1. PICK b : b = [a EXCEPT !.knows = TRUE]
    OBVIOUS
  <2>2. b \in Engines(m) /\ b.chains = e.chains
    BY <1>3, <2>1 DEF Engines
  <2>3. PICK n : n = b.chains[m].epoch + 1
    OBVIOUS
  <2>4. n \in Nat /\ n > 0
    BY <2>2, <2>3, EngineFacts, ChainFacts
  <2>5. PICK c : c = Chain(n, 0)
    OBVIOUS
  <2>6. c \in Chains /\ c.epoch = n
    BY <2>4, <2>5, ChainIs
  <2>7. PICK r : r = [b EXCEPT !.chains[m] = c]
    OBVIOUS
  <2>8. r \in Engines(m) /\ r.chains[m] = c
    BY <2>2, <2>6, <2>7 DEF Engines
  <2>9. d = Announced(m, r)
    BY <1>5, <1>10, <2>1, <2>3, <2>5, <2>7 DEF Dispatched, OnIntro, Rotated
  <2>10. d.chains = r.chains
    BY <2>8, <2>9 DEF Announced, Send, Engines
  <2> QED
    BY <1>4, <2>4, <2>6, <2>8, <2>10 DEF Chained
<1> QED
  BY <1>8, <1>9, <1>10

\* The queue in turn: under a name of its own, for no prover takes Again itself.
Taken(e, q, m) == InTurn(Again, e, q, m)

\* f[i] is the engine after the first i of q.
Turns(f, e, q, m) ==
    /\ f[0] = e /\ f[Len(q)] = Taken(e, q, m)
    /\ \A i \in 1..Len(q) : f[i] = Again(f[i - 1], q[i], m)

LEMMA TurnSteps ==
    ASSUME NEW e, NEW X, NEW q \in Seq(X), NEW m
    PROVE  \E f : Turns(f, e, q, m)
<1> DEFINE Is(h, k) ==
               h = [i \in 0..k |-> IF i = 0 THEN e ELSE Again(h[i - 1], q[i], m)]
           done == {k \in Nat : \E h : Is(h, k)}
<1>1. 0 \in done
  <2>1. Is([i \in 0..0 |-> e], 0)
    OBVIOUS
  <2> QED
    BY <2>1
<1>2. ASSUME NEW k \in 1..Len(q), k - 1 \in done
      PROVE  k \in done
  <2>1. PICK h : Is(h, k - 1)
    BY <1>2
  <2>2. PICK g : g = [i \in 0..k |-> IF i = k THEN Again(h[k - 1], q[k], m) ELSE h[i]]
    OBVIOUS
  <2>3. \A i \in 0..(k - 1) : h[i] = IF i = 0 THEN e ELSE Again(h[i - 1], q[i], m)
    BY <2>1
  <2> HIDE DEF Is
  <2>4. \A i \in 0..k : g[i] = IF i = k THEN Again(h[k - 1], q[k], m) ELSE h[i]
    BY <2>2
  <2>5. k \in Nat /\ k > 0
    OBVIOUS
  <2>6. \A i \in 0..(k - 1) : i \in 0..k /\ i # k
    BY <2>5
  <2>7. g[k] = Again(g[k - 1], q[k], m) /\ \A i \in 0..(k - 1) : g[i] = h[i]
    BY <2>4, <2>5, <2>6
  <2>8. \A i \in 0..k : g[i] = IF i = 0 THEN e ELSE Again(g[i - 1], q[i], m)
    BY <2>3, <2>7
  <2>9. Is(g, k)
    BY <2>2, <2>8 DEF Is
  <2> QED
    BY <2>9
<1> HIDE DEF done
<1>3. Len(q) \in Nat /\ done \in SUBSET Nat
  BY DEF done
<1>4. \A k \in 0..Len(q) : k \in done
  BY <1>1, <1>2, <1>3, Induct
<1>5. \E h : Is(h, Len(q))
  BY <1>3, <1>4 DEF done
<1> DEFINE f == CHOOSE h : Is(h, Len(q))
<1>6. Is(f, Len(q))
  BY <1>5
<1>7. f[Len(q)] = Taken(e, q, m)
  BY DEF Taken, InTurn
<1> HIDE DEF f
<1>8. f = [i \in 0..Len(q) |-> IF i = 0 THEN e ELSE Again(f[i - 1], q[i], m)]
  BY <1>6
<1> HIDE DEF Is
<1>9. \A i \in 0..Len(q) : f[i] = IF i = 0 THEN e ELSE Again(f[i - 1], q[i], m)
  BY <1>8
<1>10. 0 \in 0..Len(q) /\ \A i \in 1..Len(q) : i \in 0..Len(q) /\ i # 0
  BY <1>3
<1>11. f[0] = e /\ \A i \in 1..Len(q) : f[i] = Again(f[i - 1], q[i], m)
  BY <1>9, <1>10
<1> QED
  BY <1>7, <1>11 DEF Turns

LEMMA RoundStep ==
    ASSUME NEW m \in Members, NEW e, Engine(m, e), Marked(m, e),
           NEW N, ToSet(e.parked) \subseteq N
    PROVE  Step(m, e, Round(m, e), N) /\ Marked(m, Round(m, e))
<1>1. CASE ~e.knows
  <2>1. Round(m, e) = e
    BY <1>1 DEF Round
  <2> QED
    BY <2>1, StepSame
<1>2. CASE e.knows
  <2>1. PICK q : q = e.parked
    OBVIOUS
  <2> DEFINE empty == <<>>
  <2>2. PICK a : a = [e EXCEPT !.parked = empty]
    OBVIOUS
  <2>3. e \in Engines(m) /\ q \in Seq(ForMe(m)) /\ ToSet(q) \subseteq N
    BY <2>1, EngineFacts DEF Engine
  <2>15. empty \in Seq(ForMe(m)) /\ empty = <<>>
    OBVIOUS
  <2> HIDE DEF empty
  <2>4. /\ a \in Engines(m) /\ a.parked = empty /\ a.seen = e.seen
        /\ a.knows = e.knows /\ a.ins = e.ins /\ a.outs = e.outs /\ a.chains = e.chains
        /\ a.read = e.read /\ a.passed = e.passed /\ a.turned = e.turned /\ a.out = e.out
    BY <2>2, <2>3, <2>15 DEF Engines
  <2>5. Len(a.parked) <= MaxParked /\ ToSet(a.parked) = {}
    BY <2>4, <2>15, GroupWordsAssumption DEF ToSet
  <2>6. Engine(m, a)
    BY <2>4, <2>5 DEF Engine
  <2>7. Step(m, e, a, N)
    <3>1. \A s \in Members : Forward(e.chains[s], a.chains[s])
      BY <2>3, <2>4, EngineFacts, ChainFacts DEF Forward
    <3> QED
      BY <2>4, <2>5, <2>6, <3>1 DEF Step, Grown, Sourced, Spoken
  <2>8. Marked(m, a)
    BY <2>4 DEF Marked, Applied
  <2>9. PICK f : Turns(f, a, q, m)
    <3>1. PICK X : X = ForMe(m)
      OBVIOUS
    <3>2. q \in Seq(X)
      BY <2>3, <3>1
    <3> QED
      BY <3>2, TurnSteps
  <2> DEFINE done == {k \in Nat : Step(m, e, f[k], N) /\ Marked(m, f[k])}
  <2>10. 0 \in done
    BY <2>7, <2>8, <2>9 DEF Turns
  <2>11. ASSUME NEW k \in 1..Len(q), k - 1 \in done
         PROVE  k \in done
    <3>1. PICK d : d = f[k - 1]
      OBVIOUS
    <3>2. Step(m, e, d, N) /\ Marked(m, d)
      BY <2>11, <3>1
    <3>3. Engine(m, d) /\ ToSet(d.parked) \subseteq N
      BY <3>2 DEF Step, Sourced
    <3>4. q[k] \in ForMe(m) /\ q[k] \in N /\ k \in Nat
      BY <2>3 DEF ToSet
    <3>5. f[k] = Again(d, q[k], m)
      BY <2>9, <3>1 DEF Turns
    <3>6. Step(m, d, f[k], N) /\ Marked(m, f[k])
      BY <3>2, <3>3, <3>4, <3>5, TakenStep
    <3>7. Step(m, e, f[k], N)
      BY <3>2, <3>6, StepTrans
    <3> QED
      BY <3>4, <3>6, <3>7
  <2>12. Len(q) \in Nat /\ done \in SUBSET Nat
    BY <2>3
  <2> HIDE DEF done
  <2>13. \A k \in 0..Len(q) : k \in done
    BY <2>10, <2>11, <2>12, Induct
  <2>14. Round(m, e) = f[Len(q)]
    BY <1>2, <2>1, <2>2, <2>9, <2>15 DEF Round, Taken, Turns
  <2> QED
    BY <2>12, <2>13, <2>14 DEF done
<1> QED
  BY <1>1, <1>2

LEMMA DrainedSteps ==
    ASSUME NEW e, NEW m
    PROVE  \E f : /\ f[0] = e /\ f[MaxParked] = Drained(m, e)
                  /\ \A i \in 1..MaxParked : f[i] = Round(m, f[i - 1])
<1> DEFINE Is(h, k) == h = [i \in 0..k |-> IF i = 0 THEN e ELSE Round(m, h[i - 1])]
           done == {k \in Nat : \E h : Is(h, k)}
<1>1. 0 \in done
  <2>1. Is([i \in 0..0 |-> e], 0)
    OBVIOUS
  <2> QED
    BY <2>1
<1>2. ASSUME NEW k \in 1..MaxParked, k - 1 \in done
      PROVE  k \in done
  <2>1. PICK h : Is(h, k - 1)
    BY <1>2
  <2>2. PICK g : g = [i \in 0..k |-> IF i = k THEN Round(m, h[k - 1]) ELSE h[i]]
    OBVIOUS
  <2>3. \A i \in 0..(k - 1) : h[i] = IF i = 0 THEN e ELSE Round(m, h[i - 1])
    BY <2>1
  <2> HIDE DEF Is
  <2>4. \A i \in 0..k : g[i] = IF i = k THEN Round(m, h[k - 1]) ELSE h[i]
    BY <2>2
  <2>5. k \in Nat /\ k > 0
    BY GroupWordsAssumption
  <2>6. \A i \in 0..(k - 1) : i \in 0..k /\ i # k
    BY <2>5
  <2>7. g[k] = Round(m, g[k - 1]) /\ \A i \in 0..(k - 1) : g[i] = h[i]
    BY <2>4, <2>5, <2>6
  <2>8. \A i \in 0..k : g[i] = IF i = 0 THEN e ELSE Round(m, g[i - 1])
    BY <2>3, <2>5, <2>7
  <2>9. Is(g, k)
    BY <2>2, <2>8 DEF Is
  <2> QED
    BY <2>5, <2>9
<1> HIDE DEF done
<1>3. MaxParked \in Nat /\ done \in SUBSET Nat
  BY GroupWordsAssumption DEF done
<1>4. \A k \in 0..MaxParked : k \in done
  BY <1>1, <1>2, <1>3, Induct
<1>5. \E h : Is(h, MaxParked)
  BY <1>3, <1>4 DEF done
<1> DEFINE f == CHOOSE h : Is(h, MaxParked)
<1>6. Is(f, MaxParked)
  BY <1>5
<1>7. f[MaxParked] = Drained(m, e)
  BY DEF Drained
<1> HIDE DEF f
<1>8. f = [i \in 0..MaxParked |-> IF i = 0 THEN e ELSE Round(m, f[i - 1])]
  BY <1>6
<1> HIDE DEF Is
<1>9. \A i \in 0..MaxParked : f[i] = IF i = 0 THEN e ELSE Round(m, f[i - 1])
  BY <1>8
<1>10. 0 \in 0..MaxParked /\ \A i \in 1..MaxParked : i \in 0..MaxParked /\ i # 0
  BY <1>3
<1>11. f[0] = e /\ \A i \in 1..MaxParked : f[i] = Round(m, f[i - 1])
  BY <1>9, <1>10
<1> QED
  BY <1>7, <1>11

LEMMA DrainedStep ==
    ASSUME NEW m \in Members, NEW e, Engine(m, e), Marked(m, e),
           NEW N, ToSet(e.parked) \subseteq N
    PROVE  Step(m, e, Drained(m, e), N) /\ Marked(m, Drained(m, e))
<1>1. PICK f : /\ f[0] = e /\ f[MaxParked] = Drained(m, e)
               /\ \A i \in 1..MaxParked : f[i] = Round(m, f[i - 1])
  BY DrainedSteps
<1> DEFINE done == {k \in Nat : Step(m, e, f[k], N) /\ Marked(m, f[k])}
<1>2. 0 \in done
  BY <1>1, StepSame
<1>3. ASSUME NEW k \in 1..MaxParked, k - 1 \in done
      PROVE  k \in done
  <2>1. PICK d : d = f[k - 1]
    OBVIOUS
  <2>2. Step(m, e, d, N) /\ Marked(m, d)
    BY <1>3, <2>1
  <2>3. Engine(m, d) /\ ToSet(d.parked) \subseteq N
    BY <2>2 DEF Step, Sourced
  <2>4. f[k] = Round(m, d) /\ k \in Nat
    BY <1>1, <2>1
  <2>5. Step(m, d, f[k], N) /\ Marked(m, f[k])
    BY <2>2, <2>3, <2>4, RoundStep
  <2>6. Step(m, e, f[k], N)
    BY <2>2, <2>5, StepTrans
  <2> QED
    BY <2>4, <2>5, <2>6
<1>4. MaxParked \in Nat /\ done \in SUBSET Nat
  BY GroupWordsAssumption
<1> HIDE DEF done
<1>5. \A k \in 0..MaxParked : k \in done
  BY <1>2, <1>3, <1>4, Induct
<1> QED
  BY <1>1, <1>4, <1>5 DEF done

\* admit and on_group_frame: one frame and all the rounds after it.
LEMMA HandledStep ==
    ASSUME NEW m \in Members, NEW e, Engine(m, e), Marked(m, e),
           NEW N, ToSet(e.parked) \subseteq N, NEW f \in ForMe(m), f \in N
    PROVE  Step(m, e, Handled(m, e, f), N) /\ Marked(m, Handled(m, e, f))
<1>1. PICK d : d = Again(e, f, m)
  OBVIOUS
<1>2. Step(m, e, d, N) /\ Marked(m, d)
  BY <1>1, TakenStep
<1>3. Engine(m, d) /\ ToSet(d.parked) \subseteq N
  BY <1>2 DEF Step, Sourced
<1>4. Step(m, d, Drained(m, d), N) /\ Marked(m, Drained(m, d))
  BY <1>2, <1>3, DrainedStep
<1>5. Handled(m, e, f) = Drained(m, d)
  BY <1>1 DEF Handled, Again
<1> QED
  BY <1>2, <1>4, <1>5, StepTrans

\* An engine that does not know the group leaves its queue alone.
LEMMA DrainedIdle ==
    ASSUME NEW m \in Members, NEW e, ~e.knows
    PROVE  Drained(m, e) = e
<1>1. PICK f : /\ f[0] = e /\ f[MaxParked] = Drained(m, e)
               /\ \A i \in 1..MaxParked : f[i] = Round(m, f[i - 1])
  BY DrainedSteps
<1> DEFINE done == {k \in Nat : f[k] = e}
<1>2. 0 \in done
  BY <1>1
<1>3. ASSUME NEW k \in 1..MaxParked, k - 1 \in done
      PROVE  k \in done
  <2>1. f[k] = Round(m, e) /\ k \in Nat
    BY <1>1, <1>3
  <2> QED
    BY <2>1 DEF Round
<1>4. MaxParked \in Nat /\ done \in SUBSET Nat
  BY GroupWordsAssumption
<1> HIDE DEF done
<1>5. \A k \in 0..MaxParked : k \in done
  BY <1>2, <1>3, <1>4, Induct
<1> QED
  BY <1>1, <1>4, <1>5 DEF done

LEMMA HandledChained ==
    ASSUME NEW m \in Members, NEW e, Engine(m, e), Marked(m, e), Chained(m, e),
           NEW N, ToSet(e.parked) \subseteq N, NEW f \in ForMe(m), f \in N
    PROVE  Chained(m, Handled(m, e, f))
<1>1. PICK d : d = Again(e, f, m)
  OBVIOUS
<1>2. Step(m, e, d, N) /\ Marked(m, d) /\ Chained(m, d)
  BY <1>1, TakenStep, TakenChained
<1>3. Engine(m, d) /\ ToSet(d.parked) \subseteq N /\ d \in Engines(m)
  BY <1>2 DEF Step, Sourced, Engine
<1>4. PICK h : h = Drained(m, d)
  OBVIOUS
<1>5. Step(m, d, h, N)
  BY <1>2, <1>3, <1>4, DrainedStep
<1>6. h \in Engines(m) /\ Grown(d, h)
  BY <1>5 DEF Step, Engine
<1>7. Handled(m, e, f) = h
  BY <1>1, <1>4 DEF Handled, Again
<1>8. CASE d.knows
  <2>1. d.knows \in BOOLEAN /\ h.knows \in BOOLEAN
    BY <1>3, <1>6, EngineFacts
  <2>2. h.knows = d.knows
    BY <1>6, <1>8, <2>1 DEF Grown
  <2> QED
    BY <1>2, <1>3, <1>6, <1>7, <2>2, ChainedGrown
<1>9. CASE ~d.knows
  BY <1>2, <1>4, <1>7, <1>9, DrainedIdle
<1> QED
  BY <1>8, <1>9

-----------------------------------------------------------------------------
(* What waits after the rounds.                                             *)

\* The frame f can only wait: dispatch_group_frame would park it.
Waits(m, e, f) ==
    LET c == e.chains[f.who]
    IN  \/ /\ f.kind = "key" /\ f.who # m
           /\ ~({f.from, f.who} \subseteq Roster(e))
        \/ /\ f.kind = "word"
           /\ \/ f.who \notin Roster(e) \/ c = NoChain
              \/ Opens(c, f.at) /\ c.epoch # f.epoch

AllWait(m, e) == \A f \in ToSet(e.parked) : Waits(m, e, f)

\* What decides whether a frame waits.
Alike(e, d) ==
    d.knows = e.knows /\ d.ins = e.ins /\ d.outs = e.outs /\ d.chains = e.chains

LEMMA WaitAlike ==
    ASSUME NEW m, NEW e, NEW d, NEW f, Alike(e, d), Waits(m, e, f)
    PROVE  Waits(m, d, f)
BY DEF Alike, Waits, Roster

\* Whatever a handler leaves in the queue waits, and changed nothing else.
LEMMA ParksWaiting ==
    ASSUME NEW m \in Members, NEW e \in Engines(m), e.knows, NEW f \in ForMe(m)
    PROVE  \/ Dispatched(m, e, f).parked = e.parked
           \/ Waits(m, e, f) /\ Dispatched(m, e, f) = Parked(e, f)
<1>1. f.kind \in {"intro", "add", "remove", "key", "word"} /\ f.who \in Members /\ f \in Frames
  BY FrameFacts DEF ForMe, Kinds
<1>2. ASSUME NEW d \in Engines(m)
      PROVE  Announced(m, d).parked = d.parked
  BY <1>2 DEF Announced, Send, Engines
<1>3. ASSUME NEW d \in Engines(m), NEW L \in SUBSET Members
      PROVE  LET r == Rotated(m, [d EXCEPT !.turned = @ \cup L])
             IN  r \in Engines(m) /\ r.parked = d.parked
  <2>1. PICK a : a = [d EXCEPT !.turned = @ \cup L]
    OBVIOUS
  <2>2. a \in Engines(m) /\ a.parked = d.parked /\ a.chains = d.chains
    BY <1>3, <2>1 DEF Engines
  <2>3. PICK n : n = a.chains[m].epoch + 1
    OBVIOUS
  <2>4. n \in Nat
    BY <2>2, <2>3, EngineFacts, ChainFacts
  <2>5. PICK c : c = Chain(n, 0)
    OBVIOUS
  <2>6. c \in Chains
    BY <2>4, <2>5, ChainIs
  <2>7. PICK r : r = [a EXCEPT !.chains[m] = c]
    OBVIOUS
  <2>8. Rotated(m, a) = r
    BY <2>3, <2>5, <2>7 DEF Rotated
  <2>9. r \in Engines(m) /\ r.parked = a.parked
    BY <2>2, <2>6, <2>7 DEF Engines
  <2> QED
    BY <2>1, <2>2, <2>8, <2>9
<1>4. CASE f.kind = "intro"
  <2>1. Dispatched(m, e, f) = e
    BY <1>4 DEF Dispatched, OnIntro
  <2> QED
    BY <2>1
<1>5. CASE f.kind \in {"add", "remove"}
  <2>1. PICK a : a = IF f.kind = "add" THEN [e EXCEPT !.ins = @ \cup {f.who}]
                     ELSE [e EXCEPT !.outs = @ \cup {f.who}]
    OBVIOUS
  <2>2. a \in Engines(m) /\ a.parked = e.parked
    BY <1>1, <2>1 DEF Engines
  <2>3. PICK L : L = Roster(e) \ (Roster(a) \cup {m})
    OBVIOUS
  <2>4. L \in SUBSET Members
    BY <2>3, EngineFacts DEF Roster
  <2>5. PICK r : r = Rotated(m, [a EXCEPT !.turned = @ \cup L])
    OBVIOUS
  <2>6. r \in Engines(m) /\ r.parked = e.parked
    BY <1>3, <2>2, <2>4, <2>5
  <2>7. OnBlock(m, e, f) \in {a, Announced(m, r), Announced(m, a)}
    BY <2>1, <2>3, <2>5 DEF OnBlock
  <2>8. Announced(m, r).parked = e.parked /\ Announced(m, a).parked = e.parked
    BY <1>2, <2>2, <2>6
  <2>9. Dispatched(m, e, f) = OnBlock(m, e, f)
    BY <1>5 DEF Dispatched
  <2> QED
    BY <2>2, <2>7, <2>8, <2>9
<1>6. CASE f.kind = "key"
  <2>1. Dispatched(m, e, f) = OnKey(m, e, f)
    BY <1>6 DEF Dispatched
  <2>2. CASE f.who # m /\ ~({f.from, f.who} \subseteq Roster(e))
    BY <1>6, <2>1, <2>2 DEF OnKey, Waits
  <2>3. CASE ~(f.who # m /\ ~({f.from, f.who} \subseteq Roster(e)))
    <3>1. PICK c : c = Chain(f.epoch, f.at)
      OBVIOUS
    <3>2. OnKey(m, e, f) \in {e, [e EXCEPT !.chains[f.who] = c]}
      BY <2>3, <3>1 DEF OnKey
    <3>3. [e EXCEPT !.chains[f.who] = c].parked = e.parked
      BY DEF Engines
    <3> QED
      BY <2>1, <3>2, <3>3
  <2> QED
    BY <2>2, <2>3
<1>7. CASE f.kind = "word"
  <2>1. Dispatched(m, e, f) = OnWord(m, e, f)
    BY <1>7 DEF Dispatched
  <2>2. PICK k : k = e.chains[f.who]
    OBVIOUS
  <2>3. CASE f.who \notin Roster(e) \/ k = NoChain
    BY <1>7, <2>1, <2>2, <2>3 DEF OnWord, Waits
  <2>4. CASE f.who \in Roster(e) /\ k # NoChain /\ ~Opens(k, f.at)
    <3>1. PICK p : p = e.passed \cup ({f} \ e.read)
      OBVIOUS
    <3>2. OnWord(m, e, f) = [e EXCEPT !.passed = p]
      BY <2>2, <2>4, <3>1 DEF OnWord
    <3>3. [e EXCEPT !.passed = p].parked = e.parked
      BY DEF Engines
    <3> QED
      BY <2>1, <3>2, <3>3
  <2>5. CASE f.who \in Roster(e) /\ k # NoChain /\ Opens(k, f.at) /\ k.epoch # f.epoch
    <3>1. OnWord(m, e, f) = Parked(e, f)
      BY <2>2, <2>5 DEF OnWord
    <3> QED
      BY <1>7, <2>1, <2>2, <2>5, <3>1 DEF Waits
  <2>6. CASE f.who \in Roster(e) /\ k # NoChain /\ Opens(k, f.at) /\ k.epoch = f.epoch
    <3>1. PICK c : c = Advanced(k, f.at)
      OBVIOUS
    <3>2. OnWord(m, e, f) = [e EXCEPT !.chains[f.who] = c, !.read = @ \cup {f}]
      BY <2>2, <2>6, <3>1 DEF OnWord
    <3>3. [e EXCEPT !.chains[f.who] = c, !.read = @ \cup {f}].parked = e.parked
      BY DEF Engines
    <3> QED
      BY <2>1, <3>2, <3>3
  <2> QED
    BY <2>3, <2>4, <2>5, <2>6
<1> QED
  BY <1>1, <1>4, <1>5, <1>6, <1>7

\* A frame that waits is parked again.
LEMMA WaitingParked ==
    ASSUME NEW m \in Members, NEW e, e.knows, NEW f, Waits(m, e, f)
    PROVE  Dispatched(m, e, f) = Parked(e, f)
<1>1. CASE f.kind = "key"
  <2>1. Dispatched(m, e, f) = OnKey(m, e, f) /\ f.who # m
        /\ ~({f.from, f.who} \subseteq Roster(e))
    BY <1>1 DEF Dispatched, Waits
  <2> QED
    BY <2>1 DEF OnKey
<1>2. CASE f.kind = "word"
  <2>1. PICK k : k = e.chains[f.who]
    OBVIOUS
  <2>2. Dispatched(m, e, f) = OnWord(m, e, f)
    BY <1>2 DEF Dispatched
  <2>3. \/ f.who \notin Roster(e) \/ k = NoChain
        \/ Opens(k, f.at) /\ k.epoch # f.epoch
    BY <1>2, <2>1 DEF Waits
  <2> QED
    BY <2>1, <2>2, <2>3 DEF OnWord
<1> QED
  BY <1>1, <1>2 DEF Waits

\* A frame taken from the queue is handled, and leaves the queue as it is, or
\* goes back, and leaves the rest as it is.
LEMMA TakenWaits ==
    ASSUME NEW m \in Members, NEW e, Engine(m, e), e.knows, NEW f \in ForMe(m),
           NEW d, d = Again(e, f, m)
    PROVE  /\ \/ d.parked = e.parked
              \/ Waits(m, e, f) /\ Alike(e, d)
           /\ Waits(m, e, f) => Alike(e, d)
           /\ Len(d.parked) <= Len(e.parked) + 1
           /\ ToSet(d.parked) \subseteq ToSet(e.parked) \cup {f}
<1>1. PICK a : a = [e EXCEPT !.seen = @ \cup {f}]
  OBVIOUS
<1>2. e \in Engines(m) /\ e.seen \in SUBSET ForMe(m)
  BY EngineFacts DEF Engine
<1>3. a \in Engines(m) /\ Alike(e, a) /\ Alike(a, e) /\ a.parked = e.parked /\ a.knows
  BY <1>1, <1>2 DEF Engines, Alike
<1>4. d = Dispatched(m, a, f)
  BY <1>1 DEF Again
<1>5. PICK q : q = e.parked
  OBVIOUS
<1>6. q \in Seq(ForMe(m)) /\ Len(q) <= MaxParked /\ Len(q) \in Nat
  BY <1>2, <1>5, EngineFacts DEF Engine
<1>7. PICK p : p = Append(Shorter(Without(q, f)), f)
  OBVIOUS
<1>8. Len(p) <= Len(q) + 1 /\ ToSet(p) \subseteq ToSet(q) \cup {f}
  BY <1>6, <1>7, QueueTaken
<1>9. PICK marks : marks = a.seen \ {f}
  OBVIOUS
<1>10. Parked(a, f) = [a EXCEPT !.parked = p, !.seen = marks]
  BY <1>3, <1>5, <1>7, <1>9 DEF Parked
<1>11. Parked(a, f).parked = p /\ Alike(a, Parked(a, f))
  BY <1>3, <1>10 DEF Engines, Alike
<1>12. Waits(m, e, f) => Alike(e, d)
  <2> SUFFICES ASSUME Waits(m, e, f)
               PROVE  Alike(e, d)
    OBVIOUS
  <2>1. Waits(m, a, f)
    BY <1>3, WaitAlike
  <2>2. d = Parked(a, f)
    BY <1>3, <1>4, <2>1, WaitingParked
  <2> QED
    BY <1>3, <1>11, <2>2 DEF Alike
<1>13. CASE d.parked = a.parked
  BY <1>3, <1>5, <1>6, <1>12, <1>13
<1>14. CASE d.parked # a.parked
  <2>1. Waits(m, a, f) /\ d = Parked(a, f)
    BY <1>3, <1>4, <1>14, ParksWaiting
  <2>2. Waits(m, e, f)
    BY <1>3, <2>1, WaitAlike
  <2> QED
    BY <1>5, <1>8, <1>11, <1>12, <2>1, <2>2
<1> QED
  BY <1>13, <1>14

\* A round makes the queue shorter or finds that all of it waits.
Settles(m, e, r) ==
    /\ r.knows
    /\ Len(r.parked) < Len(e.parked) \/ AllWait(m, r)
    /\ AllWait(m, e) => AllWait(m, r)

LEMMA RoundSettles ==
    ASSUME NEW m \in Members, NEW e, Engine(m, e), Marked(m, e), e.knows
    PROVE  Settles(m, e, Round(m, e))
<1>1. PICK q : q = e.parked
  OBVIOUS
<1> DEFINE empty == <<>>
<1>2. PICK a : a = [e EXCEPT !.parked = empty]
  OBVIOUS
<1>3. /\ e \in Engines(m) /\ q \in Seq(ForMe(m)) /\ Len(q) \in Nat
      /\ DOMAIN q = 1..Len(q)
  BY <1>1, EngineFacts DEF Engine
<1>4. empty \in Seq(ForMe(m)) /\ empty = <<>> /\ Len(empty) = 0 /\ ToSet(empty) = {}
  BY DEF ToSet
<1> HIDE DEF empty
<1>5. /\ a \in Engines(m) /\ a.parked = empty /\ a.seen = e.seen
      /\ a.knows = e.knows /\ a.ins = e.ins /\ a.outs = e.outs /\ a.chains = e.chains
      /\ a.read = e.read /\ a.passed = e.passed /\ a.turned = e.turned
  BY <1>2, <1>3, <1>4 DEF Engines
<1>6. Engine(m, a) /\ Marked(m, a) /\ Alike(e, a)
  <2>1. Len(a.parked) <= MaxParked
    BY <1>4, <1>5, GroupWordsAssumption
  <2> QED
    BY <1>5, <2>1 DEF Engine, Marked, Applied, Alike
<1>7. PICK f : Turns(f, a, q, m)
  <2>1. PICK X : X = ForMe(m)
    OBVIOUS
  <2>2. q \in Seq(X)
    BY <1>3, <2>1
  <2> QED
    BY <2>2, TurnSteps
<1>8. Round(m, e) = f[Len(q)]
  BY <1>1, <1>2, <1>4, <1>7 DEF Round, Taken, Turns
<1> DEFINE Halted(d, k) == Len(d.parked) < k \/ (Alike(e, d) /\ AllWait(m, d))
           Stays(d) == AllWait(m, e) => Alike(e, d)
           done == {k \in Nat : /\ Engine(m, f[k]) /\ Marked(m, f[k]) /\ f[k].knows
                                /\ ToSet(f[k].parked) \subseteq ToSet(q)
                                /\ Len(f[k].parked) <= k
                                /\ Halted(f[k], k) /\ Stays(f[k])}
<1>9. 0 \in done
  <2>1. f[0] = a
    BY <1>7 DEF Turns
  <2>2. AllWait(m, a)
    BY <1>4, <1>5 DEF AllWait
  <2>3. Halted(a, 0)
    BY <1>6, <2>2
  <2>4. Stays(a)
    BY <1>6
  <2>5. /\ ToSet(a.parked) \subseteq ToSet(q)
        /\ Len(a.parked) <= 0
    BY <1>4, <1>5
  <2> HIDE DEF Halted, Stays
  <2>6. /\ Engine(m, f[0]) /\ Marked(m, f[0]) /\ f[0].knows
        /\ ToSet(f[0].parked) \subseteq ToSet(q)
        /\ Len(f[0].parked) <= 0
        /\ Halted(f[0], 0) /\ Stays(f[0])
    BY <1>5, <1>6, <2>1, <2>3, <2>4, <2>5
  <2> QED
    BY <2>6
<1>10. ASSUME NEW k \in 1..Len(q), k - 1 \in done
       PROVE  k \in done
  <2>1. PICK d : d = f[k - 1]
    OBVIOUS
  <2>2. /\ Engine(m, d) /\ Marked(m, d) /\ d.knows /\ ToSet(d.parked) \subseteq ToSet(q)
        /\ Len(d.parked) <= k - 1 /\ Halted(d, k - 1) /\ Stays(d)
    BY <1>10, <2>1
  <2>3. PICK g : g = q[k]
    OBVIOUS
  <2>4. g \in ForMe(m) /\ g \in ToSet(q) /\ k \in Nat
    BY <1>3, <2>3 DEF ToSet
  <2>5. PICK r : r = Again(d, g, m)
    OBVIOUS
  <2>6. f[k] = r
    BY <1>7, <2>1, <2>3, <2>5 DEF Turns
  <2>7. Step(m, d, r, ToSet(q)) /\ Marked(m, r)
    BY <2>2, <2>4, <2>5, TakenStep
  <2>8. Engine(m, r) /\ ToSet(r.parked) \subseteq ToSet(q) /\ r.knows
    <3>1. d.knows \in BOOLEAN /\ r.knows \in BOOLEAN
      BY <2>2, <2>7, EngineFacts DEF Step, Engine
    <3> QED
      BY <2>2, <2>7, <3>1 DEF Step, Sourced, Grown
  <2>9. /\ \/ r.parked = d.parked
           \/ Waits(m, d, g) /\ Alike(d, r)
        /\ Waits(m, d, g) => Alike(d, r)
        /\ Len(r.parked) <= Len(d.parked) + 1
        /\ ToSet(r.parked) \subseteq ToSet(d.parked) \cup {g}
    BY <2>2, <2>4, <2>5, TakenWaits
  <2>10. Len(d.parked) \in Nat /\ Len(r.parked) \in Nat
    BY <2>2, <2>8, EngineFacts DEF Engine
  <2>11. Len(r.parked) <= k
    BY <2>2, <2>4, <2>9, <2>10
  <2>12. Halted(r, k)
    <3>1. CASE Len(d.parked) < k - 1
      BY <2>4, <2>9, <2>10, <3>1
    <3>2. CASE r.parked = d.parked
      BY <2>2, <2>4, <2>10, <3>2
    <3>3. CASE /\ Alike(e, d) /\ AllWait(m, d) /\ Waits(m, d, g) /\ Alike(d, r)
      <4>1. Alike(e, r)
        BY <3>3 DEF Alike
      <4>2. AllWait(m, r)
        BY <2>9, <3>3, WaitAlike DEF AllWait
      <4> QED
        BY <4>1, <4>2
    <3> QED
      BY <2>2, <2>9, <3>1, <3>2, <3>3
  <2>13. Stays(r)
    <3> SUFFICES ASSUME AllWait(m, e)
                 PROVE  Alike(e, r)
      OBVIOUS
    <3>1. Alike(e, d) /\ Waits(m, e, g)
      BY <1>1, <2>2, <2>4 DEF AllWait
    <3>2. Alike(d, r)
      BY <2>9, <3>1, WaitAlike
    <3> QED
      BY <3>1, <3>2 DEF Alike
  <2> HIDE DEF Halted, Stays
  <2> QED
    BY <2>4, <2>6, <2>7, <2>8, <2>11, <2>12, <2>13
<1>11. done \in SUBSET Nat
  OBVIOUS
<1> HIDE DEF done
<1>12. \A k \in 0..Len(q) : k \in done
  BY <1>3, <1>9, <1>10, <1>11, Induct
<1>13. PICK r : r = Round(m, e)
  OBVIOUS
<1>14. /\ r.knows /\ ToSet(r.parked) \subseteq ToSet(q)
       /\ Halted(r, Len(q)) /\ Stays(r)
  BY <1>3, <1>8, <1>12, <1>13 DEF done
<1>15. AllWait(m, e) => AllWait(m, r)
  BY <1>1, <1>14, WaitAlike DEF AllWait
<1> QED
  BY <1>1, <1>13, <1>14, <1>15 DEF Settles

\* MaxParked rounds are enough: each makes the queue shorter until all waits.
LEMMA DrainedSettles ==
    ASSUME NEW m \in Members, NEW e, Engine(m, e), Marked(m, e), e.knows
    PROVE  AllWait(m, Drained(m, e))
<1>1. PICK f : /\ f[0] = e /\ f[MaxParked] = Drained(m, e)
               /\ \A i \in 1..MaxParked : f[i] = Round(m, f[i - 1])
  BY DrainedSteps
<1> DEFINE done == {k \in Nat : /\ Engine(m, f[k]) /\ Marked(m, f[k]) /\ f[k].knows
                                /\ Len(f[k].parked) <= MaxParked - k \/ AllWait(m, f[k])}
<1>2. 0 \in done
  BY <1>1, GroupWordsAssumption DEF Engine
<1>3. ASSUME NEW k \in 1..MaxParked, k - 1 \in done
      PROVE  k \in done
  <2>1. PICK d : d = f[k - 1]
    OBVIOUS
  <2>2. /\ Engine(m, d) /\ Marked(m, d) /\ d.knows
        /\ Len(d.parked) <= MaxParked - (k - 1) \/ AllWait(m, d)
    BY <1>3, <2>1
  <2>3. PICK r : r = Round(m, d)
    OBVIOUS
  <2>4. f[k] = r /\ k \in Nat
    BY <1>1, <2>1, <2>3
  <2>5. Settles(m, d, r)
    BY <2>2, <2>3, RoundSettles
  <2>6. PICK N : N = ToSet(d.parked)
    OBVIOUS
  <2>7. Step(m, d, r, N) /\ Marked(m, r)
    BY <2>2, <2>3, <2>6, RoundStep
  <2>8. Engine(m, r) /\ Len(d.parked) \in Nat /\ Len(r.parked) \in Nat
    BY <2>2, <2>7, EngineFacts DEF Step, Engine
  <2>9. Len(r.parked) <= MaxParked - k \/ AllWait(m, r)
    BY <2>2, <2>4, <2>5, <2>8, GroupWordsAssumption DEF Settles
  <2> QED
    BY <2>4, <2>5, <2>7, <2>8, <2>9 DEF Settles
<1>4. MaxParked \in Nat /\ done \in SUBSET Nat
  BY GroupWordsAssumption
<1> HIDE DEF done
<1>5. \A k \in 0..MaxParked : k \in done
  BY <1>2, <1>3, <1>4, Induct
<1>6. PICK r : r = Drained(m, e)
  OBVIOUS
<1>7. Engine(m, r) /\ (Len(r.parked) <= MaxParked - MaxParked \/ AllWait(m, r))
  BY <1>1, <1>4, <1>5, <1>6 DEF done
<1>8. CASE ~AllWait(m, r)
  <2>1. Len(r.parked) = 0
    <3>1. Len(r.parked) \in Nat
      BY <1>7, EngineFacts DEF Engine
    <3> QED
      BY <1>4, <1>7, <1>8, <3>1
  <2>2. PICK q : q = r.parked
    OBVIOUS
  <2>3. q \in Seq(ForMe(m))
    BY <1>7, <2>2, EngineFacts DEF Engine
  <2>4. ToSet(q) = {}
    BY <2>1, <2>2, <2>3 DEF ToSet
  <2> QED
    BY <1>8, <2>2, <2>4 DEF AllWait
<1> QED
  BY <1>6, <1>8

-----------------------------------------------------------------------------
(* The group. *)

Rows == UNION {Engines(m) : m \in Members}

Typed ==
    /\ engine \in [Members -> Rows]
    /\ net \subseteq Frames
    /\ words \subseteq [who : Members, epoch : Nat, at : Nat, outs : SUBSET Members,
                      turned : SUBSET Members]
    /\ changes \in 0..MaxChanges /\ deaths \in 0..MaxDeaths

\* Between two handlers an engine is well formed, has a chain if it knows the
\* group, has sent what it had to, keeps only true marks, and what waits with
\* it was sent.
AtRest(m, e) ==
    /\ Engine(m, e) /\ Chained(m, e) /\ Marked(m, e)
    /\ e.out = {} /\ ToSet(e.parked) \subseteq net

AllAtRest == Typed /\ \A m \in Members : AtRest(m, engine[m])

Own(s) == engine[s].chains[s].epoch

\* Nobody has a newer chain of s than s, nor has it been announced.
OwnIsNewest ==
    /\ \A g \in net : g.kind = "key" => g.epoch <= Own(g.who)
    /\ \A m, s \in Members : engine[m].chains[s].epoch <= Own(s)

\* All that x has and all that is on its way to it of s's chain is older than n.
Past(x, s, n) ==
    /\ \A g \in net : g.kind = "key" /\ g.who = s /\ g.to = x => g.epoch < n
    /\ engine[x].chains[s].epoch < n

Behind(x, s, n) == InvitedByTwo(x) \/ Past(x, s, n)

LeftIsBehind == \A s \in Members : \A x \in engine[s].turned : Behind(x, s, Own(s))

SaidIsBehind ==
    \A w \in words : \A x \in w.turned :
        x \in engine[w.who].turned /\ Behind(x, w.who, w.epoch)

\* Whoever somebody has heard of was invited by a frame on the net, or is no
\* news to anybody: those of the start.
Heard(m, x) ==
    \/ x \in engine[m].ins
    \/ \E g \in net : g.kind = "add" /\ g.to = m /\ g.who = x
Asked(x) == \E g \in net : g.kind = "intro" /\ g.to = x
Came(x) == Asked(x) \/ \A m \in Members : engine[m].knows \/ Asked(m) => Heard(m, x)
HeardCame == \A m, x \in Members : Heard(m, x) => Came(x)

InviterKnows == \A g \in net : g.kind = "intro" => g.to \in engine[g.from].ins

\* A word is under a chain.
WordsAreUnder == \A g \in net : g.kind = "word" => g.epoch > 0

Inv ==
    /\ AllAtRest /\ OwnIsNewest /\ LeftIsBehind /\ SaidIsBehind
    /\ HeardCame /\ InviterKnows /\ WordsAreUnder

\* One engine takes a step, of one frame or of many.
Moves(m, d) ==
    /\ m \in Members /\ Step(m, engine[m], d, net) /\ Chained(m, d) /\ Marked(m, d)
    /\ Becomes(m, d)

LEMMA Moved ==
    ASSUME AllAtRest, NEW m, NEW d, Moves(m, d)
    PROVE  /\ engine' \in [Members -> Rows]
           /\ net' = net \cup d.out /\ net' \subseteq Frames
           /\ \A o \in Members : o # m => engine'[o] = engine[o]
           /\ engine'[m].knows = d.knows /\ engine'[m].ins = d.ins /\ engine'[m].outs = d.outs
           /\ engine'[m].chains = d.chains /\ engine'[m].turned = d.turned
           /\ engine'[m].seen = d.seen
           /\ \A o \in Members : AtRest(o, engine[o])' /\ Grown(engine[o], engine'[o])
<1>1. m \in Members /\ d \in Engines(m) /\ engine[m] \in Engines(m) /\ engine \in [Members -> Rows]
  BY DEF Moves, Step, AllAtRest, Typed, AtRest, Engine
<1>2. PICK none : none = {}
  OBVIOUS
<1>3. PICK e : e = [d EXCEPT !.out = none]
  OBVIOUS
<1>4. /\ e \in Engines(m) /\ e.parked = d.parked /\ e.seen = d.seen
      /\ e.knows = d.knows /\ e.ins = d.ins /\ e.outs = d.outs /\ e.chains = d.chains
      /\ e.read = d.read /\ e.passed = d.passed /\ e.turned = d.turned /\ e.out = {}
  BY <1>1, <1>2, <1>3 DEF Engines
<1>5. engine' = [engine EXCEPT ![m] = e] /\ net' = net \cup d.out
  BY <1>2, <1>3 DEF Moves, Becomes
<1>6. e \in Rows
  BY <1>1, <1>4 DEF Rows
<1>7. /\ engine' \in [Members -> Rows] /\ engine'[m] = e
      /\ \A o \in Members : o # m => engine'[o] = engine[o]
  BY <1>1, <1>5, <1>6
<1>8. net' \subseteq Frames
  BY <1>1, <1>5, EngineFacts DEF AllAtRest, Typed
<1>9. Engine(m, e) /\ Chained(m, e) /\ Marked(m, e) /\ ToSet(e.parked) \subseteq net
  BY <1>4 DEF Moves, Step, Engine, Chained, Marked, Applied, Sourced
<1>10. Grown(engine[m], e)
  BY <1>4 DEF Moves, Step, Grown
<1>11. ASSUME NEW o \in Members
       PROVE  AtRest(o, engine[o])' /\ Grown(engine[o], engine'[o])
  <2>1. CASE o = m
    BY <1>4, <1>5, <1>7, <1>9, <1>10, <2>1 DEF AtRest
  <2>2. CASE o # m
    <3>1. engine'[o] = engine[o] /\ AtRest(o, engine[o])
      BY <1>7, <2>2 DEF AllAtRest
    <3>2. AtRest(o, engine[o])'
      BY <1>5, <3>1 DEF AtRest
    <3>3. \A s \in Members : Forward(engine[o].chains[s], engine[o].chains[s])
      BY <3>1, EngineFacts, ChainFacts DEF AtRest, Engine, Forward
    <3> QED
      BY <3>1, <3>2, <3>3 DEF Grown
  <2> QED
    BY <2>1, <2>2
<1> QED
  BY <1>4, <1>5, <1>7, <1>8, <1>11

LEMMA EpochFacts ==
    ASSUME AllAtRest, NEW o \in Members, NEW s \in Members
    PROVE  engine[o] \in Engines(o) /\ engine[o].chains[s] \in Chains
           /\ engine[o].chains[s].epoch \in Nat /\ Own(s) \in Nat
BY EngineFacts, ChainFacts DEF AllAtRest, AtRest, Engine, Own

LEMMA OwnGrows ==
    ASSUME AllAtRest, NEW m, NEW d, Moves(m, d), NEW s \in Members
    PROVE  Own(s)' \in Nat /\ Own(s) \in Nat /\ Own(s) <= Own(s)'
<1>1. Grown(engine[s], engine'[s]) /\ AtRest(s, engine[s])' /\ AtRest(s, engine[s])
  BY Moved DEF AllAtRest
<1>2. engine[s].chains[s] \in Chains /\ engine'[s].chains[s] \in Chains
  BY <1>1, EngineFacts DEF AtRest, Engine
<1>3. Forward(engine[s].chains[s], engine'[s].chains[s])
  BY <1>1 DEF Grown
<1> QED
  BY <1>2, <1>3, ForwardEpoch, ChainFacts DEF Own

\* What a moving engine sends of chains is its own, and not to the removed.
LEMMA SentOwn ==
    ASSUME AllAtRest, NEW m, NEW d, Moves(m, d), NEW g \in net', g \notin net
    PROVE  \/ Besides(g)
           \/ /\ g.kind = "key" /\ g.who = m /\ g.to \notin engine[m].outs
              /\ g.epoch <= Own(m)'
              /\ g.to \in engine'[m].turned => g.epoch < Own(m)'
<1>1. g \in d.out /\ g \notin engine[m].out
  BY Moved DEF AllAtRest, AtRest, Moves
<1>2. engine'[m].chains = d.chains /\ engine'[m].turned = d.turned
  BY Moved
<1> QED
  BY <1>1, <1>2 DEF Moves, Step, Spoken, Own

\* What another engine comes to have of the chain of s was on the net.
LEMMA Got ==
    ASSUME AllAtRest, NEW m, NEW d, Moves(m, d), NEW o \in Members, NEW s \in Members, o # s
    PROVE  \/ engine'[o].chains[s].epoch = engine[o].chains[s].epoch
           \/ \E g \in net : g.kind = "key" /\ g.who = s /\ g.to = o
                             /\ g.epoch = engine'[o].chains[s].epoch
<1>1. CASE o # m
  BY <1>1, Moved
<1>2. CASE o = m
  <2>1. engine'[m].chains = d.chains
    BY Moved
  <2> QED
    BY <1>2, <2>1 DEF Moves, Step, Sourced
<1> QED
  BY <1>1, <1>2

LEMMA OwnStaysNewest ==
    ASSUME AllAtRest, OwnIsNewest, NEW m, NEW d, Moves(m, d)
    PROVE  OwnIsNewest'
<1>1. ASSUME NEW g \in net', g.kind = "key"
      PROVE  g.epoch <= Own(g.who)'
  <2>1. g \in Frames /\ g.epoch \in Nat /\ g.who \in Members
    BY <1>1, Moved, FrameFacts
  <2>2. CASE g \in net
    <3>1. g.epoch <= Own(g.who)
      BY <1>1, <2>2 DEF OwnIsNewest
    <3>2. Own(g.who)' \in Nat /\ Own(g.who) \in Nat /\ Own(g.who) <= Own(g.who)'
      BY <2>1, OwnGrows
    <3> QED
      BY <2>1, <3>1, <3>2
  <2>3. CASE g \notin net
    <3>1. g.who = m /\ g.epoch <= Own(m)'
      BY <1>1, <2>3, SentOwn DEF Besides
    <3> QED
      BY <3>1 DEF Own
  <2> QED
    BY <2>2, <2>3
<1>2. ASSUME NEW o \in Members, NEW s \in Members
      PROVE  (engine[o].chains[s].epoch)' <= Own(s)'
  <2>1. Own(s)' \in Nat /\ Own(s) \in Nat /\ Own(s) <= Own(s)'
    BY OwnGrows
  <2>2. CASE o = s
    BY <2>1, <2>2 DEF Own
  <2>3. CASE o # s
    <3>1. engine[o].chains[s].epoch <= Own(s) /\ engine[o].chains[s].epoch \in Nat
      BY EpochFacts DEF OwnIsNewest
    <3>2. CASE engine'[o].chains[s].epoch = engine[o].chains[s].epoch
      BY <2>1, <3>1, <3>2
    <3>3. CASE engine'[o].chains[s].epoch # engine[o].chains[s].epoch
      <4>1. PICK g \in net : g.kind = "key" /\ g.who = s /\ g.epoch = engine'[o].chains[s].epoch
        BY <2>3, <3>3, Got
      <4>2. g.epoch <= Own(s) /\ g.epoch \in Nat
        BY <4>1, FrameFacts DEF OwnIsNewest, AllAtRest, Typed
      <4> QED
        BY <2>1, <4>1, <4>2
    <3> QED
      BY <3>2, <3>3
  <2> QED
    BY <2>2, <2>3
<1> QED
  BY <1>1, <1>2 DEF OwnIsNewest

LEMMA ByTwoStays ==
    ASSUME NEW x, net \subseteq net', InvitedByTwo(x)
    PROVE  InvitedByTwo(x)'
BY DEF InvitedByTwo

\* Whoever was seen to leave gets nothing newer, whoever moves.
LEMMA PastStays ==
    ASSUME AllAtRest, NEW m, NEW d, Moves(m, d), NEW s \in Members, NEW x \in engine[s].turned,
           NEW n \in Nat, Past(x, s, n)
    PROVE  Past(x, s, n)'
<1>1. x \in Members /\ x # s /\ x \in engine[s].outs /\ engine[s] \in Engines(s)
  BY EngineFacts DEF AllAtRest, AtRest, Engine
<1>2. ASSUME NEW g \in net', g.kind = "key", g.who = s, g.to = x
      PROVE  g.epoch < n
  <2>1. g \in net
    BY <1>1, <1>2, SentOwn DEF Besides
  <2> QED
    BY <1>2, <2>1 DEF Past
<1>3. (engine[x].chains[s].epoch)' < n
  BY <1>1, Got DEF Past
<1> QED
  BY <1>2, <1>3 DEF Past

LEMMA LeftStaysBehind ==
    ASSUME AllAtRest, OwnIsNewest, LeftIsBehind, NEW m, NEW d, Moves(m, d)
    PROVE  LeftIsBehind'
<1> SUFFICES ASSUME NEW s \in Members, NEW x \in engine'[s].turned
             PROVE  Behind(x, s, Own(s))'
  BY DEF LeftIsBehind
<1>1. /\ Own(s)' \in Nat /\ Own(s) \in Nat /\ Own(s) <= Own(s)'
      /\ net \subseteq net' /\ net' \subseteq Frames /\ AtRest(s, engine[s])'
  BY Moved, OwnGrows
<1>2. x \in Members /\ x # s
  BY <1>1, EngineFacts DEF AtRest, Engine
<1>3. CASE x \in engine[s].turned
  <2>1. CASE InvitedByTwo(x)
    BY <1>1, <2>1, ByTwoStays DEF Behind
  <2>2. CASE Past(x, s, Own(s))
    <3>1. PICK n : n = Own(s)
      OBVIOUS
    <3>2. n \in Nat /\ Past(x, s, n)
      BY <1>1, <2>2, <3>1
    <3>3. Past(x, s, n)'
      BY <1>3, <3>2, PastStays
    <3>4. Past(x, s, Own(s))'
      <4>1. (engine[x].chains[s].epoch)' \in Nat
        <5>1. engine'[x] \in Engines(x)
          BY <1>2, Moved DEF AtRest, Engine
        <5> QED
          BY <5>1, EngineFacts, ChainFacts
      <4> QED
        BY <1>1, <3>1, <3>3, <4>1, FrameFacts DEF Past
    <3> QED
      BY <3>4 DEF Behind
  <2> QED
    BY <1>3, <2>1, <2>2 DEF LeftIsBehind, Behind
<1>4. CASE x \notin engine[s].turned
  <2>1. s = m /\ engine'[m].turned = d.turned
    BY <1>4, Moved
  <2>2. engine[m].chains[m].epoch < d.chains[m].epoch /\ engine'[m].chains = d.chains
    BY <1>4, <2>1, Moved DEF Moves, Step, Spoken
  <2>3. Own(s) < Own(s)'
    BY <2>1, <2>2 DEF Own
  <2>4. ASSUME NEW g \in net', g.kind = "key", g.who = s, g.to = x
        PROVE  g.epoch < Own(s)'
    <3>1. g.epoch \in Nat
      BY <1>1, FrameFacts
    <3>2. CASE g \in net
      BY <1>1, <2>3, <2>4, <3>1, <3>2 DEF OwnIsNewest
    <3>3. CASE g \notin net
      BY <2>1, <2>4, <3>3, SentOwn DEF Besides
    <3> QED
      BY <3>2, <3>3
  <2>5. (engine[x].chains[s].epoch)' < Own(s)'
    <3>1. engine'[x] = engine[x]
      BY <1>2, <2>1, Moved
    <3>2. engine[x].chains[s].epoch <= Own(s) /\ engine[x].chains[s].epoch \in Nat
      BY <1>2, EpochFacts DEF OwnIsNewest
    <3> QED
      BY <1>1, <2>3, <3>1, <3>2
  <2> QED
    BY <2>4, <2>5 DEF Behind, Past
<1> QED
  BY <1>3, <1>4

LEMMA SaidStaysBehind ==
    ASSUME AllAtRest, SaidIsBehind, NEW m, NEW d, Moves(m, d), NEW w \in words, NEW x \in w.turned
    PROVE  x \in engine'[w.who].turned /\ Behind(x, w.who, w.epoch)'
<1>1. w.who \in Members /\ w.epoch \in Nat
  BY DEF AllAtRest, Typed
<1>2. x \in engine[w.who].turned /\ Behind(x, w.who, w.epoch)
  BY DEF SaidIsBehind
<1>3. x \in engine'[w.who].turned
  BY <1>1, <1>2, Moved DEF Grown
<1>4. CASE InvitedByTwo(x)
  BY <1>3, <1>4, Moved, ByTwoStays DEF Behind
<1>5. CASE Past(x, w.who, w.epoch)
  <2>1. PICK s \in Members : s = w.who
    BY <1>1
  <2>2. PICK n \in Nat : n = w.epoch
    BY <1>1
  <2>3. Past(x, s, n)'
    BY <1>2, <1>5, <2>1, <2>2, PastStays
  <2> QED
    BY <1>3, <2>1, <2>2, <2>3 DEF Behind
<1> QED
  BY <1>2, <1>4, <1>5 DEF Behind

LEMMA HeardStaysCame ==
    ASSUME AllAtRest, HeardCame, InviterKnows, NEW m, NEW d, Moves(m, d)
    PROVE  HeardCame' /\ InviterKnows'
<1>1. ASSUME NEW g \in net', g.kind \in {"intro", "add"}
      PROVE  g \in net
  BY <1>1, SentOwn DEF Besides
<1>2. net \subseteq net' /\ net' \subseteq Frames
  BY Moved
<1>3. ASSUME NEW o \in Members
      PROVE  /\ engine[o].ins \subseteq engine'[o].ins
             /\ engine[o].knows => engine'[o].knows
             /\ engine'[o].knows => engine[o].knows \/ Asked(o)
             /\ \A x \in engine'[o].ins : Heard(o, x)
  <2>1. Grown(engine[o], engine'[o])
    BY Moved
  <2>2. CASE o = m
    <3>1. engine'[m].knows = d.knows /\ engine'[m].ins = d.ins
      BY Moved
    <3> QED
      BY <2>1, <2>2, <3>1 DEF Moves, Step, Sourced, Grown, Asked, Heard
  <2>3. CASE o # m
    BY <2>1, <2>3, Moved DEF Heard, Grown
  <2> QED
    BY <2>2, <2>3
<1>4. ASSUME NEW o \in Members, NEW x \in Members
      PROVE  (Heard(o, x) <=> Heard(o, x)') /\ (Asked(x) <=> Asked(x)')
  BY <1>1, <1>2, <1>3 DEF Heard, Asked
<1>5. HeardCame'
  <2> SUFFICES ASSUME NEW o \in Members, NEW x \in Members, Heard(o, x)'
               PROVE  Came(x)'
    BY DEF HeardCame
  <2>1. Came(x)
    BY <1>4 DEF HeardCame
  <2>2. CASE Asked(x)
    BY <1>4, <2>2 DEF Came
  <2>3. CASE \A k \in Members : engine[k].knows \/ Asked(k) => Heard(k, x)
    <3>1. ASSUME NEW k \in Members, engine'[k].knows \/ Asked(k)'
          PROVE  Heard(k, x)'
      <4>1. engine[k].knows \/ Asked(k)
        BY <1>3, <1>4, <3>1
      <4> QED
        BY <1>4, <2>3, <4>1
    <3> QED
      BY <3>1 DEF Came
  <2> QED
    BY <2>1, <2>2, <2>3 DEF Came
<1>6. InviterKnows'
  <2> SUFFICES ASSUME NEW g \in net', g.kind = "intro"
               PROVE  g.to \in engine'[g.from].ins
    BY DEF InviterKnows
  <2>1. g \in net /\ g.from \in Members
    BY <1>1, <1>2, FrameFacts
  <2> QED
    BY <1>3, <2>1 DEF InviterKnows
<1> QED
  BY <1>5, <1>6

LEMMA WordsStayUnder ==
    ASSUME AllAtRest, WordsAreUnder, NEW m, NEW d, Moves(m, d)
    PROVE  WordsAreUnder'
<1>1. ASSUME NEW g \in net', g.kind = "word"
      PROVE  g.epoch > 0
  <2>1. CASE g \in net
    BY <1>1, <2>1 DEF WordsAreUnder
  <2>2. CASE g \notin net
    BY <1>1, <2>2, SentOwn DEF Besides
  <2> QED
    BY <2>1, <2>2
<1> QED
  BY <1>1 DEF WordsAreUnder

LEMMA ArriveMoves ==
    ASSUME AllAtRest, NEW f \in net, Arrive(f)
    PROVE  \E m, d : Moves(m, d)
<1>1. PICK m : m = f.to
  OBVIOUS
<1>2. m \in Members /\ f \in ForMe(m)
  BY <1>1, FrameFacts DEF AllAtRest, Typed, ForMe
<1>3. PICK e : e = engine[m]
  OBVIOUS
<1>4. Engine(m, e) /\ Chained(m, e) /\ Marked(m, e) /\ ToSet(e.parked) \subseteq net
  BY <1>2, <1>3 DEF AllAtRest, AtRest
<1>5. PICK d : d = Handled(m, e, f)
  OBVIOUS
<1>6. Step(m, e, d, net) /\ Chained(m, d) /\ Marked(m, d)
  BY <1>2, <1>4, <1>5, HandledStep, HandledChained
<1> QED
  BY <1>1, <1>2, <1>3, <1>5, <1>6 DEF Moves, Arrive

LEMMA DieMoves ==
    ASSUME AllAtRest, NEW f \in net, DieDraining(f)
    PROVE  \E m, d : Moves(m, d)
<1>1. PICK m : m = f.to
  OBVIOUS
<1>2. m \in Members /\ f \in ForMe(m)
  BY <1>1, FrameFacts DEF AllAtRest, Typed, ForMe
<1>3. PICK e : e = engine[m]
  OBVIOUS
<1>4. /\ Engine(m, e) /\ Chained(m, e) /\ Marked(m, e) /\ ToSet(e.parked) \subseteq net
      /\ e.out = {}
  BY <1>2, <1>3 DEF AllAtRest, AtRest
<1>5. PICK a : a = Again(e, f, m)
  OBVIOUS
<1>6. Step(m, e, a, net) /\ Chained(m, a) /\ Marked(m, a) /\ a \in Engines(m)
  <2>1. Step(m, e, a, net) /\ Chained(m, a) /\ Marked(m, a)
    BY <1>2, <1>4, <1>5, TakenStep, TakenChained
  <2> QED
    BY <2>1 DEF Step, Engine
<1> DEFINE empty == <<>>
           none == {}
<1>7. empty \in Seq(ForMe(m)) /\ none \subseteq Frames /\ ToSet(empty) = {} /\ Len(empty) = 0
  BY DEF ToSet
<1>8. Becomes(m, [a EXCEPT !.parked = empty, !.out = none])
  BY <1>1, <1>3, <1>5 DEF DieDraining, Again
<1>14. none = {}
  OBVIOUS
<1> HIDE DEF empty, none
<1>9. PICK d : d = [a EXCEPT !.parked = empty, !.out = none]
  OBVIOUS
<1>10. /\ d \in Engines(m) /\ d.parked = empty /\ d.seen = a.seen
       /\ d.knows = a.knows /\ d.ins = a.ins /\ d.outs = a.outs /\ d.chains = a.chains
       /\ d.read = a.read /\ d.passed = a.passed /\ d.turned = a.turned /\ d.out = none
  BY <1>6, <1>7, <1>9 DEF Engines
<1>11. Engine(m, d) /\ Chained(m, d) /\ Marked(m, d)
  <2>1. Engine(m, d)
    <3>1. Engine(m, a) /\ Len(d.parked) <= MaxParked
      BY <1>6, <1>7, <1>10, GroupWordsAssumption DEF Step
    <3> QED
      BY <1>10, <3>1 DEF Engine
  <2>2. Chained(m, d) /\ Marked(m, d)
    BY <1>6, <1>10 DEF Chained, Marked, Applied
  <2> QED
    BY <2>1, <2>2
<1>12. Grown(e, d) /\ Sourced(m, e, d, net) /\ Spoken(m, e, d)
  BY <1>6, <1>7, <1>10, <1>14 DEF Step, Grown, Sourced, Spoken
<1>13. Becomes(m, d)
  BY <1>8, <1>9
<1> QED
  BY <1>2, <1>3, <1>11, <1>12, <1>13 DEF Moves, Step

LEMMA EvictMoves ==
    ASSUME AllAtRest, NEW x \in Members, Evict(x)
    PROVE  \E m, d : Moves(m, d) /\ d.seen = engine[m].seen
<1>1. PICK e : e = engine[Owner]
  OBVIOUS
<1>2. /\ Engine(Owner, e) /\ Chained(Owner, e) /\ Marked(Owner, e) /\ ToSet(e.parked) \subseteq net /\ e.out = {}
      /\ Owner \in Members
  BY <1>1, GroupWordsAssumption DEF AllAtRest, AtRest
<1>3. x \in e.ins /\ x # Owner
  BY <1>1 DEF Evict, Roster
<1>4. PICK outs : outs = e.outs \cup {x}
  OBVIOUS
<1>5. PICK a : a = Knowing(e, e.knows, e.ins, outs, e.passed)
  OBVIOUS
<1>6. /\ e \in Engines(Owner) /\ e.knows \in BOOLEAN /\ e.ins \in SUBSET Members
      /\ outs \in SUBSET Members /\ e.passed \in SUBSET Frames
  BY <1>2, <1>4, EngineFacts DEF Engine
<1>7. Learned(Owner, e, net, e.knows, e.ins, outs, e.passed)
  BY <1>4, <1>6 DEF Learned
<1>8. /\ Step(Owner, e, a, net) /\ a.seen = e.seen /\ a.outs = outs /\ a.ins = e.ins
      /\ a.parked = e.parked
  BY <1>2, <1>5, <1>7, LearnedStep
<1>9. PICK F : F = {Frame("remove", Owner, o, x, 0, 0) : o \in (Roster(a) \cup {x}) \ {Owner}}
  OBVIOUS
<1>10. \A g \in F : g \in Frames /\ g.kind = "remove"
  BY <1>2, <1>6, <1>8, <1>9 DEF Frame, Frames, Roster, Kinds
<1>11. PICK b : b = Send(a, F)
  OBVIOUS
<1>12. Step(Owner, a, b, net) /\ b.seen = a.seen /\ b.ins = a.ins /\ b.outs = a.outs
  <2>1. Engine(Owner, a) /\ ToSet(a.parked) \subseteq net
    BY <1>8 DEF Step, Sourced
  <2>2. \A g \in F : g \in Frames /\ Besides(g)
    BY <1>10 DEF Besides
  <2> QED
    BY <1>2, <1>11, <2>1, <2>2, SentStep
<1>13. Engine(Owner, b) /\ ToSet(b.parked) \subseteq net
  BY <1>12 DEF Step, Sourced
<1>14. PICK c : c = Rotated(Owner, [b EXCEPT !.turned = @ \cup {x}])
  OBVIOUS
<1>15. /\ Step(Owner, b, c, net) /\ c.seen = b.seen
       /\ c.chains[Owner].epoch = b.chains[Owner].epoch + 1
  <2>1. PICK L : L = {x}
    OBVIOUS
  <2>2. L \subseteq (b.ins \cap b.outs) \ {Owner}
    BY <1>3, <1>4, <1>8, <1>12, <2>1
  <2>3. c = Rotated(Owner, [b EXCEPT !.turned = @ \cup L])
    BY <1>14, <2>1
  <2> QED
    BY <1>2, <1>13, <2>2, <2>3, RotatedStep
<1>16. Engine(Owner, c) /\ ToSet(c.parked) \subseteq net
  BY <1>15 DEF Step, Sourced
<1>17. PICK d : d = Announced(Owner, c)
  OBVIOUS
<1>18. Step(Owner, c, d, net) /\ d.seen = c.seen
  BY <1>2, <1>16, <1>17, AnnouncedStep
<1>19. Step(Owner, e, d, net)
  <2>1. Step(Owner, e, b, net)
    BY <1>2, <1>8, <1>12, StepTrans
  <2>2. Step(Owner, e, c, net)
    BY <1>2, <1>15, <2>1, StepTrans
  <2> QED
    BY <1>2, <1>18, <2>2, StepTrans
<1>20. Chained(Owner, d) /\ Marked(Owner, d)
  <2>1. d.seen = e.seen /\ d \in Engines(Owner) /\ Grown(e, d) /\ e.seen \subseteq Frames
    BY <1>6, <1>8, <1>12, <1>15, <1>18, <1>19, EngineFacts DEF Step, Engine, ForMe
  <2>2. Marked(Owner, d)
    BY <1>2, <1>6, <2>1, GrownApplied DEF Marked
  <2>3. d.chains[Owner].epoch > 0
    <3>1. /\ b \in Engines(Owner) /\ c \in Engines(Owner) /\ d \in Engines(Owner)
          /\ Grown(c, d)
      BY <1>12, <1>15, <1>18 DEF Step, Engine
    <3>2. /\ b.chains[Owner] \in Chains /\ c.chains[Owner] \in Chains
          /\ d.chains[Owner] \in Chains /\ Forward(c.chains[Owner], d.chains[Owner])
      BY <1>2, <3>1, EngineFacts DEF Grown
    <3>3. /\ b.chains[Owner].epoch \in Nat /\ d.chains[Owner].epoch \in Nat
          /\ c.chains[Owner].epoch \in Nat
          /\ c.chains[Owner].epoch <= d.chains[Owner].epoch
      BY <3>2, ForwardEpoch, ChainFacts
    <3> QED
      BY <1>15, <3>3
  <2> QED
    BY <2>2, <2>3 DEF Chained
<1>21. Becomes(Owner, d)
  <2>1. [e EXCEPT !.outs = @ \cup {x}, !.turned = @ \cup {x}]
           = [a EXCEPT !.turned = @ \cup {x}]
    BY <1>4, <1>5, <1>6 DEF Knowing, Engines
  <2>2. Roster([a EXCEPT !.turned = @ \cup {x}]) = Roster(a)
    BY <1>8 DEF Roster, Step, Engine, Engines
  <2>3. Send([a EXCEPT !.turned = @ \cup {x}], F) = [b EXCEPT !.turned = @ \cup {x}]
    BY <1>8, <1>11 DEF Send, Step, Engine, Engines
  <2>4. d = Announced(Owner, Rotated(Owner, Send([a EXCEPT !.turned = @ \cup {x}], F)))
    BY <1>14, <1>17, <2>3
  <2>5. F = {Frame("remove", Owner, o, x, 0, 0) :
                o \in (Roster([a EXCEPT !.turned = @ \cup {x}]) \cup {x}) \ {Owner}}
    BY <1>9, <2>2
  <2> HIDE DEF Becomes
  <2> QED
    BY <1>1, <2>1, <2>4, <2>5 DEF Evict
<1>22. d.seen = e.seen
  BY <1>8, <1>12, <1>15, <1>18
<1>23. Moves(Owner, d)
  BY <1>1, <1>2, <1>19, <1>20, <1>21 DEF Moves
<1> QED
  BY <1>1, <1>22, <1>23

LEMMA SayMoves ==
    ASSUME AllAtRest, NEW s \in Members, Say(s)
    PROVE  \E d : /\ Moves(s, d) /\ d.turned = engine[s].turned /\ Own(s)' = Own(s)
                  /\ d.seen = engine[s].seen
<1>1. PICK e : e = engine[s]
  OBVIOUS
<1>2. /\ Engine(s, e) /\ Chained(s, e) /\ Marked(s, e) /\ ToSet(e.parked) \subseteq net
      /\ e.out = {}
      /\ e \in Engines(s) /\ e.chains[s] \in Chains /\ e.read \in SUBSET Frames
      /\ e.ins \in SUBSET Members
  BY <1>1, EngineFacts DEF AllAtRest, AtRest, Engine
<1>3. PICK k : k = e.chains[s]
  OBVIOUS
<1>4. k.epoch \in Nat /\ k.next \in Nat /\ k \in Chains
  BY <1>2, <1>3, ChainFacts
<1>5. PICK n : n = k.next + 1
  OBVIOUS
<1>6. PICK c : c = Chain(k.epoch, n)
  OBVIOUS
<1>7. c \in Chains /\ c.epoch = k.epoch /\ c.next = n /\ n \in Nat
  BY <1>4, <1>5, <1>6, ChainIs
<1>8. PICK r : r = e.read
  OBVIOUS
<1>9. PICK a : a = Turning(e, s, c, r)
  OBVIOUS
<1>10. Step(s, e, a, net) /\ a.seen = e.seen /\ a.chains[s] = c
  <2>1. Forward(e.chains[s], c)
    BY <1>3, <1>4, <1>5, <1>7 DEF Forward
  <2>2. Follows(s, e, net, s, c)
    BY <1>3, <1>7, <2>1 DEF Follows
  <2>3. r \in SUBSET Frames /\ e.read \subseteq r
    BY <1>2, <1>8
  <2> QED
    BY <1>2, <1>9, <2>2, <2>3, TurningStep
<1>11. a = [e EXCEPT !.chains[s] = c] /\ a.turned = e.turned
  BY <1>2, <1>8, <1>9 DEF Turning, Engines
<1>12. PICK F : F = {Frame("word", s, o, s, k.epoch, k.next) : o \in Roster(e) \ {s}}
  OBVIOUS
<1>13. \A g \in F : g \in Frames /\ Besides(g)
  <2>1. k.epoch > 0
    BY <1>1, <1>3 DEF AllAtRest, AtRest, Chained, Say
  <2> QED
    BY <1>2, <1>4, <1>12, <2>1 DEF Frame, Frames, Roster, Kinds, Besides
<1>14. PICK d : d = Send(a, F)
  OBVIOUS
<1>15. Step(s, a, d, net) /\ d.seen = a.seen /\ d.chains = a.chains
  <2>1. Engine(s, a) /\ ToSet(a.parked) \subseteq net
    BY <1>10 DEF Step, Sourced
  <2> QED
    BY <1>13, <1>14, <2>1, SentStep
<1>16. Step(s, e, d, net)
  BY <1>2, <1>10, <1>15, StepTrans
<1>17. Chained(s, d) /\ Marked(s, d)
  <2>1. d.seen = e.seen /\ d \in Engines(s) /\ Grown(e, d) /\ e.seen \subseteq Frames
    BY <1>2, <1>10, <1>15, <1>16, EngineFacts DEF Step, Engine, ForMe
  <2>2. Marked(s, d)
    BY <1>2, <2>1, GrownApplied DEF Marked
  <2>3. Chained(s, d)
    BY <1>1, <1>2, <1>3, <1>7, <1>10, <1>15 DEF Chained, Say
  <2> QED
    BY <2>2, <2>3
<1>18. Becomes(s, d)
  <2> HIDE DEF Becomes
  <2> QED
    BY <1>1, <1>3, <1>5, <1>6, <1>11, <1>12, <1>14 DEF Say
<1>19. Moves(s, d)
  BY <1>1, <1>16, <1>17, <1>18 DEF Moves
<1>20. d.turned = e.turned
  <2>1. a \in Engines(s)
    BY <1>10 DEF Step, Engine
  <2> QED
    BY <1>11, <1>14, <2>1 DEF Send, Engines
<1>21. engine'[s].chains = d.chains
  BY <1>19, Moved
<1>22. Own(s)' = Own(s)
  BY <1>1, <1>3, <1>7, <1>10, <1>15, <1>21 DEF Own
<1>23. d.seen = e.seen
  BY <1>10, <1>15
<1> QED
  BY <1>1, <1>19, <1>20, <1>22, <1>23

-----------------------------------------------------------------------------
(* An invitation, the one action that speaks of others' chains. *)

Handover(m, x, e) ==
    {Frame("add", m, o, x, 0, 0) : o \in Roster(e) \ {m, x}}
    \cup {Frame("add", m, x, y, 0, 0) : y \in e.ins}
    \cup {Frame("remove", m, x, y, 0, 0) : y \in e.outs}
    \cup {Frame("intro", m, x, m, 0, 0)}
    \cup {Frame("key", m, x, s, e.chains[s].epoch, e.chains[s].next) :
            s \in {o \in Members : e.chains[o] # NoChain}}

LEMMA HandoverFacts ==
    ASSUME AllAtRest, NEW m \in Members, NEW x \in Members, NEW e \in Engines(m),
           NEW g \in Handover(m, x, e)
    PROVE  /\ g \in Frames
           /\ g.kind # "word"
           /\ g.kind = "intro" => g.from = m /\ g.to = x
           /\ g.kind = "add" => g.to = x \/ g.who = x
           /\ g.kind = "add" => g.who = x \/ g.who \in e.ins
           /\ g.kind = "key" => g.to = x /\ g.epoch = e.chains[g.who].epoch
<1>1. /\ e.ins \subseteq Members /\ e.outs \subseteq Members
      /\ \A s \in Members : /\ e.chains[s] \in Chains
                            /\ e.chains[s].epoch \in Nat /\ e.chains[s].next \in Nat
  BY EngineFacts, ChainFacts
<1>2. 0 \in Nat
  OBVIOUS
<1>3. CASE g \in {Frame("add", m, o, x, 0, 0) : o \in Roster(e) \ {m, x}}
  BY <1>1, <1>2, <1>3 DEF Frame, Frames, Kinds, Roster
<1>4. CASE g \in {Frame("add", m, x, y, 0, 0) : y \in e.ins}
  BY <1>1, <1>2, <1>4 DEF Frame, Frames, Kinds
<1>5. CASE g \in {Frame("remove", m, x, y, 0, 0) : y \in e.outs}
  BY <1>1, <1>2, <1>5 DEF Frame, Frames, Kinds
<1>6. CASE g = Frame("intro", m, x, m, 0, 0)
  BY <1>2, <1>6 DEF Frame, Frames, Kinds
<1>7. CASE g \in {Frame("key", m, x, s, e.chains[s].epoch, e.chains[s].next) :
                    s \in {o \in Members : e.chains[o] # NoChain}}
  BY <1>1, <1>7 DEF Frame, Frames, Kinds
<1> QED
  BY <1>3, <1>4, <1>5, <1>6, <1>7 DEF Handover

\* What an invitation changes: the inviter has one more, and the net the frames.
Invites(m, x, e) ==
    /\ e \in Engines(m) /\ e.ins = engine[m].ins \cup {x}
    /\ net' = net \cup Handover(m, x, e)
    /\ engine' \in [Members -> Rows] /\ net' \subseteq Frames
    /\ engine'[m].ins = e.ins /\ e.chains = engine[m].chains
    /\ \A o \in Members : /\ o # m => engine'[o] = engine[o]
                          /\ engine'[o].chains = engine[o].chains
                          /\ engine'[o].turned = engine[o].turned
                          /\ engine'[o].knows = engine[o].knows
                          /\ engine'[o].seen = engine[o].seen
                          /\ AtRest(o, engine[o])'
                          /\ Grown(engine[o], engine'[o])

LEMMA InviteDoes ==
    ASSUME AllAtRest, NEW m \in Members, NEW x \in Members, Invite(m, x)
    PROVE  \E e : Invites(m, x, e)
<1>1. PICK r : r = engine[m]
  OBVIOUS
<1>2. /\ Engine(m, r) /\ Chained(m, r) /\ Marked(m, r) /\ ToSet(r.parked) \subseteq net
      /\ r.out = {}
      /\ r \in Engines(m) /\ r.ins \in SUBSET Members /\ engine \in [Members -> Rows]
  BY <1>1, EngineFacts DEF AllAtRest, Typed, AtRest, Engine
<1>3. PICK ins : ins = r.ins \cup {x}
  OBVIOUS
<1>4. PICK e : e = [r EXCEPT !.ins = ins]
  OBVIOUS
<1>5. /\ e \in Engines(m) /\ e.parked = r.parked /\ e.seen = r.seen
      /\ e.knows = r.knows /\ e.ins = ins /\ e.outs = r.outs /\ e.chains = r.chains
      /\ e.read = r.read /\ e.passed = r.passed /\ e.turned = r.turned /\ e.out = {}
  BY <1>2, <1>3, <1>4 DEF Engines
<1>6. PICK H : H = Handover(m, x, e)
  OBVIOUS
<1>7. Becomes(m, Send(e, H))
  BY <1>1, <1>3, <1>4, <1>6 DEF Invite, Handover
<1>8. H \subseteq Frames
  BY <1>5, <1>6, HandoverFacts
<1>9. Send(e, H).out = H /\ [Send(e, H) EXCEPT !.out = {}] = e
  BY <1>5 DEF Send, Engines
<1>10. engine' = [engine EXCEPT ![m] = e] /\ net' = net \cup H
  BY <1>7, <1>9 DEF Becomes
<1>11. e \in Rows
  BY <1>5 DEF Rows
<1>12. /\ engine' \in [Members -> Rows] /\ engine'[m] = e
       /\ \A o \in Members : o # m => engine'[o] = engine[o]
  BY <1>2, <1>10, <1>11
<1>13. net' \subseteq Frames
  BY <1>8, <1>10 DEF AllAtRest, Typed
<1>14. Grown(r, e)
  <2>1. \A s \in Members : Forward(r.chains[s], e.chains[s])
    BY <1>2, <1>5, EngineFacts, ChainFacts DEF Forward
  <2> QED
    BY <1>3, <1>5, <2>1 DEF Grown
<1>15. Engine(m, e)
  BY <1>2, <1>3, <1>5 DEF Engine
<1>16. Chained(m, e) /\ Marked(m, e)
  <2>1. r.seen \subseteq Frames
    BY <1>2, EngineFacts DEF ForMe
  <2> QED
    BY <1>2, <1>5, <1>14, <2>1, GrownApplied DEF Marked, Chained
<1>17. ASSUME NEW o \in Members
       PROVE  /\ AtRest(o, engine[o])' /\ Grown(engine[o], engine'[o])
              /\ engine'[o].chains = engine[o].chains
              /\ engine'[o].turned = engine[o].turned
              /\ engine'[o].knows = engine[o].knows
              /\ engine'[o].seen = engine[o].seen
  <2>1. CASE o = m
    BY <1>1, <1>2, <1>5, <1>10, <1>12, <1>14, <1>15, <1>16, <2>1 DEF AtRest
  <2>2. CASE o # m
    <3>1. engine'[o] = engine[o] /\ AtRest(o, engine[o])
      BY <1>12, <2>2 DEF AllAtRest
    <3>2. AtRest(o, engine[o])'
      BY <1>10, <3>1 DEF AtRest
    <3>3. \A s \in Members : Forward(engine[o].chains[s], engine[o].chains[s])
      BY <3>1, EngineFacts, ChainFacts DEF AtRest, Engine, Forward
    <3> QED
      BY <3>1, <3>2, <3>3 DEF Grown
  <2> QED
    BY <2>1, <2>2
<1>18. Invites(m, x, e)
  BY <1>1, <1>3, <1>5, <1>6, <1>10, <1>12, <1>13, <1>17 DEF Invites
<1> QED
  BY <1>18

\* x was new to its inviter: if anybody had heard of it, another invited it.
LEMMA InvitedAgain ==
    ASSUME AllAtRest, HeardCame, InviterKnows, NEW m \in Members, NEW x \in Members, Invite(m, x),
           NEW e, Invites(m, x, e), NEW s \in Members, x \in engine[s].ins
    PROVE  InvitedByTwo(x)'
<1>1. engine[m].knows /\ x \notin engine[m].ins /\ Calm
  BY DEF Invite
<1>2. Came(x)
  BY DEF HeardCame, Heard
<1>3. Asked(x)
  <2> SUFFICES ASSUME Heard(m, x)
               PROVE  FALSE
    BY <1>1, <1>2 DEF Came
  <2>1. PICK g \in net : g.kind = "add" /\ g.to = m /\ g.who = x
    BY <1>1 DEF Heard
  <2> QED
    BY <1>1, <2>1 DEF Calm
<1>4. PICK g \in net : g.kind = "intro" /\ g.to = x
  BY <1>3 DEF Asked
<1>5. g.from # m
  BY <1>1, <1>4 DEF InviterKnows
<1>6. PICK f : f = Frame("intro", m, x, m, 0, 0)
  OBVIOUS
<1>7. f.kind = "intro" /\ f.to = x /\ f.from = m
  BY <1>6 DEF Frame
<1>8. f \in net' /\ g \in net'
  BY <1>4, <1>6 DEF Invites, Handover
<1> QED
  BY <1>4, <1>5, <1>7, <1>8 DEF InvitedByTwo

LEMMA InviteKeeps ==
    ASSUME Inv, NEW m \in Members, NEW x \in Members, Invite(m, x), NEW e, Invites(m, x, e)
    PROVE  OwnIsNewest' /\ LeftIsBehind' /\ HeardCame' /\ InviterKnows'
           /\ \A w \in words : \A y \in w.turned :
                 y \in engine'[w.who].turned /\ Behind(y, w.who, w.epoch)'
<1> USE DEF Inv
<1>1. /\ net' = net \cup Handover(m, x, e) /\ net \subseteq net' /\ net' \subseteq Frames
      /\ e \in Engines(m) /\ e.chains = engine[m].chains /\ e.ins = engine[m].ins \cup {x}
      /\ engine'[m].ins = e.ins
      /\ \A o \in Members : /\ engine'[o].chains = engine[o].chains
                            /\ engine'[o].turned = engine[o].turned
                            /\ engine'[o].knows = engine[o].knows
                            /\ engine[o].ins \subseteq engine'[o].ins
                            /\ o # m => engine'[o] = engine[o]
  BY DEF Invites, Grown
<1>2. ASSUME NEW g \in net', g \notin net
      PROVE  /\ g \in Frames
             /\ g.kind = "intro" => g.from = m /\ g.to = x
             /\ g.kind = "add" => g.to = x \/ g.who = x
             /\ g.kind = "add" => g.who = x \/ g.who \in e.ins
             /\ g.kind = "key" => g.to = x /\ g.epoch = engine[m].chains[g.who].epoch
  BY <1>1, <1>2, HandoverFacts
<1>3. \A s \in Members : Own(s)' = Own(s)
  BY <1>1 DEF Own
<1>4. OwnIsNewest'
  <2>1. ASSUME NEW g \in net', g.kind = "key"
        PROVE  g.epoch <= Own(g.who)'
    <3>1. g.who \in Members
      BY <1>1, FrameFacts
    <3>2. CASE g \in net
      BY <1>3, <2>1, <3>1, <3>2 DEF OwnIsNewest
    <3>3. CASE g \notin net
      BY <1>2, <1>3, <2>1, <3>1, <3>3 DEF OwnIsNewest
    <3> QED
      BY <3>2, <3>3
  <2>2. \A o, s \in Members : (engine[o].chains[s].epoch)' <= Own(s)'
    BY <1>1, <1>3 DEF OwnIsNewest
  <2> QED
    BY <2>1, <2>2 DEF OwnIsNewest
<1>5. ASSUME NEW s \in Members, NEW y \in engine[s].turned, NEW n, Behind(y, s, n)
      PROVE  Behind(y, s, n)'
  <2>1. y \in Members /\ y \in engine[s].ins
    BY EngineFacts DEF AllAtRest, AtRest, Engine
  <2>2. CASE y = x
    BY <2>1, <2>2, InvitedAgain DEF Behind
  <2>3. CASE y # x /\ InvitedByTwo(y)
    BY <1>1, <2>3, ByTwoStays DEF Behind
  <2>4. CASE y # x /\ Past(y, s, n)
    <3>1. \A g \in net' : g.kind = "key" /\ g.who = s /\ g.to = y => g.epoch < n
      BY <1>2, <2>4 DEF Past
    <3>2. engine'[y].chains[s].epoch < n
      BY <1>1, <2>1, <2>4 DEF Past
    <3> QED
      BY <3>1, <3>2 DEF Past, Behind
  <2> QED
    BY <1>5, <2>2, <2>3, <2>4 DEF Behind
<1>6. LeftIsBehind'
  <2> SUFFICES ASSUME NEW s \in Members, NEW y \in engine'[s].turned
               PROVE  Behind(y, s, Own(s))'
    BY DEF LeftIsBehind
  <2>1. PICK n : n = Own(s)
    OBVIOUS
  <2>2. y \in engine[s].turned /\ Behind(y, s, n)
    BY <1>1, <2>1 DEF LeftIsBehind
  <2>3. Behind(y, s, n)'
    BY <1>5, <2>2
  <2> QED
    BY <1>3, <2>1, <2>3 DEF Behind, Past
<1>7. ASSUME NEW w \in words, NEW y \in w.turned
      PROVE  y \in engine'[w.who].turned /\ Behind(y, w.who, w.epoch)'
  <2>1. PICK s \in Members : s = w.who
    BY DEF AllAtRest, Typed
  <2>2. PICK n : n = w.epoch
    OBVIOUS
  <2>3. y \in engine[s].turned /\ Behind(y, s, n)
    BY <2>1, <2>2 DEF SaidIsBehind
  <2>4. y \in engine'[s].turned /\ Behind(y, s, n)'
    BY <1>1, <1>5, <2>3
  <2> QED
    BY <2>1, <2>2, <2>4 DEF Behind
<1>8. /\ engine[m].knows /\ Calm
      /\ Asked(x)'
      /\ \A y \in e.ins : Heard(x, y)'
  <2>1. engine[m].knows /\ Calm
    BY DEF Invite
  <2>2. PICK f : f = Frame("intro", m, x, m, 0, 0)
    OBVIOUS
  <2>3. f \in net' /\ f.kind = "intro" /\ f.to = x
    BY <1>1, <2>2 DEF Handover, Frame
  <2>4. ASSUME NEW y \in e.ins
        PROVE  Heard(x, y)'
    <3>1. PICK h : h = Frame("add", m, x, y, 0, 0)
      OBVIOUS
    <3>2. h \in net' /\ h.kind = "add" /\ h.to = x /\ h.who = y
      BY <1>1, <3>1 DEF Handover, Frame
    <3> QED
      BY <3>2 DEF Heard
  <2> QED
    BY <2>1, <2>3, <2>4 DEF Asked
<1>9. ASSUME NEW o \in Members, NEW y \in Members, Heard(o, y)
      PROVE  Heard(o, y)'
  BY <1>1, <1>9 DEF Heard
<1>10. HeardCame'
  <2> SUFFICES ASSUME NEW o \in Members, NEW y \in Members, Heard(o, y)'
               PROVE  Came(y)'
    BY DEF HeardCame
  <2>1. CASE y = x
    BY <1>8, <2>1 DEF Came
  <2>2. CASE y # x
    <3>1. Came(y)
      <4>1. CASE Heard(o, y)
        BY <4>1 DEF HeardCame
      <4>2. CASE ~Heard(o, y)
        <5>1. CASE y \in engine'[o].ins
          BY <1>1, <2>2, <4>2, <5>1 DEF Heard
        <5>2. CASE y \notin engine'[o].ins
          <6>1. PICK g \in net' : g.kind = "add" /\ g.to = o /\ g.who = y
            BY <5>2 DEF Heard
          <6>2. g \notin net
            BY <4>2, <6>1 DEF Heard
          <6>3. y \in e.ins
            BY <1>2, <2>2, <6>1, <6>2
          <6>4. y \in engine[m].ins
            BY <1>1, <2>2, <6>3
          <6>5. Heard(m, y)
            BY <6>4 DEF Heard
          <6> QED
            BY <6>5 DEF HeardCame
        <5> QED
          BY <5>1, <5>2
      <4> QED
        BY <4>1, <4>2
    <3>2. CASE Asked(y)
      BY <1>1, <3>2 DEF Came, Asked
    <3>3. CASE \A k \in Members : engine[k].knows \/ Asked(k) => Heard(k, y)
      <4>1. Heard(m, y)
        BY <1>8, <3>3
      <4>2. y \in engine[m].ins
        BY <1>8, <4>1 DEF Heard, Calm
      <4>3. Heard(x, y)'
        BY <1>1, <1>8, <4>2
      <4>4. ASSUME NEW k \in Members, engine'[k].knows \/ Asked(k)'
            PROVE  Heard(k, y)'
        <5>1. CASE k = x
          BY <4>3, <5>1
        <5>2. CASE k # x
          <6>1. engine[k].knows \/ Asked(k)
            BY <1>1, <1>2, <4>4, <5>2 DEF Asked
          <6> QED
            BY <1>9, <3>3, <6>1
        <5> QED
          BY <5>1, <5>2
      <4> QED
        BY <4>4 DEF Came
    <3> QED
      BY <3>1, <3>2, <3>3 DEF Came
  <2> QED
    BY <2>1, <2>2
<1>11. InviterKnows'
  <2> SUFFICES ASSUME NEW g \in net', g.kind = "intro"
               PROVE  g.to \in engine'[g.from].ins
    BY DEF InviterKnows
  <2>1. g.from \in Members
    BY <1>1, FrameFacts
  <2>2. CASE g \in net
    BY <1>1, <2>1, <2>2 DEF InviterKnows
  <2>3. CASE g \notin net
    BY <1>1, <1>2, <2>3
  <2> QED
    BY <2>2, <2>3
<1> QED
  BY <1>4, <1>6, <1>7, <1>10, <1>11

\* After the rounds nothing waits that could be handled.
LEMMA ArriveSettles ==
    ASSUME AllAtRest, NEW f \in net, Arrive(f), NEW m \in Members
    PROVE  \/ engine'[m] = engine[m]
           \/ ~engine'[m].knows
           \/ AllWait(m, engine'[m])
<1>1. CASE m # f.to
  BY <1>1 DEF Arrive, Becomes, AllAtRest, Typed
<1>2. CASE m = f.to
  <2>1. f \in ForMe(m)
    BY <1>2 DEF AllAtRest, Typed, ForMe
  <2>2. PICK e : e = engine[m]
    OBVIOUS
  <2>3. Engine(m, e) /\ Marked(m, e) /\ ToSet(e.parked) \subseteq net
    BY <2>2 DEF AllAtRest, AtRest
  <2>4. PICK a : a = Again(e, f, m)
    OBVIOUS
  <2>5. Step(m, e, a, net) /\ Marked(m, a)
    BY <2>1, <2>3, <2>4, TakenStep
  <2>6. Engine(m, a) /\ ToSet(a.parked) \subseteq net
    BY <2>5 DEF Step, Sourced
  <2>7. PICK h : h = Drained(m, a)
    OBVIOUS
  <2>8. h \in Engines(m)
    <3>1. Step(m, a, h, net)
      BY <2>5, <2>6, <2>7, DrainedStep
    <3> QED
      BY <3>1 DEF Step, Engine
  <2>9. h = Handled(m, e, f)
    BY <2>4, <2>7 DEF Handled, Again
  <2>10. PICK none : none = {}
    OBVIOUS
  <2>11. PICK k : k = [h EXCEPT !.out = none]
    OBVIOUS
  <2>12. Alike(h, k) /\ k.parked = h.parked /\ k.knows = h.knows
    BY <2>8, <2>11 DEF Engines, Alike
  <2>13. engine'[m] = k
    BY <1>2, <2>2, <2>9, <2>10, <2>11 DEF Arrive, Becomes, AllAtRest, Typed
  <2>14. CASE a.knows
    <3>1. AllWait(m, h)
      BY <2>5, <2>6, <2>7, <2>14, DrainedSettles
    <3>2. AllWait(m, k)
      BY <2>12, <3>1, WaitAlike DEF AllWait
    <3> QED
      BY <2>13, <3>2
  <2>15. CASE ~a.knows
    <3>1. h = a
      BY <2>7, <2>15, DrainedIdle
    <3> QED
      BY <2>12, <2>13, <2>15, <3>1
  <2> QED
    BY <2>14, <2>15
<1> QED
  BY <1>1, <1>2

\* Whatever else happens marks no frame, but a death amid a drain.
LEMMA OthersMarkNone ==
    ASSUME AllAtRest, Next, deaths' = deaths, \A f \in net : ~Arrive(f), NEW m \in Members
    PROVE  engine'[m].seen = engine[m].seen
<1>1. ASSUME NEW o, NEW d, Moves(o, d), d.seen = engine[o].seen
      PROVE  engine'[m].seen = engine[m].seen
  BY <1>1, Moved
<1>2. ASSUME NEW o \in Members, NEW x \in Members, Invite(o, x)
      PROVE  engine'[m].seen = engine[m].seen
  BY <1>2, InviteDoes DEF Invites
<1>3. ASSUME NEW x \in Members, Evict(x)
      PROVE  engine'[m].seen = engine[m].seen
  BY <1>1, <1>3, EvictMoves
<1>4. ASSUME NEW s \in Members, Say(s)
      PROVE  engine'[m].seen = engine[m].seen
  BY <1>1, <1>4, SayMoves
<1>5. ASSUME NEW f \in net
      PROVE  ~DieDraining(f)
  BY GroupWordsAssumption DEF DieDraining, AllAtRest, Typed
<1> QED
  BY <1>2, <1>3, <1>4, <1>5 DEF Next

-----------------------------------------------------------------------------
(* The invariant. *)

LEMMA InitInv ==
    ASSUME Init
    PROVE  Inv
<1>1. PICK start \in Starts :
         engine = [m \in Members |-> IF m \in start THEN Met(start) ELSE Stranger]
  BY DEF Init
<1>2. net = {} /\ words = {} /\ changes = 0 /\ deaths = 0
  BY DEF Init
<1>3. start \subseteq Members
  BY GroupWordsAssumption
<1>4. /\ NoChain \in Chains /\ NoChain.epoch = 0
      /\ Chain(1, 0) \in Chains /\ Chain(1, 0).epoch = 1
  BY ChainIs DEF NoChain
<1> DEFINE empty == <<>>
<1>5. empty = <<>> /\ ToSet(empty) = {} /\ Len(empty) = 0 /\ \A m : empty \in Seq(ForMe(m))
  BY DEF ToSet
<1> HIDE DEF empty
<1>6. ASSUME NEW m \in Members
      PROVE  /\ engine[m] \in Engines(m) /\ engine[m].parked = empty /\ engine[m].seen = {}
             /\ engine[m].turned = {} /\ engine[m].out = {}
             /\ engine[m].knows => m \in start
             /\ engine[m].ins \subseteq start
             /\ m \in start => engine[m].ins = start
             /\ \A s \in Members : engine[m].chains[s].epoch = IF m \in start /\ s \in start THEN 1 ELSE 0
  <2>1. CASE m \in start
    <3>1. engine[m] = Met(start)
      BY <1>1, <2>1
    <3>2. PICK c : c = [s \in Members |-> IF s \in start THEN Chain(1, 0) ELSE NoChain]
      OBVIOUS
    <3>3. /\ c \in [Members -> Chains]
          /\ \A s \in Members : c[s].epoch = IF s \in start THEN 1 ELSE 0
      BY <1>4, <3>2
    <3>4. engine[m] = [Stranger EXCEPT !.knows = TRUE, !.ins = start, !.chains = c]
      BY <3>1, <3>2 DEF Met
    <3>5. engine[m] = [knows |-> TRUE, ins |-> start, outs |-> {}, chains |-> c,
                       parked |-> empty, seen |-> {}, read |-> {}, passed |-> {},
                       turned |-> {}, out |-> {}]
      BY <1>5, <3>4 DEF Stranger
    <3> QED
      BY <1>3, <1>5, <2>1, <3>3, <3>5 DEF Engines
  <2>2. CASE m \notin start
    <3>1. engine[m] = Stranger
      BY <1>1, <2>2
    <3>2. PICK c : c = [s \in Members |-> NoChain]
      OBVIOUS
    <3>3. c \in [Members -> Chains] /\ \A s \in Members : c[s].epoch = 0
      BY <1>4, <3>2
    <3>5. engine[m] = [knows |-> FALSE, ins |-> {}, outs |-> {}, chains |-> c,
                       parked |-> empty, seen |-> {}, read |-> {}, passed |-> {},
                       turned |-> {}, out |-> {}]
      BY <1>5, <3>1, <3>2 DEF Stranger
    <3> QED
      BY <1>5, <2>2, <3>3, <3>5 DEF Engines
  <2> QED
    BY <2>1, <2>2
<1>7. AllAtRest
  <2>1. engine \in [Members -> Rows]
    BY <1>1, <1>6 DEF Rows
  <2>2. Typed
    BY <1>2, <2>1, GroupWordsAssumption DEF Typed
  <2>3. \A m \in Members : AtRest(m, engine[m])
    BY <1>2, <1>5, <1>6, GroupWordsAssumption DEF AtRest, Engine, Marked, Chained
  <2> QED
    BY <2>2, <2>3 DEF AllAtRest
<1>8. OwnIsNewest
  BY <1>2, <1>6 DEF OwnIsNewest, Own
<1>9. LeftIsBehind /\ SaidIsBehind
  BY <1>2, <1>6 DEF LeftIsBehind, SaidIsBehind
<1>10. HeardCame /\ InviterKnows
  <2>1. \A x : ~Asked(x)
    BY <1>2 DEF Asked
  <2>2. \A m, x \in Members : Heard(m, x) => x \in start
    BY <1>2, <1>6 DEF Heard
  <2>3. \A k, x \in Members : engine[k].knows /\ x \in start => Heard(k, x)
    BY <1>6 DEF Heard
  <2>4. HeardCame
    BY <2>1, <2>2, <2>3 DEF HeardCame, Came
  <2> QED
    BY <1>2, <2>4 DEF InviterKnows
<1>11. WordsAreUnder
  BY <1>2 DEF WordsAreUnder
<1> QED
  BY <1>7, <1>8, <1>9, <1>10, <1>11 DEF Inv

Bounds ==
    /\ words \subseteq [who : Members, epoch : Nat, at : Nat, outs : SUBSET Members,
                      turned : SUBSET Members]
    /\ changes \in 0..MaxChanges /\ deaths \in 0..MaxDeaths

LEMMA HeldStays ==
    ASSUME engine' \in [Members -> Rows], net' \subseteq Frames, Bounds',
           \A o \in Members : AtRest(o, engine[o])'
    PROVE  AllAtRest'
BY DEF AllAtRest, Typed, Bounds

\* A move that says nothing.
LEMMA MoveKeeps ==
    ASSUME Inv, NEW m, NEW d, Moves(m, d), words' = words, Bounds'
    PROVE  Inv' /\ \A o \in Members : Grown(engine[o], engine'[o])
<1> USE DEF Inv
<1>1. /\ engine' \in [Members -> Rows] /\ net' \subseteq Frames
      /\ \A o \in Members : AtRest(o, engine[o])' /\ Grown(engine[o], engine'[o])
  BY Moved
<1>2. AllAtRest'
  BY <1>1, HeldStays
<1>3. OwnIsNewest' /\ LeftIsBehind' /\ HeardCame' /\ InviterKnows'
  BY OwnStaysNewest, LeftStaysBehind, HeardStaysCame
<1>4. SaidIsBehind'
  BY SaidStaysBehind DEF SaidIsBehind
<1>5. WordsAreUnder'
  BY WordsStayUnder
<1> QED
  BY <1>1, <1>2, <1>3, <1>4, <1>5

LEMMA SayKeeps ==
    ASSUME Inv, NEW s \in Members, Say(s)
    PROVE  Inv' /\ \A o \in Members : Grown(engine[o], engine'[o])
<1> USE DEF Inv
<1>1. PICK d : Moves(s, d) /\ d.turned = engine[s].turned /\ Own(s)' = Own(s)
  BY SayMoves
<1>2. /\ engine' \in [Members -> Rows] /\ net' \subseteq Frames
      /\ engine'[s].turned = engine[s].turned
      /\ \A o \in Members : AtRest(o, engine[o])' /\ Grown(engine[o], engine'[o])
  BY <1>1, Moved
<1>3. PICK w : w = [who |-> s, epoch |-> engine[s].chains[s].epoch,
                    at |-> engine[s].chains[s].next,
                    outs |-> engine[s].outs, turned |-> engine[s].turned]
  OBVIOUS
<1>4. words' = words \cup {w} /\ changes' = changes /\ deaths' = deaths
  BY <1>3 DEF Say
<1>5. w \in [who : Members, epoch : Nat, at : Nat, outs : SUBSET Members, turned : SUBSET Members]
  <2>1. engine[s] \in Engines(s) /\ engine[s].chains[s] \in Chains
    BY EpochFacts
  <2> QED
    BY <1>3, <2>1, EngineFacts, ChainFacts
<1>6. AllAtRest'
  <2>1. Bounds'
    BY <1>4, <1>5 DEF Bounds, AllAtRest, Typed
  <2> QED
    BY <1>2, <2>1, HeldStays
<1>7. OwnIsNewest' /\ LeftIsBehind' /\ HeardCame' /\ InviterKnows'
  BY <1>1, OwnStaysNewest, LeftStaysBehind, HeardStaysCame
<1>8. SaidIsBehind'
  <2> SUFFICES ASSUME NEW v \in words', NEW x \in v.turned
               PROVE  x \in engine'[v.who].turned /\ Behind(x, v.who, v.epoch)'
    BY DEF SaidIsBehind
  <2>1. CASE v \in words
    BY <1>1, <2>1, SaidStaysBehind
  <2>2. CASE v = w
    <3>1. v.who = s /\ v.epoch = Own(s) /\ v.turned = engine[s].turned
      BY <1>3, <2>2 DEF Own
    <3>2. x \in engine'[s].turned
      BY <1>2, <3>1
    <3>3. Behind(x, s, Own(s))'
      BY <1>7, <3>2 DEF LeftIsBehind
    <3>4. PICK n : n = v.epoch
      OBVIOUS
    <3>5. Behind(x, s, n)'
      BY <1>1, <3>1, <3>3, <3>4 DEF Behind, Past
    <3> QED
      BY <3>1, <3>2, <3>4, <3>5 DEF Behind, Past
  <2> QED
    BY <1>4, <2>1, <2>2
<1>9. WordsAreUnder'
  BY <1>1, WordsStayUnder
<1> QED
  BY <1>2, <1>6, <1>7, <1>8, <1>9

LEMMA InviteStep ==
    ASSUME Inv, NEW m \in Members, NEW x \in Members, Invite(m, x)
    PROVE  Inv' /\ \A o \in Members : Grown(engine[o], engine'[o])
<1> USE DEF Inv
<1>1. PICK e : Invites(m, x, e)
  BY InviteDoes
<1>2. /\ engine' \in [Members -> Rows] /\ net' \subseteq Frames
      /\ \A o \in Members : AtRest(o, engine[o])' /\ Grown(engine[o], engine'[o])
  BY <1>1 DEF Invites
<1>3. words' = words /\ Bounds'
  BY GroupWordsAssumption DEF Invite, Bounds, AllAtRest, Typed
<1>4. AllAtRest'
  BY <1>2, <1>3, HeldStays
<1>5. /\ OwnIsNewest' /\ LeftIsBehind' /\ HeardCame' /\ InviterKnows'
      /\ \A w \in words : \A y \in w.turned :
            y \in engine'[w.who].turned /\ Behind(y, w.who, w.epoch)'
  BY <1>1, InviteKeeps
<1>6. SaidIsBehind'
  BY <1>3, <1>5 DEF SaidIsBehind
<1>7. WordsAreUnder'
  <2>1. \A g \in net' : g \in net \/ g \in Handover(m, x, e)
    BY <1>1 DEF Invites
  <2>2. \A g \in Handover(m, x, e) : g.kind # "word"
    BY <1>1, HandoverFacts DEF Invites
  <2> QED
    BY <2>1, <2>2 DEF WordsAreUnder
<1> QED
  BY <1>2, <1>4, <1>5, <1>6, <1>7

LEMMA NextKeeps ==
    ASSUME Inv, Next
    PROVE  Inv' /\ \A o \in Members : Grown(engine[o], engine'[o])
<1>1. AllAtRest /\ Bounds
  BY DEF Inv, AllAtRest, Typed, Bounds
<1>2. ASSUME NEW m \in Members, NEW x \in Members, Invite(m, x)
      PROVE  Inv' /\ \A o \in Members : Grown(engine[o], engine'[o])
  BY <1>2, InviteStep
<1>3. ASSUME NEW x \in Members, Evict(x)
      PROVE  Inv' /\ \A o \in Members : Grown(engine[o], engine'[o])
  <2>1. words' = words /\ Bounds'
    BY <1>1, <1>3, GroupWordsAssumption DEF Evict, Bounds
  <2> QED
    <3>1. PICK m, d : Moves(m, d)
      BY <1>1, <1>3, EvictMoves
    <3> QED
      BY <2>1, <3>1, MoveKeeps
<1>4. ASSUME NEW s \in Members, Say(s)
      PROVE  Inv' /\ \A o \in Members : Grown(engine[o], engine'[o])
  BY <1>4, SayKeeps
<1>5. ASSUME NEW f \in net, Arrive(f)
      PROVE  Inv' /\ \A o \in Members : Grown(engine[o], engine'[o])
  <2>1. words' = words /\ Bounds'
    BY <1>1, <1>5 DEF Arrive, Bounds
  <2> QED
    BY <1>1, <1>5, <2>1, ArriveMoves, MoveKeeps
<1>6. ASSUME NEW f \in net, DieDraining(f)
      PROVE  Inv' /\ \A o \in Members : Grown(engine[o], engine'[o])
  <2>1. words' = words /\ Bounds'
    BY <1>1, <1>6, GroupWordsAssumption DEF DieDraining, Bounds
  <2> QED
    BY <1>1, <1>6, <2>1, DieMoves, MoveKeeps
<1> QED
  BY <1>2, <1>3, <1>4, <1>5, <1>6 DEF Next

LEMMA StaysInv ==
    ASSUME Inv, UNCHANGED vars
    PROVE  Inv'
<1>1. engine' = engine /\ net' = net /\ words' = words /\ changes' = changes /\ deaths' = deaths
  BY DEF vars
<1>2. AllAtRest'
  <2>1. \A m \in Members : AtRest(m, engine[m])'
    BY <1>1 DEF Inv, AllAtRest, AtRest
  <2> QED
    BY <1>1, <2>1 DEF Inv, AllAtRest, Typed
<1>3. OwnIsNewest'
  BY <1>1 DEF Inv, OwnIsNewest, Own
<1>4. ASSUME NEW x, NEW s, NEW n, Behind(x, s, n)
      PROVE  Behind(x, s, n)'
  BY <1>1, <1>4 DEF Behind, Past, InvitedByTwo
<1>5. LeftIsBehind'
  <2> SUFFICES ASSUME NEW s \in Members, NEW x \in engine'[s].turned
               PROVE  Behind(x, s, Own(s))'
    BY DEF LeftIsBehind
  <2>1. PICK n : n = Own(s)
    OBVIOUS
  <2>2. Behind(x, s, n)'
    BY <1>1, <1>4, <2>1 DEF Inv, LeftIsBehind
  <2> QED
    BY <1>1, <2>1, <2>2 DEF Behind, Past, Own
<1>6. SaidIsBehind'
  BY <1>1, <1>4 DEF Inv, SaidIsBehind
<1>7. HeardCame' /\ InviterKnows'
  BY <1>1 DEF Inv, HeardCame, Heard, Came, Asked, InviterKnows
<1>8. WordsAreUnder'
  BY <1>1 DEF Inv, WordsAreUnder
<1> QED
  BY <1>2, <1>3, <1>5, <1>6, <1>7, <1>8 DEF Inv

THEOREM Invariant == Spec => []Inv
<1>1. Inv /\ [Next]_vars => Inv'
  BY NextKeeps, StaysInv
<1> QED
  BY InitInv, <1>1, PTL DEF Spec

\* Types, and the bound of the queue.
THEOREM GroupTypes == Spec => []TypeOK
<1>1. ASSUME Inv
      PROVE  TypeOK
  <2>1. /\ engine \in [Members -> Rows] /\ net \subseteq Frames
        /\ words \subseteq [who : Members, epoch : Nat, at : Nat, outs : SUBSET Members,
                          turned : SUBSET Members]
        /\ changes \in 0..MaxChanges /\ deaths \in 0..MaxDeaths
    BY <1>1 DEF Inv, AllAtRest, Typed
  <2> DEFINE Row == [knows : BOOLEAN, ins : SUBSET Members, outs : SUBSET Members,
                     chains : [Members -> Chains], parked : Seq(Frames),
                     seen : SUBSET Frames, read : SUBSET Frames,
                     passed : SUBSET Frames, turned : SUBSET Members,
                     out : {{}}]
  <2>2. ASSUME NEW m \in Members
        PROVE  /\ engine[m] \in Row /\ Len(engine[m].parked) <= MaxParked
               /\ \A f \in engine[m].seen \cup ToSet(engine[m].parked) : f.to = m
    <3>1. PICK e : e = engine[m]
      OBVIOUS
    <3>2. e \in Engines(m) /\ Len(e.parked) <= MaxParked /\ e.out = {}
      BY <1>1, <3>1 DEF Inv, AllAtRest, AtRest, Engine
    <3>3. e.parked \in Seq(ForMe(m)) /\ e.seen \subseteq ForMe(m)
      BY <3>2, EngineFacts
    <3>4. PICK q : q = e.parked
      OBVIOUS
    <3>5. q \in Seq(Frames) /\ ToSet(q) \subseteq ForMe(m)
      BY <3>3, <3>4 DEF ForMe, ToSet
    <3>6. e.seen \subseteq Frames
      BY <3>3 DEF ForMe
    <3>7. e \in Row
      BY <3>2, <3>4, <3>5, <3>6 DEF Engines
    <3> QED
      BY <3>1, <3>2, <3>3, <3>4, <3>5, <3>7 DEF ForMe
  <2> QED
    BY <2>1, <2>2 DEF TypeOK
<1> QED
  BY Invariant, <1>1, PTL

\* A mark means an effect: whatever `admit` turns away as seen has done all it
\* could do, however often its like was parked, lost from a full queue, or taken
\* by a death amid a drain.
THEOREM MarksAreTrue == Spec => []SeenIsApplied
<1>1. Inv => SeenIsApplied
  BY DEF Inv, AllAtRest, AtRest, Marked, SeenIsApplied
<1> QED
  BY Invariant, <1>1, PTL

\* A copy of a chain never goes back, whatever overtakes what.
THEOREM ChainsGoForward == Spec => ChainForward
<1>1. Inv /\ [Next]_vars =>
         [\A m, s \in Members :
             LET c == engine[m].chains[s]
                 d == engine'[m].chains[s]
             IN  c # d => d.epoch > c.epoch \/ (d.epoch = c.epoch /\ d.next >= c.next)]_vars
  <2>1. ASSUME Inv, Next, NEW m \in Members, NEW s \in Members
        PROVE  Forward(engine[m].chains[s], engine'[m].chains[s])
    BY <2>1, NextKeeps DEF Grown
  <2> QED
    BY <2>1 DEF Forward
<1> QED
  BY Invariant, <1>1, PTL DEF Spec, ChainForward

\* Whatever an engine has handled, nothing it could handle now is left in its
\* queue: the rounds of drain_pending_group end only when every frame waits.
THEOREM NothingReadyWaits == Spec => NoneWaitsForWhatCame
<1>1. ASSUME NEW m, NEW e, NEW g \in Frames, Waits(m, e, g), g.kind = "word" => g.epoch > 0
      PROVE  Stuck(e, g)
  <2>1. NoChain.epoch = 0
    BY ChainIs DEF NoChain
  <2> QED
    BY <1>1, <2>1, FrameFacts DEF Waits, Stuck
<1>2. Inv /\ [Next]_vars =>
         [\A m \in Members :
             LET e == engine'[m]
             IN  e.knows /\ e.seen # engine[m].seen /\ deaths' = deaths =>
                     \A f \in ToSet(e.parked) : Stuck(e, f)]_vars
  <2>1. ASSUME Inv, Next, deaths' = deaths, NEW m \in Members, engine'[m].knows,
               engine'[m].seen # engine[m].seen, NEW f \in ToSet(engine'[m].parked)
        PROVE  Stuck(engine'[m], f)
    <3>1. AllAtRest /\ Inv'
      BY <2>1, NextKeeps DEF Inv
    <3>2. PICK g \in net : Arrive(g)
      BY <2>1, <3>1, OthersMarkNone
    <3>3. AllWait(m, engine'[m])
      BY <2>1, <3>1, <3>2, ArriveSettles
    <3>4. Waits(m, engine'[m], f)
      BY <2>1, <3>3 DEF AllWait
    <3>5. f \in Frames /\ (f.kind = "word" => f.epoch > 0)
      BY <2>1, <3>1 DEF Inv, AllAtRest, AtRest, Typed, WordsAreUnder
    <3> QED
      BY <3>4, <3>5, <1>1
  <2> QED
    BY <2>1
<1> QED
  BY Invariant, <1>2, PTL DEF Spec, NoneWaitsForWhatCame

\* Whoever was seen to leave opens nothing said afterwards, unless two members
\* have invited him, each as new.
THEOREM TheLeftReadNoMore == Spec => []LeftReadsNoMore
<1>1. ASSUME Inv
      PROVE  LeftReadsNoMore
  <2> SUFFICES ASSUME NEW w \in words, NEW x \in w.turned, CanRead(x, w)
               PROVE  InvitedByTwo(x)
    BY DEF LeftReadsNoMore
  <2>1. Behind(x, w.who, w.epoch) /\ w.epoch \in Nat
    BY <1>1 DEF Inv, SaidIsBehind, AllAtRest, Typed
  <2>2. engine[x].chains[w.who].epoch = w.epoch
    BY DEF CanRead
  <2> QED
    BY <2>1, <2>2 DEF Behind, Past
<1> QED
  BY Invariant, <1>1, PTL

-----------------------------------------------------------------------------
(* The conversation of two.                                                 *)

USE ConversationAssumption

\* What the receiver has, or had until its user deleted it.
Have == history \cup gone

\* Nothing is at hand that was not written; the user deletes what he has.
Written ==
    /\ \A m \in pend \cup history \cup gone : status[m] # "none"
    /\ \A c \in transit : status[c[1]] # "none"
    /\ \A a \in acks : status[a[1]] # "none"
    /\ step.at # "idle" => status[step.msg] # "none"

\* A raised status is the old one or the new one, and does not fall.
LEMMA RaisedIs ==
    ASSUME NEW now \in Statuses, NEW target \in Statuses \ {"none"}
    PROVE  /\ Raised(now, target) \in Statuses
           /\ now # "none" => Raised(now, target) # "none"
           /\ Raised(now, target) \in {now, target}
           /\ now \in {"Delivered", "Read"} => Raised(now, target) \in {"Delivered", "Read"}
           /\ target \in {"Delivered", "Read"} => Raised(now, target) \in {"Delivered", "Read"}
BY DEF Raised, Rank, Statuses

\* What mark_read looks at is in the history.
LEMMA NewestIsKept == Newest \subseteq history
BY DEF Newest

\* Every state the conversation reaches has the types of TypeOK.
THEOREM ConversationTypes == ConversationSpec => []ConversationTypeOK
<1>1. ConversationInit => ConversationTypeOK
  BY DEF ConversationInit, ConversationTypeOK, Idle, Vias, Statuses
<1>2. ConversationTypeOK /\ [ConversationNext]_conversationVars => ConversationTypeOK'
  <2> SUFFICES ASSUME ConversationTypeOK, [ConversationNext]_conversationVars PROVE ConversationTypeOK'
    OBVIOUS
  <2> USE DEF ConversationTypeOK, Idle, Vias
  <2>1. ASSUME NEW m \in Msgs, Write(m) PROVE ConversationTypeOK'
    BY <2>1 DEF Write, disk, bounds, Statuses
  <2>2. ASSUME NEW m \in Msgs, Handed(m) PROVE ConversationTypeOK'
    <3>1. Raised(status[m], "Sent") \in Statuses
      BY RaisedIs DEF Statuses
    <3>2. QED
      BY <2>2, <3>1 DEF Handed, disk, bounds
  <2>3. ASSUME NEW m \in Msgs, NEW via \in Vias, SendCopy(m, via) PROVE ConversationTypeOK'
    BY <2>3 DEF SendCopy, sender, disk, bounds
  <2>4. ASSUME NEW m \in Msgs, NEW kind \in {"Delivered", "Read"}, ReceiptArrives(m, kind)
        PROVE  ConversationTypeOK'
    <3>1. Raised(status[m], kind) \in Statuses
      BY RaisedIs DEF Statuses
    <3>2. QED
      BY <2>4, <3>1 DEF ReceiptArrives, disk, bounds
  <2>5. CASE Lose
    BY <2>5 DEF Lose, sender, disk, bounds
  <2>6. ASSUME NEW c \in transit, Open(c) PROVE ConversationTypeOK'
    BY <2>6 DEF Open, sender, disk, bounds
  <2>7. CASE Note
    BY <2>7 DEF Note, IsFresh, sender, bounds
  <2>8. CASE Keep
    BY <2>8 DEF Keep, Kept, sender, bounds
  <2>9. CASE Drop
    BY <2>9 DEF Drop, sender, disk, bounds
  <2>10. CASE Finish
    <3>1. shown' \in [Msgs -> Nat]
      <4>1. shown \in [Msgs -> Nat]
        OBVIOUS
      <4>2. shown' = [shown EXCEPT ![step.msg] = @ + 1]
        BY <2>10 DEF Finish
      <4>3. QED
        <5>1. \A m \in Msgs : shown[m] \in Nat /\ shown[m] + 1 \in Nat
          BY <4>1
        <5>2. QED
          BY <4>1, <4>2, <5>1
    <3>2. acks' \subseteq Msgs \X {"Delivered", "Read"}
      BY <2>10 DEF Finish, Answered
    <3>3. QED
      BY <2>10, <3>1, <3>2 DEF Finish, sender, disk, bounds
  <2>11. CASE FinishTwice
    BY <2>11 DEF FinishTwice, Answered, DuplicateKind, sender, disk, bounds
  <2>12. CASE Crash
    BY <2>12 DEF Crash, sender, disk
  <2>13. ASSUME NEW m \in Msgs, ClockCatchesUp(m) PROVE ConversationTypeOK'
    BY <2>13 DEF ClockCatchesUp, sender, disk, bounds
  <2>14. ASSUME NEW m \in Msgs, Age(m) PROVE ConversationTypeOK'
    BY <2>14 DEF Age, sender
  <2>15. ASSUME NEW m \in Msgs, MarkRead(m) PROVE ConversationTypeOK'
    BY <2>15, NewestIsKept DEF MarkRead, sender, bounds
  <2>16. ASSUME NEW m \in Msgs, Delete(m) PROVE ConversationTypeOK'
    BY <2>16 DEF Delete, sender, bounds
  <2>17. CASE UNCHANGED conversationVars
    BY <2>17 DEF conversationVars
  <2>18. QED
    BY <2>1, <2>2, <2>3, <2>4, <2>5, <2>6, <2>7, <2>8, <2>9, <2>10, <2>11, <2>12,
       <2>13, <2>14, <2>15, <2>16, <2>17 DEF ConversationNext
<1>3. QED
  BY <1>1, <1>2, PTL DEF ConversationSpec

-----------------------------------------------------------------------------
(* What is noted, answered or told is at hand.                              *)

\* The window and the table hold what the receiver has and the message his
\* handler is at; only what he has is answered.
Known ==
    /\ \A m \in (window \cup seen) \cap InTime :
          m \in Have \/ (step.at = "noted" /\ step.msg = m)
    /\ step.at \in {"kept", "twice"} => step.msg \in Have \cup Early
    /\ \A a \in acks : a[1] \in Have \cup Early
    /\ far \subseteq Early

KnownInv == ConversationTypeOK /\ Written /\ Known /\ DeliveredIsKept
LEMMA KnownStep ==
    ASSUME KnownInv, ConversationTypeOK', [ConversationNext]_conversationVars, ~CrashInside
    PROVE  KnownInv'
<1> USE DEF KnownInv, ConversationTypeOK, Known, Written, DeliveredIsKept, Have, InTime
<1>1. ASSUME NEW m \in Msgs, Write(m) PROVE KnownInv'
  BY <1>1 DEF Write, disk, bounds
<1>2. ASSUME NEW m \in Msgs, Handed(m) PROVE KnownInv'
  <2>1. /\ Raised(status[m], "Sent") \in {status[m], "Sent"}
        /\ Raised(status[m], "Sent") # "none"
    <3>1. PICK now : now = status[m]
      OBVIOUS
    <3>2. now \in Statuses /\ now # "none"
      BY <1>2, <3>1 DEF Handed
    <3>3. "Sent" \in Statuses \ {"none"}
      BY DEF Statuses
    <3>4. Raised(now, "Sent") \in {now, "Sent"} /\ Raised(now, "Sent") # "none"
      BY <3>2, <3>3, RaisedIs
    <3> QED
      BY <3>1, <3>4
  <2>2. QED
    BY <1>2, <2>1 DEF Handed, disk, bounds
<1>3. ASSUME NEW m \in Msgs, NEW via \in Vias, SendCopy(m, via) PROVE KnownInv'
  BY <1>3 DEF SendCopy, sender, disk, bounds
<1>4. ASSUME NEW m \in Msgs, NEW kind \in {"Delivered", "Read"}, ReceiptArrives(m, kind)
      PROVE  KnownInv'
  <2>1. status[m] # "none"
    BY <1>4 DEF ReceiptArrives
  <2>2. Raised(status[m], kind) # "none"
    BY <2>1, RaisedIs DEF Statuses
  <2>3. m \in Have \cup Early
    BY <1>4 DEF ReceiptArrives
  <2>4. QED
    BY <1>4, <2>2, <2>3 DEF ReceiptArrives, disk, bounds
<1>5. CASE Lose
  BY <1>5 DEF Lose, sender, disk, bounds
<1>6. ASSUME NEW c \in transit, Open(c) PROVE KnownInv'
  BY <1>6 DEF Open, sender, disk, bounds
<1>7. CASE Note
  BY <1>7 DEF Note, IsFresh, sender, bounds
<1>8. CASE Keep
  BY <1>8 DEF Keep, Kept, sender, bounds
<1>9. CASE Drop
  BY <1>9 DEF Drop, Idle, sender, disk, bounds
<1>10. CASE Finish
  BY <1>10 DEF Finish, Answered, Idle, sender, disk, bounds
<1>11. CASE FinishTwice
  BY <1>11 DEF FinishTwice, Answered, Idle, sender, disk, bounds
<1>12. CASE Crash
  BY <1>12 DEF Crash, Idle, sender, disk
<1>13. ASSUME NEW m \in Msgs, ClockCatchesUp(m) PROVE KnownInv'
  BY <1>13 DEF ClockCatchesUp, sender, disk, bounds
<1>14. ASSUME NEW m \in Msgs, Age(m) PROVE KnownInv'
  BY <1>14 DEF Age, sender
<1>15. ASSUME NEW m \in Msgs, MarkRead(m) PROVE KnownInv'
  BY <1>15, NewestIsKept DEF MarkRead, sender, bounds
<1>16. ASSUME NEW m \in Msgs, Delete(m) PROVE KnownInv'
  BY <1>16 DEF Delete, sender, bounds
<1>17. CASE UNCHANGED conversationVars
  BY <1>17 DEF conversationVars
<1> HIDE DEF KnownInv, ConversationTypeOK, Known, Written, DeliveredIsKept, Have, InTime
<1>18. QED
  BY <1>1, <1>2, <1>3, <1>4, <1>5, <1>6, <1>7, <1>8, <1>9, <1>10, <1>11, <1>12,
     <1>13, <1>14, <1>15, <1>16, <1>17 DEF ConversationNext

\* A message shown as delivered or read is at the receiver, or was until its
\* user deleted it, provided its stamp was not from far ahead and the receiver
\* does not die inside a handler; both are needed (see the README).
THEOREM ReceiptsAreTrue ==
    ASSUME ~CrashInside
    PROVE  ConversationSpec => []DeliveredIsKept
<1>1. ConversationInit => KnownInv
  BY ConversationAssumption
     DEF ConversationInit, KnownInv, ConversationTypeOK, Written, Known, DeliveredIsKept, Idle, Vias, Statuses, Have,
         InTime
<1>2. ConversationTypeOK /\ ConversationTypeOK' /\ KnownInv /\ [ConversationNext]_conversationVars => KnownInv'
  BY KnownStep
<1>3. KnownInv => DeliveredIsKept
  BY DEF KnownInv
<1>4. QED
  BY <1>1, <1>2, <1>3, ConversationTypes, PTL DEF ConversationSpec

-----------------------------------------------------------------------------
(* The conversation implements Exchange.                                    *)

\* The sets Exchange speaks of.
Sent == {m \in InTime : status[m] # "none"}
Held == Have \cap InTime
Told == {m \in InTime : status[m] \in {"Delivered", "Read"}}
Image == <<Sent, Held, Told>>

Sends(m) == m \in InTime \ Sent /\ Sent' = Sent \cup {m} /\ UNCHANGED <<Held, Told>>
Keeps(m) == m \in Sent \ Held /\ Held' = Held \cup {m} /\ UNCHANGED <<Sent, Told>>
Tells(m) == m \in Held \ Told /\ Told' = Told \cup {m} /\ UNCHANGED <<Sent, Held>>

\* A step of the conversation is a step of Exchange or moves none of its sets.
LEMMA PromiseStep ==
    ASSUME KnownInv, ConversationTypeOK', [ConversationNext]_conversationVars
    PROVE  (\E m \in InTime : Sends(m) \/ Keeps(m) \/ Tells(m)) \/ UNCHANGED Image
<1> USE DEF KnownInv, ConversationTypeOK, Known, Written, DeliveredIsKept, InTime, Held
<1>0. ASSUME UNCHANGED <<status, history, gone>> PROVE UNCHANGED Image
  BY <1>0 DEF Image, Sent, Have, Told
<1>1. ASSUME NEW m \in Msgs, Write(m)
      PROVE  (m \in InTime /\ Sends(m)) \/ UNCHANGED Image
  <2>1. UNCHANGED Have
    BY <1>1 DEF Write, disk, Have
  <2>2. UNCHANGED Told
    BY <1>1 DEF Write, Told
  <2>3. CASE m \in InTime
    BY <1>1, <2>1, <2>2, <2>3 DEF Write, Sends, Sent
  <2>4. CASE m \notin InTime
    <3>1. UNCHANGED Sent
      BY <1>1, <2>4 DEF Write, Sent
    <3>2. QED
      BY <2>1, <2>2, <3>1 DEF Image
  <2>5. QED
    BY <2>3, <2>4
<1>2. ASSUME NEW m \in Msgs, Handed(m) PROVE UNCHANGED Image
  <2>1. /\ Raised(status[m], "Sent") \in {status[m], "Sent"}
        /\ Raised(status[m], "Sent") # "none"
        /\ status[m] \in {"Delivered", "Read"} => Raised(status[m], "Sent") \in {"Delivered", "Read"}
    BY <1>2, RaisedIs DEF Handed, Statuses
  <2>2. status[m] # "none" /\ UNCHANGED Have
    BY <1>2 DEF Handed, Have, disk
  <2>3. QED
    BY <1>2, <2>1, <2>2 DEF Handed, Image, Sent, Told
<1>3. ASSUME NEW m \in Msgs, NEW kind \in {"Delivered", "Read"}, ReceiptArrives(m, kind)
      PROVE  (m \in InTime /\ Tells(m)) \/ UNCHANGED Image
  <2>0. status[m] \in Statuses /\ kind \in Statuses \ {"none"}
    BY DEF Statuses
  <2>1. /\ Raised(status[m], kind) \in {"Delivered", "Read"}
        /\ status' = [status EXCEPT ![m] = Raised(@, kind)]
    BY <1>3, <2>0, RaisedIs DEF ReceiptArrives
  <2>2. m \in Have \cup Early /\ UNCHANGED Have
    BY <1>3 DEF ReceiptArrives, Have, disk
  <2>3. CASE m \in InTime
    <3>1. m \in Held /\ status[m] # "none"
      BY <2>2, <2>3 DEF Have
    <3>2. UNCHANGED Sent
      BY <2>1, <3>1 DEF Sent
    <3>3. Told' = Told \cup {m}
      BY <2>1, <2>3 DEF Told
    <3>4. QED
      BY <2>2, <2>3, <3>1, <3>2, <3>3 DEF Image, Tells
  <2>4. CASE m \notin InTime
    BY <2>1, <2>2, <2>4 DEF Image, Sent, Told
  <2>5. QED
    BY <2>3, <2>4
<1>4. CASE Keep
  <2>1. status[step.msg] # "none" /\ step.msg \in Msgs /\ UNCHANGED <<Sent, Told>>
    BY <1>4 DEF Keep, sender, Sent, Told
  <2>2. Have' = Have \cup {step.msg}
    BY <1>4 DEF Keep, Kept, Have
  <2>3. CASE step.msg \in InTime
    <3>1. CASE step.msg \in Have
      BY <2>1, <2>2, <3>1 DEF Image
    <3>2. CASE step.msg \notin Have
      <4>1. Held' = Held \cup {step.msg} /\ step.msg \in Sent \ Held
        BY <2>1, <2>2, <2>3, <3>2 DEF Sent
      <4>2. Keeps(step.msg)
        BY <2>1, <4>1 DEF Keeps
      <4>3. QED
        BY <2>3, <4>2
    <3>3. QED
      BY <3>1, <3>2
  <2>4. CASE step.msg \notin InTime
    BY <2>1, <2>2, <2>4 DEF Image
  <2>5. QED
    BY <2>1, <2>3, <2>4
<1>5. ASSUME NEW m \in Msgs, Delete(m) PROVE UNCHANGED Image
  BY <1>5 DEF Delete, sender, Image, Sent, Have, Told
<1>6. ASSUME NEW m \in Msgs, NEW via \in Vias, SendCopy(m, via) PROVE UNCHANGED Image
  BY <1>0, <1>6 DEF SendCopy, sender, disk
<1>7. ASSUME Lose \/ (\E c \in transit : Open(c)) \/ Note \/ Drop PROVE UNCHANGED Image
  BY <1>0, <1>7 DEF Lose, Open, Note, Drop, sender, disk
<1>8. ASSUME Finish \/ FinishTwice \/ Crash PROVE UNCHANGED Image
  BY <1>0, <1>8 DEF Finish, FinishTwice, Crash, sender, disk
<1>9. ASSUME NEW m \in Msgs, ClockCatchesUp(m) \/ Age(m) \/ MarkRead(m) PROVE UNCHANGED Image
  BY <1>0, <1>9 DEF ClockCatchesUp, Age, MarkRead, sender, disk
<1>10. CASE UNCHANGED conversationVars
  BY <1>0, <1>10 DEF conversationVars
<1> HIDE DEF KnownInv, ConversationTypeOK, Known, Written, DeliveredIsKept, InTime, Held
<1>11. QED
  BY <1>1, <1>2, <1>3, <1>4, <1>5, <1>6, <1>7, <1>8, <1>9, <1>10 DEF ConversationNext

\* Under the same two conditions the conversation implements Exchange: sent,
\* then kept, then confirmed, each once and in this order.
THEOREM ImplementsExchange ==
    ASSUME ~CrashInside
    PROVE  ConversationSpec => KeepsPromise
<1>1. ConversationInit => KnownInv
  BY ConversationAssumption
     DEF ConversationInit, KnownInv, ConversationTypeOK, Written, Known, DeliveredIsKept, Idle, Vias, Statuses, Have,
         InTime
<1>2. ConversationInit => Promise!Init
  BY ConversationAssumption DEF ConversationInit, Promise!Init, InTime
<1>3. ConversationTypeOK /\ ConversationTypeOK' /\ KnownInv /\ [ConversationNext]_conversationVars => KnownInv'
  BY KnownStep
<1>4. ConversationTypeOK' /\ KnownInv /\ [ConversationNext]_conversationVars => [Promise!Next]_(Promise!vars)
  <2> SUFFICES ASSUME ConversationTypeOK', KnownInv, [ConversationNext]_conversationVars PROVE [Promise!Next]_(Promise!vars)
    OBVIOUS
  <2>1. UNCHANGED Image => UNCHANGED Promise!vars
    BY DEF Image, Sent, Held, Have, Told, Promise!vars
  <2>2. ASSUME NEW m \in InTime, Sends(m) PROVE Promise!Send(m)
    BY <2>2 DEF Sends, Sent, Held, Have, Told, Promise!Send
  <2>3. ASSUME NEW m \in InTime, Keeps(m) PROVE Promise!Keep(m)
    BY <2>3 DEF Keeps, Sent, Held, Have, Told, Promise!Keep
  <2>4. ASSUME NEW m \in InTime, Tells(m) PROVE Promise!Confirm(m)
    BY <2>4 DEF Tells, Sent, Held, Have, Told, Promise!Confirm
  <2>5. QED
    BY PromiseStep, <2>1, <2>2, <2>3, <2>4 DEF Promise!Next
<1>5. QED
  BY <1>1, <1>2, <1>3, <1>4, ConversationTypes, PTL DEF ConversationSpec, KeepsPromise, Promise!Spec

-----------------------------------------------------------------------------
(* A message is announced once.                                             *)

\* What was announced since the last mark grew too old is noted on disk; a
\* message noted afresh was not announced since.
OnceInv ==
    /\ window \subseteq seen
    /\ step.at \in {"noted", "kept"} => step.msg \in seen /\ shown[step.msg] <= ages
    /\ \A m \in Msgs : shown[m] <= 1 + ages /\ (m \notin seen => shown[m] <= ages)

\* As long as no mark grows too old a message is announced at most once,
\* whatever is lost, repeated or reordered and wherever the receiver dies; a
\* mark grown too old lets it be announced once more.
THEOREM AnnouncedOnce == ConversationSpec => []ShownOnce
<1>1. ConversationInit => OnceInv
  BY DEF ConversationInit, OnceInv, Idle
<1>2. ConversationTypeOK /\ ConversationTypeOK' /\ OnceInv /\ [ConversationNext]_conversationVars => OnceInv'
  <2> SUFFICES ASSUME ConversationTypeOK, ConversationTypeOK', OnceInv, [ConversationNext]_conversationVars PROVE OnceInv'
    OBVIOUS
  <2> USE DEF OnceInv, ConversationTypeOK
  <2>1. ASSUME UNCHANGED <<step, window, seen, shown, ages>> PROVE OnceInv'
    BY <2>1
  <2>2. ASSUME NEW m \in Msgs, Write(m) \/ Handed(m) \/ ClockCatchesUp(m) \/ Delete(m) PROVE OnceInv'
    BY <2>1, <2>2 DEF Write, Handed, ClockCatchesUp, Delete, disk, bounds
  <2>3. ASSUME NEW m \in Msgs, NEW via \in Vias, SendCopy(m, via) PROVE OnceInv'
    BY <2>1, <2>3 DEF SendCopy, disk, bounds
  <2>4. ASSUME NEW m \in Msgs, NEW kind \in {"Delivered", "Read"}, ReceiptArrives(m, kind)
        PROVE  OnceInv'
    BY <2>1, <2>4 DEF ReceiptArrives, disk, bounds
  <2>5. CASE Lose
    BY <2>1, <2>5 DEF Lose, disk, bounds
  <2>6. ASSUME NEW c \in transit, Open(c) PROVE OnceInv'
    BY <2>6 DEF Open, disk, bounds
  <2>7. CASE Note
    BY <2>7 DEF Note, IsFresh, bounds
  <2>8. CASE Keep
    BY <2>8 DEF Keep, bounds
  <2>9. CASE Drop \/ FinishTwice
    BY <2>9 DEF Drop, FinishTwice, Idle, disk, bounds
  <2>10. CASE Finish
    BY <2>10 DEF Finish, Idle, disk, bounds
  <2>11. CASE Crash
    BY <2>11 DEF Crash, Idle, disk
  <2>12. ASSUME NEW m \in Msgs, Age(m) PROVE OnceInv'
    BY <2>12 DEF Age
  <2>13. ASSUME NEW m \in Msgs, MarkRead(m) PROVE OnceInv'
    BY <2>1, <2>13 DEF MarkRead, bounds
  <2>14. CASE UNCHANGED conversationVars
    BY <2>1, <2>14 DEF conversationVars
  <2>15. QED
    BY <2>2, <2>3, <2>4, <2>5, <2>6, <2>7, <2>8, <2>9, <2>10, <2>11, <2>12, <2>13,
       <2>14 DEF ConversationNext
<1>3. OnceInv => ShownOnce
  BY DEF OnceInv, ShownOnce
<1>4. QED
  BY <1>1, <1>2, <1>3, ConversationTypes, PTL DEF ConversationSpec
=============================================================================
