----------------------------- MODULE GroupWords -----------------------------
(***************************************************************************)
(* What is said in a closed group: sender chains, their announcements, and *)
(* the frames that come before what they need and wait for it.             *)
(*                                                                         *)
(* Each member has a chain of its own and copies of the others'.  A word   *)
(* is sealed with the next key of its author's chain and sent to everybody *)
(* in the author's roster.  Blocks of membership, announcements and words  *)
(* travel apart and in any order, and any copy of any of them may come     *)
(* late or again: what was sent stays in "net".                            *)
(*                                                                         *)
(* A roster is who was invited and not removed (Membership, RosterIsHeard).*)
(* Everybody has everybody's card.                                         *)
(***************************************************************************)
EXTENDS Queues, SequencesExt, FiniteSets

CONSTANTS
    Members,
    Owner,
    Starts,        \* who may be in the group at the start, with chains exchanged
    MaxParked,     \* MAX_PENDING_GROUP
    MaxWords,      \* bound: words said
    MaxChanges,    \* bound: invitations and removals
    MaxDeaths      \* bound: deaths amid a drain

ASSUME GroupWordsAssumption ==
    /\ Owner \in Members
    /\ \A start \in Starts : start \subseteq Members /\ Owner \in start
    /\ MaxParked \in Nat \ {0}
    /\ MaxWords \in Nat /\ MaxChanges \in Nat /\ MaxDeaths \in Nat

VARIABLES
    engine,        \* engine[m]: what m holds of the group
    net,           \* every frame sent
    words,         \* every word said, with whom its author knew to be removed
    changes,
    deaths

vars == <<engine, net, words, changes, deaths>>

\* epoch: the owner's stamp of the chain, 0 before there is one.  next and
\* skipped: where its reader stands.
Chain(epoch, next) == [epoch |-> epoch, next |-> next, skipped |-> {}]
NoChain == Chain(0, 0)

\* knows: the chat is in `groups`.  ins, outs: added and removed by the blocks
\* heard.  parked: pending_group.  seen: the dedup marks.  read: words opened.
\* passed: words thrown away unread, their number being behind.  turned: those
\* on whose departure the own chain was turned.  out: what the handler sends.
Stranger ==
    [knows |-> FALSE, ins |-> {}, outs |-> {}, chains |-> [s \in Members |-> NoChain],
     parked |-> <<>>, seen |-> {}, read |-> {}, passed |-> {}, turned |-> {}, out |-> {}]

Roster(e) == e.ins \ e.outs

Frame(kind, from, to, who, epoch, at) ==
    [kind |-> kind, from |-> from, to |-> to, who |-> who, epoch |-> epoch, at |-> at]

Send(e, frames) == [e EXCEPT !.out = @ \cup frames]

-----------------------------------------------------------------------------
(* Own chain. *)

\* announce_sender_key, with tell_member for each of the roster.
Announced(m, e) ==
    Send(e, {Frame("key", m, o, m, e.chains[m].epoch, e.chains[m].next) : o \in Roster(e) \ {m}})

\* Fault: the chain steps on, the secret stays.
RotatedOn(m, e) == [e EXCEPT !.chains[m] = Chain(IF @.epoch = 0 THEN 1 ELSE @.epoch, @.next + 1)]

\* rotate_sender_chain: a fresh secret under a newer stamp.
Rotated(m, e) == [e EXCEPT !.chains[m] = Chain(@.epoch + 1, 0)]

-----------------------------------------------------------------------------
(* Frames that wait. *)

Without(q, f) == Those(q, ToSet(q) \ {f})
Shorter(q) == IF Len(q) >= MaxParked THEN Tail(q) ELSE q

\* Fault: the frame stays marked as seen.
ParkedMarked(e, f) == [e EXCEPT !.parked = Append(Shorter(Without(@, f)), f)]

\* park_group_frame: the mark is given back; the same frame replaces itself;
\* a full queue loses its oldest.
Parked(e, f) ==
    [e EXCEPT !.parked = Append(Shorter(Without(@, f)), f), !.seen = @ \ {f}]

\* on_group_intro: only the first one does anything to a closed group.
OnIntro(m, e) ==
    IF e.knows THEN e ELSE Announced(m, Rotated(m, [e EXCEPT !.knows = TRUE]))

\* on_membership_block, for a block whose author was allowed to make it.
OnBlock(m, e, f) ==
    LET after == IF f.kind = "add" THEN [e EXCEPT !.ins = @ \cup {f.who}]
                 ELSE [e EXCEPT !.outs = @ \cup {f.who}]
        joined == Roster(after) \ (Roster(e) \cup {m})
        left == Roster(e) \ (Roster(after) \cup {m})
        weLeft == m \in Roster(e) \ Roster(after)
    IN  CASE weLeft -> after
          [] ~weLeft /\ left # {} ->
                Announced(m, Rotated(m, [after EXCEPT !.turned = @ \cup left]))
          [] ~weLeft /\ left = {} /\ joined # {} -> Announced(m, after)
          [] OTHER -> after

\* Fault: the last announcement to come is the one that counts.
OnKeyLast(m, e, f) ==
    CASE f.who = m -> e
      [] f.who # m /\ ~({f.from, f.who} \subseteq Roster(e)) -> Parked(e, f)
      [] OTHER -> [e EXCEPT !.chains[f.who] = Chain(f.epoch, f.at)]

\* on_sender_key: of members only, never of ourselves, and strictly newer.
OnKey(m, e, f) ==
    CASE f.who = m -> e
      [] f.who # m /\ ~({f.from, f.who} \subseteq Roster(e)) -> Parked(e, f)
      [] OTHER -> IF f.epoch <= e.chains[f.who].epoch THEN e
                  ELSE [e EXCEPT !.chains[f.who] = Chain(f.epoch, f.at)]

\* GroupInbox peek and commit: a key not yet spent; those jumped over are kept.
Opens(c, at) == at >= c.next \/ at \in c.skipped
Advanced(c, at) ==
    IF at >= c.next THEN [c EXCEPT !.next = at + 1, !.skipped = @ \cup c.next..(at - 1)]
    ELSE [c EXCEPT !.skipped = @ \ {at}]

\* open_group_frame and on_group_message.  A word under another chain than the
\* one held passes peek or not by its number alone; if it does, the tag fails.
OnWord(m, e, f) ==
    LET c == e.chains[f.who]
    IN  CASE f.who \notin Roster(e) \/ c = NoChain -> Parked(e, f)
          [] f.who \in Roster(e) /\ c # NoChain /\ ~Opens(c, f.at) ->
                [e EXCEPT !.passed = @ \cup ({f} \ e.read)]
          [] OTHER ->
                IF c.epoch # f.epoch THEN Parked(e, f)
                ELSE [e EXCEPT !.chains[f.who] = Advanced(c, f.at), !.read = @ \cup {f}]

\* dispatch_group_frame
Dispatched(m, e, f) ==
    CASE f.kind = "intro" -> OnIntro(m, e)
      [] f.kind # "intro" /\ ~e.knows -> Parked(e, f)
      [] f.kind \in {"add", "remove"} /\ e.knows -> OnBlock(m, e, f)
      [] f.kind = "key" /\ e.knows -> OnKey(m, e, f)
      [] f.kind = "word" /\ e.knows -> OnWord(m, e, f)

\* One round of drain_pending_group: all that waits for a known group is taken
\* out, each frame marked as seen again and handled.
Again(e, f, m) == Dispatched(m, [e EXCEPT !.seen = @ \cup {f}], f)
Round(m, e) ==
    IF e.knows THEN InTurn(Again, [e EXCEPT !.parked = <<>>], e.parked, m) ELSE e

\* Rounds go on while the queue shrinks; one that leaves it as long changes
\* nothing but marks it gives back, so MaxParked rounds are enough.
Drained(m, e) ==
    LET rounds[i \in 0..MaxParked] == IF i = 0 THEN e ELSE Round(m, rounds[i - 1])
    IN  rounds[MaxParked]

\* Fault: only an introduction sets the queue free.
HandledAlone(m, e, f) ==
    LET d == Dispatched(m, [e EXCEPT !.seen = @ \cup {f}], f)
    IN  IF f.kind = "intro" THEN Drained(m, d) ELSE d

\* admit, then on_group_frame.
Handled(m, e, f) == Drained(m, Dispatched(m, [e EXCEPT !.seen = @ \cup {f}], f))

-----------------------------------------------------------------------------
(* The group. *)

\* The frames a handler leaves go to the net.
Becomes(m, e) ==
    /\ engine' = [engine EXCEPT ![m] = [e EXCEPT !.out = {}]]
    /\ net' = net \cup e.out

\* Those of the start have met: chains at their beginning, everything handled.
Met(start) ==
    [Stranger EXCEPT !.knows = TRUE, !.ins = start,
        !.chains = [s \in Members |-> IF s \in start THEN Chain(1, 0) ELSE NoChain]]

Init ==
    /\ \E start \in Starts :
          engine = [m \in Members |-> IF m \in start THEN Met(start) ELSE Stranger]
    /\ net = {}
    /\ words = {}
    /\ changes = 0
    /\ deaths = 0

\* Nobody's addition is on its way: two invitations at once are Membership's.
Calm == \A f \in net : f.kind = "add" => f.who \in engine[f.to].ins

\* on_invite_to_group, join_member, hand_over_group: the block to the members;
\* to the newcomer the blocks, the introduction and every chain held, each at
\* the place the inviter has read it to.
Invite(m, x) ==
    /\ changes < MaxChanges
    /\ engine[m].knows /\ m \in Roster(engine[m])
    /\ x \notin engine[m].ins
    /\ Calm
    /\ LET e == [engine[m] EXCEPT !.ins = @ \cup {x}]
       IN  Becomes(m, Send(e,
               {Frame("add", m, o, x, 0, 0) : o \in Roster(e) \ {m, x}}
               \cup {Frame("add", m, x, y, 0, 0) : y \in e.ins}
               \cup {Frame("remove", m, x, y, 0, 0) : y \in e.outs}
               \cup {Frame("intro", m, x, m, 0, 0)}
               \cup {Frame("key", m, x, s, e.chains[s].epoch, e.chains[s].next) :
                       s \in {o \in Members : e.chains[o] # NoChain}}))
    /\ changes' = changes + 1
    /\ UNCHANGED <<words, deaths>>

\* on_evict_from_group
Evict(x) ==
    /\ changes < MaxChanges
    /\ x \in Roster(engine[Owner]) \ {Owner}
    /\ LET e == [engine[Owner] EXCEPT !.outs = @ \cup {x}, !.turned = @ \cup {x}]
           told == Send(e, {Frame("remove", Owner, o, x, 0, 0) : o \in (Roster(e) \cup {x}) \ {Owner}})
       IN  Becomes(Owner, Announced(Owner, Rotated(Owner, told)))
    /\ changes' = changes + 1
    /\ UNCHANGED <<words, deaths>>

\* send_group_text: the chain is stored one further before the copies leave.
Say(s) ==
    /\ Cardinality(words) < MaxWords
    /\ engine[s].knows /\ s \in Roster(engine[s])
    /\ LET e == engine[s]
           c == e.chains[s]
       IN  /\ Becomes(s, Send([e EXCEPT !.chains[s] = Chain(c.epoch, c.next + 1)],
                   {Frame("word", s, o, s, c.epoch, c.next) : o \in Roster(e) \ {s}}))
           /\ words' = words \cup {[who |-> s, epoch |-> c.epoch, at |-> c.next,
                                outs |-> e.outs, turned |-> e.turned]}
    /\ UNCHANGED <<changes, deaths>>

\* A copy of f comes; `admit` lets it through if f is not marked.
Arrive(f) ==
    /\ f \notin engine[f.to].seen
    /\ Becomes(f.to, Handled(f.to, engine[f.to], f))
    /\ UNCHANGED <<words, changes, deaths>>

\* The engine dies in drain_pending_group, after the queue on the disk was
\* emptied and before anything of it was handled.
DieDraining(f) ==
    LET m == f.to
        e == Dispatched(m, [engine[m] EXCEPT !.seen = @ \cup {f}], f)
    IN  /\ deaths < MaxDeaths
        /\ f \notin engine[m].seen
        /\ e.knows /\ e.parked # <<>>
        /\ Becomes(m, [e EXCEPT !.parked = <<>>, !.out = {}])
        /\ deaths' = deaths + 1
        /\ UNCHANGED <<words, changes>>

Next ==
    \/ \E m, x \in Members : Invite(m, x)
    \/ \E x \in Members : Evict(x)
    \/ \E s \in Members : Say(s)
    \/ \E f \in net : Arrive(f) \/ DieDraining(f)

Spec == Init /\ [][Next]_vars
-----------------------------------------------------------------------------
Kinds == {"intro", "add", "remove", "key", "word"}
Frames == [kind : Kinds, from : Members, to : Members, who : Members, epoch : Nat, at : Nat]
Chains == [epoch : Nat, next : Nat, skipped : SUBSET Nat]

\* Types; the queue has its bound, and an engine's frames are addressed to it.
TypeOK ==
    /\ engine \in [Members -> [knows : BOOLEAN, ins : SUBSET Members, outs : SUBSET Members,
                               chains : [Members -> Chains], parked : Seq(Frames),
                               seen : SUBSET Frames, read : SUBSET Frames,
                               passed : SUBSET Frames, turned : SUBSET Members,
                               out : {{}}]]
    /\ \A m \in Members : /\ Len(engine[m].parked) <= MaxParked
                          /\ \A f \in engine[m].seen \cup ToSet(engine[m].parked) : f.to = m
    /\ net \subseteq Frames
    /\ words \subseteq [who : Members, epoch : Nat, at : Nat, outs : SUBSET Members,
                      turned : SUBSET Members]
    /\ changes \in 0..MaxChanges /\ deaths \in 0..MaxDeaths

Applied(m, e, f) ==
    CASE f.kind = "intro" -> e.knows
      [] f.kind = "add" -> f.who \in e.ins
      [] f.kind = "remove" -> f.who \in e.outs
      [] f.kind = "key" -> f.who = m \/ f.epoch <= e.chains[f.who].epoch
      [] f.kind = "word" -> f \in e.read

\* A frame marked as seen has had its effect, so that the second copy `admit`
\* turns away is not needed: what waits, what a full queue lost and what a
\* death amid a drain took may all come again.  The one exception is a word
\* whose number is behind the chain held (open_group_frame, peek).
SeenIsApplied ==
    \A m \in Members : \A f \in engine[m].seen :
        Applied(m, engine[m], f) \/ f \in engine[m].passed

\* group_msg.rs:400 (to announce a chain once more does no harm) and :1401 (a
\* word waits for its key and opens): no word is thrown away unread.
WordsNotLost == \A m \in Members : engine[m].passed = {}

Stuck(e, f) ==
    \/ f.who \notin Roster(e)
    \/ f.from \notin Roster(e)
    \/ f.kind = "word" /\ e.chains[f.who].epoch # f.epoch

\* After any frame an engine handles, nothing in its queue could be handled
\* now: the rounds of drain_pending_group find whatever has become applicable,
\* in whatever order the queue holds it.
NoneWaitsForWhatCame ==
    [][\A m \in Members :
          LET e == engine'[m]
          IN  e.knows /\ e.seen # engine[m].seen /\ deaths' = deaths =>
                  \A f \in ToSet(e.parked) : Stuck(e, f)]_vars

\* A copy of a chain goes to a newer one or further along the same one, however
\* announcements overtake each other (on_sender_key, chain_hlc).
ChainForward ==
    [][\A m, s \in Members :
          LET c == engine[m].chains[s]
              d == engine'[m].chains[s]
          IN  c # d => d.epoch > c.epoch \/ (d.epoch = c.epoch /\ d.next >= c.next)]_vars

CanRead(x, w) ==
    LET c == engine[x].chains[w.who]
    IN  c.epoch = w.epoch /\ Opens(c, w.at)

\* The invitations of x came from two different members: to the second of them
\* x was new, for it had not heard of the first.
InvitedByTwo(x) ==
    \E f, g \in net : /\ f.kind = "intro" /\ g.kind = "intro"
                      /\ f.to = x /\ g.to = x /\ f.from # g.from

\* Whoever an author saw leave cannot open what that author says afterwards: the
\* new chain reaches him neither from the author nor with a chain handed over
\* by others, unless one who had heard of no invitation of his invites him anew.
LeftReadsNoMore ==
    \A w \in words : \A x \in w.turned : CanRead(x, w) => InvitedByTwo(x)

\* groups.rs:1227: so it is for whomever the author knows to be removed.
RemovedReadsNoMore == \A w \in words : \A x \in w.outs : ~CanRead(x, w)
=============================================================================
