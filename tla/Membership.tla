---------------------------- MODULE Membership -----------------------------
(***************************************************************************)
(* Who is in a closed group.  Every engine keeps its own OrSet, built from *)
(* signed blocks that reach it in any order; the rows of the set and the   *)
(* blocks are on disk.  A newcomer gets the history of blocks from whoever *)
(* invites it.  Old history is folded by each engine at its own time.      *)
(*                                                                         *)
(* Everybody has everybody's card, and a frame once sent arrives in the    *)
(* end (Delivery is about that); a block that comes before the group is    *)
(* known waits (GroupWords is about the queue it waits in).                *)
(***************************************************************************)
EXTENDS OrSet

CONSTANTS
    Engines,       \* people, numbered, for the order of BTreeMap
    Owner,
    FoldAfter,     \* MEMBERSHIP_FOLD_AFTER_MS, in ticks
    MaxTrip,       \* the longest a frame may be on its way, in ticks
    MaxOps,        \* bound: changes of membership
    MaxNow,        \* bound: the time
    MaxRestarts    \* bound: restarts

ASSUME MembershipAssumption ==
    /\ Engines \subseteq Nat /\ IsFiniteSet(Engines)
    /\ Owner \in Engines
    /\ FoldAfter \in Nat /\ MaxTrip \in Nat
    /\ MaxOps \in Nat /\ MaxNow \in Nat /\ MaxRestarts \in Nat

VARIABLES
    engine,        \* engine[m]: what m knows of the group
    net,           \* frames on their way: [to, block, sent]
    now,
    ops,           \* changes so far; numbers the tags
    restarts,
    missed,        \* history: additions handed to m after its mark had passed them
    crossed        \* history: a change was made by one whom an addition, or an
                   \* invitation by one whom any change, had yet to reach

vars == <<engine, net, now, ops, restarts, missed, crossed>>

\* knows: the chat is in `groups`.  set: the OR-set in memory.  rows: the keys
\* of group_members, off: those marked removed.  mark: group_baseline.  log:
\* the signed blocks kept for newcomers.
Stranger == [knows |-> FALSE, set |-> Restored(0), rows |-> {}, off |-> {},
             mark |-> 0, log |-> {}]

Roster(e) == Elements(e.set)

Block(kind, m, x, tags) == [kind |-> kind, by |-> m, who |-> x, tags |-> tags]
Intro == Block("intro", Owner, Owner, {})

FirstTag == [at |-> 0, by |-> Owner, n |-> 0]
Founding == Block("add", Owner, Owner, {FirstTag})

\* Fault: INSERT OR REPLACE, a late addition lifts the mark of its row.
PutRowsAnew(e, b) ==
    [e EXCEPT !.rows = @ \cup Pairs(b),
              !.off  = IF b.kind = "remove" THEN @ \cup Pairs(b) ELSE @ \ Pairs(b)]

\* put_membership: a row once marked removed stays so.
PutRows(e, b) ==
    [e EXCEPT !.rows = @ \cup Pairs(b),
              !.off  = IF b.kind = "remove" THEN @ \cup Pairs(b) ELSE @]

\* Fault: only additions are kept for newcomers.
RecordedAdditions(e, b) ==
    PutRows([e EXCEPT !.log = IF b.kind = "add" THEN @ \cup {b} ELSE @], b)

\* A block, own or received, goes to both tables and then into the set.
Recorded(e, b) == PutRows([e EXCEPT !.log = @ \cup {b}], b)
Taken(e, b) == [Recorded(e, b) EXCEPT !.set = Applied(@, b)]

\* on_create_group at the owner; the rest have not heard of it.
Init ==
    /\ engine = [m \in Engines |->
           IF m = Owner THEN Taken([Stranger EXCEPT !.knows = TRUE], Founding)
           ELSE Stranger]
    /\ net = {}
    /\ now = 0
    /\ ops = 0
    /\ restarts = 0
    /\ missed = [m \in Engines |-> {}]
    /\ crossed = FALSE

Frames(to, blocks) == [to : to, block : blocks, sent : {now}]

\* removal_allowed: the owner removes anyone, the others themselves.
RemovalAllowed(b) == b.kind = "remove" => b.by = Owner \/ b.who = b.by

\* Every change of these kinds that is on its way has come to m.
Informed(m, kinds) ==
    \A f \in net : f.block.kind \in kinds => f.block \in engine[m].log

CanChange(m) == ops < MaxOps /\ engine[m].knows /\ m \in Roster(engine[m])

\* on_invite_to_group, join_member, hand_over_group: the block to those who
\* were members, the whole history and the introduction to the newcomer.
Invite(m, x) ==
    /\ CanChange(m)
    /\ x \notin Roster(engine[m])
    /\ LET tag == [at |-> now, by |-> m, n |-> ops + 1]
           b == Block("add", m, x, {tag})
           e == Taken(engine[m], b)
       IN  /\ engine' = [engine EXCEPT ![m] = e]
           /\ net' = net \cup Frames(Roster(e) \ {m, x}, {b})
                         \cup Frames({x}, e.log \cup {Intro})
    /\ ops' = ops + 1
    /\ crossed' = (crossed \/ ~Informed(m, {"add", "remove"}))
    /\ UNCHANGED <<now, restarts, missed>>

\* on_evict_from_group; the one removed is told as well.
Evict(x) ==
    /\ CanChange(Owner)
    /\ x # Owner
    /\ x \in Roster(engine[Owner])
    /\ LET b == Block("remove", Owner, x, Observed(engine[Owner].set, x))
           e == Taken(engine[Owner], b)
       IN  /\ engine' = [engine EXCEPT ![Owner] = e]
           /\ net' = net \cup Frames((Roster(e) \ {Owner}) \cup {x}, {b})
    /\ ops' = ops + 1
    /\ crossed' = (crossed \/ ~Informed(Owner, {"add"}))
    /\ UNCHANGED <<now, restarts, missed>>

\* on_leave_group
Leave(m) ==
    /\ CanChange(m)
    /\ LET b == Block("remove", m, m, Observed(engine[m].set, m))
       IN  /\ engine' = [engine EXCEPT ![m] = Taken(@, b)]
           /\ net' = net \cup Frames(Roster(engine[m]) \ {m}, {b})
    /\ ops' = ops + 1
    /\ crossed' = (crossed \/ ~Informed(m, {"add"}))
    /\ UNCHANGED <<now, restarts, missed>>

\* on_group_intro: only the first one founds the group here.
Introduced(m, f) ==
    /\ f.block = Intro
    /\ engine' = [engine EXCEPT ![m].knows = TRUE]
    /\ UNCHANGED missed

\* An addition older than the frame is part of a history handed over.  apply
\* refuses it when the mark has passed it (orset.rs, the baseline).
Misses(m, f) ==
    /\ f.block.kind = "add" /\ f.block \notin engine[m].log
    /\ \E t \in f.block.tags : t.at < f.sent /\ t.at < engine[m].mark

\* on_membership_block
TakeBlock(m, f) ==
    /\ f.block # Intro
    /\ engine[m].knows
    /\ engine' = [engine EXCEPT ![m] =
           IF RemovalAllowed(f.block) THEN Taken(@, f.block) ELSE @]
    /\ missed' = IF Misses(m, f) THEN [missed EXCEPT ![m] = @ \cup {f.block}] ELSE missed

Deliver(f) ==
    /\ Introduced(f.to, f) \/ TakeBlock(f.to, f)
    /\ net' = net \ {f}
    /\ UNCHANGED <<now, ops, restarts, crossed>>

\* Fault: the horizon is the present.
HorizonNow(e) == now

\* fold_horizon
Horizon(e) == IF now < FoldAfter THEN 0 ELSE now - FoldAfter

\* fold_one_membership: something not yet folded must lie below the horizon.
\* Whether a history is still on its way here it does not ask.
Fold(m) ==
    LET e == engine[m]
        h == Horizon(e)
        s == Compacted(e.set, h, Owner)
    IN  /\ e.knows
        /\ h > e.set.base
        /\ \E p \in e.rows : e.set.base < p[2].at /\ p[2].at < h
        /\ engine' = [engine EXCEPT ![m] =
               [@ EXCEPT !.set = s, !.rows = s.adds, !.off = {}, !.mark = h]]
        /\ UNCHANGED <<net, now, ops, restarts, missed, crossed>>

\* restore and ops_from_stored: the baseline first, then every row as an
\* addition, then the rows marked removed.
Raised(e) ==
    [adds  |-> {p \in e.rows \ e.off : p[2].at >= e.mark},
     tombs |-> e.off,
     base  |-> e.mark]

Restart(m) ==
    /\ restarts < MaxRestarts
    /\ engine' = [engine EXCEPT ![m].set = Raised(engine[m])]
    /\ restarts' = restarts + 1
    /\ UNCHANGED <<net, now, ops, missed, crossed>>

\* No frame is on its way longer than MaxTrip.
Tick ==
    /\ now < MaxNow
    /\ \A f \in net : now < f.sent + MaxTrip
    /\ now' = now + 1
    /\ UNCHANGED <<engine, net, ops, restarts, missed, crossed>>

Next ==
    \/ \E m, x \in Engines : Invite(m, x)
    \/ \E x \in Engines : Evict(x)
    \/ \E m \in Engines : Leave(m) \/ Fold(m) \/ Restart(m)
    \/ \E f \in net : Deliver(f)
    \/ Tick

Spec == Init /\ [][Next]_vars
-----------------------------------------------------------------------------
Added(e) == UNION {Pairs(b) : b \in {c \in e.log : c.kind = "add"}}
TakenBack(e) == UNION {Pairs(b) : b \in {c \in e.log : c.kind = "remove"}}

Tags == [at : 0..MaxNow, by : Engines, n : Int]
Sets == [adds : SUBSET (Engines \X Tags), tombs : SUBSET (Engines \X Tags), base : 0..MaxNow]
Blocks == [kind : {"add", "remove"}, by : Engines, who : Engines, tags : SUBSET Tags]

\* Types; the mark on disk is the one in memory, and a removal has its row.
TypeOK ==
    /\ engine \in [Engines -> [knows : BOOLEAN, set : Sets, rows : SUBSET (Engines \X Tags),
                               off : SUBSET (Engines \X Tags), mark : 0..MaxNow,
                               log : SUBSET Blocks]]
    /\ \A m \in Engines : /\ engine[m].set.base = engine[m].mark
                          /\ engine[m].off \subseteq engine[m].rows
    /\ net \subseteq [to : Engines, block : Blocks \cup {Intro}, sent : 0..MaxNow]
    /\ now \in 0..MaxNow /\ ops \in 0..MaxOps /\ restarts \in 0..MaxRestarts
    /\ missed \in [Engines -> SUBSET Blocks] /\ crossed \in BOOLEAN

\* Until it folds, an engine's roster is a function of the blocks it has heard:
\* those invited under a tag that no removal took back.  Neither the order in
\* which they came nor a restart between them matters (orset.rs apply,
\* ops_from_stored).
RosterIsHeard ==
    \A m \in Engines :
        LET e == engine[m]
        IN  e.mark = 0 => Roster(e) = {p[1] : p \in Added(e) \ TakenBack(e)}

\* Folding loses nobody: whoever was invited and never removed, as far as this
\* engine heard, is in its roster, whenever it folded (fold_horizon: the mark
\* lags by more than any trip).  The exception is what fold_horizon does not
\* count with: a history handed over tells of additions long past, and one that
\* comes after its newcomer folded, or to one that comes back, may lie below
\* the mark.
NoneFoldedAway ==
    \A m \in Engines :
        LET e == engine[m]
            Removed == {b.who : b \in {c \in e.log : c.kind = "remove"}}
            InTime  == UNION {Pairs(b) : b \in {c \in e.log \ missed[m] : c.kind = "add"}}
        IN  {p[1] : p \in InTime} \ Removed \subseteq Roster(e)

\* A restart at any moment raises the very set that is in memory, tombstones of
\* additions still to come included (put_membership, ops_from_stored); of an
\* engine that has not folded.
DiskFaithful ==
    \A m \in Engines :
        LET e == engine[m]
        IN  e.mark = 0 => Raised(e) = e.set

InGroup == {m \in Engines : engine[m].knows /\ m \in Roster(engine[m])}

\* orset.rs:7 and group.rs:90: with nothing on its way all members have one
\* roster, whenever each of them folded.
RostersAgree ==
    net = {} => \A m, o \in InGroup : Roster(engine[m]) = Roster(engine[o])

\* The same of engines that have not folded, and of changes that did not cross:
\* everybody heard everything, the newcomer by the history handed to it.  Where
\* an invitation crosses another change, the newcomer is in nobody's roster when
\* that change is sent and has it in no history.
AgreeAtRest ==
    net = {} /\ ~crossed /\ (\A m \in Engines : engine[m].mark = 0) =>
        \A m, o \in InGroup : Roster(engine[m]) = Roster(engine[o])
=============================================================================
