# Ratatosk core in TLA+

Specifications, model checks and proofs for the engine of the Ratatosk
messenger (`src/crates`). The engine is a state machine without input or output
of its own (sans-io): one handler takes one input (a command, a frame, a timer,
a report of a transport), changes memory and a SQLite base, and returns effects
for the driver. One thread runs it, so the interleavings that matter are not
those of threads. They are

* the order of inputs: frames of two sides crossing, timers and late answers,
  transports that come and go;
* the calls one handler makes to the store, one after another and mostly without
  a transaction, with the process killed between any two of them;
* what is kept in memory only, next to what the base keeps, across a restart.

Every module takes one handler as one step, or as one step for each call to the
store where the place of a death matters.

## Inventory

| part | state | operations | what is hard | what makes it right | module |
|---|---|---|---|---|---|
| session registry (`proto/session.rs`, rows in `store`) | sessions by id, sender or listener, send counters; table of snapshots | insert, retire, remove, persist, restore | several store calls a step; a counter rolled back; equal timestamps | one sender and one listener a slot; disk = memory; no (key, counter) twice | `SessionRegistry` |
| ratchet (`crypto/ratchet.rs`) | chain keys, counters, skipped keys with their age | next, peek, commit, snapshot, restore | frames lost, late, twice; limits; death between memory and disk | each frame read once; keys gone after use; what has not come still opens | `Ratchet` |
| handshake and replay guard (`crypto/handshake.rs`, `engine/receive.rs`, `engine/delivery.rs`) | outgoing call, digests seen, replies kept | call, accept, repeat, finish, restore | crossing calls; lost replies; restart of one side | one session a first step; what one sends on, the other holds; a pair heals | `Handshake` |
| delivery engine (`engine/delivery.rs`, `presence.rs`, `setup.rs`) | outbox, deferred, attempts on the ladder, timers, retry schedule, outbox rows, statuses | send, advance, fail, flush, defer, retry, park, restore, delete contact | a message waits for something that never comes; queue full; restart | a shown promise is kept; rows = queue; never twice; never pending for ever | `Delivery`, `TransportLadder` |
| conversation (`engine/receive.rs`, `messages.rs`, `crdt/dedup.rs`, `receipts.rs`) | dedup window and table, history, tombstones, read mark, receipts | admit, keep, answer, mark read, delete | separate store calls; duplicates by many rungs; the window forgets | confirmed only if kept; shown once; deleted stays deleted | `Conversation` over `Exchange` |
| clock (`crdt/hlc.rs`) | last stamp | now, observe | clocks set back, skew, restart | stamps follow what they answer, and stay near time | `Clock` |
| answers, edits, retractions, reactions (`engine/messages.rs`, `proto/edit.rs`, `reaction.rs`, `retract.rs`) | rows of history and of reactions | write, edit, retract, react, and their reception | changes overtake each other | the sides end with the same | `Changes` |
| membership (`crdt/orset.rs`, `proto/group.rs`, `engine/groups.rs`) | tags, tombstones, baseline; rows; signed blocks | invite, evict, leave, take, fold, restore | reordering; everyone folds at a time of its own | rosters are what was heard; nobody is folded away | `OrSet`, `Membership` |
| sender keys, parked frames (`crypto/group.rs`, `engine/group_msg.rs`) | chain of each member, queue of frames too early | rotate, announce, park, drain | announcements, blocks and words cross; queue full | newest chain wins; nothing lost as "seen"; who left reads no more | `GroupWords` |
| files (`engine/files.rs`) | windows, lanes, queues, timers, marks, bytes | offer, accept, ask, pump, chunk, stall, pause, decline | many files on one rung; stalls; restarts | complete means complete; nobody waits for nobody | `Files` |
| channels and swarm (`engine/swarm.rs`, `channels.rs`) | archive, tree, attachments, calls awaited | say, spread, call, graft, prune, compare, sweep | losses nobody sees; blocks for one among blocks for all | everyone catches up; a block for one stays between two | `Swarm` |
| fragments (`proto/fragment.rs`) | assemblies, bytes | accept, purge, make room | budget; the assembly in use evicted | complete or forgotten, never wrong | none |
| pairing and companion (`core/companion.rs`, `companion_driver.rs`, `engine/pairing.rs`, `engine/files.rs`) | desktop: session, requests unanswered, the upload under way; phone: devices, tombstones, places for files | shake hands, ask, offer, put, send, abort, ask what is left, revoke, sweep | links that break in the middle of an upload; answers to a job that was cancelled; revocation while away | a message is what was chosen, once; an upload ends; a revoked desktop learns of it | `Companion` |
| contacts, views | contacts, cards | rename, block, show | | | none |
| store, vault, accounts, wire, codec, primitives, transports, driver, bindings | — | — | parsing and input/output | not a matter for these models | none |

How they meet: a command of the user becomes an envelope, a message in the
history and a delivery. A delivery walks the ladder; on a rung without a session
of its family it waits for a handshake. The session seals it, the driver sends,
the other side's session opens it, `admit` looks for a duplicate and shows the
stamp to the clock, the handler keeps it and answers with a receipt, which ends
the delivery. A silence retires the session; a failure moves the delivery on.
Blocks of membership, announcements of chains, requests for files and the calls
of the swarm are envelopes like any other. Each module takes from the ones below
it what they show: `Changes` and `Membership` that an envelope arrives in the
end (`Delivery`), `GroupWords` that a roster is what was heard (`Membership`),
`Files` that sessions come and go (`Handshake`).

`PROJECT.json` lists, line by line, what is hard to test in this code
("hazards") and which property is for which.

## Modules

| module | models | proofs |
|---|---|---|
| `SessionRegistry` | the registry and its rows, call by call | `SessionProofs` |
| `Ratchet` | one direction of a session | `SessionProofs` |
| `Handshake` | two engines and the sessions between them | `SessionProofs` |
| `TransportLadder` | the ladder and attempts, pure | |
| `Queues` | a part of a queue in its order, a queue taken entry by entry, pure | `QueueProofs` |
| `Delivery` | one engine, one peer: queues, handshake, retries | `DeliveryProofs` |
| `Exchange` | abstract: sent, kept, confirmed | |
| `Conversation` | two sides, one direction: duplicates and receipts | `WordsProofs` |
| `Clock` | the hybrid clock, pure | |
| `Changes` | two sides: answers, edits, retractions, reactions | `ContentProofs` |
| `OrSet` | the observed-remove set, pure | |
| `Membership` | a group's engines: blocks, rows, folds | `MembershipProofs` |
| `GroupWords` | a group's engines: chains, words, frames too early | `WordsProofs` |
| `Files` | senders and receivers of files over one rung | `ContentProofs` |
| `Swarm` | one channel: tree, archives, comparison | `SwarmProofs` |
| `Companion` | a phone and a desktop: requests, uploads, revocation | `CompanionProofs` |
| `MC...` | the small instances TLC runs | |

A definition called "Fault" in a comment is not part of a specification. It is
the body a plausible error would give the definition that follows it; replacing
one by the other must break the property named for it in `PROJECT.json`
("mutants"), which shows that the property can fail. Some properties stand in
the modules and are in no run: those of the section "Where code and comments
part", which do not hold, and the type invariants, which the proofs use.

## Runs

| run | question |
|---|---|
| `session_registry` | handshakes, silences, deletions and deaths between store calls: is a slot a sender and a listener, is the table the registry, is a counter ever used twice? |
| `ratchet` | frames lost, late, repeated, a cache that overflows, a death: is each frame read once, is its key gone, does the rest still open? |
| `handshake` | two sides call, their steps cross, are lost or repeated, one restarts: one session a step, does each hear the other, does the pair heal? |
| `delivery` | LAN and onion, two messages, one place in the deferred queue, deletion of the contact, restarts: do memory, disk and the shown status agree? |
| `delivery_one_family` | onion and mail, one of the messages a silent group copy: is every message resolved in the end? |
| `conversation` | two messages by two kinds of rungs, one of them stamped too early, a restart or a mark past its 30 days: shown once; of what the clock takes, confirmed only if kept; implements `Exchange`? |
| `changes` | two sides answer, edit, retract and react while envelopes cross, clocks differ, step back, a side restarts: do answers sort, do reactions agree, are stamps accepted? |
| `membership` | invitations, removals, departures, folds and restarts of three engines: does a roster say what was heard, whoever folded? |
| `group_words` | words, announcements and blocks in any order, again, with a small queue and a death amid a drain: is what is marked seen applied, is nothing left waiting, does who left read on? |
| `files` | two files, one lane, links cut, frames lost, deaths between bytes and mark or bytes and row: is a complete file complete, is everyone tended, does it arrive? |
| `swarm` | three nodes, channels of four shapes, two blocks, one fault: is a block for one kept, does the tree reach everyone, is nobody blamed in vain, is what was lost found? |
| `companion` | two jobs of files, a phone of each wire, two mishaps: is a message its job's files in order, is it made once, does every upload end and a revoked desktop hear of it, unless it believes for ever in a dead connection? |

All of them pass.

### SessionRegistry

`mode` is the registry's map (`sending`, `retired`, absent), `rows` and `rowCtr`
the table, `todo` the store calls and frames the running handler still owes.
`Establish` is `supersede` and `persist_session` after either side of a
handshake, `Seal` is `seal_for`, `Retire` a silence, `Forget` the deletion of a
contact or the revocation of a device. `DeleteRow`, `PutRow` and `Emit` carry the
calls out in their order; `Crash` may fall between them and `Restore` reads the
table as `restore` does, ordered by `established_ms` and by nothing else.

Instance: three interchangeable sessions of one peer and family, one session of
a paired device (never written), any rows an earlier build left, two frames a
session, envelopes of up to two pieces. Three sessions are what a slot needs to
go through sender, listener and dropped; the fourth shows the device's
exemption. Each handshake reads any wall clock: it may stand still or have been set
back since the last. `birth` numbers the handshakes of a slot, which no code does.

`RestartSendsOnLatest`: after a restart an earlier handshake sends only where the
clock did not go forward to the later one, and then the later one listens, unless
an earlier build left the slot a third row that is no older. So the peer's frames
are still heard; that the slot sends on the wrong one then is in the table below.

### Ratchet

A chain key is its distance from the root, a message key the chain key it comes
from. `chain` is `RecvChain` in memory, `disk` the last snapshot, `step` the
handler between `peek`, `commit`, `persist_session` and the envelope's reading.
Any frame sent may come at any later time, any number of times: the network
needs no variable. `gone` records which keys a limit took, so that `StillOpens`
can say that nothing else takes one.

Instance: six frames, a cache of two, jumps of two, two ticks until a key is
old, one death. Two is the smallest cache in which "the lowest gives way" and
"the gap itself survives" are different; six frames allow a jump after the cache
is full.

`KeysErased` is forward secrecy in full: the key of a frame read is neither in the
cache nor to be had by deriving on from the chain key held (`r.ck`), in memory or
on disk.

### Handshake

Two engines on the direct rungs of one family. A key is a number and `minted` its
owner; a session is a key and the ordinal of its acceptance, so that a first
step accepted twice is visible. `pend` and `ring` are `OutgoingHandshake` and its
timer, `seen` and `answers` the guard, `seenRows` its table, `held` and `mute` a
slot of the registry (of the shape that `SlotShape` proves). `Call` is
`ensure_handshake`, `Accept` and `Repeat` are `on_handshake_first`, `Finish` is
`on_handshake_response`, `Unanswered` is `on_delivery_failed` for a silence.
`DieAccepting` is a death after `persist_session` and before
`put_handshake_seen`. A write of the digest that fails without a death is logged
and ignored by the code; it is not modelled, and neither is the guard's age and
capacity, under which a first step more than 30 days old is new again.

Instance: both talk; or one talks and it dies; or one talks and the other dies;
four keys, two mishaps. Two mishaps allow "reply lost, then a restart" and "step
repeated late, then a frame lost".

* `OneSessionPerKey`: a first step makes one session, unless its acceptor died
  before the digest was on disk. `DieAccepting` is the exception the property
  names, and the run reaches it.
* `EachHearsTheOther`: without mishaps, what one side sends on is among what the
  other holds, calls crossing or not, except while the reply is on its way. This
  is the reason for the listener in a slot.
* `HealsIfRemembered`: after the last mishap the talker finds a session the other
  side holds, if the side called did not restart.

Only one side talks in the liveness property. If both go on talking, each
silence retires whatever session sends now, even one newer than the silent
frame, and the model has runs in which they keep calling each other. Whether the
timeouts of the code bring this to rest is beyond an untimed model.

Fairness: a frame on its way arrives unless it is lost, and losses are bounded;
a side with something to send goes on trying (retry schedule, presence and the
user do this in the code); a timer fires. A timer that fires with frames still on
their way counts as a mishap: the timeouts of `transport_policy.rs` are longer
than a trip.

### Delivery

One engine, one peer, one to two messages. A handler is an operator from a record
of the engine's state to another (`Advance`, `Failed`, `Flushed`, `Retried`...),
so that the passes over the queues compose as in the code. The environment
reports rungs up and down, presence, handshake answers, receipts and failures in
any order, within `Budget`. Timer tokens and handoff labels are unique in the
code and a stale one finds no owner; so only the present owner of a timer is
kept. Bluetooth is left out of `Carried`, its presence works as the LAN's.

`dropped` holds the messages under way when the contact was deleted:
`PromiseKept` and `RowsOwned` speak of the others. A queue of one place is enough
for an eviction, two messages for one to displace or overtake another.
`PendingResolves` assumes that armed timers fire and that the second half of
`send_own_text` runs; nothing is assumed of the network. It exempts a message
that waits for the answer to a letter, which may take days by design. Its run has
one family of rungs (onion and mail share sessions); with two it does not hold
(see below).

### Conversation and Exchange

One sender, one receiver, one direction. `step` is where the receiver's handler
stands: opened, noted, kept. `window` and `seen` are the dedup window and its
table, `edge` the read mark, `far` the messages whose stamp is still too far
ahead. `CrashInside = TRUE` lets the receiver die between the calls of a handler,
`Early` names messages stamped more than five minutes ahead.

One mishap, a restart or an aged mark: each shows by itself what it does. Two
messages, one of them early, `Window` one: enough for a message that comes out of
order and for a mark that passes over one.

The refinement mapping reads `sent` from the status, `kept` from the history and
the tombstones, `confirmed` from the status, of the messages in `InTime`.

### Clock and Changes

`Clock` is `Hlc` and the two operations of `HlcClock` as operators: `Now` and
`Observed`, with `Refuses` for a stamp more than five minutes ahead. In `Changes`
each side has a system clock `phys`, an `HlcClock` in memory, rows of messages
(`history`) and of reactions (`signs`). An action is a command (`Write`, `Edit`,
`Retract`, `React`) or the reception of its envelope, which goes through `admit`:
the clock hears the stamp first, and what it refuses is dropped although it was
marked as seen. `missed` names the messages of which some change came in vain, so
that `ReactionsAgree` can leave them out. `MaxSkew = 1` stands for five minutes,
`Week = 1` for the seven days an edit may take.

Instance: two messages, the second an answer to the first, clocks that agree,
differ by the tolerance, or by more; two changes, one tick, one mishap (a restart
or a clock set back).

* `AnswersFollow` without restarts: the clock's purpose, with a clock of the
  answering side as far behind as one likes.
* `NeighboursHeard`: stamps are pushed ahead by what is heard, and yet never so
  far that a side with a near system clock refuses them; observing cannot drag a
  clock along.
* `ReactionsAgree`: the only change whose stamp decides (`on_reaction`).

### Membership and OrSet

`OrSet` translates `apply`, `merge`, `compact` and the rest as operators.
`engine[m]` in `Membership` is what one engine has of the group: the set in
memory, the keys of `group_members` with those marked removed, the mark of
`group_baseline`, the log of signed blocks. `Invite`, `Evict` and `Leave` are the
commands with all frames they send, the history for a newcomer included;
`Deliver` is `on_group_intro` or `on_membership_block`; `Fold` is one group of
`fold_old_membership`; `Restart` rebuilds the set as `ops_from_stored` does.

No action waits for what the code does not wait for: anyone may change the roster
while other changes are on their way, and fold while a history is. `MaxTrip` bounds
a trip and is shorter than `FoldAfter` (60 days, twice what a letter may lie). Two
history variables say where the promises end.

* `missed[m]` are the additions of a history that came to `m` below its mark, and were
  refused (`orset.rs:125`). `NoneFoldedAway` is of the others. An engine has it so that
  is invited for the first time: 1 founds the group and invites 3; three ticks later it
  invites 2; the introduction and the addition of 3 come to 2, the hour comes and 2
  folds, the founding block comes and is refused, and 2 has a group without its owner.
  It has it too that left, kept the group, folded it and is invited again.
* `crossed` is set where a change is made by one whom an addition, or an invitation by
  one whom any change, had yet to reach. `AgreeAtRest` is of the histories in which
  this never happened. Two people invited at the same moment by two members never
  hear of each other's block (`Invite` sends it to the roster the inviter knows), and
  the rosters stay apart: nothing repeats a block to members (the roster digest repairs
  it partly and is not modelled).
* `AgreeAtRest` is also of those that have not folded; `RostersAgree` would be of all.

Both exceptions arise in the run.

Instance: three engines, three changes, four ticks, a fold after two, one
restart. Three engines are an inviter, a newcomer and a witness.

### GroupWords

`engine[m]` has the roster (`ins`, `outs`), a chain for each member with its epoch
(the owner's stamp of it), the queue of frames too early (`parked`), the dedup
marks (`seen`). `Dispatched` is `dispatch_group_frame`, `Drained` is
`drain_pending_group`, which every handler ends with, `Handled` the two of them
after `admit`. `net` only grows: any copy may come late or again, as the marks
are there for it. `passed` holds words thrown away because their number is
behind, `turned` those on whose departure the own chain was turned: the
properties need both.

Instance: three people, a group of two or of three, two words, one change of the
roster, a queue of two, one death between the emptying of the queue on disk and
its handling.

* `SeenIsApplied`: `admit` turns a second copy away, so a mark without the effect
  is a loss for ever; parking gives the mark back, and so must eviction from the
  queue and a death.
* `NoneWaitsForWhatCame`: after each frame nothing in the queue could be handled.
* `LeftReadsNoMore`: who an author saw leave never gets the new chain, not even
  through others who hand over what they hold to a newcomer; unless two members
  have invited him. The exception is needed, in histories longer than the run's:
  1 evicts 3, invites 4, and evicts 4 again; 2 hears of 4 and of its removal, turns
  its chain, tells 3 and speaks; 3, who has heard nothing of 4, invites it as new
  and hands over the chain of 2 that it holds. 4 has not yet handled the removal
  of the member who invites it, so it takes the chain (`on_sender_key`) and reads.
  Removal is final at 2 only because 2 knows of it.

### Files

A transfer is a file from one node to one other over one rung. `rx` is the
receivers' memory and rows, `tx` the senders' memory, `bytes` the blob store, `own`
the source at the sender, `link` what `file_route_of` finds: a session, only a
road, nothing. The operators `Ask`, `Leave`, `Finish`, `Wake`, `Resume` are the
receiver's helpers (`ask_for_file`, `leave_lane`, `finish_file`,
`wake_queued_files`, `resume_files`), `Pump`, `HasTurn`, `Dropped`, `Woken` the
sender's. `lanes_freed` is looked at where the code does it, at the end of a step
of that node.

A chunk arriving is written, then marked; `DieStoring` is a death between. A file
going has its bytes removed first and its row last, and nothing binds the two:
`HalfDeclined` is `on_decline_file` (783-784) ended by a failed removal or a death
between, with the row, its marks and what is left of the bytes still there;
`DieForgetting` the same in `forget_file` (120-121), which `forget_files` calls
when the file is no longer attached to a message. `half` keeps the files it
happened to. `Sweep` is the part of `sweep_abandoned_uploads` that concerns them:
it takes files attached to nothing and bytes without a mark, never marks without
bytes. So the forgotten file is found again by the sweep, and the declined one by
nothing.

Instance: two files, from one sender to one receiver, from two senders to one,
or one file to two receivers; two chunks, one lane, one move of a person after
the offer (pause, decline, delete, whole or cut short, withdraw, a source
gone), one mishap.

Fairness: timers fire, frames come unless lost, a session comes up while there is
a road: `Connect(s, n, "up")` for each pair, which the retries of `Handshake` do.
`Arrives` makes an exception of a lane kept for a file that is gone
(`Abandoned`): see below.

### Swarm

`node[n]` has the archive (`held`) and the window of repeats (`seen`), both on
disk, and in memory who is attached to it, whom it has dialed, the eager and lazy
halves of its tree, the calls awaited and the misses. A block has an author, a
number and an addressee; a block for one carries a key or an answer and goes
through the same archive. `OnBlock`, `OnIHave`, `OnGraft`, `OnPrune`, `OnHave`,
`OnWant`, `OnAttach` are the arms of `on_swarm_control` and `on_group_message`;
`GraftTimer` and `Sweep` the timers (`on_graft_timer`, `keep_catalogue_fresh`).
`announced` is who serves everyone by its own settings, `known` what the
catalogue tells the others, which outlives it until it lapses.

`Settled` bounds the model: blocks are said, and nodes sweep, when no frame flies
(a trip is seconds, a sweep an hour). Instance: an owner and two others, one of
them a writer; a closed channel without seeds, with one, with two, or an open one
with one seed; two blocks; one fault among: a frame lost, a timer early, a
restart, a session anew, a seed that stops, a reader taken for gone. `KEager` is 1
instead of 4, so that two readers are enough for a lazy one.

`TreeReachesAll` and `EveryoneCatchesUp` speak of the words of the owner and of
the seeds, `HonestNotCooled` of the seeds. Fairness: frames come, timers fire,
every node goes round once an hour.

### Companion

One phone and one desktop. `desk` is `CompanionClient` (session, handshake
pending, table of requests, the upload) with `sending`, the files the driver
holds; `phone` the sessions and link in memory and what lies on its disk (the
pairing, the tombstone, the places for files); `net` the frames each way, in
order. `Posted` is `on_ask`: what the table has room for goes, the rest does not.
`HearProgress`, `HearEnd` and `HearOther` are the arms of `on_response`, each with
what the driver does at once on the event shown (it reads the chunk asked for, or
lets go of the files). `PhoneHears` is `on_handshake` and `on_device_frame`, with
the request it serves; the answer leaves by the newest session.

Mishaps: the desktop's link breaks (`LinkGone`), the phone dies, also between the
rows of what it is about to send (`PhoneDies`), the phone's own link breaks and the
desktop is not told (`PhoneLinkDown`), a place is swept after seven days, the
pairing is revoked, the tombstone ages. `Reach(TRUE)`, a handshake begun while
another is on its way, is one too: the shortest pause between two is two seconds.

Of the phone's death the desktop hears when a write of its own fails
(`link.rs:552`) or the network changes (`Notice`); the end of the stream is not
reported (395). Without a session it writes a handshake at each tick, so there it
notices some time (`KnockFails`). With one, its tick writes nothing
(`companion_driver.rs:739`) and no request has a timer: it may go on for ever
believing in the dead connection (`Deluded`), and no fairness is assumed.

Instance: a job of two files, of two chunks and of none, and a job of one; two
places at the phone instead of its limit, a table of three requests instead of
64 (the three a new session asks fill it); three wires; two mishaps together.
Fairness: frames on their way are heard, a desktop without a session tries again
and finds in the end that its writes fail. `EverySendEnds` and `RevokedLearns`
leave out, by name, a desktop deluded for ever. `deaf` sets aside the case of
`PhoneLinkDown`, `mixed` the jobs that took another's answer, `unheard` counts the
orders to send that a broken link left unanswered; the next section says what
becomes of them.

## Where code and comments part

Met while modelling. Each is left to whoever knows what is meant; the definition
named, checked under the constants given, shows the run that leads there. None is
part of a passing run, and where a property of a run is narrower for one of them,
the property's comment says so.

| definition | what is said | what the code does |
|---|---|---|
| `Delivery!PendingResolves` with `Carried = {"lan", "onion"}` | a message waiting for a handshake moves on with it (`delivery.rs:1343`) | `walk_attempt_to` (1334) leaves a message where it is if it has tried that rung already; the session then appears in another family and nothing wakes the message |
| `Delivery!PromiseKept` with `TornSteps = TRUE` | what the history shows as pending will be sent (`ARCHITECTURE.md:5061`) | the history row and the outbox row are two store calls (`messages.rs:1018`) |
| `Delivery!DeletedLeavesNoRow` | deleting a contact takes what waits for it (`ARCHITECTURE.md:869`) | `contacts.rs:1110` deletes the rows of deferred deliveries, not of those under way |
| `SessionRegistry!RestartSendsOnLatest` without its exception | rows are sorted by the time of the handshake, so that the last one sends (`engine.rs`, `restore`) | it is the wall clock's time: of two handshakes in one millisecond, or around a clock set back, the earlier may send after a restart |
| `Conversation!DeliveredIsKept` for a message in `Early`, or with `CrashInside` | confirmed means kept | a message is noted as seen before the clock refuses it (`receive.rs:747`), or before a death; its resend is confirmed as a duplicate |
| `Handshake!Heals` | a call is repeated until it is answered (`delivery.rs:588`) | a side that restarts after it accepted knows the digest and not the reply; the caller repeats the same frame while its family of rungs is the same (618) |
| `Membership!RostersAgree` | members who heard the same have one roster (`orset.rs:7`, `proto/group.rs:90`) | each folds at its own time, and refuses what is older than its baseline (`orset.rs:218`, `groups.rs:75`): a removal of a tag folded by the one and not by the other leaves them apart |
| `Membership!NoneFoldedAway` of what is in `missed` | below the mark nothing more comes (`proto/group.rs:80`) | a history handed to a newcomer is older than any mark, block by block, and `fold_one_membership` (`groups.rs:46`) does not ask whether one is on its way: a newcomer that folds between two of its blocks, or that left, folded (31) and is invited again, is refused the additions that come after (`orset.rs:125`), the owner's own included |
| `Membership!AgreeAtRest` without `~crossed` | members who heard the same have one roster (`proto/group.rs:90`) | two invitations that cross are sent to the rosters the two inviters know (`groups.rs`, `join_member`): neither newcomer hears of the other |
| `GroupWords!RemovedReadsNoMore` | the chain is turned for whoever is removed (`groups.rs:1238`) | only if the removal changes the roster of the one who hears it; one who hears the removal before the addition (1198) does not turn it |
| `GroupWords!WordsNotLost` | announcing a chain again does no harm, and a word waits for its key (`group_msg.rs:397`, 1397) | a word under a newer chain whose number is behind the chain held fails `peek` by its number alone, and is thrown away |
| `Changes!AnswersAlwaysFollow` | the last stamp must be kept across restarts (`hlc.rs:85`) | `Engine::new` starts at zero (`engine.rs:2258`); `resume` has no caller |
| `Changes!TextsAgree` | text first and edit next (`messages.rs:326`) | `on_edit` does not look at the stamp (776), and nothing orders two edits on their way |
| `Files!MarkedIsThere` of what is in `half` | a mark of a chunk that is not on disk turns the file into one built of emptiness (`store/lib.rs:2190`, `blobs.rs:39`) | bytes are removed before the row (`files.rs:783`, 120; `contacts.rs:1137`, before `delete_chat`): a removal that fails, or a death between, leaves the marks. A session that appears resumes the file, asks only for what is not marked, and completes it with holes; the sweep (`maintenance.rs:237`) does not look for such marks |
| `Files!NoLaneForTheGone` | one place for every way a transfer ends (`files.rs:1036`) | `on_decline_file` (776) does not go there: a lane is kept until its timer finds nobody |
| `Companion!SentOnce` without `unheard` | what was put survives a break and is gone on with (`companion.rs:2040`) | the answer to `FileSend` is lost with the link: the phone knows none of the files, the desktop offers them again (`on_staged`) and the message is sent twice |
| `Companion!WholeMessage` without `mixed` | an answer to a question that was not asked is not shown (`companion.rs:2552`) | `on_cancel_send` (1888) leaves the requests in the table, and `on_response` gives their answers to whichever upload is open: a place of a cancelled job is taken for the next job's file, a late "sent" or refusal ends it |
| `Companion!EverySendEnds` without `deaf` or without `[]Deluded` | an upload must not wait for ever (`companion.rs:2421`) | a request has no timer: one whose answer is lost while the desktop's own connection holds, or one written before the phone died, waits until the person acts or the network changes |
| `Companion!RevokedLearns` without `deaf` or without `[]Deluded` | the farewell reaches a desktop that is on and within reach (`pairing.rs:319`, which calls it a message and no guarantee) | within reach means that the phone counts it as linked, and the tombstone answers handshakes only: a desktop that still believes itself linked, to a phone that has lost its link or has restarted, is told nothing and never knocks |
| `Files!SenderKeepsTheLimit` | the sender's own limit holds it (`files.rs:1745`) | whoever asks is the one asked for last, and goes at once; asked in turn, all of them go |

Of `Swarm`, with shapes wider than those of the run: a writer that is no seed
serves only whom it has dialed, so calls it sends are refused by its own
`may_serve` (`swarm.rs:816`) and the owner counts them as misses; in an open
channel two seeds attach to each other and neither to the owner (`swarm.rs:540`);
a channel in which others talk never asks the owner for a lost block (545);
an archive without a first block asks for none (`openable_from`).

Smaller ones, seen in the source and not in a run: the driver keeps `sending` when
the client drops the upload for want of a link, of room or of the pairing, and
refuses the next job until the person cancels (`companion_driver.rs:1025`); `tell_member` drops an
announcement for a member without a card (`groups.rs:517`); `fold_membership`
deletes tombstones memory keeps (`sqlite.rs:1678`), for which `DiskFaithful` speaks
of engines that have not folded; a late copy of a deleted message is announced,
though not shown.

## What is proved

For every value of the constants that the named assumptions admit, by TLAPS.

| theorem | says | along |
|---|---|---|
| `SessionProofs!SlotShape` | one sender and at most two sessions a slot | `SlotInv`; `RestoredMode` by ranks of rows (`RankFacts`) |
| `SessionProofs!DiskFaithful` | between handlers the table is the registry | `DiskInv`: the table is what is kept, plus what is still to be deleted, less what is still to be put |
| `SessionProofs!SendersListenFirst` | a sender listens before it goes (an action property) | `TypeOK`, `DiskInv` |
| `SessionProofs!RestoredLatest` | a restart sends on the latest handshake; where the clock did not go forward, on an earlier one with the latest still listening | `RankFacts`: the row read last sends and the one before it listens, in any order that ties leave open |
| `SessionProofs!NonceNeverReused` | no (session, counter) leaves twice | `NonceInv`: what has left is below the row's counter, and that is at most memory's |
| `DeliveryProofs!PromisesKept` | what is shown as pending or waiting is held in memory and on disk, for any queue, ladder and schedule; under `~TornSteps` | `Books`: two queues without a message twice, the rows and the statuses, while some messages are in the hands of a pass |
| `DeliveryProofs!RowsAreOwned` | the rows are the queues, wherever the process dies | the same, without the promises |
| `SessionProofs!ReadOnce`, `ForwardSecrecy`, `NothingForgotten` | a frame is read once; its key is neither kept nor to be derived from the chain key afterwards; other keys are still there | `RatchetInv` = `Sound` (cached keys are right), `InStep` (disk lags by the running handler at most), `Accounted` (where each position went) |
| `WordsProofs!ReceiptsAreTrue`, `ImplementsExchange` | confirmed only if kept; refinement; of the messages in `InTime`, under `~CrashInside`, both needed | `KnownInv`: window, table and receipts speak only of what is at hand |
| `WordsProofs!AnnouncedOnce` | shown once, wherever the receiver dies | `OnceInv` |
| `WordsProofs!MarksAreTrue` | a frame marked as seen has had its effect, whatever was parked, crowded out or lost in a drain | `AtRest`: each mark, each frame that waits and the turned, for an engine at a time; `Step` for the rounds of a drain |
| `WordsProofs!ChainsGoForward` | copies of chains go forward (an action property) | `Grown`, a part of `Step` |
| `WordsProofs!NothingReadyWaits` | after a frame is handled, all that is left in the queue has to wait (an action property) | `Settles`: each round makes the queue shorter or finds that all of it waits, so as many rounds as the queue may be long are enough; `Chained`, `WordsAreUnder`: a word that waits is not under the chain held |
| `WordsProofs!TheLeftReadNoMore` | who was seen to leave reads no more, but by two invitations | `OwnIsNewest`: nobody has more of a chain than its owner; `LeftIsBehind`, `SaidIsBehind`: what the departed has and what is on its way to it is older than the turned chain; `HeardCame`: whoever is known of was invited by a frame or was there from the start |
| `SessionProofs!OneSession` | one session a first step | `ReplayInv`: digests on disk are in memory, and every session made is remembered by the side its key was not minted by |
| `SessionProofs!CrossingCallsMeet` | what one side sends on the other holds or is being told of, while nothing is lost, repeated or dead | `HearInv`: until the first fault a session that sends is held by the other side or its reply is on its way, and a call under way is known to its caller and new to the other |
| `MembershipProofs!FoldingLosesNobody` | folding takes nobody out of a roster who was heard of in time and not removed; a history that comes late is the exception; under `MaxTrip < FoldAfter` | `FoldInv`: a block on its way is younger than any mark or part of a history; of what was taken in time each member is in the set by some tag, or was removed |
| `MembershipProofs!RestingAgree` | members at rest that have not folded have one roster, if no changes crossed | `RestInv`: an engine that counts itself in, by all it has heard and will hear, has been or will be told all there is |
| `MembershipProofs!RosterFromBlocks` | an engine that has not folded has the roster its blocks give, in whatever order they came | `HeardInv`: log, rows and set hold the same pairs |
| `MembershipProofs!RaisedAsItWas` | the rows give back the set of memory | the same |
| `MembershipProofs!Converges`, `OrderIrrelevant`, `RepeatIrrelevant`, `MergeIsApply`, `Merge...` | same blocks, same set; operations commute and repeat; merge is a semilattice and taking an operation a merge | facts about the operators of `OrSet` |
| `ContentProofs!ClockStaysNear` | no side refuses the stamps of a near one | `InTime`: clocks and stamps on their way are within what the starts and the tolerance allow |
| `ContentProofs!AnswersSort` | an answer comes after what it answers | `Ordered`, `OneStamp`: a row's stamp is at most its holder's clock, and a message has one stamp wherever it is |
| `ContentProofs!SidesAgree` | reactions agree at rest | `SignInv`: an author's row is the newest of what it sent, the other's row the newest of what came, the rest is on its way or in vain |
| `ContentProofs!TheMarkedIsThere` | what is marked is on disk, a complete file to its last chunk, wherever the receiver dies, but of a file whose refusal or deletion was cut short or failed | a conjunct on rows, marks and bytes, kept by every handler |
| `ContentProofs!TheyAreTendedOnce` | an accepted file whose sender has a session is on a lane with a timer or in the queue once | `Good`: of the receivers but for the files a handler has in hand |
| `ContentProofs!TheWaitersHaveAWaker` | who waits in a queue waits for a full rung, and for one with a timer or kept for nobody | `Good`; a lane freed is remembered until `Wake` takes the queue in hand |
| `SwarmProofs!StaysBetween` | a block for one is only with its author and its addressee | `AddressInv`: of archives and frames together |
| `SwarmProofs!TreeSuffices` | without a fault the tree alone brings every word to every member | `TreeInv`: whoever lacks a word has it on its way, or a call for it, or a question out, or an eager link to one of these |
| `SwarmProofs!SlowIsNotSilent` | no seed is cooled without a fault | `CalmInv`: every question asked has its answer on the way, so a timer that counts a miss meets none |
| `CompanionProofs!MessagesAreWhole` | a message is its job's files, all of them, in order, with their own bytes, unless the job took an answer meant for another | `Faithful`: what such a job asks names the places of its own files in their order; it needs `Orderly` |
| `CompanionProofs!SentOnceUnlessUnheard` | a message once, and once more for each link lost with the order unanswered | `Counted`: of each job, its messages and the orders that may still be obeyed are paid for by the links lost |
| `TypeCorrect`, `ConversationTypes`, `GroupTypes`, `HandshakeTypes`, `FilesTypes`, `CompanionTypes` | types | of `SessionRegistry`, `Ratchet`, `Conversation`, `GroupWords`, `Handshake`, `Membership`, `Delivery`, `Files`, `Companion` |

None of the invariants is inductive alone. `OneSessionPerKey` says nothing of the
guard, and a state with a session made and its digest forgotten satisfies it and
breaks it one step later; `Remembered` rules it out. `AnswersFollow` speaks of two
rows and breaks when a row is written by a clock behind the row it answers;
`Ordered` says that no clock is. `ReactionsAgree` speaks of rest only and says
nothing while something flies; `SignInv` accounts for each sign on its way.
`TreeReachesAll`, `AgreeAtRest` and `EachHearsTheOther` speak of rest or of one
moment in the same way, and `TreeInv`, `RestInv` and `HearInv` say for what is
missing which frame will bring it. `PromiseKept` holds between handlers; in the
middle of a pass over a queue a message is in neither queue.

The handlers of `Delivery`, `GroupWords` and `Files` take a queue entry by entry, by
recursive functions over its positions (`Those`, `InTurn`). What they do is proved
by induction on the positions: `Least` is the least element of a set of numbers,
from the library's well-founded relations, and `Induct` is induction up to a bound
for the *set* of numbers at which a statement holds (`QueueProofs`). For a pass of
`Delivery` that statement is `Held` with the entries not yet taken as the messages
in hand; each handler is then a few passes and assignments, and keeps `Held` with
nothing in hand. For a round of `drain_pending_group` it is `Step` from the engine
the handler began with: a relation of two engines that says what one frame may add
and where it must have come from, and that is transitive, so that it holds of one
frame, of a round, and of all the rounds. For `Wake` and `Resume` of `Files` it is
`Good` with the files not yet asked for in hand: a handler frees lanes, stops
timers and empties the queue one file after another, and in between an accepted
file may be neither on a lane nor in the queue. `Good` with nothing in hand is the
invariant; it is not inductive without `freed`, since a lane freed in the middle
of a handler leaves a queue behind a rung that is not full, until the end of the
handler comes to it.

`WholeMessage` and `SentOnce` speak of messages made; what breaks them lies on the
way long before. `CompanionProofs` has four layers, each inductive with those
before it. `Sound` has the types, and that nothing names a job or a place still to
come. `Orderly` says that frames lie in the order of the jobs and of the sessions
they were asked in, and that each place belongs to one file. `Faithful` needs it:
`on_response` knows an answer by its kind alone, and only because nothing
of a job comes after what a later one has asked is an answer to the job under way
its own, or that job is in `mixed` from then on. `Counted` needs both: an order is
obeyed while its places are there, orders of one session name more and more
places, and so of all the orders on their way at most one for each session may
still make a message; each but the last has its session lost while it was
unanswered. A message takes its places away, and with them every order that named
them.

Assumptions on constants are named in the modules and TLC evaluates them in each
run. `RatchetAssumption` has `Jump <= Limit`, which holds of the code, where both
are 2000; `ChangesAssumption` that there are two sides, as `Handshake`'s has
it; a channel's members, a rung's senders and their transfers are finitely many; and the
transfers of one file have one sender, who has it in its store.

Hypotheses of theorems, which the runs choose too: `MaxTrip < FoldAfter`, a frame is on its way for less than the 60 days;
`~CrashInside` and
`~TornSteps`, the process does not die between two store calls of one handler
(the previous section says what is lost then).

Model-checked only: all liveness (`PendingResolves`, `HealsIfRemembered`, `Arrives`,
`EveryoneCatchesUp`, `EverySendEnds`, `RevokedLearns`), which rests on fairness
and is beyond the provers here.

## Bounds

| constant | bounds |
|---|---|
| `MaxCtr`, `MaxPieces`, `MaxClock` | frames of a session, pieces of an envelope, clock readings |
| `MaxSent`, `MaxNow`, `MaxCrashes` | frames, time, deaths in `Ratchet` (`Limit` and `Jump` are 2000 in the code) |
| `MaxKeys`, `Budget` | ephemeral keys, mishaps in `Handshake` |
| `Budget`, `RetrySteps`, `MaxDeferred` | environment, schedule and queue in `Delivery` (the last two are constants of the code with smaller values) |
| `Window`, `Mishaps` | how many messages a read receipt looks back on (`MAX_RECEIPT_IDS`, 100 in the code); deaths and aged marks in `Conversation` |
| `MaxChanges`, `MaxNow`, `Setbacks` | edits, retractions and reactions, ticks, restarts and clocks set back in `Changes` |
| `MaxOps`, `MaxNow`, `MaxRestarts`, `MaxTrip`, `FoldAfter` | changes, ticks, restarts, the longest trip, and the 60 days in `Membership` |
| `MaxWords`, `MaxChanges`, `MaxDeaths`, `MaxParked` | words, changes, deaths, and the queue (`MAX_PENDING_GROUP`) in `GroupWords` |
| `MaxMoves`, `Mishaps`, `Chunks`, `Window`, `AckEvery`, `Limit`, `Patience` | what people do, what goes wrong, and the sizes in `Files`; the last is the code's |
| `MaxBlocks`, `MaxFaults`, `KEager`, `MaxMisses` | blocks, faults, the eager ones (4 in the code) and the misses before one cools in `Swarm` |
| `MaxTries`, `Accidents`, `MaxUploads`, `OutLimit` | handshakes, what goes wrong, places for files and unanswered requests in `Companion` (the last two are constants of the code with smaller values) |

Deadlock is not checked where a bound, or the end of the conversation, really
stops the system: all runs but `session_registry` and `swarm`.

## Not modelled

Cryptography is perfect: keys are names. Parsing, encoding, SQLite, sockets,
accounts, the vault, the bindings, the simulator, the lab and the screen are out:
they are input and output or pure functions without an order of events. Of the
core, fragments, contacts and views are not modelled.

In the modules:

* `Delivery`, `Handshake`: two peers sharing one deferred queue, replies kept for
  a peer without a rung (`unsent_replies`), a handshake that changes family,
  strangers and revoked devices, the limits and age of the replay guard.
* `Conversation`: tombstones after 90 days, receipts of group copies; that a
  message is confirmed in the end, for which `FinishTwice` answers duplicates.
* `Companion`: pairing itself, several desktops, the desktop's cache of chats and
  pages, files taken to the desktop, the rungs of its link, limits of size.
* `Changes`: stamps of receipts, forwards, cleared chats, the same changes in
  groups and channels; the clock's logical part at 2^32.
* `Membership`: titles, the limit of 32 members, the roster digest.
* `GroupWords`: cards, the age of queued frames, edits and reactions in groups;
  two invitations at once, which are `Membership`'s.
* `Files`: files of channels with many holders, uploads, several rungs with limits
  of their own, files too large for a rung, rights in groups.
* `Swarm`: slow rungs and bundles, sharing levels, limits of what is given, the
  archive's window, scrolling back, rights and keys and their rotation, how the
  catalogue itself travels.

## What is left

By weight: `Fragments` (a bounded reassembler: two assemblies over a budget of
three; bytes accounted are bytes held); the desktop's cache; and a composition of
`Delivery` at one side with `Conversation`, refining `Exchange` end to end.
