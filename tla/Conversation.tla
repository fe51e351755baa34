----------------------------- MODULE Conversation -----------------------------
(***************************************************************************)
(* One conversation, one direction: the sender resends until a receipt     *)
(* comes, the network loses and reorders, the receiver drops duplicates,   *)
(* keeps the message, answers with receipts, and may die between any two   *)
(* of its store calls.  A message is the number that orders it (its HLC).  *)
(*                                                                         *)
(* The same frame twice is refused by the ratchet without any effect, so a *)
(* copy in transit is taken out of the network when it is opened; every    *)
(* resend is a frame of its own.  The sender survives its crashes (its     *)
(* queue is on disk, module Delivery) and is not stopped here.             *)
(***************************************************************************)
EXTENDS Naturals, FiniteSets

CONSTANTS
    Msgs,         \* the messages, numbered in the order they are written
    Early,        \* those stamped too far ahead of the receiver's clock
    Window,       \* MAX_RECEIPT_IDS: how many messages mark_read looks at
    CrashInside,  \* TRUE: the receiver may die between two store calls
    Mishaps       \* bound: how often it dies or a mark outlives its 30 days

ASSUME ConversationAssumption ==
    /\ Msgs \subseteq Nat \ {0}
    /\ Early \subseteq Msgs
    /\ Window \in Nat \ {0}
    /\ CrashInside \in BOOLEAN
    /\ Mishaps \in Nat

Vias == {"direct", "mail"}
Idle == [at |-> "idle", msg |-> 0, via |-> "direct"]

VARIABLES
    status,   \* sender: the status of each message in its history
    pend,     \* sender: messages some queue holds
    transit,      \* copies in transit, <<message, via>>
    acks,     \* receipts in transit, <<message, kind>>
    step,     \* receiver: how far the handler of the present frame has come
    window,   \* receiver, memory: DedupWindow
    seen,     \* receiver, disk: table dedup
    history,  \* receiver, disk: messages in the chat
    gone,     \* receiver, disk: tombstones
    edge,     \* receiver, disk and memory: read_upto
    far,      \* messages whose stamp is still too far ahead
    shown,    \* history: how often a message was announced to the user
    crashes, ages

conversationVars == <<status, pend, transit, acks, step, window, seen, history, gone, edge, far,
          shown, crashes, ages>>

sender   == <<status, pend>>
disk     == <<seen, history, gone, edge>>
bounds   == <<crashes, ages>>

Statuses == {"none", "Pending", "Sent", "Delivered", "Read"}
Rank(s) == CASE s = "none" -> 0 [] s = "Pending" -> 1 [] s = "Sent" -> 2
             [] s = "Delivered" -> 3 [] s = "Read" -> 4
Raised(now, target) == IF Rank(target) > Rank(now) THEN target ELSE now

ConversationInit ==
    /\ status = [m \in Msgs |-> "none"] /\ pend = {}
    /\ transit = {} /\ acks = {}
    /\ step = Idle /\ window = {} /\ seen = {} /\ history = {} /\ gone = {}
    /\ edge = 0 /\ far = Early
    /\ shown = [m \in Msgs |-> 0]
    /\ crashes = 0 /\ ages = 0

-----------------------------------------------------------------------------
(* The sender and the network.                                              *)

\* send_own_text: the next message, in the order of the clock.
Write(m) ==
    /\ status[m] = "none" /\ \A n \in Msgs : n < m => status[n] # "none"
    /\ status' = [status EXCEPT ![m] = "Pending"]
    /\ pend' = pend \cup {m}
    /\ UNCHANGED <<transit, acks, step, window, disk, far, shown, bounds>>

\* arm_send and seal_for: one more copy, by the rung the ladder has come to.
SendCopy(m, via) ==
    /\ m \in pend
    /\ transit' = transit \cup {<<m, via>>}
    /\ UNCHANGED <<sender, acks, step, window, disk, far, shown, bounds>>

\* on_handed: the server has taken the letter; nothing more is awaited.
Handed(m) ==
    /\ m \in pend
    /\ transit' = transit \cup {<<m, "mail">>}
    /\ status' = [status EXCEPT ![m] = Raised(@, "Sent")]
    /\ pend' = pend \ {m}
    /\ UNCHANGED <<acks, step, window, disk, far, shown, bounds>>

\* deliver_payload, a receipt.
ReceiptArrives(m, kind) ==
    /\ <<m, kind>> \in acks
    /\ acks' = acks \ {<<m, kind>>}
    /\ status' = [status EXCEPT ![m] = Raised(@, kind)]
    /\ pend' = pend \ {m}
    /\ UNCHANGED <<transit, step, window, disk, far, shown, bounds>>

Lose ==
    /\ \/ \E c \in transit : transit' = transit \ {c} /\ UNCHANGED acks
       \/ \E a \in acks : acks' = acks \ {a} /\ UNCHANGED transit
    /\ UNCHANGED <<sender, step, window, disk, far, shown, bounds>>

-----------------------------------------------------------------------------
(* The receiver's handler, one store call at a time.                        *)

\* on_data: the tag is right, the position is spent and the session is saved.
Open(c) ==
    /\ step.at = "idle" /\ c \in transit
    /\ transit' = transit \ {c}
    /\ step' = [at |-> "opened", msg |-> c[1], via |-> c[2]]
    /\ UNCHANGED <<sender, acks, window, disk, far, shown, bounds>>

\* Fault: the table on disk is not asked.
IsFreshInMemory(m) == m \notin window

IsFresh(m) == m \notin window /\ m \notin seen

\* admit: the window in memory, then note_seen.
Note ==
    /\ step.at = "opened"
    /\ step' = [step EXCEPT !.at = IF IsFresh(step.msg) THEN "noted" ELSE "twice"]
    /\ window' = window \cup {step.msg}
    /\ seen' = IF step.msg \in window THEN seen ELSE seen \cup {step.msg}
    /\ UNCHANGED <<sender, transit, acks, history, gone, edge, far, shown, bounds>>

\* Fault: a message that comes out of order finds no place.
KeptInOrder(m) == IF \E n \in history : n > m THEN history ELSE history \cup {m}

\* put_message: what has a tombstone is not brought back.
Kept(m) == IF m \in gone THEN history ELSE history \cup {m}

\* admit and on_incoming_text: the clock, then the row.
Keep ==
    /\ step.at = "noted" /\ step.msg \notin far
    /\ history' = Kept(step.msg)
    /\ step' = [step EXCEPT !.at = "kept"]
    /\ UNCHANGED <<sender, transit, acks, window, seen, gone, edge, far, shown, bounds>>

\* admit: a stamp from far ahead, the message is dropped.
Drop ==
    /\ step.at = "noted" /\ step.msg \in far
    /\ step' = Idle
    /\ UNCHANGED <<sender, transit, acks, window, disk, far, shown, bounds>>

\* send_receipt: on a direct rung only, and only if a session is at hand.
Answered(m, via, kind) ==
    \/ via = "direct" /\ acks' = acks \cup {<<m, kind>>}
    \/ UNCHANGED acks

\* The step ends and its effects go out.
Finish ==
    /\ step.at = "kept"
    /\ shown' = [shown EXCEPT ![step.msg] = @ + 1]
    /\ Answered(step.msg, step.via, "Delivered")
    /\ step' = Idle
    /\ UNCHANGED <<sender, transit, window, disk, far, bounds>>

\* admit: what is told of a duplicate.
DuplicateKind(m) == IF edge >= m THEN "Read" ELSE "Delivered"

FinishTwice ==
    /\ step.at = "twice"
    /\ Answered(step.msg, step.via, DuplicateKind(step.msg))
    /\ step' = Idle
    /\ UNCHANGED <<sender, transit, window, disk, far, shown, bounds>>

Crash ==
    /\ CrashInside \/ step.at = "idle"
    /\ crashes + ages < Mishaps /\ crashes' = crashes + 1
    /\ window' = {} /\ step' = Idle
    /\ UNCHANGED <<sender, transit, acks, disk, far, shown, ages>>

\* The receiver's clock reaches the stamp.
ClockCatchesUp(m) ==
    /\ m \in far /\ step.at = "idle"
    /\ far' = far \ {m}
    /\ UNCHANGED <<sender, transit, acks, step, window, disk, shown, bounds>>

\* compact and DedupWindow::purge: 30 days have passed.
Age(m) ==
    /\ step.at = "idle" /\ m \in seen
    /\ crashes + ages < Mishaps /\ ages' = ages + 1
    /\ seen' = seen \ {m} /\ window' = window \ {m}
    /\ UNCHANGED <<sender, transit, acks, step, history, gone, edge, far, shown, crashes>>

-----------------------------------------------------------------------------
(* The receiver's user.                                                     *)

\* messages(chat, MAX_RECEIPT_IDS): the newest of the chat.
Newest == {m \in history : Cardinality({n \in history : n > m}) < Window}

\* on_mark_read: the user has the chat before him down to m, and a direct
\* channel is at hand (without one nothing changes, the edge stays).
MarkRead(m) ==
    /\ step.at = "idle" /\ m \in Newest
    /\ LET ids == {n \in Newest : edge < n /\ n <= m} IN
       ids # {} /\ acks' = acks \cup (ids \X {"Read"})
    /\ edge' = m
    /\ UNCHANGED <<sender, transit, step, window, seen, history, gone, far, shown, bounds>>

\* Fault: the row goes and leaves no tombstone.
DeleteRow(m) ==
    /\ step.at = "idle" /\ m \in history
    /\ history' = history \ {m}
    /\ UNCHANGED <<sender, transit, acks, step, window, seen, gone, edge, far, shown, bounds>>

\* The user deletes the message at his side.
Delete(m) ==
    /\ step.at = "idle" /\ m \in history
    /\ history' = history \ {m} /\ gone' = gone \cup {m}
    /\ UNCHANGED <<sender, transit, acks, step, window, seen, edge, far, shown, bounds>>

-----------------------------------------------------------------------------

ConversationNext ==
    \/ \E m \in Msgs : Write(m) \/ Handed(m)
    \/ \E m \in Msgs, via \in Vias : SendCopy(m, via)
    \/ \E m \in Msgs, kind \in {"Delivered", "Read"} : ReceiptArrives(m, kind)
    \/ Lose
    \/ \E c \in transit : Open(c)
    \/ Note \/ Keep \/ Drop \/ Finish \/ FinishTwice
    \/ Crash
    \/ \E m \in Msgs : ClockCatchesUp(m) \/ Age(m) \/ MarkRead(m) \/ Delete(m)

ConversationSpec == ConversationInit /\ [][ConversationNext]_conversationVars

-----------------------------------------------------------------------------
(* Properties.                                                              *)

ConversationTypeOK ==
    /\ status \in [Msgs -> Statuses] /\ pend \subseteq Msgs
    /\ transit \subseteq Msgs \X Vias /\ acks \subseteq Msgs \X {"Delivered", "Read"}
    /\ step \in [at : {"idle", "opened", "noted", "kept", "twice"}, msg : Msgs \cup {0}, via : Vias]
    /\ step.at # "idle" => step.msg \in Msgs
    /\ window \subseteq Msgs /\ seen \subseteq Msgs
    /\ history \subseteq Msgs /\ gone \subseteq Msgs /\ edge \in Msgs \cup {0}
    /\ far \subseteq Msgs /\ shown \in [Msgs -> Nat]
    /\ crashes \in Nat /\ ages \in Nat /\ crashes + ages <= Mishaps

\* The messages whose stamp the receiver's clock takes.
InTime == Msgs \ Early

\* A message shown as delivered or read is at the receiver, or was until its
\* user deleted it: no receipt is sent for what was lost on the way in.
DeliveredIsKept ==
    \A m \in InTime : status[m] \in {"Delivered", "Read"} => m \in history \cup gone

\* A message is announced once, however often it is resent, by whatever rung,
\* across restarts; once more only for a mark that has outlived the window.
ShownOnce == \A m \in Msgs : shown[m] <= 1 + ages

\* For those messages the conversation implements the promise of module Exchange.
Promise == INSTANCE Exchange WITH
    Msgs <- InTime,
    sent <- {m \in InTime : status[m] # "none"},
    kept <- (history \cup gone) \cap InTime,
    confirmed <- {m \in InTime : status[m] \in {"Delivered", "Read"}}
KeepsPromise == Promise!Spec
=============================================================================
