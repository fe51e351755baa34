------------------------------ MODULE Changes ------------------------------
(***************************************************************************)
(* What is done with words after they were written: an answer, an edit, a  *)
(* retraction, a reaction; and the clock that orders them.                 *)
(*                                                                         *)
(* Two sides talk.  Every change is an envelope of its own in the queue of *)
(* module Delivery: it arrives in the end, once (Conversation), in any     *)
(* order.  The clock lives in memory and starts again at zero.             *)
(***************************************************************************)
EXTENDS Clock

CONSTANTS
    Sides,
    Msgs,
    Author,        \* Author[m]: whose words m are
    AnswerTo,      \* AnswerTo[m]: the message m answers, or m itself
    Starts,        \* physical times at the start: functions from Sides
    Week,          \* MAX_EDIT_AGE_MS, in ticks
    MaxChanges,    \* bound: edits, retractions, reactions
    MaxNow,        \* bound: how far time goes on
    Setbacks       \* bound: restarts, steps back of a clock

ASSUME ChangesAssumption ==
    /\ \E a, b \in Sides : a # b /\ Sides = {a, b}
    /\ Author \in [Msgs -> Sides] /\ AnswerTo \in [Msgs -> Msgs]
    /\ Starts \subseteq [Sides -> Nat]
    /\ Week \in Nat /\ MaxChanges \in Nat /\ MaxNow \in Nat /\ Setbacks \in Nat

VARIABLES
    phys,          \* phys[n]: what n's system clock shows
    clock,         \* clock[n]: HlcClock
    history,       \* history[n][m]: n's row of message m
    signs,         \* signs[n][m][x]: n's row of x's reaction to m
    net,           \* envelopes on their way
    missed,        \* messages of which some change came in vain
    elapsed, changes, restarts, stepped

disk == <<history, signs>>
bounds == <<elapsed, changes, restarts, stepped>>
changesVars == <<phys, clock, history, signs, net, missed, elapsed, changes, restarts, stepped>>

Other(n) == CHOOSE x \in Sides : x # n

\* st: "none", "here" or "gone" (a tombstone).  text: 0 as written, else the
\* number of the edit.  since: received_ms.
NoRow == [st |-> "none", text |-> 0, at |-> Zero, since |-> 0]
NoSign == [sign |-> 0, at |-> Zero]

ChangesInit ==
    /\ phys \in Starts
    /\ clock = [n \in Sides |-> Zero]
    /\ history = [n \in Sides |-> [m \in Msgs |-> NoRow]]
    /\ signs = [n \in Sides |-> [m \in Msgs |-> [x \in Sides |-> NoSign]]]
    /\ net = {}
    /\ missed = {}
    /\ elapsed = 0 /\ changes = 0 /\ restarts = 0 /\ stepped = 0

Here(n, m) == history[n][m].st = "here"

Envelope(n, kind, m, what, at) ==
    [to |-> Other(n), kind |-> kind, msg |-> m, what |-> what, at |-> at]

-----------------------------------------------------------------------------
\* send_own_text, on_send_reply: the message answered must be there.
Write(m) ==
    LET n == Author[m]
        at == Now(clock[n], phys[n])
    IN  /\ history[n][m].st = "none"
        /\ AnswerTo[m] # m => Here(n, AnswerTo[m])
        /\ clock' = [clock EXCEPT ![n] = at]
        /\ history' = [history EXCEPT ![n][m] =
               [st |-> "here", text |-> 0, at |-> at, since |-> phys[n]]]
        /\ net' = net \cup {Envelope(n, "text", m, 0, at)}
        /\ UNCHANGED <<phys, signs, missed, bounds>>

\* within_window, by the side's own clock
InWindow(n, m) == phys[n] - history[n][m].since <= Week

\* on_edit_message, edit_group_message
Edit(m) ==
    LET n == Author[m]
        at == Now(clock[n], phys[n])
    IN  /\ changes < MaxChanges
        /\ Here(n, m) /\ InWindow(n, m)
        /\ clock' = [clock EXCEPT ![n] = at]
        /\ history' = [history EXCEPT ![n][m].text = changes + 1]
        /\ net' = net \cup {Envelope(n, "edit", m, changes + 1, at)}
        /\ changes' = changes + 1
        /\ UNCHANGED <<phys, signs, missed, elapsed, restarts, stepped>>

\* tombstone_message
Entombed(n, m) ==
    /\ history' = [history EXCEPT ![n][m].st = "gone"]
    /\ signs' = [signs EXCEPT ![n][m] = [x \in Sides |-> NoSign]]

\* forget_messages: what was not sent yet will not be; on_retract_messages
\* asks the other side if the words are one's own.
Retract(n, m) ==
    LET at == Now(clock[n], phys[n])
        kept == {f \in net : ~(f.kind = "text" /\ f.msg = m /\ f.to # n)}
    IN  /\ changes < MaxChanges
        /\ Here(n, m)
        /\ Entombed(n, m)
        /\ \E rest \in {net, kept} :
               IF Author[m] = n
               THEN /\ clock' = [clock EXCEPT ![n] = at]
                    /\ net' = rest \cup {Envelope(n, "retract", m, 0, at)}
               ELSE UNCHANGED <<clock, net>>
        /\ changes' = changes + 1
        /\ UNCHANGED <<phys, missed, elapsed, restarts, stepped>>

\* on_set_reaction: one stamp for the own row, the next for the envelope.
React(n, m) ==
    LET at == Now(clock[n], phys[n])
        sent == Now(at, phys[n])
    IN  /\ changes < MaxChanges
        /\ Here(n, m)
        /\ clock' = [clock EXCEPT ![n] = sent]
        /\ signs' = [signs EXCEPT ![n][m][n] = [sign |-> changes + 1, at |-> at]]
        /\ net' = net \cup {Envelope(n, "sign", m, changes + 1, sent)}
        /\ changes' = changes + 1
        /\ UNCHANGED <<phys, history, missed, elapsed, restarts, stepped>>

-----------------------------------------------------------------------------
\* on_incoming_text, put_message: a tombstone is not overwritten.
OnText(n, f) ==
    /\ history' = [history EXCEPT ![n][f.msg] =
           IF @.st = "gone" THEN @
           ELSE [st |-> "here", text |-> 0, at |-> f.at, since |-> phys[n]]]
    /\ UNCHANGED signs

\* on_edit: the stamp is not looked at.
OnEdit(n, f) ==
    /\ history' = [history EXCEPT ![n][f.msg].text =
           IF Here(n, f.msg) /\ InWindow(n, f.msg) THEN f.what ELSE @]
    /\ UNCHANGED signs

\* on_retract
OnRetract(n, f) ==
    IF Here(n, f.msg) THEN Entombed(n, f.msg) ELSE UNCHANGED disk

\* Fault: the reaction that comes last is the one that stays.
OnReactionLast(n, f) ==
    LET x == Other(n)
    IN  /\ signs' = [signs EXCEPT ![n][f.msg][x] =
               IF Here(n, f.msg) THEN [sign |-> f.what, at |-> f.at] ELSE @]
        /\ UNCHANGED history

\* on_reaction: the newest by its stamp stays.
OnReaction(n, f) ==
    LET x == Other(n)
    IN  /\ signs' = [signs EXCEPT ![n][f.msg][x] =
               IF Here(n, f.msg) /\ Before(@.at, f.at)
               THEN [sign |-> f.what, at |-> f.at] ELSE @]
        /\ UNCHANGED history

InVain(n, f) ==
    \/ Refuses(phys[n], f.at)
    \/ f.kind # "text" /\ ~Here(n, f.msg)
    \/ f.kind = "edit" /\ ~InWindow(n, f.msg)

\* admit: the clock hears the stamp first; what it refuses is dropped, and it
\* was marked as seen.
Receive(f) ==
    LET n == f.to
    IN  /\ net' = net \ {f}
        /\ missed' = IF InVain(n, f) THEN missed \cup {f.msg} ELSE missed
        /\ IF Refuses(phys[n], f.at)
           THEN UNCHANGED <<clock, disk>>
           ELSE /\ clock' = [clock EXCEPT ![n] = Observed(@, phys[n], f.at)]
                /\ \/ f.kind = "text" /\ OnText(n, f)
                   \/ f.kind = "edit" /\ OnEdit(n, f)
                   \/ f.kind = "retract" /\ OnRetract(n, f)
                   \/ f.kind = "sign" /\ OnReaction(n, f)
        /\ UNCHANGED <<phys, bounds>>

-----------------------------------------------------------------------------
\* Engine::new: HlcClock::new(), nothing brings the last stamp back.
Rebirth(n) ==
    /\ restarts + stepped < Setbacks
    /\ clock' = [clock EXCEPT ![n] = Zero]
    /\ restarts' = restarts + 1
    /\ UNCHANGED <<phys, disk, net, missed, elapsed, changes, stepped>>

\* A system clock is set back.
StepBack(n) ==
    /\ restarts + stepped < Setbacks
    /\ phys[n] > 0
    /\ phys' = [phys EXCEPT ![n] = @ - 1]
    /\ stepped' = stepped + 1
    /\ UNCHANGED <<clock, disk, net, missed, elapsed, changes, restarts>>

Tick ==
    /\ elapsed < MaxNow
    /\ phys' = [n \in Sides |-> phys[n] + 1]
    /\ elapsed' = elapsed + 1
    /\ UNCHANGED <<clock, disk, net, missed, changes, restarts, stepped>>

ChangesNext ==
    \/ \E m \in Msgs : Write(m) \/ Edit(m)
    \/ \E n \in Sides, m \in Msgs : Retract(n, m) \/ React(n, m)
    \/ \E f \in net : Receive(f)
    \/ \E n \in Sides : Rebirth(n) \/ StepBack(n)
    \/ Tick

ChangesSpec == ChangesInit /\ [][ChangesNext]_changesVars
-----------------------------------------------------------------------------
\* A message written in answer to another comes after it in the chat, on both
\* sides, whatever their system clocks show and however they are set back; as
\* long as no restart loses the clock.
AnswersFollow ==
    restarts = 0 =>
        \A n \in Sides, m \in Msgs :
            Here(n, m) /\ AnswerTo[m] # m /\ Here(n, AnswerTo[m]) =>
                Before(history[n][AnswerTo[m]].at, history[n][m].at)

\* hlc.rs:86: the same across restarts, for the last stamp must be kept.
AnswersAlwaysFollow ==
    \A n \in Sides, m \in Msgs :
        Here(n, m) /\ AnswerTo[m] # m /\ Here(n, AnswerTo[m]) =>
            Before(history[n][AnswerTo[m]].at, history[n][m].at)

\* With nothing on its way both sides show the same reactions to a message,
\* in whatever order they came: unless one came before the message, was refused,
\* or was stamped by a clock that a restart had lost.
ReactionsAgree ==
    net = {} /\ restarts = 0 =>
        \A m \in Msgs \ missed :
            (\A n \in Sides : Here(n, m)) =>
                \A n, o, x \in Sides : signs[n][m][x].sign = signs[o][m][x].sign

\* messages.rs:326: the other side gets the text first and the edit next, so
\* that in the end both show the same words.
TextsAgree ==
    net = {} =>
        \A m \in Msgs : (\A n \in Sides : Here(n, m)) =>
            \A n, o \in Sides : history[n][m].text = history[o][m].text

\* Two sides whose system clocks differ by no more than the tolerance never
\* refuse each other's envelopes, whatever they heard of each other before.
NeighboursHeard ==
    stepped = 0 /\ (\A n, o \in Sides : phys[n] <= phys[o] + MaxSkew) =>
        \A f \in net : ~Refuses(phys[f.to], f.at)
=============================================================================
