------------------------------ MODULE Delivery ------------------------------
(***************************************************************************)
(* How one engine gets its messages to one peer: the outbox, the messages  *)
(* put off, the outgoing handshake, the schedule of retries, and what of   *)
(* this survives a restart.  The peer and the network are the environment: *)
(* they answer, fail, appear and vanish in any order.                      *)
(*                                                                         *)
(* Timer tokens and handoff labels are unique, and a stale one finds no    *)
(* owner; so a token is not modelled, only its present owner.              *)
(***************************************************************************)
EXTENDS TransportLadder, FiniteSets

CONSTANTS
    Msgs,          \* messages the user sends to the peer
    Silent,        \* those that carry neither receipt nor status (group copies)
    Carried,       \* rungs this build and this peer's card know; "bt", whose
                   \* presence works as the LAN's, is left out
    MaxDeferred,   \* MAX_DEFERRED
    RetrySteps,    \* steps in the schedule of retries
    Budget,        \* bound: how often the environment may meddle
    TornSteps,     \* TRUE: the process may die inside send_own_text
    Deletes        \* TRUE: the user may delete the contact and add it again

NoMsg == "none"

ASSUME DeliveryAssumption ==
    /\ Silent \subseteq Msgs /\ NoMsg \notin Msgs
    /\ Carried \subseteq Rungs \ {"bt"}
    /\ MaxDeferred \in Nat \ {0}
    /\ RetrySteps \in Nat
    /\ Budget \in Nat
    /\ TornSteps \in BOOLEAN
    /\ Deletes \in BOOLEAN

NoHs == [live |-> FALSE, tried |-> <<>>, fin |-> FALSE, fam |-> NoRung,
         timer |-> FALSE, redial |-> FALSE, on |-> {}]

VARIABLES
    near,      \* availability.seen_on_lan
    ready,     \* rungs that have reported ready (LAN always is)
    sess,      \* families with a session that sends
    sessRows,  \* families with a session row on disk
    hs,        \* the OutgoingHandshake to the peer, or NoHs
    box,       \* outbox: deliveries under way, in order
    def,       \* deferred: deliveries put off, in order
    awaited,   \* awaited_discovery holds the peer
    retry,     \* retry_timers and retry_step of the peer
    rows,      \* outbox rows on disk, in the order of queued_ms
    status,    \* status of each message in the history
    torn,      \* a message in the history whose enqueue has not run yet
    known,     \* the peer is in contacts
    left,      \* history: messages some frame of which left on a direct rung
    dropped,   \* history: messages under way when the contact was deleted
    meddled    \* bound: environment events so far

vars == <<near, ready, sess, sessRows, hs, box, def, awaited, retry, rows,
          status, torn, known, left, dropped, meddled>>

\* A handler maps one engine to another; the record holds what it may touch.
Engine == [near |-> near, ready |-> ready, sess |-> sess, sessRows |-> sessRows,
           hs |-> hs, box |-> box, def |-> def, awaited |-> awaited,
           retry |-> retry, rows |-> rows, status |-> status, left |-> left]

Becomes(e) ==
    /\ near' = e.near /\ ready' = e.ready /\ sess' = e.sess
    /\ sessRows' = e.sessRows /\ hs' = e.hs /\ box' = e.box /\ def' = e.def
    /\ awaited' = e.awaited /\ retry' = e.retry /\ rows' = e.rows
    /\ status' = e.status /\ left' = e.left

Usable(e) == (IF e.near THEN {"lan"} ELSE {}) \cup e.ready

Fresh(m) == [id |-> m, tried |-> <<>>, fin |-> FALSE, st |-> "session",
             via |-> NoRung, reset |-> FALSE, redial |-> FALSE]

Att(d)       == [tried |-> d.tried, fin |-> d.fin]
WithAtt(d, a) == [d EXCEPT !.tried = a.tried, !.fin = a.fin]
Ids(q)       == {q[i].id : i \in DOMAIN q}
Without(q, m) == Those(q, {d \in ToSet(q) : d.id # m})

-----------------------------------------------------------------------------
(* Statuses and the queue on disk.                                          *)

Rank == [Undeliverable |-> 0, Pending |-> 1, Waiting |-> 2, Sent |-> 3,
         Delivered |-> 4, Read |-> 5]

\* receipts::advance: up, except that Undeliverable covers what is no success.
Advanced(now, target) ==
    IF target = "Undeliverable"
    THEN IF now \in {"Pending", "Waiting"} THEN target ELSE now
    ELSE IF Rank[target] > Rank[now] THEN target ELSE now

\* note_status_of: a silent copy never has a status.
Noted(e, m, target) ==
    IF m \in Silent \/ e.status[m] = NoMsg THEN e
    ELSE [e EXCEPT !.status[m] = Advanced(@, target)]

\* persist_delivery: INSERT OR REPLACE keeps the row's place, queued_ms is old.
Persisted(e, m) == IF m \in ToSet(e.rows) THEN e ELSE [e EXCEPT !.rows = Append(@, m)]
Erased(e, m)    == [e EXCEPT !.rows = Those(@, Msgs \ {m})]

\* retire_delivery
Retired(e, m) == Erased([e EXCEPT !.def = Without(@, m)], m)

\* arm_retry and schedule_retry: one timer for the peer, none past the schedule.
RetryArmed(e) ==
    IF e.retry.armed \/ e.retry.step >= RetrySteps THEN e
    ELSE [e EXCEPT !.retry = [armed |-> TRUE, step |-> @.step + 1]]

-----------------------------------------------------------------------------
(* One delivery: from the choice of a rung to a frame, a wait or a verdict.  *)

\* arm_send and the effects around it: the frame leaves and a timer is armed.
SentOn(e, d, t) ==
    <<IF Direct(t) THEN [e EXCEPT !.left = @ \cup {d.id}] ELSE e,
      [d EXCEPT !.st = "flight", !.via = t]>>

HsAtt(h) == [tried |-> h.tried, fin |-> h.fin]
ByLetter(h) == Current(HsAtt(h)) \in {"nostr", "mail"}

\* begin_handshake: a new key for the family of the rung.
HandshakeBegun(e, t) ==
    [e EXCEPT !.hs = [live |-> TRUE, tried |-> WalkedTo(NewAttempt, Usable(e), t).tried,
                      fin |-> FALSE, fam |-> Family(t), timer |-> TRUE,
                      redial |-> FALSE, on |-> {t}]]

\* ensure_handshake: begin, follow the one under way, or repeat a spent one
\* (the same frame within its family, a new key outside it).
HandshakeEnsured(e, t) ==
    IF ~e.hs.live THEN <<HandshakeBegun(e, t), t>>
    ELSE IF ~e.hs.fin THEN <<e, IF e.hs.tried = <<>> THEN t ELSE Last(e.hs.tried)>>
    ELSE <<[e EXCEPT !.hs = [e.hs EXCEPT
              !.tried = WalkedTo(NewAttempt, Usable(e), t).tried,
              !.fin = FALSE, !.timer = TRUE, !.fam = Family(t),
              !.on = IF Family(t) = e.hs.fam THEN @ \cup {t} ELSE {t}]], t>>

\* The oldest silent copy gives way first, else the oldest message; the
\* promise to it is taken back.
Evicted(e) ==
    IF Len(e.def) < MaxDeferred THEN e
    ELSE LET quiet == Those(e.def, {d \in ToSet(e.def) : d.id \in Silent})
             out   == IF quiet = <<>> THEN e.def[1].id ELSE quiet[1].id
         IN  Noted(Erased([e EXCEPT !.def = Without(@, out)], out), out, "Undeliverable")

\* Fault: what is put off is not written to disk.
RememberedInMemory(e, d) ==
    IF d.id \in Ids(e.def) THEN e
    ELSE [Erased(Evicted(e), d.id) EXCEPT !.def =
            Append(@, [Fresh(d.id) EXCEPT !.redial = d.redial])]

\* remember_undelivered.  Some rung may open (LAN is enabled), so a known
\* peer is always worth waiting for.
Remembered(e, d) ==
    IF d.id \in Ids(e.def) THEN e
    ELSE [Persisted(Evicted(e), d.id) EXCEPT !.def =
            Append(@, [Fresh(d.id) EXCEPT !.redial = d.redial])]

\* park_for_discovery: one pause for the peer in a run.
Parks(e, d) == "lan" \in Carried /\ d.tried = <<>> /\ ~e.near /\ ~e.awaited

\* The ladder has ended: the message is put off and shown as waiting.
OutOfRungs(e, d) == Noted(RetryArmed(Remembered(e, d)), d.id, "Waiting")

\* The wait for a session, on the rung where its handshake stands.
Waits(e, d, a, h) ==
    LET w == IF h[2] = Current(a) THEN a ELSE WalkedTo(a, Usable(e), h[2])
    IN  <<h[1], [WithAtt(d, w) EXCEPT !.st = "session"]>>

\* The attempt has come to its end, or to a rung.
Goes(e, d, a) ==
    IF a.fin THEN <<OutOfRungs(e, d), [d EXCEPT !.fin = TRUE]>>
    ELSE IF Family(Current(a)) \in e.sess THEN SentOn(e, WithAtt(d, a), Current(a))
    ELSE Waits(e, d, a, HandshakeEnsured(e, Current(a)))

\* advance: the pause for discovery, or the next rung.
Advance(e, d) ==
    IF Parks(e, d)
    THEN <<[e EXCEPT !.awaited = TRUE], [d EXCEPT !.st = "discovery"]>>
    ELSE Goes(e, d, Step(Att(d), Usable(e)))

\* resend_current: by the rung the attempt stands on, once a session is there.
Resent(e, d) ==
    IF d.tried = <<>> THEN Advance(e, d)
    ELSE IF Family(Last(d.tried)) \in e.sess THEN SentOn(e, d, Last(d.tried))
    ELSE <<e, d>>

-----------------------------------------------------------------------------
(* Passes over the queues.                                                  *)

\* The handshake goes by its attempt: to the end, or to the next rung.
HandshakeMoved(e, a, drop) ==
    LET h    == [e.hs EXCEPT !.redial = @ \/ drop, !.tried = a.tried, !.fin = a.fin]
        next == Current(a)
    IN  IF a.fin THEN <<[e EXCEPT !.hs = h], "Exhausted">>
        ELSE <<[e EXCEPT !.hs = [h EXCEPT !.timer = TRUE, !.fam = Family(next),
                  !.on = IF Family(next) = e.hs.fam THEN @ \cup {next} ELSE {next}]],
               next>>

\* retry_handshake: the outcome is Absent, Exhausted or the new rung.
HandshakeRetried(e, via, why) ==
    LET drop == why = "dropped" /\ Direct(via) /\ ~e.hs.redial
        a    == IF drop THEN Forgotten(HsAtt(e.hs), via) ELSE HsAtt(e.hs)
    IN  IF ~e.hs.live \/ HsAtt(e.hs).tried = <<>> \/ Last(e.hs.tried) # via
        THEN <<e, "Absent">>
        ELSE HandshakeMoved(e, Step(a, Usable(e)), drop)

\* A delivery waiting for the session follows its handshake to the new rung.
Followed(e, d, via, step) ==
    IF step \in Rungs /\ d.st = "session" /\ Current(Att(d)) = via
    THEN WithAtt(d, WalkedTo(Att(d), Usable(e), step)) ELSE d

\* Fault: only what was in flight on the rung learns of its failure.
HitInFlight(d, via, step) == d.st = "flight" /\ d.via = via

\* Whom the failure concerns: what was in flight there, and, once the
\* handshake has nowhere to go, whatever waits for its session.
Hit(d, via, step) ==
    \/ d.st = "flight" /\ d.via = via
    \/ d.st = "session" /\ step = "Exhausted"

\* The old session was no good: once, the ladder is walked anew.
Reset(d, stale) ==
    IF stale /\ ~d.reset
    THEN [d EXCEPT !.reset = TRUE, !.tried = <<>>, !.st = "session"] ELSE d

\* A direct link broke: once, its rung is tried again.
Redialled(d, via, why) ==
    IF why = "dropped" /\ Direct(via) /\ ~d.redial
    THEN [WithAtt(d, Forgotten(Att(d), via)) EXCEPT !.redial = TRUE, !.st = "session"] ELSE d

\* What a pass does to a delivery of the outbox, by what it is about: a session
\* that came, a pause that ended, a retry, or p.via that failed for p.why.
Again(e, d, p) ==
    CASE p.about = "session" ->
            IF d.st = "session" THEN Resent(e, d) ELSE <<e, d>>
      [] p.about = "discovery" ->
            IF d.st = "discovery" THEN Advance(e, [d EXCEPT !.st = "session"]) ELSE <<e, d>>
      [] p.about = "retry" ->
            IF d.st = "session" THEN Advance(e, WithAtt(d, NewAttempt)) ELSE <<e, d>>
      [] p.about = "failure" ->
            LET f == Followed(e, d, p.via, p.step)
            IN  IF Hit(f, p.via, p.step)
                THEN Advance(e, Redialled(Reset(f, p.stale), p.via, p.why)) ELSE <<e, f>>

\* A delivery whose attempt is closed does not go back to the outbox.
PutBack(r) == IF r[2].fin THEN r[1] ELSE [r[1] EXCEPT !.box = Append(@, r[2])]

\* Fault: a delivery in flight is not written, as it once was not.
EnqueuedInMemory(e, d) == PutBack(Advance(e, d))

\* enqueue: the first attempt, then the row, then the outbox.
Enqueued(e, d) ==
    LET kept(r) == IF r[2].fin THEN r[1]
                   ELSE [Persisted(r[1], d.id) EXCEPT !.box = Append(@, r[2])]
    IN  kept(Advance(e, d))

OnePassed(e, d, p) ==
    IF p.about = "deferred" THEN Enqueued(e, d) ELSE PutBack(Again(e, d, p))

\* The deliveries of a queue taken one after the other.
Passed(e, q, p) == InTurn(OnePassed, e, q, p)

OverBox(e, p) == Passed([e EXCEPT !.box = <<>>], e.box, p)

\* flush_outbox, resume_discovery, retry_deferred
Flushed(e) == OverBox(e, [about |-> "session"])
Resumed(e) == OverBox(e, [about |-> "discovery"])
Retried(e) == Passed([e EXCEPT !.def = <<>>], e.def, [about |-> "deferred"])

\* on_delivery_failed: why is "dropped", "unreachable" or "silent".
Failed(e, via, why) ==
    LET stale == why = "silent" /\ Direct(via) /\ Family(via) \in e.sess
        e1 == [e EXCEPT !.sess = IF stale THEN @ \ {Family(via)} ELSE @,
                        !.near = @ /\ ~(why = "unreachable" /\ via = "lan")]
        told(h) == OverBox(h[1], [about |-> "failure", via |-> via, why |-> why,
                                  stale |-> stale, step |-> h[2]])
    IN  told(HandshakeRetried(e1, via, why))

-----------------------------------------------------------------------------
(* The engine's inputs.  One input is one step: the engine has one thread.   *)

Init ==
    /\ near = FALSE /\ ready = {} /\ sess = {} /\ sessRows = {}
    /\ hs = NoHs /\ box = <<>> /\ def = <<>> /\ awaited = FALSE
    /\ retry = [armed |-> FALSE, step |-> 0]
    /\ rows = <<>>
    /\ status = [m \in Msgs |-> NoMsg]
    /\ torn = NoMsg /\ known = TRUE /\ left = {} /\ dropped = {} /\ meddled = 0

Quiet   == torn = NoMsg /\ known
Handles(e) == Quiet /\ Becomes(e) /\ UNCHANGED <<torn, known, dropped>>
Meddles == meddled < Budget /\ meddled' = meddled + 1

\* send_own_text, first half: the message enters the history.  A group copy
\* has no status of its own.
Write(m) ==
    /\ Quiet
    /\ status[m] = NoMsg /\ m \notin Ids(box) \cup Ids(def) \cup ToSet(rows) \cup left
    /\ torn' = m
    /\ status' = IF m \in Silent THEN status ELSE [status EXCEPT ![m] = "Pending"]
    /\ UNCHANGED <<near, ready, sess, sessRows, hs, box, def, awaited, retry, rows, known,
                   left, dropped, meddled>>

\* send_own_text, second half.
Enqueue ==
    /\ torn # NoMsg
    /\ torn' = NoMsg
    /\ Becomes(Enqueued(Engine, Fresh(torn)))
    /\ UNCHANGED <<known, dropped, meddled>>

\* note_presence: only LAN remembers that it heard the peer.
Present(e, via) ==
    IF via # "lan" THEN e
    ELSE LET e1 == [e EXCEPT !.near = TRUE] IN
         IF ~e.near \/ e.def # <<>> THEN Retried(Resumed(e1)) ELSE e1

\* on_timer, a handshake's: nobody answered, or the server took no letter.
\* A handshake that has forgotten its only rung owns no timer: nothing happens.
HandshakeTimer ==
    /\ hs.live /\ hs.timer
    /\ LET e == [Engine EXCEPT !.hs.timer = FALSE] IN
       Handles(IF hs.tried = <<>> THEN e ELSE Failed(e, Last(hs.tried), "silent"))
    /\ UNCHANGED meddled

\* on_timer, a delivery's: silence ends a silent copy well on a direct rung,
\* and is a failure otherwise.
DeliveryTimer(i) ==
    /\ box[i].st = "flight"
    /\ IF Direct(box[i].via) /\ box[i].id \in Silent
       THEN Handles(Retired([Engine EXCEPT !.box = Without(@, box[i].id)], box[i].id))
       ELSE Handles(Failed(Engine, box[i].via, "silent"))
    /\ UNCHANGED meddled

\* on_timer, the pause for discovery is over.
DiscoveryTimer ==
    /\ \E i \in DOMAIN box : box[i].st = "discovery"
    /\ Handles(Resumed(Engine))
    /\ UNCHANGED meddled

\* on_retry_timer: what was put off, then what waits for a session.
RetryTimer ==
    /\ retry.armed
    /\ LET e1 == Retried([Engine EXCEPT !.retry.armed = FALSE])
           armed(f) == IF \E i \in DOMAIN f.box : f.box[i].st = "session"
                       THEN RetryArmed(f) ELSE f
       IN  Handles(armed(OverBox(e1, [about |-> "retry"])))
    /\ UNCHANGED meddled

\* on_handed: the server took the letter of the handshake, or of a message.
HandshakeHanded ==
    /\ hs.live /\ hs.timer /\ ByLetter(hs)
    /\ Handles([Engine EXCEPT !.hs.timer = FALSE])
    /\ UNCHANGED meddled

DeliveryHanded(i) ==
    /\ box[i].st = "flight" /\ ~Direct(box[i].via)
    /\ LET m == box[i].id IN
       Handles(Retired(Noted([Engine EXCEPT !.box = Without(@, m)], m, "Sent"), m))
    /\ UNCHANGED meddled

-----------------------------------------------------------------------------
(* What the peer and the network do to the engine.                          *)

Admitted(e, via) ==
    [e EXCEPT !.sess = @ \cup {Family(via)}, !.sessRows = @ \cup {Family(via)}]

\* on_handshake_response, for the key of the handshake under way.
HandshakeResponse(via) ==
    /\ hs.live /\ via \in hs.on
    /\ Handles(Retried(Flushed(Present(Admitted([Engine EXCEPT !.hs = NoHs], via), via))))
    /\ UNCHANGED meddled

\* on_handshake_first: the peer calls.  The outbox is left alone.
HandshakeFirst(via) ==
    /\ Meddles
    /\ Handles(Retried(Present(Admitted(Engine, via), via)))

\* on_data, any frame: the peer is there, so what was put off gets a try.
Heeded(e, via) ==
    LET tried(f) == IF via # "lan" /\ f.def # <<>> THEN Retried(f) ELSE f
    IN  tried(Present(e, via))

Frame(via) ==
    /\ Family(via) \in sessRows
    /\ Meddles
    /\ Handles(Heeded(Engine, via))

\* on_data, a receipt on a direct rung for a message the peer may have.
Receipt(m, via, seen) ==
    /\ Direct(via) /\ Family(via) \in sessRows
    /\ m \in left \ Silent
    /\ Meddles
    /\ LET e1 == Retired(Noted(Heeded(Engine, via), m, seen), m) IN
       Handles([e1 EXCEPT !.box = Without(@, m)])

\* note_heard: a beacon.
Heard ==
    /\ "lan" \in Carried
    /\ Meddles
    /\ LET tried(f) == IF ~near \/ f.def # <<>> THEN Retried(f) ELSE f
       IN  Handles(tried(Resumed([Engine EXCEPT !.near = TRUE, !.retry.step = 0])))

\* forget_stale_presence
PresenceLost ==
    /\ near
    /\ Meddles
    /\ Handles([Engine EXCEPT !.near = FALSE])

\* on_transport_ready
TransportReady(t) ==
    /\ t \notin ready \cup {"lan"}
    /\ Meddles
    /\ Handles(Retried([Engine EXCEPT !.ready = @ \cup {t}]))

\* on_transport_lost, then release_from.
TransportLost(t) ==
    /\ t \in ready
    /\ Meddles
    /\ LET e1 == [Engine EXCEPT !.ready = @ \ {t}]
           bound == \/ \E i \in DOMAIN box : box[i].st = "flight" /\ box[i].via = t
                    \/ hs.live /\ Current(HsAtt(hs)) = t
       IN  Handles(IF bound THEN Failed(e1, t, "unreachable") ELSE e1)

\* on_network_changed
NetworkChanged ==
    /\ Meddles
    /\ Handles(Retried([Engine EXCEPT !.near = FALSE, !.awaited = FALSE]))

\* on_link_down: a connection broke, or could not be made.
LinkDown(via, why) ==
    /\ Meddles
    /\ Handles(Failed(Engine, via, why))

\* on_delete_contact: queues and sessions go, but of the rows only those of
\* the messages put off.
DeleteContact ==
    /\ Deletes /\ Quiet
    /\ known' = FALSE
    /\ dropped' = dropped \cup Ids(box) \cup Ids(def)
    /\ Becomes([Engine EXCEPT !.near = FALSE, !.sess = {}, !.sessRows = {}, !.hs = NoHs,
                    !.box = <<>>, !.def = <<>>, !.awaited = FALSE,
                    !.rows = Those(@, Msgs \ Ids(def))])
    /\ UNCHANGED <<torn, meddled>>

\* add_contact
AddContact ==
    /\ ~known
    /\ known' = TRUE
    /\ UNCHANGED <<near, ready, sess, sessRows, hs, box, def, awaited, retry, rows, status,
                   torn, left, dropped, meddled>>

\* The process dies and comes back: restore, then startup_effects.
Restart ==
    /\ torn # NoMsg => TornSteps
    /\ Meddles
    /\ torn' = NoMsg
    /\ LET kept == IF known THEN rows ELSE <<>>
           e == [Engine EXCEPT !.near = FALSE, !.ready = {}, !.sess = sessRows, !.hs = NoHs,
                    !.box = <<>>, !.def = [i \in DOMAIN kept |-> Fresh(kept[i])],
                    !.awaited = FALSE, !.retry = [armed |-> FALSE, step |-> 0],
                    !.rows = kept]
       IN  Becomes(Retried(e))
    /\ UNCHANGED <<known, dropped>>

Answers == \E via \in Carried : HandshakeResponse(via)
Timers ==
    \/ HandshakeTimer
    \/ \E i \in DOMAIN box : DeliveryTimer(i)
    \/ DiscoveryTimer
    \/ RetryTimer

Next ==
    \/ \E m \in Msgs : Write(m)
    \/ Enqueue
    \/ Timers
    \/ HandshakeHanded
    \/ \E i \in DOMAIN box : DeliveryHanded(i)
    \/ Answers
    \/ \E via \in Carried : HandshakeFirst(via) \/ Frame(via)
    \/ \E m \in Msgs, via \in Carried, seen \in {"Delivered", "Read"} : Receipt(m, via, seen)
    \/ Heard \/ PresenceLost \/ NetworkChanged
    \/ \E t \in Carried : TransportReady(t) \/ TransportLost(t)
    \/ \E via \in Carried, why \in {"dropped", "unreachable"} : LinkDown(via, why)
    \/ DeleteContact \/ AddContact
    \/ Restart

Spec == Init /\ [][Next]_vars

\* A step once begun goes on to its end, and a timer that stays armed fires,
\* each delivery's own.  This is weak fairness with the guard of the timer in
\* place of ENABLED, which is too dear for TLC here.
FairSpec ==
    /\ Spec
    /\ WF_vars(Enqueue)
    /\ []<>~(hs.live /\ hs.timer) \/ []<><<HandshakeTimer>>_vars
    /\ \A m \in Msgs :
          \/ []<>~(\E i \in DOMAIN box : box[i].id = m /\ box[i].st = "flight")
          \/ []<><<\E i \in DOMAIN box : box[i].id = m /\ DeliveryTimer(i)>>_vars
    /\ []<>~(\E i \in DOMAIN box : box[i].st = "discovery") \/ []<><<DiscoveryTimer>>_vars
    /\ []<>~retry.armed \/ []<><<RetryTimer>>_vars

-----------------------------------------------------------------------------
(* Properties.                                                              *)

Queued == Ids(box) \cup Ids(def)

Families == {Family(t) : t \in Rungs}

DeliveryRecords ==
    [id : Msgs, tried : Seq(Rungs), fin : BOOLEAN, st : {"session", "flight", "discovery"},
     via : Rungs \cup {NoRung}, reset : BOOLEAN, redial : BOOLEAN]

Handshakes ==
    [live : BOOLEAN, tried : Seq(Rungs), fin : BOOLEAN, fam : Families \cup {NoRung},
     timer : BOOLEAN, redial : BOOLEAN, on : SUBSET Rungs]

Engines ==
    [near : BOOLEAN, ready : SUBSET Rungs, sess : SUBSET Families, sessRows : SUBSET Families,
     hs : Handshakes, box : Seq(DeliveryRecords), def : Seq(DeliveryRecords),
     awaited : BOOLEAN, retry : [armed : BOOLEAN, step : 0..RetrySteps], rows : Seq(Msgs),
     status : [Msgs -> {NoMsg} \cup DOMAIN Rank], left : SUBSET Msgs]

\* Types; and no session sends that is not on disk.
TypeOK ==
    /\ Engine \in Engines /\ sess \subseteq sessRows
    /\ known \in BOOLEAN /\ torn \in Msgs \cup {NoMsg}
    /\ dropped \subseteq Msgs /\ meddled \in 0..Budget

\* "Pending" and "Waiting" are promises: the engine still holds the message,
\* and so does the disk, whatever failed, was evicted or restarted.
PromiseKept ==
    \A m \in Msgs \ (Silent \cup dropped) :
        status[m] \in {"Pending", "Waiting"} /\ torn # m =>
            m \in Queued /\ m \in ToSet(rows)

\* Every row of the outbox table belongs to one delivery in memory and back: no
\* message comes back from the dead, none is lost by a restart, none is queued
\* twice, in whatever order passes move it between the two queues.
RowsOwned ==
    /\ torn = NoMsg => ToSet(rows) \ dropped = Queued \ dropped
    /\ Len(box) + Len(def) = Cardinality(Queued)

\* Deleting the contact clears its queue on disk too: nothing of it is left
\* for a restart to send.
DeletedLeavesNoRow == ~known => rows = <<>>

\* The first step of the handshake is a letter the server holds: its answer
\* may take days, and nothing but the peer can end the wait.
LetterAway == hs.live /\ "mail" \in hs.on /\ ~hs.timer

\* With timers that fire, no message stays "Pending" for ever, unless it waits
\* for the answer to a letter.
PendingResolves ==
    \A m \in Msgs \ Silent :
        status[m] = "Pending" ~> status[m] # "Pending" \/ LetterAway
=============================================================================
