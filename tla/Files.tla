------------------------------- MODULE Files -------------------------------
(***************************************************************************)
(* Files on their way over one rung.  The receiver asks, and asking again  *)
(* is the acknowledgement; the sender keeps a window ahead of what was     *)
(* asked for.  Both sides let only so many files on the rung at a time:    *)
(* the receiver by lanes and a queue by name, the sender by who asked      *)
(* last.  Nobody but the receiver has a timer, and only the marks of the   *)
(* chunks and their bytes survive a restart.                               *)
(*                                                                         *)
(* A transfer is a file on its way from one node to one other.             *)
(***************************************************************************)
EXTENDS Queues, FiniteSets, SequencesExt

CONSTANTS
    Transfers,
    Senders,
    Receivers,
    Content,       \* the files
    Shapes,        \* who sends what to whom: functions from Transfers
    Chunks,        \* chunk_total of each file
    Window,        \* chunk_window
    AckEvery,      \* ack_every
    Limit,         \* parallel_files of the rung
    Patience,      \* YIELD_AFTER_STALLS
    MaxMoves,      \* bound: what people do after an offer
    Mishaps        \* bound: restarts, links cut, frames lost or late

ASSUME FilesAssumption ==
    /\ Shapes \subseteq [Transfers -> [from : Senders, to : Receivers, file : Content]]
    /\ Senders \cap Receivers = {}
    /\ \A s \in Shapes : \A t, u \in Transfers : s[t].file = s[u].file => s[t].from = s[u].from
    /\ IsFiniteSet(Transfers) /\ IsFiniteSet(Senders)
    /\ Chunks \in Nat \ {0} /\ Window \in Nat \ {0} /\ AckEvery \in 1..Window
    /\ Limit \in Nat \ {0} /\ Patience \in Nat \ {0}
    /\ MaxMoves \in Nat /\ Mishaps \in Nat

VARIABLES
    shape,         \* one of Shapes
    bytes,         \* bytes[t]: the chunks the receiver's blob store has
    rx,            \* the receivers: rows and marks on disk, the rest in memory
    own,           \* own[f]: the sender's source: "whole", "torn" or "deleted"
    tx,            \* the senders, all in memory
    link,          \* link[s][r]: "up" (a session), "seen" (a road, no session), "gone"
    moves, mishaps

vars == <<shape, bytes, rx, own, tx, link, moves, mishaps>>

From(t) == shape[t].from
To(t) == shape[t].to
File(t) == shape[t].file
Index == 0..(Chunks - 1)

\* Road(l, t): file_route_of the other end, the links being l
Road(l, t) == l[From(t)][To(t)]

RxInit == [row |-> [t \in Transfers |-> "none"],
           noted |-> [t \in Transfers |-> {}],
           lane |-> {},                                  \* file_lane
           queued |-> [r \in Receivers |-> <<>>],        \* file_queued
           timers |-> {},                                \* file_timers
           tries |-> [t \in Transfers |-> 0],            \* file_attempts
           freed |-> {},                                 \* lanes_freed
           asks |-> {},                                  \* requests on their way
           half |-> {}]                                  \* history: bytes have gone, marks stayed

TxInit == [order |-> [s \in Senders |-> <<>>],           \* sending, by asked_seq
           acked |-> [t \in Transfers |-> 0],
           sent |-> [t \in Transfers |-> 0],
           waiting |-> {},                               \* sending_queued
           freed |-> {},                                 \* lanes_freed
           pieces |-> {}]                                \* chunks on their way

Init ==
    /\ shape \in Shapes
    /\ bytes = [t \in Transfers |-> {}]
    /\ rx = RxInit
    /\ own = [f \in Content |-> "whole"]
    /\ tx = TxInit
    /\ link = [s \in Senders |-> [r \in Receivers |-> "seen"]]
    /\ moves = 0 /\ mishaps = 0

-----------------------------------------------------------------------------
(* The receiver *)

\* Fault: the lane is left and nobody is told.
LeaveUnsaid(r, t) == [r EXCEPT !.lane = @ \ {t}]

\* leave_lane
Leave(r, t) ==
    IF t \in r.lane
    THEN [r EXCEPT !.lane = @ \ {t}, !.freed = @ \cup {To(t)}]
    ELSE r

Unqueued(r, t) == [r EXCEPT !.queued[To(t)] = Those(@, Transfers \ {t})]

\* Clears everything the memory holds of t.
Settled(r, t) ==
    Leave(Unqueued([r EXCEPT !.timers = @ \ {t}, !.tries[t] = 0], t), t)

\* finish_file
Finish(r, t) == Settled([r EXCEPT !.row[t] = "complete"], t)

OnLane(r, n) == {u \in r.lane : To(u) = n}

\* Fault: a file waiting in the queue counts as any other.
HasRoomBlindly(r, t) == Cardinality(OnLane(r, To(t))) < Limit

\* lane_has_room
HasRoom(r, t) == t \in r.lane \/ Cardinality(OnLane(r, To(t))) < Limit

\* hurry_lane_holders
Hurried(r, n) ==
    [r EXCEPT !.timers = @ \cup {u \in OnLane(r, n) : r.tries[u] > 0}]

\* enqueue_file
Enqueue(r, t) ==
    IF t \in ToSet(r.queued[To(t)]) THEN r
    ELSE [r EXCEPT !.queued[To(t)] = Append(@, t)]

NextMissing(r, t) == CHOOSE i \in Index \ r.noted[t] :
                         \A j \in Index \ r.noted[t] : i <= j

\* ask_for_file, with source_for: nobody to ask when there is no road at all.
Ask(l, r, t, stalled) ==
    CASE Road(l, t) = "gone" -> r
      [] Road(l, t) # "gone" /\ r.noted[t] = Index -> Finish(r, t)
      [] Road(l, t) = "seen" /\ r.noted[t] # Index -> Leave(r, t)
      [] Road(l, t) = "up" /\ r.noted[t] # Index /\ ~HasRoom(r, t) ->
             IF t \in ToSet(r.queued[To(t)]) THEN r
             ELSE Hurried(Enqueue(r, t), To(t))
      [] OTHER ->
             [Unqueued(r, t) EXCEPT
                 !.asks = @ \cup {[t |-> t, next |-> NextMissing(r, t), stalled |-> stalled]},
                 !.lane = @ \cup {t},
                 !.timers = @ \cup {t}]

\* What resume_files and wake_queued_files do for each file.
AskAgain(r, t, l) == IF r.row[t] = "accepted" THEN Ask(l, r, t, TRUE) ELSE r

\* wake_queued_files, the receiving half: at the end of every step of n
Wake(l, r, n) ==
    IF n \notin r.freed THEN r
    ELSE InTurn(AskAgain, [r EXCEPT !.freed = @ \ {n}, !.queued[n] = <<>>],
                r.queued[n], l)

\* resume_files
Resume(l, r, s, n) ==
    InTurn(AskAgain, r, SetToSeq({t \in Transfers : From(t) = s /\ To(t) = n}), l)

\* on_file_offer: over the session there is; small files are accepted at once.
Offer(t) ==
    /\ rx.row[t] = "none" /\ Road(link, t) = "up"
    /\ \/ rx' = [rx EXCEPT !.row[t] = "offered"]
       \/ rx' = Wake(link, Ask(link, [rx EXCEPT !.row[t] = "accepted"], t, TRUE), To(t))
    /\ UNCHANGED <<shape, bytes, own, tx, link, moves, mishaps>>

\* on_accept_file
Accept(t) ==
    /\ rx.row[t] \in {"offered", "accepted"}
    /\ moves < MaxMoves
    /\ rx' = Wake(link, Ask(link, [rx EXCEPT !.row[t] = "accepted"], t, TRUE), To(t))
    /\ moves' = moves + 1
    /\ UNCHANGED <<shape, bytes, own, tx, link, mishaps>>

\* on_pause_file
Pause(t) ==
    /\ rx.row[t] \in {"offered", "accepted"}
    /\ moves < MaxMoves
    /\ rx' = Wake(link, Settled([rx EXCEPT !.row[t] = "offered"], t), To(t))
    /\ moves' = moves + 1
    /\ UNCHANGED <<shape, bytes, own, tx, link, mishaps>>

\* on_decline_file, come to its end: bytes, row and with it the marks, nothing
\* of the memory.
Decline(t) ==
    /\ rx.row[t] \in {"offered", "accepted", "complete"}
    /\ moves < MaxMoves
    /\ bytes' = [bytes EXCEPT ![t] = {}]
    /\ rx' = [rx EXCEPT !.row[t] = "gone", !.noted[t] = {}]
    /\ moves' = moves + 1
    /\ UNCHANGED <<shape, own, tx, link, mishaps>>

\* forget_files and forget_file, come to their end: the message went.
Forget(t) ==
    /\ rx.row[t] \in {"offered", "accepted", "complete"}
    /\ moves < MaxMoves
    /\ bytes' = [bytes EXCEPT ![t] = {}]
    /\ rx' = Wake(link, Settled([rx EXCEPT !.row[t] = "gone", !.noted[t] = {}], t), To(t))
    /\ moves' = moves + 1
    /\ UNCHANGED <<shape, own, tx, link, mishaps>>

Fresh(p) == rx.row[p.t] = "accepted" /\ p.i \notin rx.noted[p.t]

Noted(r, p) == [r EXCEPT !.noted[p.t] = @ \cup {p.i}]

\* on_file_chunk, once the chunk is noted
Counted(l, r, t) ==
    CASE r.noted[t] = Index -> Finish(r, t)
      [] r.noted[t] # Index /\ Cardinality(r.noted[t]) % AckEvery = 0 ->
             Ask(l, [r EXCEPT !.tries[t] = 0], t, FALSE)
      [] OTHER -> [r EXCEPT !.tries[t] = 0, !.timers = @ \cup {t}]

OnChunk(p) ==
    /\ p \in tx.pieces
    /\ tx' = [tx EXCEPT !.pieces = @ \ {p}]
    /\ IF Fresh(p)
       THEN /\ bytes' = [bytes EXCEPT ![p.t] = @ \cup {p.i}]
            /\ rx' = Wake(link, Counted(link, Noted(rx, p), p.t), To(p.t))
       ELSE UNCHANGED <<bytes, rx>>
    /\ UNCHANGED <<shape, own, link, moves, mishaps>>

InFlight(t) == (\E q \in rx.asks : q.t = t) \/ (\E p \in tx.pieces : p.t = t)

\* on_file_stall: the second time in a row the lane goes to who waits.  The
\* timer is set to outlive what is on its way (stall_ms); that it does not
\* is a mishap.
OnStall(t) ==
    LET r == [rx EXCEPT !.timers = @ \ {t},
                        !.tries[t] = IF @ < Patience THEN @ + 1 ELSE @]
        early == IF InFlight(t) THEN 1 ELSE 0
    IN  /\ t \in rx.timers
        /\ mishaps + early <= Mishaps
        /\ mishaps' = mishaps + early
        /\ rx' = Wake(link,
               CASE rx.row[t] # "accepted" -> [rx EXCEPT !.timers = @ \ {t}]
                 [] rx.row[t] = "accepted" /\ r.tries[t] < Patience -> Ask(link, r, t, TRUE)
                 [] OTHER -> IF t \in r.lane THEN Enqueue(Leave(r, t), t) ELSE r,
               To(t))
        /\ UNCHANGED <<shape, bytes, own, tx, link, moves>>

-----------------------------------------------------------------------------
(* The sender *)

\* drop_sending
Dropped(x, gone) ==
    LET hit == {t \in gone : t \in ToSet(x.order[From(t)])}
    IN  [x EXCEPT
            !.order = [s \in Senders |-> Those(x.order[s], Transfers \ hit)],
            !.acked = [t \in Transfers |-> IF t \in hit THEN 0 ELSE @[t]],
            !.sent = [t \in Transfers |-> IF t \in hit THEN 0 ELSE @[t]],
            !.waiting = @ \ hit,
            !.freed = @ \cup {From(t) : t \in hit}]

Copies(f) == {t \in Transfers : File(t) = f}

\* sender_lane_has_room: who was asked for later goes first.
AskedLater(x, t) ==
    LET order == x.order[From(t)]
        at == CHOOSE k \in DOMAIN order : order[k] = t
    IN  {order[k] : k \in {j \in DOMAIN order : j > at}}

\* Fault: who was asked for first goes first.
HasTurnFirst(l, x, t) ==
    Road(l, t) = "up" =>
        LET order == x.order[From(t)]
            first == ToSet(order) \ (AskedLater(x, t) \cup {t})
        IN  Cardinality({u \in first : Road(l, u) = "up"}) < Limit

HasTurn(l, x, t) ==
    Road(l, t) = "up" =>
        Cardinality({u \in AskedLater(x, t) : Road(l, u) = "up"}) < Limit

\* What pump_file sends of t when it may.
Fed(x, t) ==
    LET until == IF x.acked[t] + Window < Chunks THEN x.acked[t] + Window ELSE Chunks
    IN  IF x.sent[t] >= until THEN x
        ELSE IF own[File(t)] # "whole" THEN Dropped(x, Copies(File(t)))
        ELSE [x EXCEPT !.sent[t] = until,
                       !.pieces = @ \cup {[t |-> t, i |-> i] :
                                          i \in x.sent[t]..(until - 1)}]

\* pump_file
Pump(l, x, t) ==
    IF t \notin ToSet(x.order[From(t)]) THEN x
    ELSE IF ~HasTurn(l, x, t) THEN [x EXCEPT !.waiting = @ \cup {t}]
    ELSE IF Road(l, t) # "up" THEN [x EXCEPT !.waiting = @ \ {t}]
    ELSE Fed([x EXCEPT !.waiting = @ \ {t}], t)

PumpAgain(x, t, l) == IF own[File(t)] = "deleted" THEN x ELSE Pump(l, x, t)

\* wake_queued_files, the sending half
Woken(x, s, l) ==
    IF s \notin x.freed THEN x
    ELSE LET mine == {t \in x.waiting : From(t) = s}
         IN  InTurn(PumpAgain, [x EXCEPT !.freed = @ \ {s}, !.waiting = @ \ mine],
                    SetToSeq(mine), l)

\* What on_file_request notes of the request q.
AskedFor(x, q) ==
    LET s == From(q.t)
        known == q.t \in ToSet(x.order[s])
    IN  [x EXCEPT
            !.order[s] = Append(Those(@, Transfers \ {q.t}), q.t),
            !.acked[q.t] = q.next,
            !.sent[q.t] = IF known /\ ~q.stalled /\ @ > q.next THEN @ ELSE q.next]

\* on_file_request
OnRequest(q) ==
    LET x == Pump(link, AskedFor(tx, q), q.t)
    IN  /\ q \in rx.asks
        /\ rx' = [rx EXCEPT !.asks = @ \ {q}]
        /\ tx' = IF own[File(q.t)] = "deleted" THEN tx ELSE Woken(x, From(q.t), link)
        /\ UNCHANGED <<shape, bytes, own, link, moves, mishaps>>

\* The file a person chose is no longer where it lay.
Tear(f) ==
    /\ own[f] = "whole" /\ moves < MaxMoves
    /\ own' = [own EXCEPT ![f] = "torn"]
    /\ moves' = moves + 1
    /\ UNCHANGED <<shape, bytes, rx, tx, link, mishaps>>

\* forget_file: the sender deleted the message.
Withdraw(f) ==
    LET x == Dropped(tx, Copies(f))
    IN  /\ own[f] # "deleted" /\ moves < MaxMoves
        /\ own' = [own EXCEPT ![f] = "deleted"]
        /\ tx' = InTurn(Woken, x, SetToSeq(Senders), link)
        /\ moves' = moves + 1
        /\ UNCHANGED <<shape, bytes, rx, link, mishaps>>

-----------------------------------------------------------------------------
(* The links, and what goes wrong *)

Cut(s, n, road) == [link EXCEPT ![s][n] = road]

\* What was on its way over the links that are not up is lost.
Carried(l, r) == [r EXCEPT !.asks = {q \in @ : Road(l, q.t) = "up"}]
Borne(l, x) == [x EXCEPT !.pieces = {p \in @ : Road(l, p.t) = "up"}]

\* A session is there, or a peer out of sight is seen again, with the session
\* of before or without: resume_files.
Connect(s, n, road) ==
    LET l == Cut(s, n, road)
    IN  /\ \/ link[s][n] # "up" /\ road = "up"
           \/ link[s][n] = "gone" /\ road = "seen"
        /\ \E t \in Transfers : From(t) = s /\ To(t) = n
        /\ link' = l
        /\ rx' = Wake(l, Resume(l, rx, s, n), n)
        /\ UNCHANGED <<shape, bytes, own, tx, moves, mishaps>>

\* The session is retired, or the peer goes out of sight.
Disconnect(s, n, road) ==
    LET l == Cut(s, n, road)
    IN  /\ mishaps < Mishaps
        /\ link[s][n] = "up" /\ road # "up"
        /\ link' = l /\ rx' = Carried(l, rx) /\ tx' = Borne(l, tx)
        /\ mishaps' = mishaps + 1
        /\ UNCHANGED <<shape, bytes, own, moves>>

Lose ==
    /\ mishaps < Mishaps
    /\ \/ \E q \in rx.asks : rx' = [rx EXCEPT !.asks = @ \ {q}] /\ UNCHANGED tx
       \/ \E p \in tx.pieces : tx' = [tx EXCEPT !.pieces = @ \ {p}] /\ UNCHANGED rx
    /\ mishaps' = mishaps + 1
    /\ UNCHANGED <<shape, bytes, own, link, moves>>

\* No session outlives a restart of either end.
NoSession(road) == IF road = "gone" THEN "gone" ELSE "seen"

NoMemory(r, n) ==
    LET mine == {t \in Transfers : To(t) = n}
    IN  [r EXCEPT !.lane = @ \ mine, !.queued[n] = <<>>, !.timers = @ \ mine,
                  !.tries = [t \in Transfers |-> IF t \in mine THEN 0 ELSE @[t]],
                  !.freed = @ \ {n}]

\* The receiver n dies and starts again.
Restarted(n, r) ==
    LET l == [s \in Senders |-> [link[s] EXCEPT ![n] = NoSession(@)]]
    IN  /\ mishaps < Mishaps
        /\ link' = l
        /\ rx' = Carried(l, NoMemory(r, n)) /\ tx' = Borne(l, tx)
        /\ mishaps' = mishaps + 1
        /\ UNCHANGED <<shape, own>>

Restart(n) == Restarted(n, rx) /\ UNCHANGED <<bytes, moves>>

\* Fault: the mark goes to disk before the bytes.
DieMarking(p) ==
    /\ p \in tx.pieces /\ Fresh(p)
    /\ Restarted(To(p.t), Noted(rx, p))
    /\ UNCHANGED <<bytes, moves>>

\* It dies in on_file_chunk: with the bytes only, or with the mark as well.
DieStoring(p) ==
    /\ p \in tx.pieces /\ Fresh(p)
    /\ bytes' = [bytes EXCEPT ![p.t] = @ \cup {p.i}]
    /\ \E r \in {rx, Noted(rx, p)} : Restarted(To(p.t), r)
    /\ UNCHANGED moves

\* on_decline_file takes the bytes first and the row last.  If removing them
\* fails on the way, or the process dies, the row stays, with its marks, beside
\* what is left of the bytes.  No later step repairs it.  (A contact deleted with
\* its history, contacts.rs, can end so too.)
HalfDeclined(t) ==
    /\ rx.row[t] \in {"offered", "accepted", "complete"}
    /\ moves < MaxMoves
    /\ \E left \in SUBSET bytes[t] \ {bytes[t]} : bytes' = [bytes EXCEPT ![t] = left]
    /\ moves' = moves + 1
    /\ LET r == [rx EXCEPT !.half = @ \cup {t}]
       IN  \/ Restarted(To(t), r)
           \/ /\ mishaps < Mishaps
              /\ rx' = r
              /\ mishaps' = mishaps + 1
              /\ UNCHANGED <<shape, own, tx, link>>

\* It dies in forget_file.  The file is no longer attached to any message, which
\* is all that offerer_of asks; row, marks and some bytes are still there.
DieForgetting(t) ==
    /\ rx.row[t] \in {"offered", "accepted", "complete"}
    /\ moves < MaxMoves
    /\ \E left \in SUBSET bytes[t] : bytes' = [bytes EXCEPT ![t] = left]
    /\ moves' = moves + 1
    /\ Restarted(To(t), [rx EXCEPT !.row[t] = "gone", !.half = @ \cup {t}])

Unattached(t) == rx.row[t] = "gone"

\* What sweep_orphan_files finds of t: a file attached to nothing, or bytes
\* without a mark.  It does not look for marks without bytes.
Stray(t) == (Unattached(t) /\ rx.noted[t] # {}) \/ bytes[t] \ rx.noted[t] # {}

Sweep(n) ==
    LET left == [t \in Transfers |->
                    IF Unattached(t) /\ To(t) = n THEN {} ELSE rx.noted[t]]
    IN  /\ \E t \in Transfers : To(t) = n /\ Stray(t)
        /\ rx' = [rx EXCEPT !.noted = left]
        /\ bytes' = [t \in Transfers |->
               IF To(t) = n THEN bytes[t] \cap left[t] ELSE bytes[t]]
        /\ UNCHANGED <<shape, own, tx, link, moves, mishaps>>

\* The sender s dies and starts again.
SenderRestart(s) ==
    LET l == [link EXCEPT ![s] = [n \in Receivers |-> NoSession(@[n])]]
        mine == {t \in Transfers : From(t) = s}
    IN  /\ mishaps < Mishaps
        /\ link' = l /\ rx' = Carried(l, rx)
        /\ tx' = [Borne(l, Dropped(tx, mine)) EXCEPT !.freed = @ \ {s}]
        /\ mishaps' = mishaps + 1
        /\ UNCHANGED <<shape, bytes, own, moves>>

-----------------------------------------------------------------------------
Person == \E t \in Transfers : Accept(t) \/ Pause(t) \/ Decline(t) \/ Forget(t)

Next ==
    \/ \E t \in Transfers : Offer(t) \/ OnStall(t)
    \/ Person
    \/ \E q \in rx.asks : OnRequest(q)
    \/ \E p \in tx.pieces : OnChunk(p) \/ DieStoring(p)
    \/ \E f \in Content : Tear(f) \/ Withdraw(f)
    \/ \E s \in Senders : SenderRestart(s)
    \/ \E n \in Receivers : Restart(n) \/ Sweep(n)
    \/ \E t \in Transfers : HalfDeclined(t) \/ DieForgetting(t)
    \/ \E s \in Senders, n \in Receivers :
           \/ \E road \in {"up", "seen"} : Connect(s, n, road)
           \/ \E road \in {"seen", "gone"} : Disconnect(s, n, road)
    \/ Lose

\* Frames that are not lost come, sessions are made while there is a need of
\* them, timers fire.
Fairness ==
    /\ \A t \in Transfers :
           /\ WF_vars(OnStall(t))
           /\ WF_vars(\E q \in rx.asks : q.t = t /\ OnRequest(q))
           /\ WF_vars(\E p \in tx.pieces : p.t = t /\ OnChunk(p))
    /\ \A s \in Senders, n \in Receivers : WF_vars(Connect(s, n, "up"))

Spec == Init /\ [][Next]_vars /\ Fairness

-----------------------------------------------------------------------------
(* Properties *)

Rows == {"none", "offered", "accepted", "complete", "gone"}

Receiving == [row : [Transfers -> Rows], noted : [Transfers -> SUBSET Index],
              lane : SUBSET Transfers, queued : [Receivers -> Seq(Transfers)],
              timers : SUBSET Transfers, tries : [Transfers -> 0..Patience],
              freed : SUBSET Receivers,
              asks : SUBSET [t : Transfers, next : Index, stalled : BOOLEAN],
              half : SUBSET Transfers]

Sending == [order : [Senders -> Seq(Transfers)], acked : [Transfers -> 0..Chunks],
            sent : [Transfers -> 0..Chunks], waiting : SUBSET Transfers,
            freed : SUBSET Senders, pieces : SUBSET [t : Transfers, i : Index]]

\* A request asks for a chunk the file has, a piece is one, and no counter
\* leaves its range.
TypeOK ==
    /\ shape \in Shapes
    /\ bytes \in [Transfers -> SUBSET Index]
    /\ rx \in Receiving /\ tx \in Sending
    /\ own \in [Content -> {"whole", "torn", "deleted"}]
    /\ link \in [Senders -> [Receivers -> {"up", "seen", "gone"}]]
    /\ moves \in 0..MaxMoves /\ mishaps \in 0..Mishaps

\* blobs.rs, note_chunk: bytes go to disk before the mark, lest a file be put
\* together from a chunk that is not there; one that counts as complete is there
\* to the last chunk, whenever the receiver died.  Going, they do not keep that
\* order: a file half declined, or half forgotten, has marks and no bytes.
MarkedIsThere ==
    \A t \in Transfers :
        /\ t \notin rx.half => rx.noted[t] \subseteq bytes[t]
        /\ rx.row[t] = "complete" => rx.noted[t] = Index

\* A lane kept for nobody: the file is declined, or the one who offered it
\* is out of sight and no timer is left.
Abandoned(u) ==
    /\ u \in rx.lane
    /\ rx.row[u] # "accepted" \/ (Road(link, u) = "gone" /\ u \notin rx.timers)

\* leave_lane, wake_queued_files: whoever waits in the queue of node n waits
\* for a file that holds a lane and has a timer: not for each other, and not
\* for a lane nobody holds.
WaitersHaveAWaker ==
    \A n \in Receivers :
        rx.queued[n] # <<>> =>
            /\ Cardinality(OnLane(rx, n)) >= Limit
            /\ \E u \in OnLane(rx, n) : u \in rx.timers \/ Abandoned(u)

\* ask_for_file: an accepted file whose sender has a session either holds a
\* lane, and a timer with it, or is in the queue once: never both, and never
\* neither of them.
TendedOnce ==
    \A t \in Transfers :
        LET places == Cardinality({k \in DOMAIN rx.queued[To(t)] : rx.queued[To(t)][k] = t})
        IN  rx.row[t] = "accepted" /\ Road(link, t) = "up" =>
                IF t \in rx.lane THEN places = 0 /\ t \in rx.timers ELSE places = 1

\* leave_lane's comment: one place for every way a transfer ends, collected,
\* declined, paused or deleted, lest a lane be taken for ever by a file that
\* is no more.  on_decline_file does not go there.
NoLaneForTheGone == \A u \in rx.lane : rx.row[u] = "accepted"

\* pump_file's comment: the receivers' limits do not hold the sender, who may
\* be asked by many at once; its own limit does.  It never refuses: whoever
\* asks is the one asked for last, and goes.
SenderKeepsTheLimit ==
    \A s \in Senders :
        Cardinality({t \in Transfers : From(t) = s /\ \E p \in tx.pieces : p.t = t}) <= Limit

\* The comments of on_file_stall and sender_lane_has_room: the two limits
\* never keep everybody waiting.  An accepted file is got in the end, unless
\* someone puts it off, its source is gone, or the lane is kept for nobody.
Arrives ==
    \A t \in Transfers :
        rx.row[t] = "accepted" ~>
            \/ rx.row[t] # "accepted"
            \/ own[File(t)] # "whole"
            \/ \E u \in OnLane(rx, To(t)) : Abandoned(u)
=============================================================================
