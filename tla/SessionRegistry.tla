--------------------------- MODULE SessionRegistry ---------------------------
(***************************************************************************)
(* The sessions one engine holds: which of them may send, which only       *)
(* listen, which are on disk, and what a restart makes of the rows.        *)
(*                                                                         *)
(* A session is an identifier with a fixed peer and a fixed family of      *)
(* transports; identifiers are random and never come twice.  A peer and a  *)
(* family make a slot: SessionRegistry::insert keeps one sender and one    *)
(* listener in it.  One step of the engine is several calls to the store   *)
(* and then its frames; the process may die between any two of them, so    *)
(* the calls still owed are a variable of their own.                       *)
(***************************************************************************)
EXTENDS Naturals, FiniteSets

CONSTANTS
    Sessions,      \* session identifiers
    Peers,         \* contacts and paired devices
    Families,      \* SessionBinding: Lan, Bluetooth, Ygg, Tor
    Devices,       \* paired devices: their sessions never reach the disk
    PeerOf,        \* the peer of each session
    FamilyOf,      \* the family of each session
    NoSession,     \* "no row is owed to the disk"
    MaxCtr,        \* bound: frames sealed in one session
    MaxPieces,     \* bound: frames one envelope is cut into
    MaxClock       \* bound: readings of the wall clock, which may repeat and go back

ASSUME SessionsAssumption ==
    /\ Devices \subseteq Peers
    /\ PeerOf \in [Sessions -> Peers]
    /\ FamilyOf \in [Sessions -> Families]
    /\ NoSession \notin Sessions
    /\ IsFiniteSet(Sessions)
    /\ MaxClock \in Nat
    /\ MaxCtr \in Nat
    /\ MaxPieces \in Nat

VARIABLES
    up,      \* the process runs
    mode,    \* by_id in memory: "sending", "retired", or "none" when absent
    ctr,     \* send counter of the chain held in memory
    est,     \* established_ms, part of the snapshot
    birth,   \* history: the order of the handshakes of a slot, 0 for an unused id
    rows,    \* session rows on disk
    rowCtr,  \* send counter inside each row
    todo,    \* what the running step still owes: deletes, then a put, then frames
    sent     \* history: counters that reached the network

vars == <<up, mode, ctr, est, birth, rows, rowCtr, todo, sent>>

Modes == {"none", "sending", "retired"}
Idle  == [del |-> {}, put |-> NoSession, send |-> {}]

SameSlot(s, t) == PeerOf[s] = PeerOf[t] /\ FamilyOf[s] = FamilyOf[t]
Stored(s)      == PeerOf[s] \notin Devices
Live           == {s \in Sessions : mode[s] # "none"}
Met(s)         == {t \in Sessions : SameSlot(s, t) /\ birth[t] # 0}

TypeOK ==
    /\ up \in BOOLEAN
    /\ mode \in [Sessions -> Modes]
    /\ ctr \in [Sessions -> Nat]
    /\ est \in [Sessions -> Nat]
    /\ birth \in [Sessions -> Nat]
    /\ rows \in SUBSET Sessions
    /\ rowCtr \in [Sessions -> Nat]
    /\ todo \in [del : SUBSET Sessions, put : Sessions \cup {NoSession},
                 send : SUBSET (Sessions \X Nat)]
    /\ sent \in [Sessions -> SUBSET Nat]

\* The program starts on an empty base, or on one where an earlier build
\* left any number of rows of a slot.
Init ==
    /\ up = FALSE
    /\ mode = [s \in Sessions |-> "none"]
    /\ ctr = [s \in Sessions |-> 0]
    /\ birth \in [Sessions -> 0..Cardinality(Sessions)]
    /\ est \in [Sessions -> 0..MaxClock]
    /\ \A s \in Sessions : est[s] = 0 <=> birth[s] = 0
    /\ rows = {s \in Sessions : birth[s] # 0}
    /\ \A s, t \in rows : /\ Stored(s) /\ birth[s] <= Cardinality(Met(s))
                          /\ s # t => birth[s] # birth[t]
    /\ rowCtr = [s \in Sessions |-> 0]
    /\ todo = Idle
    /\ sent = [s \in Sessions |-> {}]

Ready == up /\ todo = Idle

-----------------------------------------------------------------------------
(* Commands and frames the engine handles, one at a time.                   *)

\* Faults of insert: the old sender goes on sending; or it is dropped outright,
\* as it was before sessions could retire.
InsertedKeepsSender(m, s) ==
    [t \in Sessions |-> IF t = s THEN "sending" ELSE m[t]]
InsertedWithoutGrace(m, s) ==
    [t \in Sessions |-> IF t = s THEN "sending"
                        ELSE IF SameSlot(s, t) THEN "none" ELSE m[t]]

\* insert: the sender of the slot retires, whoever was retired is dropped.
Inserted(m, s) ==
    [t \in Sessions |->
        IF t = s THEN "sending"
        ELSE IF ~SameSlot(s, t) THEN m[t]
        ELSE IF m[t] = "sending" THEN "retired" ELSE "none"]

\* Fault: supersede forgets the rows of what insert dropped.
DroppedNothing(m, s) == {}

Dropped(m, s) == {t \in Sessions : m[t] # "none" /\ Inserted(m, s)[t] = "none"}

\* persist_session: a session of a paired device is never written.
PutOf(s) == IF Stored(s) THEN s ELSE NoSession

\* A handshake of either side completes (supersede, then persist_session).
Establish(s) ==
    /\ Ready
    /\ birth[s] = 0
    /\ birth' = [birth EXCEPT ![s] = Cardinality(Met(s)) + 1]
    /\ \E ms \in 1..MaxClock : est' = [est EXCEPT ![s] = ms]
    /\ mode' = Inserted(mode, s)
    /\ todo' = [Idle EXCEPT !.del = Dropped(mode, s) \cap {t \in Sessions : Stored(t)},
                            !.put = PutOf(s)]
    /\ UNCHANGED <<up, ctr, rows, rowCtr, sent>>

\* retire: a frame or a handshake stayed unanswered.  Only memory changes.
Retire(s) ==
    /\ Ready
    /\ mode[s] = "sending"
    /\ mode' = [mode EXCEPT ![s] = "retired"]
    /\ UNCHANGED <<up, ctr, est, birth, rows, rowCtr, todo, sent>>

\* The frames of one envelope: one counter of the chain for each piece.
Frames(s, pieces) == {s} \X (ctr[s]..(ctr[s] + pieces - 1))

\* seal_for: the chain advances once per piece, the row is put, and only
\* then do the frames leave.
Seal(s, pieces) ==
    /\ Ready
    /\ mode[s] = "sending"
    /\ ctr[s] + pieces <= MaxCtr
    /\ ctr' = [ctr EXCEPT ![s] = @ + pieces]
    /\ todo' = [Idle EXCEPT !.put = PutOf(s),
                            !.send = Frames(s, pieces)]
    /\ UNCHANGED <<up, mode, est, birth, rows, rowCtr, sent>>

\* on_delete_contact, and the revocation of a paired device: every session
\* of the peer is dropped, the retired ones too (all_for_peer).
Forget(p) ==
    /\ Ready
    /\ \E s \in Live : PeerOf[s] = p
    /\ mode' = [s \in Sessions |-> IF PeerOf[s] = p THEN "none" ELSE mode[s]]
    /\ todo' = [Idle EXCEPT !.del = {s \in Live : PeerOf[s] = p /\ Stored(s)}]
    /\ UNCHANGED <<up, ctr, est, birth, rows, rowCtr, sent>>

-----------------------------------------------------------------------------
(* The calls a step makes, in their order.                                  *)

\* store.delete_session
DeleteRow(s) ==
    /\ up
    /\ s \in todo.del
    /\ rows' = rows \ {s}
    /\ todo' = [todo EXCEPT !.del = @ \ {s}]
    /\ UNCHANGED <<up, mode, ctr, est, birth, rowCtr, sent>>

\* store.put_session
PutRow ==
    /\ up
    /\ todo.del = {}
    /\ todo.put # NoSession
    /\ rows' = rows \cup {todo.put}
    /\ rowCtr' = [rowCtr EXCEPT ![todo.put] = ctr[todo.put]]
    /\ todo' = [todo EXCEPT !.put = NoSession]
    /\ UNCHANGED <<up, mode, ctr, est, birth, sent>>

\* Fault: the frame does not wait for the row.
EmitBeforePut(s, n) ==
    /\ up
    /\ <<s, n>> \in todo.send
    /\ \A f \in todo.send : n <= f[2]
    /\ sent' = [sent EXCEPT ![s] = @ \cup {n}]
    /\ todo' = [todo EXCEPT !.send = @ \ {<<s, n>>}]
    /\ UNCHANGED <<up, mode, ctr, est, birth, rows, rowCtr>>

\* The driver hands a frame to its transport, in the order they were sealed.
Emit(s, n) ==
    /\ up
    /\ todo.del = {} /\ todo.put = NoSession
    /\ <<s, n>> \in todo.send
    /\ \A f \in todo.send : n <= f[2]
    /\ sent' = [sent EXCEPT ![s] = @ \cup {n}]
    /\ todo' = [todo EXCEPT !.send = @ \ {<<s, n>>}]
    /\ UNCHANGED <<up, mode, ctr, est, birth, rows, rowCtr>>

-----------------------------------------------------------------------------
(* The process dies at any point and comes back from the rows alone.        *)

Crash ==
    /\ up
    /\ up' = FALSE
    /\ mode' = [s \in Sessions |-> "none"]
    /\ ctr' = [s \in Sessions |-> 0]
    /\ todo' = Idle
    /\ UNCHANGED <<est, birth, rows, rowCtr, sent>>

\* Fault: the rows are inserted as the store returned them.
OrdersUnsorted ==
    {rank \in [Sessions -> 0..Cardinality(rows)] :
        /\ \A s \in Sessions : s \in rows <=> rank[s] # 0
        /\ \A s, t \in rows : s # t => rank[s] # rank[t]}

\* The orders in which restore may insert the rows: by established_ms, rows
\* of one millisecond in whatever order the store returned them.
Orders ==
    {rank \in [Sessions -> 0..Cardinality(rows)] :
        /\ \A s \in Sessions : s \in rows <=> rank[s] # 0
        /\ \A s, t \in rows : /\ s # t => rank[s] # rank[t]
                              /\ est[s] < est[t] => rank[s] < rank[t]}

Later(rank, s) == {t \in rows : SameSlot(s, t) /\ rank[s] < rank[t]}

\* Inserting the rows in that order leaves the last of a slot sending, the
\* one before it retired, and drops the others.
RestoredMode(rank, s) ==
    IF s \notin rows THEN "none"
    ELSE IF Later(rank, s) = {} THEN "sending"
    ELSE IF \A t, u \in Later(rank, s) : t = u THEN "retired"
    ELSE "none"

Restore ==
    /\ ~up
    /\ up' = TRUE
    /\ \E rank \in Orders :
           /\ mode' = [s \in Sessions |-> RestoredMode(rank, s)]
           /\ todo' = [Idle EXCEPT !.del = {s \in rows : RestoredMode(rank, s) = "none"}]
    /\ ctr' = [s \in Sessions |-> IF s \in rows THEN rowCtr[s] ELSE 0]
    /\ UNCHANGED <<est, birth, rows, rowCtr, sent>>

Next ==
    \/ \E s \in Sessions : Establish(s) \/ Retire(s) \/ DeleteRow(s)
    \/ \E s \in Sessions, pieces \in 1..MaxPieces : Seal(s, pieces)
    \/ \E s \in Sessions, n \in 0..MaxCtr : Emit(s, n)
    \/ \E p \in Peers : Forget(p)
    \/ PutRow
    \/ Crash
    \/ Restore

Spec == Init /\ [][Next]_vars

-----------------------------------------------------------------------------
(* Properties.                                                              *)

\* A slot has at most one session that sends: for_peer never has to choose.
OneSends ==
    \A s, t \in Sessions :
        SameSlot(s, t) /\ mode[s] = "sending" /\ mode[t] = "sending" => s = t

\* A slot never holds three sessions ("at most two live in a family": one
\* sends, one listens), whatever mixture of handshakes, silences and restarts.
AtMostTwo ==
    \A s, t, u \in Live :
        SameSlot(s, t) /\ SameSlot(t, u) => s = t \/ t = u \/ s = u

\* Between steps the disk holds exactly the sessions in memory: a dropped one
\* cannot come back, and a retired one is still there to listen.
DiskMatchesMemory ==
    Ready => rows = {s \in Live : Stored(s)}

\* No frame about to leave repeats a (session, counter) pair that has already
\* left: a counter rolled back by a crash would reuse a key and a nonce.
NonceFresh ==
    \A f \in todo.send : f[2] \notin sent[f[1]]

\* A sending session is never dropped outright by another handshake or by
\* silence: it first listens.  Only forgetting the peer or dying ends it.
Grace ==
    [][\A s \in Sessions :
          mode[s] = "sending" /\ mode'[s] = "none" =>
              ~up' \/ \A t \in Sessions : PeerOf[t] = PeerOf[s] => mode'[t] = "none"]_vars

\* A restart sends on the slot's latest handshake, never on one that an
\* insert had already sent to rest (the reason restore sorts the rows).  Only
\* the rows' wall clock tells it which that is: where the clock did not go
\* forward from s to t, s may send, and t listens, so that neither is lost
\* unless the slot has a third row, as an earlier build left it, no older than t.
RestartSendsOnLatest ==
    [][~up /\ up' =>
          \A s, t \in rows :
              SameSlot(s, t) /\ birth[s] < birth[t] /\ mode'[s] = "sending" =>
                  /\ est[t] <= est[s]
                  /\ mode'[t] # "retired" =>
                        \E u \in rows \ {s, t} : SameSlot(s, u) /\ est[t] <= est[u]]_vars
=============================================================================
