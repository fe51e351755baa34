--------------------------- MODULE DeliveryProofs ---------------------------
(***************************************************************************)
(* What Delivery promises for any messages, rungs, queue, schedule and     *)
(* environment: a message shown as pending or waiting is held in memory    *)
(* and on disk, and the rows are the queues.                               *)
(*                                                                         *)
(* A handler takes a queue entry by entry; the proofs follow it by         *)
(* induction on the entries taken (Induct, PassSteps), with the invariant  *)
(* Held, which also speaks of those still in hand.                         *)
(***************************************************************************)
EXTENDS Delivery, QueueProofs, FiniteSetTheorems, TLAPS

-----------------------------------------------------------------------------
(* Queues: every delivery once, none with a closed attempt. *)

Queue(q) ==
    /\ q \in Seq(DeliveryRecords)
    /\ \A i, j \in DOMAIN q : q[i].id = q[j].id => i = j
    /\ \A i \in DOMAIN q : ~q[i].fin

Once(s) == \A i, j \in DOMAIN s : s[i] = s[j] => i = j

LEMMA QueueIds ==
    ASSUME NEW q \in Seq(DeliveryRecords)
    PROVE  Ids(q) = {d.id : d \in ToSet(q)} /\ Ids(q) \subseteq Msgs
<1>1. DOMAIN q = 1..Len(q) /\ \A i \in 1..Len(q) : q[i] \in DeliveryRecords
  OBVIOUS
<1>2. \A i \in 1..Len(q) : q[i].id \in Msgs
  BY <1>1 DEF DeliveryRecords
<1>3. Ids(q) \subseteq Msgs
  BY <1>1, <1>2 DEF Ids
<1>4. \A x \in Ids(q) : x \in {d.id : d \in ToSet(q)}
  BY DEF Ids, ToSet
<1>5. \A x \in {d.id : d \in ToSet(q)} : x \in Ids(q)
  BY DEF Ids, ToSet
<1> QED
  BY <1>3, <1>4, <1>5

LEMMA QueueMore ==
    ASSUME NEW q, Queue(q), NEW d \in DeliveryRecords, ~d.fin, d.id \notin Ids(q)
    PROVE  Queue(Append(q, d)) /\ Ids(Append(q, d)) = Ids(q) \cup {d.id}
<1>1. q \in Seq(DeliveryRecords)
  BY DEF Queue
<1>2. PICK t : t = Append(q, d)
  OBVIOUS
<1>3. /\ t \in Seq(DeliveryRecords) /\ Len(q) \in Nat
      /\ DOMAIN q = 1..Len(q) /\ DOMAIN t = 1..(Len(q) + 1)
      /\ t[Len(q) + 1] = d /\ \A i \in 1..Len(q) : t[i] = q[i]
      /\ ToSet(t) = ToSet(q) \cup {d}
  BY <1>1, <1>2, OneMore
<1>4. \A i \in 1..(Len(q) + 1) : i = Len(q) + 1 \/ i \in 1..Len(q)
  BY <1>3
<1>5. \A i \in 1..Len(q) : q[i].id # d.id
  BY <1>3 DEF Ids
<1>6. Queue(t)
  BY <1>3, <1>4, <1>5 DEF Queue
<1>7. Ids(t) = Ids(q) \cup {d.id}
  BY <1>1, <1>3, QueueIds
<1> QED
  BY <1>2, <1>6, <1>7

LEMMA QueueLess ==
    ASSUME NEW q, Queue(q), NEW m
    PROVE  Queue(Without(q, m)) /\ Ids(Without(q, m)) = Ids(q) \ {m}
<1>1. q \in Seq(DeliveryRecords)
  BY DEF Queue
<1> DEFINE S == {d \in ToSet(q) : d.id # m}
<1>2. PICK t : t = Those(q, S)
  OBVIOUS
<1>3. t \in Seq(DeliveryRecords) /\ ToSet(t) = ToSet(q) \cap S
  BY <1>1, <1>2, ThoseFacts
<1>4. FromApart(q, t)
  BY <1>1, <1>2, ThoseApart
<1>5. \A i \in DOMAIN t : \E a \in DOMAIN q : t[i] = q[a]
  <2> TAKE i \in DOMAIN t
  <2>1. t[i] \in ToSet(t)
    BY DEF ToSet
  <2> QED
    BY <1>3, <2>1 DEF ToSet
<1>6. Queue(t)
  <2>1. ASSUME NEW i \in DOMAIN t, NEW j \in DOMAIN t, i # j
        PROVE  t[i].id # t[j].id
    <3>1. PICK a, b \in DOMAIN q : a # b /\ t[i] = q[a] /\ t[j] = q[b]
      BY <1>4, <2>1 DEF FromApart
    <3> QED
      BY <3>1 DEF Queue
  <2>2. \A i \in DOMAIN t : ~t[i].fin
    BY <1>5 DEF Queue
  <2> QED
    BY <1>3, <2>1, <2>2 DEF Queue
<1>7. Ids(t) = Ids(q) \ {m}
  BY <1>1, <1>3, QueueIds
<1> QED
  BY <1>2, <1>6, <1>7 DEF Without

LEMMA RowsLess ==
    ASSUME NEW s \in Seq(Msgs), Once(s), NEW S
    PROVE  /\ Those(s, S) \in Seq(Msgs) /\ Once(Those(s, S))
           /\ ToSet(Those(s, S)) = ToSet(s) \cap S
<1>1. PICK t : t = Those(s, S)
  OBVIOUS
<1>2. t \in Seq(Msgs) /\ ToSet(t) = ToSet(s) \cap S
  BY <1>1, ThoseFacts
<1>3. FromApart(s, t)
  BY <1>1, ThoseApart
<1>4. Once(t)
  BY <1>3 DEF Once, FromApart
<1> QED
  BY <1>1, <1>2, <1>4

LEMMA RowsMore ==
    ASSUME NEW s \in Seq(Msgs), Once(s), NEW m \in Msgs, m \notin ToSet(s)
    PROVE  /\ Append(s, m) \in Seq(Msgs) /\ Once(Append(s, m))
           /\ ToSet(Append(s, m)) = ToSet(s) \cup {m}
<1>1. PICK t : t = Append(s, m)
  OBVIOUS
<1>2. /\ t \in Seq(Msgs) /\ Len(s) \in Nat
      /\ DOMAIN s = 1..Len(s) /\ DOMAIN t = 1..(Len(s) + 1)
      /\ t[Len(s) + 1] = m /\ \A i \in 1..Len(s) : t[i] = s[i]
      /\ ToSet(t) = ToSet(s) \cup {m}
  BY <1>1, OneMore
<1>3. \A i \in 1..(Len(s) + 1) : i = Len(s) + 1 \/ i \in 1..Len(s)
  BY <1>2
<1>4. \A i \in 1..Len(s) : s[i] # m
  BY <1>2 DEF ToSet
<1>5. Once(t)
  BY <1>2, <1>3, <1>4 DEF Once
<1> QED
  BY <1>1, <1>2, <1>5

\* A queue is as long as it has messages.
LEMMA QueueLen ==
    ASSUME NEW q, Queue(q)
    PROVE  IsFiniteSet(Ids(q)) /\ Cardinality(Ids(q)) = Len(q)
<1>1. q \in Seq(DeliveryRecords) /\ Len(q) \in Nat /\ DOMAIN q = 1..Len(q)
  BY DEF Queue
<1> DEFINE f == [i \in 1..Len(q) |-> q[i].id]
<1>2. f \in Bijection(1..Len(q), Ids(q))
  BY <1>1 DEF Queue, Ids, Bijection, Injection, Surjection, IsInjective
<1>3. ExistsBijection(1..Len(q), Ids(q))
  BY <1>2 DEF ExistsBijection
<1> QED
  BY <1>1, <1>3, FS_CountingElements, FS_NatBijection

-----------------------------------------------------------------------------
(* The ladder. *)

Attempts == [tried : Seq(Rungs), fin : BOOLEAN]

LEMMA RungsAre ==
    /\ Rungs = {"lan", "bt", "ygg", "onion", "nostr", "mail"}
    /\ Ladder \in Seq(Rungs) /\ DOMAIN Ladder = 1..6
    /\ \A t \in Rungs : Family(t) \in Families
    /\ NoRung \notin Rungs
<1>1. DOMAIN Ladder = 1..6 /\ Len(Ladder) = 6
  BY DEF Ladder
<1>2. /\ Ladder[1] = "lan" /\ Ladder[2] = "bt" /\ Ladder[3] = "ygg"
      /\ Ladder[4] = "onion" /\ Ladder[5] = "nostr" /\ Ladder[6] = "mail"
  BY DEF Ladder
<1>3. 1..6 = {1, 2, 3, 4, 5, 6}
  OBVIOUS
<1>4. Rungs = {Ladder[i] : i \in {1, 2, 3, 4, 5, 6}}
  BY <1>1, <1>3 DEF Rungs, ToSet
<1>5. Rungs = {"lan", "bt", "ygg", "onion", "nostr", "mail"}
  BY <1>2, <1>4
<1>6. Ladder \in Seq(Rungs)
  BY <1>5 DEF Ladder
<1> QED
  BY <1>1, <1>5, <1>6 DEF Families, NoRung

LEMMA PlaceIn ==
    ASSUME NEW t \in Rungs
    PROVE  Place[t] \in 1..6 /\ Ladder[Place[t]] = t
<1>1. \E i \in DOMAIN Ladder : Ladder[i] = t
  BY DEF Rungs, ToSet
<1> QED
  BY <1>1, RungsAre DEF Place

LEMMA BestIn ==
    ASSUME NEW S \in SUBSET Rungs, S # {}
    PROVE  Best(S) \in S
<1> DEFINE P == {Place[t] : t \in S}
<1>1. P \in SUBSET Nat
  BY PlaceIn
<1>2. \E k : k \in P
  OBVIOUS
<1>3. PICK j \in P : \A i \in P : j <= i
  BY <1>1, <1>2, Least
<1>4. PICK t \in S : j = Place[t]
  BY <1>3
<1>5. \A u \in S : Place[t] <= Place[u]
  BY <1>3, <1>4
<1> QED
  BY <1>4, <1>5 DEF Best

LEMMA LastRung ==
    ASSUME NEW s \in Seq(Rungs), s # <<>>
    PROVE  Last(s) \in Rungs
BY DEF Last

LEMMA StepType ==
    ASSUME NEW a \in Attempts, NEW U
    PROVE  /\ Step(a, U) \in Attempts
           /\ ~Step(a, U).fin => Current(Step(a, U)) \in Rungs /\ Step(a, U).tried # <<>>
<1>1. Open(a, U) \in SUBSET Rungs
  BY DEF Open
<1>2. CASE a.fin
  BY <1>2 DEF Step
<1>3. CASE ~a.fin /\ Open(a, U) = {}
  BY <1>3 DEF Step, Attempts
<1>4. CASE ~a.fin /\ Open(a, U) # {}
  <2>1. PICK t \in Rungs : t = Best(Open(a, U))
    BY <1>1, <1>4, BestIn
  <2>2. PICK q : q = Append(a.tried, t)
    OBVIOUS
  <2>3. /\ q \in Seq(Rungs) /\ q # <<>> /\ Len(q) = Len(a.tried) + 1
        /\ q[Len(q)] = t
    BY <2>1, <2>2 DEF Attempts
  <2>4. Step(a, U) = [a EXCEPT !.tried = q]
    BY <1>4, <2>1, <2>2 DEF Step
  <2>5. Step(a, U) \in Attempts /\ Step(a, U).tried = q
    BY <2>3, <2>4 DEF Attempts
  <2> QED
    BY <2>1, <2>3, <2>5 DEF Current, Last
<1> QED
  BY <1>2, <1>3, <1>4

LEMMA ForgottenType ==
    ASSUME NEW a \in Attempts, NEW t
    PROVE  Forgotten(a, t) \in Attempts /\ ~Forgotten(a, t).fin
<1>1. Those(a.tried, Rungs \ {t}) \in Seq(Rungs)
  BY ThoseFacts DEF Attempts
<1> QED
  BY <1>1 DEF Forgotten, Attempts

LEMMA WalkedType ==
    ASSUME NEW a \in Attempts, NEW U, NEW t
    PROVE  WalkedTo(a, U, t) \in Attempts /\ WalkedTo(a, U, t).fin = a.fin
<1> DEFINE way == {u \in Open(a, U) : Place[u] <= Place[t]}
<1>1. PICK w : w = Those(Ladder, way)
  OBVIOUS
<1>2. w \in Seq(Rungs)
  BY <1>1, RungsAre, ThoseFacts
<1>3. a.tried \o w \in Seq(Rungs)
  BY <1>2 DEF Attempts
<1>4. \/ WalkedTo(a, U, t) = a
      \/ WalkedTo(a, U, t) = [a EXCEPT !.tried = a.tried \o w]
  BY <1>1 DEF WalkedTo
<1> QED
  BY <1>3, <1>4 DEF Attempts

LEMMA NewAttemptType == NewAttempt \in Attempts
BY DEF NewAttempt, Attempts

-----------------------------------------------------------------------------
(* The books: two queues, the rows on disk and the statuses.               *)

Promise == {"Pending", "Waiting"}
Stored  == {NoMsg} \cup DOMAIN Rank

\* The outbox b, the queue of those put off q, the rows r and the statuses s
\* are in order while the messages R are in hand, W of them with a row, and
\* those in X are given up.
Books(b, q, r, s, R, W, X) ==
    /\ Queue(b) /\ Queue(q) /\ Ids(b) \cap Ids(q) = {}
    /\ R \subseteq Msgs /\ W \subseteq R /\ R \cap (Ids(b) \cup Ids(q)) = {}
    /\ r \in Seq(Msgs) /\ Once(r)
    /\ ToSet(r) \ X \subseteq Ids(b) \cup Ids(q) \cup R
    /\ (Ids(b) \cup Ids(q) \cup W) \ X \subseteq ToSet(r)
    /\ s \in [Msgs -> Stored]
    /\ ~TornSteps => \A m \in Msgs \ (Silent \cup X) :
                         s[m] \in Promise => m \in Ids(b) \cup Ids(q) \cup R

LEMMA QueueMsgs ==
    ASSUME NEW q, Queue(q)
    PROVE  Ids(q) \subseteq Msgs /\ q \in Seq(DeliveryRecords)
BY QueueIds DEF Queue

LEMMA QueueNone == Queue(<<>>) /\ Ids(<<>>) = {}
BY DEF Queue, Ids

\* A message in hand goes to a queue: W no longer matters to it.
LEMMA BooksPut ==
    ASSUME NEW b, NEW q, NEW r, NEW s, NEW R, NEW W, NEW X, Books(b, q, r, s, R, W, X),
           NEW m \in W, NEW b2, NEW q2, Queue(b2), Queue(q2),
           \/ Ids(b2) = Ids(b) \cup {m} /\ q2 = q
           \/ Ids(q2) = Ids(q) \cup {m} /\ b2 = b
    PROVE  Books(b2, q2, r, s, R \ {m}, W \ {m}, X)
<1> DEFINE A == Ids(b) \cup Ids(q)
           A2 == Ids(b2) \cup Ids(q2)
<1>1. A2 = A \cup {m} /\ m \in R /\ m \notin A
  BY DEF Books
<1>2. Ids(b2) \cap Ids(q2) = {}
  BY DEF Books
<1>3. (R \ {m}) \cap A2 = {} /\ A2 \cup (R \ {m}) = A \cup R
  BY <1>1 DEF Books
<1> HIDE DEF A, A2
<1>4. /\ ToSet(r) \ X \subseteq A \cup R /\ (A \cup W) \ X \subseteq ToSet(r)
      /\ R \subseteq Msgs /\ W \subseteq R
      /\ ~TornSteps => \A k \in Msgs \ (Silent \cup X) : s[k] \in Promise => k \in A \cup R
  BY DEF Books, A
<1>5. /\ ToSet(r) \ X \subseteq A2 \cup (R \ {m})
      /\ (A2 \cup (W \ {m})) \ X \subseteq ToSet(r)
      /\ R \ {m} \subseteq Msgs /\ W \ {m} \subseteq R \ {m}
      /\ ~TornSteps => \A k \in Msgs \ (Silent \cup X) :
                           s[k] \in Promise => k \in A2 \cup (R \ {m})
  BY <1>1, <1>3, <1>4
<1> QED
  BY <1>2, <1>3, <1>5 DEF Books, A2

\* A message in hand gets its row, or has it.
LEMMA BooksRow ==
    ASSUME NEW b, NEW q, NEW r, NEW s, NEW R, NEW W, NEW X, Books(b, q, r, s, R, W, X),
           NEW m \in R, NEW r2, r2 = IF m \in ToSet(r) THEN r ELSE Append(r, m)
    PROVE  Books(b, q, r2, s, R, W \cup {m}, X)
<1>1. m \in Msgs /\ r \in Seq(Msgs) /\ Once(r)
  BY DEF Books
<1>2. r2 \in Seq(Msgs) /\ Once(r2) /\ ToSet(r2) = ToSet(r) \cup {m}
  <2>1. CASE m \in ToSet(r)
    BY <1>1, <2>1
  <2>2. CASE m \notin ToSet(r)
    BY <1>1, <2>2, RowsMore
  <2> QED
    BY <2>1, <2>2
<1> QED
  BY <1>2 DEF Books

\* A queued message is gone from the books, unless it was promised.
LEMMA BooksGone ==
    ASSUME NEW b, NEW q, NEW r, NEW s, NEW R, NEW W, NEW X, Books(b, q, r, s, R, W, X),
           NEW m \in Msgs \ R, NEW b2, NEW q2, Queue(b2), Queue(q2),
           Ids(b2) = Ids(b) \ {m}, Ids(q2) = Ids(q) \ {m},
           m \in Silent \/ s[m] \notin Promise
    PROVE  Books(b2, q2, Those(r, Msgs \ {m}), s, R, W, X)
<1> DEFINE A == Ids(b) \cup Ids(q)
           A2 == Ids(b2) \cup Ids(q2)
<1>1. PICK r2 : r2 = Those(r, Msgs \ {m})
  OBVIOUS
<1>2. r \in Seq(Msgs) /\ Once(r) /\ ToSet(r) \subseteq Msgs
  BY DEF Books, ToSet
<1>3. r2 \in Seq(Msgs) /\ Once(r2) /\ ToSet(r2) = ToSet(r) \ {m}
  BY <1>1, <1>2, RowsLess
<1>4. A2 = A \ {m} /\ Ids(b2) \cap Ids(q2) = {}
  BY DEF Books
<1> HIDE DEF A, A2
<1>5. /\ ToSet(r) \ X \subseteq A \cup R /\ (A \cup W) \ X \subseteq ToSet(r)
      /\ R \subseteq Msgs /\ W \subseteq R /\ R \cap A = {}
      /\ ~TornSteps => \A k \in Msgs \ (Silent \cup X) : s[k] \in Promise => k \in A \cup R
  BY DEF Books, A
<1>6. /\ ToSet(r2) \ X \subseteq A2 \cup R /\ (A2 \cup W) \ X \subseteq ToSet(r2)
      /\ R \cap A2 = {}
      /\ ~TornSteps => \A k \in Msgs \ (Silent \cup X) : s[k] \in Promise => k \in A2 \cup R
  BY <1>3, <1>4, <1>5
<1>7. Books(b2, q2, r2, s, R, W, X)
  BY <1>3, <1>4, <1>5, <1>6 DEF Books, A2
<1> QED
  BY <1>1, <1>7

\* A promise is made only of a message that is held.
LEMMA BooksNoted ==
    ASSUME NEW b, NEW q, NEW r, NEW s, NEW R, NEW W, NEW X, Books(b, q, r, s, R, W, X),
           NEW m \in Msgs, NEW v \in Stored,
           v \in Promise => m \in Ids(b) \cup Ids(q) \cup R
    PROVE  Books(b, q, r, [s EXCEPT ![m] = v], R, W, X)
<1>1. PICK s2 : s2 = [s EXCEPT ![m] = v]
  OBVIOUS
<1>2. s \in [Msgs -> Stored]
  BY DEF Books
<1>3. s2 \in [Msgs -> Stored] /\ \A k \in Msgs : s2[k] = IF k = m THEN v ELSE s[k]
  BY <1>1, <1>2
<1>4. Books(b, q, r, s2, R, W, X)
  BY <1>3 DEF Books
<1> QED
  BY <1>1, <1>4

\* A pass takes a whole queue in hand.
LEMMA BooksTaken ==
    ASSUME NEW b, NEW q, NEW r, NEW s, NEW X, Books(b, q, r, s, {}, {}, X)
    PROVE  /\ Books(<<>>, q, r, s, Ids(b), Ids(b), X)
           /\ Books(b, <<>>, r, s, Ids(q), Ids(q), X)
<1>1. Ids(b) \subseteq Msgs /\ Ids(q) \subseteq Msgs
  BY QueueMsgs DEF Books
<1>2. Ids(b) \cap Ids(q) = {}
  BY DEF Books
<1>3. Books(<<>>, q, r, s, Ids(b), Ids(b), X)
  BY <1>1, <1>2, QueueNone DEF Books
<1>4. Books(b, <<>>, r, s, Ids(q), Ids(q), X)
  BY <1>1, <1>2, QueueNone DEF Books
<1> QED
  BY <1>3, <1>4

-----------------------------------------------------------------------------
(* Engines whose books are in order. *)

Held(e, R, W, X) ==
    /\ e \in Engines /\ e.sess \subseteq e.sessRows
    /\ Books(e.box, e.def, e.rows, e.status, R, W, X)

\* What leaves the books alone.
LEMMA SameBooks ==
    ASSUME NEW e, NEW R, NEW W, NEW X, Held(e, R, W, X),
           NEW f \in Engines, f.sess \subseteq f.sessRows,
           f.box = e.box, f.def = e.def, f.rows = e.rows, f.status = e.status
    PROVE  Held(f, R, W, X)
BY DEF Held

LEMMA EngineFields ==
    ASSUME NEW e \in Engines
    PROVE  /\ \A q \in Seq(DeliveryRecords) : [e EXCEPT !.box = q] \in Engines
           /\ \A q \in Seq(DeliveryRecords) : [e EXCEPT !.def = q] \in Engines
           /\ \A r \in Seq(Msgs) : [e EXCEPT !.rows = r] \in Engines
           /\ \A s \in [Msgs -> Stored] : [e EXCEPT !.status = s] \in Engines
           /\ \A h \in Handshakes : [e EXCEPT !.hs = h] \in Engines
<1>1. \A q \in Seq(DeliveryRecords) : [e EXCEPT !.box = q] \in Engines
  BY DEF Engines
<1>2. \A q \in Seq(DeliveryRecords) : [e EXCEPT !.def = q] \in Engines
  BY DEF Engines
<1>3. \A r \in Seq(Msgs) : [e EXCEPT !.rows = r] \in Engines
  BY DEF Engines
<1>4. \A s \in [Msgs -> Stored] : [e EXCEPT !.status = s] \in Engines
  BY DEF Engines, Stored
<1>5. \A h \in Handshakes : [e EXCEPT !.hs = h] \in Engines
  BY DEF Engines
<1> QED
  BY <1>1, <1>2, <1>3, <1>4, <1>5

LEMMA RankFacts ==
    /\ DOMAIN Rank = {"Undeliverable", "Pending", "Waiting", "Sent", "Delivered", "Read"}
    /\ Rank["Undeliverable"] = 0 /\ Rank["Pending"] = 1 /\ Rank["Waiting"] = 2
    /\ Rank["Sent"] = 3 /\ Rank["Delivered"] = 4 /\ Rank["Read"] = 5
    /\ NoMsg \notin DOMAIN Rank
<1>1. DOMAIN Rank = {"Undeliverable", "Pending", "Waiting", "Sent", "Delivered", "Read"}
  BY DEF Rank
<1> QED
  BY <1>1 DEF Rank, NoMsg

Final == {"Undeliverable", "Sent", "Delivered", "Read"}

LEMMA AdvancedFacts ==
    ASSUME NEW now \in DOMAIN Rank, NEW target \in DOMAIN Rank
    PROVE  /\ Advanced(now, target) \in DOMAIN Rank
           /\ target \in Final => Advanced(now, target) \notin Promise
           /\ Advanced(now, target) \in Promise => now \in Promise \/ target \in Promise
BY RankFacts DEF Advanced, Promise, Final

LEMMA NotedHeld ==
    ASSUME NEW e, NEW R, NEW W, NEW X, Held(e, R, W, X), NEW m \in Msgs,
           NEW target \in DOMAIN Rank,
           target \in Promise => m \in Ids(e.box) \cup Ids(e.def) \cup R
    PROVE  /\ Held(Noted(e, m, target), R, W, X)
           /\ Noted(e, m, target).box = e.box /\ Noted(e, m, target).def = e.def
           /\ Noted(e, m, target).rows = e.rows
           /\ target \in Final => m \in Silent \/ Noted(e, m, target).status[m] \notin Promise
<1>1. e \in Engines /\ e.status \in [Msgs -> Stored]
  BY DEF Held, Books
<1>2. CASE m \in Silent \/ e.status[m] = NoMsg
  <2>1. Noted(e, m, target) = e
    BY <1>2 DEF Noted
  <2>2. NoMsg \notin Promise
    BY DEF NoMsg, Promise
  <2> QED
    BY <1>2, <2>1, <2>2
<1>3. CASE m \notin Silent /\ e.status[m] # NoMsg
  <2>1. e.status[m] \in DOMAIN Rank
    BY <1>1, <1>3 DEF Stored
  <2>2. PICK v : v = Advanced(e.status[m], target)
    OBVIOUS
  <2>3. /\ v \in DOMAIN Rank
        /\ target \in Final => v \notin Promise
        /\ v \in Promise => e.status[m] \in Promise \/ target \in Promise
    BY <2>1, <2>2, AdvancedFacts
  <2>4. PICK s : s = [e.status EXCEPT ![m] = v]
    OBVIOUS
  <2>5. v \in Stored /\ s \in [Msgs -> Stored] /\ s[m] = v
    BY <1>1, <2>3, <2>4 DEF Stored
  <2>6. Noted(e, m, target) = [e EXCEPT !.status = s]
    BY <1>3, <2>2, <2>4 DEF Noted
  <2>7. PICK f : f = [e EXCEPT !.status = s]
    OBVIOUS
  <2>8. /\ f \in Engines /\ f.box = e.box /\ f.def = e.def /\ f.rows = e.rows
        /\ f.status = s /\ f.sess = e.sess /\ f.sessRows = e.sessRows
    BY <1>1, <2>5, <2>7, EngineFields DEF Engines
  <2>9. Books(e.box, e.def, e.rows, s, R, W, X)
    <3>1. CASE v \in Promise => m \in Ids(e.box) \cup Ids(e.def) \cup R
      BY <2>4, <2>5, <3>1, BooksNoted DEF Held
    <3>2. CASE v \in Promise /\ m \notin Ids(e.box) \cup Ids(e.def) \cup R
      <4>1. e.status[m] \in Promise
        BY <2>3, <3>2
      <4>2. \A k \in Msgs : s[k] \in Promise <=> e.status[k] \in Promise
        BY <1>1, <2>4, <3>2, <4>1
      <4> QED
        BY <2>5, <4>2 DEF Held, Books
    <3> QED
      BY <3>1, <3>2
  <2>10. Held(f, R, W, X)
    BY <2>8, <2>9 DEF Held
  <2> QED
    BY <2>3, <2>5, <2>6, <2>7, <2>8, <2>10
<1> QED
  BY <1>2, <1>3

\* retire_delivery and what goes with it: of both queues and the rows.
LEMMA GoneHeld ==
    ASSUME NEW e, NEW R, NEW W, NEW X, Held(e, R, W, X), NEW m \in Msgs \ R,
           m \in Silent \/ e.status[m] \notin Promise, NEW f,
           \/ f = Erased([e EXCEPT !.def = Without(@, m)], m) /\ m \notin Ids(e.box)
           \/ f = Retired([e EXCEPT !.box = Without(@, m)], m)
           \/ f = [Retired(e, m) EXCEPT !.box = Without(@, m)]
    PROVE  Held(f, R, W, X)
<1> DEFINE r == Those(e.rows, Msgs \ {m})
           q == Without(e.def, m)
           b == Without(e.box, m)
<1>1. /\ Queue(e.box) /\ Queue(e.def) /\ e \in Engines
      /\ e.rows \in Seq(Msgs) /\ Once(e.rows)
  BY DEF Held, Books
<1>2. /\ Queue(q) /\ Ids(q) = Ids(e.def) \ {m}
      /\ Queue(b) /\ Ids(b) = Ids(e.box) \ {m}
  BY <1>1, QueueLess
<1>3. r \in Seq(Msgs)
  BY <1>1, RowsLess
<1> HIDE DEF r, q, b
<1>4. q \in Seq(DeliveryRecords) /\ b \in Seq(DeliveryRecords)
  BY <1>2 DEF Queue
<1>5. CASE f = Erased([e EXCEPT !.def = Without(@, m)], m) /\ m \notin Ids(e.box)
  <2>1. PICK g : g = [e EXCEPT !.def = q]
    OBVIOUS
  <2>2. f = [g EXCEPT !.rows = r]
    BY <1>1, <1>5, <2>1 DEF Erased, q, r, Engines
  <2>3. /\ f \in Engines /\ f.box = e.box /\ f.def = q /\ f.rows = r /\ f.status = e.status
        /\ f.sess = e.sess /\ f.sessRows = e.sessRows
    BY <1>1, <1>3, <1>4, <2>1, <2>2, EngineFields DEF Engines
  <2>4. Ids(e.box) = Ids(e.box) \ {m}
    BY <1>5
  <2>5. Books(e.box, q, r, e.status, R, W, X)
    BY <1>1, <1>2, <2>4, BooksGone DEF Held, r
  <2> QED
    BY <2>3, <2>5 DEF Held
<1>6. CASE \/ f = Retired([e EXCEPT !.box = Without(@, m)], m)
           \/ f = [Retired(e, m) EXCEPT !.box = Without(@, m)]
  <2>1. PICK g : g = [e EXCEPT !.def = q]
    OBVIOUS
  <2>2. PICK h : h = [g EXCEPT !.rows = r]
    OBVIOUS
  <2>3. g \in Engines /\ h \in Engines
    BY <1>1, <1>3, <1>4, <2>1, <2>2, EngineFields
  <2>4. f = [h EXCEPT !.box = b]
    BY <1>1, <1>6, <2>1, <2>2 DEF Retired, Erased, q, r, b, Engines
  <2>5. /\ f \in Engines /\ f.box = b /\ f.def = q /\ f.rows = r /\ f.status = e.status
        /\ f.sess = e.sess /\ f.sessRows = e.sessRows
    BY <1>1, <1>3, <1>4, <2>1, <2>2, <2>3, <2>4, EngineFields DEF Engines
  <2>6. Books(b, q, r, e.status, R, W, X)
    BY <1>1, <1>2, BooksGone DEF Held, r
  <2> QED
    BY <2>5, <2>6 DEF Held
<1> QED
  BY <1>5, <1>6

LEMMA EvictedHeld ==
    ASSUME NEW e, NEW R, NEW W, NEW X, Held(e, R, W, X)
    PROVE  Held(Evicted(e), R, W, X)
<1>1. CASE Len(e.def) < MaxDeferred
  BY <1>1 DEF Evicted
<1>2. CASE ~(Len(e.def) < MaxDeferred)
  <2> DEFINE S == {d \in ToSet(e.def) : d.id \in Silent}
  <2>1. PICK quiet : quiet = Those(e.def, S)
    OBVIOUS
  <2>2. PICK out : out = IF quiet = <<>> THEN e.def[1].id ELSE quiet[1].id
    OBVIOUS
  <2>3. /\ e \in Engines /\ Queue(e.def) /\ Ids(e.def) \cap Ids(e.box) = {}
        /\ R \cap Ids(e.def) = {}
    BY DEF Held, Books
  <2>4. e.def \in Seq(DeliveryRecords) /\ Len(e.def) \in Nat /\ Len(e.def) >= 1
    BY <1>2, <2>3, DeliveryAssumption DEF Queue
  <2>5. out \in Ids(e.def)
    <3>1. CASE quiet = <<>>
      <4>1. 1 \in DOMAIN e.def
        BY <2>4
      <4> QED
        BY <2>2, <3>1, <4>1 DEF Ids
    <3>2. CASE quiet # <<>>
      <4>1. quiet \in Seq(DeliveryRecords) /\ ToSet(quiet) = ToSet(e.def) \cap S
        BY <2>1, <2>4, ThoseFacts
      <4>2. 1 \in DOMAIN quiet
        BY <3>2, <4>1
      <4>3. quiet[1] \in ToSet(quiet)
        BY <4>2 DEF ToSet
      <4>4. quiet[1] \in ToSet(e.def)
        BY <4>1, <4>3
      <4> QED
        BY <2>2, <2>4, <3>2, <4>4, QueueIds
    <3> QED
      BY <3>1, <3>2
  <2>6. out \in Msgs \ R /\ out \notin Ids(e.box)
    BY <2>3, <2>5, QueueMsgs
  <2>7. PICK n : n = Noted(e, out, "Undeliverable")
    OBVIOUS
  <2>8. "Undeliverable" \in Final /\ "Undeliverable" \in DOMAIN Rank
        /\ "Undeliverable" \notin Promise
    BY RankFacts DEF Final, Promise
  <2>9. /\ Held(n, R, W, X) /\ n.box = e.box
        /\ out \in Silent \/ n.status[out] \notin Promise
    BY <2>6, <2>7, <2>8, NotedHeld
  <2>10. Evicted(e) = Erased([n EXCEPT !.def = Without(@, out)], out)
    <3>1. Evicted(e) = Noted(Erased([e EXCEPT !.def = Without(@, out)], out), out, "Undeliverable")
      BY <1>2, <2>1, <2>2 DEF Evicted
    <3> QED
      BY <2>3, <2>7, <3>1 DEF Noted, Erased, Engines
  <2> QED
    BY <2>6, <2>9, <2>10, GoneHeld
<1> QED
  BY <1>1, <1>2

LEMMA FreshType ==
    ASSUME NEW m \in Msgs, NEW x \in BOOLEAN
    PROVE  /\ Fresh(m) \in DeliveryRecords /\ Fresh(m).id = m /\ ~Fresh(m).fin
           /\ [Fresh(m) EXCEPT !.redial = x] \in DeliveryRecords
           /\ [Fresh(m) EXCEPT !.redial = x].id = m
           /\ ~[Fresh(m) EXCEPT !.redial = x].fin
<1>1. <<>> \in Seq(Rungs)
  OBVIOUS
<1>2. Fresh(m) \in DeliveryRecords /\ Fresh(m).id = m /\ ~Fresh(m).fin
  BY <1>1 DEF Fresh, DeliveryRecords
<1>3. PICK g : g = [Fresh(m) EXCEPT !.redial = x]
  OBVIOUS
<1>4. g \in DeliveryRecords /\ g.id = m /\ ~g.fin
  BY <1>2, <1>3 DEF DeliveryRecords
<1> QED
  BY <1>2, <1>3, <1>4

\* remember_undelivered
LEMMA RememberedHeld ==
    ASSUME NEW e, NEW R, NEW W, NEW X, Held(e, R, W, X),
           NEW d \in DeliveryRecords, d.id \in R
    PROVE  /\ Held(Remembered(e, d), R \ {d.id}, W \ {d.id}, X)
           /\ d.id \in Ids(Remembered(e, d).def)
<1>1. PICK m : m = d.id
  OBVIOUS
<1>2. m \in Msgs /\ m \notin Ids(e.def) /\ d.redial \in BOOLEAN
  BY <1>1 DEF Held, Books, DeliveryRecords
<1>3. PICK v : v = Evicted(e)
  OBVIOUS
<1>4. Held(v, R, W, X)
  BY <1>3, EvictedHeld
<1>5. /\ v \in Engines /\ v.rows \in Seq(Msgs) /\ m \notin Ids(v.def) /\ Queue(v.def)
      /\ v.sess \subseteq v.sessRows
  BY <1>1, <1>4 DEF Held, Books
<1>6. PICK r : r = IF m \in ToSet(v.rows) THEN v.rows ELSE Append(v.rows, m)
  OBVIOUS
<1>7. Books(v.box, v.def, r, v.status, R, W \cup {m}, X)
  BY <1>1, <1>4, <1>6, BooksRow DEF Held
<1>8. PICK x : x = [Fresh(m) EXCEPT !.redial = d.redial]
  OBVIOUS
<1>9. x \in DeliveryRecords /\ x.id = m /\ ~x.fin
  BY <1>2, <1>8, FreshType
<1>10. PICK q : q = Append(v.def, x)
  OBVIOUS
<1>11. Queue(q) /\ Ids(q) = Ids(v.def) \cup {m}
  BY <1>5, <1>9, <1>10, QueueMore
<1>12. Books(v.box, q, r, v.status, R \ {m}, (W \cup {m}) \ {m}, X)
  BY <1>7, <1>11, BooksPut DEF Books
<1>13. Remembered(e, d) = [Persisted(v, m) EXCEPT !.def = Append(@, x)]
  BY <1>1, <1>2, <1>3, <1>8 DEF Remembered
<1>14. PICK g : g = [v EXCEPT !.rows = r]
  OBVIOUS
<1>15. g \in Engines /\ g.def = v.def /\ g = Persisted(v, m)
  <2>1. r \in Seq(Msgs)
    BY <1>12 DEF Books
  <2> QED
    BY <1>5, <1>6, <1>14, <2>1, EngineFields DEF Persisted, Engines
<1>16. PICK f : f = [g EXCEPT !.def = q]
  OBVIOUS
<1>17. /\ f \in Engines /\ f.box = v.box /\ f.def = q /\ f.rows = r /\ f.status = v.status
       /\ f.sess = v.sess /\ f.sessRows = v.sessRows
  <2>1. q \in Seq(DeliveryRecords)
    BY <1>11 DEF Queue
  <2> QED
    BY <1>5, <1>14, <1>15, <1>16, <2>1, EngineFields DEF Engines
<1>18. f = Remembered(e, d)
  BY <1>10, <1>13, <1>15, <1>16
<1>19. (W \cup {m}) \ {m} = W \ {m}
  OBVIOUS
<1>20. Held(f, R \ {m}, W \ {m}, X)
  BY <1>5, <1>12, <1>17, <1>19 DEF Held
<1> QED
  BY <1>1, <1>11, <1>17, <1>18, <1>20

LEMMA RetryArmedHeld ==
    ASSUME NEW e, NEW R, NEW W, NEW X, Held(e, R, W, X)
    PROVE  /\ Held(RetryArmed(e), R, W, X)
           /\ RetryArmed(e).box = e.box /\ RetryArmed(e).def = e.def
<1>1. e \in Engines /\ e.sess \subseteq e.sessRows
  BY DEF Held
<1>2. CASE e.retry.armed \/ e.retry.step >= RetrySteps
  BY <1>2 DEF RetryArmed
<1>3. CASE ~(e.retry.armed \/ e.retry.step >= RetrySteps)
  <2>1. PICK y : y = [armed |-> TRUE, step |-> e.retry.step + 1]
    OBVIOUS
  <2>2. RetryArmed(e) = [e EXCEPT !.retry = y]
    BY <1>3, <2>1 DEF RetryArmed
  <2>3. e.retry \in [armed : BOOLEAN, step : 0..RetrySteps]
    BY <1>1 DEF Engines
  <2>4. y \in [armed : BOOLEAN, step : 0..RetrySteps]
    BY <1>3, <2>1, <2>3, DeliveryAssumption
  <2>5. PICK f : f = [e EXCEPT !.retry = y]
    OBVIOUS
  <2>6. /\ f \in Engines /\ f.sess = e.sess /\ f.sessRows = e.sessRows
        /\ f.box = e.box /\ f.def = e.def /\ f.rows = e.rows /\ f.status = e.status
    BY <1>1, <2>4, <2>5 DEF Engines
  <2> QED
    BY <1>1, <2>2, <2>5, <2>6, SameBooks
<1> QED
  BY <1>2, <1>3

LEMMA OutOfRungsHeld ==
    ASSUME NEW e, NEW R, NEW W, NEW X, Held(e, R, W, X),
           NEW d \in DeliveryRecords, d.id \in R
    PROVE  Held(OutOfRungs(e, d), R \ {d.id}, W \ {d.id}, X)
<1>1. PICK f : f = Remembered(e, d)
  OBVIOUS
<1>2. Held(f, R \ {d.id}, W \ {d.id}, X) /\ d.id \in Ids(f.def)
  BY <1>1, RememberedHeld
<1>3. PICK g : g = RetryArmed(f)
  OBVIOUS
<1>4. Held(g, R \ {d.id}, W \ {d.id}, X) /\ d.id \in Ids(g.def)
  BY <1>2, <1>3, RetryArmedHeld
<1>5. d.id \in Msgs /\ "Waiting" \in DOMAIN Rank
  BY RankFacts DEF DeliveryRecords
<1> QED
  BY <1>1, <1>3, <1>4, <1>5, NotedHeld DEF OutOfRungs

-----------------------------------------------------------------------------
(* One delivery. *)

\* The handshake is none of the books.
LEMMA HsHeld ==
    ASSUME NEW e, NEW R, NEW W, NEW X, Held(e, R, W, X), NEW h \in Handshakes
    PROVE  Held([e EXCEPT !.hs = h], R, W, X)
<1>1. e \in Engines /\ e.sess \subseteq e.sessRows
  BY DEF Held
<1>2. PICK f : f = [e EXCEPT !.hs = h]
  OBVIOUS
<1>3. /\ f \in Engines /\ f.sess = e.sess /\ f.sessRows = e.sessRows
      /\ f.box = e.box /\ f.def = e.def /\ f.rows = e.rows /\ f.status = e.status
  BY <1>1, <1>2, EngineFields DEF Engines
<1> QED
  BY <1>1, <1>2, <1>3, SameBooks

LEMMA HandshakeEnsuredHeld ==
    ASSUME NEW e, NEW R, NEW W, NEW X, Held(e, R, W, X), NEW t \in Rungs
    PROVE  Held(HandshakeEnsured(e, t)[1], R, W, X)
<1>1. PICK a : a = WalkedTo(NewAttempt, Usable(e), t)
  OBVIOUS
<1>2. a.tried \in Seq(Rungs)
  BY <1>1, NewAttemptType, WalkedType DEF Attempts
<1>3. e.hs \in Handshakes /\ Family(t) \in Families
  BY RungsAre DEF Held, Engines
<1>4. CASE ~e.hs.live
  <2>1. PICK h : h = [live |-> TRUE, tried |-> a.tried, fin |-> FALSE, fam |-> Family(t),
                      timer |-> TRUE, redial |-> FALSE, on |-> {t}]
    OBVIOUS
  <2>2. h \in Handshakes
    BY <1>2, <1>3, <2>1 DEF Handshakes
  <2>3. HandshakeEnsured(e, t)[1] = [e EXCEPT !.hs = h]
    BY <1>1, <1>4, <2>1 DEF HandshakeEnsured, HandshakeBegun
  <2> QED
    BY <2>2, <2>3, HsHeld
<1>5. CASE e.hs.live /\ ~e.hs.fin
  BY <1>5 DEF HandshakeEnsured
<1>6. CASE e.hs.live /\ e.hs.fin
  <2>1. PICK o : o = IF Family(t) = e.hs.fam THEN e.hs.on \cup {t} ELSE {t}
    OBVIOUS
  <2>2. PICK h : h = [e.hs EXCEPT !.tried = a.tried, !.fin = FALSE, !.timer = TRUE,
                          !.fam = Family(t), !.on = o]
    OBVIOUS
  <2>3. o \in SUBSET Rungs
    BY <1>3, <2>1 DEF Handshakes
  <2>4. h \in Handshakes
    BY <1>2, <1>3, <2>2, <2>3 DEF Handshakes
  <2>5. HandshakeEnsured(e, t)[1] = [e EXCEPT !.hs = h]
    BY <1>1, <1>6, <2>1, <2>2 DEF HandshakeEnsured
  <2> QED
    BY <2>4, <2>5, HsHeld
<1> QED
  BY <1>4, <1>5, <1>6

Steps == Rungs \cup {"Absent", "Exhausted"}

LEMMA HandshakeRetriedHeld ==
    ASSUME NEW e, NEW R, NEW W, NEW X, Held(e, R, W, X), NEW via, NEW why
    PROVE  /\ Held(HandshakeRetried(e, via, why)[1], R, W, X)
           /\ HandshakeRetried(e, via, why)[2] \in Steps
           /\ HandshakeRetried(e, via, why)[1].box = e.box
<1>1. e.hs \in Handshakes /\ e \in Engines
  BY DEF Held, Engines
<1>2. PICK drop \in BOOLEAN : drop = (why = "dropped" /\ Direct(via) /\ ~e.hs.redial)
  BY <1>1 DEF Handshakes, Direct
<1>3. HsAtt(e.hs) \in Attempts
  BY <1>1 DEF HsAtt, Handshakes, Attempts
<1>4. PICK a0 \in Attempts : a0 = IF drop THEN Forgotten(HsAtt(e.hs), via) ELSE HsAtt(e.hs)
  BY <1>3, ForgottenType
<1>5. PICK a \in Attempts : /\ a = Step(a0, Usable(e))
                            /\ ~a.fin => Current(a) \in Rungs
  BY StepType
<1>6. PICK h : h = [e.hs EXCEPT !.redial = e.hs.redial \/ drop, !.tried = a.tried, !.fin = a.fin]
  OBVIOUS
<1>7. h \in Handshakes /\ h.on = e.hs.on
  BY <1>1, <1>2, <1>6 DEF Handshakes, Attempts
<1>8. CASE ~e.hs.live \/ HsAtt(e.hs).tried = <<>> \/ Last(e.hs.tried) # via
  <2>1. HandshakeRetried(e, via, why) = <<e, "Absent">>
    BY <1>8 DEF HandshakeRetried
  <2> QED
    BY <2>1 DEF Steps
<1>9. CASE ~(~e.hs.live \/ HsAtt(e.hs).tried = <<>> \/ Last(e.hs.tried) # via) /\ a.fin
  <2>1. PICK f : f = [e EXCEPT !.hs = h]
    OBVIOUS
  <2>2. HandshakeRetried(e, via, why) = <<f, "Exhausted">>
    BY <1>2, <1>4, <1>5, <1>6, <1>9, <2>1 DEF HandshakeRetried, HandshakeMoved
  <2>3. f.box = e.box /\ Held(f, R, W, X)
    BY <1>1, <1>7, <2>1, HsHeld DEF Engines
  <2> QED
    BY <2>2, <2>3 DEF Steps
<1>10. CASE ~(~e.hs.live \/ HsAtt(e.hs).tried = <<>> \/ Last(e.hs.tried) # via) /\ ~a.fin
  <2>1. PICK t \in Rungs : t = Current(a)
    BY <1>5, <1>10
  <2>2. PICK o : o = IF Family(t) = e.hs.fam THEN h.on \cup {t} ELSE {t}
    OBVIOUS
  <2>3. PICK g : g = [h EXCEPT !.timer = TRUE, !.fam = Family(t), !.on = o]
    OBVIOUS
  <2>4. Family(t) \in Families /\ o \in SUBSET Rungs
    BY <1>7, <2>2, RungsAre DEF Handshakes
  <2>5. g \in Handshakes
    BY <1>7, <2>3, <2>4 DEF Handshakes
  <2>6. PICK f : f = [e EXCEPT !.hs = g]
    OBVIOUS
  <2>7. HandshakeRetried(e, via, why) = <<f, t>>
    BY <1>2, <1>4, <1>5, <1>6, <1>10, <2>1, <2>2, <2>3, <2>6 DEF HandshakeRetried, HandshakeMoved
  <2>8. f.box = e.box /\ Held(f, R, W, X)
    BY <1>1, <2>5, <2>6, HsHeld DEF Engines
  <2> QED
    BY <2>7, <2>8 DEF Steps
<1> QED
  BY <1>8, <1>9, <1>10

\* What is left of a delivery m that was in hand: it is closed and no longer
\* there, or open and still to be put back.
Taken(r, m, R, W, X) ==
    /\ r[2] \in DeliveryRecords /\ r[2].id = m
    /\ r[2].fin => Held(r[1], R \ {m}, W \ {m}, X)
    /\ ~r[2].fin => Held(r[1], R, W, X)

LEMMA WithAttType ==
    ASSUME NEW d \in DeliveryRecords, NEW a \in Attempts
    PROVE  /\ WithAtt(d, a) \in DeliveryRecords /\ WithAtt(d, a).id = d.id
           /\ WithAtt(d, a).fin = a.fin /\ WithAtt(d, a).tried = a.tried
           /\ Att(d) \in Attempts /\ Att(d).fin = d.fin
BY DEF WithAtt, Att, DeliveryRecords, Attempts

LEMMA SentOnTaken ==
    ASSUME NEW e, NEW R, NEW W, NEW X, Held(e, R, W, X),
           NEW d \in DeliveryRecords, ~d.fin, d.id \in R, NEW t \in Rungs
    PROVE  Taken(SentOn(e, d, t), d.id, R, W, X)
<1>1. PICK g : g = [d EXCEPT !.st = "flight", !.via = t]
  OBVIOUS
<1>2. g \in DeliveryRecords /\ g.id = d.id /\ ~g.fin
  BY <1>1 DEF DeliveryRecords
<1>3. e \in Engines /\ d.id \in Msgs /\ e.sess \subseteq e.sessRows
  BY DEF Held, DeliveryRecords
<1>4. PICK f : f = [e EXCEPT !.left = @ \cup {d.id}]
  OBVIOUS
<1>5. /\ f \in Engines /\ f.sess = e.sess /\ f.sessRows = e.sessRows
      /\ f.box = e.box /\ f.def = e.def /\ f.rows = e.rows /\ f.status = e.status
  BY <1>3, <1>4 DEF Engines
<1>6. Held(f, R, W, X)
  BY <1>3, <1>5, SameBooks
<1> QED
  BY <1>1, <1>2, <1>4, <1>6 DEF SentOn, Taken

LEMMA AdvanceTaken ==
    ASSUME NEW e, NEW R, NEW W, NEW X, Held(e, R, W, X),
           NEW d \in DeliveryRecords, ~d.fin, d.id \in R
    PROVE  Taken(Advance(e, d), d.id, R, W, X)
<1>1. Att(d) \in Attempts /\ e \in Engines /\ e.sess \subseteq e.sessRows
  BY WithAttType, NewAttemptType DEF Held
<1>2. PICK a \in Attempts : /\ a = Step(Att(d), Usable(e))
                            /\ ~a.fin => Current(a) \in Rungs
  BY <1>1, StepType
<1>3. CASE Parks(e, d)
  <2>1. PICK f : f = [e EXCEPT !.awaited = TRUE]
    OBVIOUS
  <2>2. /\ f \in Engines /\ f.sess = e.sess /\ f.sessRows = e.sessRows
        /\ f.box = e.box /\ f.def = e.def /\ f.rows = e.rows /\ f.status = e.status
    BY <1>1, <2>1 DEF Engines
  <2>3. Held(f, R, W, X)
    BY <1>1, <2>2, SameBooks
  <2>4. PICK g : g = [d EXCEPT !.st = "discovery"]
    OBVIOUS
  <2>5. g \in DeliveryRecords /\ g.id = d.id /\ ~g.fin
    BY <2>4 DEF DeliveryRecords
  <2>6. Advance(e, d) = <<f, g>>
    BY <1>3, <2>1, <2>4 DEF Advance
  <2> QED
    BY <2>3, <2>5, <2>6 DEF Taken
<1>4. CASE ~Parks(e, d) /\ a.fin
  <2>1. PICK g : g = [d EXCEPT !.fin = TRUE]
    OBVIOUS
  <2>2. g \in DeliveryRecords /\ g.id = d.id /\ g.fin
    BY <2>1 DEF DeliveryRecords
  <2>3. Advance(e, d) = <<OutOfRungs(e, d), g>>
    BY <1>2, <1>4, <2>1 DEF Advance, Goes
  <2> QED
    BY <2>2, <2>3, OutOfRungsHeld DEF Taken
<1>5. CASE ~Parks(e, d) /\ ~a.fin /\ Family(Current(a)) \in e.sess
  <2>1. Advance(e, d) = SentOn(e, WithAtt(d, a), Current(a))
    BY <1>2, <1>5 DEF Advance, Goes
  <2>2. PICK g : g = WithAtt(d, a)
    OBVIOUS
  <2>3. g \in DeliveryRecords /\ g.id = d.id /\ ~g.fin
    BY <1>5, <2>2, WithAttType
  <2>4. Current(a) \in Rungs
    BY <1>2, <1>5
  <2>5. Taken(SentOn(e, g, Current(a)), g.id, R, W, X)
    BY <2>3, <2>4, SentOnTaken
  <2> QED
    BY <2>1, <2>2, <2>3, <2>5
<1>6. CASE ~Parks(e, d) /\ ~a.fin /\ Family(Current(a)) \notin e.sess
  <2>1. PICK h : h = HandshakeEnsured(e, Current(a))
    OBVIOUS
  <2>2. Held(h[1], R, W, X)
    BY <1>2, <1>6, <2>1, HandshakeEnsuredHeld
  <2>3. PICK w : w = IF h[2] = Current(a) THEN a ELSE WalkedTo(a, Usable(e), h[2])
    OBVIOUS
  <2>4. w \in Attempts /\ ~w.fin
    BY <1>6, <2>3, WalkedType
  <2>5. PICK g : g = [WithAtt(d, w) EXCEPT !.st = "session"]
    OBVIOUS
  <2>6. g \in DeliveryRecords /\ g.id = d.id /\ ~g.fin
    <3>1. WithAtt(d, w) \in DeliveryRecords /\ WithAtt(d, w).id = d.id /\ ~WithAtt(d, w).fin
      BY <2>4, WithAttType
    <3> QED
      BY <2>5, <3>1 DEF DeliveryRecords
  <2>7. Advance(e, d) = <<h[1], g>>
    BY <1>2, <1>6, <2>1, <2>3, <2>5 DEF Advance, Goes, Waits
  <2> QED
    BY <2>2, <2>6, <2>7 DEF Taken
<1> QED
  BY <1>3, <1>4, <1>5, <1>6

LEMMA SameTaken ==
    ASSUME NEW e, NEW R, NEW W, NEW X, Held(e, R, W, X),
           NEW d \in DeliveryRecords, ~d.fin
    PROVE  Taken(<<e, d>>, d.id, R, W, X)
BY DEF Taken

LEMMA ResentTaken ==
    ASSUME NEW e, NEW R, NEW W, NEW X, Held(e, R, W, X),
           NEW d \in DeliveryRecords, ~d.fin, d.id \in R
    PROVE  Taken(Resent(e, d), d.id, R, W, X)
<1>1. d.tried \in Seq(Rungs)
  BY DEF DeliveryRecords
<1>2. CASE d.tried = <<>>
  BY <1>2, AdvanceTaken DEF Resent
<1>3. CASE d.tried # <<>> /\ Family(Last(d.tried)) \in e.sess
  BY <1>1, <1>3, LastRung, SentOnTaken DEF Resent
<1>4. CASE d.tried # <<>> /\ Family(Last(d.tried)) \notin e.sess
  BY <1>4, SameTaken DEF Resent
<1> QED
  BY <1>2, <1>3, <1>4

-----------------------------------------------------------------------------
(* A pass over a queue. *)

Failures ==
    [about : {"failure"}, via : Rungs \cup {NoRung}, why : {"dropped", "unreachable", "silent"},
     stale : BOOLEAN, step : Steps]
OutboxPasses == {[about |-> x] : x \in {"session", "discovery", "retry"}} \cup Failures
Passes == {[about |-> "deferred"]} \cup OutboxPasses

\* A delivery that stays open and keeps its name.
Kin(g, d) == g \in DeliveryRecords /\ g.id = d.id /\ ~g.fin

LEMMA FollowedKin ==
    ASSUME NEW e, NEW d \in DeliveryRecords, ~d.fin, NEW via, NEW step
    PROVE  Kin(Followed(e, d, via, step), d)
<1>1. PICK w : w = WalkedTo(Att(d), Usable(e), step)
  OBVIOUS
<1>2. Att(d) \in Attempts /\ ~Att(d).fin
  BY WithAttType, NewAttemptType
<1>3. w \in Attempts /\ ~w.fin
  BY <1>1, <1>2, WalkedType
<1>4. Kin(WithAtt(d, w), d)
  BY <1>3, WithAttType DEF Kin
<1> QED
  BY <1>1, <1>4 DEF Followed, Kin

LEMMA ResetKin ==
    ASSUME NEW d \in DeliveryRecords, ~d.fin, NEW stale
    PROVE  Kin(Reset(d, stale), d)
<1>1. PICK g : g = [d EXCEPT !.reset = TRUE, !.tried = <<>>, !.st = "session"]
  OBVIOUS
<1>2. <<>> \in Seq(Rungs)
  OBVIOUS
<1>3. Kin(g, d)
  BY <1>1, <1>2 DEF Kin, DeliveryRecords
<1> QED
  BY <1>1, <1>3 DEF Reset, Kin

LEMMA RedialledKin ==
    ASSUME NEW d \in DeliveryRecords, ~d.fin, NEW via, NEW why
    PROVE  Kin(Redialled(d, via, why), d)
<1>1. PICK a : a = Forgotten(Att(d), via)
  OBVIOUS
<1>2. a \in Attempts /\ ~a.fin
  BY <1>1, WithAttType, NewAttemptType, ForgottenType
<1>3. PICK h : h = WithAtt(d, a)
  OBVIOUS
<1>4. Kin(h, d)
  BY <1>2, <1>3, WithAttType DEF Kin
<1>5. PICK g : g = [h EXCEPT !.redial = TRUE, !.st = "session"]
  OBVIOUS
<1>6. Kin(g, d)
  BY <1>4, <1>5 DEF Kin, DeliveryRecords
<1>7. Redialled(d, via, why) = g \/ Redialled(d, via, why) = d
  BY <1>1, <1>3, <1>5 DEF Redialled
<1> QED
  BY <1>6, <1>7 DEF Kin

LEMMA AgainTaken ==
    ASSUME NEW e, NEW R, NEW W, NEW X, Held(e, R, W, X),
           NEW d \in DeliveryRecords, ~d.fin, d.id \in R, NEW p \in OutboxPasses
    PROVE  Taken(Again(e, d, p), d.id, R, W, X)
<1>0. Taken(<<e, d>>, d.id, R, W, X)
  BY SameTaken
<1>1. CASE p.about = "session"
  BY <1>0, <1>1, ResentTaken DEF Again
<1>2. CASE p.about = "discovery"
  <2>1. PICK g : g = [d EXCEPT !.st = "session"]
    OBVIOUS
  <2>2. g \in DeliveryRecords /\ g.id = d.id /\ ~g.fin
    BY <2>1 DEF DeliveryRecords
  <2>3. Taken(Advance(e, g), d.id, R, W, X)
    BY <2>2, AdvanceTaken
  <2>4. Again(e, d, p) = <<e, d>> \/ Again(e, d, p) = Advance(e, g)
    BY <1>2, <2>1 DEF Again
  <2> QED
    BY <1>0, <2>3, <2>4
<1>3. CASE p.about = "retry"
  <2>1. PICK g : g = WithAtt(d, NewAttempt)
    OBVIOUS
  <2>2. NewAttempt \in Attempts /\ ~NewAttempt.fin
    BY NewAttemptType DEF NewAttempt
  <2>3. g \in DeliveryRecords /\ g.id = d.id /\ ~g.fin
    BY <2>1, <2>2, WithAttType
  <2>4. Taken(Advance(e, g), d.id, R, W, X)
    BY <2>3, AdvanceTaken
  <2>5. Again(e, d, p) = <<e, d>> \/ Again(e, d, p) = Advance(e, g)
    BY <1>3, <2>1 DEF Again
  <2> QED
    BY <1>0, <2>4, <2>5
<1>4. CASE p.about = "failure"
  <2>1. PICK f : f = Followed(e, d, p.via, p.step)
    OBVIOUS
  <2>2. Kin(f, d)
    BY <2>1, FollowedKin
  <2>3. PICK g : g = Reset(f, p.stale)
    OBVIOUS
  <2>4. Kin(g, f)
    BY <2>2, <2>3, ResetKin DEF Kin
  <2>5. PICK h : h = Redialled(g, p.via, p.why)
    OBVIOUS
  <2>6. Kin(h, g)
    BY <2>4, <2>5, RedialledKin DEF Kin
  <2>7. Taken(<<e, f>>, d.id, R, W, X)
    BY <2>2, SameTaken DEF Kin
  <2>8. h \in DeliveryRecords /\ h.id = d.id /\ ~h.fin
    BY <2>2, <2>4, <2>6 DEF Kin
  <2>9. Taken(Advance(e, h), d.id, R, W, X)
    BY <2>8, AdvanceTaken
  <2>10. Again(e, d, p) = <<e, f>> \/ Again(e, d, p) = Advance(e, h)
    BY <1>4, <2>1, <2>3, <2>5 DEF Again
  <2> QED
    BY <2>7, <2>9, <2>10
<1>5. p.about \in {"session", "discovery", "retry", "failure"}
  BY DEF OutboxPasses, Failures
<1> QED
  BY <1>1, <1>2, <1>3, <1>4, <1>5

\* An open delivery with a row goes to the outbox.
LEMMA ToBoxHeld ==
    ASSUME NEW e, NEW R, NEW W, NEW X, Held(e, R, W, X),
           NEW d \in DeliveryRecords, ~d.fin, d.id \in W
    PROVE  Held([e EXCEPT !.box = Append(@, d)], R \ {d.id}, W \ {d.id}, X)
<1>1. /\ e \in Engines /\ e.sess \subseteq e.sessRows /\ Queue(e.box) /\ Queue(e.def)
      /\ d.id \notin Ids(e.box)
  BY DEF Held, Books
<1>2. PICK b : b = Append(e.box, d)
  OBVIOUS
<1>3. Queue(b) /\ Ids(b) = Ids(e.box) \cup {d.id}
  BY <1>1, <1>2, QueueMore
<1>4. Books(b, e.def, e.rows, e.status, R \ {d.id}, W \ {d.id}, X)
  BY <1>1, <1>3, BooksPut DEF Held
<1>5. PICK f : f = [e EXCEPT !.box = b]
  OBVIOUS
<1>6. /\ f \in Engines /\ f.box = b /\ f.def = e.def /\ f.rows = e.rows
      /\ f.status = e.status /\ f.sess = e.sess /\ f.sessRows = e.sessRows
  BY <1>1, <1>3, <1>5, EngineFields DEF Queue, Engines
<1>7. Held(f, R \ {d.id}, W \ {d.id}, X)
  BY <1>1, <1>4, <1>6 DEF Held
<1> QED
  BY <1>2, <1>5, <1>7

LEMMA PersistedHeld ==
    ASSUME NEW e, NEW R, NEW W, NEW X, Held(e, R, W, X), NEW m \in R
    PROVE  Held(Persisted(e, m), R, W \cup {m}, X)
<1>1. e \in Engines /\ e.sess \subseteq e.sessRows
  BY DEF Held
<1>2. PICK r : r = IF m \in ToSet(e.rows) THEN e.rows ELSE Append(e.rows, m)
  OBVIOUS
<1>3. Books(e.box, e.def, r, e.status, R, W \cup {m}, X)
  BY <1>2, BooksRow DEF Held
<1>4. PICK f : f = [e EXCEPT !.rows = r]
  OBVIOUS
<1>5. r \in Seq(Msgs)
  BY <1>3 DEF Books
<1>6. /\ f \in Engines /\ f.box = e.box /\ f.def = e.def /\ f.rows = r
      /\ f.status = e.status /\ f.sess = e.sess /\ f.sessRows = e.sessRows
  BY <1>1, <1>4, <1>5, EngineFields DEF Engines
<1>7. Persisted(e, m) = f
  BY <1>1, <1>2, <1>4 DEF Persisted, Engines
<1> QED
  BY <1>1, <1>3, <1>6, <1>7 DEF Held

LEMMA EnqueuedHeld ==
    ASSUME NEW e, NEW R, NEW W, NEW X, Held(e, R, W, X),
           NEW d \in DeliveryRecords, ~d.fin, d.id \in R
    PROVE  Held(Enqueued(e, d), R \ {d.id}, W \ {d.id}, X)
<1>1. PICK r : r = Advance(e, d)
  OBVIOUS
<1>2. Taken(r, d.id, R, W, X)
  BY <1>1, AdvanceTaken
<1>3. CASE r[2].fin
  BY <1>1, <1>2, <1>3 DEF Enqueued, Taken
<1>4. CASE ~r[2].fin
  <2>1. PICK f : f = Persisted(r[1], d.id)
    OBVIOUS
  <2>2. Held(f, R, W \cup {d.id}, X)
    BY <1>2, <1>4, <2>1, PersistedHeld DEF Taken
  <2>3. PICK g : g = r[2]
    OBVIOUS
  <2>4. g \in DeliveryRecords /\ g.id = d.id /\ ~g.fin
    BY <1>2, <1>4, <2>3 DEF Taken
  <2>5. Held([f EXCEPT !.box = Append(@, g)], R \ {d.id}, (W \cup {d.id}) \ {d.id}, X)
    BY <2>2, <2>4, ToBoxHeld
  <2>6. Enqueued(e, d) = [f EXCEPT !.box = Append(@, g)]
    BY <1>1, <1>4, <2>1, <2>3 DEF Enqueued, Persisted
  <2>7. (W \cup {d.id}) \ {d.id} = W \ {d.id}
    OBVIOUS
  <2> QED
    BY <2>5, <2>6, <2>7
<1> QED
  BY <1>3, <1>4

LEMMA OnePassedHeld ==
    ASSUME NEW e, NEW R, NEW X, Held(e, R, R, X),
           NEW d \in DeliveryRecords, ~d.fin, d.id \in R, NEW p \in Passes
    PROVE  Held(OnePassed(e, d, p), R \ {d.id}, R \ {d.id}, X)
<1>1. CASE p.about = "deferred"
  BY <1>1, EnqueuedHeld DEF OnePassed
<1>2. CASE p.about # "deferred"
  <2>1. p \in OutboxPasses
    BY <1>2 DEF Passes
  <2>2. PICK r : r = Again(e, d, p)
    OBVIOUS
  <2>3. Taken(r, d.id, R, R, X)
    BY <2>1, <2>2, AgainTaken
  <2>4. OnePassed(e, d, p) = PutBack(r)
    BY <1>2, <2>2 DEF OnePassed
  <2>5. CASE r[2].fin
    BY <2>3, <2>4, <2>5 DEF PutBack, Taken
  <2>6. CASE ~r[2].fin
    <3>1. PICK g : g = r[2]
      OBVIOUS
    <3>2. g \in DeliveryRecords /\ g.id = d.id /\ ~g.fin /\ Held(r[1], R, R, X)
      BY <2>3, <2>6, <3>1 DEF Taken
    <3>3. Held([r[1] EXCEPT !.box = Append(@, g)], R \ {d.id}, R \ {d.id}, X)
      BY <3>2, ToBoxHeld
    <3> QED
      BY <2>4, <2>6, <3>1, <3>3 DEF PutBack
  <2> QED
    BY <2>5, <2>6
<1> QED
  BY <1>1, <1>2

LEMMA PassSteps ==
    ASSUME NEW e, NEW X, NEW q \in Seq(X), NEW p
    PROVE  \E f : /\ f[0] = e /\ f[Len(q)] = Passed(e, q, p)
                  /\ \A i \in 1..Len(q) : f[i] = OnePassed(f[i - 1], q[i], p)
<1> DEFINE Is(h, k) ==
               h = [i \in 0..k |-> IF i = 0 THEN e ELSE OnePassed(h[i - 1], q[i], p)]
           done == {k \in Nat : \E h : Is(h, k)}
<1>1. 0 \in done
  <2>1. Is([i \in 0..0 |-> e], 0)
    OBVIOUS
  <2> QED
    BY <2>1
<1>2. ASSUME NEW k \in 1..Len(q), k - 1 \in done
      PROVE  k \in done
  <2>1. PICK h : Is(h, k - 1)
    BY <1>2
  <2>2. PICK g : g = [i \in 0..k |-> IF i = k THEN OnePassed(h[k - 1], q[k], p) ELSE h[i]]
    OBVIOUS
  <2>3. \A i \in 0..k : g[i] = IF i = 0 THEN e ELSE OnePassed(g[i - 1], q[i], p)
    BY <2>1, <2>2
  <2>4. Is(g, k)
    BY <2>2, <2>3
  <2> HIDE DEF Is
  <2> QED
    BY <2>4
<1> HIDE DEF done
<1>3. Len(q) \in Nat /\ done \in SUBSET Nat
  BY DEF done
<1>4. \A k \in 0..Len(q) : k \in done
  BY <1>1, <1>2, <1>3, Induct
<1>5. \E h : Is(h, Len(q))
  BY <1>3, <1>4 DEF done
<1> DEFINE f == CHOOSE h : Is(h, Len(q))
<1>6. Is(f, Len(q))
  BY <1>5
<1>7. f[Len(q)] = Passed(e, q, p)
  BY DEF Passed, InTurn
<1> HIDE DEF f
<1> QED
  BY <1>3, <1>6, <1>7

LEMMA PassedHeld ==
    ASSUME NEW e, NEW X, NEW q, Queue(q), Held(e, Ids(q), Ids(q), X), NEW p \in Passes
    PROVE  Held(Passed(e, q, p), {}, {}, X)
<1>1. q \in Seq(DeliveryRecords) /\ Len(q) \in Nat /\ DOMAIN q = 1..Len(q)
  BY DEF Queue
<1>2. PICK f : /\ f[0] = e /\ f[Len(q)] = Passed(e, q, p)
               /\ \A i \in 1..Len(q) : f[i] = OnePassed(f[i - 1], q[i], p)
  BY <1>1, PassSteps
<1> DEFINE rest(k) == {q[j].id : j \in (k + 1)..Len(q)}
           done == {k \in Nat : Held(f[k], rest(k), rest(k), X)}
<1>3. 0 \in done
  <2>1. rest(0) = Ids(q)
    BY <1>1 DEF Ids
  <2> QED
    BY <1>2, <2>1
<1>4. ASSUME NEW k \in 1..Len(q), k - 1 \in done
      PROVE  k \in done
  <2>1. rest(k) = rest(k - 1) \ {q[k].id} /\ q[k].id \in rest(k - 1)
    <3>1. \A j \in k..Len(q) : j = k \/ j \in (k + 1)..Len(q)
      OBVIOUS
    <3>2. \A j \in (k + 1)..Len(q) : j \in k..Len(q) /\ q[j].id # q[k].id
      BY <1>1 DEF Queue
    <3>3. rest(k - 1) = {q[j].id : j \in k..Len(q)}
      BY <1>1
    <3>4. k \in k..Len(q)
      BY <1>1
    <3> QED
      BY <3>1, <3>2, <3>3, <3>4
  <2>2. Held(f[k - 1], rest(k - 1), rest(k - 1), X)
    BY <1>4
  <2>3. q[k] \in DeliveryRecords /\ ~q[k].fin
    BY <1>1 DEF Queue
  <2> HIDE DEF rest
  <2>4. Held(OnePassed(f[k - 1], q[k], p), rest(k - 1) \ {q[k].id},
             rest(k - 1) \ {q[k].id}, X)
    BY <2>1, <2>2, <2>3, OnePassedHeld
  <2>5. Held(f[k], rest(k), rest(k), X)
    BY <1>2, <2>1, <2>4
  <2> QED
    BY <2>5
<1>5. rest(Len(q)) = {}
  BY <1>1
<1>6. done \in SUBSET Nat
  OBVIOUS
<1> HIDE DEF done, rest
<1>7. \A k \in 0..Len(q) : k \in done
  BY <1>1, <1>3, <1>4, <1>6, Induct
<1>8. Held(f[Len(q)], rest(Len(q)), rest(Len(q)), X)
  BY <1>1, <1>7 DEF done
<1> QED
  BY <1>2, <1>5, <1>8

-----------------------------------------------------------------------------
(* Whole handlers, with nothing in hand. *)

Settled(e, X) == Held(e, {}, {}, X)

LEMMA OverBoxSettled ==
    ASSUME NEW e, NEW X, Settled(e, X), NEW p \in OutboxPasses
    PROVE  Settled(OverBox(e, p), X)
<1>1. e \in Engines /\ e.sess \subseteq e.sessRows /\ Queue(e.box)
  BY DEF Settled, Held, Books
<1>2. Books(<<>>, e.def, e.rows, e.status, Ids(e.box), Ids(e.box), X)
  BY BooksTaken DEF Settled, Held
<1>3. PICK f : f = [e EXCEPT !.box = <<>>]
  OBVIOUS
<1>4. <<>> \in Seq(DeliveryRecords)
  OBVIOUS
<1>5. /\ f \in Engines /\ f.box = <<>> /\ f.def = e.def /\ f.rows = e.rows
      /\ f.status = e.status /\ f.sess = e.sess /\ f.sessRows = e.sessRows
  BY <1>1, <1>3, <1>4, EngineFields DEF Engines
<1>6. Held(f, Ids(e.box), Ids(e.box), X)
  BY <1>1, <1>2, <1>5 DEF Held
<1>7. p \in Passes
  BY DEF Passes
<1> QED
  BY <1>1, <1>3, <1>6, <1>7, PassedHeld DEF OverBox, Settled

LEMMA RetriedSettled ==
    ASSUME NEW e, NEW X, Settled(e, X)
    PROVE  Settled(Retried(e), X)
<1>1. e \in Engines /\ e.sess \subseteq e.sessRows /\ Queue(e.def)
  BY DEF Settled, Held, Books
<1>2. Books(e.box, <<>>, e.rows, e.status, Ids(e.def), Ids(e.def), X)
  BY BooksTaken DEF Settled, Held
<1>3. PICK f : f = [e EXCEPT !.def = <<>>]
  OBVIOUS
<1>4. <<>> \in Seq(DeliveryRecords)
  OBVIOUS
<1>5. /\ f \in Engines /\ f.box = e.box /\ f.def = <<>> /\ f.rows = e.rows
      /\ f.status = e.status /\ f.sess = e.sess /\ f.sessRows = e.sessRows
  BY <1>1, <1>3, <1>4, EngineFields DEF Engines
<1>6. Held(f, Ids(e.def), Ids(e.def), X)
  BY <1>1, <1>2, <1>5 DEF Held
<1>7. [about |-> "deferred"] \in Passes
  BY DEF Passes
<1> QED
  BY <1>1, <1>3, <1>6, <1>7, PassedHeld DEF Retried, Settled

LEMMA FlushedSettled ==
    ASSUME NEW e, NEW X, Settled(e, X)
    PROVE  Settled(Flushed(e), X) /\ Settled(Resumed(e), X)
<1>1. [about |-> "session"] \in OutboxPasses /\ [about |-> "discovery"] \in OutboxPasses
  BY DEF OutboxPasses
<1> QED
  BY <1>1, OverBoxSettled DEF Flushed, Resumed

\* What a handler sets besides the books.
LEMMA SetSettled ==
    ASSUME NEW e, NEW X, Settled(e, X)
    PROVE  /\ \A b \in BOOLEAN : Settled([e EXCEPT !.near = b], X)
           /\ \A h \in Handshakes : Settled([e EXCEPT !.hs = h], X)
           /\ \A s : Settled([e EXCEPT !.ready = e.ready \cap s], X)
           /\ \A s \in SUBSET Rungs : Settled([e EXCEPT !.ready = s], X)
           /\ \A s : Settled([e EXCEPT !.sess = e.sess \cap s], X)
           /\ \A r \in [armed : BOOLEAN, step : 0..RetrySteps] :
                  Settled([e EXCEPT !.retry = r], X)
           /\ \A b, a \in BOOLEAN : Settled([e EXCEPT !.near = b, !.awaited = a], X)
<1>1. e \in Engines /\ e.sess \subseteq e.sessRows /\ Held(e, {}, {}, X)
  BY DEF Settled, Held
<1>2. ASSUME NEW b \in BOOLEAN
      PROVE  Settled([e EXCEPT !.near = b], X)
  <2>1. PICK f : f = [e EXCEPT !.near = b]
    OBVIOUS
  <2>2. /\ f \in Engines /\ f.sess = e.sess /\ f.sessRows = e.sessRows
        /\ f.box = e.box /\ f.def = e.def /\ f.rows = e.rows /\ f.status = e.status
    BY <1>1, <2>1 DEF Engines
  <2> QED
    BY <1>1, <2>1, <2>2, SameBooks DEF Settled
<1>3. \A h \in Handshakes : Settled([e EXCEPT !.hs = h], X)
  BY <1>1, HsHeld DEF Settled
<1>4. ASSUME NEW s \in SUBSET Rungs
      PROVE  Settled([e EXCEPT !.ready = s], X)
  <2>1. PICK f : f = [e EXCEPT !.ready = s]
    OBVIOUS
  <2>2. /\ f \in Engines /\ f.sess = e.sess /\ f.sessRows = e.sessRows
        /\ f.box = e.box /\ f.def = e.def /\ f.rows = e.rows /\ f.status = e.status
    BY <1>1, <2>1 DEF Engines
  <2> QED
    BY <1>1, <2>1, <2>2, SameBooks DEF Settled
<1>5. \A s : e.ready \cap s \in SUBSET Rungs
  BY <1>1 DEF Engines
<1>6. ASSUME NEW s
      PROVE  Settled([e EXCEPT !.sess = e.sess \cap s], X)
  <2>1. PICK f : f = [e EXCEPT !.sess = e.sess \cap s]
    OBVIOUS
  <2>2. /\ f \in Engines /\ f.sess \subseteq e.sess /\ f.sessRows = e.sessRows
        /\ f.box = e.box /\ f.def = e.def /\ f.rows = e.rows /\ f.status = e.status
    BY <1>1, <2>1 DEF Engines
  <2>3. f.sess \subseteq f.sessRows
    BY <1>1, <2>2
  <2> QED
    BY <1>1, <2>1, <2>2, <2>3, SameBooks DEF Settled
<1>7. ASSUME NEW r \in [armed : BOOLEAN, step : 0..RetrySteps]
      PROVE  Settled([e EXCEPT !.retry = r], X)
  <2>1. PICK f : f = [e EXCEPT !.retry = r]
    OBVIOUS
  <2>2. /\ f \in Engines /\ f.sess = e.sess /\ f.sessRows = e.sessRows
        /\ f.box = e.box /\ f.def = e.def /\ f.rows = e.rows /\ f.status = e.status
    BY <1>1, <2>1 DEF Engines
  <2> QED
    BY <1>1, <2>1, <2>2, SameBooks DEF Settled
<1>8. ASSUME NEW b \in BOOLEAN, NEW a \in BOOLEAN
      PROVE  Settled([e EXCEPT !.near = b, !.awaited = a], X)
  <2>1. PICK f : f = [e EXCEPT !.near = b, !.awaited = a]
    OBVIOUS
  <2>2. /\ f \in Engines /\ f.sess = e.sess /\ f.sessRows = e.sessRows
        /\ f.box = e.box /\ f.def = e.def /\ f.rows = e.rows /\ f.status = e.status
    BY <1>1, <2>1 DEF Engines
  <2> QED
    BY <1>1, <2>1, <2>2, SameBooks DEF Settled
<1> QED
  BY <1>2, <1>3, <1>4, <1>5, <1>6, <1>7, <1>8

Whys == {"dropped", "unreachable", "silent"}

LEMMA FailedSettled ==
    ASSUME NEW e, NEW X, Settled(e, X), NEW via \in Rungs \cup {NoRung}, NEW why \in Whys
    PROVE  Settled(Failed(e, via, why), X)
<1>1. e \in Engines /\ e.sess \subseteq e.sessRows
  BY DEF Settled, Held
<1>2. PICK stale \in BOOLEAN :
          stale = (why = "silent" /\ Direct(via) /\ Family(via) \in e.sess)
  BY DEF Direct
<1>3. PICK s : s = IF stale THEN e.sess \ {Family(via)} ELSE e.sess
  OBVIOUS
<1>4. PICK b \in BOOLEAN : b = (e.near /\ ~(why = "unreachable" /\ via = "lan"))
  BY <1>1 DEF Engines
<1>5. PICK f : f = [e EXCEPT !.sess = s, !.near = b]
  OBVIOUS
<1>6. /\ f \in Engines /\ f.sess = s /\ f.sessRows = e.sessRows
      /\ f.box = e.box /\ f.def = e.def /\ f.rows = e.rows /\ f.status = e.status
  <2>1. s \in SUBSET Families
    BY <1>1, <1>3 DEF Engines
  <2> QED
    BY <1>1, <1>5, <2>1 DEF Engines
<1>7. f.sess \subseteq f.sessRows
  BY <1>1, <1>3, <1>6
<1>8. Held(f, {}, {}, X)
  BY <1>6, <1>7, SameBooks DEF Settled
<1>9. PICK h : h = HandshakeRetried(f, via, why)
  OBVIOUS
<1>10. Held(h[1], {}, {}, X) /\ h[2] \in Steps
  BY <1>8, <1>9, HandshakeRetriedHeld
<1>11. PICK p : p = [about |-> "failure", via |-> via, why |-> why,
                     stale |-> stale, step |-> h[2]]
  OBVIOUS
<1>12. p \in OutboxPasses
  BY <1>10, <1>11 DEF OutboxPasses, Failures, Whys
<1>13. Failed(e, via, why) = OverBox(h[1], p)
  BY <1>1, <1>2, <1>3, <1>4, <1>5, <1>9, <1>11 DEF Failed, Engines
<1> QED
  BY <1>10, <1>12, <1>13, OverBoxSettled DEF Settled

LEMMA PresentSettled ==
    ASSUME NEW e, NEW X, Settled(e, X), NEW via
    PROVE  Settled(Present(e, via), X)
<1>1. PICK f : f = [e EXCEPT !.near = TRUE]
  OBVIOUS
<1>2. Settled(f, X)
  BY <1>1, SetSettled
<1>3. Settled(Retried(Resumed(f)), X)
  BY <1>2, FlushedSettled, RetriedSettled
<1>4. Present(e, via) \in {e, f, Retried(Resumed(f))}
  BY <1>1 DEF Present
<1> QED
  BY <1>2, <1>3, <1>4

LEMMA HeededSettled ==
    ASSUME NEW e, NEW X, Settled(e, X), NEW via
    PROVE  Settled(Heeded(e, via), X)
<1>1. PICK f : f = Present(e, via)
  OBVIOUS
<1>2. Settled(f, X)
  BY <1>1, PresentSettled
<1>3. Settled(Retried(f), X)
  BY <1>2, RetriedSettled
<1>4. Heeded(e, via) \in {f, Retried(f)}
  BY <1>1 DEF Heeded
<1> QED
  BY <1>2, <1>3, <1>4

LEMMA AdmittedSettled ==
    ASSUME NEW e, NEW X, Settled(e, X), NEW via \in Rungs
    PROVE  Settled(Admitted(e, via), X)
<1>1. e \in Engines /\ e.sess \subseteq e.sessRows /\ Held(e, {}, {}, X)
  BY DEF Settled, Held
<1>2. Family(via) \in Families
  BY RungsAre
<1>3. PICK f : f = [e EXCEPT !.sess = @ \cup {Family(via)}, !.sessRows = @ \cup {Family(via)}]
  OBVIOUS
<1>4. /\ f \in Engines /\ f.sess = e.sess \cup {Family(via)}
      /\ f.sessRows = e.sessRows \cup {Family(via)}
      /\ f.box = e.box /\ f.def = e.def /\ f.rows = e.rows /\ f.status = e.status
  BY <1>1, <1>2, <1>3 DEF Engines
<1>5. f.sess \subseteq f.sessRows
  BY <1>1, <1>4
<1> QED
  BY <1>1, <1>3, <1>4, <1>5, SameBooks DEF Settled, Admitted

\* A settled message leaves everything.
LEMMA ForgottenSettled ==
    ASSUME NEW e, NEW X, Settled(e, X), NEW m \in Msgs, m \in Silent \/ e.status[m] \notin Promise
    PROVE  /\ Settled(Retired([e EXCEPT !.box = Without(@, m)], m), X)
           /\ Settled([Retired(e, m) EXCEPT !.box = Without(@, m)], X)
BY GoneHeld DEF Settled

-----------------------------------------------------------------------------
(* The invariant. *)

InHand == IF torn = NoMsg THEN {} ELSE {torn}

\* The books are in order, but for the message between the two halves of its
\* sending; a contact that was deleted has nothing under way.
Books0 ==
    /\ Held(Engine, InHand, {}, dropped)
    /\ ~known => torn = NoMsg /\ box = <<>> /\ def = <<>>

Frame0 ==
    /\ known \in BOOLEAN /\ torn \in Msgs \cup {NoMsg}
    /\ dropped \in SUBSET Msgs /\ meddled \in 0..Budget

DInv == Books0 /\ Frame0

LEMMA EngineIs ==
    /\ Engine.near = near /\ Engine.ready = ready /\ Engine.sess = sess
    /\ Engine.sessRows = sessRows /\ Engine.hs = hs /\ Engine.box = box
    /\ Engine.def = def /\ Engine.awaited = awaited /\ Engine.retry = retry
    /\ Engine.rows = rows /\ Engine.status = status /\ Engine.left = left
BY DEF Engine

LEMMA BecomesIs ==
    ASSUME NEW e \in Engines, Becomes(e)
    PROVE  Engine' = e
<1>1. e = [near |-> e.near, ready |-> e.ready, sess |-> e.sess, sessRows |-> e.sessRows,
           hs |-> e.hs, box |-> e.box, def |-> e.def, awaited |-> e.awaited,
           retry |-> e.retry, rows |-> e.rows, status |-> e.status, left |-> e.left]
  BY DEF Engines
<1>2. Engine' = [near |-> e.near, ready |-> e.ready, sess |-> e.sess, sessRows |-> e.sessRows,
           hs |-> e.hs, box |-> e.box, def |-> e.def, awaited |-> e.awaited,
           retry |-> e.retry, rows |-> e.rows, status |-> e.status, left |-> e.left]
  BY DEF Becomes, Engine
<1> QED
  BY <1>1, <1>2

LEMMA InitDInv == ASSUME Init PROVE DInv
<1> USE DeliveryAssumption
<1>1. NoHs \in Handshakes
  <2>1. <<>> \in Seq(Rungs)
    OBVIOUS
  <2> QED
    BY <2>1 DEF NoHs, Handshakes
<1>2. /\ <<>> \in Seq(DeliveryRecords) /\ <<>> \in Seq(Msgs)
      /\ [armed |-> FALSE, step |-> 0] \in [armed : BOOLEAN, step : 0..RetrySteps]
      /\ [m \in Msgs |-> NoMsg] \in [Msgs -> Stored]
  BY DEF Stored
<1>3. Engine \in Engines
  BY <1>1, <1>2 DEF Init, Engine, Engines, Stored
<1>4. Once(<<>>) /\ ToSet(<<>>) = {}
  BY DEF Once, ToSet
<1>5. NoMsg \notin Promise
  BY DEF NoMsg, Promise
<1>6. Books(<<>>, <<>>, <<>>, status, {}, {}, {})
  BY <1>2, <1>4, <1>5, QueueNone DEF Books, Init
<1>7. Held(Engine, InHand, {}, dropped)
  BY <1>3, <1>6, EngineIs DEF Held, InHand, Init
<1> QED
  BY <1>7 DEF DInv, Books0, Frame0, Init

LEMMA QuietSettled ==
    ASSUME DInv, Quiet
    PROVE  Settled(Engine, dropped)
BY DEF DInv, Books0, InHand, Quiet, Settled

\* A handler of a known contact that leaves an engine settled keeps all.
LEMMA HandlesDInv ==
    ASSUME DInv, NEW e, Handles(e), Settled(e, dropped), meddled' \in 0..Budget
    PROVE  DInv'
<1>1. Engine' = e
  BY BecomesIs DEF Handles, Settled, Held
<1>2. torn' = NoMsg /\ known' = TRUE /\ dropped' = dropped
  BY DEF Handles, Quiet
<1>3. Held(e, {}, {}, dropped)
  BY DEF Settled
<1>4. InHand' = {}
  BY <1>2 DEF InHand
<1>5. Held(Engine, InHand, {}, dropped)'
  BY <1>1, <1>2, <1>3, <1>4
<1> QED
  BY <1>2, <1>5 DEF DInv, Books0, Frame0

LEMMA Meddled ==
    ASSUME DInv, Meddles
    PROVE  meddled' \in 0..Budget
BY DeliveryAssumption DEF DInv, Frame0, Meddles

LEMMA Unmeddled ==
    ASSUME DInv, UNCHANGED meddled
    PROVE  meddled' \in 0..Budget
BY DEF DInv, Frame0

LEMMA WriteDInv ==
    ASSUME DInv, NEW m \in Msgs, Write(m)
    PROVE  DInv'
<1>1. /\ Held(Engine, {}, {}, dropped) /\ torn = NoMsg /\ known
  BY DEF DInv, Books0, InHand, Write, Quiet
<1>2. Engine \in Engines /\ sess \subseteq sessRows /\ status \in [Msgs -> Stored]
  BY <1>1, EngineIs DEF Held, Books
<1>3. Books(box, def, rows, status, {}, {}, dropped)
  BY <1>1, EngineIs DEF Held
<1>4. status[m] = NoMsg /\ m \notin Ids(box) \cup Ids(def) /\ m \notin ToSet(rows)
  BY DEF Write
<1>5. Books(box, def, rows, status, {m}, {}, dropped)
  BY <1>3, <1>4 DEF Books
<1>6. "Pending" \in Stored
  BY RankFacts DEF Stored
<1>7. Books(box, def, rows, [status EXCEPT ![m] = "Pending"], {m}, {}, dropped)
  BY <1>5, <1>6, BooksNoted
<1>8. Books(box, def, rows, status', {m}, {}, dropped)
  BY <1>5, <1>7 DEF Write
<1>9. Engine' = [Engine EXCEPT !.status = status']
  BY DEF Write, Engine
<1>10. status' \in [Msgs -> Stored]
  BY <1>8 DEF Books
<1>11. Engine' \in Engines
  BY <1>2, <1>9, <1>10, EngineFields
<1>12. m # NoMsg /\ torn' = m
  BY DeliveryAssumption DEF Write
<1>13. InHand' = {m}
  BY <1>12 DEF InHand
<1>14. /\ Engine'.box = box /\ Engine'.def = def /\ Engine'.rows = rows
       /\ Engine'.status = status' /\ Engine'.sess = sess /\ Engine'.sessRows = sessRows
  BY DEF Write, Engine
<1>15. Held(Engine', {m}, {}, dropped)
  BY <1>2, <1>8, <1>11, <1>14 DEF Held
<1>16. Held(Engine, InHand, {}, dropped)'
  BY <1>13, <1>15 DEF Write
<1> QED
  BY <1>1, <1>12, <1>16 DEF DInv, Books0, Frame0, Write

LEMMA EnqueueDInv ==
    ASSUME DInv, Enqueue
    PROVE  DInv'
<1>1. torn \in Msgs /\ known
  BY DEF DInv, Books0, Frame0, Enqueue
<1>2. Held(Engine, {torn}, {}, dropped)
  BY DEF DInv, Books0, InHand, Enqueue
<1>3. Fresh(torn) \in DeliveryRecords /\ Fresh(torn).id = torn /\ ~Fresh(torn).fin
  BY <1>1, FreshType
<1>4. PICK e : e = Enqueued(Engine, Fresh(torn))
  OBVIOUS
<1>5. Held(e, {torn} \ {torn}, {} \ {torn}, dropped)
  BY <1>2, <1>3, <1>4, EnqueuedHeld
<1>6. Held(e, {}, {}, dropped)
  BY <1>5
<1>7. Engine' = e
  BY <1>4, <1>6, BecomesIs DEF Enqueue, Held
<1>8. Held(Engine, InHand, {}, dropped)'
  BY <1>6, <1>7 DEF Enqueue, InHand
<1> QED
  BY <1>1, <1>8 DEF DInv, Books0, Frame0, Enqueue

LEMMA HandshakeTimerDInv ==
    ASSUME DInv, HandshakeTimer
    PROVE  DInv'
<1>1. Settled(Engine, dropped)
  BY QuietSettled DEF HandshakeTimer, Handles
<1>2. PICK h : h = [hs EXCEPT !.timer = FALSE]
  OBVIOUS
<1>3. hs \in Handshakes
  BY <1>1, EngineIs DEF Settled, Held, Engines
<1>4. h \in Handshakes
  BY <1>2, <1>3 DEF Handshakes
<1>5. PICK e : e = [Engine EXCEPT !.hs.timer = FALSE]
  OBVIOUS
<1>6. e = [Engine EXCEPT !.hs = h]
  BY <1>2, <1>5 DEF Engine
<1>7. Settled(e, dropped)
  BY <1>1, <1>4, <1>6, SetSettled
<1>8. CASE hs.tried = <<>>
  <2>1. Handles(e)
    BY <1>5, <1>8 DEF HandshakeTimer
  <2> QED
    BY <1>7, <2>1, HandlesDInv, Unmeddled DEF HandshakeTimer
<1>9. CASE hs.tried # <<>>
  <2>1. Handles(Failed(e, Last(hs.tried), "silent"))
    BY <1>5, <1>9 DEF HandshakeTimer
  <2>2. Last(hs.tried) \in Rungs
    BY <1>3, <1>9, LastRung DEF Handshakes
  <2>3. Settled(Failed(e, Last(hs.tried), "silent"), dropped)
    BY <1>7, <2>2, FailedSettled DEF Whys
  <2> QED
    BY <2>1, <2>3, HandlesDInv, Unmeddled DEF HandshakeTimer
<1> QED
  BY <1>8, <1>9

LEMMA BoxEntry ==
    ASSUME NEW X, Settled(Engine, X), NEW i \in DOMAIN box
    PROVE  box[i] \in DeliveryRecords /\ box[i].id \in Msgs /\ box[i].id \in Ids(box)
           /\ box[i].via \in Rungs \cup {NoRung}
<1>1. box \in Seq(DeliveryRecords)
  BY EngineIs DEF Settled, Held, Engines
<1>2. box[i] \in DeliveryRecords
  BY <1>1
<1> QED
  BY <1>2 DEF DeliveryRecords, Ids

LEMMA DeliveryTimerDInv ==
    ASSUME DInv, NEW i \in DOMAIN box, DeliveryTimer(i)
    PROVE  DInv'
<1>1. Settled(Engine, dropped)
  BY QuietSettled DEF DeliveryTimer, Handles
<1>2. PICK m : m = box[i].id
  OBVIOUS
<1>3. m \in Msgs /\ box[i].via \in Rungs \cup {NoRung}
  BY <1>1, <1>2, BoxEntry
<1>4. CASE Direct(box[i].via) /\ m \in Silent
  <2>1. Handles(Retired([Engine EXCEPT !.box = Without(@, m)], m))
    BY <1>2, <1>4 DEF DeliveryTimer
  <2>2. Settled(Retired([Engine EXCEPT !.box = Without(@, m)], m), dropped)
    BY <1>1, <1>3, <1>4, ForgottenSettled
  <2> QED
    BY <2>1, <2>2, HandlesDInv, Unmeddled DEF DeliveryTimer
<1>5. CASE ~(Direct(box[i].via) /\ m \in Silent)
  <2>1. Handles(Failed(Engine, box[i].via, "silent"))
    BY <1>2, <1>5 DEF DeliveryTimer
  <2>2. Settled(Failed(Engine, box[i].via, "silent"), dropped)
    BY <1>1, <1>3, FailedSettled DEF Whys
  <2> QED
    BY <2>1, <2>2, HandlesDInv, Unmeddled DEF DeliveryTimer
<1> QED
  BY <1>4, <1>5

LEMMA DiscoveryTimerDInv ==
    ASSUME DInv, DiscoveryTimer
    PROVE  DInv'
<1>1. Settled(Engine, dropped)
  BY QuietSettled DEF DiscoveryTimer, Handles
<1>2. Settled(Resumed(Engine), dropped)
  BY <1>1, FlushedSettled
<1> QED
  BY <1>2, HandlesDInv, Unmeddled DEF DiscoveryTimer

LEMMA RetryTimerDInv ==
    ASSUME DInv, RetryTimer
    PROVE  DInv'
<1>1. Settled(Engine, dropped)
  BY QuietSettled DEF RetryTimer, Handles
<1>2. PICK r : r = [retry EXCEPT !.armed = FALSE]
  OBVIOUS
<1>3. r \in [armed : BOOLEAN, step : 0..RetrySteps]
  <2>1. retry \in [armed : BOOLEAN, step : 0..RetrySteps]
    BY <1>1, EngineIs DEF Settled, Held, Engines
  <2> QED
    BY <1>2, <2>1
<1>4. PICK e0 : e0 = [Engine EXCEPT !.retry.armed = FALSE]
  OBVIOUS
<1>5. e0 = [Engine EXCEPT !.retry = r]
  BY <1>2, <1>4 DEF Engine
<1>6. Settled(e0, dropped)
  BY <1>1, <1>3, <1>5, SetSettled
<1>7. PICK e1 : e1 = Retried(e0)
  OBVIOUS
<1>8. Settled(e1, dropped)
  BY <1>6, <1>7, RetriedSettled
<1>9. PICK e2 : e2 = OverBox(e1, [about |-> "retry"])
  OBVIOUS
<1>10. [about |-> "retry"] \in OutboxPasses
  BY DEF OutboxPasses
<1>11. Settled(e2, dropped)
  BY <1>8, <1>9, <1>10, OverBoxSettled
<1>12. Settled(RetryArmed(e2), dropped)
  BY <1>11, RetryArmedHeld DEF Settled
<1>13. Handles(RetryArmed(e2)) \/ Handles(e2)
  BY <1>4, <1>7, <1>9 DEF RetryTimer
<1> QED
  BY <1>11, <1>12, <1>13, HandlesDInv, Unmeddled DEF RetryTimer

LEMMA HandshakeHandedDInv ==
    ASSUME DInv, HandshakeHanded
    PROVE  DInv'
<1>1. Settled(Engine, dropped)
  BY QuietSettled DEF HandshakeHanded, Handles
<1>2. PICK h : h = [hs EXCEPT !.timer = FALSE]
  OBVIOUS
<1>3. h \in Handshakes
  <2>1. hs \in Handshakes
    BY <1>1, EngineIs DEF Settled, Held, Engines
  <2> QED
    BY <1>2, <2>1 DEF Handshakes
<1>4. PICK e : e = [Engine EXCEPT !.hs.timer = FALSE]
  OBVIOUS
<1>5. e = [Engine EXCEPT !.hs = h]
  BY <1>2, <1>4 DEF Engine
<1>6. Settled(e, dropped)
  BY <1>1, <1>3, <1>5, SetSettled
<1>7. Handles(e)
  BY <1>4 DEF HandshakeHanded
<1> QED
  BY <1>6, <1>7, HandlesDInv, Unmeddled DEF HandshakeHanded

LEMMA DeliveryHandedDInv ==
    ASSUME DInv, NEW i \in DOMAIN box, DeliveryHanded(i)
    PROVE  DInv'
<1>1. Settled(Engine, dropped)
  BY QuietSettled DEF DeliveryHanded, Handles
<1>2. PICK m \in Msgs : m = box[i].id
  BY <1>1, BoxEntry
<1>3. "Sent" \in DOMAIN Rank /\ "Sent" \in Final /\ "Sent" \notin Promise
  BY RankFacts DEF Final, Promise
<1>4. PICK n : n = Noted(Engine, m, "Sent")
  OBVIOUS
<1>5. Settled(n, dropped) /\ (m \in Silent \/ n.status[m] \notin Promise)
  BY <1>1, <1>3, <1>4, NotedHeld DEF Settled
<1>6. PICK e : e = Retired([n EXCEPT !.box = Without(@, m)], m)
  OBVIOUS
<1>7. Settled(e, dropped)
  BY <1>5, <1>6, ForgottenSettled
<1>8. Noted([Engine EXCEPT !.box = Without(@, m)], m, "Sent") = [n EXCEPT !.box = Without(@, m)]
  BY <1>4 DEF Noted, Engine
<1>9. Handles(e)
  BY <1>2, <1>6, <1>8 DEF DeliveryHanded
<1> QED
  BY <1>7, <1>9, HandlesDInv, Unmeddled DEF DeliveryHanded

LEMMA HandshakeResponseDInv ==
    ASSUME DInv, NEW via \in Rungs, HandshakeResponse(via)
    PROVE  DInv'
<1>1. Settled(Engine, dropped)
  BY QuietSettled DEF HandshakeResponse, Handles
<1>2. NoHs \in Handshakes
  <2>1. <<>> \in Seq(Rungs)
    OBVIOUS
  <2> QED
    BY <2>1 DEF NoHs, Handshakes
<1>3. PICK e : e = [Engine EXCEPT !.hs = NoHs]
  OBVIOUS
<1>4. Settled(e, dropped)
  BY <1>1, <1>2, <1>3, SetSettled
<1>5. Settled(Retried(Flushed(Present(Admitted(e, via), via))), dropped)
  BY <1>4, AdmittedSettled, PresentSettled, FlushedSettled, RetriedSettled
<1>6. Handles(Retried(Flushed(Present(Admitted(e, via), via))))
  BY <1>3 DEF HandshakeResponse
<1> QED
  BY <1>5, <1>6, HandlesDInv, Unmeddled DEF HandshakeResponse

LEMMA HandshakeFirstDInv ==
    ASSUME DInv, NEW via \in Rungs, HandshakeFirst(via)
    PROVE  DInv'
<1>1. Settled(Engine, dropped)
  BY QuietSettled DEF HandshakeFirst, Handles
<1>2. Settled(Retried(Present(Admitted(Engine, via), via)), dropped)
  BY <1>1, AdmittedSettled, PresentSettled, RetriedSettled
<1> QED
  BY <1>2, HandlesDInv, Meddled DEF HandshakeFirst

LEMMA FrameDInv ==
    ASSUME DInv, NEW via \in Rungs, Frame(via)
    PROVE  DInv'
<1>1. Settled(Engine, dropped)
  BY QuietSettled DEF Frame, Handles
<1>2. Settled(Heeded(Engine, via), dropped)
  BY <1>1, HeededSettled
<1> QED
  BY <1>2, HandlesDInv, Meddled DEF Frame

LEMMA ReceiptDInv ==
    ASSUME DInv, NEW m \in Msgs, NEW via \in Rungs, NEW seen \in {"Delivered", "Read"},
           Receipt(m, via, seen)
    PROVE  DInv'
<1>1. Settled(Engine, dropped)
  BY QuietSettled DEF Receipt, Handles
<1>2. PICK h : h = Heeded(Engine, via)
  OBVIOUS
<1>3. Settled(h, dropped)
  BY <1>1, <1>2, HeededSettled
<1>4. seen \in DOMAIN Rank /\ seen \in Final /\ seen \notin Promise
  BY RankFacts DEF Final, Promise
<1>5. PICK n : n = Noted(h, m, seen)
  OBVIOUS
<1>6. Settled(n, dropped) /\ (m \in Silent \/ n.status[m] \notin Promise)
  BY <1>3, <1>4, <1>5, NotedHeld DEF Settled
<1>7. Settled([Retired(n, m) EXCEPT !.box = Without(@, m)], dropped)
  BY <1>6, ForgottenSettled
<1>8. Handles([Retired(n, m) EXCEPT !.box = Without(@, m)])
  BY <1>2, <1>5 DEF Receipt
<1> QED
  BY <1>7, <1>8, HandlesDInv, Meddled DEF Receipt

LEMMA HeardDInv ==
    ASSUME DInv, Heard
    PROVE  DInv'
<1>1. Settled(Engine, dropped)
  BY QuietSettled DEF Heard, Handles
<1>2. PICK e0 : e0 = [Engine EXCEPT !.near = TRUE]
  OBVIOUS
<1>3. Settled(e0, dropped)
  BY <1>1, <1>2, SetSettled
<1>4. PICK r : r = [retry EXCEPT !.step = 0]
  OBVIOUS
<1>5. r \in [armed : BOOLEAN, step : 0..RetrySteps]
  <2>1. retry \in [armed : BOOLEAN, step : 0..RetrySteps]
    BY <1>1, EngineIs DEF Settled, Held, Engines
  <2> QED
    BY <1>4, <2>1, DeliveryAssumption
<1>6. PICK e : e = [Engine EXCEPT !.near = TRUE, !.retry.step = 0]
  OBVIOUS
<1>7. e = [e0 EXCEPT !.retry = r]
  BY <1>2, <1>4, <1>6 DEF Engine
<1>8. Settled(e, dropped)
  BY <1>3, <1>5, <1>7, SetSettled
<1>9. PICK f : f = Resumed(e)
  OBVIOUS
<1>10. Settled(f, dropped)
  BY <1>8, <1>9, FlushedSettled
<1>11. Settled(Retried(f), dropped)
  BY <1>10, RetriedSettled
<1>12. Handles(Retried(f)) \/ Handles(f)
  BY <1>6, <1>9 DEF Heard
<1> QED
  BY <1>10, <1>11, <1>12, HandlesDInv, Meddled DEF Heard

LEMMA PresenceLostDInv ==
    ASSUME DInv, PresenceLost
    PROVE  DInv'
<1>1. Settled(Engine, dropped)
  BY QuietSettled DEF PresenceLost, Handles
<1>2. Settled([Engine EXCEPT !.near = FALSE], dropped)
  BY <1>1, SetSettled
<1> QED
  BY <1>2, HandlesDInv, Meddled DEF PresenceLost

LEMMA TransportReadyDInv ==
    ASSUME DInv, NEW t \in Rungs, TransportReady(t)
    PROVE  DInv'
<1>1. Settled(Engine, dropped)
  BY QuietSettled DEF TransportReady, Handles
<1>2. PICK e : e = [Engine EXCEPT !.ready = @ \cup {t}]
  OBVIOUS
<1>3. ready \cup {t} \in SUBSET Rungs
  BY <1>1, EngineIs DEF Settled, Held, Engines
<1>4. e = [Engine EXCEPT !.ready = ready \cup {t}]
  BY <1>2, EngineIs
<1>5. Settled(Retried(e), dropped)
  BY <1>1, <1>3, <1>4, SetSettled, RetriedSettled
<1>6. Handles(Retried(e))
  BY <1>2 DEF TransportReady
<1> QED
  BY <1>5, <1>6, HandlesDInv, Meddled DEF TransportReady

LEMMA TransportLostDInv ==
    ASSUME DInv, NEW t \in Rungs, TransportLost(t)
    PROVE  DInv'
<1>1. Settled(Engine, dropped)
  BY QuietSettled DEF TransportLost, Handles
<1>2. PICK e : e = [Engine EXCEPT !.ready = @ \ {t}]
  OBVIOUS
<1>3. ready \ {t} \in SUBSET Rungs
  BY <1>1, EngineIs DEF Settled, Held, Engines
<1>4. e = [Engine EXCEPT !.ready = ready \ {t}]
  BY <1>2, EngineIs
<1>5. Settled(e, dropped)
  BY <1>1, <1>3, <1>4, SetSettled
<1>6. Settled(Failed(e, t, "unreachable"), dropped)
  BY <1>5, FailedSettled DEF Whys
<1>7. Handles(Failed(e, t, "unreachable")) \/ Handles(e)
  BY <1>2 DEF TransportLost
<1> QED
  BY <1>5, <1>6, <1>7, HandlesDInv, Meddled DEF TransportLost

LEMMA NetworkChangedDInv ==
    ASSUME DInv, NetworkChanged
    PROVE  DInv'
<1>1. Settled(Engine, dropped)
  BY QuietSettled DEF NetworkChanged, Handles
<1>2. Settled(Retried([Engine EXCEPT !.near = FALSE, !.awaited = FALSE]), dropped)
  BY <1>1, SetSettled, RetriedSettled
<1> QED
  BY <1>2, HandlesDInv, Meddled DEF NetworkChanged

LEMMA LinkDownDInv ==
    ASSUME DInv, NEW via \in Rungs, NEW why \in {"dropped", "unreachable"}, LinkDown(via, why)
    PROVE  DInv'
<1>1. Settled(Engine, dropped)
  BY QuietSettled DEF LinkDown, Handles
<1>2. Settled(Failed(Engine, via, why), dropped)
  BY <1>1, FailedSettled DEF Whys
<1> QED
  BY <1>2, HandlesDInv, Meddled DEF LinkDown

LEMMA DeleteContactDInv ==
    ASSUME DInv, DeleteContact
    PROVE  DInv'
<1>1. Held(Engine, {}, {}, dropped) /\ torn = NoMsg
  BY QuietSettled DEF DeleteContact, Settled, Quiet
<1>2. /\ Engine \in Engines /\ sess \subseteq sessRows
      /\ Books(box, def, rows, status, {}, {}, dropped)
  BY <1>1, EngineIs DEF Held
<1>3. NoHs \in Handshakes
  <2>1. <<>> \in Seq(Rungs)
    OBVIOUS
  <2> QED
    BY <2>1 DEF NoHs, Handshakes
<1>4. PICK r : r = Those(rows, Msgs \ Ids(def))
  OBVIOUS
<1>5. r \in Seq(Msgs) /\ Once(r) /\ ToSet(r) = ToSet(rows) \cap (Msgs \ Ids(def))
  BY <1>2, <1>4, RowsLess DEF Books
<1>6. PICK e : e = [Engine EXCEPT !.near = FALSE, !.sess = {}, !.sessRows = {}, !.hs = NoHs,
                    !.box = <<>>, !.def = <<>>, !.awaited = FALSE, !.rows = r]
  OBVIOUS
<1>7. /\ e \in Engines /\ e.sess = {} /\ e.sessRows = {} /\ e.box = <<>> /\ e.def = <<>>
      /\ e.rows = r /\ e.status = status
  <2>1. <<>> \in Seq(DeliveryRecords)
    OBVIOUS
  <2> QED
    BY <1>2, <1>3, <1>5, <1>6, <2>1, EngineIs DEF Engines
<1>8. PICK X : X = dropped \cup Ids(box) \cup Ids(def)
  OBVIOUS
<1>9. Books(<<>>, <<>>, r, status, {}, {}, X)
  <2>1. ToSet(r) \ X \subseteq {}
    BY <1>2, <1>5, <1>8 DEF Books
  <2>2. \A k \in Msgs \ (Silent \cup X) : ~TornSteps => status[k] \notin Promise
    BY <1>2, <1>8 DEF Books
  <2> QED
    BY <1>2, <1>5, <2>1, <2>2, QueueNone DEF Books
<1>10. Held(e, {}, {}, X)
  BY <1>7, <1>9 DEF Held
<1>11. Becomes(e)
  BY <1>4, <1>6, EngineIs DEF DeleteContact
<1>12. Engine' = e
  BY <1>7, <1>11, BecomesIs
<1>13. dropped' = X /\ torn' = NoMsg /\ known' = FALSE /\ box' = <<>> /\ def' = <<>>
       /\ meddled' = meddled
  BY <1>1, <1>7, <1>8, <1>11 DEF DeleteContact, Becomes
<1>14. InHand' = {}
  BY <1>13 DEF InHand
<1>15. Held(Engine, InHand, {}, dropped)'
  BY <1>10, <1>12, <1>13, <1>14
<1>16. X \in SUBSET Msgs
  BY <1>2, <1>8, QueueMsgs DEF Books, DInv, Frame0
<1> QED
  BY <1>13, <1>15, <1>16 DEF DInv, Books0, Frame0

LEMMA AddContactDInv ==
    ASSUME DInv, AddContact
    PROVE  DInv'
<1>1. Engine' = Engine /\ InHand' = InHand
  BY DEF AddContact, Engine, InHand
<1>2. Held(Engine, InHand, {}, dropped)'
  BY <1>1 DEF DInv, Books0, AddContact
<1> QED
  BY <1>2 DEF DInv, Books0, Frame0, AddContact

LEMMA RestartDInv ==
    ASSUME DInv, Restart
    PROVE  DInv'
<1>1. /\ Engine \in Engines /\ sess \subseteq sessRows
      /\ Books(box, def, rows, status, InHand, {}, dropped)
  BY EngineIs DEF DInv, Books0, Held
<1>2. PICK kept : kept = IF known THEN rows ELSE <<>>
  OBVIOUS
<1>3. rows \in Seq(Msgs) /\ Once(rows)
  BY <1>1 DEF Books
<1>4. kept \in Seq(Msgs) /\ Once(kept)
  BY <1>2, <1>3 DEF Once
<1>5. Len(kept) \in Nat /\ DOMAIN kept = 1..Len(kept)
  BY <1>4
<1>6. PICK q : q = [i \in DOMAIN kept |-> Fresh(kept[i])]
  OBVIOUS
<1>7. \A i \in DOMAIN kept : /\ kept[i] \in Msgs
                             /\ Fresh(kept[i]) \in DeliveryRecords
                             /\ Fresh(kept[i]).id = kept[i] /\ ~Fresh(kept[i]).fin
  <2> TAKE i \in DOMAIN kept
  <2>1. kept[i] \in Msgs
    BY <1>4, <1>5
  <2> QED
    BY <2>1, FreshType
<1>8. q \in Seq(DeliveryRecords) /\ DOMAIN q = DOMAIN kept
  BY <1>5, <1>6, <1>7
<1>9. Queue(q)
  BY <1>4, <1>6, <1>7, <1>8 DEF Queue, Once
<1>10. Ids(q) = ToSet(kept)
  BY <1>6, <1>7, <1>8 DEF Ids, ToSet
<1>11. NoHs \in Handshakes
  <2>1. <<>> \in Seq(Rungs)
    OBVIOUS
  <2> QED
    BY <2>1 DEF NoHs, Handshakes
<1>12. PICK e : e = [Engine EXCEPT !.near = FALSE, !.ready = {}, !.sess = sessRows, !.hs = NoHs,
                    !.box = <<>>, !.def = q, !.awaited = FALSE,
                    !.retry = [armed |-> FALSE, step |-> 0], !.rows = kept]
  OBVIOUS
<1>13. /\ e \in Engines /\ e.sess = sessRows /\ e.sessRows = sessRows
       /\ e.box = <<>> /\ e.def = q /\ e.rows = kept /\ e.status = status
  <2>1. <<>> \in Seq(DeliveryRecords)
    OBVIOUS
  <2>2. [armed |-> FALSE, step |-> 0] \in [armed : BOOLEAN, step : 0..RetrySteps]
    BY DeliveryAssumption
  <2> QED
    BY <1>1, <1>4, <1>8, <1>11, <1>12, <2>1, <2>2, EngineIs DEF Engines
<1>14. Books(<<>>, q, kept, status, {}, {}, dropped)
  <2>1. ASSUME ~TornSteps, NEW k \in Msgs \ (Silent \cup dropped), status[k] \in Promise
        PROVE  k \in Ids(q)
    <3>1. torn = NoMsg
      BY <2>1 DEF Restart
    <3>2. k \in Ids(box) \cup Ids(def)
      BY <1>1, <2>1, <3>1 DEF Books, InHand
    <3>3. known
      BY <3>2, QueueNone DEF DInv, Books0
    <3>4. k \in ToSet(rows)
      BY <1>1, <3>2, <2>1 DEF Books
    <3> QED
      BY <1>2, <1>10, <3>3, <3>4
  <2>2. status \in [Msgs -> Stored]
    BY <1>1 DEF Books
  <2> QED
    BY <1>4, <1>9, <1>10, <2>1, <2>2, QueueNone DEF Books
<1>15. Settled(Retried(e), dropped)
  BY <1>13, <1>14, RetriedSettled DEF Settled, Held
<1>16. Becomes(Retried(e))
  BY <1>2, <1>6, <1>12 DEF Restart
<1>17. Engine' = Retried(e)
  BY <1>15, <1>16, BecomesIs DEF Settled, Held
<1>18. torn' = NoMsg /\ known' = known /\ dropped' = dropped
  BY DEF Restart
<1>19. InHand' = {}
  BY <1>18 DEF InHand
<1>20. Held(Engine, InHand, {}, dropped)'
  BY <1>15, <1>17, <1>18, <1>19 DEF Settled
<1>21. meddled' \in 0..Budget
  BY Meddled DEF Restart
<1>22. ASSUME ~known
       PROVE  box' = <<>> /\ def' = <<>>
  <2>1. q = <<>>
    BY <1>2, <1>6, <1>22
  <2>2. [e EXCEPT !.def = <<>>] = e
    BY <1>13, <2>1 DEF Engines
  <2>3. Retried(e) = Passed(e, <<>>, [about |-> "deferred"])
    BY <1>13, <2>1, <2>2 DEF Retried
  <2>4. Passed(e, <<>>, [about |-> "deferred"]) = e
    <3>0. <<>> \in Seq(Msgs)
      OBVIOUS
    <3>1. PICK z \in Seq(Msgs) : z = <<>>
      BY <3>0
    <3>2. PICK p : p = [about |-> "deferred"]
      OBVIOUS
    <3>3. PICK f : f[0] = e /\ f[Len(z)] = Passed(e, z, p)
      BY PassSteps
    <3>4. Len(z) = 0
      BY <3>1
    <3> QED
      BY <3>1, <3>2, <3>3, <3>4
  <2> QED
    BY <1>13, <1>16, <2>1, <2>3, <2>4 DEF Becomes
<1> QED
  BY <1>18, <1>20, <1>21, <1>22 DEF DInv, Books0, Frame0

LEMMA NextDInv ==
    ASSUME DInv, [Next]_vars
    PROVE  DInv'
<1> USE DeliveryAssumption
<1>1. CASE \E m \in Msgs : Write(m)
  BY <1>1, WriteDInv
<1>2. CASE Enqueue
  BY <1>2, EnqueueDInv
<1>3. CASE Timers
  BY <1>3, HandshakeTimerDInv, DeliveryTimerDInv, DiscoveryTimerDInv, RetryTimerDInv DEF Timers
<1>4. CASE HandshakeHanded
  BY <1>4, HandshakeHandedDInv
<1>5. CASE \E i \in DOMAIN box : DeliveryHanded(i)
  BY <1>5, DeliveryHandedDInv
<1>6. CASE Answers
  BY <1>6, HandshakeResponseDInv DEF Answers
<1>7. CASE \E via \in Carried : HandshakeFirst(via) \/ Frame(via)
  BY <1>7, HandshakeFirstDInv, FrameDInv
<1>8. CASE \E m \in Msgs, via \in Carried, seen \in {"Delivered", "Read"} : Receipt(m, via, seen)
  BY <1>8, ReceiptDInv
<1>9. CASE Heard \/ PresenceLost \/ NetworkChanged
  BY <1>9, HeardDInv, PresenceLostDInv, NetworkChangedDInv
<1>10. CASE \E t \in Carried : TransportReady(t) \/ TransportLost(t)
  BY <1>10, TransportReadyDInv, TransportLostDInv
<1>11. CASE \E via \in Carried, why \in {"dropped", "unreachable"} : LinkDown(via, why)
  BY <1>11, LinkDownDInv
<1>12. CASE DeleteContact \/ AddContact
  BY <1>12, DeleteContactDInv, AddContactDInv
<1>13. CASE Restart
  BY <1>13, RestartDInv
<1>14. CASE UNCHANGED vars
  <2>1. Engine' = Engine /\ InHand' = InHand
    BY <1>14 DEF vars, Engine, InHand
  <2>2. Held(Engine, InHand, {}, dropped)'
    BY <1>14, <2>1 DEF DInv, Books0, vars
  <2> QED
    BY <1>14, <2>2 DEF DInv, Books0, Frame0, vars
<1> QED
  BY <1>1, <1>2, <1>3, <1>4, <1>5, <1>6, <1>7, <1>8, <1>9, <1>10, <1>11, <1>12, <1>13, <1>14
     DEF Next

LEMMA DInvAlways == Spec => []DInv
<1>1. Init => DInv
  BY InitDInv
<1>2. DInv /\ [Next]_vars => DInv'
  BY NextDInv
<1> QED
  BY <1>1, <1>2, PTL DEF Spec

-----------------------------------------------------------------------------
(* Theorems. *)

\* In every behaviour each variable has its type, and only a family whose
\* session is on disk has a session that sends.
THEOREM TypeCorrect == Spec => []TypeOK
<1>1. DInv => TypeOK
  BY EngineIs DEF DInv, Books0, Frame0, Held, TypeOK
<1> QED
  BY <1>1, DInvAlways, PTL

\* A message shown as pending or waiting is held in memory and on disk, for any
\* queue, ladder and schedule, whatever fails, is put off, evicted or restarted,
\* provided that the process does not die between the history and the queue.
THEOREM PromisesKept ==
    ASSUME ~TornSteps
    PROVE  Spec => []PromiseKept
<1>1. ASSUME DInv PROVE PromiseKept
  <2>1. Books(box, def, rows, status, InHand, {}, dropped)
    BY <1>1, EngineIs DEF DInv, Books0, Held
  <2> SUFFICES ASSUME NEW m \in Msgs \ (Silent \cup dropped),
                      status[m] \in {"Pending", "Waiting"}, torn # m
               PROVE  m \in Queued /\ m \in ToSet(rows)
    BY DEF PromiseKept
  <2>2. m \in Ids(box) \cup Ids(def) \cup InHand
    BY <2>1 DEF Books, Promise
  <2>3. m \notin InHand
    BY DEF InHand
  <2>4. m \in ToSet(rows)
    BY <2>1, <2>2, <2>3 DEF Books
  <2> QED
    BY <2>2, <2>3, <2>4 DEF Queued
<1> QED
  BY <1>1, DInvAlways, PTL

\* The rows on disk are those of the messages under way and no other's, and no
\* message is under way twice, a death between history and queue included.
THEOREM RowsAreOwned == Spec => []RowsOwned
<1>1. ASSUME DInv PROVE RowsOwned
  <2>1. Books(box, def, rows, status, InHand, {}, dropped)
    BY <1>1, EngineIs DEF DInv, Books0, Held
  <2>2. ASSUME torn = NoMsg
        PROVE  ToSet(rows) \ dropped = Queued \ dropped
    <3>1. InHand = {}
      BY <2>2 DEF InHand
    <3> QED
      BY <2>1, <3>1 DEF Books, Queued
  <2>3. /\ IsFiniteSet(Ids(box)) /\ Cardinality(Ids(box)) = Len(box)
        /\ IsFiniteSet(Ids(def)) /\ Cardinality(Ids(def)) = Len(def)
        /\ Len(box) \in Nat /\ Len(def) \in Nat
    BY <2>1, QueueLen, QueueMsgs DEF Books
  <2>4. Ids(box) \cap Ids(def) = {}
    BY <2>1 DEF Books
  <2>5. Cardinality(Ids(box) \cup Ids(def)) =
            Cardinality(Ids(box)) + Cardinality(Ids(def)) - Cardinality(Ids(box) \cap Ids(def))
    BY <2>3, FS_Union
  <2>6. Cardinality(Ids(box) \cap Ids(def)) = 0
    BY <2>4, FS_EmptySet
  <2>7. Len(box) + Len(def) = Cardinality(Queued)
    BY <2>3, <2>5, <2>6 DEF Queued
  <2> QED
    BY <2>2, <2>7 DEF RowsOwned
<1> QED
  BY <1>1, DInvAlways, PTL
=============================================================================
