--------------------------- MODULE CompanionProofs ---------------------------
(***************************************************************************)
(* Companion for any jobs, places, requests, wires, handshakes and         *)
(* accidents: a message is its job's files in order, and is made once      *)
(* unless an order to send went unanswered.                                *)
(*                                                                         *)
(* The invariant has four layers, each inductive with those before it.     *)
(*   Sound     types and bounds; nothing names a job or a place that is    *)
(*             still to come.                                              *)
(*   Orderly   frames lie in the order of their jobs and sessions, so that *)
(*             what a session brings late is of no job after it; no place  *)
(*             is given twice.                                             *)
(*   Faithful  a request of a job that took no other's answer names the    *)
(*             places of that job's files, in their order.                 *)
(*   Counted   the messages of a job and the orders that may still be      *)
(*             obeyed are no more than the links lost with an order        *)
(*             unanswered, and one once the job is ordered.                *)
(* A step is first brought to the few forms that matter to a layer (what   *)
(* the table, the upload and the queues become) and the layer is shown to  *)
(* outlive those.                                                          *)
(***************************************************************************)
EXTENDS Companion, QueueProofs, FiniteSetTheorems, TLAPS

\* Jobs opened so far; the one under way is the last of them.
Opened == Cardinality({i \in Jobs : told[i] # "none"})

Steps == {"offer", "put", "send"}
Plains == {"none", "hello", "chats", "staged"}

-----------------------------------------------------------------------------
(* What holds of every job.                                                *)

\* A request of one of the jobs up to top, that names places below new.
WellAsked(a, new, top) ==
    /\ a.job <= top
    /\ a.kind \in Plains <=> a.job = 0
    /\ \A i \in DOMAIN a.ids : a.ids[i] < new
    /\ a.kind \in {"offer", "put"} => a.which \in DOMAIN Sizes[a.job]
    /\ a.kind = "put" => Len(a.ids) = 1

\* An answer to a request of its kind.
WellAnswered(f, new) ==
    /\ f.id < new
    /\ f.ans = "offer" => f.ask.kind = "offer"
    /\ f.ans = "staged" => f.ask.kind = "staged"
    /\ \A x \in f.files : x.id < new /\ x.missing \subseteq 0..(x.total - 1)

AskedUp(q, new, top) ==
    \A i \in DOMAIN q : WellAsked(q[i].ask, new, top) /\ (q[i].type = "hello" => q[i].ask.kind = "none")

AskedDown(q, new, top) ==
    \A i \in DOMAIN q : q[i].type = "answer" =>
        WellAsked(q[i].ask, new, top) /\ WellAnswered(q[i], new)

AskedOut(q, new, top) == \A i \in DOMAIN q : WellAsked(q[i], new, top)

WellPlaced(p) == \A g \in p.staged : g.id < p.fresh /\ g.pos \in DOMAIN Sizes[g.job]

WellUp(u, new, top) ==
    /\ u.job = 0 <=> u = NoUpload
    /\ u.job # 0 => u.job = top /\ u.at >= 1
    /\ \A i \in DOMAIN u.ids : u.ids[i] < new

OpenedInOrder == \A i \in Jobs : told[i] # "none" <=> i <= Opened

Letters == [text : Jobs, files : Seq(Places)]

DeskOK(d, new, top) ==
    /\ d \in Desks /\ Len(d.out) <= OutLimit
    /\ AskedOut(d.out, new, top) /\ WellUp(d.upload, new, top)

PhoneOK(p) ==
    /\ p \in Phones /\ p.fresh >= 1 /\ WellPlaced(p)
    /\ IsFiniteSet(p.staged) /\ Cardinality(p.staged) <= MaxUploads

NetOK(n, new, top) == n \in Nets /\ AskedUp(n.up, new, top) /\ AskedDown(n.down, new, top)

BooksOK ==
    /\ OpenedInOrder
    /\ messages \in Seq(Letters)
    /\ told \in [Jobs -> Fates] /\ unheard \in [Jobs -> Nat]
    /\ deaf \in BOOLEAN /\ mixed \subseteq Jobs
    /\ tries \in 0..MaxTries /\ accidents \in 0..Accidents

\* Types and bounds of everything, and nothing of what is still to come.
Sound ==
    /\ DeskOK(desk, phone.fresh, Opened)
    /\ PhoneOK(phone)
    /\ NetOK(net, phone.fresh, Opened)
    /\ BooksOK

-----------------------------------------------------------------------------
(* What holds of the jobs that took no other's answer.                     *)

\* The places named by ids are, one by one, those of the files of job j.
Mine(ids, j, staged) ==
    \A i \in DOMAIN ids : \A g \in staged : g.id = ids[i] => g.job = j /\ g.pos = i

\* ... of no job after j.
NotLater(ids, j, staged) ==
    \A i \in DOMAIN ids : \A g \in staged : g.id = ids[i] => g.job <= j

Aimed(a, staged, mix) ==
    /\ a.kind = "put" /\ a.job \notin mix =>
           \A g \in staged : g.id = a.ids[1] => g.job = a.job /\ g.pos = a.which
    /\ a.kind = "send" /\ a.job \notin mix =>
           Len(a.ids) = Len(Sizes[a.job]) /\ Mine(a.ids, a.job, staged)

AimedUp(q, staged, mix) == \A i \in DOMAIN q : Aimed(q[i].ask, staged, mix)

\* Requests go up in the order of their jobs.
InOrder(q) ==
    \A i, k \in DOMAIN q : i < k => q[k].ask.job = 0 \/ q[i].ask.job <= q[k].ask.job

\* A place with another's bytes is of a job that is over.
Spoilt(g, q, top) ==
    g.job < top /\ \A i \in DOMAIN q : q[i].ask.job = 0 \/ g.job < q[i].ask.job
SpoiltAreOver(q, staged, top, mix) ==
    \A g \in staged : g.alien /\ g.job \notin mix => Spoilt(g, q, top)

\* A number is of one place.
Apart(staged) == \A g, h \in staged : g.id = h.id => g = h

\* An answer is true of the places that are still there.
True(f, staged) ==
    /\ f.ans = "offer" =>
           \A g \in staged : g.id = f.id => g.job = f.ask.job /\ g.pos = f.ask.which
    /\ f.ans = "offer" => f.total = Sizes[f.ask.job][f.ask.which]
    /\ f.ans = "done" /\ f.ask.kind = "put" =>
           \A g \in staged : g.id = f.ask.ids[1] => f.ask.n \in g.have
    /\ \A x \in f.files : \A g \in staged :
           g.id = x.id => Missing(g) \subseteq x.missing /\ x.total = Total(g)

TrueDown(q, staged) == \A i \in DOMAIN q : q[i].type = "answer" => True(q[i], staged)

\* What the upload u has put so far.
Laying(u, staged) ==
    /\ u.next < u.total
    /\ \A g \in staged : g.id = u.ids[u.at] =>
           u.total = Total(g) /\ 0..(u.next - 1) \subseteq g.have
Full(ids, n, staged) ==
    \A i \in DOMAIN ids : i < n => \A g \in staged : g.id = ids[i] => Missing(g) = {}

PutSoFar(u, staged) ==
    /\ u.at \in 1..(Len(Sizes[u.job]) + 1)
    /\ Len(u.ids) = u.at - 1 \/ (Len(u.ids) = u.at /\ u.at <= Len(Sizes[u.job]))
    /\ Mine(u.ids, u.job, staged)
    /\ Full(u.ids, u.at, staged)
    /\ Len(u.ids) = u.at => Laying(u, staged)

UploadOK(u, staged, mix) == u.job # 0 /\ u.job \notin mix => PutSoFar(u, staged)

\* The one request the upload u waits for.
Expected(u) ==
    IF u.at > Len(Sizes[u.job]) THEN FileSend(u)
    ELSE IF Len(u.ids) = u.at THEN FilePut(u, u.at, u.next)
    ELSE FileOffer(u, u.at)

IsStep(a, j) == a.kind \in Steps /\ a.job = j

OneStep(out, u) ==
    /\ \A i \in DOMAIN out : IsStep(out[i], u.job) => out[i] = Expected(u)
    /\ \A i, k \in DOMAIN out : IsStep(out[i], u.job) /\ IsStep(out[k], u.job) => i = k

NoSteps(out) == \A i \in DOMAIN out : out[i].kind \notin Steps

OutOK(out, u, mix) ==
    /\ u.stalled => NoSteps(out)
    /\ u.job # 0 /\ u.job \notin mix => OneStep(out, u)

\* Of this session, or of the one asked for.
Timely(d, s) == s = d.session \/ s = d.pending

\* A stalled upload is told what is left as of after the break.
Recent(f, d) ==
    \A x \in f.files : \A i \in DOMAIN d.upload.ids :
        i < d.upload.at /\ x.id = d.upload.ids[i] => x.missing = {}
RecentDown(q, d, mix) ==
    d.upload.stalled /\ d.upload.job \notin mix =>
        \A i \in DOMAIN q : q[i].type = "answer" /\ Timely(d, q[i].s) => Recent(q[i], d)

\* Sessions are numbered, and there are no requests without one.
Dated(d, q, r, sessions, n) ==
    /\ d.session = 0 => d.out = <<>>
    /\ d.session # 0 => d.pending = 0
    /\ d.pending <= n /\ d.session <= n
    /\ \A i \in DOMAIN q : q[i].s <= n /\ (q[i].type = "ask" => q[i].s # d.pending)
    /\ \A i \in DOMAIN r : r[i].s <= n
    /\ \A i \in DOMAIN sessions : sessions[i] <= n

WholeOne(m) ==
    /\ Len(m.files) = Len(Sizes[m.text])
    /\ \A p \in DOMAIN m.files :
           /\ m.files[p].job = m.text /\ m.files[p].pos = p
           /\ ~m.files[p].alien /\ Missing(m.files[p]) = {}

SentOK(ms, top, mix) ==
    \A i \in DOMAIN ms : ms[i].text <= top /\ (ms[i].text \in mix \/ WholeOne(ms[i]))

\* What is named is of the job that names it, or of one before.
Behind(d, q, staged) ==
    /\ NotLater(d.upload.ids, d.upload.job, staged)
    /\ \A i \in DOMAIN q : NotLater(q[i].ask.ids, q[i].ask.job, staged)

\* Sessions, jobs and places follow each other, on the way as at both ends.
Orderly ==
    /\ Dated(desk, net.up, net.down, phone.sessions, tries)
    /\ InOrder(net.up)
    /\ Apart(phone.staged)
    /\ TrueDown(net.down, phone.staged)
    /\ Behind(desk, net.up, phone.staged)

\* What is asked, answered and made of a job is its own.
Faithful ==
    /\ AimedUp(net.up, phone.staged, mixed)
    /\ SpoiltAreOver(net.up, phone.staged, Opened, mixed)
    /\ UploadOK(desk.upload, phone.staged, mixed)
    /\ OutOK(desk.out, desk.upload, mixed)
    /\ RecentDown(net.down, desk, mixed)
    /\ SentOK(messages, Opened, mixed)

-----------------------------------------------------------------------------
(* What is owed.                                                           *)

\* Times, of any messages.
Tally(ms, j) == Cardinality({i \in DOMAIN ms : ms[i].text = j})

Ids(staged) == {g.id : g \in staged}

\* An order to send that may still be obeyed.
Live(f, j, staged) ==
    /\ f.ask.kind = "send" /\ f.ask.job = j
    /\ f.ask.ids # <<>> /\ ToSet(f.ask.ids) \subseteq Ids(staged)

\* The sessions of such orders.
LiveIn(q, j, staged) == {s \in 1..MaxTries : \E i \in DOMAIN q : q[i].s = s /\ Live(q[i], j, staged)}

Ordered(out, j) == \E i \in DOMAIN out : out[i].kind = "send" /\ out[i].job = j

\* The session, if one more order in it could be obeyed.
Current(d, j, staged) ==
    IF d.upload.job = j /\ Ordered(d.out, j) /\ ToSet(d.upload.ids) \subseteq Ids(staged)
    THEN {d.session} ELSE {}

Due(d, q, j, staged) == LiveIn(q, j, staged) \cup Current(d, j, staged)

Owed(d, j) == IF d.upload.job = j /\ ~Ordered(d.out, j) THEN 0 ELSE 1

Paid(j) ==
    Tally(messages, j) + Cardinality(Due(desk, net.up, j, phone.staged)) <= unheard[j] + Owed(desk, j)

\* Orders of one session name more and more places.
Growing(q) ==
    \A i, k \in DOMAIN q :
        /\ i < k /\ q[i].ask.kind = "send" /\ q[k].ask.kind = "send"
        /\ q[i].ask.job = q[k].ask.job /\ q[i].s = q[k].s
        => ToSet(q[i].ask.ids) \subseteq ToSet(q[k].ask.ids)

\* ... and none that the upload does not.
Covered(f, d) ==
    f.ask.kind = "send" /\ f.s = d.session /\ f.ask.job = d.upload.job =>
        ~d.upload.stalled /\ ToSet(f.ask.ids) \subseteq ToSet(d.upload.ids)

\* The answer that a message is made.
Makings(f) == f.type = "answer" /\ f.ans = "done" /\ f.ask.kind = "send"

\* Each message, and each order that may still make one, is paid for.
Counted ==
    /\ Growing(net.up) /\ \A i \in DOMAIN net.up : Covered(net.up[i], desk)
    /\ \A i \in DOMAIN net.down : Makings(net.down[i]) => Tally(messages, net.down[i].ask.job) > 0
    /\ \A j \in Jobs : told[j] = "sent" => Tally(messages, j) > 0
    /\ \A j \in Jobs : Paid(j)

-----------------------------------------------------------------------------
(* Queues.                                                                 *)

\* r is q and then entries of F.
Grown(q, r, F) ==
    /\ Len(q) <= Len(r)
    /\ \A i \in DOMAIN r : IF i <= Len(q) THEN i \in DOMAIN q /\ r[i] = q[i] ELSE r[i] \in F

LEMMA SecondPart ==
    ASSUME NEW X, NEW q \in Seq(X), NEW s \in Seq(X), NEW k \in 1..(Len(q) + Len(s)), k > Len(q)
    PROVE  (q \o s)[k] = s[k - Len(q)]
OBVIOUS

LEMMA Joins ==
    ASSUME NEW X, NEW q \in Seq(X), NEW s \in Seq(X)
    PROVE  /\ q \o s \in Seq(X) /\ Len(q \o s) = Len(q) + Len(s)
           /\ Grown(q, q \o s, ToSet(s))
<1>1. PICK r : r = q \o s
  OBVIOUS
<1>2. r \in Seq(X) /\ Len(r) = Len(q) + Len(s) /\ DOMAIN r = 1..(Len(q) + Len(s))
  BY <1>1
<1>3. \A i \in 1..Len(q) : r[i] = q[i]
  BY <1>1
<1>4. \A i \in 1..(Len(q) + Len(s)) : i > Len(q) => r[i] = s[i - Len(q)] /\ i - Len(q) \in 1..Len(s)
  BY <1>1
<1>5. DOMAIN q = 1..Len(q) /\ DOMAIN s = 1..Len(s) /\ Len(q) \in Nat /\ Len(s) \in Nat
  OBVIOUS
<1>6. \A i \in DOMAIN r : i > Len(q) => r[i] \in ToSet(s)
  BY <1>2, <1>4, <1>5 DEF ToSet
<1>7. Grown(q, r, ToSet(s))
  BY <1>2, <1>3, <1>5, <1>6 DEF Grown
<1> QED
  BY <1>1, <1>2, <1>7

LEMMA GrownSame ==
    ASSUME NEW X, NEW q \in Seq(X), NEW F
    PROVE  Grown(q, q, F)
BY DEF Grown

LEMMA GrownOne ==
    ASSUME NEW X, NEW q \in Seq(X), NEW x \in X
    PROVE  Grown(q, Append(q, x), {x})
BY OneMore DEF Grown

LEMMA GrownMore ==
    ASSUME NEW X, NEW q \in Seq(X), NEW r \in Seq(X), NEW F, NEW G, Grown(q, r, F), F \subseteq G
    PROVE  Grown(q, r, G)
BY DEF Grown

\* s without its entry at i.
LEMMA Removed ==
    ASSUME NEW X, NEW s \in Seq(X), NEW i \in DOMAIN s
    PROVE  /\ RemoveAt(s, i) \in Seq(X) /\ Len(RemoveAt(s, i)) = Len(s) - 1
           /\ \A k \in DOMAIN RemoveAt(s, i) :
                  RemoveAt(s, i)[k] = IF k < i THEN s[k] ELSE s[k + 1]
<1>1. i \in 1..Len(s) /\ Len(s) \in Nat
  OBVIOUS
<1>2. PICK a : a = SubSeq(s, 1, i - 1)
  OBVIOUS
<1>3. a \in Seq(X) /\ Len(a) = i - 1 /\ \A k \in 1..(i - 1) : a[k] = s[k]
  BY <1>1, <1>2
<1>4. PICK b : b = SubSeq(s, i + 1, Len(s))
  OBVIOUS
<1>5. b \in Seq(X) /\ Len(b) = Len(s) - i /\ \A k \in 1..(Len(s) - i) : b[k] = s[i + k]
  BY <1>1, <1>4
<1>6. PICK r : r = a \o b
  OBVIOUS
<1>7. r \in Seq(X) /\ Len(r) = Len(s) - 1 /\ DOMAIN r = 1..(Len(s) - 1)
  BY <1>1, <1>3, <1>5, <1>6
<1>8. \A k \in 1..(Len(s) - 1) : k < i => r[k] = s[k]
  BY <1>1, <1>3, <1>5, <1>6
<1>9. \A k \in 1..(Len(s) - 1) : ~(k < i) => r[k] = b[k - (i - 1)] /\ k - (i - 1) \in 1..(Len(s) - i)
  <2> SUFFICES ASSUME NEW k \in 1..(Len(s) - 1), ~(k < i)
               PROVE  r[k] = b[k - (i - 1)] /\ k - (i - 1) \in 1..(Len(s) - i)
    OBVIOUS
  <2>1. k \in (Len(a) + 1)..(Len(a) + Len(b)) /\ k - (i - 1) \in 1..(Len(s) - i)
    BY <1>1, <1>3, <1>5
  <2>2. r[k] = b[k - Len(a)]
    <3>1. a \in Seq(X) /\ b \in Seq(X) /\ k \in 1..(Len(a) + Len(b)) /\ k > Len(a)
      BY <2>1, <1>3, <1>5
    <3> QED
      BY <3>1, <1>6, SecondPart
  <2>3. Len(a) = i - 1
    BY <1>3
  <2> QED
    BY <2>1, <2>2, <2>3
<1>10. \A k \in 1..(Len(s) - 1) : ~(k < i) => r[k] = s[k + 1]
  <2> SUFFICES ASSUME NEW k \in 1..(Len(s) - 1), ~(k < i)
               PROVE  r[k] = s[k + 1]
    OBVIOUS
  <2>1. i + (k - (i - 1)) = k + 1
    BY <1>1
  <2> QED
    BY <2>1, <1>9, <1>5
<1>11. r = RemoveAt(s, i)
  BY <1>2, <1>4, <1>6 DEF RemoveAt
<1>12. \A k \in DOMAIN r : r[k] = IF k < i THEN s[k] ELSE s[k + 1]
  BY <1>7, <1>8, <1>10
<1> QED
  BY <1>7, <1>11, <1>12

\* What is left of q once the entry at is struck out, but for a hello perhaps.
Struck(q, r, at) ==
    /\ Len(r) <= Len(q)
    /\ \A i \in DOMAIN r : \E k \in DOMAIN q : k # at /\ r[i] = q[k]
    /\ \A i, j \in DOMAIN r : i # j =>
           \E k, l \in DOMAIN q : k # l /\ k # at /\ l # at /\ r[i] = q[k] /\ r[j] = q[l]
    /\ \A k \in DOMAIN q : k # at /\ q[k].kind # "hello" => \E i \in DOMAIN r : r[i] = q[k]

LEMMA StruckOut ==
    ASSUME NEW X, NEW q \in Seq(X), NEW at \in DOMAIN q, NEW old \in BOOLEAN, NEW r,
           r = Those(RemoveAt(q, at), {a \in ToSet(q) : ~old \/ a.kind # "hello"})
    PROVE  r \in Seq(X) /\ Struck(q, r, at)
<1>1. PICK m : m = RemoveAt(q, at)
  OBVIOUS
<1>2. PICK S : S = {a \in ToSet(q) : ~old \/ a.kind # "hello"}
  OBVIOUS
<1>3. /\ m \in Seq(X) /\ Len(m) = Len(q) - 1
      /\ \A k \in DOMAIN m : m[k] = IF k < at THEN q[k] ELSE q[k + 1]
  BY <1>1, Removed
<1>4. r = Those(m, S)
  BY <1>1, <1>2
<1>5. r \in Seq(X) /\ ToSet(r) = ToSet(m) \cap S
  <2>1. m \in Seq(X)
    BY <1>3
  <2>2. Those(m, S) \in Seq(X) /\ ToSet(Those(m, S)) = ToSet(m) \cap S
    BY <2>1, ThoseFacts
  <2> QED
    BY <2>2, <1>4
<1>6. FromApart(m, r)
  BY <1>3, <1>4, ThoseApart
<1>7. Len(r) <= Len(m)
  BY <1>3, <1>4, ThoseShorter
<1>8. /\ DOMAIN q = 1..Len(q) /\ DOMAIN m = 1..(Len(q) - 1) /\ Len(q) \in Nat /\ at \in 1..Len(q)
      /\ Len(r) \in Nat
  BY <1>3, <1>5
<1>9. \A k \in DOMAIN m : \E l \in DOMAIN q : l # at /\ m[k] = q[l] /\ l = (IF k < at THEN k ELSE k + 1)
  BY <1>3, <1>8
<1>10. \A k \in DOMAIN q : k # at => \E l \in DOMAIN m : m[l] = q[k]
  <2> SUFFICES ASSUME NEW k \in DOMAIN q, k # at
               PROVE  \E l \in DOMAIN m : m[l] = q[k]
    OBVIOUS
  <2>1. CASE k < at
    BY <2>1, <1>3, <1>8
  <2>2. CASE k > at
    <3>1. k - 1 \in DOMAIN m /\ ~(k - 1 < at) /\ (k - 1) + 1 = k
      BY <2>2, <1>8
    <3> QED
      BY <3>1, <1>3
  <2> QED
    BY <2>1, <2>2, <1>8
<1>11. \A i \in DOMAIN r : \E k \in DOMAIN q : k # at /\ r[i] = q[k]
  <2> SUFFICES ASSUME NEW i \in DOMAIN r
               PROVE  \E k \in DOMAIN q : k # at /\ r[i] = q[k]
    OBVIOUS
  <2>1. r[i] \in ToSet(m)
    BY <1>5 DEF ToSet
  <2> QED
    BY <2>1, <1>9 DEF ToSet
<1>12. \A i, j \in DOMAIN r : i # j =>
           \E k, l \in DOMAIN q : k # l /\ k # at /\ l # at /\ r[i] = q[k] /\ r[j] = q[l]
  <2> SUFFICES ASSUME NEW i \in DOMAIN r, NEW j \in DOMAIN r, i # j
               PROVE  \E k, l \in DOMAIN q : k # l /\ k # at /\ l # at /\ r[i] = q[k] /\ r[j] = q[l]
    OBVIOUS
  <2>1. PICK a, b \in DOMAIN m : a # b /\ r[i] = m[a] /\ r[j] = m[b]
    BY <1>6 DEF FromApart
  <2>2. PICK k \in DOMAIN q : k # at /\ m[a] = q[k] /\ k = (IF a < at THEN a ELSE a + 1)
    BY <1>9
  <2>3. PICK l \in DOMAIN q : l # at /\ m[b] = q[l] /\ l = (IF b < at THEN b ELSE b + 1)
    BY <1>9
  <2>4. k # l
    BY <2>1, <2>2, <2>3, <1>8
  <2> QED
    BY <2>1, <2>2, <2>3, <2>4
<1>13. \A k \in DOMAIN q : k # at /\ q[k].kind # "hello" => \E i \in DOMAIN r : r[i] = q[k]
  <2> SUFFICES ASSUME NEW k \in DOMAIN q, k # at, q[k].kind # "hello"
               PROVE  \E i \in DOMAIN r : r[i] = q[k]
    OBVIOUS
  <2>1. q[k] \in ToSet(m)
    BY <1>10 DEF ToSet
  <2>2. q[k] \in S
    BY <1>2 DEF ToSet
  <2>3. q[k] \in ToSet(r)
    BY <2>1, <2>2, <1>5
  <2> QED
    BY <2>3 DEF ToSet
<1>14. Len(r) <= Len(q)
  BY <1>3, <1>7, <1>8
<1> QED
  BY <1>5, <1>11, <1>12, <1>13, <1>14 DEF Struck

\* A queue without its head, and the first part of one.
LEMMA TailFacts ==
    ASSUME NEW X, NEW q \in Seq(X), q # <<>>
    PROVE  /\ Tail(q) \in Seq(X) /\ Head(q) \in X /\ Head(q) = q[1] /\ 1 \in DOMAIN q
           /\ Len(Tail(q)) = Len(q) - 1
           /\ \A i \in DOMAIN Tail(q) : i + 1 \in DOMAIN q /\ Tail(q)[i] = q[i + 1] /\ i \in Nat /\ i >= 1
OBVIOUS

LEMMA PrefixFacts ==
    ASSUME NEW X, NEW q \in Seq(X), NEW k \in 0..Len(q)
    PROVE  /\ SubSeq(q, 1, k) \in Seq(X)
           /\ \A i \in DOMAIN SubSeq(q, 1, k) : i \in DOMAIN q /\ SubSeq(q, 1, k)[i] = q[i]
OBVIOUS

-----------------------------------------------------------------------------
(* What the desktop posts.                                                 *)

FramesOf(s, as) == {[type |-> "ask", s |-> s, ask |-> a] : a \in as}

LEMMA FittingFacts ==
    ASSUME NEW a \in Nat, NEW b \in Nat, NEW c \in Nat, b <= c
    PROVE  Fitting(a, c - b) \in 0..a /\ b + Fitting(a, c - b) <= c
BY DEF Fitting

\* From the table out and the frames up to o and u by the requests as.
Posting(s, out, up, o, u, as) ==
    /\ o \in Seq(Requests) /\ u \in Seq(UpFrames)
    /\ Len(o) <= OutLimit
    /\ Grown(out, o, as) /\ Grown(up, u, FramesOf(s, as))
    /\ s = 0 => o = out
    /\ o = out => u = up

LEMMA PostedFacts ==
    ASSUME NEW d \in Desks, Len(d.out) <= OutLimit, NEW n \in Nets, NEW rs \in Seq(Requests),
           NEW p, p = Posted(d, n, rs)
    PROVE  \E o, u :
              /\ p.d = [d EXCEPT !.out = o] /\ p.n = [n EXCEPT !.up = u]
              /\ p.all = (Len(o) = Len(d.out) + Len(rs))
              /\ Len(o) <= Len(d.out) + Len(rs)
              /\ Posting(d.session, d.out, n.up, o, u, ToSet(rs))
<1> DEFINE fit == IF d.session = 0 THEN <<>>
                  ELSE SubSeq(rs, 1, Fitting(Len(rs), OutLimit - Len(d.out)))
           frames == [i \in DOMAIN fit |-> [type |-> "ask", s |-> d.session, ask |-> fit[i]]]
           o == d.out \o fit
           u == IF n.cut THEN n.up ELSE n.up \o frames
<1>1. /\ d.out \in Seq(Requests) /\ d.session \in 0..MaxTries /\ n.up \in Seq(UpFrames)
      /\ n.cut \in BOOLEAN /\ OutLimit \in Nat /\ Len(d.out) \in Nat /\ Len(rs) \in Nat
  BY CompanionAssumption DEF Desks, Nets
<1>2. Fitting(Len(rs), OutLimit - Len(d.out)) \in 0..Len(rs)
      /\ Len(d.out) + Fitting(Len(rs), OutLimit - Len(d.out)) <= OutLimit
  BY <1>1, FittingFacts
<1>3. /\ fit \in Seq(Requests) /\ Len(fit) <= Len(rs) /\ Len(d.out) + Len(fit) <= OutLimit
      /\ Len(fit) \in Nat
      /\ \A i \in DOMAIN fit : i \in DOMAIN rs /\ fit[i] = rs[i]
  <2>1. CASE d.session = 0
    BY <2>1, <1>1
  <2>2. CASE d.session # 0
    <3>1. PICK k : k = Fitting(Len(rs), OutLimit - Len(d.out))
      OBVIOUS
    <3>2. fit = SubSeq(rs, 1, k) /\ k \in 0..Len(rs) /\ Len(d.out) + k <= OutLimit
      BY <2>2, <3>1, <1>1, <1>2
    <3> HIDE DEF fit
    <3>3. fit \in Seq(Requests) /\ \A i \in DOMAIN fit : i \in DOMAIN rs /\ fit[i] = rs[i]
      BY <3>2, PrefixFacts
    <3>4. Len(fit) = k
      BY <3>2
    <3>5. k <= Len(rs) /\ k \in Nat
      BY <3>2, <1>1
    <3> QED
      BY <3>2, <3>3, <3>4, <3>5
  <2> QED
    BY <2>1, <2>2
<1>4. p.d = [d EXCEPT !.out = o] /\ p.n = [n EXCEPT !.up = u] /\ p.all = (Len(fit) = Len(rs))
  <2>1. p = [d |-> [d EXCEPT !.out = @ \o fit],
             n |-> IF n.cut THEN n ELSE [n EXCEPT !.up = @ \o frames],
             all |-> Len(fit) = Len(rs)]
    BY DEF Posted
  <2>2. (IF n.cut THEN n ELSE [n EXCEPT !.up = @ \o frames]) = [n EXCEPT !.up = u]
    <3>1. n = [n EXCEPT !.up = n.up]
      BY DEF Nets
    <3> QED
      BY <3>1
  <2> HIDE DEF fit, frames
  <2> QED
    BY <2>1, <2>2
<1>5. d.session = 0 => fit = <<>>
  OBVIOUS
<1> HIDE DEF fit
<1>6. o \in Seq(Requests) /\ Len(o) = Len(d.out) + Len(fit) /\ Grown(d.out, o, ToSet(fit))
  BY <1>1, <1>3, Joins
<1>7. ToSet(fit) \subseteq ToSet(rs)
  BY <1>3 DEF ToSet
<1>8. Grown(d.out, o, ToSet(rs))
  BY <1>1, <1>6, <1>7, GrownMore
<1>9. u \in Seq(UpFrames) /\ Grown(n.up, u, FramesOf(d.session, ToSet(rs)))
  <2>1. CASE n.cut
    BY <2>1, <1>1, GrownSame
  <2>2. CASE ~n.cut /\ d.session # 0
    <3>1. frames \in Seq(UpFrames) /\ Len(frames) = Len(fit) /\ DOMAIN frames = DOMAIN fit
      <4>1. \A i \in DOMAIN fit : fit[i] \in Requests
        BY <1>3
      <4>2. \A i \in DOMAIN fit : frames[i] \in UpFrames
        BY <4>1, <2>2, <1>1 DEF UpFrames
      <4>3. DOMAIN fit = 1..Len(fit)
        BY <1>3
      <4>4. frames \in [1..Len(fit) -> UpFrames]
        BY <4>2, <4>3
      <4> QED
        BY <4>3, <4>4, <1>3
    <3>2. ToSet(frames) \subseteq FramesOf(d.session, ToSet(rs))
      <4> SUFFICES ASSUME NEW i \in DOMAIN fit
                   PROVE  frames[i] \in FramesOf(d.session, ToSet(rs))
        BY <3>1 DEF ToSet
      <4>1. fit[i] \in ToSet(rs)
        BY <1>7 DEF ToSet
      <4> QED
        BY <4>1 DEF FramesOf
    <3> HIDE DEF frames
    <3>3. n.up \o frames \in Seq(UpFrames) /\ Grown(n.up, n.up \o frames, ToSet(frames))
      BY <3>1, <1>1, Joins
    <3>4. Grown(n.up, n.up \o frames, FramesOf(d.session, ToSet(rs)))
      BY <3>2, <3>3, <1>1, GrownMore
    <3> QED
      BY <3>3, <3>4, <2>2
  <2>3. CASE ~n.cut /\ d.session = 0
    <3>1. frames = <<>>
      BY <2>3, <1>5
    <3> HIDE DEF frames
    <3>2. u = n.up
      BY <3>1, <2>3, <1>1
    <3> QED
      BY <3>2, <1>1, GrownSame
  <2> QED
    BY <1>1, <2>1, <2>2, <2>3
<1>10. d.session = 0 => o = d.out
  BY <1>1, <1>5
<1>11. o = d.out => u = n.up
  <2> SUFFICES ASSUME o = d.out, ~n.cut
               PROVE  n.up \o frames = n.up
    OBVIOUS
  <2>1. Len(fit) = 0
    BY <1>6, <1>1, <1>3
  <2>2. fit = <<>>
    BY <2>1, <1>3
  <2>3. frames = <<>>
    BY <2>2
  <2> HIDE DEF frames
  <2> QED
    BY <2>3, <1>1
<1>12. Len(o) <= OutLimit /\ Len(o) <= Len(d.out) + Len(rs)
       /\ (Len(fit) = Len(rs)) = (Len(o) = Len(d.out) + Len(rs))
  <2>1. PICK a, b, c, e : a = Len(fit) /\ b = Len(rs) /\ c = Len(d.out) /\ e = Len(o)
    OBVIOUS
  <2>2. a \in Nat /\ b \in Nat /\ c \in Nat /\ e = c + a /\ a <= b /\ c + a <= OutLimit
    BY <2>1, <1>1, <1>3, <1>6
  <2>3. e <= OutLimit /\ e <= c + b /\ (a = b) = (e = c + b)
    BY <2>2
  <2> QED
    BY <2>1, <2>3
<1> HIDE DEF o, u
<1>13. Posting(d.session, d.out, n.up, o, u, ToSet(rs))
  BY <1>6, <1>8, <1>9, <1>10, <1>11, <1>12 DEF Posting
<1> QED
  BY <1>4, <1>12, <1>13

\* An upload moved on to v, or given up, by at most one request.
TakenTo(d, n, p, v, rs, o, u, w) ==
    /\ p.d = [d EXCEPT !.upload = w, !.out = o] /\ p.n = [n EXCEPT !.up = u]
    /\ w \in {v, NoUpload}
    /\ Len(o) <= Len(d.out) + 1
    /\ Posting(d.session, d.out, n.up, o, u, ToSet(rs))

LEMMA TakenFacts ==
    ASSUME NEW d \in Desks, Len(d.out) <= OutLimit, NEW n \in Nets,
           NEW v \in Uploads, NEW rs \in Seq(Requests), Len(rs) <= 1,
           NEW p, p = Taken(d, n, Step(v, rs))
    PROVE  \E o, u, w : TakenTo(d, n, p, v, rs, o, u, w)
<1>1. PICK e : e = [d EXCEPT !.upload = v]
  OBVIOUS
<1>2. e \in Desks /\ e.out = d.out /\ e.session = d.session
  BY <1>1 DEF Desks
<1>3. PICK q : q = Posted(e, n, rs)
  OBVIOUS
<1>4. PICK o, u : /\ q.d = [e EXCEPT !.out = o] /\ q.n = [n EXCEPT !.up = u]
                  /\ Len(o) <= Len(e.out) + Len(rs)
                  /\ Posting(e.session, e.out, n.up, o, u, ToSet(rs))
  BY <1>2, <1>3, PostedFacts
<1>5. p = IF ~q.all /\ rs[1].kind = "put" THEN [q EXCEPT !.d.upload = NoUpload] ELSE q
  BY <1>1, <1>3 DEF Taken, Step
<1>6. q = [d |-> q.d, n |-> q.n, all |-> q.all]
  BY <1>3 DEF Posted
<1>7. p.n = q.n /\ (p.d = q.d \/ p.d = [q.d EXCEPT !.upload = NoUpload])
  BY <1>5, <1>6
<1>8. PICK w : w \in {v, NoUpload} /\ p.d = [d EXCEPT !.upload = w, !.out = o]
  <2>1. q.d = [d EXCEPT !.upload = v, !.out = o]
    BY <1>1, <1>4 DEF Desks
  <2>2. [q.d EXCEPT !.upload = NoUpload] = [d EXCEPT !.upload = NoUpload, !.out = o]
    BY <2>1 DEF Desks
  <2> QED
    BY <1>7, <2>1, <2>2
<1>9. Len(o) <= Len(d.out) + 1
  <2>1. Len(o) \in Nat /\ Len(d.out) \in Nat /\ Len(rs) \in Nat
    BY <1>4 DEF Posting, Desks
  <2> QED
    BY <2>1, <1>4, <1>2
<1>10. TakenTo(d, n, p, v, rs, o, u, w)
  BY <1>2, <1>4, <1>7, <1>8, <1>9 DEF TakenTo
<1> QED
  BY <1>10

-----------------------------------------------------------------------------
(* The steps of an upload.                                                 *)

LEMMA JobFacts ==
    ASSUME NEW j \in Jobs
    PROVE  /\ j \in Nat /\ j >= 1 /\ j # 0 /\ Sizes[j] \in Seq(Nat) /\ Len(Sizes[j]) \in Nat
           /\ DOMAIN Sizes[j] = 1..Len(Sizes[j]) /\ Len(Sizes[j]) >= 1
           /\ \A i \in DOMAIN Sizes[j] : Sizes[j][i] \in Nat
<1>1. Sizes \in Seq(Seq(Nat)) /\ j \in DOMAIN Sizes /\ Sizes[j] # <<>>
  BY CompanionAssumption DEF Jobs
<1>2. Sizes[j] \in Seq(Nat) /\ j \in Nat /\ j >= 1
  BY <1>1
<1>3. PICK s : s = Sizes[j]
  OBVIOUS
<1>4. s \in Seq(Nat) /\ s # <<>>
  BY <1>1, <1>2, <1>3
<1>5. Len(s) \in Nat /\ DOMAIN s = 1..Len(s) /\ Len(s) >= 1 /\ \A i \in DOMAIN s : s[i] \in Nat
  BY <1>4
<1> QED
  BY <1>2, <1>3, <1>5

\* A request that goes up from the upload u.
OfUploadOK(a, u, new, top) ==
    /\ a \in Requests /\ WellAsked(a, new, top) /\ a.kind \in Steps /\ a.job = u.job

Underway(u, new, top) ==
    /\ u \in Uploads /\ u.job \in Jobs /\ u.job <= top /\ u.at >= 1
    /\ \A i \in DOMAIN u.ids : u.ids[i] < new

LEMMA OfferAsked ==
    ASSUME NEW u, NEW new, NEW top, Underway(u, new, top), NEW at \in DOMAIN Sizes[u.job]
    PROVE  OfUploadOK(FileOffer(u, at), u, new, top)
<1>1. PICK a : a = FileOffer(u, at)
  OBVIOUS
<1>2. a = [kind |-> "offer", job |-> u.job, which |-> at, n |-> 0, ids |-> <<>>]
  BY <1>1 DEF FileOffer, RequestOf
<1>3. u.job \in Jobs /\ at \in Nat /\ u.job # 0 /\ u.job <= top
  BY JobFacts DEF Underway
<1>4. a \in Requests
  BY <1>2, <1>3 DEF Requests, Kinds
<1>5. DOMAIN a.ids = {}
  BY <1>2
<1>6. WellAsked(a, new, top)
  BY <1>2, <1>3, <1>5 DEF WellAsked, Plains
<1>7. OfUploadOK(a, u, new, top)
  BY <1>2, <1>4, <1>6 DEF OfUploadOK, Steps
<1> QED
  BY <1>1, <1>7

LEMMA PutAsked ==
    ASSUME NEW u, NEW new, NEW top, Underway(u, new, top), u.at <= Len(u.ids),
           NEW which \in DOMAIN Sizes[u.job], NEW n \in Nat
    PROVE  OfUploadOK(FilePut(u, which, n), u, new, top)
<1>1. PICK a : a = FilePut(u, which, n)
  OBVIOUS
<1>2. PICK id : id = u.ids[u.at]
  OBVIOUS
<1>3. a = [kind |-> "put", job |-> u.job, which |-> which, n |-> n, ids |-> <<id>>]
  BY <1>1, <1>2 DEF FilePut, RequestOf
<1>4. u.job \in Jobs /\ which \in Nat /\ u.job # 0 /\ u.job <= top
  BY JobFacts DEF Underway
<1>5. id \in Nat /\ id < new
  <2>1. u.ids \in Seq(Nat) /\ u.at \in Nat /\ u.at >= 1
    BY DEF Underway, Uploads
  <2>2. u.at \in DOMAIN u.ids
    BY <2>1
  <2> QED
    BY <2>1, <2>2, <1>2 DEF Underway
<1>6. <<id>> \in Seq(Nat) /\ Len(<<id>>) = 1 /\ \A i \in DOMAIN <<id>> : <<id>>[i] = id
  BY <1>5
<1>7. a \in Requests
  BY <1>3, <1>4, <1>6 DEF Requests, Kinds
<1>8. WellAsked(a, new, top)
  BY <1>3, <1>4, <1>5, <1>6 DEF WellAsked, Plains
<1>9. OfUploadOK(a, u, new, top)
  BY <1>3, <1>7, <1>8 DEF OfUploadOK, Steps
<1> QED
  BY <1>1, <1>9

LEMMA SendAsked ==
    ASSUME NEW u, NEW new, NEW top, Underway(u, new, top)
    PROVE  OfUploadOK(FileSend(u), u, new, top)
<1>1. PICK a : a = FileSend(u)
  OBVIOUS
<1>2. a = [kind |-> "send", job |-> u.job, which |-> 0, n |-> 0, ids |-> u.ids]
  BY <1>1 DEF FileSend, RequestOf
<1>3. u.job \in Jobs /\ u.job # 0 /\ u.ids \in Seq(Nat)
  BY JobFacts DEF Underway, Uploads
<1>4. a \in Requests
  BY <1>2, <1>3 DEF Requests, Kinds
<1>5. WellAsked(a, new, top)
  BY <1>2, <1>3 DEF WellAsked, Plains, Underway
<1>6. OfUploadOK(a, u, new, top)
  BY <1>2, <1>4, <1>5 DEF OfUploadOK, Steps
<1> QED
  BY <1>1, <1>6

\* A step from the upload u: it stays under way, and asks for one thing at most.
Forward(u, step, new, top) ==
    \E v, rs :
        /\ step = Step(v, rs) /\ rs \in Seq(Requests) /\ Len(rs) <= 1
        /\ Underway(v, new, top) /\ v.job = u.job
        /\ \A a \in ToSet(rs) : OfUploadOK(a, v, new, top)

LEMMA AskOne ==
    ASSUME NEW a \in Requests
    PROVE  /\ <<a>> \in Seq(Requests) /\ Len(<<a>>) = 1 /\ ToSet(<<a>>) = {a}
           /\ <<>> \in Seq(Requests) /\ ToSet(<<>>) = {} /\ Len(<<>>) = 0
BY DEF ToSet

LEMMA NeedChunkForward ==
    ASSUME NEW u, NEW new, NEW top, Underway(u, new, top), NEW n \in Nat
    PROVE  Forward(u, NeedChunk(u, u.at, n), new, top)
<1>1. PICK a : a = FilePut(u, u.at, n)
  OBVIOUS
<1>2. CASE ~u.stalled /\ n = u.next /\ u.at <= Len(u.ids) /\ u.at <= Len(Sizes[u.job])
  <2>1. u.at \in DOMAIN Sizes[u.job]
    BY <1>2, JobFacts DEF Underway, Uploads
  <2>2. OfUploadOK(a, u, new, top)
    BY <2>1, <1>1, <1>2, PutAsked
  <2>3. NeedChunk(u, u.at, n) = Step(u, <<a>>)
    BY <1>1, <1>2 DEF NeedChunk
  <2>4. <<a>> \in Seq(Requests) /\ Len(<<a>>) <= 1 /\ \A b \in ToSet(<<a>>) : OfUploadOK(b, u, new, top)
    BY <2>2, AskOne DEF OfUploadOK
  <2> QED
    BY <2>3, <2>4 DEF Forward
<1>3. CASE ~(~u.stalled /\ n = u.next /\ u.at <= Len(u.ids) /\ u.at <= Len(Sizes[u.job]))
  <2>1. NeedChunk(u, u.at, n) = Step(u, <<>>)
    BY <1>3 DEF NeedChunk
  <2>2. <<>> \in Seq(Requests) /\ Len(<<>>) <= 1 /\ ToSet(<<>>) = {}
    BY DEF ToSet
  <2> QED
    BY <2>1, <2>2 DEF Forward
<1> QED
  BY <1>2, <1>3

LEMMA AdvancedForward ==
    ASSUME NEW u, NEW new, NEW top, Underway(u, new, top)
    PROVE  Forward(u, Advanced(u), new, top)
<1>1. PICK v : v = [u EXCEPT !.at = @ + 1]
  OBVIOUS
<1>2. Underway(v, new, top) /\ v.job = u.job /\ v.at = u.at + 1 /\ v.at \in Nat /\ v.at >= 1
  BY <1>1 DEF Underway, Uploads
<1>3. PICK a : a = IF v.at <= Len(Sizes[u.job]) THEN FileOffer(v, v.at) ELSE FileSend(v)
  OBVIOUS
<1>4. OfUploadOK(a, v, new, top)
  <2>1. CASE v.at <= Len(Sizes[u.job])
    <3>1. v.at \in DOMAIN Sizes[v.job]
      BY <1>2, <2>1, JobFacts DEF Underway
    <3> QED
      BY <3>1, <2>1, <1>2, <1>3, OfferAsked
  <2>2. CASE ~(v.at <= Len(Sizes[u.job]))
    BY <2>2, <1>2, <1>3, SendAsked
  <2> QED
    BY <2>1, <2>2
<1>5. Advanced(u) = Step(v, <<a>>)
  BY <1>1, <1>3 DEF Advanced
<1>6. <<a>> \in Seq(Requests) /\ Len(<<a>>) <= 1 /\ \A b \in ToSet(<<a>>) : OfUploadOK(b, v, new, top)
  BY <1>4, AskOne DEF OfUploadOK
<1> QED
  BY <1>2, <1>5, <1>6 DEF Forward

LEMMA ForwardFrom ==
    ASSUME NEW u, NEW v, v.job = u.job, NEW step, NEW new, NEW top, Forward(v, step, new, top)
    PROVE  Forward(u, step, new, top)
BY DEF Forward

LEMMA PlacedForward ==
    ASSUME NEW u, NEW new, NEW top, Underway(u, new, top), NEW id \in Nat, id < new,
           NEW total \in Nat
    PROVE  Forward(u, Placed(u, id, total), new, top)
<1>1. PICK v : v = [u EXCEPT !.ids = Append(@, id), !.total = total, !.next = 0]
  OBVIOUS
<1>2. Underway(v, new, top) /\ v.job = u.job
  <2>1. u.ids \in Seq(Nat) /\ v.ids = Append(u.ids, id)
    BY <1>1 DEF Underway, Uploads
  <2>2. v.ids \in Seq(Nat) /\ \A i \in DOMAIN v.ids : v.ids[i] < new
    BY <2>1, OneMore DEF Underway
  <2>3. v \in Uploads /\ v.job = u.job /\ v.at = u.at
    BY <2>2, <1>1 DEF Underway, Uploads
  <2> QED
    BY <2>2, <2>3 DEF Underway
<1>3. Forward(v, IF total = 0 THEN Advanced(v) ELSE NeedChunk(v, v.at, 0), new, top)
  BY <1>2, AdvancedForward, NeedChunkForward
<1>4. Placed(u, id, total) = IF total = 0 THEN Advanced(v) ELSE NeedChunk(v, v.at, 0)
  BY <1>1 DEF Placed
<1> QED
  BY <1>2, <1>3, <1>4, ForwardFrom

LEMMA LaidForward ==
    ASSUME NEW u, NEW new, NEW top, Underway(u, new, top)
    PROVE  Forward(u, Laid(u), new, top)
<1>1. PICK v : v = [u EXCEPT !.next = @ + 1]
  OBVIOUS
<1>2. Underway(v, new, top) /\ v.job = u.job /\ v.next \in Nat
  BY <1>1 DEF Underway, Uploads
<1>3. Forward(v, IF v.next < v.total THEN NeedChunk(v, v.at, v.next) ELSE Advanced(v), new, top)
  BY <1>2, AdvancedForward, NeedChunkForward
<1>4. Laid(u) = IF v.next < v.total THEN NeedChunk(v, v.at, v.next) ELSE Advanced(v)
  BY <1>1 DEF Laid
<1> QED
  BY <1>2, <1>3, <1>4, ForwardFrom

\* The least element of a set of numbers.
LEMMA LowestFacts ==
    ASSUME NEW S \in SUBSET Nat, S # {}
    PROVE  Lowest(S) \in S /\ \A y \in S : Lowest(S) <= y
<1>1. PICK k \in S : TRUE
  OBVIOUS
<1>2. \E j \in S : \A i \in S : j <= i
  BY Least
<1> QED
  BY <1>2 DEF Lowest

\* What Resumed makes of the upload u: all of it is there; the file at has no
\* place; or a chunk of it is missing in its place.
LeftOf(u, files, at) == {f \in files : at <= Len(u.ids) /\ f.id = u.ids[at]}
UndoneOf(u, files) == {at \in DOMAIN Sizes[u.job] : \A f \in LeftOf(u, files, at) : f.missing # {}}

Rewound(u, files, step) ==
    \/ /\ UndoneOf(u, files) = {}
       /\ step = Advanced([u EXCEPT !.stalled = FALSE, !.at = Len(Sizes[u.job])])
    \/ \E at \in UndoneOf(u, files) :
          /\ \A k \in UndoneOf(u, files) : at <= k
          /\ \/ /\ LeftOf(u, files, at) = {}
                /\ \E v : /\ v = [u EXCEPT !.stalled = FALSE, !.at = at, !.ids = SubSeq(@, 1, at - 1)]
                          /\ step = Step(v, <<FileOffer(v, at)>>)
             \/ \E f \in LeftOf(u, files, at) : \E v :
                   /\ v = [u EXCEPT !.stalled = FALSE, !.at = at, !.next = Lowest(f.missing),
                                    !.total = f.total]
                   /\ step = NeedChunk(v, v.at, v.next)

LEMMA ResumedCases ==
    ASSUME NEW u \in Uploads, u.job \in Jobs, NEW files
    PROVE  Rewound(u, files, Resumed(u, files))
<1> DEFINE v == [u EXCEPT !.stalled = FALSE]
           Left(at) == {f \in files : at <= Len(u.ids) /\ f.id = u.ids[at]}
           undone == {at \in DOMAIN Sizes[u.job] : \A f \in Left(at) : f.missing # {}}
           at == Lowest(undone)
           fresh == [v EXCEPT !.at = at, !.ids = SubSeq(@, 1, at - 1)]
           laid(f) == [v EXCEPT !.at = at, !.next = Lowest(f.missing), !.total = f.total]
<1>1. undone = UndoneOf(u, files)
  BY DEF UndoneOf, LeftOf
<1>2. Resumed(u, files) =
         IF undone = {} THEN Advanced([v EXCEPT !.at = Len(Sizes[u.job])])
         ELSE IF Left(at) = {} THEN Step(fresh, <<FileOffer(fresh, at)>>)
         ELSE LET f == CHOOSE f \in Left(at) : TRUE IN
              NeedChunk(laid(f), at, Lowest(f.missing))
  BY DEF Resumed
<1>3. CASE undone = {}
  <2>1. [v EXCEPT !.at = Len(Sizes[u.job])] = [u EXCEPT !.stalled = FALSE, !.at = Len(Sizes[u.job])]
    BY DEF Uploads
  <2>2. Resumed(u, files) = Advanced([u EXCEPT !.stalled = FALSE, !.at = Len(Sizes[u.job])])
    BY <2>1, <1>2, <1>3
  <2> QED
    BY <2>2, <1>1, <1>3 DEF Rewound
<1>4. CASE undone # {}
  <2>1. undone \subseteq Nat
    BY JobFacts
  <2>2. at \in undone /\ \A k \in undone : at <= k
    BY <2>1, <1>4, LowestFacts
  <2>3. LeftOf(u, files, at) = Left(at)
    BY DEF LeftOf
  <2>4. CASE Left(at) = {}
    <3>1. Resumed(u, files) = Step(fresh, <<FileOffer(fresh, at)>>)
      BY <1>2, <1>4, <2>4
    <3>2. fresh = [u EXCEPT !.stalled = FALSE, !.at = at, !.ids = SubSeq(@, 1, at - 1)]
      BY DEF Uploads
    <3> HIDE DEF undone, at, Left, fresh
    <3> QED
      BY <3>1, <3>2, <2>2, <2>3, <2>4, <1>1 DEF Rewound
  <2>5. CASE Left(at) # {}
    <3>1. PICK f \in Left(at) : f = CHOOSE g \in Left(at) : TRUE
      BY <2>5
    <3>2. Resumed(u, files) = NeedChunk(laid(f), at, Lowest(f.missing))
      BY <1>2, <1>4, <2>5, <3>1
    <3>3. PICK w : w = laid(f)
      OBVIOUS
    <3>4. /\ w = [u EXCEPT !.stalled = FALSE, !.at = at, !.next = Lowest(f.missing), !.total = f.total]
          /\ w.at = at /\ w.next = Lowest(f.missing)
      BY <3>3 DEF Uploads
    <3>5. Resumed(u, files) = NeedChunk(w, w.at, w.next)
      BY <3>2, <3>3, <3>4
    <3> HIDE DEF undone, at, Left, laid
    <3> QED
      BY <3>1, <3>4, <3>5, <2>2, <2>3, <1>1 DEF Rewound
  <2> QED
    BY <2>4, <2>5
<1> QED
  BY <1>3, <1>4

\* The files before the first that is not whole have places.
LEMMA RewoundFar ==
    ASSUME NEW u \in Uploads, u.job \in Jobs, NEW files, NEW at \in UndoneOf(u, files),
           \A k \in UndoneOf(u, files) : at <= k
    PROVE  /\ at \in DOMAIN Sizes[u.job] /\ at \in Nat /\ at >= 1 /\ at - 1 \in 0..Len(u.ids)
           /\ \A k \in 1..(at - 1) : \E f \in LeftOf(u, files, k) : f.missing = {}
<1>1. at \in DOMAIN Sizes[u.job] /\ at \in Nat /\ at >= 1 /\ at <= Len(Sizes[u.job])
      /\ Len(Sizes[u.job]) \in Nat /\ DOMAIN Sizes[u.job] = 1..Len(Sizes[u.job])
  BY JobFacts DEF UndoneOf
<1>2. ASSUME NEW k \in 1..(at - 1)
      PROVE  \E f \in LeftOf(u, files, k) : f.missing = {}
  <2>1. k \in DOMAIN Sizes[u.job] /\ ~(at <= k)
    BY <1>1
  <2>2. k \notin UndoneOf(u, files)
    BY <2>1
  <2> QED
    BY <2>1, <2>2 DEF UndoneOf
<1>3. at - 1 <= Len(u.ids)
  <2>1. u.ids \in Seq(Nat) /\ Len(u.ids) \in Nat
    BY DEF Uploads
  <2>2. CASE at = 1
    BY <2>1, <2>2
  <2>3. CASE at > 1
    <3>1. at - 1 \in 1..(at - 1)
      BY <2>3, <1>1
    <3>2. PICK f \in LeftOf(u, files, at - 1) : TRUE
      BY <3>1, <1>2
    <3> QED
      BY <3>2 DEF LeftOf
  <2> QED
    BY <1>1, <2>2, <2>3
<1>4. at - 1 \in 0..Len(u.ids)
  <2>1. PICK n : n = Len(u.ids)
    OBVIOUS
  <2>2. n \in Nat
    BY <2>1 DEF Uploads
  <2>3. at - 1 \in 0..n
    BY <1>1, <1>3, <2>1, <2>2
  <2> QED
    BY <2>1, <2>3
<1>5. \A k \in 1..(at - 1) : \E f \in LeftOf(u, files, k) : f.missing = {}
  BY <1>2
<1> QED
  BY <1>1, <1>4, <1>5

LEMMA ResumedForward ==
    ASSUME NEW u, NEW new, NEW top, Underway(u, new, top), NEW files,
           \A x \in files : x.total \in Nat /\ x.missing \subseteq 0..(x.total - 1)
    PROVE  Forward(u, Resumed(u, files), new, top)
<1>1. Rewound(u, files, Resumed(u, files))
  BY ResumedCases DEF Underway
<1>2. ASSUME NEW v, v = [u EXCEPT !.stalled = FALSE, !.at = Len(Sizes[u.job])]
      PROVE  Forward(u, Advanced(v), new, top)
  <2>1. Underway(v, new, top) /\ v.job = u.job
    BY <1>2, JobFacts DEF Underway, Uploads
  <2> QED
    BY <2>1, AdvancedForward, ForwardFrom
<1>3. ASSUME NEW at \in UndoneOf(u, files), \A k \in UndoneOf(u, files) : at <= k, NEW v,
             v = [u EXCEPT !.stalled = FALSE, !.at = at, !.ids = SubSeq(@, 1, at - 1)]
      PROVE  Forward(u, Step(v, <<FileOffer(v, at)>>), new, top)
  <2>1. at \in DOMAIN Sizes[u.job] /\ at \in Nat /\ at >= 1 /\ at - 1 \in 0..Len(u.ids)
    BY <1>3, RewoundFar DEF Underway
  <2>2. u.ids \in Seq(Nat) /\ v.ids = SubSeq(u.ids, 1, at - 1)
    BY <1>3 DEF Underway, Uploads
  <2>3. PICK k : k = at - 1
    OBVIOUS
  <2>4. v.ids \in Seq(Nat) /\ \A i \in DOMAIN v.ids : i \in DOMAIN u.ids /\ v.ids[i] = u.ids[i]
    BY <2>1, <2>2, <2>3, PrefixFacts
  <2>5. Underway(v, new, top) /\ v.job = u.job
    BY <1>3, <2>1, <2>4 DEF Underway, Uploads
  <2>6. PICK a : a = FileOffer(v, at)
    OBVIOUS
  <2>7. OfUploadOK(a, v, new, top)
    BY <2>1, <2>5, <2>6, OfferAsked
  <2>8. <<a>> \in Seq(Requests) /\ Len(<<a>>) <= 1 /\ \A b \in ToSet(<<a>>) : OfUploadOK(b, v, new, top)
    BY <2>7, AskOne DEF OfUploadOK
  <2> QED
    BY <2>5, <2>6, <2>8 DEF Forward
<1>4. ASSUME NEW at \in UndoneOf(u, files), \A k \in UndoneOf(u, files) : at <= k,
             NEW f \in LeftOf(u, files, at), NEW v,
             v = [u EXCEPT !.stalled = FALSE, !.at = at, !.next = Lowest(f.missing), !.total = f.total]
      PROVE  Forward(u, NeedChunk(v, v.at, v.next), new, top)
  <2>1. at \in Nat /\ at >= 1
    BY <1>4, RewoundFar DEF Underway
  <2>2. f.missing # {} /\ f \in files
    BY DEF UndoneOf, LeftOf
  <2>3. f.total \in Nat /\ f.missing \in SUBSET Nat
    BY <2>2
  <2>4. Lowest(f.missing) \in Nat
    BY <2>2, <2>3, LowestFacts
  <2>5. Underway(v, new, top) /\ v.job = u.job /\ v.next \in Nat
    BY <1>4, <2>1, <2>3, <2>4 DEF Underway, Uploads
  <2> QED
    BY <2>5, NeedChunkForward, ForwardFrom
<1> QED
  BY <1>1, <1>2, <1>3, <1>4 DEF Rewound

-----------------------------------------------------------------------------
(* The pieces of the invariant.                                            *)

LEMMA AskedMore ==
    ASSUME NEW a, NEW new \in Nat, NEW new2 \in Nat, new <= new2,
           NEW top \in Nat, NEW top2 \in Nat, top <= top2,
           a \in Requests, WellAsked(a, new, top)
    PROVE  WellAsked(a, new2, top2)
<1>1. a.job \in Nat
  BY JobFacts DEF Requests
<1>2. \A i \in DOMAIN a.ids : a.ids[i] \in Nat
  BY DEF Requests
<1> QED
  BY <1>1, <1>2 DEF WellAsked

LEMMA AnsweredMore ==
    ASSUME NEW f \in Answers, NEW new \in Nat, NEW new2 \in Nat, new <= new2,
           WellAnswered(f, new)
    PROVE  WellAnswered(f, new2)
<1>1. f.id \in Nat /\ \A x \in f.files : x.id \in Nat
  BY DEF Answers
<1> QED
  BY <1>1 DEF WellAnswered

LEMMA DeskMore ==
    ASSUME NEW d, NEW new \in Nat, NEW new2 \in Nat, new <= new2,
           NEW top \in Nat, NEW top2 \in Nat, top <= top2,
           top = top2 \/ d.upload = NoUpload, DeskOK(d, new, top)
    PROVE  DeskOK(d, new2, top2)
<1>1. d \in Desks /\ Len(d.out) <= OutLimit /\ AskedOut(d.out, new, top) /\ WellUp(d.upload, new, top)
  BY DEF DeskOK
<1>2. \A i \in DOMAIN d.out : d.out[i] \in Requests
  BY <1>1 DEF Desks
<1>3. AskedOut(d.out, new2, top2)
  BY <1>1, <1>2, AskedMore DEF AskedOut
<1>4. \A i \in DOMAIN d.upload.ids : d.upload.ids[i] \in Nat
  BY <1>1 DEF Desks, Uploads
<1>5. d.upload.job # 0 => top = top2
  BY DEF NoUpload
<1>6. WellUp(d.upload, new2, top2)
  BY <1>1, <1>4, <1>5 DEF WellUp
<1> QED
  BY <1>1, <1>3, <1>6 DEF DeskOK

LEMMA NetMore ==
    ASSUME NEW n, NEW new \in Nat, NEW new2 \in Nat, new <= new2,
           NEW top \in Nat, NEW top2 \in Nat, top <= top2, NetOK(n, new, top)
    PROVE  NetOK(n, new2, top2)
<1>1. n \in Nets /\ AskedUp(n.up, new, top) /\ AskedDown(n.down, new, top)
  BY DEF NetOK
<1>2. \A i \in DOMAIN n.up : n.up[i].ask \in Requests
  <2> SUFFICES ASSUME NEW i \in DOMAIN n.up
               PROVE  n.up[i].ask \in Requests
    OBVIOUS
  <2>1. n.up[i] \in UpFrames
    BY <1>1 DEF Nets
  <2> QED
    BY <2>1 DEF UpFrames
<1>3. AskedUp(n.up, new2, top2)
  BY <1>1, <1>2, AskedMore DEF AskedUp
<1>4. \A i \in DOMAIN n.down : n.down[i].ask \in Requests /\ (n.down[i].type = "answer" => n.down[i] \in Answers)
  <2> SUFFICES ASSUME NEW i \in DOMAIN n.down
               PROVE  n.down[i].ask \in Requests /\ (n.down[i].type = "answer" => n.down[i] \in Answers)
    OBVIOUS
  <2>1. n.down[i] \in Notes \cup Answers
    BY <1>1 DEF Nets
  <2> QED
    BY <2>1 DEF Notes, Answers
<1>5. AskedDown(n.down, new2, top2)
  BY <1>1, <1>4, AskedMore, AnsweredMore DEF AskedDown
<1> QED
  BY <1>1, <1>3, <1>5 DEF NetOK

LEMMA GrownOutOK ==
    ASSUME NEW out, NEW o, NEW as, NEW new, NEW top, AskedOut(out, new, top), Grown(out, o, as),
           \A a \in as : WellAsked(a, new, top)
    PROVE  AskedOut(o, new, top)
BY DEF AskedOut, Grown

LEMMA GrownUpOK ==
    ASSUME NEW up, NEW u, NEW s, NEW as, NEW new, NEW top, AskedUp(up, new, top),
           Grown(up, u, FramesOf(s, as)), \A a \in as : WellAsked(a, new, top)
    PROVE  AskedUp(u, new, top)
<1>1. \A f \in FramesOf(s, as) : f.ask \in as /\ f.type = "ask"
  <2> SUFFICES ASSUME NEW a \in as
               PROVE  [type |-> "ask", s |-> s, ask |-> a].ask \in as
                      /\ [type |-> "ask", s |-> s, ask |-> a].type = "ask"
    BY DEF FramesOf
  <2> QED
    OBVIOUS
<1> QED
  BY <1>1 DEF AskedUp, Grown

LEMMA PostedKeeps ==
    ASSUME NEW d, NEW n, NEW rs, NEW p, p = Posted(d, n, rs)
    PROVE  p.n.down = n.down /\ p.n.cut = n.cut
BY DEF Posted

AskedAll(as, new, top) == \A a \in as : WellAsked(a, new, top)

LEMMA PostedSound ==
    ASSUME NEW d, NEW n, NEW new, NEW top, DeskOK(d, new, top), NetOK(n, new, top),
           NEW rs \in Seq(Requests), AskedAll(ToSet(rs), new, top),
           NEW p, p = Posted(d, n, rs)
    PROVE  /\ DeskOK(p.d, new, top) /\ NetOK(p.n, new, top)
           /\ p.d.upload = d.upload /\ p.n.down = n.down
<1>1. d \in Desks /\ Len(d.out) <= OutLimit /\ n \in Nets
  BY DEF DeskOK, NetOK
<1>2. PICK o, u : /\ p.d = [d EXCEPT !.out = o] /\ p.n = [n EXCEPT !.up = u]
                  /\ Posting(d.session, d.out, n.up, o, u, ToSet(rs))
  BY <1>1, PostedFacts
<1>3. o \in Seq(Requests) /\ Len(o) <= OutLimit /\ u \in Seq(UpFrames)
      /\ Grown(d.out, o, ToSet(rs)) /\ Grown(n.up, u, FramesOf(d.session, ToSet(rs)))
  BY <1>2 DEF Posting
<1>4. AskedOut(o, new, top) /\ AskedUp(u, new, top)
  BY <1>3, GrownOutOK, GrownUpOK DEF DeskOK, NetOK, AskedAll
<1>5. p.d \in Desks /\ p.d.out = o /\ p.d.upload = d.upload
  BY <1>1, <1>2, <1>3 DEF Desks
<1>6. p.n \in Nets /\ p.n.up = u /\ p.n.down = n.down
  BY <1>1, <1>2, <1>3 DEF Nets
<1>7. DeskOK(p.d, new, top)
  BY <1>3, <1>4, <1>5 DEF DeskOK
<1>8. NetOK(p.n, new, top)
  BY <1>4, <1>6 DEF NetOK
<1> QED
  BY <1>5, <1>6, <1>7, <1>8

LEMMA NoUploadOK ==
    ASSUME NEW new, NEW top
    PROVE  NoUpload \in Uploads /\ WellUp(NoUpload, new, top) /\ NoUpload.job = 0
<1>1. NoUpload.job = 0 /\ NoUpload.ids = <<>> /\ DOMAIN NoUpload.ids = {}
  BY DEF NoUpload
<1>2. NoUpload \in Uploads
  BY DEF NoUpload, Uploads
<1> QED
  BY <1>1, <1>2 DEF WellUp

LEMMA UnderwayOf ==
    ASSUME NEW d, NEW new, NEW top, DeskOK(d, new, top), d.upload # NoUpload, top \in Nat
    PROVE  Underway(d.upload, new, top) /\ d.upload.job = top /\ top \in Jobs /\ d.upload.job # 0
BY DEF DeskOK, WellUp, Underway, Desks, Uploads

LEMMA TakenSound ==
    ASSUME NEW d, NEW n, NEW new, NEW top \in Nat, DeskOK(d, new, top), NetOK(n, new, top),
           d.upload # NoUpload, NEW step, Forward(d.upload, step, new, top),
           NEW p, p = Taken(d, n, step)
    PROVE  DeskOK(p.d, new, top) /\ NetOK(p.n, new, top) /\ p.n.down = n.down
<1>1. d \in Desks /\ Len(d.out) <= OutLimit /\ n \in Nets
  BY DEF DeskOK, NetOK
<1>2. PICK v, rs : /\ step = Step(v, rs) /\ rs \in Seq(Requests) /\ Len(rs) <= 1
                   /\ Underway(v, new, top) /\ v.job = d.upload.job
                   /\ \A a \in ToSet(rs) : OfUploadOK(a, v, new, top)
  BY DEF Forward
<1>3. \A a \in ToSet(rs) : WellAsked(a, new, top)
  BY <1>2 DEF OfUploadOK
<1>4. v \in Uploads
  BY <1>2 DEF Underway
<1>5. PICK o, u, w : /\ p.d = [d EXCEPT !.upload = w, !.out = o] /\ p.n = [n EXCEPT !.up = u]
                     /\ w \in {v, NoUpload}
                     /\ Posting(d.session, d.out, n.up, o, u, ToSet(rs))
  <2>1. p = Taken(d, n, Step(v, rs))
    BY <1>2
  <2>2. \E o, u, w : TakenTo(d, n, p, v, rs, o, u, w)
    BY <2>1, <1>1, <1>2, <1>4, TakenFacts
  <2> QED
    BY <2>2 DEF TakenTo
<1>6. o \in Seq(Requests) /\ Len(o) <= OutLimit /\ u \in Seq(UpFrames)
      /\ Grown(d.out, o, ToSet(rs)) /\ Grown(n.up, u, FramesOf(d.session, ToSet(rs)))
  BY <1>5 DEF Posting
<1>7. AskedOut(o, new, top) /\ AskedUp(u, new, top)
  BY <1>3, <1>6, GrownOutOK, GrownUpOK DEF DeskOK, NetOK
<1>8. WellUp(v, new, top)
  <2>1. v.job = top /\ v.job # 0
    BY <1>2, UnderwayOf
  <2> QED
    BY <2>1, <1>2 DEF WellUp, Underway, NoUpload
<1>9. WellUp(w, new, top) /\ w \in Uploads
  BY <1>4, <1>5, <1>8, NoUploadOK
<1>10. p.d \in Desks /\ p.d.out = o /\ p.d.upload = w
  BY <1>1, <1>5, <1>6, <1>9 DEF Desks
<1>11. p.n \in Nets /\ p.n.up = u /\ p.n.down = n.down
  BY <1>1, <1>5, <1>6 DEF Nets
<1>12. DeskOK(p.d, new, top)
  BY <1>6, <1>7, <1>9, <1>10 DEF DeskOK
<1>13. NetOK(p.n, new, top)
  BY <1>7, <1>11 DEF NetOK
<1> QED
  BY <1>11, <1>12, <1>13

\* What is left of the table once the answer f is heard.
AnsweredTo(d, ask, e, at, r, w, g) ==
    /\ at \in DOMAIN d.out /\ d.out[at] = ask
    /\ r \in Seq(Requests) /\ Struck(d.out, r, at)
    /\ w \in {d.upload, NoUpload} /\ g \in {d.sending, 0}
    /\ e = [d EXCEPT !.out = r, !.hello = FALSE, !.upload = w, !.sending = g]
    /\ w # d.upload => d.upload.stalled

LEMMA AnsweredFacts ==
    ASSUME NEW d \in Desks, NEW f, f.ask \in ToSet(d.out), NEW e, e = Answered(d, f)
    PROVE  \E at, r, w, g : AnsweredTo(d, f.ask, e, at, r, w, g)
<1> DEFINE at == Lowest({i \in DOMAIN d.out : d.out[i] = f.ask})
           old == d.hello /\ f.ask.kind # "hello"
           gone == /\ d.upload.stalled /\ phone.wire # "new"
                   /\ old \/ f.ask.kind = "hello"
           rest == Those(RemoveAt(d.out, at), {a \in ToSet(d.out) : ~old \/ a.kind # "hello"})
           w == IF gone THEN NoUpload ELSE d.upload
           g == IF gone THEN 0 ELSE d.sending
<1>1. d.out \in Seq(Requests) /\ d.hello \in BOOLEAN
  BY DEF Desks
<1>2. at \in DOMAIN d.out /\ d.out[at] = f.ask
  <2>1. {i \in DOMAIN d.out : d.out[i] = f.ask} # {}
    BY DEF ToSet
  <2>2. {i \in DOMAIN d.out : d.out[i] = f.ask} \subseteq Nat
    BY <1>1
  <2>3. at \in {i \in DOMAIN d.out : d.out[i] = f.ask}
    BY <2>1, <2>2, LowestFacts
  <2> QED
    BY <2>3
<1>3. old \in BOOLEAN
  BY <1>1
<1> HIDE DEF at, old
<1>4. rest \in Seq(Requests) /\ Struck(d.out, rest, at)
  BY <1>1, <1>2, <1>3, StruckOut
<1>5. Answered(d, f) = [d EXCEPT !.out = rest, !.hello = FALSE, !.upload = w, !.sending = g]
  BY DEF Answered, at, old
<1>6. w \in {d.upload, NoUpload} /\ g \in {d.sending, 0} /\ (w # d.upload => d.upload.stalled)
  OBVIOUS
<1> HIDE DEF rest, w, g
<1>7. AnsweredTo(d, f.ask, e, at, rest, w, g)
  BY <1>2, <1>4, <1>5, <1>6 DEF AnsweredTo
<1> QED
  BY <1>7

LEMMA AnsweredSound ==
    ASSUME NEW d, NEW new, NEW top, DeskOK(d, new, top), NEW f, f.ask \in ToSet(d.out),
           NEW e, e = Answered(d, f)
    PROVE  /\ DeskOK(e, new, top) /\ e.upload \in {d.upload, NoUpload}
           /\ e.session = d.session /\ Len(e.out) <= Len(d.out)
<1>1. d \in Desks /\ Len(d.out) <= OutLimit
  BY DEF DeskOK
<1>2. PICK at \in DOMAIN d.out, r \in Seq(Requests), w \in {d.upload, NoUpload}, g \in {d.sending, 0} :
              /\ Struck(d.out, r, at)
              /\ e = [d EXCEPT !.out = r, !.hello = FALSE, !.upload = w, !.sending = g]
  <2>1. \E at, r, w, g : AnsweredTo(d, f.ask, e, at, r, w, g)
    BY <1>1, AnsweredFacts
  <2> QED
    BY <2>1 DEF AnsweredTo
<1>3. d.upload \in Uploads /\ d.sending \in Jobs \cup {0} /\ d.out \in Seq(Requests)
  BY <1>1 DEF Desks
<1>4. w \in Uploads /\ g \in Jobs \cup {0} /\ WellUp(w, new, top)
  BY <1>2, <1>3, NoUploadOK DEF DeskOK
<1>5. e \in Desks /\ e.out = r /\ e.upload = w /\ e.session = d.session
  BY <1>1, <1>2, <1>4 DEF Desks
<1>6. Len(r) <= Len(d.out) /\ Len(r) \in Nat /\ Len(d.out) \in Nat /\ OutLimit \in Nat
  BY <1>2, <1>3, CompanionAssumption DEF Struck
<1>7. Len(r) <= OutLimit
  <2>1. PICK a, b, c : a = Len(r) /\ b = Len(d.out) /\ c = OutLimit
    OBVIOUS
  <2> QED
    BY <2>1, <1>1, <1>6
<1>8. AskedOut(r, new, top)
  BY <1>2 DEF AskedOut, Struck, DeskOK
<1>9. DeskOK(e, new, top)
  BY <1>4, <1>5, <1>7, <1>8 DEF DeskOK
<1> QED
  BY <1>5, <1>6, <1>9

LEMMA OpenedFacts ==
    ASSUME told \in [Jobs -> Fates]
    PROVE  Opened \in Nat /\ IsFiniteSet({i \in Jobs : told[i] # "none"})
<1>1. Jobs = 1..Len(Sizes) /\ Len(Sizes) \in Nat
  BY CompanionAssumption DEF Jobs
<1>2. IsFiniteSet(Jobs)
  BY <1>1, FS_Interval
<1>3. IsFiniteSet({i \in Jobs : told[i] # "none"})
  BY <1>2, FS_Subset
<1> QED
  BY <1>3, FS_CardinalityType DEF Opened

LEMMA ToldSame ==
    ASSUME OpenedInOrder, told \in [Jobs -> Fates], told' = told
    PROVE  Opened' = Opened /\ OpenedInOrder' /\ told' \in [Jobs -> Fates]
<1>1. Opened' = Opened
  BY DEF Opened
<1> QED
  BY <1>1 DEF OpenedInOrder

\* The person is told again of a job that was opened.
LEMMA ToldMore ==
    ASSUME OpenedInOrder, told \in [Jobs -> Fates], NEW j \in Jobs, j <= Opened,
           NEW fate \in Fates \ {"none"}, told' = [told EXCEPT ![j] = fate]
    PROVE  Opened' = Opened /\ OpenedInOrder' /\ told' \in [Jobs -> Fates]
<1>1. told[j] # "none"
  BY DEF OpenedInOrder
<1>2. \A i \in Jobs : told'[i] # "none" <=> told[i] # "none"
  BY <1>1
<1>3. {i \in Jobs : told'[i] # "none"} = {i \in Jobs : told[i] # "none"}
  BY <1>2
<1>4. Opened' = Opened
  BY <1>3 DEF Opened
<1>5. OpenedInOrder'
  BY <1>2, <1>4 DEF OpenedInOrder
<1>6. told' \in [Jobs -> Fates]
  OBVIOUS
<1> QED
  BY <1>4, <1>5, <1>6

\* The next job is opened.
LEMMA ToldNext ==
    ASSUME OpenedInOrder, told \in [Jobs -> Fates], Opened + 1 \in Jobs,
           NEW fate \in Fates \ {"none"}, told' = [told EXCEPT ![Opened + 1] = fate]
    PROVE  Opened' = Opened + 1 /\ OpenedInOrder' /\ told' \in [Jobs -> Fates]
<1>1. Opened \in Nat /\ IsFiniteSet({i \in Jobs : told[i] # "none"})
  BY OpenedFacts
<1>2. told[Opened + 1] = "none"
  BY <1>1 DEF OpenedInOrder
<1>3. {i \in Jobs : told'[i] # "none"} = {i \in Jobs : told[i] # "none"} \cup {Opened + 1}
  OBVIOUS
<1>4. Opened + 1 \notin {i \in Jobs : told[i] # "none"}
  BY <1>2
<1>5. Cardinality({i \in Jobs : told'[i] # "none"}) = Opened + 1
  BY <1>1, <1>3, <1>4, FS_AddElement DEF Opened
<1>6. Opened' = Opened + 1
  BY <1>5 DEF Opened
<1>7. OpenedInOrder'
  <2> SUFFICES ASSUME NEW i \in Jobs
               PROVE  told'[i] # "none" <=> i <= Opened + 1
    BY <1>6 DEF OpenedInOrder
  <2>1. i \in Nat
    BY JobFacts
  <2>2. CASE i = Opened + 1
    BY <2>2, <1>1
  <2>3. CASE i # Opened + 1
    BY <2>1, <2>3, <1>1 DEF OpenedInOrder
  <2> QED
    BY <2>2, <2>3
<1>8. told' \in [Jobs -> Fates]
  OBVIOUS
<1> QED
  BY <1>6, <1>7, <1>8

\* The person is told of the upload of d, if there is one.
LEMMA ToldOf ==
    ASSUME OpenedInOrder, told \in [Jobs -> Fates], NEW d, NEW new, DeskOK(d, new, Opened),
           NEW fate \in Fates \ {"none"}, Told(d, fate)
    PROVE  Opened' = Opened /\ OpenedInOrder' /\ told' \in [Jobs -> Fates]
<1>1. CASE d.upload.job = 0
  BY <1>1, ToldSame DEF Told
<1>2. CASE d.upload.job # 0
  <2>1. d.upload.job = Opened /\ d.upload.job \in Jobs
    BY <1>2 DEF DeskOK, WellUp, Desks, Uploads
  <2>2. told' = [told EXCEPT ![d.upload.job] = fate] /\ d.upload.job <= Opened
    BY <1>2, <2>1, JobFacts DEF Told
  <2>3. PICK j : j = d.upload.job
    OBVIOUS
  <2> QED
    BY <2>1, <2>2, <2>3, ToldMore
<1> QED
  BY <1>1, <1>2

\* A frame heard on either side.
LEMMA DownHead ==
    ASSUME NEW n, NEW new, NEW top, NetOK(n, new, top), n.down # <<>>
    PROVE  /\ NetOK([n EXCEPT !.down = Tail(@)], new, top)
           /\ Head(n.down) \in Notes \cup Answers
           /\ Head(n.down).type = "answer" =>
                  /\ Head(n.down) \in Answers
                  /\ WellAsked(Head(n.down).ask, new, top) /\ WellAnswered(Head(n.down), new)
<1>1. n \in Nets /\ AskedUp(n.up, new, top) /\ AskedDown(n.down, new, top)
  BY DEF NetOK
<1>2. PICK q : q = n.down
  OBVIOUS
<1>3. q \in Seq(Notes \cup Answers) /\ q # <<>>
  BY <1>1, <1>2 DEF Nets
<1>4. /\ Tail(q) \in Seq(Notes \cup Answers) /\ Head(q) \in Notes \cup Answers
      /\ Head(q) = q[1] /\ 1 \in DOMAIN q
      /\ \A i \in DOMAIN Tail(q) : i + 1 \in DOMAIN q /\ Tail(q)[i] = q[i + 1]
  BY <1>3, TailFacts
<1>5. AskedDown(Tail(q), new, top)
  BY <1>1, <1>2, <1>4 DEF AskedDown
<1>6. PICK m : m = [n EXCEPT !.down = Tail(@)]
  OBVIOUS
<1>7. m \in Nets /\ m.up = n.up /\ m.down = Tail(q)
  BY <1>1, <1>2, <1>4, <1>6 DEF Nets
<1>8. NetOK(m, new, top)
  BY <1>1, <1>5, <1>7 DEF NetOK
<1>9. Head(q).type = "answer" => Head(q) \in Answers
  BY <1>4 DEF Notes
<1>10. Head(q).type = "answer" => WellAsked(Head(q).ask, new, top) /\ WellAnswered(Head(q), new)
  BY <1>1, <1>2, <1>4 DEF AskedDown
<1> QED
  BY <1>2, <1>4, <1>6, <1>8, <1>9, <1>10

LEMMA UpHead ==
    ASSUME NEW n, NEW new, NEW top, NetOK(n, new, top), n.up # <<>>
    PROVE  /\ NetOK([n EXCEPT !.up = Tail(@)], new, top)
           /\ Head(n.up) \in UpFrames /\ WellAsked(Head(n.up).ask, new, top)
           /\ Head(n.up).type = "hello" => Head(n.up).ask.kind = "none"
<1>1. n \in Nets /\ AskedUp(n.up, new, top) /\ AskedDown(n.down, new, top)
  BY DEF NetOK
<1>2. PICK q : q = n.up
  OBVIOUS
<1>3. q \in Seq(UpFrames) /\ q # <<>>
  BY <1>1, <1>2 DEF Nets
<1>4. /\ Tail(q) \in Seq(UpFrames) /\ Head(q) \in UpFrames
      /\ Head(q) = q[1] /\ 1 \in DOMAIN q
      /\ \A i \in DOMAIN Tail(q) : i + 1 \in DOMAIN q /\ Tail(q)[i] = q[i + 1]
  BY <1>3, TailFacts
<1>5. AskedUp(Tail(q), new, top)
  BY <1>1, <1>2, <1>4 DEF AskedUp
<1>6. PICK m : m = [n EXCEPT !.up = Tail(@)]
  OBVIOUS
<1>7. m \in Nets /\ m.down = n.down /\ m.up = Tail(q)
  BY <1>1, <1>2, <1>4, <1>6 DEF Nets
<1>8. NetOK(m, new, top)
  BY <1>1, <1>5, <1>7 DEF NetOK
<1>9. WellAsked(Head(q).ask, new, top) /\ (Head(q).type = "hello" => Head(q).ask.kind = "none")
  BY <1>1, <1>2, <1>4 DEF AskedUp
<1> QED
  BY <1>2, <1>4, <1>6, <1>8, <1>9

-----------------------------------------------------------------------------
(* The desktop keeps the invariant.                                        *)

LEMMA PlainOK ==
    ASSUME NEW kind \in Plains, NEW new, NEW top \in Nat
    PROVE  Plain(kind) \in Requests /\ WellAsked(Plain(kind), new, top)
<1>1. PICK a : a = Plain(kind)
  OBVIOUS
<1>2. a = [kind |-> kind, job |-> 0, which |-> 0, n |-> 0, ids |-> <<>>]
  BY <1>1 DEF Plain, RequestOf
<1>3. a.ids = <<>> /\ DOMAIN a.ids = {} /\ a.kind = kind /\ a.job = 0
  BY <1>2
<1>4. a \in Requests
  BY <1>2 DEF Requests, Kinds, Plains
<1>5. WellAsked(a, new, top)
  BY <1>3 DEF WellAsked, Plains
<1> QED
  BY <1>1, <1>4, <1>5

LEMMA AbortsOK ==
    ASSUME NEW d, NEW new, NEW top \in Nat, DeskOK(d, new, top), NEW as,
           as = [i \in DOMAIN d.upload.ids |-> FileAbort(d.upload, d.upload.ids[i])]
    PROVE  as \in Seq(Requests) /\ \A a \in ToSet(as) : WellAsked(a, new, top) /\ a.kind = "abort"
<1>1. PICK u : u = d.upload
  OBVIOUS
<1>2. u \in Uploads /\ WellUp(u, new, top) /\ u.ids \in Seq(Nat)
  BY <1>1 DEF DeskOK, Desks, Uploads
<1>3. DOMAIN u.ids = 1..Len(u.ids) /\ Len(u.ids) \in Nat
  BY <1>2
<1>4. ASSUME NEW i \in DOMAIN u.ids
      PROVE  /\ FileAbort(u, u.ids[i]) \in Requests /\ WellAsked(FileAbort(u, u.ids[i]), new, top)
             /\ FileAbort(u, u.ids[i]).kind = "abort"
  <2>1. PICK id : id = u.ids[i]
    OBVIOUS
  <2>2. PICK a : a = FileAbort(u, id)
    OBVIOUS
  <2>3. a = [kind |-> "abort", job |-> u.job, which |-> 0, n |-> 0, ids |-> <<id>>]
    BY <2>2 DEF FileAbort, RequestOf
  <2>4. id \in Nat /\ id < new
    BY <2>1, <1>2 DEF WellUp
  <2>5. <<id>> \in Seq(Nat) /\ \A k \in DOMAIN <<id>> : <<id>>[k] = id
    BY <2>4
  <2>6. u # NoUpload
    BY <1>4 DEF NoUpload
  <2>7. u.job # 0 /\ u.job = top /\ u.job \in Jobs
    BY <2>6, <1>2 DEF WellUp, Uploads
  <2>8. a \in Requests
    BY <2>3, <2>5, <2>7 DEF Requests, Kinds
  <2>9. WellAsked(a, new, top)
    BY <2>3, <2>4, <2>5, <2>7 DEF WellAsked, Plains
  <2> QED
    BY <2>1, <2>2, <2>3, <2>8, <2>9
<1>5. as \in [1..Len(u.ids) -> Requests]
  BY <1>1, <1>3, <1>4
<1>6. as \in Seq(Requests)
  BY <1>3, <1>5
<1>7. \A a \in ToSet(as) : \E i \in DOMAIN u.ids : a = FileAbort(u, u.ids[i])
  BY <1>1 DEF ToSet
<1> QED
  BY <1>4, <1>6, <1>7

LEMMA SoundParts ==
    ASSUME Sound
    PROVE  /\ DeskOK(desk, phone.fresh, Opened) /\ PhoneOK(phone) /\ NetOK(net, phone.fresh, Opened)
           /\ BooksOK /\ Opened \in Nat /\ phone.fresh \in Nat
BY OpenedFacts DEF Sound, PhoneOK, Phones, BooksOK

LEMMA SendFilesSound ==
    ASSUME Sound, SendFiles
    PROVE  Sound'
<1>1. /\ DeskOK(desk, phone.fresh, Opened) /\ PhoneOK(phone) /\ NetOK(net, phone.fresh, Opened)
      /\ BooksOK /\ Opened \in Nat /\ phone.fresh \in Nat
  BY SoundParts
<1>2. PICK j : j = Opened + 1
  OBVIOUS
<1>3. PICK u : u = [NoUpload EXCEPT !.job = j, !.at = 1]
  OBVIOUS
<1>4. PICK d : d = [desk EXCEPT !.sending = j, !.upload = u]
  OBVIOUS
<1>5. PICK a : a = FileOffer(u, 1)
  OBVIOUS
<1>6. PICK p : p = Posted(d, net, <<a>>)
  OBVIOUS
<1>7. /\ j \in Jobs /\ desk.upload = NoUpload
      /\ desk' = IF p.all THEN p.d ELSE [p.d EXCEPT !.upload = NoUpload]
      /\ net' = p.n
      /\ told' = [told EXCEPT ![j] = IF p.all THEN "open" ELSE "dropped"]
      /\ UNCHANGED <<phone, messages, tries, accidents, history>>
  BY <1>2, <1>3, <1>4, <1>5, <1>6 DEF SendFiles, Opened
<1>8. Opened' = j /\ OpenedInOrder' /\ told' \in [Jobs -> Fates]
  <2>1. OpenedInOrder /\ told \in [Jobs -> Fates]
    BY <1>1 DEF BooksOK
  <2>2. PICK fate : fate = IF p.all THEN "open" ELSE "dropped"
    OBVIOUS
  <2>3. fate \in Fates \ {"none"} /\ told' = [told EXCEPT ![Opened + 1] = fate]
    BY <1>7, <1>2, <2>2 DEF Fates
  <2> QED
    BY <2>1, <2>3, <1>1, <1>2, <1>7, ToldNext
<1>9. NetOK(net, phone.fresh, j) /\ DeskOK(desk, phone.fresh, j)
  BY <1>1, <1>2, <1>7, NetMore, DeskMore
<1>10. u \in Uploads /\ u.job = j /\ u.at = 1 /\ u.ids = <<>> /\ DOMAIN u.ids = {} /\ j # 0 /\ j \in Nat
  <2>1. j \in Jobs /\ j # 0 /\ j \in Nat
    BY <1>7, JobFacts
  <2>2. u = [job |-> j, at |-> 1, ids |-> <<>>, next |-> 0, total |-> 0, stalled |-> FALSE]
    BY <1>3 DEF NoUpload
  <2>3. <<>> \in Seq(Nat)
    OBVIOUS
  <2> QED
    BY <2>1, <2>2, <2>3 DEF Uploads
<1>11. Underway(u, phone.fresh, j) /\ WellUp(u, phone.fresh, j)
  BY <1>10, <1>7 DEF Underway, WellUp, NoUpload
<1>12. DeskOK(d, phone.fresh, j)
  <2>1. desk \in Desks /\ Len(desk.out) <= OutLimit /\ AskedOut(desk.out, phone.fresh, j)
    BY <1>9 DEF DeskOK
  <2>2. d \in Desks /\ d.out = desk.out /\ d.upload = u
    BY <2>1, <1>4, <1>7, <1>10 DEF Desks
  <2> QED
    BY <2>1, <2>2, <1>11 DEF DeskOK
<1>13. a \in Requests /\ WellAsked(a, phone.fresh, j)
  <2>1. 1 \in DOMAIN Sizes[u.job]
    BY <1>7, <1>10, JobFacts
  <2>2. OfUploadOK(a, u, phone.fresh, j)
    BY <2>1, <1>5, <1>11, OfferAsked
  <2> QED
    BY <2>2 DEF OfUploadOK
<1>14. <<a>> \in Seq(Requests) /\ AskedAll(ToSet(<<a>>), phone.fresh, j)
  BY <1>13, AskOne DEF AskedAll
<1>15. DeskOK(p.d, phone.fresh, j) /\ NetOK(p.n, phone.fresh, j)
  BY <1>6, <1>9, <1>12, <1>14, PostedSound
<1>16. DeskOK(desk', phone.fresh, j)
  <2>1. CASE p.all
    BY <2>1, <1>7, <1>15
  <2>2. CASE ~p.all
    <3>1. desk' = [p.d EXCEPT !.upload = NoUpload]
      BY <2>2, <1>7
    <3>2. p.d \in Desks /\ Len(p.d.out) <= OutLimit /\ AskedOut(p.d.out, phone.fresh, j)
      BY <1>15 DEF DeskOK
    <3>3. desk' \in Desks /\ desk'.out = p.d.out /\ desk'.upload = NoUpload
      BY <3>1, <3>2, NoUploadOK DEF Desks
    <3> QED
      BY <3>2, <3>3, NoUploadOK DEF DeskOK
  <2> QED
    BY <2>1, <2>2
<1>17. BooksOK'
  BY <1>1, <1>7, <1>8 DEF BooksOK, history
<1> QED
  BY <1>1, <1>7, <1>8, <1>15, <1>16, <1>17 DEF Sound

LEMMA CancelSendSound ==
    ASSUME Sound, CancelSend
    PROVE  Sound'
<1>1. /\ DeskOK(desk, phone.fresh, Opened) /\ PhoneOK(phone) /\ NetOK(net, phone.fresh, Opened)
      /\ BooksOK /\ Opened \in Nat /\ phone.fresh \in Nat
  BY SoundParts
<1>2. PICK d : d = [desk EXCEPT !.upload = NoUpload, !.sending = 0]
  OBVIOUS
<1>3. PICK as : as = [i \in DOMAIN desk.upload.ids |-> FileAbort(desk.upload, desk.upload.ids[i])]
  OBVIOUS
<1>4. PICK p : p = Posted(d, net, as)
  OBVIOUS
<1>5. /\ desk' = p.d /\ net' = p.n /\ Told(desk, "cancelled")
      /\ UNCHANGED <<phone, messages, tries, accidents, history>>
  BY <1>2, <1>3, <1>4 DEF CancelSend
<1>6. as \in Seq(Requests) /\ AskedAll(ToSet(as), phone.fresh, Opened)
  BY <1>1, <1>3, AbortsOK DEF AskedAll
<1>7. DeskOK(d, phone.fresh, Opened)
  <2>1. desk \in Desks /\ Len(desk.out) <= OutLimit /\ AskedOut(desk.out, phone.fresh, Opened)
    BY <1>1 DEF DeskOK
  <2>2. d \in Desks /\ d.out = desk.out /\ d.upload = NoUpload
    BY <2>1, <1>2, NoUploadOK DEF Desks
  <2> QED
    BY <2>1, <2>2, NoUploadOK DEF DeskOK
<1>8. DeskOK(p.d, phone.fresh, Opened) /\ NetOK(p.n, phone.fresh, Opened)
  BY <1>1, <1>4, <1>6, <1>7, PostedSound
<1>9. Opened' = Opened /\ OpenedInOrder' /\ told' \in [Jobs -> Fates]
  <2>1. OpenedInOrder /\ told \in [Jobs -> Fates] /\ "cancelled" \in Fates \ {"none"}
    BY <1>1 DEF BooksOK, Fates
  <2> QED
    BY <2>1, <1>1, <1>5, ToldOf
<1>10. BooksOK'
  BY <1>1, <1>5, <1>9 DEF BooksOK, history
<1> QED
  BY <1>1, <1>5, <1>8, <1>9, <1>10 DEF Sound

LEMMA ReachSound ==
    ASSUME Sound, NEW again, Reach(again)
    PROVE  Sound'
<1>1. /\ DeskOK(desk, phone.fresh, Opened) /\ PhoneOK(phone) /\ NetOK(net, phone.fresh, Opened)
      /\ BooksOK /\ Opened \in Nat /\ phone.fresh \in Nat
  BY SoundParts
<1>2. PICK f : f = [type |-> "hello", s |-> tries', ask |-> Plain("none")]
  OBVIOUS
<1>3. /\ tries < MaxTries /\ tries' = tries + 1 /\ accidents' \in {accidents, accidents + 1}
      /\ accidents' # accidents => accidents < Accidents
      /\ desk' = [desk EXCEPT !.pending = tries']
      /\ net' = [net EXCEPT !.up = Append(@, f)]
      /\ UNCHANGED <<phone, messages, told, history>>
  BY <1>2 DEF Reach
<1>4. tries' \in 1..MaxTries /\ accidents' \in 0..Accidents
  BY <1>1, <1>3, CompanionAssumption DEF BooksOK
<1>5. f \in UpFrames /\ f.ask = Plain("none") /\ f.ask.kind = "none"
      /\ WellAsked(f.ask, phone.fresh, Opened)
  <2>1. "none" \in Plains
    BY DEF Plains
  <2>2. Plain("none") \in Requests /\ WellAsked(Plain("none"), phone.fresh, Opened)
    BY <2>1, <1>1, PlainOK
  <2>3. Plain("none").kind = "none"
    BY DEF Plain, RequestOf
  <2> QED
    BY <2>2, <2>3, <1>2, <1>4 DEF UpFrames
<1>6. NetOK(net', phone.fresh, Opened)
  <2>1. net \in Nets /\ AskedUp(net.up, phone.fresh, Opened) /\ AskedDown(net.down, phone.fresh, Opened)
    BY <1>1 DEF NetOK
  <2>2. PICK q : q = net.up
    OBVIOUS
  <2>3. q \in Seq(UpFrames)
    BY <2>1, <2>2 DEF Nets
  <2>4. Append(q, f) \in Seq(UpFrames) /\ Grown(q, Append(q, f), {f})
    BY <2>3, <1>5, OneMore, GrownOne
  <2>5. AskedUp(Append(q, f), phone.fresh, Opened)
    BY <2>1, <2>2, <2>4, <1>5 DEF AskedUp, Grown
  <2>6. net' \in Nets /\ net'.up = Append(q, f) /\ net'.down = net.down
    BY <2>1, <2>2, <2>4, <1>3 DEF Nets
  <2> QED
    BY <2>1, <2>5, <2>6 DEF NetOK
<1>7. DeskOK(desk', phone.fresh, Opened)
  <2>1. desk \in Desks
    BY <1>1 DEF DeskOK
  <2>2. desk' \in Desks /\ desk'.out = desk.out /\ desk'.upload = desk.upload
    BY <2>1, <1>3, <1>4 DEF Desks
  <2> QED
    BY <2>2, <1>1 DEF DeskOK
<1>8. Opened' = Opened /\ OpenedInOrder' /\ told' \in [Jobs -> Fates]
  BY <1>1, <1>3, ToldSame DEF BooksOK
<1>9. BooksOK'
  <2>1. tries' \in 0..MaxTries
    BY <1>4
  <2> QED
    BY <2>1, <1>1, <1>3, <1>4, <1>8 DEF BooksOK, history
<1> QED
  BY <1>1, <1>3, <1>6, <1>7, <1>8, <1>9 DEF Sound

\* What the upload of d does with an answer.
LEMMA ReactionForward ==
    ASSUME NEW d, NEW new, NEW top \in Nat, DeskOK(d, new, top), d.upload # NoUpload,
           NEW f \in Answers, WellAnswered(f, new), f.ans \in {"offer", "done", "staged"}
    PROVE  Forward(d.upload, Reaction(d.upload, f), new, top)
<1>1. PICK u : u = d.upload
  OBVIOUS
<1>2. Underway(u, new, top)
  BY <1>1, UnderwayOf
<1>3. f.id \in Nat /\ f.id < new /\ f.total \in Nat
  BY DEF Answers, WellAnswered
<1>4. \A x \in f.files : x.total \in Nat /\ x.missing \subseteq 0..(x.total - 1)
  BY DEF Answers, WellAnswered
<1>5. CASE f.ans = "offer"
  <2>1. PICK id, total : id = f.id /\ total = f.total
    OBVIOUS
  <2>2. Reaction(u, f) = Placed(u, id, total)
    BY <1>5, <2>1 DEF Reaction
  <2>3. Forward(u, Placed(u, id, total), new, top)
    BY <1>2, <1>3, <2>1, PlacedForward
  <2> QED
    BY <1>1, <2>2, <2>3
<1>6. CASE f.ans = "done"
  <2>1. Reaction(u, f) = Laid(u)
    BY <1>6 DEF Reaction
  <2>2. Forward(u, Laid(u), new, top)
    BY <1>2, LaidForward
  <2> QED
    BY <1>1, <2>1, <2>2
<1>7. CASE f.ans = "staged"
  <2>1. PICK files : files = f.files
    OBVIOUS
  <2>2. Reaction(u, f) = Resumed(u, files)
    BY <1>7, <2>1 DEF Reaction
  <2>3. Forward(u, Resumed(u, files), new, top)
    BY <1>2, <1>4, <2>1, ResumedForward
  <2> QED
    BY <1>1, <2>2, <2>3
<1> QED
  BY <1>5, <1>6, <1>7

LEMMA Empties ==
    /\ <<>> \in Seq(Requests) /\ Len(<<>>) = 0 /\ DOMAIN <<>> = {}
    /\ 0 <= OutLimit /\ 0 \in 0..MaxTries
BY CompanionAssumption

\* The three questions of a new session.
Questions(u) ==
    <<Plain("hello"), Plain("chats")>> \o (IF u = NoUpload THEN <<>> ELSE <<Plain("staged")>>)

LEMMA QuestionsOK ==
    ASSUME NEW u, NEW new, NEW top \in Nat
    PROVE  /\ Questions(u) \in Seq(Requests)
           /\ \A a \in ToSet(Questions(u)) : WellAsked(a, new, top) /\ a.kind \in Plains
<1>1. PICK x, y, z : x = Plain("hello") /\ y = Plain("chats") /\ z = Plain("staged")
  OBVIOUS
<1>2. /\ x \in Requests /\ WellAsked(x, new, top) /\ x.kind = "hello"
      /\ y \in Requests /\ WellAsked(y, new, top) /\ y.kind = "chats"
      /\ z \in Requests /\ WellAsked(z, new, top) /\ z.kind = "staged"
  <2>1. \A k \in Plains : Plain(k) \in Requests /\ WellAsked(Plain(k), new, top) /\ Plain(k).kind = k
    BY PlainOK DEF Plain, RequestOf
  <2> QED
    BY <2>1, <1>1 DEF Plains
<1>3. PICK q : q = <<x, y>>
  OBVIOUS
<1>4. q \in Seq(Requests) /\ ToSet(q) = {x, y}
  BY <1>2, <1>3 DEF ToSet
<1>5. PICK r : r = IF u = NoUpload THEN <<>> ELSE <<z>>
  OBVIOUS
<1>6. r \in Seq(Requests) /\ ToSet(r) \subseteq {z}
  <2>1. <<z>> \in Seq(Requests) /\ ToSet(<<z>>) = {z} /\ <<>> \in Seq(Requests) /\ ToSet(<<>>) = {}
    BY <1>2, AskOne
  <2> QED
    BY <2>1, <1>5
<1>7. q \o r \in Seq(Requests) /\ Grown(q, q \o r, ToSet(r))
  BY <1>4, <1>6, Joins
<1>8. ToSet(q \o r) \subseteq {x, y, z}
  BY <1>4, <1>6, <1>7 DEF ToSet, Grown
<1>9. Questions(u) = q \o r
  BY <1>1, <1>3, <1>5 DEF Questions
<1>10. \A a \in {x, y, z} : WellAsked(a, new, top) /\ a.kind \in Plains
  BY <1>2 DEF Plains
<1> QED
  BY <1>7, <1>8, <1>9, <1>10

LEMMA HearReplySound ==
    ASSUME Sound, net.down # <<>>, NEW f, f = Head(net.down), HearReply(f),
           UNCHANGED <<phone, messages, tries, accidents>>
    PROVE  Sound'
<1>1. /\ DeskOK(desk, phone.fresh, Opened) /\ PhoneOK(phone) /\ NetOK(net, phone.fresh, Opened)
      /\ BooksOK /\ Opened \in Nat /\ phone.fresh \in Nat
  BY SoundParts
<1>2. UNCHANGED <<told, history>>
  BY DEF HearReply
<1>3. Opened' = Opened /\ OpenedInOrder' /\ told' \in [Jobs -> Fates]
  BY <1>1, <1>2, ToldSame DEF BooksOK
<1>4. BooksOK'
  BY <1>1, <1>2, <1>3 DEF BooksOK, history
<1>5. DeskOK(desk', phone.fresh, Opened) /\ NetOK(net', phone.fresh, Opened)
  <2>1. CASE desk.pending = f.s
    <3>1. PICK d : d = [desk EXCEPT !.session = desk.pending, !.pending = 0, !.out = <<>>, !.hello = TRUE]
      OBVIOUS
    <3>2. PICK rs : rs = Questions(desk.upload)
      OBVIOUS
    <3>3. PICK p : p = Posted(d, net, rs)
      OBVIOUS
    <3>4. Linked(desk, net) = p
      BY <3>1, <3>2, <3>3 DEF Linked, Questions
    <3>5. desk' = p.d /\ net' = [p.n EXCEPT !.down = Tail(@)]
      BY <2>1, <3>4 DEF HearReply
    <3>6. DeskOK(d, phone.fresh, Opened)
      <4>1. desk \in Desks /\ WellUp(desk.upload, phone.fresh, Opened)
        BY <1>1 DEF DeskOK
      <4>2. d \in Desks /\ d.out = <<>> /\ d.upload = desk.upload
        BY <3>1, <4>1, Empties DEF Desks
      <4>3. Len(d.out) = 0 /\ DOMAIN d.out = {} /\ 0 <= OutLimit
        BY <4>2, Empties
      <4> QED
        BY <4>1, <4>2, <4>3 DEF DeskOK, AskedOut
    <3>7. rs \in Seq(Requests) /\ AskedAll(ToSet(rs), phone.fresh, Opened)
      BY <1>1, <3>2, QuestionsOK DEF AskedAll
    <3>8. DeskOK(p.d, phone.fresh, Opened) /\ NetOK(p.n, phone.fresh, Opened) /\ p.n.down = net.down
      <4>1. DeskOK(p.d, phone.fresh, Opened) /\ NetOK(p.n, phone.fresh, Opened)
        BY <1>1, <3>3, <3>6, <3>7, PostedSound
      <4>2. p.n.down = net.down
        BY <3>3, PostedKeeps
      <4> QED
        BY <4>1, <4>2
    <3>9. PICK n : n = p.n
      OBVIOUS
    <3>10. NetOK([n EXCEPT !.down = Tail(@)], phone.fresh, Opened)
      BY <3>8, <3>9, DownHead
    <3> QED
      BY <3>5, <3>8, <3>9, <3>10
  <2>2. CASE desk.pending # f.s
    <3>1. desk' = [desk EXCEPT !.pending = 0] /\ net' = [net EXCEPT !.down = Tail(@)]
      BY <2>2 DEF HearReply
    <3>2. NetOK([net EXCEPT !.down = Tail(@)], phone.fresh, Opened)
      BY <1>1, DownHead
    <3>3. desk \in Desks
      BY <1>1 DEF DeskOK
    <3>4. desk' \in Desks /\ desk'.out = desk.out /\ desk'.upload = desk.upload
      BY <3>1, <3>3, Empties DEF Desks
    <3> QED
      BY <1>1, <3>1, <3>2, <3>4 DEF DeskOK
  <2> QED
    BY <2>1, <2>2
<1> QED
  BY <1>1, <1>3, <1>4, <1>5 DEF Sound

LEMMA HearRevokedSound ==
    ASSUME Sound, net.down # <<>>, NEW f, f = Head(net.down), HearRevoked(f),
           UNCHANGED <<phone, messages, tries, accidents>>
    PROVE  Sound'
<1>1. /\ DeskOK(desk, phone.fresh, Opened) /\ PhoneOK(phone) /\ NetOK(net, phone.fresh, Opened)
      /\ BooksOK /\ Opened \in Nat /\ phone.fresh \in Nat
  BY SoundParts
<1>2. /\ desk' = Revoked(desk) /\ net' = [net EXCEPT !.down = Tail(@)]
      /\ Told(desk, "stopped") /\ UNCHANGED history
  BY DEF HearRevoked
<1>3. Opened' = Opened /\ OpenedInOrder' /\ told' \in [Jobs -> Fates]
  <2>1. OpenedInOrder /\ told \in [Jobs -> Fates] /\ "stopped" \in Fates \ {"none"}
    BY <1>1 DEF BooksOK, Fates
  <2> QED
    BY <2>1, <1>1, <1>2, ToldOf
<1>4. BooksOK'
  BY <1>1, <1>2, <1>3 DEF BooksOK, history
<1>5. NetOK(net', phone.fresh, Opened)
  BY <1>1, <1>2, DownHead
<1>6. DeskOK(desk', phone.fresh, Opened)
  <2>1. desk \in Desks
    BY <1>1 DEF DeskOK
  <2>2. desk' \in Desks /\ desk'.out = <<>> /\ desk'.upload = NoUpload
    BY <2>1, <1>2, NoUploadOK, Empties DEF Desks, Revoked
  <2>3. Len(desk'.out) = 0 /\ DOMAIN desk'.out = {} /\ 0 <= OutLimit
    BY <2>2, Empties
  <2> QED
    BY <2>2, <2>3, NoUploadOK DEF DeskOK, AskedOut
<1> QED
  BY <1>1, <1>3, <1>4, <1>5, <1>6 DEF Sound

LEMMA HearNothingSound ==
    ASSUME Sound, net.down # <<>>, NEW f, f = Head(net.down), HearNothing(f),
           UNCHANGED <<phone, messages, tries, accidents>>
    PROVE  Sound'
<1>1. /\ DeskOK(desk, phone.fresh, Opened) /\ PhoneOK(phone) /\ NetOK(net, phone.fresh, Opened)
      /\ BooksOK /\ Opened \in Nat /\ phone.fresh \in Nat
  BY SoundParts
<1>2. net' = [net EXCEPT !.down = Tail(@)] /\ UNCHANGED <<desk, told, history>>
  BY DEF HearNothing
<1>3. Opened' = Opened /\ OpenedInOrder' /\ told' \in [Jobs -> Fates]
  BY <1>1, <1>2, ToldSame DEF BooksOK
<1>4. BooksOK'
  BY <1>1, <1>2, <1>3 DEF BooksOK, history
<1>5. NetOK(net', phone.fresh, Opened)
  BY <1>1, <1>2, DownHead
<1> QED
  BY <1>1, <1>2, <1>3, <1>4, <1>5 DEF Sound

\* The answer at the head, in the session, to a question that was asked.
Heard(f) ==
    /\ net.down # <<>> /\ f = Head(net.down)
    /\ f.type = "answer" /\ f.s = desk.session /\ f.ask \in ToSet(desk.out)

LEMMA HeardFacts ==
    ASSUME Sound, NEW f, Heard(f), NEW d, d = Answered(desk, f)
    PROVE  /\ f \in Answers /\ WellAsked(f.ask, phone.fresh, Opened) /\ WellAnswered(f, phone.fresh)
           /\ NetOK([net EXCEPT !.down = Tail(@)], phone.fresh, Opened)
           /\ DeskOK(d, phone.fresh, Opened) /\ d.upload \in {desk.upload, NoUpload}
<1>1. /\ DeskOK(desk, phone.fresh, Opened) /\ NetOK(net, phone.fresh, Opened)
  BY SoundParts
<1>2. net.down # <<>> /\ f = Head(net.down) /\ f.type = "answer" /\ f.ask \in ToSet(desk.out)
  BY DEF Heard
<1>3. /\ f \in Answers /\ WellAsked(f.ask, phone.fresh, Opened) /\ WellAnswered(f, phone.fresh)
      /\ NetOK([net EXCEPT !.down = Tail(@)], phone.fresh, Opened)
  BY <1>1, <1>2, DownHead
<1>4. DeskOK(d, phone.fresh, Opened) /\ d.upload \in {desk.upload, NoUpload}
  BY <1>1, <1>2, AnsweredSound
<1> QED
  BY <1>3, <1>4

LEMMA UploadJob ==
    ASSUME NEW d, NEW new, NEW top \in Nat, DeskOK(d, new, top)
    PROVE  d.upload.job \in Jobs \cup {0} /\ (d.upload # NoUpload => d.upload.job \in Jobs /\ d.upload.job = top)
           /\ (d.upload.job # 0 <=> d.upload # NoUpload)
BY DEF DeskOK, WellUp, Desks, Uploads

LEMMA HearProgressSound ==
    ASSUME Sound, NEW f, Heard(f), HearProgress(f), UNCHANGED <<phone, messages, tries, accidents>>
    PROVE  Sound'
<1>1. /\ DeskOK(desk, phone.fresh, Opened) /\ PhoneOK(phone) /\ NetOK(net, phone.fresh, Opened)
      /\ BooksOK /\ Opened \in Nat /\ phone.fresh \in Nat
  BY SoundParts
<1>2. PICK d : d = Answered(desk, f)
  OBVIOUS
<1>3. PICK n : n = [net EXCEPT !.down = Tail(@)]
  OBVIOUS
<1>4. PICK p : p = Taken(d, n, Reaction(d.upload, f))
  OBVIOUS
<1>5. /\ f.ans \in {"offer", "done", "staged"} /\ d.upload # NoUpload
      /\ desk' = p.d /\ net' = p.n
      /\ mixed' = IF f.ask.job \in {0, d.upload.job} THEN mixed ELSE mixed \cup {d.upload.job}
      /\ UNCHANGED <<told, unheard, deaf>>
  BY <1>2, <1>3, <1>4 DEF HearProgress
<1>6. /\ f \in Answers /\ WellAnswered(f, phone.fresh) /\ NetOK(n, phone.fresh, Opened)
      /\ DeskOK(d, phone.fresh, Opened)
  BY <1>2, <1>3, HeardFacts
<1>7. PICK new, top : new = phone.fresh /\ top = Opened
  OBVIOUS
<1>8. Forward(d.upload, Reaction(d.upload, f), new, top)
  BY <1>1, <1>5, <1>6, <1>7, ReactionForward
<1>9. DeskOK(p.d, new, top) /\ NetOK(p.n, new, top)
  <2>1. PICK step : step = Reaction(d.upload, f)
    OBVIOUS
  <2>2. DeskOK(d, new, top) /\ NetOK(n, new, top) /\ top \in Nat
    BY <1>1, <1>6, <1>7
  <2> QED
    BY <2>1, <2>2, <1>4, <1>5, <1>8, TakenSound
<1>10. Opened' = Opened /\ OpenedInOrder' /\ told' \in [Jobs -> Fates]
  BY <1>1, <1>5, ToldSame DEF BooksOK
<1>11. mixed' \subseteq Jobs
  <2>1. d.upload.job \in Jobs
    BY <1>1, <1>5, <1>6, UploadJob
  <2> QED
    BY <2>1, <1>1, <1>5 DEF BooksOK
<1>12. BooksOK'
  BY <1>1, <1>5, <1>10, <1>11 DEF BooksOK
<1> QED
  BY <1>1, <1>5, <1>7, <1>9, <1>10, <1>12 DEF Sound

LEMMA HearEndSound ==
    ASSUME Sound, NEW f, Heard(f), HearEnd(f), UNCHANGED <<phone, messages, tries, accidents>>
    PROVE  Sound'
<1>1. /\ DeskOK(desk, phone.fresh, Opened) /\ PhoneOK(phone) /\ NetOK(net, phone.fresh, Opened)
      /\ BooksOK /\ Opened \in Nat /\ phone.fresh \in Nat
  BY SoundParts
<1>2. PICK d : d = Answered(desk, f)
  OBVIOUS
<1>3. /\ f.ans = "done" => f.ask.kind = "send"
      /\ desk' = Closed(d) /\ net' = [net EXCEPT !.down = Tail(@)]
      /\ told' = IF f.ans = "done" THEN [told EXCEPT ![f.ask.job] = "sent"]
                 ELSE IF d.upload = NoUpload THEN told
                 ELSE [told EXCEPT ![d.upload.job] = "stopped"]
      /\ mixed' = IF d.upload.job \in {0, f.ask.job} THEN mixed ELSE mixed \cup {d.upload.job}
      /\ UNCHANGED <<unheard, deaf>>
  BY <1>2 DEF HearEnd
<1>4. /\ f \in Answers /\ WellAsked(f.ask, phone.fresh, Opened) /\ NetOK(net', phone.fresh, Opened)
      /\ DeskOK(d, phone.fresh, Opened)
  BY <1>2, <1>3, HeardFacts
<1>5. /\ d.upload.job \in Jobs \cup {0}
      /\ d.upload # NoUpload => d.upload.job \in Jobs /\ d.upload.job = Opened
  BY <1>1, <1>4, UploadJob
<1>6. OpenedInOrder /\ told \in [Jobs -> Fates] /\ {"sent", "stopped"} \subseteq Fates \ {"none"}
  BY <1>1 DEF BooksOK, Fates
<1>7. Opened' = Opened /\ OpenedInOrder' /\ told' \in [Jobs -> Fates]
  <2>1. CASE f.ans = "done"
    <3>1. PICK j : j = f.ask.job
      OBVIOUS
    <3>2. j \in Jobs /\ j <= Opened
      BY <2>1, <3>1, <1>3, <1>4 DEF WellAsked, Plains, Answers, Requests
    <3> QED
      BY <2>1, <3>1, <3>2, <1>3, <1>6, ToldMore
  <2>2. CASE f.ans # "done" /\ d.upload = NoUpload
    BY <2>2, <1>3, <1>6, ToldSame
  <2>3. CASE f.ans # "done" /\ d.upload # NoUpload
    <3>1. PICK j : j = d.upload.job
      OBVIOUS
    <3>2. j \in Jobs /\ j <= Opened
      BY <2>3, <3>1, <1>1, <1>5
    <3> QED
      BY <2>3, <3>1, <3>2, <1>3, <1>6, ToldMore
  <2> QED
    BY <2>1, <2>2, <2>3
<1>8. mixed' \subseteq Jobs
  BY <1>1, <1>3, <1>5 DEF BooksOK
<1>9. BooksOK'
  BY <1>1, <1>3, <1>7, <1>8 DEF BooksOK
<1>10. DeskOK(desk', phone.fresh, Opened)
  <2>1. d \in Desks /\ Len(d.out) <= OutLimit /\ AskedOut(d.out, phone.fresh, Opened)
    BY <1>4 DEF DeskOK
  <2>2. desk' \in Desks /\ desk'.out = d.out /\ desk'.upload = NoUpload
    BY <2>1, <1>3, NoUploadOK DEF Desks, Closed
  <2> QED
    BY <2>1, <2>2, NoUploadOK DEF DeskOK
<1> QED
  BY <1>1, <1>4, <1>7, <1>9, <1>10 DEF Sound

LEMMA HearOtherSound ==
    ASSUME Sound, NEW f, Heard(f), HearOther(f), UNCHANGED <<phone, messages, tries, accidents>>
    PROVE  Sound'
<1>1. /\ DeskOK(desk, phone.fresh, Opened) /\ PhoneOK(phone) /\ NetOK(net, phone.fresh, Opened)
      /\ BooksOK /\ Opened \in Nat /\ phone.fresh \in Nat
  BY SoundParts
<1>2. PICK d : d = Answered(desk, f)
  OBVIOUS
<1>3. /\ desk' = d /\ net' = [net EXCEPT !.down = Tail(@)]
      /\ told' = IF desk.upload # NoUpload /\ d.upload = NoUpload
                 THEN [told EXCEPT ![desk.upload.job] = "stopped"] ELSE told
      /\ UNCHANGED history
  BY <1>2 DEF HearOther
<1>4. NetOK(net', phone.fresh, Opened) /\ DeskOK(d, phone.fresh, Opened)
  BY <1>2, <1>3, HeardFacts
<1>5. OpenedInOrder /\ told \in [Jobs -> Fates] /\ "stopped" \in Fates \ {"none"}
  BY <1>1 DEF BooksOK, Fates
<1>6. Opened' = Opened /\ OpenedInOrder' /\ told' \in [Jobs -> Fates]
  <2>1. CASE desk.upload # NoUpload /\ d.upload = NoUpload
    <3>1. PICK j : j = desk.upload.job
      OBVIOUS
    <3>2. j \in Jobs /\ j <= Opened
      BY <2>1, <3>1, <1>1, UploadJob
    <3> QED
      BY <2>1, <3>1, <3>2, <1>3, <1>5, ToldMore
  <2>2. CASE ~(desk.upload # NoUpload /\ d.upload = NoUpload)
    BY <2>2, <1>3, <1>5, ToldSame
  <2> QED
    BY <2>1, <2>2
<1>7. BooksOK'
  BY <1>1, <1>3, <1>6 DEF BooksOK, history
<1> QED
  BY <1>1, <1>3, <1>4, <1>6, <1>7 DEF Sound

LEMMA DeskHearsSound ==
    ASSUME Sound, DeskHears
    PROVE  Sound'
<1>1. PICK f : f = Head(net.down)
  OBVIOUS
<1>2. /\ net.down # <<>> /\ UNCHANGED <<phone, messages, tries, accidents>>
      /\ \/ HearReply(f) \/ HearRevoked(f) \/ HearNothing(f)
         \/ /\ f.type = "answer" /\ f.s = desk.session /\ f.ask \in ToSet(desk.out)
            /\ HearProgress(f) \/ HearEnd(f) \/ HearOther(f)
  BY <1>1 DEF DeskHears
<1>3. CASE HearReply(f)
  BY <1>1, <1>2, <1>3, HearReplySound
<1>4. CASE HearRevoked(f)
  BY <1>1, <1>2, <1>4, HearRevokedSound
<1>5. CASE HearNothing(f)
  BY <1>1, <1>2, <1>5, HearNothingSound
<1>6. CASE /\ f.type = "answer" /\ f.s = desk.session /\ f.ask \in ToSet(desk.out)
           /\ HearProgress(f) \/ HearEnd(f) \/ HearOther(f)
  <2>1. Heard(f)
    BY <1>1, <1>2, <1>6 DEF Heard
  <2> QED
    BY <2>1, <1>2, <1>6, HearProgressSound, HearEndSound, HearOtherSound
<1> QED
  BY <1>2, <1>3, <1>4, <1>5, <1>6

-----------------------------------------------------------------------------
(* The phone keeps the invariant.                                          *)

\* The answer a to the request in f, by a phone that has given places below new.
AnswerOK(a, f, new) == a \in Answers /\ a.ask = f.ask /\ a.s = f.s /\ WellAnswered(a, new)

LEMMA PlainAnswer ==
    ASSUME NEW f \in UpFrames, NEW kind \in {"done", "refused"}, NEW new \in Nat, new >= 1
    PROVE  AnswerOK(Answer(f, kind), f, new) /\ Answer(f, kind).ans = kind
           /\ Answer(f, kind).files = {}
<1>1. PICK a : a = Answer(f, kind)
  OBVIOUS
<1>2. a = [type |-> "answer", s |-> f.s, ask |-> f.ask, ans |-> kind, id |-> 0, total |-> 0, files |-> {}]
  BY <1>1 DEF Answer
<1>3. f.s \in 1..MaxTries /\ f.ask \in Requests
  BY DEF UpFrames
<1>4. a \in Answers
  BY <1>2, <1>3 DEF Answers
<1>5. WellAnswered(a, new)
  BY <1>2 DEF WellAnswered
<1>6. AnswerOK(a, f, new) /\ a.ans = kind /\ a.files = {}
  BY <1>2, <1>4, <1>5 DEF AnswerOK
<1> QED
  BY <1>1, <1>6

\* Places, as many as there may be, with numbers below n.
Housed(S, n) ==
    /\ S \in SUBSET Places /\ IsFiniteSet(S) /\ Cardinality(S) <= MaxUploads
    /\ n \in Nat /\ n >= 1
    /\ \A g \in S : g.id < n /\ g.pos \in DOMAIN Sizes[g.job]

\* p with other places.
Rehoused(p, q, S, n) == q = [p EXCEPT !.staged = S, !.fresh = n]
SamePhone(p, q) == Rehoused(p, q, q.staged, q.fresh)

LEMMA StagedOK ==
    ASSUME NEW p, PhoneOK(p), NEW S, NEW n, Housed(S, n), NEW q, Rehoused(p, q, S, n)
    PROVE  /\ PhoneOK(q) /\ q.fresh = n /\ q.sessions = p.sessions /\ q.staged = S
           /\ SamePhone(p, q)
<1>1. p \in Phones
  BY DEF PhoneOK
<1>2. S \in SUBSET Places /\ n \in Nat
  BY DEF Housed
<1>3. q \in Phones /\ q.staged = S /\ q.fresh = n /\ q.sessions = p.sessions
  BY <1>1, <1>2 DEF Phones, Rehoused
<1>4. PhoneOK(q)
  BY <1>3 DEF PhoneOK, WellPlaced, Housed
<1>5. SamePhone(p, q)
  BY <1>3 DEF SamePhone, Rehoused
<1> QED
  BY <1>3, <1>4, <1>5

\* What the phone p makes of the frame f: what it becomes, says and sends.
ServedOK(p, f, r) ==
    /\ SamePhone(p, r.p) /\ PhoneOK(r.p) /\ r.p.sessions = p.sessions
    /\ p.fresh <= r.p.fresh
    /\ AnswerOK(r.ans, f, r.p.fresh)
    /\ r.sent \in Seq(Letters)

LEMMA PhoneShape ==
    ASSUME NEW p, PhoneOK(p)
    PROVE  /\ p \in Phones /\ p.fresh \in Nat /\ p.fresh >= 1 /\ p.staged \in SUBSET Places
           /\ SamePhone(p, p) /\ Housed(p.staged, p.fresh)
           /\ IsFiniteSet(p.staged) /\ Cardinality(p.staged) <= MaxUploads
           /\ Cardinality(p.staged) \in Nat /\ MaxUploads \in Nat
           /\ \A g \in p.staged : g.id < p.fresh /\ g.pos \in DOMAIN Sizes[g.job]
           /\ \A g \in p.staged : g.id \in Nat /\ g.job \in Jobs /\ g.have \subseteq Nat /\ g.alien \in BOOLEAN
<1>1. /\ p \in Phones /\ p.fresh \in Nat /\ p.fresh >= 1 /\ p.staged \in SUBSET Places
      /\ IsFiniteSet(p.staged) /\ Cardinality(p.staged) <= MaxUploads
      /\ \A g \in p.staged : g.id < p.fresh /\ g.pos \in DOMAIN Sizes[g.job]
  BY DEF PhoneOK, Phones, WellPlaced
<1>2. Cardinality(p.staged) \in Nat /\ MaxUploads \in Nat
  BY <1>1, FS_CardinalityType, CompanionAssumption
<1>3. \A g \in p.staged : g.id \in Nat /\ g.job \in Jobs /\ g.have \subseteq Nat /\ g.alien \in BOOLEAN
  BY <1>1 DEF Places
<1>4. SamePhone(p, p)
  BY <1>1 DEF SamePhone, Rehoused, Phones
<1>5. Housed(p.staged, p.fresh)
  BY <1>1 DEF Housed
<1> QED
  BY <1>1, <1>2, <1>3, <1>4, <1>5

LEMMA ServedSame ==
    ASSUME NEW p, PhoneOK(p), NEW f \in UpFrames, NEW r, r.p = p, AnswerOK(r.ans, f, p.fresh),
           r.sent \in Seq(Letters)
    PROVE  ServedOK(p, f, r)
<1>1. SamePhone(p, p) /\ p.fresh \in Nat
  BY PhoneShape
<1> QED
  BY <1>1 DEF ServedOK

LEMMA NoLetters == <<>> \in Seq(Letters)
OBVIOUS

LEMMA OfferServed ==
    ASSUME NEW p, PhoneOK(p), NEW f \in UpFrames, NEW new, NEW top, WellAsked(f.ask, new, top),
           f.ask.kind = "offer", NEW r, r = OnUploadOffer(p, f)
    PROVE  ServedOK(p, f, r)
<1>1. /\ p \in Phones /\ p.fresh \in Nat /\ p.fresh >= 1 /\ p.staged \in SUBSET Places
      /\ IsFiniteSet(p.staged) /\ Cardinality(p.staged) \in Nat /\ MaxUploads \in Nat
      /\ \A g \in p.staged : g.id < p.fresh /\ g.pos \in DOMAIN Sizes[g.job]
      /\ \A g \in p.staged : g.id \in Nat
  BY PhoneShape
<1>2. CASE Cardinality(p.staged) >= MaxUploads
  <2>1. r.p = p /\ r.ans = Answer(f, "refused") /\ r.sent = <<>>
    BY <1>2 DEF OnUploadOffer
  <2> QED
    BY <2>1, <1>1, PlainAnswer, ServedSame, NoLetters
<1>3. CASE ~(Cardinality(p.staged) >= MaxUploads)
  <2>1. PICK g : g = [id |-> p.fresh, job |-> f.ask.job, pos |-> f.ask.which, have |-> {}, alien |-> FALSE]
    OBVIOUS
  <2>2. PICK S : S = p.staged \cup {g}
    OBVIOUS
  <2>3. PICK n : n = p.fresh + 1
    OBVIOUS
  <2>4. PICK total : total = Sizes[f.ask.job][f.ask.which]
    OBVIOUS
  <2>5. /\ r.p = [p EXCEPT !.fresh = n, !.staged = S] /\ r.sent = <<>>
        /\ r.ans = [Answer(f, "offer") EXCEPT !.id = p.fresh, !.total = total]
    BY <1>3, <2>1, <2>2, <2>3, <2>4, <1>1 DEF OnUploadOffer, Phones
  <2>6. f.ask \in Requests /\ f.ask.job \in Jobs /\ f.ask.which \in DOMAIN Sizes[f.ask.job] /\ f.s \in 1..MaxTries
    BY DEF UpFrames, Requests, WellAsked, Plains
  <2>7. f.ask.which \in Nat /\ total \in Nat
    BY <2>4, <2>6, JobFacts
  <2>8. g \in Places /\ g.id = p.fresh /\ g.pos = f.ask.which /\ g.job = f.ask.job
    BY <2>1, <2>6, <2>7, <1>1 DEF Places
  <2>9. g \notin p.staged
    BY <2>8, <1>1
  <2>10. IsFiniteSet(S) /\ Cardinality(S) = Cardinality(p.staged) + 1
    BY <2>2, <2>9, <1>1, FS_AddElement
  <2>11. Cardinality(S) <= MaxUploads /\ S \in SUBSET Places
    BY <2>10, <2>8, <2>2, <1>1, <1>3
  <2>12. \A h \in S : h.id < n /\ h.pos \in DOMAIN Sizes[h.job]
    BY <2>2, <2>3, <2>6, <2>8, <1>1
  <2>13. Housed(S, n)
    BY <2>3, <2>10, <2>11, <2>12, <1>1 DEF Housed
  <2>14. PICK q : q = r.p
    OBVIOUS
  <2>15. PhoneOK(q) /\ q.fresh = n /\ q.sessions = p.sessions /\ q.staged = S /\ SamePhone(p, q)
    <3>1. [p EXCEPT !.fresh = n, !.staged = S] = [p EXCEPT !.staged = S, !.fresh = n]
      BY <1>1 DEF Phones
    <3>2. Rehoused(p, q, S, n)
      BY <2>5, <2>14, <3>1 DEF Rehoused
    <3> QED
      BY <2>13, <3>2, StagedOK
  <2>16. PICK a : a = r.ans
    OBVIOUS
  <2>17. a = [type |-> "answer", s |-> f.s, ask |-> f.ask, ans |-> "offer", id |-> p.fresh,
              total |-> total, files |-> {}]
    BY <2>5, <2>16 DEF Answer
  <2>18. a \in Answers /\ WellAnswered(a, n)
    <3>1. a \in Answers
      BY <2>17, <2>6, <2>7, <1>1 DEF Answers
    <3>2. p.fresh < n
      BY <2>3, <1>1
    <3> QED
      BY <3>1, <3>2, <2>17 DEF WellAnswered
  <2>19. AnswerOK(a, f, n)
    BY <2>17, <2>18 DEF AnswerOK
  <2>20. p.fresh <= n
    BY <2>3, <1>1
  <2> QED
    BY <2>5, <2>14, <2>15, <2>16, <2>19, <2>20, NoLetters DEF ServedOK
<1> QED
  BY <1>2, <1>3

LEMMA ImageBound ==
    ASSUME NEW S, IsFiniteSet(S), NEW T, NEW h \in [S -> T], \A t \in T : \E x \in S : h[x] = t
    PROVE  IsFiniteSet(T) /\ Cardinality(T) <= Cardinality(S)
<1>1. h \in Surjection(S, T)
  BY DEF Surjection
<1> QED
  BY <1>1, FS_Surjection

\* A place after the put a.
Fits(g, a) == g.id = a.ids[1] /\ a.n < Total(g) /\ a.n < Sizes[a.job][a.which]
PutIn(g, a) ==
    IF Fits(g, a)
    THEN [g EXCEPT !.have = @ \cup {a.n},
                   !.alien = @ \/ <<a.job, a.which>> # <<g.job, g.pos>>]
    ELSE g
PutAll(S, a) == {PutIn(g, a) : g \in S}

PutTo(p, f, r) ==
    /\ r.p = [p EXCEPT !.staged = PutAll(p.staged, f.ask)] /\ r.sent = <<>>
    /\ \/ r.ans = Answer(f, "refused")
       \/ r.ans = Answer(f, "done") /\ \E g \in p.staged : Fits(g, f.ask)

LEMMA PutShape ==
    ASSUME NEW p, NEW f, NEW r, r = OnUploadPut(p, f)
    PROVE  PutTo(p, f, r)
<1> DEFINE place == {g \in Place(p, f.ask.ids[1]) :
                        f.ask.n < Total(g) /\ f.ask.n < Sizes[f.ask.job][f.ask.which]}
           put(g) == [g EXCEPT !.have = @ \cup {f.ask.n},
                               !.alien = @ \/ <<f.ask.job, f.ask.which>> # <<g.job, g.pos>>]
<1>1. r = [p |-> [p EXCEPT !.staged = (@ \ place) \cup {put(g) : g \in place}],
           ans |-> Answer(f, IF place = {} THEN "refused" ELSE "done"), sent |-> <<>>]
  BY DEF OnUploadPut
<1>2. \A g \in p.staged : PutIn(g, f.ask) = IF g \in place THEN put(g) ELSE g
  BY DEF PutIn, Fits, Place
<1>3. place \subseteq p.staged /\ \A g \in place : Fits(g, f.ask)
  BY DEF Place, Fits
<1> HIDE DEF put
<1>4. PICK S : S = (p.staged \ place) \cup {put(g) : g \in place}
  OBVIOUS
<1>5. r.p = [p EXCEPT !.staged = PutAll(p.staged, f.ask)] /\ r.sent = <<>>
  <2>1. r.p = [p EXCEPT !.staged = S] /\ r.sent = <<>>
    BY <1>1, <1>4
  <2>2. S = PutAll(p.staged, f.ask)
    BY <1>2, <1>3, <1>4 DEF PutAll
  <2> QED
    BY <2>1, <2>2
<1>6. r.ans = Answer(f, IF place = {} THEN "refused" ELSE "done")
  BY <1>1
<1>7. place # {} => \E g \in p.staged : Fits(g, f.ask)
  BY <1>3
<1> HIDE DEF place
<1> QED
  BY <1>5, <1>6, <1>7 DEF PutTo

LEMMA PutInOK ==
    ASSUME NEW g \in Places, NEW a \in Requests
    PROVE  /\ PutIn(g, a) \in Places /\ PutIn(g, a).id = g.id /\ PutIn(g, a).job = g.job
           /\ PutIn(g, a).pos = g.pos /\ g.have \subseteq PutIn(g, a).have
<1>1. a.n \in Nat
  BY DEF Requests
<1>2. PICK h : h = PutIn(g, a)
  OBVIOUS
<1>3. PICK b : b = (g.alien \/ <<a.job, a.which>> # <<g.job, g.pos>>)
  OBVIOUS
<1>4. b \in BOOLEAN
  BY <1>3 DEF Places
<1>5. h = g \/ h = [g EXCEPT !.have = @ \cup {a.n}, !.alien = b]
  BY <1>2, <1>3 DEF PutIn, Places
<1> QED
  BY <1>1, <1>2, <1>4, <1>5 DEF Places

LEMMA PutServed ==
    ASSUME NEW p, PhoneOK(p), NEW f \in UpFrames, NEW r, r = OnUploadPut(p, f)
    PROVE  ServedOK(p, f, r)
<1>1. /\ p \in Phones /\ p.fresh \in Nat /\ p.fresh >= 1 /\ p.staged \in SUBSET Places
      /\ IsFiniteSet(p.staged) /\ Cardinality(p.staged) \in Nat /\ MaxUploads \in Nat
      /\ Cardinality(p.staged) <= MaxUploads
      /\ \A g \in p.staged : g.id < p.fresh /\ g.pos \in DOMAIN Sizes[g.job]
  BY PhoneShape
<1>2. PICK S : S = PutAll(p.staged, f.ask)
  OBVIOUS
<1>3. /\ r.p = [p EXCEPT !.staged = S] /\ r.sent = <<>>
      /\ r.ans \in {Answer(f, "refused"), Answer(f, "done")}
  BY <1>2, PutShape DEF PutTo
<1>4. f.ask \in Requests
  BY DEF UpFrames
<1>5. \A g \in p.staged : PutIn(g, f.ask) \in Places /\ PutIn(g, f.ask).id = g.id
          /\ PutIn(g, f.ask).job = g.job /\ PutIn(g, f.ask).pos = g.pos
  BY <1>1, <1>4, PutInOK
<1>6. IsFiniteSet(S) /\ Cardinality(S) <= Cardinality(p.staged)
  <2>1. PICK h : h = [g \in p.staged |-> PutIn(g, f.ask)]
    OBVIOUS
  <2>2. h \in [p.staged -> S] /\ \A t \in S : \E x \in p.staged : h[x] = t
    BY <2>1, <1>2 DEF PutAll
  <2> QED
    BY <2>2, <1>1, ImageBound
<1>7. Cardinality(S) <= MaxUploads
  <2>1. Cardinality(S) \in Nat
    BY <1>6, FS_CardinalityType
  <2> QED
    BY <2>1, <1>1, <1>6
<1>8. S \in SUBSET Places /\ \A g \in S : g.id < p.fresh /\ g.pos \in DOMAIN Sizes[g.job]
  BY <1>1, <1>2, <1>5 DEF PutAll
<1>9. Housed(S, p.fresh)
  BY <1>1, <1>6, <1>7, <1>8 DEF Housed
<1>10. PICK q : q = r.p
  OBVIOUS
<1>11. Rehoused(p, q, S, p.fresh)
  BY <1>1, <1>3, <1>10 DEF Rehoused, Phones
<1>12. PhoneOK(q) /\ q.fresh = p.fresh /\ q.sessions = p.sessions /\ SamePhone(p, q)
  BY <1>9, <1>11, StagedOK
<1>13. AnswerOK(r.ans, f, p.fresh)
  BY <1>1, <1>3, PlainAnswer
<1> QED
  BY <1>1, <1>3, <1>10, <1>12, <1>13, NoLetters DEF ServedOK

\* Some of the places go.
LEMMA FewerOK ==
    ASSUME NEW p, PhoneOK(p), NEW S \in SUBSET p.staged, NEW q, q = [p EXCEPT !.staged = S]
    PROVE  PhoneOK(q) /\ q.fresh = p.fresh /\ q.sessions = p.sessions /\ q.staged = S /\ SamePhone(p, q)
<1>1. /\ p \in Phones /\ p.fresh \in Nat /\ p.fresh >= 1 /\ p.staged \in SUBSET Places
      /\ IsFiniteSet(p.staged) /\ Cardinality(p.staged) \in Nat /\ MaxUploads \in Nat
      /\ Cardinality(p.staged) <= MaxUploads
      /\ \A g \in p.staged : g.id < p.fresh /\ g.pos \in DOMAIN Sizes[g.job]
  BY PhoneShape
<1>2. IsFiniteSet(S) /\ Cardinality(S) <= Cardinality(p.staged) /\ Cardinality(S) \in Nat
  BY <1>1, FS_Subset, FS_CardinalityType
<1>3. Housed(S, p.fresh)
  BY <1>1, <1>2 DEF Housed
<1>4. Rehoused(p, q, S, p.fresh)
  BY <1>1 DEF Rehoused, Phones
<1> QED
  BY <1>3, <1>4, StagedOK

LEMMA EmptiedOK ==
    ASSUME NEW p, PhoneOK(p), NEW ids, NEW q, q = Emptied(p, ids)
    PROVE  /\ PhoneOK(q) /\ q.fresh = p.fresh /\ q.sessions = p.sessions /\ SamePhone(p, q)
           /\ q.staged = {g \in p.staged : g.id \notin ToSet(ids)}
<1>1. PICK S : S = {g \in p.staged : g.id \notin ToSet(ids)}
  OBVIOUS
<1>2. q = [p EXCEPT !.staged = S] /\ S \in SUBSET p.staged
  BY <1>1 DEF Emptied
<1> QED
  BY <1>1, <1>2, FewerOK

\* The places of ids, one by one.
Taking(p, ids) == [i \in DOMAIN ids |-> CHOOSE g \in Place(p, ids[i]) : TRUE]

MadeOf(p, f, r) ==
    /\ r.p = Emptied(p, f.ask.ids) /\ r.ans = Answer(f, "done")
    /\ r.sent = <<[text |-> f.ask.job, files |-> Taking(p, f.ask.ids)]>>
TurnedAway(p, f, r) == r.p = p /\ r.ans = Answer(f, "refused") /\ r.sent = <<>>

LEMMA SendShape ==
    ASSUME NEW p, NEW f, NEW r, r = OnUploadSend(p, f)
    PROVE  IF Whole(p, f.ask.ids) THEN MadeOf(p, f, r) ELSE TurnedAway(p, f, r)
<1>1. r = IF Whole(p, f.ask.ids)
          THEN [p |-> Emptied(p, f.ask.ids), ans |-> Answer(f, "done"),
                sent |-> <<[text |-> f.ask.job, files |-> Taking(p, f.ask.ids)]>>]
          ELSE [p |-> p, ans |-> Answer(f, "refused"), sent |-> <<>>]
  BY DEF OnUploadSend, Taking
<1> QED
  BY <1>1 DEF MadeOf, TurnedAway

LEMMA SendServed ==
    ASSUME NEW p, PhoneOK(p), NEW f \in UpFrames, NEW new, NEW top, WellAsked(f.ask, new, top),
           f.ask.kind = "send", NEW r, r = OnUploadSend(p, f)
    PROVE  ServedOK(p, f, r)
<1>1. p.staged \in SUBSET Places /\ p.fresh \in Nat /\ p.fresh >= 1
  BY PhoneShape
<1>2. f.ask \in Requests /\ f.ask.job \in Jobs /\ f.ask.ids \in Seq(Nat)
  BY DEF UpFrames, Requests, WellAsked, Plains
<1>3. PICK ids : ids = f.ask.ids
  OBVIOUS
<1>4. CASE Whole(p, ids)
  <2>1. PICK fs : fs = Taking(p, ids)
    OBVIOUS
  <2>2. PICK m : m = [text |-> f.ask.job, files |-> fs]
    OBVIOUS
  <2>3. r.p = Emptied(p, ids) /\ r.ans = Answer(f, "done") /\ r.sent = <<m>>
    BY <1>3, <1>4, <2>1, <2>2, SendShape DEF MadeOf
  <2>4. \A i \in DOMAIN ids : fs[i] \in Places
    <3> SUFFICES ASSUME NEW i \in DOMAIN ids
                 PROVE  fs[i] \in Places
      OBVIOUS
    <3>1. Place(p, ids[i]) # {}
      BY <1>4 DEF Whole
    <3>2. fs[i] \in Place(p, ids[i])
      BY <2>1, <3>1 DEF Taking
    <3> QED
      BY <3>2, <1>1 DEF Place
  <2>5. fs \in Seq(Places)
    <3>1. DOMAIN ids = 1..Len(ids) /\ Len(ids) \in Nat
      BY <1>2, <1>3
    <3>2. fs \in [1..Len(ids) -> Places]
      BY <2>1, <2>4, <3>1 DEF Taking
    <3> QED
      BY <3>1, <3>2
  <2>6. m \in Letters
    BY <2>2, <2>5, <1>2 DEF Letters
  <2>7. r.sent \in Seq(Letters)
    BY <2>3, <2>6
  <2>8. PICK q : q = r.p
    OBVIOUS
  <2>9. PhoneOK(q) /\ q.fresh = p.fresh /\ q.sessions = p.sessions /\ SamePhone(p, q)
    BY <2>3, <2>8, EmptiedOK
  <2>10. AnswerOK(r.ans, f, p.fresh)
    BY <2>3, <1>1, PlainAnswer
  <2> QED
    BY <1>1, <2>7, <2>8, <2>9, <2>10 DEF ServedOK
<1>5. CASE ~Whole(p, ids)
  <2>1. r.p = p /\ r.ans = Answer(f, "refused") /\ r.sent = <<>>
    BY <1>3, <1>5, SendShape DEF TurnedAway
  <2> QED
    BY <2>1, <1>1, PlainAnswer, ServedSame, NoLetters
<1> QED
  BY <1>4, <1>5

LEMMA AbortServed ==
    ASSUME NEW p, PhoneOK(p), NEW f \in UpFrames, NEW r, r = OnUploadAbort(p, f)
    PROVE  ServedOK(p, f, r)
<1>1. p.fresh \in Nat /\ p.fresh >= 1
  BY PhoneShape
<1>2. r.p = Emptied(p, f.ask.ids) /\ r.ans = Answer(f, "done") /\ r.sent = <<>>
  BY DEF OnUploadAbort
<1>3. PICK q : q = r.p
  OBVIOUS
<1>4. PhoneOK(q) /\ q.fresh = p.fresh /\ q.sessions = p.sessions /\ SamePhone(p, q)
  BY <1>2, <1>3, EmptiedOK
<1>5. AnswerOK(r.ans, f, p.fresh)
  BY <1>2, <1>1, PlainAnswer
<1> QED
  BY <1>1, <1>2, <1>3, <1>4, <1>5, NoLetters DEF ServedOK

\* What the phone tells of its places.
TellOf(p) == {[id |-> g.id, missing |-> Missing(g), total |-> Total(g)] : g \in p.staged}

LEMMA StagedServed ==
    ASSUME NEW p, PhoneOK(p), NEW f \in UpFrames, f.ask.kind = "staged", NEW r, r = OnStaged(p, f)
    PROVE  ServedOK(p, f, r)
<1>1. /\ p.fresh \in Nat /\ p.fresh >= 1 /\ p.staged \in SUBSET Places
      /\ \A g \in p.staged : g.id < p.fresh /\ g.pos \in DOMAIN Sizes[g.job]
      /\ \A g \in p.staged : g.id \in Nat /\ g.job \in Jobs
  BY PhoneShape
<1>2. PICK a : a = r.ans
  OBVIOUS
<1>3. PICK T : T = TellOf(p)
  OBVIOUS
<1>4. r.p = p /\ r.sent = <<>> /\ a = [Answer(f, "staged") EXCEPT !.files = T]
  BY <1>2, <1>3 DEF OnStaged, TellOf
<1>5. a = [type |-> "answer", s |-> f.s, ask |-> f.ask, ans |-> "staged", id |-> 0, total |-> 0, files |-> T]
  BY <1>4 DEF Answer
<1>6. ASSUME NEW g \in p.staged
      PROVE  /\ Total(g) \in Nat /\ Missing(g) \subseteq 0..(Total(g) - 1) /\ Missing(g) \subseteq Nat
             /\ g.id \in Nat /\ g.id < p.fresh
  BY <1>1, JobFacts DEF Total, Missing
<1>7. \A x \in T : /\ x \in [id : Nat, missing : SUBSET Nat, total : Nat]
                   /\ x.id < p.fresh /\ x.missing \subseteq 0..(x.total - 1)
  BY <1>3, <1>6 DEF TellOf
<1>8. f.s \in 1..MaxTries /\ f.ask \in Requests
  BY DEF UpFrames
<1>9. a \in Answers
  BY <1>5, <1>7, <1>8 DEF Answers
<1>10. WellAnswered(a, p.fresh)
  BY <1>5, <1>7, <1>1 DEF WellAnswered
<1>11. AnswerOK(a, f, p.fresh)
  BY <1>5, <1>9, <1>10 DEF AnswerOK
<1> QED
  BY <1>2, <1>4, <1>11, ServedSame, NoLetters

LEMMA Served ==
    ASSUME NEW p, PhoneOK(p), NEW f \in UpFrames, NEW new, NEW top, WellAsked(f.ask, new, top),
           NEW r, r = Serve(p, f)
    PROVE  ServedOK(p, f, r)
<1>1. CASE f.ask.kind = "offer"
  BY <1>1, OfferServed DEF Serve
<1>2. CASE f.ask.kind = "put"
  BY <1>2, PutServed DEF Serve
<1>3. CASE f.ask.kind = "send"
  BY <1>3, SendServed DEF Serve
<1>4. CASE f.ask.kind = "abort"
  BY <1>4, AbortServed DEF Serve
<1>5. CASE f.ask.kind = "staged"
  BY <1>5, StagedServed DEF Serve
<1>6. CASE f.ask.kind \notin {"offer", "put", "send", "abort", "staged"}
  <2>1. r.p = p /\ r.ans = Answer(f, "done") /\ r.sent = <<>>
    BY <1>6 DEF Serve
  <2>2. p.fresh \in Nat /\ p.fresh >= 1
    BY PhoneShape
  <2> QED
    BY <2>1, <2>2, PlainAnswer, ServedSame, NoLetters
<1> QED
  BY <1>1, <1>2, <1>3, <1>4, <1>5, <1>6

LEMMA PhoneKept ==
    ASSUME NEW p, PhoneOK(p), NEW q \in Phones, q.staged = p.staged, q.fresh = p.fresh
    PROVE  PhoneOK(q)
BY DEF PhoneOK, WellPlaced

LEMMA LastOf ==
    ASSUME NEW X, NEW q \in Seq(X), q # <<>>
    PROVE  Last(q) \in X /\ Last(q) = q[Len(q)] /\ Len(q) \in DOMAIN q
BY DEF Last

\* The answer a put at the end of what goes down.
LEMMA DownMore ==
    ASSUME NEW n, NEW new, NEW top, NetOK(n, new, top), NEW a \in Notes \cup Answers,
           a.type = "answer" => WellAsked(a.ask, new, top) /\ WellAnswered(a, new),
           NEW m, m = [n EXCEPT !.down = Append(@, a)]
    PROVE  NetOK(m, new, top) /\ m.up = n.up
<1>1. n \in Nets /\ AskedUp(n.up, new, top) /\ AskedDown(n.down, new, top)
  BY DEF NetOK
<1>2. PICK q : q = n.down
  OBVIOUS
<1>3. q \in Seq(Notes \cup Answers)
  BY <1>1, <1>2 DEF Nets
<1>4. PICK r : r = Append(q, a)
  OBVIOUS
<1>5. r \in Seq(Notes \cup Answers) /\ Grown(q, r, {a})
  BY <1>3, <1>4, OneMore, GrownOne
<1>6. AskedDown(r, new, top)
  BY <1>1, <1>2, <1>5 DEF AskedDown, Grown
<1>7. m \in Nets /\ m.down = r /\ m.up = n.up
  BY <1>1, <1>2, <1>4, <1>5 DEF Nets
<1> QED
  BY <1>1, <1>6, <1>7 DEF NetOK

\* The phone, reached again.
Reached == [phone EXCEPT !.link = TRUE]

LEMMA ReachedOK ==
    ASSUME Sound
    PROVE  /\ PhoneOK(Reached) /\ Reached.staged = phone.staged /\ Reached.fresh = phone.fresh
           /\ Reached.sessions = phone.sessions /\ Reached.wire = phone.wire /\ Reached \in Phones
<1>1. PhoneOK(phone) /\ phone \in Phones
  BY SoundParts DEF PhoneOK
<1>2. PICK q : q = Reached
  OBVIOUS
<1>3. /\ q \in Phones /\ q.staged = phone.staged /\ q.fresh = phone.fresh
      /\ q.sessions = phone.sessions /\ q.wire = phone.wire
  BY <1>1, <1>2 DEF Reached, Phones
<1>4. PhoneOK(q)
  BY <1>1, <1>3, PhoneKept
<1> QED
  BY <1>2, <1>3, <1>4

\* A request the phone answers.
Serves(f, r, a) ==
    /\ net.up # <<>> /\ f = Head(net.up) /\ f.type = "ask"
    /\ f.s \in ToSet(phone.sessions) /\ Known(phone, f)
    /\ r = Serve(Reached, f)
    /\ a = [r.ans EXCEPT !.s = Last(phone.sessions)]
    /\ phone' = r.p /\ messages' = messages \o r.sent
    /\ net' = [net EXCEPT !.up = Tail(@), !.down = Append(@, a)]

LEMMA HearAskCases ==
    ASSUME net.up # <<>>, NEW f, f = Head(net.up), HearAsk(f)
    PROVE  \/ \E r, a : Serves(f, r, a)
           \/ /\ f.type = "ask" /\ ~(f.s \in ToSet(phone.sessions) /\ Known(phone, f))
              /\ net' = [net EXCEPT !.up = Tail(@)] /\ UNCHANGED <<phone, messages>>
<1>1. CASE f.s \in ToSet(phone.sessions) /\ Known(phone, f)
  <2>1. PICK r : r = Serve(Reached, f)
    OBVIOUS
  <2>2. PICK a : a = [r.ans EXCEPT !.s = Last(phone.sessions)]
    OBVIOUS
  <2>3. f.type = "ask" /\ phone' = r.p /\ messages' = messages \o r.sent
        /\ net' = [net EXCEPT !.up = Tail(@), !.down = Append(@, a)]
    BY <1>1, <2>1, <2>2 DEF HearAsk, Reached
  <2>4. Serves(f, r, a)
    BY <1>1, <2>1, <2>2, <2>3 DEF Serves
  <2> QED
    BY <2>4
<1>2. CASE ~(f.s \in ToSet(phone.sessions) /\ Known(phone, f))
  BY <1>2 DEF HearAsk
<1> QED
  BY <1>1, <1>2

LEMMA ServesFacts ==
    ASSUME Sound, NEW f, NEW r, NEW a, Serves(f, r, a)
    PROVE  /\ f \in UpFrames /\ WellAsked(f.ask, phone.fresh, Opened) /\ ServedOK(Reached, f, r)
           /\ a \in Answers /\ a.ask = f.ask /\ a.s = Last(phone.sessions) /\ a.type = "answer"
           /\ a.ans = r.ans.ans /\ a.id = r.ans.id /\ a.total = r.ans.total /\ a.files = r.ans.files
           /\ WellAnswered(a, r.p.fresh)
           /\ phone.fresh <= r.p.fresh /\ r.p.fresh \in Nat
<1>1. NetOK(net, phone.fresh, Opened) /\ PhoneOK(phone)
  BY SoundParts
<1>2. /\ net.up # <<>> /\ f = Head(net.up) /\ f.s \in ToSet(phone.sessions)
      /\ r = Serve(Reached, f) /\ a = [r.ans EXCEPT !.s = Last(phone.sessions)]
  BY DEF Serves
<1>3. f \in UpFrames /\ WellAsked(f.ask, phone.fresh, Opened)
  BY <1>1, <1>2, UpHead
<1>4. PhoneOK(Reached) /\ Reached.fresh = phone.fresh
  BY ReachedOK
<1>5. PICK p : p = Reached
  OBVIOUS
<1>6. ServedOK(p, f, r)
  BY <1>2, <1>3, <1>4, <1>5, Served
<1>7. PICK b : b = r.ans
  OBVIOUS
<1>8. AnswerOK(b, f, r.p.fresh) /\ phone.fresh <= r.p.fresh /\ PhoneOK(r.p)
  BY <1>4, <1>5, <1>6, <1>7 DEF ServedOK
<1>9. b \in Answers /\ b.ask = f.ask /\ WellAnswered(b, r.p.fresh)
  BY <1>8 DEF AnswerOK
<1>10. Last(phone.sessions) \in 1..MaxTries
  <2>1. phone.sessions \in Seq(1..MaxTries)
    BY <1>1 DEF PhoneOK, Phones
  <2>2. phone.sessions # <<>>
    BY <1>2 DEF ToSet
  <2> QED
    BY <2>1, <2>2, LastOf
<1>11. /\ a \in Answers /\ a.ask = f.ask /\ a.s = Last(phone.sessions) /\ a.type = "answer"
       /\ a.ans = b.ans /\ a.id = b.id /\ a.total = b.total /\ a.files = b.files
  BY <1>2, <1>7, <1>9, <1>10 DEF Answers
<1>12. WellAnswered(a, r.p.fresh)
  BY <1>9, <1>11 DEF WellAnswered
<1>13. r.p.fresh \in Nat
  BY <1>8 DEF PhoneOK, Phones
<1> QED
  BY <1>3, <1>5, <1>6, <1>7, <1>8, <1>11, <1>12, <1>13

LEMMA PhoneBooks ==
    ASSUME Sound, UNCHANGED <<told, history>>, messages' \in Seq(Letters),
           tries' = tries, accidents' \in 0..Accidents
    PROVE  Opened' = Opened /\ BooksOK'
<1>1. BooksOK
  BY SoundParts
<1>2. Opened' = Opened /\ OpenedInOrder' /\ told' \in [Jobs -> Fates]
  BY <1>1, ToldSame DEF BooksOK
<1> QED
  BY <1>1, <1>2 DEF BooksOK, history

LEMMA ServesSound ==
    ASSUME Sound, NEW f, NEW r, NEW a, Serves(f, r, a),
           UNCHANGED <<desk, told, tries, accidents, history>>
    PROVE  Sound'
<1>1. /\ DeskOK(desk, phone.fresh, Opened) /\ PhoneOK(phone) /\ NetOK(net, phone.fresh, Opened)
      /\ BooksOK /\ Opened \in Nat /\ phone.fresh \in Nat
  BY SoundParts
<1>2. /\ WellAsked(f.ask, phone.fresh, Opened) /\ ServedOK(Reached, f, r)
      /\ a \in Answers /\ a.ask = f.ask
      /\ WellAnswered(a, r.p.fresh) /\ f.ask \in Requests
      /\ phone.fresh <= r.p.fresh /\ r.p.fresh \in Nat
  BY ServesFacts DEF UpFrames
<1>3. /\ net.up # <<>> /\ phone' = r.p /\ messages' = messages \o r.sent
      /\ net' = [net EXCEPT !.up = Tail(@), !.down = Append(@, a)]
  BY DEF Serves
<1>4. PICK new : new = r.p.fresh
  OBVIOUS
<1>5. NetOK(net, new, Opened) /\ DeskOK(desk, new, Opened)
  BY <1>1, <1>2, <1>4, NetMore, DeskMore
<1>6. WellAsked(a.ask, new, Opened)
  BY <1>1, <1>2, <1>4, AskedMore
<1>7. PICK m : m = [net EXCEPT !.up = Tail(@)]
  OBVIOUS
<1>8. NetOK(m, new, Opened)
  BY <1>3, <1>5, <1>7, UpHead
<1>9. PICK k : k = [m EXCEPT !.down = Append(@, a)]
  OBVIOUS
<1>10. NetOK(k, new, Opened)
  BY <1>2, <1>4, <1>6, <1>8, <1>9, DownMore
<1>11. net' = k
  BY <1>1, <1>3, <1>7, <1>9 DEF NetOK, Nets
<1>12. messages' \in Seq(Letters)
  <2>1. messages \in Seq(Letters) /\ r.sent \in Seq(Letters)
    BY <1>1, <1>2 DEF BooksOK, ServedOK
  <2> QED
    BY <2>1, <1>3
<1>13. Opened' = Opened /\ BooksOK'
  <2>1. accidents' \in 0..Accidents
    BY <1>1 DEF BooksOK
  <2> QED
    BY <2>1, <1>12, PhoneBooks
<1>14. PhoneOK(r.p)
  BY <1>2 DEF ServedOK
<1> QED
  BY <1>3, <1>4, <1>5, <1>10, <1>11, <1>13, <1>14 DEF Sound

LEMMA SeqMore ==
    ASSUME NEW X, NEW Y, NEW q \in Seq(X), X \subseteq Y
    PROVE  q \in Seq(Y) /\ ToSet(q) \subseteq X
BY DEF ToSet

\* A note of the phone's, or none, put at the end of what goes down.
LEMMA NotesMore ==
    ASSUME NEW n, NEW new, NEW top, NetOK(n, new, top), NEW as \in Seq(Notes),
           NEW m, m = [n EXCEPT !.down = @ \o as]
    PROVE  NetOK(m, new, top)
<1>1. n \in Nets /\ AskedUp(n.up, new, top) /\ AskedDown(n.down, new, top)
  BY DEF NetOK
<1>2. PICK q : q = n.down
  OBVIOUS
<1>3. q \in Seq(Notes \cup Answers) /\ as \in Seq(Notes \cup Answers)
  <2>1. as \in Seq(Notes \cup Answers)
    BY SeqMore
  <2> QED
    BY <2>1, <1>1, <1>2 DEF Nets
<1>4. PICK r : r = q \o as
  OBVIOUS
<1>5. r \in Seq(Notes \cup Answers) /\ Grown(q, r, ToSet(as))
  BY <1>3, <1>4, Joins
<1>6. \A a \in ToSet(as) : a.type # "answer"
  <2>1. ToSet(as) \subseteq Notes
    BY SeqMore
  <2> QED
    BY <2>1 DEF Notes
<1>7. AskedDown(r, new, top)
  BY <1>1, <1>2, <1>5, <1>6 DEF AskedDown, Grown
<1>8. m \in Nets /\ m.down = r /\ m.up = n.up
  BY <1>1, <1>2, <1>4, <1>5 DEF Nets
<1> QED
  BY <1>1, <1>7, <1>8 DEF NetOK

Note(type, s) == [type |-> type, s |-> s, ask |-> Plain("none")]

LEMMA NoteOK ==
    ASSUME NEW type \in {"reply", "tomb", "revoked"}, NEW s \in 1..MaxTries
    PROVE  Note(type, s) \in Notes /\ <<Note(type, s)>> \in Seq(Notes) /\ <<>> \in Seq(Notes)
<1>1. "none" \in Plains /\ 0 \in Nat
  BY DEF Plains
<1>2. Plain("none") \in Requests
  BY <1>1, PlainOK
<1>3. Note(type, s) \in Notes
  BY <1>2 DEF Note, Notes
<1> QED
  BY <1>3

LEMMA OlderOK ==
    ASSUME NEW X, NEW q \in Seq(X)
    PROVE  Older(q) \in Seq(X) /\ Len(Older(q)) <= 1 /\ ToSet(Older(q)) \subseteq ToSet(q)
<1>1. CASE q = <<>>
  <2>1. <<>> \in Seq(X) /\ Len(<<>>) <= 1 /\ ToSet(<<>>) = {}
    BY DEF ToSet
  <2>2. Older(q) = <<>>
    BY <1>1 DEF Older
  <2> QED
    BY <2>1, <2>2
<1>2. CASE q # <<>>
  <2>1. PICK x : x = Last(q)
    OBVIOUS
  <2>2. x \in X /\ x \in ToSet(q)
    BY <1>2, <2>1, LastOf DEF ToSet
  <2>3. <<x>> \in Seq(X) /\ Len(<<x>>) <= 1 /\ ToSet(<<x>>) = {x}
    BY <2>2 DEF ToSet
  <2>4. Older(q) = <<x>>
    BY <1>2, <2>1 DEF Older
  <2> QED
    BY <2>2, <2>3, <2>4
<1> QED
  BY <1>1, <1>2

LEMMA HearHelloSound ==
    ASSUME Sound, net.up # <<>>, NEW f, f = Head(net.up), HearHello(f),
           UNCHANGED <<desk, told, tries, accidents, history>>
    PROVE  Sound'
<1>1. /\ DeskOK(desk, phone.fresh, Opened) /\ PhoneOK(phone) /\ NetOK(net, phone.fresh, Opened)
      /\ BooksOK /\ Opened \in Nat /\ phone.fresh \in Nat
  BY SoundParts
<1>2. PICK m : m = [net EXCEPT !.up = Tail(@)]
  OBVIOUS
<1>3. NetOK(m, phone.fresh, Opened) /\ f \in UpFrames /\ f.s \in 1..MaxTries
  BY <1>1, <1>2, UpHead DEF UpFrames
<1>4. messages' = messages
  BY DEF HearHello
<1>5. Opened' = Opened /\ BooksOK'
  <2>1. accidents' \in 0..Accidents /\ messages' \in Seq(Letters)
    BY <1>1, <1>4 DEF BooksOK
  <2> QED
    BY <2>1, PhoneBooks
<1>6. phone'.fresh = phone.fresh /\ PhoneOK(phone') /\ NetOK(net', phone.fresh, Opened)
  <2>1. CASE phone.paired
    <3>1. PICK ss : ss = Older(phone.sessions) \o <<f.s>>
      OBVIOUS
    <3>2. /\ phone' = [phone EXCEPT !.link = TRUE, !.sessions = ss]
          /\ net' = [net EXCEPT !.up = Tail(@), !.down = Append(@, Note("reply", f.s))]
      BY <2>1, <3>1 DEF HearHello, Note
    <3>3. phone \in Phones /\ phone.sessions \in Seq(1..MaxTries)
      BY <1>1 DEF PhoneOK, Phones
    <3>4. ss \in Seq(1..MaxTries)
      <4>1. Older(phone.sessions) \in Seq(1..MaxTries)
        BY <3>3, OlderOK
      <4> QED
        BY <4>1, <3>1, <1>3
    <3>5. phone' \in Phones /\ phone'.staged = phone.staged /\ phone'.fresh = phone.fresh
      BY <3>2, <3>3, <3>4 DEF Phones
    <3>6. PICK q : q = phone'
      OBVIOUS
    <3>7. PhoneOK(q)
      BY <3>5, <3>6, <1>1, PhoneKept
    <3>8. PICK a : a = Note("reply", f.s)
      OBVIOUS
    <3>9. a \in Notes /\ a.type = "reply"
      BY <3>8, <1>3, NoteOK DEF Note
    <3>10. PICK k : k = [m EXCEPT !.down = Append(@, a)]
      OBVIOUS
    <3>11. NetOK(k, phone.fresh, Opened)
      BY <3>9, <3>10, <1>3, DownMore
    <3>12. net' = k
      BY <3>2, <3>8, <3>10, <1>1, <1>2 DEF NetOK, Nets
    <3> QED
      BY <3>5, <3>6, <3>7, <3>11, <3>12
  <2>2. CASE ~phone.paired
    <3>1. PICK as : as = TellRevoked(f.s)
      OBVIOUS
    <3>2. phone' = phone /\ net' = [net EXCEPT !.up = Tail(@), !.down = @ \o as]
      BY <2>2, <3>1 DEF HearHello
    <3>3. as \in Seq(Notes)
      BY <3>1, <1>3, NoteOK DEF TellRevoked, Note
    <3>4. PICK k : k = [m EXCEPT !.down = @ \o as]
      OBVIOUS
    <3>5. NetOK(k, phone.fresh, Opened)
      BY <3>3, <3>4, <1>3, NotesMore
    <3>6. net' = k
      BY <3>2, <3>4, <1>1, <1>2 DEF NetOK, Nets
    <3> QED
      BY <3>2, <3>5, <3>6, <1>1
  <2> QED
    BY <2>1, <2>2
<1> QED
  BY <1>1, <1>5, <1>6 DEF Sound

LEMMA PhoneHearsSound ==
    ASSUME Sound, PhoneHears
    PROVE  Sound'
<1>1. PICK f : f = Head(net.up)
  OBVIOUS
<1>2. /\ net.up # <<>>
      /\ HearAsk(f) \/ HearHello(f)
      /\ UNCHANGED <<desk, told, tries, accidents, history>>
  BY <1>1 DEF PhoneHears
<1>3. CASE HearHello(f)
  <2>1. net.up # <<>> /\ UNCHANGED <<desk, told, tries, accidents, history>>
    BY <1>2
  <2> QED
    BY <1>1, <1>3, <2>1, HearHelloSound
<1>4. CASE \E r, a : Serves(f, r, a)
  BY <1>2, <1>4, ServesSound
<1>5. CASE net' = [net EXCEPT !.up = Tail(@)] /\ UNCHANGED <<phone, messages>>
  <2>1. /\ DeskOK(desk, phone.fresh, Opened) /\ PhoneOK(phone) /\ NetOK(net, phone.fresh, Opened)
        /\ BooksOK
    BY SoundParts
  <2>2. NetOK(net', phone.fresh, Opened)
    <3>1. NetOK([net EXCEPT !.up = Tail(@)], phone.fresh, Opened)
      BY <2>1, <1>2, UpHead
    <3> QED
      BY <3>1, <1>5
  <2>3. Opened' = Opened /\ BooksOK'
    <3>1. accidents' \in 0..Accidents /\ messages' \in Seq(Letters)
      BY <2>1, <1>2, <1>5 DEF BooksOK
    <3> QED
      BY <3>1, <1>2, PhoneBooks
  <2> QED
    BY <2>1, <2>2, <2>3, <1>2, <1>5 DEF Sound
<1> QED
  BY <1>1, <1>2, <1>3, <1>4, <1>5, HearAskCases

-----------------------------------------------------------------------------
(* What goes wrong keeps the invariant.                                    *)

\* r is a first part of q.
PartOf(r, q) == DOMAIN r \subseteq DOMAIN q /\ \A i \in DOMAIN r : r[i] = q[i]

LEMMA FirstParts ==
    ASSUME NEW X, NEW q \in Seq(X)
    PROVE  /\ PartOf(q, q) /\ PartOf(<<>>, q) /\ <<>> \in Seq(X)
           /\ \A k \in 0..Len(q) : PartOf(SubSeq(q, 1, k), q) /\ SubSeq(q, 1, k) \in Seq(X)
<1>1. PartOf(q, q)
  BY DEF PartOf
<1>2. PartOf(<<>>, q) /\ <<>> \in Seq(X)
  BY DEF PartOf
<1>3. ASSUME NEW k \in 0..Len(q)
      PROVE  PartOf(SubSeq(q, 1, k), q) /\ SubSeq(q, 1, k) \in Seq(X)
  BY PrefixFacts DEF PartOf
<1> QED
  BY <1>1, <1>2, <1>3

LEMMA NetFewer ==
    ASSUME NEW n, NEW new, NEW top, NetOK(n, new, top), NEW m \in Nets,
           PartOf(m.up, n.up), PartOf(m.down, n.down)
    PROVE  NetOK(m, new, top)
<1>1. n \in Nets /\ AskedUp(n.up, new, top) /\ AskedDown(n.down, new, top)
  BY DEF NetOK
<1>2. AskedUp(m.up, new, top)
  BY <1>1 DEF AskedUp, PartOf
<1>3. AskedDown(m.down, new, top)
  BY <1>1 DEF AskedDown, PartOf
<1> QED
  BY <1>2, <1>3 DEF NetOK

LEMMA RevokeSound ==
    ASSUME Sound, Revoke
    PROVE  Sound'
<1>1. /\ DeskOK(desk, phone.fresh, Opened) /\ PhoneOK(phone) /\ NetOK(net, phone.fresh, Opened)
      /\ BooksOK /\ Opened \in Nat /\ phone.fresh \in Nat
  BY SoundParts
<1>2. PICK as : as = IF phone.link /\ phone.sessions # <<>>
                     THEN <<Note("revoked", Last(phone.sessions))>> ELSE <<>>
  OBVIOUS
<1>3. /\ accidents < Accidents /\ accidents' = accidents + 1
      /\ phone' = [phone EXCEPT !.paired = FALSE, !.tomb = "fresh", !.sessions = <<>>, !.link = FALSE]
      /\ net' = [net EXCEPT !.down = @ \o as]
      /\ UNCHANGED <<desk, messages, told, tries, history>>
  BY <1>2 DEF Revoke, Note
<1>4. as \in Seq(Notes)
  <2>1. phone.sessions \in Seq(1..MaxTries)
    BY <1>1 DEF PhoneOK, Phones
  <2>2. PICK q, x : q = phone.sessions /\ x = Last(q)
    OBVIOUS
  <2>3. CASE q # <<>>
    <3>1. x \in 1..MaxTries
      BY <2>1, <2>2, <2>3, LastOf
    <3> QED
      BY <3>1, <2>2, <1>2, NoteOK
  <2>4. CASE q = <<>>
    <3>1. <<>> \in Seq(Notes)
      OBVIOUS
    <3>2. as = <<>>
      BY <2>2, <2>4, <1>2
    <3> QED
      BY <3>1, <3>2
  <2> QED
    BY <2>3, <2>4
<1>5. NetOK(net', phone.fresh, Opened)
  <2>1. PICK m : m = [net EXCEPT !.down = @ \o as]
    OBVIOUS
  <2>2. NetOK(m, phone.fresh, Opened)
    BY <2>1, <1>1, <1>4, NotesMore
  <2> QED
    BY <2>1, <2>2, <1>3
<1>6. PhoneOK(phone') /\ phone'.fresh = phone.fresh
  <2>1. PICK q : q = phone'
    OBVIOUS
  <2>2. phone \in Phones /\ <<>> \in Seq(1..MaxTries)
    BY <1>1 DEF PhoneOK
  <2>3. q \in Phones /\ q.staged = phone.staged /\ q.fresh = phone.fresh
    BY <2>1, <2>2, <1>3 DEF Phones
  <2> QED
    BY <2>1, <2>3, <1>1, PhoneKept
<1>7. Opened' = Opened /\ BooksOK'
  <2>1. accidents' \in 0..Accidents /\ messages' \in Seq(Letters)
    BY <1>1, <1>3, CompanionAssumption DEF BooksOK
  <2>2. UNCHANGED <<told, history>> /\ tries' = tries
    BY <1>3
  <2> QED
    BY <2>1, <2>2, PhoneBooks
<1> QED
  BY <1>1, <1>3, <1>5, <1>6, <1>7 DEF Sound

LEMMA LostOK ==
    ASSUME NEW d, NEW new, NEW top, DeskOK(d, new, top)
    PROVE  DeskOK(Lost(d), new, top)
<1>1. d \in Desks /\ Len(d.out) <= OutLimit /\ WellUp(d.upload, new, top) /\ d.upload \in Uploads
  BY DEF DeskOK, Desks
<1>2. PICK u : u = IF d.upload = NoUpload THEN d.upload ELSE [d.upload EXCEPT !.stalled = TRUE]
  OBVIOUS
<1>3. u \in Uploads /\ u.job = d.upload.job /\ u.at = d.upload.at /\ u.ids = d.upload.ids
  BY <1>1, <1>2 DEF Uploads
<1>4. WellUp(u, new, top)
  <2>1. u = NoUpload <=> u.job = 0
    BY <1>1, <1>2, <1>3, NoUploadOK DEF WellUp
  <2> QED
    BY <2>1, <1>1, <1>3 DEF WellUp
<1>5. PICK e : e = Lost(d)
  OBVIOUS
<1>6. e \in Desks /\ e.out = <<>> /\ e.upload = u
  BY <1>1, <1>2, <1>3, <1>5, Empties DEF Lost, Desks
<1>7. DeskOK(e, new, top)
  BY <1>4, <1>6, Empties DEF DeskOK, AskedOut
<1> QED
  BY <1>5, <1>7

LEMMA BreakBooks ==
    ASSUME Sound, Unheard, UNCHANGED <<told, messages, tries, deaf, mixed>>, accidents' \in 0..Accidents
    PROVE  Opened' = Opened /\ BooksOK'
<1>1. BooksOK
  BY SoundParts
<1>2. Opened' = Opened /\ OpenedInOrder' /\ told' \in [Jobs -> Fates]
  BY <1>1, ToldSame DEF BooksOK
<1>3. unheard' \in [Jobs -> Nat]
  BY <1>1 DEF BooksOK, Unheard
<1> QED
  BY <1>1, <1>2, <1>3 DEF BooksOK

LEMMA LinkGoneSound ==
    ASSUME Sound, LinkGone
    PROVE  Sound'
<1>1. /\ DeskOK(desk, phone.fresh, Opened) /\ PhoneOK(phone) /\ NetOK(net, phone.fresh, Opened)
      /\ BooksOK /\ Opened \in Nat /\ phone.fresh \in Nat
  BY SoundParts
<1>2. PICK k \in 0..Len(net.up), down \in {<<>>, net.down} :
          net' = [up |-> SubSeq(net.up, 1, k), down |-> down, cut |-> FALSE]
  BY DEF LinkGone
<1>3. /\ accidents < Accidents /\ accidents' = accidents + 1
      /\ desk' = Lost(desk) /\ Unheard /\ UNCHANGED <<phone, messages, told, tries, deaf, mixed>>
  BY DEF LinkGone
<1>4. NetOK(net', phone.fresh, Opened)
  <2>1. net.up \in Seq(UpFrames) /\ net.down \in Seq(Notes \cup Answers)
    BY <1>1 DEF NetOK, Nets
  <2>2. PICK q, r : q = SubSeq(net.up, 1, k) /\ r = down
    OBVIOUS
  <2>3. q \in Seq(UpFrames) /\ PartOf(q, net.up)
    BY <2>1, <2>2, FirstParts
  <2>4. r \in Seq(Notes \cup Answers) /\ PartOf(r, net.down)
    BY <2>1, <2>2, FirstParts
  <2>5. PICK m : m = [up |-> q, down |-> r, cut |-> FALSE]
    OBVIOUS
  <2>6. m \in Nets /\ m.up = q /\ m.down = r
    BY <2>3, <2>4, <2>5 DEF Nets
  <2>7. NetOK(m, phone.fresh, Opened)
    BY <1>1, <2>3, <2>4, <2>6, NetFewer
  <2> QED
    BY <1>2, <2>2, <2>5, <2>7
<1>5. Opened' = Opened /\ BooksOK'
  <2>1. accidents' \in 0..Accidents
    BY <1>1, <1>3, CompanionAssumption DEF BooksOK
  <2>2. UNCHANGED <<told, messages, tries, deaf, mixed>>
    BY <1>3
  <2> QED
    BY <1>3, <2>1, <2>2, BreakBooks
<1> QED
  BY <1>1, <1>3, <1>4, <1>5, LostOK DEF Sound

LEMMA NoticeSound ==
    ASSUME Sound, Notice
    PROVE  Sound'
<1>1. /\ DeskOK(desk, phone.fresh, Opened) /\ PhoneOK(phone) /\ NetOK(net, phone.fresh, Opened)
      /\ BooksOK /\ Opened \in Nat /\ phone.fresh \in Nat
  BY SoundParts
<1>2. /\ net' = [net EXCEPT !.cut = FALSE]
      /\ desk' = IF desk.revoked THEN desk ELSE Lost(desk)
      /\ Unheard /\ UNCHANGED <<phone, messages, told, tries, accidents, deaf, mixed>>
  BY DEF Notice
<1>3. NetOK(net', phone.fresh, Opened)
  <2>1. net \in Nets
    BY <1>1 DEF NetOK
  <2>2. net' \in Nets /\ net'.up = net.up /\ net'.down = net.down
    BY <2>1, <1>2 DEF Nets
  <2> QED
    BY <2>2, <1>1 DEF NetOK
<1>4. Opened' = Opened /\ BooksOK'
  <2>1. accidents' \in 0..Accidents
    BY <1>1, <1>2 DEF BooksOK
  <2>2. UNCHANGED <<told, messages, tries, deaf, mixed>>
    BY <1>2
  <2> QED
    BY <1>2, <2>1, <2>2, BreakBooks
<1> QED
  BY <1>1, <1>2, <1>3, <1>4, LostOK DEF Sound

LEMMA PhoneDiesSound ==
    ASSUME Sound, PhoneDies
    PROVE  Sound'
<1>1. /\ DeskOK(desk, phone.fresh, Opened) /\ PhoneOK(phone) /\ NetOK(net, phone.fresh, Opened)
      /\ BooksOK /\ Opened \in Nat /\ phone.fresh \in Nat
  BY SoundParts
<1>2. PICK ids : phone' = [Emptied(phone, ids) EXCEPT !.sessions = <<>>, !.link = FALSE]
  BY DEF PhoneDies
<1>3. /\ accidents < Accidents /\ accidents' = accidents + 1
      /\ net' = [up |-> <<>>, down |-> <<>>, cut |-> TRUE]
      /\ UNCHANGED <<desk, messages, told, tries, history>>
  BY DEF PhoneDies
<1>4. NetOK(net', phone.fresh, Opened)
  <2>1. <<>> \in Seq(UpFrames) /\ <<>> \in Seq(Notes \cup Answers) /\ PartOf(<<>>, net.up) /\ PartOf(<<>>, net.down)
    BY DEF PartOf
  <2>2. PICK m : m = [up |-> <<>>, down |-> <<>>, cut |-> TRUE]
    OBVIOUS
  <2>3. m \in Nets /\ m.up = <<>> /\ m.down = <<>>
    BY <2>1, <2>2 DEF Nets
  <2>4. NetOK(m, phone.fresh, Opened)
    BY <2>1, <2>3, <1>1, NetFewer
  <2> QED
    BY <2>2, <2>4, <1>3
<1>5. PhoneOK(phone') /\ phone'.fresh = phone.fresh
  <2>1. PICK p : p = Emptied(phone, ids)
    OBVIOUS
  <2>2. PhoneOK(p) /\ p.fresh = phone.fresh
    BY <2>1, <1>1, EmptiedOK
  <2>3. PICK q : q = phone'
    OBVIOUS
  <2>4. p \in Phones /\ <<>> \in Seq(1..MaxTries)
    BY <2>2 DEF PhoneOK
  <2>5. q \in Phones /\ q.staged = p.staged /\ q.fresh = p.fresh
    BY <2>1, <2>3, <2>4, <1>2 DEF Phones
  <2>6. PhoneOK(q)
    BY <2>2, <2>5, PhoneKept
  <2> QED
    BY <2>2, <2>3, <2>5, <2>6
<1>6. Opened' = Opened /\ BooksOK'
  <2>1. accidents' \in 0..Accidents /\ messages' \in Seq(Letters)
    BY <1>1, <1>3, CompanionAssumption DEF BooksOK
  <2>2. UNCHANGED <<told, history>> /\ tries' = tries
    BY <1>3
  <2> QED
    BY <2>1, <2>2, PhoneBooks
<1> QED
  BY <1>1, <1>3, <1>4, <1>5, <1>6 DEF Sound

LEMMA PhoneLinkDownSound ==
    ASSUME Sound, PhoneLinkDown
    PROVE  Sound'
<1>1. /\ DeskOK(desk, phone.fresh, Opened) /\ PhoneOK(phone) /\ NetOK(net, phone.fresh, Opened)
      /\ BooksOK /\ Opened \in Nat /\ phone.fresh \in Nat
  BY SoundParts
<1>2. PICK k \in 0..(Len(net.down) - 1) : net' = [net EXCEPT !.down = SubSeq(@, 1, k)]
  BY DEF PhoneLinkDown
<1>3. /\ accidents < Accidents /\ accidents' = accidents + 1
      /\ phone' = [phone EXCEPT !.link = FALSE] /\ deaf' = TRUE
      /\ UNCHANGED <<desk, messages, told, tries, unheard, mixed>>
  BY DEF PhoneLinkDown
<1>4. NetOK(net', phone.fresh, Opened)
  <2>1. net \in Nets
    BY <1>1 DEF NetOK
  <2>2. net.up \in Seq(UpFrames) /\ net.down \in Seq(Notes \cup Answers)
    BY <2>1 DEF Nets
  <2>3. PICK q, r : q = net.down /\ r = SubSeq(q, 1, k)
    OBVIOUS
  <2>4. k \in 0..Len(q)
    <3>1. Len(q) \in Nat
      BY <2>2, <2>3
    <3> QED
      BY <3>1, <2>3
  <2>5. r \in Seq(Notes \cup Answers) /\ PartOf(r, net.down) /\ PartOf(net.up, net.up)
    BY <2>2, <2>3, <2>4, FirstParts
  <2>6. PICK m : m = [net EXCEPT !.down = SubSeq(@, 1, k)]
    OBVIOUS
  <2>7. m \in Nets /\ m.up = net.up /\ m.down = r
    BY <2>1, <2>3, <2>5, <2>6 DEF Nets
  <2>8. NetOK(m, phone.fresh, Opened)
    BY <1>1, <2>5, <2>7, NetFewer
  <2> QED
    BY <1>2, <2>6, <2>8
<1>5. PhoneOK(phone') /\ phone'.fresh = phone.fresh
  <2>1. PICK q : q = phone'
    OBVIOUS
  <2>2. phone \in Phones
    BY <1>1 DEF PhoneOK
  <2>3. q \in Phones /\ q.staged = phone.staged /\ q.fresh = phone.fresh
    BY <2>1, <2>2, <1>3 DEF Phones
  <2> QED
    BY <2>1, <2>3, <1>1, PhoneKept
<1>6. Opened' = Opened /\ OpenedInOrder' /\ told' \in [Jobs -> Fates]
  BY <1>1, <1>3, ToldSame DEF BooksOK
<1>7. BooksOK'
  <2>1. accidents' \in 0..Accidents
    BY <1>1, <1>3, CompanionAssumption DEF BooksOK
  <2> QED
    BY <2>1, <1>1, <1>3, <1>6 DEF BooksOK
<1> QED
  BY <1>1, <1>3, <1>4, <1>5, <1>6, <1>7 DEF Sound

LEMMA SweepSound ==
    ASSUME Sound, Sweep \/ TombAges
    PROVE  Sound'
<1>1. /\ DeskOK(desk, phone.fresh, Opened) /\ PhoneOK(phone) /\ NetOK(net, phone.fresh, Opened)
      /\ BooksOK /\ Opened \in Nat /\ phone.fresh \in Nat
  BY SoundParts
<1>2. /\ accidents < Accidents /\ accidents' = accidents + 1
      /\ UNCHANGED <<desk, net, messages, told, tries, history>>
  BY DEF Sweep, TombAges
<1>3. PhoneOK(phone') /\ phone'.fresh = phone.fresh
  <2>1. CASE Sweep
    <3>1. PICK g \in phone.staged : phone' = [phone EXCEPT !.staged = @ \ {g}]
      BY <2>1 DEF Sweep
    <3>2. PICK S : S = phone.staged \ {g}
      OBVIOUS
    <3>3. PICK q : q = phone'
      OBVIOUS
    <3>4. PhoneOK(q) /\ q.fresh = phone.fresh
      BY <3>1, <3>2, <3>3, <1>1, FewerOK
    <3> QED
      BY <3>3, <3>4
  <2>2. CASE TombAges
    <3>1. PICK q : q = phone'
      OBVIOUS
    <3>2. phone \in Phones
      BY <1>1 DEF PhoneOK
    <3>3. q \in Phones /\ q.staged = phone.staged /\ q.fresh = phone.fresh
      BY <3>1, <3>2, <2>2 DEF Phones, TombAges
    <3> QED
      BY <3>1, <3>3, <1>1, PhoneKept
  <2> QED
    BY <2>1, <2>2
<1>4. Opened' = Opened /\ BooksOK'
  <2>1. accidents' \in 0..Accidents /\ messages' \in Seq(Letters)
    BY <1>1, <1>2, CompanionAssumption DEF BooksOK
  <2>2. UNCHANGED <<told, history>> /\ tries' = tries
    BY <1>2
  <2> QED
    BY <2>1, <2>2, PhoneBooks
<1> QED
  BY <1>1, <1>2, <1>3, <1>4 DEF Sound

LEMMA SoundInit == CompanionInit => Sound
<1> SUFFICES ASSUME CompanionInit
             PROVE  Sound
  OBVIOUS
<1>1. /\ desk = [session |-> 0, pending |-> 0, hello |-> FALSE, out |-> <<>>,
                 upload |-> NoUpload, sending |-> 0, revoked |-> FALSE]
      /\ phone \in [wire : Wires, paired : {TRUE}, tomb : {"none"}, sessions : {<<>>},
                    link : {FALSE}, staged : {{}}, fresh : {1}]
      /\ net = [up |-> <<>>, down |-> <<>>, cut |-> FALSE]
      /\ messages = <<>> /\ told = [j \in Jobs |-> "none"]
      /\ tries = 0 /\ accidents = 0 /\ unheard = [j \in Jobs |-> 0] /\ deaf = FALSE /\ mixed = {}
  BY DEF CompanionInit
<1>2. Opened = 0
  <2>1. {i \in Jobs : told[i] # "none"} = {}
    BY <1>1
  <2> QED
    BY <2>1, FS_EmptySet DEF Opened
<1>3. DeskOK(desk, phone.fresh, 0)
  <2>1. desk \in Desks /\ desk.out = <<>> /\ desk.upload = NoUpload
    BY <1>1, NoUploadOK, Empties DEF Desks
  <2> QED
    BY <2>1, NoUploadOK, Empties DEF DeskOK, AskedOut
<1>4. PhoneOK(phone)
  <2>1. <<>> \in Seq(1..MaxTries)
    OBVIOUS
  <2>2. phone \in Phones /\ phone.staged = {} /\ phone.fresh = 1
    <3>1. PICK w \in Wires : phone = [wire |-> w, paired |-> TRUE, tomb |-> "none", sessions |-> <<>>,
                                      link |-> FALSE, staged |-> {}, fresh |-> 1]
      BY <1>1
    <3>2. phone.staged = {} /\ phone.fresh = 1
      BY <3>1
    <3>3. {} \in SUBSET Places /\ 1 \in Nat
      OBVIOUS
    <3>4. phone \in Phones
      BY <2>1, <3>1, <3>3 DEF Phones
    <3> QED
      BY <3>2, <3>4
  <2>3. IsFiniteSet(phone.staged) /\ Cardinality(phone.staged) = 0
    BY <2>2, FS_EmptySet
  <2>4. 0 <= MaxUploads
    BY CompanionAssumption
  <2> QED
    BY <2>2, <2>3, <2>4 DEF PhoneOK, WellPlaced
<1>5. NetOK(net, phone.fresh, 0)
  <2>1. <<>> \in Seq(UpFrames) /\ <<>> \in Seq(Notes \cup Answers)
    OBVIOUS
  <2>2. net \in Nets /\ net.up = <<>> /\ net.down = <<>>
    BY <1>1, <2>1 DEF Nets
  <2> QED
    BY <2>2 DEF NetOK, AskedUp, AskedDown
<1>6. OpenedInOrder
  BY <1>1, <1>2, JobFacts DEF OpenedInOrder
<1>7. BooksOK
  <2>1. told \in [Jobs -> Fates] /\ unheard \in [Jobs -> Nat] /\ messages \in Seq(Letters)
    BY <1>1 DEF Fates
  <2>2. tries \in 0..MaxTries /\ accidents \in 0..Accidents
    BY <1>1, CompanionAssumption
  <2> QED
    BY <2>1, <2>2, <1>1, <1>6 DEF BooksOK
<1> QED
  BY <1>2, <1>3, <1>4, <1>5, <1>7 DEF Sound

LEMMA SoundSame ==
    ASSUME Sound, UNCHANGED companionVars
    PROVE  Sound'
<1>1. /\ desk' = desk /\ phone' = phone /\ net' = net /\ messages' = messages /\ told' = told
      /\ tries' = tries /\ accidents' = accidents /\ unheard' = unheard /\ deaf' = deaf /\ mixed' = mixed
  BY DEF companionVars
<1>2. BooksOK /\ DeskOK(desk, phone.fresh, Opened) /\ PhoneOK(phone) /\ NetOK(net, phone.fresh, Opened)
  BY SoundParts
<1>3. Opened' = Opened /\ OpenedInOrder' /\ told' \in [Jobs -> Fates]
  BY <1>1, <1>2, ToldSame DEF BooksOK
<1>4. BooksOK'
  BY <1>1, <1>2, <1>3 DEF BooksOK
<1> QED
  BY <1>1, <1>2, <1>3, <1>4 DEF Sound

LEMMA SoundNext ==
    ASSUME Sound, [CompanionNext]_companionVars
    PROVE  Sound'
<1>1. CASE SendFiles
  BY <1>1, SendFilesSound
<1>2. CASE CancelSend
  BY <1>2, CancelSendSound
<1>3. CASE Reach(FALSE) \/ Reach(TRUE)
  BY <1>3, ReachSound
<1>4. CASE DeskHears
  BY <1>4, DeskHearsSound
<1>5. CASE PhoneHears
  BY <1>5, PhoneHearsSound
<1>6. CASE Revoke
  BY <1>6, RevokeSound
<1>7. CASE LinkGone
  BY <1>7, LinkGoneSound
<1>8. CASE PhoneDies
  BY <1>8, PhoneDiesSound
<1>9. CASE Notice
  BY <1>9, NoticeSound
<1>10. CASE PhoneLinkDown
  BY <1>10, PhoneLinkDownSound
<1>11. CASE Sweep \/ TombAges
  BY <1>11, SweepSound
<1>12. CASE UNCHANGED companionVars
  BY <1>12, SoundSame
<1> QED
  BY <1>1, <1>2, <1>3, <1>4, <1>5, <1>6, <1>7, <1>8, <1>9, <1>10, <1>11, <1>12 DEF CompanionNext

LEMMA SoundTypes == Sound => CompanionTypeOK
BY DEF Sound, DeskOK, PhoneOK, NetOK, BooksOK, Letters, CompanionTypeOK

LEMMA AlwaysSound == CompanionSpec => []Sound
<1>1. Sound /\ [CompanionNext]_companionVars => Sound'
  BY SoundNext
<1> QED
  BY SoundInit, <1>1, PTL DEF CompanionSpec

\* Whatever goes wrong, the state has its types: the table never holds more
\* requests than it has room for, nor the phone more places than it may give.
THEOREM CompanionTypes == CompanionSpec => []CompanionTypeOK
BY AlwaysSound, SoundTypes, PTL

-----------------------------------------------------------------------------
(* Numbers, sessions and the order of the jobs.                            *)

\* r goes on where some part of q ends, with entries of F.
Flow(q, r, F) ==
    \E c, m \in Nat : \A k \in DOMAIN r :
        IF k <= m THEN k + c \in DOMAIN q /\ r[k] = q[k + c] ELSE r[k] \in F

LEMMA FlowSame ==
    ASSUME NEW X, NEW q \in Seq(X), NEW F
    PROVE  Flow(q, q, F)
<1>1. Len(q) \in Nat /\ 0 \in Nat /\ DOMAIN q = 1..Len(q)
  OBVIOUS
<1>2. \A k \in DOMAIN q : IF k <= Len(q) THEN k + 0 \in DOMAIN q /\ q[k] = q[k + 0] ELSE q[k] \in F
  BY <1>1
<1> QED
  BY <1>1, <1>2 DEF Flow

LEMMA FlowGrown ==
    ASSUME NEW X, NEW q \in Seq(X), NEW r \in Seq(X), NEW F, Grown(q, r, F)
    PROVE  Flow(q, r, F)
<1>1. Len(q) \in Nat /\ 0 \in Nat /\ DOMAIN q = 1..Len(q) /\ DOMAIN r = 1..Len(r)
  OBVIOUS
<1>2. \A k \in DOMAIN r : IF k <= Len(q) THEN k + 0 \in DOMAIN q /\ r[k] = q[k + 0] ELSE r[k] \in F
  BY <1>1 DEF Grown
<1> QED
  BY <1>1, <1>2 DEF Flow

LEMMA FlowTail ==
    ASSUME NEW X, NEW q \in Seq(X), q # <<>>, NEW F
    PROVE  Flow(q, Tail(q), F)
<1>1. PICK r : r = Tail(q)
  OBVIOUS
<1>2. r \in Seq(X) /\ \A i \in DOMAIN r : i + 1 \in DOMAIN q /\ r[i] = q[i + 1]
  BY <1>1, TailFacts
<1>3. Len(r) \in Nat /\ 1 \in Nat /\ DOMAIN r = 1..Len(r)
  BY <1>2
<1>4. \A k \in DOMAIN r : IF k <= Len(r) THEN k + 1 \in DOMAIN q /\ r[k] = q[k + 1] ELSE r[k] \in F
  BY <1>2, <1>3
<1> QED
  BY <1>1, <1>3, <1>4 DEF Flow

LEMMA FlowPrefix ==
    ASSUME NEW X, NEW q \in Seq(X), NEW k \in 0..Len(q), NEW F
    PROVE  Flow(q, SubSeq(q, 1, k), F)
<1>1. PICK r : r = SubSeq(q, 1, k)
  OBVIOUS
<1>2. r \in Seq(X) /\ \A i \in DOMAIN r : i \in DOMAIN q /\ r[i] = q[i]
  BY <1>1, PrefixFacts
<1>3. Len(r) \in Nat /\ 0 \in Nat /\ DOMAIN r = 1..Len(r)
  BY <1>2
<1>4. \A i \in DOMAIN r : IF i <= Len(r) THEN i + 0 \in DOMAIN q /\ r[i] = q[i + 0] ELSE r[i] \in F
  BY <1>2, <1>3
<1> QED
  BY <1>1, <1>3, <1>4 DEF Flow

LEMMA FlowNone ==
    ASSUME NEW q, NEW F
    PROVE  Flow(q, <<>>, F)
<1>1. DOMAIN <<>> = {} /\ 0 \in Nat
  OBVIOUS
<1> QED
  BY <1>1 DEF Flow

LEMMA FlowEntries ==
    ASSUME NEW q, NEW r, NEW F, Flow(q, r, F), NEW k \in DOMAIN r
    PROVE  r[k] \in F \/ \E i \in DOMAIN q : r[k] = q[i]
BY DEF Flow

\* A request that goes up is of no job or of the last.
Newest(F, top) == \A f \in F : f.ask.job \in {0, top}

LEMMA StaysInOrder ==
    ASSUME NEW q \in Seq(UpFrames), NEW r \in Seq(UpFrames), NEW F, NEW new, NEW top \in Nat,
           InOrder(q), Flow(q, r, F), Newest(F, top), AskedUp(r, new, top)
    PROVE  InOrder(r)
<1>1. PICK c \in Nat, m \in Nat : \A k \in DOMAIN r :
        IF k <= m THEN k + c \in DOMAIN q /\ r[k] = q[k + c] ELSE r[k] \in F
  BY DEF Flow
<1> SUFFICES ASSUME NEW i \in DOMAIN r, NEW k \in DOMAIN r, i < k, r[k].ask.job # 0
             PROVE  r[i].ask.job <= r[k].ask.job
  BY DEF InOrder
<1>2. i \in Nat /\ k \in Nat /\ DOMAIN q = 1..Len(q) /\ Len(q) \in Nat
  OBVIOUS
<1>3. CASE k <= m
  <2>1. i + c \in DOMAIN q /\ k + c \in DOMAIN q /\ r[i] = q[i + c] /\ r[k] = q[k + c] /\ i + c < k + c
    BY <1>1, <1>2, <1>3
  <2> QED
    BY <2>1 DEF InOrder
<1>4. CASE ~(k <= m)
  <2>1. r[k].ask.job = top
    BY <1>1, <1>4 DEF Newest
  <2>2. r[i].ask.job <= top
    BY DEF AskedUp, WellAsked
  <2> QED
    BY <2>1, <2>2
<1> QED
  BY <1>3, <1>4

\* Later places: those that were, with more in them, and new ones.
Grew(g, h) == h.id = g.id /\ h.job = g.job /\ h.pos = g.pos /\ g.have \subseteq h.have
Later(S, n, T) == \A h \in T : h.id >= n \/ \E g \in S : Grew(g, h)

LEMMA LaterSame ==
    ASSUME NEW S, NEW n, NEW T \in SUBSET S
    PROVE  Later(S, n, T)
BY DEF Later, Grew

LEMMA LaterIds ==
    ASSUME NEW S, NEW n \in Nat, NEW T \in SUBSET Places, Later(S, n, T), NEW h \in T, h.id < n
    PROVE  \E g \in S : Grew(g, h)
<1>1. h.id \in Nat
  BY DEF Places
<1> QED
  BY <1>1 DEF Later

LEMMA NotLaterLater ==
    ASSUME NEW S, NEW n \in Nat, NEW T \in SUBSET Places, Later(S, n, T),
           NEW ids, NEW j, \A i \in DOMAIN ids : ids[i] < n, NotLater(ids, j, S)
    PROVE  NotLater(ids, j, T)
<1> SUFFICES ASSUME NEW i \in DOMAIN ids, NEW h \in T, h.id = ids[i]
             PROVE  h.job <= j
  BY DEF NotLater
<1>1. PICK g \in S : Grew(g, h)
  BY LaterIds
<1> QED
  BY <1>1 DEF Grew, NotLater

LEMMA GrewFacts ==
    ASSUME NEW g, NEW h, Grew(g, h)
    PROVE  h.id = g.id /\ h.job = g.job /\ h.pos = g.pos /\ Total(h) = Total(g) /\ Missing(h) \subseteq Missing(g)
BY DEF Grew, Total, Missing

LEMMA TrueLater ==
    ASSUME NEW S, NEW n \in Nat, NEW T \in SUBSET Places, Later(S, n, T),
           NEW top, NEW f \in Answers, WellAsked(f.ask, n, top), WellAnswered(f, n), True(f, S)
    PROVE  True(f, T)
<1>1. ASSUME NEW h \in T, h.id < n
      PROVE  \E g \in S : h.id = g.id /\ Grew(g, h)
  BY <1>1, LaterIds, GrewFacts
<1>2. f.ans = "offer" => \A h \in T : h.id = f.id => h.job = f.ask.job /\ h.pos = f.ask.which
  <2> SUFFICES ASSUME f.ans = "offer", NEW h \in T, h.id = f.id
               PROVE  h.job = f.ask.job /\ h.pos = f.ask.which
    OBVIOUS
  <2>1. PICK g \in S : h.id = g.id /\ Grew(g, h)
    BY <1>1 DEF WellAnswered
  <2> QED
    BY <2>1, GrewFacts DEF True
<1>3. f.ans = "offer" => f.total = Sizes[f.ask.job][f.ask.which]
  BY DEF True
<1>4. f.ans = "done" /\ f.ask.kind = "put" => \A h \in T : h.id = f.ask.ids[1] => f.ask.n \in h.have
  <2> SUFFICES ASSUME f.ans = "done", f.ask.kind = "put", NEW h \in T, h.id = f.ask.ids[1]
               PROVE  f.ask.n \in h.have
    OBVIOUS
  <2>1. f.ask \in Requests /\ Len(f.ask.ids) = 1
    BY DEF WellAsked, Answers
  <2>2. 1 \in DOMAIN f.ask.ids
    BY <2>1 DEF Requests
  <2>3. PICK g \in S : h.id = g.id /\ Grew(g, h)
    BY <2>2, <1>1 DEF WellAsked
  <2> QED
    BY <2>3 DEF Grew, True
<1>5. \A x \in f.files : \A h \in T : h.id = x.id => Missing(h) \subseteq x.missing /\ x.total = Total(h)
  <2> SUFFICES ASSUME NEW x \in f.files, NEW h \in T, h.id = x.id
               PROVE  Missing(h) \subseteq x.missing /\ x.total = Total(h)
    OBVIOUS
  <2>1. PICK g \in S : h.id = g.id /\ Grew(g, h)
    BY <1>1 DEF WellAnswered
  <2>2. Missing(g) \subseteq x.missing /\ x.total = Total(g)
    BY <2>1, GrewFacts DEF True
  <2> QED
    BY <2>1, <2>2, GrewFacts
<1> QED
  BY <1>2, <1>3, <1>4, <1>5 DEF True

\* Answers go down that are true of the places there.
Truly(F, S) == \A f \in F : f.type = "answer" => True(f, S)

LEMMA StaysTrue ==
    ASSUME NEW S, NEW n \in Nat, NEW T \in SUBSET Places, Later(S, n, T),
           NEW top, NEW q \in Seq(Notes \cup Answers), AskedDown(q, n, top), TrueDown(q, S),
           NEW r, NEW F, Flow(q, r, F), Truly(F, T)
    PROVE  TrueDown(r, T)
<1> SUFFICES ASSUME NEW k \in DOMAIN r, r[k].type = "answer"
             PROVE  True(r[k], T)
  BY DEF TrueDown
<1>1. CASE r[k] \in F
  BY <1>1 DEF Truly
<1>2. CASE \E i \in DOMAIN q : r[k] = q[i]
  <2>1. PICK i \in DOMAIN q : r[k] = q[i]
    BY <1>2
  <2>2. PICK f : f = q[i]
    OBVIOUS
  <2>3. f \in Notes \cup Answers /\ f.type = "answer"
    BY <2>1, <2>2
  <2>4. f \in Answers
    BY <2>3 DEF Notes
  <2>5. WellAsked(f.ask, n, top) /\ WellAnswered(f, n) /\ True(f, S)
    BY <2>2, <2>3 DEF AskedDown, TrueDown
  <2> QED
    BY <2>1, <2>2, <2>4, <2>5, TrueLater
<1> QED
  BY <1>1, <1>2, FlowEntries

\* What goes up names places of its job or of one before.
Naming(F, S) == \A f \in F : NotLater(f.ask.ids, f.ask.job, S)

LEMMA StaysBehind ==
    ASSUME NEW S, NEW n \in Nat, NEW T \in SUBSET Places, Later(S, n, T),
           NEW top, NEW q \in Seq(UpFrames), AskedUp(q, n, top),
           \A i \in DOMAIN q : NotLater(q[i].ask.ids, q[i].ask.job, S),
           NEW r, NEW F, Flow(q, r, F), Naming(F, T)
    PROVE  \A i \in DOMAIN r : NotLater(r[i].ask.ids, r[i].ask.job, T)
<1> SUFFICES ASSUME NEW k \in DOMAIN r
             PROVE  NotLater(r[k].ask.ids, r[k].ask.job, T)
  OBVIOUS
<1>1. CASE r[k] \in F
  BY <1>1 DEF Naming
<1>2. CASE \E i \in DOMAIN q : r[k] = q[i]
  <2>1. PICK i \in DOMAIN q : r[k] = q[i]
    BY <1>2
  <2>2. PICK a : a = q[i].ask
    OBVIOUS
  <2>3. NotLater(a.ids, a.job, S) /\ \A l \in DOMAIN a.ids : a.ids[l] < n
    BY <2>2 DEF AskedUp, WellAsked
  <2>4. NotLater(a.ids, a.job, T)
    BY <2>3, NotLaterLater
  <2> QED
    BY <2>1, <2>2, <2>4
<1> QED
  BY <1>1, <1>2, FlowEntries

\* The sessions of the desktop go on from d to e, with n tries before and m after.
Onwards(d, e, n, m) ==
    /\ e.session = 0 => e.out = <<>>
    /\ e.session # 0 => e.pending = 0
    /\ e.pending <= m /\ e.session <= m
    /\ e.pending \in {d.pending, 0} \/ e.pending > n

\* Frames of the sessions begun so far, none of the one that is asked for.
Begun(F, e, m) == \A f \in F : f.s <= m /\ (f.type = "ask" => f.s # e.pending)

LEMMA StaysDated ==
    ASSUME NEW d \in Desks, NEW e \in Desks, NEW n \in Nat, NEW m \in Nat, n <= m,
           NEW q \in Seq(UpFrames), NEW r \in Seq(Notes \cup Answers), NEW ss,
           Dated(d, q, r, ss, n), Onwards(d, e, n, m),
           NEW q2, NEW F, Flow(q, q2, F), Begun(F, e, m),
           NEW r2, NEW G, Flow(r, r2, G), \A f \in G : f.s <= m,
           NEW tt, \A i \in DOMAIN tt : tt[i] <= m
    PROVE  Dated(e, q2, r2, tt, m)
<1>1. ASSUME NEW k \in DOMAIN q2
      PROVE  q2[k].s <= m /\ (q2[k].type = "ask" => q2[k].s # e.pending)
  <2>1. CASE q2[k] \in F
    BY <2>1 DEF Begun
  <2>2. CASE \E i \in DOMAIN q : q2[k] = q[i]
    <3>1. PICK i \in DOMAIN q : q2[k] = q[i]
      BY <2>2
    <3>0. q[i] \in UpFrames /\ MaxTries \in Nat
      BY CompanionAssumption
    <3>2. q[i].s \in Nat /\ q[i].s >= 1 /\ q[i].s <= n /\ (q[i].type = "ask" => q[i].s # d.pending)
      BY <3>0 DEF UpFrames, Dated
    <3>3. e.pending \in Nat
      BY CompanionAssumption DEF Desks
    <3> QED
      BY <3>1, <3>2, <3>3 DEF Onwards
  <2> QED
    BY <2>1, <2>2, FlowEntries
<1>2. ASSUME NEW k \in DOMAIN r2
      PROVE  r2[k].s <= m
  <2>1. CASE r2[k] \in G
    BY <2>1
  <2>2. CASE \E i \in DOMAIN r : r2[k] = r[i]
    <3>1. PICK i \in DOMAIN r : r2[k] = r[i]
      BY <2>2
    <3>2. r[i].s \in Nat /\ r[i].s <= n
      BY CompanionAssumption DEF Notes, Answers, Dated
    <3> QED
      BY <3>1, <3>2
  <2> QED
    BY <2>1, <2>2, FlowEntries
<1> QED
  BY <1>1, <1>2 DEF Dated, Onwards

Ends(ss, n) == \A i \in DOMAIN ss : ss[i] <= n

\* A step keeps what is orderly if what it adds is.
LEMMA OrderlyFrom ==
    ASSUME Sound, Sound', Orderly, tries <= tries',
           Later(phone.staged, phone.fresh, phone'.staged), Apart(phone'.staged),
           Onwards(desk, desk', tries, tries'), Ends(phone'.sessions, tries'),
           NEW F, Flow(net.up, net'.up, F), Begun(F, desk', tries'), Newest(F, Opened'),
           Naming(F, phone'.staged),
           NEW G, Flow(net.down, net'.down, G), \A f \in G : f.s <= tries', Truly(G, phone'.staged),
           NotLater(desk'.upload.ids, desk'.upload.job, phone'.staged)
    PROVE  Orderly'
<1>1. /\ desk \in Desks /\ desk' \in Desks /\ phone.fresh \in Nat
      /\ phone.staged \in SUBSET Places /\ phone'.staged \in SUBSET Places
      /\ net.up \in Seq(UpFrames) /\ net'.up \in Seq(UpFrames)
      /\ net.down \in Seq(Notes \cup Answers)
      /\ tries \in Nat /\ tries' \in Nat /\ Opened \in Nat /\ Opened' \in Nat
  <2>1. DeskOK(desk, phone.fresh, Opened) /\ PhoneOK(phone) /\ NetOK(net, phone.fresh, Opened) /\ BooksOK
    BY SoundParts
  <2>2. desk' \in Desks /\ phone' \in Phones /\ net' \in Nets
    BY DEF Sound, DeskOK, PhoneOK, NetOK
  <2>3. tries \in Nat /\ tries' \in Nat
    BY CompanionAssumption DEF Sound, BooksOK
  <2>4. Opened' \in Nat /\ Opened \in Nat
    <3>1. (\E x : x = told') /\ told' \in [Jobs -> Fates]
      BY DEF Sound, BooksOK
    <3>2. \A t \in [Jobs -> Fates] : Cardinality({i \in Jobs : t[i] # "none"}) \in Nat
      <4> SUFFICES ASSUME NEW t \in [Jobs -> Fates]
                   PROVE  Cardinality({i \in Jobs : t[i] # "none"}) \in Nat
        OBVIOUS
      <4>1. Jobs = 1..Len(Sizes) /\ Len(Sizes) \in Nat
        BY CompanionAssumption DEF Jobs
      <4>2. IsFiniteSet(Jobs)
        BY <4>1, FS_Interval
      <4>3. {i \in Jobs : t[i] # "none"} \in SUBSET Jobs
        OBVIOUS
      <4> QED
        BY <4>2, <4>3, FS_Subset, FS_CardinalityType
    <3>3. Cardinality({i \in Jobs : told'[i] # "none"}) \in Nat
      BY <3>1, <3>2
    <3> QED
      BY <3>3, SoundParts DEF Opened
  <2> QED
    BY <2>1, <2>2, <2>3, <2>4 DEF DeskOK, PhoneOK, NetOK, Phones, Nets
<1>2. AskedUp(net.up, phone.fresh, Opened) /\ AskedDown(net.down, phone.fresh, Opened)
  BY DEF Sound, NetOK
<1>3. AskedUp(net'.up, phone'.fresh, Opened')
  BY DEF Sound, NetOK
<1>4. InOrder(net'.up)
  BY <1>1, <1>3, StaysInOrder DEF Orderly
<1>5. TrueDown(net'.down, phone'.staged)
  BY <1>1, <1>2, StaysTrue DEF Orderly
<1>6. \A i \in DOMAIN net'.up : NotLater(net'.up[i].ask.ids, net'.up[i].ask.job, phone'.staged)
  BY <1>1, <1>2, StaysBehind DEF Orderly, Behind
<1>7. Dated(desk', net'.up, net'.down, phone'.sessions, tries')
  <2>1. Dated(desk, net.up, net.down, phone.sessions, tries)
    BY DEF Orderly
  <2>2. \A i \in DOMAIN phone'.sessions : phone'.sessions[i] <= tries'
    BY DEF Ends
  <2> QED
    BY <2>1, <2>2, <1>1, StaysDated
<1> QED
  BY <1>4, <1>5, <1>6, <1>7 DEF Orderly, Behind

\* ... where the places are the same, or fewer.
LEMMA FewerPlaces ==
    ASSUME Sound, Orderly, phone'.staged \subseteq phone.staged
    PROVE  /\ Later(phone.staged, phone.fresh, phone'.staged) /\ Apart(phone'.staged)
           /\ NotLater(desk.upload.ids, desk.upload.job, phone'.staged)
<1>1. Apart(phone'.staged)
  BY DEF Orderly, Apart
<1>2. NotLater(desk.upload.ids, desk.upload.job, phone'.staged)
  BY DEF Orderly, Behind, NotLater
<1> QED
  BY <1>1, <1>2, LaterSame

\* ... where nothing goes up or down.
LEMMA NoFrames ==
    ASSUME NEW e, NEW m, NEW top, NEW S
    PROVE  Begun({}, e, m) /\ Newest({}, top) /\ Naming({}, S) /\ Truly({}, S)
BY DEF Begun, Newest, Naming, Truly

-----------------------------------------------------------------------------
(* What the steps of the desktop come to.                                  *)


\* From the frames of the requests in as.
Carries(F, s, as) == \A f \in F : f.type = "ask" /\ f.s = s /\ f.ask \in as

LEMMA FramesCarry ==
    ASSUME NEW s, NEW as
    PROVE  Carries(FramesOf(s, as), s, as)
<1> SUFFICES ASSUME NEW f \in FramesOf(s, as)
             PROVE  f.type = "ask" /\ f.s = s /\ f.ask \in as
  BY DEF Carries
<1>1. PICK a \in as : f = [type |-> "ask", s |-> s, ask |-> a]
  BY DEF FramesOf
<1> QED
  BY <1>1

\* The job j is opened: its first file is offered, if there is room.
Sends(j, u, a, o, up) ==
    /\ j = Opened + 1 /\ j \in Jobs /\ Opened' = j /\ desk.upload = NoUpload
    /\ u = [NoUpload EXCEPT !.job = j, !.at = 1] /\ a = FileOffer(u, 1)
    /\ desk'.session = desk.session /\ desk'.pending = desk.pending /\ desk'.out = o
    /\ desk'.upload \in {u, NoUpload}
    /\ Len(o) <= Len(desk.out) + 1
    /\ net'.up = up /\ net'.down = net.down
    /\ Posting(desk.session, desk.out, net.up, o, up, {a})

LEMMA SendFilesShape ==
    ASSUME Sound, SendFiles
    PROVE  \E j, u, a, o, up : Sends(j, u, a, o, up)
<1>1. /\ DeskOK(desk, phone.fresh, Opened) /\ NetOK(net, phone.fresh, Opened)
      /\ BooksOK /\ Opened \in Nat
  BY SoundParts
<1>2. PICK j : j = Opened + 1
  OBVIOUS
<1>3. PICK u : u = [NoUpload EXCEPT !.job = j, !.at = 1]
  OBVIOUS
<1>4. PICK d : d = [desk EXCEPT !.sending = j, !.upload = u]
  OBVIOUS
<1>5. PICK a : a = FileOffer(u, 1)
  OBVIOUS
<1>6. PICK p : p = Posted(d, net, <<a>>)
  OBVIOUS
<1>7. /\ j \in Jobs /\ desk.upload = NoUpload
      /\ desk' = IF p.all THEN p.d ELSE [p.d EXCEPT !.upload = NoUpload]
      /\ net' = p.n
      /\ told' = [told EXCEPT ![j] = IF p.all THEN "open" ELSE "dropped"]
  BY <1>2, <1>3, <1>4, <1>5, <1>6 DEF SendFiles, Opened
<1>8. Opened' = j
  <2>1. OpenedInOrder /\ told \in [Jobs -> Fates]
    BY <1>1 DEF BooksOK
  <2>2. PICK fate : fate = IF p.all THEN "open" ELSE "dropped"
    OBVIOUS
  <2>3. fate \in Fates \ {"none"} /\ told' = [told EXCEPT ![Opened + 1] = fate]
    BY <1>7, <1>2, <2>2 DEF Fates
  <2> QED
    BY <2>1, <2>3, <1>1, <1>2, <1>7, ToldNext
<1>9. u \in Uploads /\ u.job = j
  <2>1. j \in Jobs /\ j # 0 /\ j \in Nat
    BY <1>7, JobFacts
  <2>2. u = [job |-> j, at |-> 1, ids |-> <<>>, next |-> 0, total |-> 0, stalled |-> FALSE]
    BY <1>3 DEF NoUpload
  <2>3. <<>> \in Seq(Nat)
    OBVIOUS
  <2> QED
    BY <2>1, <2>2, <2>3 DEF Uploads
<1>10. /\ d \in Desks /\ d.out = desk.out /\ d.upload = u /\ d.session = desk.session
       /\ d.pending = desk.pending /\ Len(d.out) <= OutLimit /\ net \in Nets
  <2>1. desk \in Desks /\ Len(desk.out) <= OutLimit /\ net \in Nets
    BY <1>1 DEF DeskOK, NetOK
  <2> QED
    BY <2>1, <1>4, <1>7, <1>9 DEF Desks
<1>11. a \in Requests
  <2>1. 1 \in DOMAIN Sizes[u.job] /\ 1 \in Nat /\ 0 \in Nat
    BY <1>7, <1>9, JobFacts
  <2>2. <<>> \in Seq(Nat)
    OBVIOUS
  <2> QED
    BY <2>1, <2>2, <1>5, <1>7, <1>9 DEF FileOffer, RequestOf, Requests, Kinds
<1>12. PICK rs : rs = <<a>> /\ rs \in Seq(Requests) /\ Len(rs) = 1 /\ ToSet(rs) = {a}
  BY <1>11, AskOne
<1>13. PICK o, up :
          /\ p.d = [d EXCEPT !.out = o] /\ p.n = [net EXCEPT !.up = up]
          /\ Len(o) <= Len(d.out) + 1
          /\ Posting(d.session, d.out, net.up, o, up, {a})
  <2>1. p = Posted(d, net, rs)
    BY <1>6, <1>12
  <2>2. PICK o, up :
          /\ p.d = [d EXCEPT !.out = o] /\ p.n = [net EXCEPT !.up = up]
          /\ Len(o) <= Len(d.out) + Len(rs)
          /\ Posting(d.session, d.out, net.up, o, up, ToSet(rs))
    BY <2>1, <1>10, <1>12, PostedFacts
  <2> QED
    BY <2>2, <1>12
<1>14. /\ desk'.session = desk.session /\ desk'.pending = desk.pending /\ desk'.out = o
       /\ desk'.upload \in {u, NoUpload}
  <2>1. CASE p.all
    BY <2>1, <1>7, <1>10, <1>13 DEF Desks
  <2>2. CASE ~p.all
    BY <2>2, <1>7, <1>10, <1>13 DEF Desks
  <2> QED
    BY <2>1, <2>2
<1>15. net'.up = up /\ net'.down = net.down
  BY <1>7, <1>10, <1>13 DEF Nets
<1>16. Posting(desk.session, desk.out, net.up, o, up, {a}) /\ Len(o) <= Len(desk.out) + 1
  BY <1>10, <1>13
<1> QED
  BY <1>2, <1>3, <1>5, <1>7, <1>8, <1>14, <1>15, <1>16 DEF Sends

\* The upload is given up, with every place it has.
Cancels(as, o, up) ==
    /\ \A a \in as : /\ a.kind = "abort" /\ a.job = desk.upload.job
                     /\ \E i \in DOMAIN desk.upload.ids : a.ids = <<desk.upload.ids[i]>>
    /\ desk'.session = desk.session /\ desk'.pending = desk.pending /\ desk'.out = o
    /\ desk'.upload = NoUpload
    /\ net'.up = up /\ net'.down = net.down
    /\ Posting(desk.session, desk.out, net.up, o, up, as)

LEMMA CancelSendShape ==
    ASSUME Sound, CancelSend
    PROVE  \E as, o, up : Cancels(as, o, up)
<1>1. /\ DeskOK(desk, phone.fresh, Opened) /\ NetOK(net, phone.fresh, Opened) /\ Opened \in Nat
  BY SoundParts
<1>2. PICK d : d = [desk EXCEPT !.upload = NoUpload, !.sending = 0]
  OBVIOUS
<1>3. PICK rs : rs = [i \in DOMAIN desk.upload.ids |-> FileAbort(desk.upload, desk.upload.ids[i])]
  OBVIOUS
<1>4. PICK p : p = Posted(d, net, rs)
  OBVIOUS
<1>5. desk' = p.d /\ net' = p.n
  BY <1>2, <1>3, <1>4 DEF CancelSend
<1>6. rs \in Seq(Requests)
  BY <1>1, <1>3, AbortsOK
<1>7. \A a \in ToSet(rs) :
          /\ a.kind = "abort" /\ a.job = desk.upload.job
          /\ \E i \in DOMAIN desk.upload.ids : a.ids = <<desk.upload.ids[i]>>
  <2> SUFFICES ASSUME NEW i \in DOMAIN rs
               PROVE  /\ rs[i].kind = "abort" /\ rs[i].job = desk.upload.job
                      /\ \E k \in DOMAIN desk.upload.ids : rs[i].ids = <<desk.upload.ids[k]>>
    BY DEF ToSet
  <2>1. i \in DOMAIN desk.upload.ids /\ rs[i] = FileAbort(desk.upload, desk.upload.ids[i])
    BY <1>3
  <2> QED
    BY <2>1 DEF FileAbort, RequestOf
<1>8. /\ d \in Desks /\ d.out = desk.out /\ d.upload = NoUpload /\ d.session = desk.session
      /\ d.pending = desk.pending /\ Len(d.out) <= OutLimit /\ net \in Nets
  <2>1. desk \in Desks /\ Len(desk.out) <= OutLimit /\ net \in Nets
    BY <1>1 DEF DeskOK, NetOK
  <2> QED
    BY <2>1, <1>2, NoUploadOK DEF Desks
<1>9. PICK o, up :
         /\ p.d = [d EXCEPT !.out = o] /\ p.n = [net EXCEPT !.up = up]
         /\ Posting(d.session, d.out, net.up, o, up, ToSet(rs))
  BY <1>4, <1>6, <1>8, PostedFacts
<1>10. /\ desk'.session = desk.session /\ desk'.pending = desk.pending /\ desk'.out = o
       /\ desk'.upload = NoUpload /\ net'.up = up /\ net'.down = net.down
  BY <1>5, <1>8, <1>9 DEF Desks, Nets
<1>11. Posting(desk.session, desk.out, net.up, o, up, ToSet(rs))
  BY <1>8, <1>9
<1> QED
  BY <1>7, <1>10, <1>11 DEF Cancels

\* The desktop is told of its new session, and asks the three questions.
Links(f, as, o, up) ==
    /\ desk.pending = f.s /\ desk'.session = f.s /\ desk'.pending = 0 /\ desk'.out = o
    /\ desk'.upload = desk.upload
    /\ \A a \in as : \E kind \in Plains : a = Plain(kind)
    /\ net'.up = up /\ net'.down = Tail(net.down)
    /\ Posting(f.s, <<>>, net.up, o, up, as)

\* ... or of one that it no longer asks for.
Mislinks ==
    /\ desk' = [desk EXCEPT !.pending = 0]
    /\ net'.up = net.up /\ net'.down = Tail(net.down)

LEMMA HearReplyShape ==
    ASSUME Sound, net.down # <<>>, NEW f, f = Head(net.down), HearReply(f)
    PROVE  Mislinks \/ \E as, o, up : Links(f, as, o, up)
<1>1. /\ DeskOK(desk, phone.fresh, Opened) /\ NetOK(net, phone.fresh, Opened) /\ Opened \in Nat
  BY SoundParts
<1>2. desk \in Desks /\ Len(desk.out) <= OutLimit /\ net \in Nets
  BY <1>1 DEF DeskOK, NetOK
<1>3. CASE desk.pending # f.s
  BY <1>2, <1>3 DEF HearReply, Mislinks, Nets
<1>4. CASE desk.pending = f.s
  <2>1. PICK d : d = [desk EXCEPT !.session = desk.pending, !.pending = 0, !.out = <<>>, !.hello = TRUE]
    OBVIOUS
  <2>2. PICK rs : rs = Questions(desk.upload)
    OBVIOUS
  <2>3. PICK p : p = Posted(d, net, rs)
    OBVIOUS
  <2>4. Linked(desk, net) = p
    BY <2>1, <2>2, <2>3 DEF Linked, Questions
  <2>5. desk' = p.d /\ net' = [p.n EXCEPT !.down = Tail(@)]
    BY <1>4, <2>4 DEF HearReply
  <2>6. rs \in Seq(Requests)
    BY <1>1, <2>2, QuestionsOK
  <2>7. \A a \in ToSet(rs) : \E kind \in Plains : a = Plain(kind)
    <3>1. PICK b : b = IF desk.upload = NoUpload THEN <<>> ELSE <<Plain("staged")>>
      OBVIOUS
    <3>2. PICK x, y, z : x = Plain("hello") /\ y = Plain("chats") /\ z = Plain("staged")
      OBVIOUS
    <3>3. rs = <<x, y>> \o b /\ b \in {<<>>, <<z>>}
      BY <2>2, <3>1, <3>2 DEF Questions
    <3>4. \A i \in DOMAIN rs : rs[i] \in {x, y, z}
      BY <3>3
    <3>5. {"hello", "chats", "staged"} \subseteq Plains
      BY DEF Plains
    <3> QED
      BY <3>2, <3>4, <3>5 DEF ToSet
  <2>8. /\ d \in Desks /\ d.out = <<>> /\ d.upload = desk.upload /\ d.session = desk.pending
        /\ d.pending = 0 /\ Len(d.out) <= OutLimit
    BY <1>2, <2>1, Empties DEF Desks
  <2>9. PICK o, up :
           /\ p.d = [d EXCEPT !.out = o] /\ p.n = [net EXCEPT !.up = up]
           /\ Posting(d.session, d.out, net.up, o, up, ToSet(rs))
    BY <2>3, <2>6, <2>8, <1>2, PostedFacts
  <2>10. /\ desk'.session = f.s /\ desk'.pending = 0 /\ desk'.out = o
         /\ desk'.upload = desk.upload /\ net'.up = up /\ net'.down = Tail(net.down)
    BY <1>2, <1>4, <2>5, <2>8, <2>9 DEF Desks, Nets
  <2>11. Posting(f.s, <<>>, net.up, o, up, ToSet(rs))
    BY <1>4, <2>8, <2>9
  <2> QED
    BY <1>4, <2>7, <2>10, <2>11 DEF Links
<1> QED
  BY <1>3, <1>4

\* The question at is struck out of the table.
StrikesOut(f, at, r) ==
    /\ f \in Answers /\ WellAsked(f.ask, phone.fresh, Opened) /\ WellAnswered(f, phone.fresh)
    /\ at \in DOMAIN desk.out /\ desk.out[at] = f.ask
    /\ r \in Seq(Requests) /\ Struck(desk.out, r, at)

\* The upload goes on to v and asks for rs.
Moves(f, at, r, v, rs, o, up) ==
    /\ StrikesOut(f, at, r)
    /\ f.ans \in {"offer", "staged"} \/ (f.ans = "done" /\ f.ask.kind = "put")
    /\ desk.upload # NoUpload /\ (f.ans = "staged" => desk.upload.stalled)
    /\ Reaction(desk.upload, f) = Step(v, rs)
    /\ rs \in Seq(Requests) /\ Len(rs) <= 1
    /\ Underway(v, phone.fresh, Opened) /\ v.job = desk.upload.job
    /\ \A a \in ToSet(rs) : OfUploadOK(a, v, phone.fresh, Opened)
    /\ desk'.session = desk.session /\ desk'.pending = desk.pending /\ desk'.out = o
    /\ desk'.upload \in {v, NoUpload}
    /\ Len(o) <= Len(r) + 1
    /\ net'.up = up /\ net'.down = Tail(net.down)
    /\ Posting(desk.session, r, net.up, o, up, ToSet(rs))
    /\ mixed' = IF f.ask.job \in {0, desk.upload.job} THEN mixed ELSE mixed \cup {desk.upload.job}
    /\ UNCHANGED <<told, unheard>>

LEMMA HearProgressShape ==
    ASSUME Sound, NEW f, Heard(f), HearProgress(f)
    PROVE  \E at, r, v, rs, o, up : Moves(f, at, r, v, rs, o, up)
<1>1. /\ DeskOK(desk, phone.fresh, Opened) /\ NetOK(net, phone.fresh, Opened)
      /\ Opened \in Nat /\ phone.fresh \in Nat
  BY SoundParts
<1>2. PICK d : d = Answered(desk, f)
  OBVIOUS
<1>3. PICK n : n = [net EXCEPT !.down = Tail(@)]
  OBVIOUS
<1>4. PICK step : step = Reaction(d.upload, f)
  OBVIOUS
<1>5. PICK p : p = Taken(d, n, step)
  OBVIOUS
<1>6. /\ f.ans \in {"offer", "staged"} \/ (f.ans = "done" /\ f.ask.kind = "put")
      /\ d.upload # NoUpload /\ (f.ans = "staged" => d.upload.stalled)
      /\ desk' = p.d /\ net' = p.n
      /\ mixed' = IF f.ask.job \in {0, d.upload.job} THEN mixed ELSE mixed \cup {d.upload.job}
      /\ UNCHANGED <<told, unheard, deaf>>
  BY <1>2, <1>3, <1>4, <1>5 DEF HearProgress
<1>7. /\ f \in Answers /\ WellAsked(f.ask, phone.fresh, Opened) /\ WellAnswered(f, phone.fresh)
      /\ NetOK(n, phone.fresh, Opened)
      /\ DeskOK(d, phone.fresh, Opened) /\ d.upload = desk.upload
  BY <1>2, <1>3, <1>6, HeardFacts
<1>8. desk \in Desks /\ net \in Nets /\ n \in Nets /\ d \in Desks /\ Len(d.out) <= OutLimit
  BY <1>1, <1>7 DEF DeskOK, NetOK
<1>9. PICK at, r, x, g : AnsweredTo(desk, f.ask, d, at, r, x, g)
  BY <1>2, <1>8, AnsweredFacts DEF Heard
<1>10. /\ d.session = desk.session /\ d.pending = desk.pending /\ d.out = r
       /\ StrikesOut(f, at, r)
  BY <1>7, <1>8, <1>9 DEF AnsweredTo, StrikesOut, Desks
<1>11. Forward(d.upload, step, phone.fresh, Opened)
  <2>1. PICK new, top : new = phone.fresh /\ top = Opened
    OBVIOUS
  <2>2. Forward(d.upload, Reaction(d.upload, f), new, top)
    BY <1>1, <1>6, <1>7, <2>1, ReactionForward
  <2> QED
    BY <1>4, <2>1, <2>2
<1>12. PICK v, rs :
         /\ step = Step(v, rs) /\ rs \in Seq(Requests) /\ Len(rs) <= 1
         /\ Underway(v, phone.fresh, Opened) /\ v.job = d.upload.job
         /\ \A a \in ToSet(rs) : OfUploadOK(a, v, phone.fresh, Opened)
  BY <1>11 DEF Forward
<1>13. PICK o, up, w : TakenTo(d, n, p, v, rs, o, up, w)
  <2>1. v \in Uploads
    BY <1>12 DEF Underway
  <2> QED
    BY <2>1, <1>5, <1>8, <1>12, TakenFacts
<1>14. /\ desk'.session = desk.session /\ desk'.pending = desk.pending /\ desk'.out = o
       /\ desk'.upload \in {v, NoUpload}
  BY <1>6, <1>8, <1>10, <1>13 DEF TakenTo, Desks
<1>15. n.up = net.up /\ n.down = Tail(net.down)
  BY <1>3, <1>8 DEF Nets
<1>16. net'.up = up /\ net'.down = Tail(net.down)
  BY <1>6, <1>8, <1>13, <1>15 DEF TakenTo, Nets
<1>17. Posting(desk.session, r, net.up, o, up, ToSet(rs)) /\ Len(o) <= Len(r) + 1
  BY <1>10, <1>13, <1>15 DEF TakenTo
<1>18. Reaction(desk.upload, f) = Step(v, rs)
  BY <1>4, <1>7, <1>12
<1>19. \E at2, r2, v2, rs2, o2, up2 : Moves(f, at2, r2, v2, rs2, o2, up2)
  <2>1. Moves(f, at, r, v, rs, o, up)
    BY <1>6, <1>7, <1>10, <1>12, <1>14, <1>16, <1>17, <1>18 DEF Moves
  <2> QED
    BY <2>1
<1> QED
  BY <1>19

\* The question is answered, and nothing more is asked.
Settles(f, at, r) ==
    /\ StrikesOut(f, at, r)
    /\ desk'.session = desk.session /\ desk'.pending = desk.pending /\ desk'.out = r
    /\ desk'.upload \in {desk.upload, NoUpload}
    /\ net'.up = net.up /\ net'.down = Tail(net.down)

LEMMA HearEndShape ==
    ASSUME Sound, NEW f, Heard(f), HearEnd(f)
    PROVE  desk'.upload = NoUpload /\ \E at, r : Settles(f, at, r)
<1>1. DeskOK(desk, phone.fresh, Opened) /\ NetOK(net, phone.fresh, Opened)
  BY SoundParts
<1>2. PICK d : d = Answered(desk, f)
  OBVIOUS
<1>3. desk' = Closed(d) /\ net' = [net EXCEPT !.down = Tail(@)]
  BY <1>2 DEF HearEnd
<1>4. /\ f \in Answers /\ WellAsked(f.ask, phone.fresh, Opened) /\ WellAnswered(f, phone.fresh)
      /\ DeskOK(d, phone.fresh, Opened)
  BY <1>2, HeardFacts
<1>5. desk \in Desks /\ net \in Nets /\ d \in Desks
  BY <1>1, <1>4 DEF DeskOK, NetOK
<1>6. PICK at, r, x, g : AnsweredTo(desk, f.ask, d, at, r, x, g)
  BY <1>2, <1>5, AnsweredFacts DEF Heard
<1>7. /\ d.session = desk.session /\ d.pending = desk.pending /\ d.out = r
      /\ StrikesOut(f, at, r)
  BY <1>4, <1>5, <1>6 DEF AnsweredTo, StrikesOut, Desks
<1>8. /\ desk'.session = desk.session /\ desk'.pending = desk.pending /\ desk'.out = r
      /\ desk'.upload = NoUpload
  BY <1>3, <1>5, <1>7 DEF Closed, Desks
<1>9. net'.up = net.up /\ net'.down = Tail(net.down)
  BY <1>3, <1>5 DEF Nets
<1> QED
  BY <1>7, <1>8, <1>9 DEF Settles

LEMMA HearOtherShape ==
    ASSUME Sound, NEW f, Heard(f), HearOther(f)
    PROVE  /\ desk'.upload # desk.upload => desk.upload.stalled
           /\ \E at, r : Settles(f, at, r)
<1>1. DeskOK(desk, phone.fresh, Opened) /\ NetOK(net, phone.fresh, Opened)
  BY SoundParts
<1>2. PICK d : d = Answered(desk, f)
  OBVIOUS
<1>3. desk' = d /\ net' = [net EXCEPT !.down = Tail(@)]
  BY <1>2 DEF HearOther
<1>4. /\ f \in Answers /\ WellAsked(f.ask, phone.fresh, Opened) /\ WellAnswered(f, phone.fresh)
      /\ DeskOK(d, phone.fresh, Opened)
  BY <1>2, HeardFacts
<1>5. desk \in Desks /\ net \in Nets /\ d \in Desks
  BY <1>1, <1>4 DEF DeskOK, NetOK
<1>6. PICK at, r, x, g : AnsweredTo(desk, f.ask, d, at, r, x, g)
  BY <1>2, <1>5, AnsweredFacts DEF Heard
<1>7. /\ d.session = desk.session /\ d.pending = desk.pending /\ d.out = r /\ d.upload = x
      /\ x \in {desk.upload, NoUpload} /\ (x # desk.upload => desk.upload.stalled)
      /\ StrikesOut(f, at, r)
  BY <1>4, <1>5, <1>6 DEF AnsweredTo, StrikesOut, Desks
<1>8. net'.up = net.up /\ net'.down = Tail(net.down)
  BY <1>3, <1>5 DEF Nets
<1> QED
  BY <1>3, <1>7, <1>8 DEF Settles

\* What a step of an upload names is in N.
InOnly(ids, N) == \A i \in DOMAIN ids : ids[i] \in N
NamesOnly(step, N) ==
    \E v, rs : step = Step(v, rs) /\ InOnly(v.ids, N) /\ \A a \in ToSet(rs) : InOnly(a.ids, N)

LEMMA NeedChunkNames ==
    ASSUME NEW u \in Uploads, u.at >= 1, NEW N, InOnly(u.ids, N), NEW which, NEW n
    PROVE  NamesOnly(NeedChunk(u, which, n), N)
<1>1. PICK a : a = FilePut(u, which, n)
  OBVIOUS
<1>2. PICK rs : rs = IF /\ ~u.stalled /\ n = u.next
                        /\ u.at <= Len(u.ids) /\ which <= Len(Sizes[u.job])
                     THEN <<a>> ELSE <<>>
  OBVIOUS
<1>3. NeedChunk(u, which, n) = Step(u, rs)
  BY <1>1, <1>2 DEF NeedChunk
<1>4. ASSUME NEW b \in ToSet(rs)
      PROVE  InOnly(b.ids, N)
  <2>1. ToSet(<<>>) = {} /\ ToSet(<<a>>) = {a}
    BY DEF ToSet
  <2>2. b = a /\ u.at <= Len(u.ids)
    BY <2>1, <1>2, <1>4
  <2>3. u.at \in DOMAIN u.ids
    BY <2>2 DEF Uploads
  <2>4. b.ids = <<u.ids[u.at]>>
    BY <2>2, <1>1 DEF FilePut, RequestOf
  <2> QED
    BY <2>3, <2>4 DEF InOnly
<1> QED
  BY <1>3, <1>4 DEF NamesOnly

LEMMA AdvancedNames ==
    ASSUME NEW u \in Uploads, NEW N, InOnly(u.ids, N)
    PROVE  NamesOnly(Advanced(u), N)
<1>1. PICK v : v = [u EXCEPT !.at = @ + 1]
  OBVIOUS
<1>2. PICK a : a = IF v.at <= Len(Sizes[u.job]) THEN FileOffer(v, v.at) ELSE FileSend(v)
  OBVIOUS
<1>3. Advanced(u) = Step(v, <<a>>)
  BY <1>1, <1>2 DEF Advanced
<1>4. v.ids = u.ids
  BY <1>1 DEF Uploads
<1>5. a.ids \in {<<>>, v.ids}
  BY <1>2 DEF FileOffer, FileSend, RequestOf
<1>6. ToSet(<<a>>) = {a} /\ InOnly(v.ids, N) /\ InOnly(a.ids, N)
  BY <1>4, <1>5 DEF ToSet, InOnly
<1> QED
  BY <1>3, <1>6 DEF NamesOnly

LEMMA ReactionNames ==
    ASSUME NEW u \in Uploads, u.job \in Jobs, u.at >= 1, NEW N \in SUBSET Nat, InOnly(u.ids, N),
           NEW f \in Answers, f.ans = "offer" => f.id \in N,
           f.ans \in {"offer", "done", "staged"}
    PROVE  NamesOnly(Reaction(u, f), N)
<1>1. CASE f.ans = "offer"
  <2>1. PICK v : v = [u EXCEPT !.ids = Append(@, f.id), !.total = f.total, !.next = 0]
    OBVIOUS
  <2>2. u.ids \in Seq(Nat) /\ f.id \in Nat /\ f.total \in Nat
    BY DEF Uploads, Answers
  <2>3. v.ids = Append(u.ids, f.id) /\ v.at = u.at
    BY <2>1 DEF Uploads
  <2>4. v.ids \in Seq(Nat) /\ InOnly(v.ids, N)
    BY <2>2, <2>3, <1>1, OneMore DEF InOnly
  <2>5. v \in Uploads /\ v.at >= 1
    BY <2>1, <2>2, <2>3, <2>4 DEF Uploads
  <2>6. Reaction(u, f) = IF f.total = 0 THEN Advanced(v) ELSE NeedChunk(v, v.at, 0)
    BY <1>1, <2>1 DEF Reaction, Placed
  <2> QED
    BY <2>4, <2>5, <2>6, AdvancedNames, NeedChunkNames
<1>2. CASE f.ans = "done"
  <2>1. PICK v : v = [u EXCEPT !.next = @ + 1]
    OBVIOUS
  <2>2. v \in Uploads /\ v.ids = u.ids /\ v.at = u.at
    BY <2>1 DEF Uploads
  <2>3. Reaction(u, f) = IF v.next < v.total THEN NeedChunk(v, v.at, v.next) ELSE Advanced(v)
    BY <1>2, <2>1 DEF Reaction, Laid
  <2> QED
    BY <2>2, <2>3, AdvancedNames, NeedChunkNames
<1>3. CASE f.ans = "staged"
  <2>1. PICK files : files = f.files
    OBVIOUS
  <2>2. Reaction(u, f) = Resumed(u, files)
    BY <1>3, <2>1 DEF Reaction
  <2>3. Rewound(u, files, Resumed(u, files))
    BY ResumedCases
  <2>4. ASSUME NEW v, v = [u EXCEPT !.stalled = FALSE, !.at = Len(Sizes[u.job])]
        PROVE  NamesOnly(Advanced(v), N)
    <3>1. v \in Uploads /\ v.ids = u.ids
      BY <2>4, JobFacts DEF Uploads
    <3> QED
      BY <3>1, AdvancedNames
  <2>5. ASSUME NEW at \in UndoneOf(u, files), \A k \in UndoneOf(u, files) : at <= k, NEW v,
               v = [u EXCEPT !.stalled = FALSE, !.at = at, !.ids = SubSeq(@, 1, at - 1)]
        PROVE  NamesOnly(Step(v, <<FileOffer(v, at)>>), N)
    <3>1. at \in Nat /\ at - 1 \in 0..Len(u.ids)
      BY <2>5, RewoundFar
    <3>2. u.ids \in Seq(Nat) /\ v.ids = SubSeq(u.ids, 1, at - 1)
      BY <2>5 DEF Uploads
    <3>3. PICK k : k = at - 1
      OBVIOUS
    <3>4. InOnly(v.ids, N)
      BY <3>1, <3>2, <3>3, PrefixFacts DEF InOnly
    <3>5. PICK a : a = FileOffer(v, at)
      OBVIOUS
    <3>6. ToSet(<<a>>) = {a} /\ InOnly(a.ids, N)
      BY <3>5 DEF ToSet, InOnly, FileOffer, RequestOf
    <3> QED
      BY <3>4, <3>5, <3>6 DEF NamesOnly
  <2>6. ASSUME NEW at \in UndoneOf(u, files), \A k \in UndoneOf(u, files) : at <= k,
               NEW x \in LeftOf(u, files, at), NEW v,
               v = [u EXCEPT !.stalled = FALSE, !.at = at, !.next = Lowest(x.missing), !.total = x.total]
        PROVE  NamesOnly(NeedChunk(v, v.at, v.next), N)
    <3>1. at \in Nat /\ at >= 1
      BY <2>6, RewoundFar
    <3>2. x.missing # {} /\ x \in files
      BY DEF UndoneOf, LeftOf
    <3>3. x.total \in Nat /\ x.missing \in SUBSET Nat
      BY <3>2, <2>1 DEF Answers
    <3>4. Lowest(x.missing) \in Nat
      BY <3>2, <3>3, LowestFacts
    <3>5. v \in Uploads /\ v.at >= 1 /\ v.ids = u.ids
      BY <2>6, <3>1, <3>3, <3>4 DEF Uploads
    <3> QED
      BY <3>5, NeedChunkNames
  <2>7. PICK step : step = Resumed(u, files)
    OBVIOUS
  <2>8. CASE /\ UndoneOf(u, files) = {}
             /\ step = Advanced([u EXCEPT !.stalled = FALSE, !.at = Len(Sizes[u.job])])
    BY <2>8, <2>4, <2>7, <2>2
  <2>9. CASE ~(/\ UndoneOf(u, files) = {}
               /\ step = Advanced([u EXCEPT !.stalled = FALSE, !.at = Len(Sizes[u.job])]))
    <3>1. NamesOnly(step, N)
      <4>1. PICK at \in UndoneOf(u, files) :
               /\ \A k \in UndoneOf(u, files) : at <= k
               /\ \/ \E v : /\ v = [u EXCEPT !.stalled = FALSE, !.at = at, !.ids = SubSeq(@, 1, at - 1)]
                            /\ step = Step(v, <<FileOffer(v, at)>>)
                  \/ \E x \in LeftOf(u, files, at) : \E v :
                        /\ v = [u EXCEPT !.stalled = FALSE, !.at = at, !.next = Lowest(x.missing),
                                         !.total = x.total]
                        /\ step = NeedChunk(v, v.at, v.next)
        BY <2>9, <2>3, <2>7 DEF Rewound
      <4>2. CASE \E v : /\ v = [u EXCEPT !.stalled = FALSE, !.at = at, !.ids = SubSeq(@, 1, at - 1)]
                        /\ step = Step(v, <<FileOffer(v, at)>>)
        BY <4>1, <4>2, <2>5
      <4>3. CASE \E x \in LeftOf(u, files, at) : \E v :
                    /\ v = [u EXCEPT !.stalled = FALSE, !.at = at, !.next = Lowest(x.missing),
                                     !.total = x.total]
                    /\ step = NeedChunk(v, v.at, v.next)
        <5>1. PICK x \in LeftOf(u, files, at) : \E v :
                    /\ v = [u EXCEPT !.stalled = FALSE, !.at = at, !.next = Lowest(x.missing),
                                     !.total = x.total]
                    /\ step = NeedChunk(v, v.at, v.next)
          BY <4>3
        <5>2. PICK v :
                    /\ v = [u EXCEPT !.stalled = FALSE, !.at = at, !.next = Lowest(x.missing),
                                     !.total = x.total]
                    /\ step = NeedChunk(v, v.at, v.next)
          BY <5>1
        <5>3. NamesOnly(NeedChunk(v, v.at, v.next), N)
          BY <4>1, <5>2, <2>6
        <5> QED
          BY <5>2, <5>3
      <4> QED
        BY <4>1, <4>2, <4>3
    <3> QED
      BY <3>1, <2>2, <2>7
  <2> QED
    BY <2>8, <2>9
<1> QED
  BY <1>1, <1>2, <1>3

-----------------------------------------------------------------------------
(* The desktop keeps the order.                                            *)

\* What is posted flows up, in a session.
LEMMA PostedFlow ==
    ASSUME NEW s, NEW out, NEW up \in Seq(UpFrames), NEW o, NEW u, NEW as,
           Posting(s, out, up, o, u, as)
    PROVE  \E F : Flow(up, u, F) /\ Carries(F, s, as) /\ (s = 0 => F = {})
<1>1. CASE s = 0
  <2>1. u = up
    BY <1>1 DEF Posting
  <2>2. Flow(up, u, {}) /\ Carries({}, s, as)
    BY <2>1, FlowSame DEF Carries
  <2> QED
    BY <2>2
<1>2. CASE s # 0
  <2>1. u \in Seq(UpFrames) /\ Grown(up, u, FramesOf(s, as))
    BY DEF Posting
  <2>2. Flow(up, u, FramesOf(s, as))
    BY <2>1, FlowGrown
  <2> QED
    BY <2>2, <1>2, FramesCarry
<1> QED
  BY <1>1, <1>2

\* The pieces of Sound and Orderly, for the desktop.
LEMMA DeskPieces ==
    ASSUME Sound, Orderly
    PROVE  /\ desk \in Desks /\ net \in Nets /\ net.up \in Seq(UpFrames) /\ net.down \in Seq(Notes \cup Answers)
           /\ phone.staged \in SUBSET Places /\ phone.fresh \in Nat /\ Opened \in Nat
           /\ tries \in Nat /\ desk.session \in Nat /\ desk.pending \in Nat
           /\ desk.session <= tries /\ desk.pending <= tries
           /\ desk.session = 0 => desk.out = <<>>
           /\ desk.session # 0 => desk.pending = 0
           /\ \A i \in DOMAIN net.down : net.down[i].s <= tries
           /\ Ends(phone.sessions, tries)
           /\ NotLater(desk.upload.ids, desk.upload.job, phone.staged)
<1>1. /\ DeskOK(desk, phone.fresh, Opened) /\ PhoneOK(phone) /\ NetOK(net, phone.fresh, Opened)
      /\ BooksOK /\ Opened \in Nat /\ phone.fresh \in Nat
  BY SoundParts
<1>2. desk \in Desks /\ phone \in Phones /\ net \in Nets
  BY <1>1 DEF DeskOK, PhoneOK, NetOK
<1>3. MaxTries \in Nat /\ tries \in Nat
  BY <1>1, CompanionAssumption DEF BooksOK
<1>4. desk.session \in Nat /\ desk.pending \in Nat
  BY <1>2, <1>3 DEF Desks
<1>5. net.up \in Seq(UpFrames) /\ net.down \in Seq(Notes \cup Answers) /\ phone.staged \in SUBSET Places
  BY <1>2 DEF Nets, Phones
<1> QED
  BY <1>1, <1>2, <1>3, <1>4, <1>5 DEF Orderly, Dated, Behind, Ends

LEMMA DeskOrderly ==
    ASSUME Sound, Sound', Orderly, phone' = phone, tries <= tries',
           Onwards(desk, desk', tries, tries'), tries' \in Nat,
           NEW F, Flow(net.up, net'.up, F), Begun(F, desk', tries'), Newest(F, Opened'),
           Naming(F, phone.staged), Flow(net.down, net'.down, {}),
           NotLater(desk'.upload.ids, desk'.upload.job, phone.staged)
    PROVE  Orderly'
<1>1. Ends(phone.sessions, tries') /\ Apart(phone.staged)
  <2>1. Ends(phone.sessions, tries) /\ tries \in Nat /\ phone \in Phones
    BY DeskPieces DEF Sound, PhoneOK
  <2>2. \A i \in DOMAIN phone.sessions : phone.sessions[i] \in Nat
    BY <2>1, CompanionAssumption DEF Phones
  <2> QED
    BY <2>1, <2>2 DEF Ends, Orderly
<1>2. Later(phone.staged, phone.fresh, phone'.staged)
  BY LaterSame
<1>3. Truly({}, phone'.staged)
  BY NoFrames
<1>4. \A f \in {} : f.s <= tries'
  OBVIOUS
<1> QED
  BY <1>1, <1>2, <1>3, <1>4, OrderlyFrom

LEMMA NothingNamed ==
    ASSUME NEW S, NEW j
    PROVE  NotLater(<<>>, j, S) /\ NoUpload.ids = <<>> /\ NotLater(NoUpload.ids, j, S)
BY DEF NotLater, NoUpload

\* Frames of the session, once the desktop is e.
LEMMA CarriedBegun ==
    ASSUME NEW F, NEW s, NEW as, Carries(F, s, as), s = 0 => F = {}, NEW e, e.session = s,
           NEW n, Onwards(desk, e, tries, n)
    PROVE  Begun(F, e, n)
BY DEF Carries, Begun, Onwards

LEMMA SendFilesOrderly ==
    ASSUME Sound, Sound', Orderly, SendFiles
    PROVE  Orderly'
<1>1. PICK j, u, a, o, up : Sends(j, u, a, o, up)
  BY SendFilesShape
<1>2. phone' = phone /\ tries' = tries
  BY DEF SendFiles
<1>3. PICK F : Flow(net.up, up, F) /\ Carries(F, desk.session, {a}) /\ (desk.session = 0 => F = {})
  BY <1>1, PostedFlow, DeskPieces DEF Sends
<1>4. Onwards(desk, desk', tries, tries')
  BY <1>1, <1>2, DeskPieces DEF Onwards, Sends, Posting
<1>5. Begun(F, desk', tries')
  BY <1>1, <1>2, <1>3, <1>4, CarriedBegun DEF Sends
<1>6. a.ids = <<>> /\ a.job = j /\ u.ids = <<>>
  BY <1>1 DEF Sends, FileOffer, RequestOf, NoUpload
<1>7. Newest(F, Opened') /\ Naming(F, phone.staged)
  BY <1>1, <1>3, <1>6, NothingNamed DEF Carries, Newest, Naming, Sends
<1>8. NotLater(desk'.upload.ids, desk'.upload.job, phone.staged)
  BY <1>1, <1>6, NothingNamed DEF Sends
<1>9. Flow(net.up, net'.up, F) /\ Flow(net.down, net'.down, {})
  BY <1>1, <1>3, DeskPieces, FlowSame DEF Sends
<1> QED
  BY <1>2, <1>4, <1>5, <1>7, <1>8, <1>9, DeskPieces, DeskOrderly

LEMMA CancelSendOrderly ==
    ASSUME Sound, Sound', Orderly, CancelSend
    PROVE  Orderly'
<1>1. PICK as, o, up : Cancels(as, o, up)
  BY CancelSendShape
<1>2. phone' = phone /\ tries' = tries
  BY DEF CancelSend
<1>3. PICK F : Flow(net.up, up, F) /\ Carries(F, desk.session, as) /\ (desk.session = 0 => F = {})
  BY <1>1, PostedFlow, DeskPieces DEF Cancels
<1>4. Onwards(desk, desk', tries, tries')
  BY <1>1, <1>2, DeskPieces DEF Onwards, Cancels, Posting
<1>5. Begun(F, desk', tries')
  BY <1>1, <1>2, <1>3, <1>4, CarriedBegun DEF Cancels
<1>6. \A a \in as : a.job \in {0, Opened} /\ NotLater(a.ids, a.job, phone.staged)
  <2> SUFFICES ASSUME NEW a \in as
               PROVE  a.job \in {0, Opened} /\ NotLater(a.ids, a.job, phone.staged)
    OBVIOUS
  <2>1. a.job = desk.upload.job /\ \E i \in DOMAIN desk.upload.ids : a.ids = <<desk.upload.ids[i]>>
    BY <1>1 DEF Cancels
  <2>2. desk.upload.job \in {0, Opened}
    BY SoundParts DEF DeskOK, WellUp
  <2>3. NotLater(desk.upload.ids, desk.upload.job, phone.staged)
    BY DeskPieces
  <2> QED
    BY <2>1, <2>2, <2>3 DEF NotLater
<1>7. Opened' = Opened
  <2>1. Told(desk, "cancelled") /\ "cancelled" \in Fates \ {"none"}
    BY DEF CancelSend, Fates
  <2>2. OpenedInOrder /\ told \in [Jobs -> Fates] /\ DeskOK(desk, phone.fresh, Opened)
    BY SoundParts DEF BooksOK
  <2> QED
    BY <2>1, <2>2, ToldOf
<1>8. Newest(F, Opened') /\ Naming(F, phone.staged)
  BY <1>3, <1>6, <1>7 DEF Carries, Newest, Naming
<1>9. NotLater(desk'.upload.ids, desk'.upload.job, phone.staged)
  BY <1>1, NothingNamed DEF Cancels
<1>10. Flow(net.up, net'.up, F) /\ Flow(net.down, net'.down, {})
  BY <1>1, <1>3, DeskPieces, FlowSame DEF Cancels
<1> QED
  BY <1>2, <1>4, <1>5, <1>8, <1>9, <1>10, DeskPieces, DeskOrderly

LEMMA PlainFacts ==
    ASSUME NEW kind, NEW S
    PROVE  Plain(kind).job = 0 /\ Plain(kind).ids = <<>> /\ Plain(kind).kind = kind
           /\ NotLater(Plain(kind).ids, Plain(kind).job, S)
BY DEF Plain, RequestOf, NotLater

LEMMA ReachOrderly ==
    ASSUME Sound, Sound', Orderly, NEW again, Reach(again)
    PROVE  Orderly'
<1>1. PICK f : f = [type |-> "hello", s |-> tries', ask |-> Plain("none")]
  OBVIOUS
<1>2. /\ tries' = tries + 1 /\ desk.session = 0
      /\ desk' = [desk EXCEPT !.pending = tries']
      /\ net' = [net EXCEPT !.up = Append(@, f)]
      /\ UNCHANGED <<phone, messages, told, history>>
  BY <1>1 DEF Reach
<1>3. tries \in Nat /\ tries' \in Nat /\ tries < tries' /\ desk \in Desks /\ net \in Nets
  BY <1>2, DeskPieces
<1>4. /\ desk'.session = 0 /\ desk'.pending = tries' /\ desk'.out = desk.out /\ desk'.upload = desk.upload
      /\ net'.up = Append(net.up, f) /\ net'.down = net.down
  BY <1>2, <1>3 DEF Desks, Nets
<1>5. f \in UpFrames
  <2>1. tries' \in 1..MaxTries
    BY <1>2, <1>3, CompanionAssumption DEF Sound, BooksOK
  <2>2. Plain("none") \in Requests
    BY PlainOK DEF Plains
  <2> QED
    BY <2>1, <2>2, <1>1 DEF UpFrames
<1>6. Flow(net.up, net'.up, {f}) /\ Flow(net.down, net'.down, {})
  <2>1. PICK q : q = net.up
    OBVIOUS
  <2>2. q \in Seq(UpFrames)
    BY <2>1, DeskPieces
  <2>3. Append(q, f) \in Seq(UpFrames) /\ Grown(q, Append(q, f), {f})
    BY <2>2, <1>5, OneMore, GrownOne
  <2>4. Flow(q, Append(q, f), {f})
    BY <2>2, <2>3, FlowGrown
  <2> QED
    BY <2>1, <2>4, <1>4, DeskPieces, FlowSame
<1>7. Begun({f}, desk', tries') /\ Newest({f}, Opened') /\ Naming({f}, phone.staged)
  BY <1>1, <1>3, PlainFacts DEF Begun, Newest, Naming
<1>8. Onwards(desk, desk', tries, tries')
  BY <1>2, <1>3, <1>4, DeskPieces DEF Onwards
<1>9. NotLater(desk'.upload.ids, desk'.upload.job, phone.staged)
  BY <1>4, DeskPieces
<1> QED
  BY <1>2, <1>3, <1>6, <1>7, <1>8, <1>9, DeskOrderly

\* The head of what goes down is heard.
LEMMA DownFlows ==
    ASSUME Sound, Orderly, net.down # <<>>, net'.down = Tail(net.down)
    PROVE  /\ Flow(net.down, net'.down, {})
           /\ Head(net.down) \in Notes \cup Answers
           /\ Head(net.down).s <= tries /\ Head(net.down).s \in Nat /\ Head(net.down).s >= 1
<1>1. net.down \in Seq(Notes \cup Answers)
  BY DeskPieces
<1>2. Head(net.down) \in Notes \cup Answers /\ Head(net.down) = net.down[1] /\ 1 \in DOMAIN net.down
  BY <1>1, TailFacts
<1>3. Head(net.down).s \in 1..MaxTries /\ MaxTries \in Nat
  BY <1>2, CompanionAssumption DEF Notes, Answers
<1>4. Flow(net.down, Tail(net.down), {})
  BY <1>1, FlowTail
<1> QED
  BY <1>2, <1>3, <1>4, DeskPieces

LEMMA HearReplyOrderly ==
    ASSUME Sound, Sound', Orderly, net.down # <<>>, NEW f, f = Head(net.down), HearReply(f),
           UNCHANGED <<phone, messages, tries, accidents>>
    PROVE  Orderly'
<1>1. Mislinks \/ \E as, o, up : Links(f, as, o, up)
  BY HearReplyShape
<1>2. net'.down = Tail(net.down)
  BY <1>1 DEF Mislinks, Links
<1>3. /\ Flow(net.down, net'.down, {}) /\ f.s <= tries /\ f.s \in Nat /\ f.s >= 1
      /\ desk \in Desks /\ tries \in Nat /\ net.up \in Seq(UpFrames)
  BY <1>2, DownFlows, DeskPieces
<1>4. CASE Mislinks
  <2>1. /\ desk'.session = desk.session /\ desk'.pending = 0 /\ desk'.out = desk.out
        /\ desk'.upload = desk.upload /\ net'.up = net.up
    BY <1>4, <1>3 DEF Mislinks, Desks
  <2>2. Onwards(desk, desk', tries, tries')
    BY <2>1, <1>3, DeskPieces DEF Onwards
  <2>3. Flow(net.up, net'.up, {})
    BY <2>1, <1>3, FlowSame
  <2>4. NotLater(desk'.upload.ids, desk'.upload.job, phone.staged)
    BY <2>1, DeskPieces
  <2> QED
    BY <2>2, <2>3, <2>4, <1>3, NoFrames, DeskOrderly
<1>5. CASE \E as, o, up : Links(f, as, o, up)
  <2>1. PICK as, o, up : Links(f, as, o, up)
    BY <1>5
  <2>2. /\ desk'.session = f.s /\ desk'.pending = 0 /\ desk'.upload = desk.upload /\ net'.up = up
        /\ Posting(f.s, <<>>, net.up, o, up, as)
        /\ \A a \in as : \E kind \in Plains : a = Plain(kind)
    BY <2>1 DEF Links
  <2>3. PICK F : Flow(net.up, up, F) /\ Carries(F, f.s, as) /\ (f.s = 0 => F = {})
    BY <2>2, <1>3, PostedFlow
  <2>4. Onwards(desk, desk', tries, tries')
    BY <2>2, <1>3 DEF Onwards
  <2>5. Begun(F, desk', tries')
    BY <2>2, <2>3, <2>4, CarriedBegun
  <2>6. \A a \in as : a.job = 0 /\ NotLater(a.ids, a.job, phone.staged)
    BY <2>2, PlainFacts
  <2>7. Newest(F, Opened') /\ Naming(F, phone.staged)
    BY <2>3, <2>6 DEF Carries, Newest, Naming
  <2> QED
    BY <2>2, <2>3, <2>4, <2>5, <2>7, <1>3, DeskPieces, DeskOrderly
<1> QED
  BY <1>1, <1>4, <1>5

LEMMA HearRevokedOrderly ==
    ASSUME Sound, Sound', Orderly, net.down # <<>>, NEW f, f = Head(net.down), HearRevoked(f),
           UNCHANGED <<phone, messages, tries, accidents>>
    PROVE  Orderly'
<1>1. desk' = Revoked(desk) /\ net' = [net EXCEPT !.down = Tail(@)]
  BY DEF HearRevoked
<1>2. desk \in Desks /\ net \in Nets /\ tries \in Nat /\ net.up \in Seq(UpFrames)
  BY DeskPieces
<1>3. /\ desk'.session = 0 /\ desk'.pending = 0 /\ desk'.out = <<>> /\ desk'.upload = NoUpload
      /\ net'.up = net.up /\ net'.down = Tail(net.down)
  BY <1>1, <1>2 DEF Revoked, Desks, Nets
<1>4. Onwards(desk, desk', tries, tries')
  BY <1>2, <1>3 DEF Onwards
<1>5. Flow(net.up, net'.up, {}) /\ Flow(net.down, net'.down, {})
  BY <1>2, <1>3, FlowSame, DownFlows
<1> QED
  BY <1>2, <1>3, <1>4, <1>5, NoFrames, NothingNamed, DeskOrderly

LEMMA HearNothingOrderly ==
    ASSUME Sound, Sound', Orderly, net.down # <<>>, NEW f, f = Head(net.down), HearNothing(f),
           UNCHANGED <<phone, messages, tries, accidents>>
    PROVE  Orderly'
<1>1. net' = [net EXCEPT !.down = Tail(@)] /\ desk' = desk
  BY DEF HearNothing
<1>2. desk \in Desks /\ net \in Nets /\ tries \in Nat /\ net.up \in Seq(UpFrames)
  BY DeskPieces
<1>3. net'.up = net.up /\ net'.down = Tail(net.down)
  BY <1>1, <1>2 DEF Nets
<1>4. Onwards(desk, desk', tries, tries')
  BY <1>1, <1>2, DeskPieces DEF Onwards
<1>5. Flow(net.up, net'.up, {}) /\ Flow(net.down, net'.down, {})
  BY <1>2, <1>3, FlowSame, DownFlows
<1>6. NotLater(desk'.upload.ids, desk'.upload.job, phone.staged)
  BY <1>1, DeskPieces
<1> QED
  BY <1>2, <1>4, <1>5, <1>6, NoFrames, DeskOrderly

\* A question struck out.
LEMMA SettlesOrderly ==
    ASSUME Sound, Sound', Orderly, net.down # <<>>, NEW f, f = Head(net.down), NEW at, NEW r,
           Settles(f, at, r), UNCHANGED <<phone, messages, tries, accidents>>
    PROVE  Orderly'
<1>1. desk \in Desks /\ tries \in Nat /\ net.up \in Seq(UpFrames)
  BY DeskPieces
<1>2. /\ desk'.session = desk.session /\ desk'.pending = desk.pending /\ desk'.out = r
      /\ desk'.upload \in {desk.upload, NoUpload}
      /\ net'.up = net.up /\ net'.down = Tail(net.down)
      /\ at \in DOMAIN desk.out
  BY DEF Settles, StrikesOut
<1>3. desk.session # 0
  <2>1. DOMAIN <<>> = {}
    OBVIOUS
  <2> QED
    BY <2>1, <1>2, DeskPieces
<1>4. Onwards(desk, desk', tries, tries')
  BY <1>1, <1>2, <1>3, DeskPieces DEF Onwards
<1>5. Flow(net.up, net'.up, {}) /\ Flow(net.down, net'.down, {})
  BY <1>1, <1>2, FlowSame, DownFlows
<1>6. NotLater(desk'.upload.ids, desk'.upload.job, phone.staged)
  BY <1>2, DeskPieces, NothingNamed
<1> QED
  BY <1>1, <1>4, <1>5, <1>6, NoFrames, DeskOrderly

LEMMA StepParts ==
    ASSUME NEW v, NEW rs, NEW w, NEW qs, Step(v, rs) = Step(w, qs)
    PROVE  v = w /\ rs = qs
BY DEF Step

\* An upload that moves on names what its answer gives it.
LEMMA MovesNames ==
    ASSUME Sound, Orderly, NEW f, f \in ToSet(net.down), f.type = "answer",
           NEW at, NEW r, NEW v, NEW rs, NEW o, NEW up, Moves(f, at, r, v, rs, o, up)
    PROVE  /\ NotLater(v.ids, v.job, phone.staged)
           /\ \A a \in ToSet(rs) : a.job = v.job /\ NotLater(a.ids, a.job, phone.staged)
<1>1. PICK u : u = desk.upload
  OBVIOUS
<1>2. Underway(u, phone.fresh, Opened) /\ u.job = Opened
  BY <1>1, SoundParts, UnderwayOf DEF Moves
<1>3. PICK N : N = {k \in Nat : \A g \in phone.staged : g.id = k => g.job <= u.job}
  OBVIOUS
<1>4. InOnly(u.ids, N)
  <2>1. u.ids \in Seq(Nat)
    BY <1>2 DEF Underway, Uploads
  <2>2. NotLater(u.ids, u.job, phone.staged)
    BY <1>1, DeskPieces
  <2>3. \A i \in DOMAIN u.ids : u.ids[i] \in Nat
    BY <2>1
  <2> QED
    BY <1>3, <2>2, <2>3 DEF InOnly, NotLater
<1>5. f.ans = "offer" => f.id \in N
  <2> SUFFICES ASSUME f.ans = "offer"
               PROVE  f.id \in N
    OBVIOUS
  <2>1. True(f, phone.staged)
    BY DEF Orderly, TrueDown, ToSet
  <2>2. f \in Answers /\ f.ask.job <= Opened
    BY DEF Moves, StrikesOut, WellAsked
  <2>3. f.id \in Nat
    BY <2>2 DEF Answers
  <2>4. \A g \in phone.staged : g.id = f.id => g.job = f.ask.job
    BY <2>1 DEF True
  <2> QED
    BY <2>2, <2>3, <2>4, <1>2, <1>3
<1>6. NamesOnly(Reaction(u, f), N)
  <2>1. u \in Uploads /\ u.job \in Jobs /\ u.at >= 1
    BY <1>2 DEF Underway
  <2>2. f \in Answers /\ f.ans \in {"offer", "done", "staged"} /\ N \in SUBSET Nat
    BY <1>3 DEF Moves, StrikesOut
  <2> QED
    BY <2>1, <2>2, <1>4, <1>5, ReactionNames
<1>7. InOnly(v.ids, N) /\ \A a \in ToSet(rs) : InOnly(a.ids, N)
  <2>1. Reaction(u, f) = Step(v, rs)
    BY <1>1 DEF Moves
  <2>2. PICK w, qs : /\ Step(v, rs) = Step(w, qs) /\ InOnly(w.ids, N)
                     /\ \A a \in ToSet(qs) : InOnly(a.ids, N)
    BY <2>1, <1>6 DEF NamesOnly
  <2>3. v = w /\ rs = qs
    BY <2>2, StepParts
  <2> QED
    BY <2>2, <2>3
<1>8. v.job = u.job /\ \A a \in ToSet(rs) : a.job = v.job
  BY <1>1 DEF Moves, OfUploadOK
<1>9. ASSUME NEW ids, InOnly(ids, N)
      PROVE  NotLater(ids, u.job, phone.staged)
  BY <1>3, <1>9 DEF InOnly, NotLater
<1> QED
  BY <1>7, <1>8, <1>9

LEMMA MovesOrderly ==
    ASSUME Sound, Sound', Orderly, net.down # <<>>, NEW f, f = Head(net.down), f.type = "answer",
           NEW at, NEW r, NEW v, NEW rs, NEW o, NEW up, Moves(f, at, r, v, rs, o, up),
           UNCHANGED <<phone, messages, tries, accidents>>
    PROVE  Orderly'
<1>1. desk \in Desks /\ tries \in Nat /\ net.up \in Seq(UpFrames) /\ net.down \in Seq(Notes \cup Answers)
  BY DeskPieces
<1>2. /\ desk'.session = desk.session /\ desk'.pending = desk.pending /\ desk'.out = o
      /\ desk'.upload \in {v, NoUpload} /\ v.job = desk.upload.job /\ desk.upload # NoUpload
      /\ net'.up = up /\ net'.down = Tail(net.down)
      /\ at \in DOMAIN desk.out /\ told' = told
      /\ Posting(desk.session, r, net.up, o, up, ToSet(rs))
  BY DEF Moves, StrikesOut
<1>3. desk.session # 0
  <2>1. DOMAIN <<>> = {}
    OBVIOUS
  <2> QED
    BY <2>1, <1>2, DeskPieces
<1>4. Onwards(desk, desk', tries, tries')
  BY <1>1, <1>2, <1>3, DeskPieces DEF Onwards
<1>5. PICK F : Flow(net.up, up, F) /\ Carries(F, desk.session, ToSet(rs)) /\ (desk.session = 0 => F = {})
  BY <1>1, <1>2, PostedFlow
<1>6. Begun(F, desk', tries')
  BY <1>2, <1>4, <1>5, CarriedBegun
<1>7. f \in ToSet(net.down)
  BY <1>1, TailFacts DEF ToSet
<1>8. /\ NotLater(v.ids, v.job, phone.staged)
      /\ \A a \in ToSet(rs) : a.job = v.job /\ NotLater(a.ids, a.job, phone.staged)
  BY <1>7, MovesNames
<1>9. v.job = Opened' /\ Opened' = Opened
  <2>1. desk.upload.job = Opened
    BY <1>2, SoundParts, UploadJob
  <2>2. Opened' = Opened
    BY <1>2, SoundParts, ToldSame DEF BooksOK
  <2> QED
    BY <2>1, <2>2, <1>2
<1>10. Newest(F, Opened') /\ Naming(F, phone.staged)
  BY <1>5, <1>8, <1>9 DEF Carries, Newest, Naming
<1>11. NotLater(desk'.upload.ids, desk'.upload.job, phone.staged)
  BY <1>2, <1>8, NothingNamed
<1>12. Flow(net.up, net'.up, F) /\ Flow(net.down, net'.down, {})
  BY <1>2, <1>5, DownFlows
<1> QED
  BY <1>1, <1>4, <1>6, <1>10, <1>11, <1>12, DeskOrderly

LEMMA DeskHearsOrderly ==
    ASSUME Sound, Sound', Orderly, DeskHears
    PROVE  Orderly'
<1>1. PICK f : f = Head(net.down)
  OBVIOUS
<1>2. /\ net.down # <<>> /\ UNCHANGED <<phone, messages, tries, accidents>>
      /\ \/ HearReply(f) \/ HearRevoked(f) \/ HearNothing(f)
         \/ /\ f.type = "answer" /\ f.s = desk.session /\ f.ask \in ToSet(desk.out)
            /\ HearProgress(f) \/ HearEnd(f) \/ HearOther(f)
  BY <1>1 DEF DeskHears
<1>3. CASE HearReply(f)
  BY <1>1, <1>2, <1>3, HearReplyOrderly
<1>4. CASE HearRevoked(f)
  BY <1>1, <1>2, <1>4, HearRevokedOrderly
<1>5. CASE HearNothing(f)
  BY <1>1, <1>2, <1>5, HearNothingOrderly
<1>6. CASE /\ f.type = "answer" /\ f.s = desk.session /\ f.ask \in ToSet(desk.out)
           /\ HearProgress(f) \/ HearEnd(f) \/ HearOther(f)
  <2>1. Heard(f)
    BY <1>1, <1>2, <1>6 DEF Heard
  <2>2. CASE HearProgress(f)
    <3>1. PICK at, r, v, rs, o, up : Moves(f, at, r, v, rs, o, up)
      BY <2>1, <2>2, HearProgressShape
    <3> QED
      BY <3>1, <1>1, <1>2, <1>6, MovesOrderly
  <2>3. CASE HearEnd(f) \/ HearOther(f)
    <3>1. PICK at, r : Settles(f, at, r)
      BY <2>1, <2>3, HearEndShape, HearOtherShape
    <3> QED
      BY <3>1, <1>1, <1>2, SettlesOrderly
  <2> QED
    BY <2>2, <2>3, <1>6
<1> QED
  BY <1>2, <1>3, <1>4, <1>5, <1>6

-----------------------------------------------------------------------------
(* The phone keeps the order.                                              *)

\* The frame f leaves the phone's places apart, and is answered by the truth.
Truthful(p, f, r) ==
    Later(p.staged, p.fresh, r.p.staged) /\ Apart(r.p.staged) /\ True(r.ans, r.p.staged)

\* The offer f is given the place g.
Gives(p, f, r, g) ==
    /\ g = [id |-> p.fresh, job |-> f.ask.job, pos |-> f.ask.which, have |-> {}, alien |-> FALSE]
    /\ r.p.staged = p.staged \cup {g} /\ r.sent = <<>>
    /\ r.ans.ans = "offer" /\ r.ans.id = p.fresh /\ r.ans.total = Sizes[f.ask.job][f.ask.which]
    /\ r.ans.ask = f.ask /\ r.ans.files = {}

\* Nothing becomes of f but an answer.
Shrugs(p, f, r) ==
    /\ r.p.staged = p.staged /\ r.sent = <<>> /\ r.ans.ask = f.ask /\ r.ans.files = {}
    /\ \/ r.ans.ans = "refused"
       \/ r.ans.ans = "done" /\ f.ask.kind \notin {"offer", "put", "send", "staged"}

\* Some places go without a word.
Drops(p, f, r) ==
    /\ r.p.staged = {g \in p.staged : g.id \notin ToSet(f.ask.ids)}
    /\ r.sent = <<>> /\ r.ans.ask = f.ask /\ r.ans.files = {} /\ r.ans.ans = "done"

\* What is there is told.
Tells(p, f, r) ==
    /\ r.p.staged = p.staged /\ r.sent = <<>> /\ r.ans.ask = f.ask /\ r.ans.ans = "staged"
    /\ r.ans.files = TellOf(p)

\* A chunk is put, or is not.
Puts(p, f, r) ==
    /\ r.p.staged = PutAll(p.staged, f.ask) /\ r.sent = <<>> /\ r.ans.ask = f.ask /\ r.ans.files = {}
    /\ \/ r.ans.ans = "refused"
       \/ r.ans.ans = "done" /\ \E g \in p.staged : Fits(g, f.ask)

\* A message is made.
Makes(p, f, r) ==
    /\ Whole(p, f.ask.ids)
    /\ r.p.staged = {g \in p.staged : g.id \notin ToSet(f.ask.ids)}
    /\ r.ans.ask = f.ask /\ r.ans.files = {} /\ r.ans.ans = "done"
    /\ r.sent = <<[text |-> f.ask.job, files |-> Taking(p, f.ask.ids)]>>

LEMMA OfferShape ==
    ASSUME NEW p, PhoneOK(p), NEW f, NEW r, r = OnUploadOffer(p, f)
    PROVE  Shrugs(p, f, r) \/ \E g : Gives(p, f, r, g)
<1>1. p \in Phones
  BY PhoneShape
<1>2. CASE Cardinality(p.staged) >= MaxUploads
  BY <1>2 DEF OnUploadOffer, Shrugs, Answer
<1>3. CASE ~(Cardinality(p.staged) >= MaxUploads)
  <2>1. PICK g : g = [id |-> p.fresh, job |-> f.ask.job, pos |-> f.ask.which, have |-> {}, alien |-> FALSE]
    OBVIOUS
  <2>2. PICK total : total = Sizes[f.ask.job][f.ask.which]
    OBVIOUS
  <2>3. PICK S : S = p.staged \cup {g}
    OBVIOUS
  <2>4. /\ r.p = [p EXCEPT !.fresh = @ + 1, !.staged = S] /\ r.sent = <<>>
        /\ r.ans = [Answer(f, "offer") EXCEPT !.id = p.fresh, !.total = total]
    BY <1>3, <2>1, <2>2, <2>3, <1>1 DEF OnUploadOffer, Phones
  <2>5. r.p.staged = S
    BY <2>4, <1>1 DEF Phones
  <2>6. /\ r.ans.ans = "offer" /\ r.ans.id = p.fresh /\ r.ans.total = total
        /\ r.ans.ask = f.ask /\ r.ans.files = {}
    BY <2>4 DEF Answer
  <2>7. Gives(p, f, r, g)
    BY <2>1, <2>2, <2>3, <2>4, <2>5, <2>6 DEF Gives
  <2> QED
    BY <2>7
<1> QED
  BY <1>2, <1>3

LEMMA ServeShape ==
    ASSUME NEW p, PhoneOK(p), NEW f, NEW r, r = Serve(p, f)
    PROVE  \/ Shrugs(p, f, r)
           \/ f.ask.kind = "offer" /\ \E g : Gives(p, f, r, g)
           \/ f.ask.kind = "put" /\ Puts(p, f, r)
           \/ f.ask.kind = "send" /\ Makes(p, f, r)
           \/ f.ask.kind = "abort" /\ Drops(p, f, r)
           \/ f.ask.kind = "staged" /\ Tells(p, f, r)
<1>1. p \in Phones
  BY PhoneShape
<1>2. CASE f.ask.kind = "offer"
  BY <1>2, OfferShape DEF Serve
<1>3. CASE f.ask.kind = "put"
  <2>1. PutTo(p, f, r)
    BY <1>3, PutShape DEF Serve
  <2>2. r.p.staged = PutAll(p.staged, f.ask)
    BY <2>1, <1>1 DEF PutTo, Phones
  <2>3. /\ r.ans.ask = f.ask /\ r.ans.files = {}
        /\ r.ans.ans = "refused" \/ (r.ans.ans = "done" /\ \E g \in p.staged : Fits(g, f.ask))
    BY <2>1 DEF PutTo, Answer
  <2> QED
    BY <1>3, <2>1, <2>2, <2>3 DEF Puts, PutTo
<1>4. CASE f.ask.kind = "send"
  <2>1. IF Whole(p, f.ask.ids) THEN MadeOf(p, f, r) ELSE TurnedAway(p, f, r)
    BY <1>4, SendShape DEF Serve
  <2>2. CASE Whole(p, f.ask.ids)
    <3>1. r.p.staged = {g \in p.staged : g.id \notin ToSet(f.ask.ids)}
      <4>1. PICK ids : ids = f.ask.ids
        OBVIOUS
      <4>2. r.p = Emptied(p, ids)
        BY <2>1, <2>2, <4>1 DEF MadeOf
      <4>3. r.p.staged = {g \in p.staged : g.id \notin ToSet(ids)}
        BY <4>2, EmptiedOK
      <4> QED
        BY <4>1, <4>3
    <3>2. r.ans.ask = f.ask /\ r.ans.files = {} /\ r.ans.ans = "done"
      BY <2>1, <2>2 DEF MadeOf, Answer
    <3> QED
      BY <3>1, <3>2, <2>1, <2>2, <1>4 DEF Makes, MadeOf
  <2>3. CASE ~Whole(p, f.ask.ids)
    BY <2>1, <2>3 DEF TurnedAway, Answer, Shrugs
  <2> QED
    BY <2>2, <2>3
<1>5. CASE f.ask.kind = "abort"
  <2>1. PICK ids : ids = f.ask.ids
    OBVIOUS
  <2>2. r.p = Emptied(p, ids) /\ r.ans = Answer(f, "done") /\ r.sent = <<>>
    BY <1>5, <2>1 DEF Serve, OnUploadAbort
  <2>3. r.p.staged = {g \in p.staged : g.id \notin ToSet(ids)}
    BY <2>2, EmptiedOK
  <2> QED
    BY <1>5, <2>1, <2>2, <2>3 DEF Drops, Answer
<1>6. CASE f.ask.kind = "staged"
  <2>1. PICK T : T = TellOf(p)
    OBVIOUS
  <2>2. r.p = p /\ r.sent = <<>> /\ r.ans = [Answer(f, "staged") EXCEPT !.files = T]
    BY <1>6, <2>1 DEF Serve, OnStaged, TellOf
  <2> QED
    BY <1>6, <2>1, <2>2 DEF Tells, Answer
<1>7. CASE f.ask.kind \notin {"offer", "put", "send", "abort", "staged"}
  BY <1>7 DEF Serve, Shrugs, Answer
<1> QED
  BY <1>2, <1>3, <1>4, <1>5, <1>6, <1>7

LEMMA ServesTruth ==
    ASSUME NEW p, PhoneOK(p), Apart(p.staged), NEW f \in UpFrames, NEW new, NEW top,
           WellAsked(f.ask, new, top), NEW r, r = Serve(p, f)
    PROVE  Truthful(p, f, r)
<1>1. /\ p.fresh \in Nat /\ p.staged \in SUBSET Places
      /\ \A g \in p.staged : g.id < p.fresh /\ g.id \in Nat
  BY PhoneShape
<1>2. Later(p.staged, p.fresh, p.staged)
  BY LaterSame
<1>3. CASE Shrugs(p, f, r)
  BY <1>2, <1>3 DEF Shrugs, Truthful, True
<1>4. CASE f.ask.kind = "offer" /\ \E g : Gives(p, f, r, g)
  <2>1. PICK g : Gives(p, f, r, g)
    BY <1>4
  <2>2. r.p.staged = p.staged \cup {g} /\ g.id = p.fresh /\ g.job = f.ask.job /\ g.pos = f.ask.which
    BY <2>1 DEF Gives
  <2>3. Later(p.staged, p.fresh, r.p.staged)
    BY <2>2, <1>1 DEF Later, Grew
  <2>4. Apart(r.p.staged)
    BY <2>2, <1>1 DEF Apart
  <2>5. \A h \in r.p.staged : h.id = p.fresh => h = g
    BY <2>2, <1>1
  <2>6. True(r.ans, r.p.staged)
    BY <2>1, <2>2, <2>5 DEF True, Gives
  <2> QED
    BY <2>3, <2>4, <2>6 DEF Truthful
<1>5. CASE f.ask.kind = "put" /\ Puts(p, f, r)
  <2>1. PICK a : a = f.ask
    OBVIOUS
  <2>2. a \in Requests
    BY <2>1 DEF UpFrames
  <2>3. r.p.staged = {PutIn(g, a) : g \in p.staged}
    BY <1>5, <2>1 DEF Puts, PutAll
  <2>4. \A g \in p.staged : Grew(g, PutIn(g, a)) /\ PutIn(g, a).id = g.id
    BY <1>1, <2>2, PutInOK DEF Grew
  <2>5. Later(p.staged, p.fresh, r.p.staged)
    BY <2>3, <2>4 DEF Later
  <2>6. Apart(r.p.staged)
    <3> SUFFICES ASSUME NEW g \in p.staged, NEW h \in p.staged, PutIn(g, a).id = PutIn(h, a).id
                 PROVE  PutIn(g, a) = PutIn(h, a)
      BY <2>3 DEF Apart
    <3>1. g = h
      BY <2>4 DEF Apart
    <3> QED
      BY <3>1
  <2>7. True(r.ans, r.p.staged)
    <3>1. CASE r.ans.ans = "refused"
      BY <1>5, <3>1 DEF Puts, True
    <3>2. CASE r.ans.ans # "refused"
      <4>1. PICK g \in p.staged : Fits(g, a)
        BY <1>5, <2>1, <3>2 DEF Puts
      <4>2. \A h \in r.p.staged : h.id = a.ids[1] => a.n \in h.have
        <5> SUFFICES ASSUME NEW h \in p.staged, PutIn(h, a).id = a.ids[1]
                     PROVE  a.n \in PutIn(h, a).have
          BY <2>3
        <5>1. h.id = g.id
          BY <2>4, <4>1 DEF Fits
        <5>2. h = g
          BY <5>1 DEF Apart
        <5>3. PutIn(h, a) = [h EXCEPT !.have = @ \cup {a.n},
                                      !.alien = @ \/ <<a.job, a.which>> # <<h.job, h.pos>>]
          BY <5>2, <4>1 DEF PutIn
        <5>4. h \in Places
          BY <1>1
        <5> QED
          BY <5>3, <5>4 DEF Places
      <4> QED
        BY <4>2, <1>5, <2>1 DEF Puts, True
    <3> QED
      BY <3>1, <3>2
  <2> QED
    BY <2>5, <2>6, <2>7 DEF Truthful
<1>6. CASE f.ask.kind = "send" /\ Makes(p, f, r)
  <2>1. r.p.staged \subseteq p.staged /\ r.ans.ans = "done" /\ r.ans.ask = f.ask /\ r.ans.files = {}
    BY <1>6 DEF Makes
  <2>2. Later(p.staged, p.fresh, r.p.staged)
    BY <2>1, LaterSame
  <2> QED
    BY <1>6, <2>1, <2>2 DEF Truthful, Apart, True
<1>7. CASE f.ask.kind = "abort" /\ Drops(p, f, r)
  <2>1. r.p.staged \subseteq p.staged /\ r.ans.ans = "done" /\ r.ans.ask = f.ask /\ r.ans.files = {}
    BY <1>7 DEF Drops
  <2>2. Later(p.staged, p.fresh, r.p.staged)
    BY <2>1, LaterSame
  <2> QED
    BY <1>7, <2>1, <2>2 DEF Truthful, Apart, True
<1>8. CASE f.ask.kind = "staged" /\ Tells(p, f, r)
  <2>1. \A x \in r.ans.files : \A g \in p.staged : g.id = x.id => Missing(g) \subseteq x.missing /\ x.total = Total(g)
    <3> SUFFICES ASSUME NEW h \in p.staged, NEW g \in p.staged, g.id = h.id
                 PROVE  g = h
      BY <1>8 DEF Tells, TellOf
    <3> QED
      BY DEF Apart
  <2>2. True(r.ans, p.staged)
    BY <2>1, <1>8 DEF Tells, True
  <2> QED
    BY <2>2, <1>2, <1>8 DEF Truthful, Tells
<1> QED
  BY <1>3, <1>4, <1>5, <1>6, <1>7, <1>8, ServeShape

-----------------------------------------------------------------------------
(* A step of the phone keeps the order.                                    *)

LEMMA PhoneOrderly ==
    ASSUME Sound, Sound', Orderly, desk' = desk, tries' = tries,
           Later(phone.staged, phone.fresh, phone'.staged), Apart(phone'.staged),
           Ends(phone'.sessions, tries),
           Flow(net.up, net'.up, {}),
           NEW G, Flow(net.down, net'.down, G), \A f \in G : f.s <= tries, Truly(G, phone'.staged)
    PROVE  Orderly'
<1>1. Onwards(desk, desk', tries, tries')
  BY DeskPieces DEF Onwards
<1>2. NotLater(desk'.upload.ids, desk'.upload.job, phone'.staged)
  <2>1. \A i \in DOMAIN desk.upload.ids : desk.upload.ids[i] < phone.fresh
    BY DEF Sound, DeskOK, WellUp
  <2>2. phone'.staged \in SUBSET Places
    BY DEF Sound, PhoneOK, Phones
  <2>3. NotLater(desk.upload.ids, desk.upload.job, phone'.staged)
    BY <2>1, <2>2, DeskPieces, NotLaterLater
  <2> QED
    BY <2>3
<1>3. Begun({}, desk', tries') /\ Newest({}, Opened') /\ Naming({}, phone'.staged)
  BY NoFrames
<1>4. tries <= tries'
  BY DeskPieces
<1>5. Ends(phone'.sessions, tries') /\ \A f \in G : f.s <= tries'
  OBVIOUS
<1> QED
  BY <1>1, <1>2, <1>3, <1>4, <1>5, OrderlyFrom

LEMMA UpTails ==
    ASSUME Sound, net.up # <<>>, net'.up = Tail(net.up)
    PROVE  Flow(net.up, net'.up, {})
<1>1. net.up \in Seq(UpFrames)
  BY DEF Sound, NetOK, Nets
<1> QED
  BY <1>1, FlowTail

LEMMA ServesOrderly ==
    ASSUME Sound, Sound', Orderly, NEW f, NEW r, NEW a, Serves(f, r, a),
           UNCHANGED <<desk, told, tries, accidents, history>>
    PROVE  Orderly'
<1>1. /\ net.up # <<>> /\ phone' = r.p /\ f.s \in ToSet(phone.sessions)
      /\ r = Serve(Reached, f)
      /\ net' = [net EXCEPT !.up = Tail(@), !.down = Append(@, a)]
  BY DEF Serves
<1>2. /\ f \in UpFrames /\ WellAsked(f.ask, phone.fresh, Opened) /\ ServedOK(Reached, f, r)
      /\ a \in Answers /\ a.s = Last(phone.sessions) /\ a.ask = f.ask
      /\ a.ans = r.ans.ans /\ a.id = r.ans.id /\ a.total = r.ans.total /\ a.files = r.ans.files
  BY ServesFacts
<1>3. /\ PhoneOK(Reached) /\ Reached.staged = phone.staged /\ Reached.fresh = phone.fresh
      /\ Reached.sessions = phone.sessions
  BY ReachedOK
<1>4. PICK p : p = Reached
  OBVIOUS
<1>5. Truthful(p, f, r)
  BY <1>1, <1>2, <1>3, <1>4, ServesTruth DEF Orderly
<1>6. Later(phone.staged, phone.fresh, phone'.staged) /\ Apart(phone'.staged)
  BY <1>1, <1>3, <1>4, <1>5 DEF Truthful
<1>7. True(a, phone'.staged)
  <2>1. True(r.ans, phone'.staged) /\ r.ans.ask = f.ask
    BY <1>1, <1>2, <1>5 DEF Truthful, ServedOK, AnswerOK
  <2> QED
    BY <2>1, <1>2 DEF True
<1>8. net'.up = Tail(net.up) /\ net'.down = Append(net.down, a)
  BY <1>1, DeskPieces DEF Nets
<1>9. Flow(net.down, net'.down, {a})
  <2>1. PICK q : q = net.down
    OBVIOUS
  <2>2. q \in Seq(Notes \cup Answers) /\ a \in Notes \cup Answers
    BY <2>1, <1>2, DeskPieces
  <2>3. Append(q, a) \in Seq(Notes \cup Answers) /\ Grown(q, Append(q, a), {a})
    BY <2>2, OneMore, GrownOne
  <2>4. Flow(q, Append(q, a), {a})
    BY <2>2, <2>3, FlowGrown
  <2> QED
    BY <2>1, <2>4, <1>8
<1>10. Ends(phone'.sessions, tries)
  BY <1>1, <1>2, <1>3, DeskPieces DEF ServedOK
<1>11. a.s <= tries
  <2>1. phone.sessions \in Seq(1..MaxTries)
    BY DEF Sound, PhoneOK, Phones
  <2>2. phone.sessions # <<>>
    BY <1>1 DEF ToSet
  <2>3. PICK ss : ss = phone.sessions
    OBVIOUS
  <2>4. Last(ss) = ss[Len(ss)] /\ Len(ss) \in DOMAIN ss
    BY <2>1, <2>2, <2>3, LastOf
  <2> QED
    BY <2>3, <2>4, <1>2, DeskPieces DEF Ends
<1>12. Flow(net.up, net'.up, {})
  BY <1>1, <1>8, UpTails
<1>13. Truly({a}, phone'.staged) /\ \A g \in {a} : g.s <= tries
  BY <1>7, <1>11 DEF Truly
<1> QED
  BY <1>6, <1>9, <1>10, <1>12, <1>13, PhoneOrderly

LEMMA NotesFlow ==
    ASSUME Sound, NEW as \in Seq(Notes), net'.down = net.down \o as
    PROVE  Flow(net.down, net'.down, ToSet(as))
<1>1. PICK q : q = net.down
  OBVIOUS
<1>2. q \in Seq(Notes \cup Answers) /\ as \in Seq(Notes \cup Answers)
  <2>1. as \in Seq(Notes \cup Answers)
    BY SeqMore
  <2> QED
    BY <2>1, <1>1 DEF Sound, NetOK, Nets
<1>3. PICK r : r = q \o as
  OBVIOUS
<1>4. r \in Seq(Notes \cup Answers) /\ Grown(q, r, ToSet(as))
  BY <1>2, <1>3, Joins
<1>5. Flow(q, r, ToSet(as))
  BY <1>2, <1>4, FlowGrown
<1> QED
  BY <1>1, <1>3, <1>5

\* A step in which no place is given and no answer: frames and places are lost,
\* the phone says a note, the desktop loses its link.
Fades ==
    /\ tries' = tries /\ UNCHANGED <<messages, told, mixed>>
    /\ phone'.staged \subseteq phone.staged /\ Ends(phone'.sessions, tries)
    /\ desk' = desk \/ (desk' = Lost(desk) /\ Unheard)
    /\ \A j \in Jobs : unheard[j] <= unheard'[j]
    /\ Flow(net.up, net'.up, {})
    /\ \E G : Flow(net.down, net'.down, G) /\ \A f \in G : f.s <= tries /\ f.type # "answer"

LEMMA UnheardMore ==
    ASSUME Sound, Unheard \/ unheard' = unheard
    PROVE  \A j \in Jobs : unheard[j] <= unheard'[j]
<1>1. unheard \in [Jobs -> Nat]
  BY DEF Sound, BooksOK
<1> QED
  BY <1>1 DEF Unheard

LEMMA AloneFacts ==
    ASSUME NEW X, NEW x \in X
    PROVE  <<x>> \in Seq(X) /\ ToSet(<<x>>) = {x}
BY DEF ToSet

LEMMA HelloFades ==
    ASSUME Sound, Orderly, net.up # <<>>, NEW f, f = Head(net.up), HearHello(f),
           UNCHANGED <<desk, told, tries, accidents, history>>
    PROVE  Fades
<1>1. /\ messages' = messages /\ desk' = desk /\ told' = told /\ mixed' = mixed /\ unheard' = unheard
      /\ tries' = tries
  BY DEF HearHello, history
<1>2. /\ net \in Nets /\ net.up \in Seq(UpFrames) /\ net.down \in Seq(Notes \cup Answers)
      /\ phone \in Phones /\ phone.sessions \in Seq(1..MaxTries)
  BY DeskPieces DEF Sound, PhoneOK, Phones
<1>3. f \in UpFrames /\ f.s \in 1..MaxTries /\ f.s <= tries
  <2>1. f \in UpFrames /\ f = net.up[1] /\ 1 \in DOMAIN net.up
    BY <1>2, TailFacts
  <2> QED
    BY <2>1 DEF UpFrames, Orderly, Dated
<1>4. \A j \in Jobs : unheard[j] <= unheard'[j]
  BY <1>1, UnheardMore
<1>5. PICK as : as = IF phone.paired THEN <<Note("reply", f.s)>> ELSE TellRevoked(f.s)
  OBVIOUS
<1>6. as \in Seq(Notes) /\ \A g \in ToSet(as) : g.s <= tries /\ g.type # "answer"
  <2>1. PICK x, y : x = Note("reply", f.s) /\ y = Note("tomb", f.s)
    OBVIOUS
  <2>2. as = <<x>> \/ as = <<y>> \/ as = <<>>
    <3>1. CASE phone.paired
      BY <3>1, <2>1, <1>5
    <3>2. CASE ~phone.paired
      <4>1. as = TellRevoked(f.s)
        BY <3>2, <1>5
      <4> QED
        BY <4>1, <2>1 DEF TellRevoked, Note
    <3> QED
      BY <3>1, <3>2
  <2>3. x \in Notes /\ y \in Notes
    BY <2>1, <1>3, NoteOK
  <2>4. x.s = f.s /\ y.s = f.s /\ x.type # "answer" /\ y.type # "answer"
    BY <2>1 DEF Note
  <2>5. CASE as = <<x>>
    BY <2>3, <2>4, <2>5, <1>3, AloneFacts
  <2>6. CASE as = <<y>>
    BY <2>3, <2>4, <2>6, <1>3, AloneFacts
  <2>7. CASE as = <<>>
    <3>1. <<>> \in Seq(Notes) /\ ToSet(<<>>) = {}
      BY DEF ToSet
    <3> QED
      BY <2>7, <3>1
  <2> QED
    BY <2>2, <2>5, <2>6, <2>7
<1>7. net'.up = Tail(net.up) /\ net'.down = net.down \o as
  <2>1. CASE phone.paired
    <3>1. net' = [net EXCEPT !.up = Tail(@), !.down = Append(@, Note("reply", f.s))]
      BY <2>1 DEF HearHello, Note
    <3>2. PICK x : x = Note("reply", f.s)
      OBVIOUS
    <3>3. x \in Notes \cup Answers
      BY <3>2, <1>3, NoteOK
    <3>4. Append(net.down, x) = net.down \o <<x>>
      <4>1. PICK q : q = net.down
        OBVIOUS
      <4>2. q \in Seq(Notes \cup Answers)
        BY <4>1, <1>2
      <4>3. Append(q, x) = q \o <<x>>
        BY <4>2, <3>3
      <4> QED
        BY <4>1, <4>3
    <3> QED
      BY <2>1, <3>1, <3>2, <3>4, <1>2, <1>5 DEF Nets
  <2>2. CASE ~phone.paired
    BY <2>2, <1>2, <1>5 DEF HearHello, Nets
  <2> QED
    BY <2>1, <2>2
<1>8. Flow(net.up, net'.up, {}) /\ Flow(net.down, net'.down, ToSet(as))
  BY <1>6, <1>7, UpTails, NotesFlow
<1>9. phone'.staged = phone.staged /\ Ends(phone'.sessions, tries)
  <2>1. CASE phone.paired
    <3>1. PICK ss : ss = Older(phone.sessions) \o <<f.s>>
      OBVIOUS
    <3>2. phone' = [phone EXCEPT !.link = TRUE, !.sessions = ss]
      BY <2>1, <3>1 DEF HearHello
    <3>3. phone'.staged = phone.staged /\ phone'.sessions = ss
      BY <3>2, <1>2 DEF Phones
    <3>4. PICK o : o = Older(phone.sessions)
      OBVIOUS
    <3>5. o \in Seq(1..MaxTries) /\ ToSet(o) \subseteq ToSet(phone.sessions)
      BY <3>4, <1>2, OlderOK
    <3>6. \A i \in DOMAIN o : o[i] <= tries
      BY <3>5, DeskPieces DEF ToSet, Ends
    <3>7. \A i \in DOMAIN ss : ss[i] = f.s \/ \E k \in DOMAIN o : ss[i] = o[k]
      <4>1. PICK x, q : x = f.s /\ q = <<x>>
        OBVIOUS
      <4>2. q \in Seq(1..MaxTries) /\ ToSet(q) = {x}
        BY <4>1, <1>3 DEF ToSet
      <4>3. ss = o \o q
        BY <4>1, <3>1, <3>4
      <4>4. Grown(o, ss, ToSet(q))
        BY <4>2, <4>3, <3>5, Joins
      <4> QED
        BY <4>1, <4>2, <4>4 DEF Grown
    <3> QED
      BY <3>3, <3>6, <3>7, <1>3 DEF Ends
  <2>2. CASE ~phone.paired
    BY <2>2, DeskPieces DEF HearHello
  <2> QED
    BY <2>1, <2>2
<1>10. PICK G : G = ToSet(as)
  OBVIOUS
<1>11. Flow(net.down, net'.down, G) /\ \A g \in G : g.s <= tries /\ g.type # "answer"
  BY <1>6, <1>8, <1>10
<1> QED
  BY <1>1, <1>4, <1>8, <1>9, <1>11 DEF Fades

LEMMA RevokeFades ==
    ASSUME Sound, Orderly, Revoke
    PROVE  Fades
<1>1. PICK as : as = IF phone.link /\ phone.sessions # <<>>
                     THEN <<Note("revoked", Last(phone.sessions))>> ELSE <<>>
  OBVIOUS
<1>2. /\ phone' = [phone EXCEPT !.paired = FALSE, !.tomb = "fresh", !.sessions = <<>>, !.link = FALSE]
      /\ net' = [net EXCEPT !.down = @ \o as]
      /\ desk' = desk /\ told' = told /\ mixed' = mixed /\ unheard' = unheard
      /\ tries' = tries /\ messages' = messages
  BY <1>1 DEF Revoke, Note, history
<1>3. /\ net \in Nets /\ net.up \in Seq(UpFrames) /\ net.down \in Seq(Notes \cup Answers)
      /\ phone \in Phones /\ phone.sessions \in Seq(1..MaxTries)
  BY DeskPieces DEF Sound, PhoneOK, Phones
<1>4. as \in Seq(Notes) /\ \A g \in ToSet(as) : g.s <= tries /\ g.type # "answer"
  <2>1. CASE phone.link /\ phone.sessions # <<>>
    <3>1. PICK q, x : q = phone.sessions /\ x = Last(q)
      OBVIOUS
    <3>2. x \in 1..MaxTries /\ x = q[Len(q)] /\ Len(q) \in DOMAIN q
      BY <3>1, <2>1, <1>3, LastOf
    <3>3. x <= tries
      BY <3>1, <3>2, DeskPieces DEF Ends
    <3>4. PICK y : y = Note("revoked", x)
      OBVIOUS
    <3>5. y \in Notes
      BY <3>2, <3>4, NoteOK
    <3>6. as = <<y>>
      BY <3>1, <3>4, <2>1, <1>1
    <3>7. <<y>> \in Seq(Notes) /\ ToSet(<<y>>) = {y}
      BY <3>5 DEF ToSet
    <3> QED
      BY <3>3, <3>4, <3>6, <3>7 DEF Note
  <2>2. CASE ~(phone.link /\ phone.sessions # <<>>)
    <3>1. as = <<>> /\ <<>> \in Seq(Notes) /\ ToSet(<<>>) = {}
      BY <2>2, <1>1 DEF ToSet
    <3> QED
      BY <3>1
  <2> QED
    BY <2>1, <2>2
<1>5. net'.up = net.up /\ net'.down = net.down \o as
  BY <1>2, <1>3 DEF Nets
<1>6. Flow(net.up, net'.up, {}) /\ Flow(net.down, net'.down, ToSet(as))
  BY <1>3, <1>4, <1>5, FlowSame, NotesFlow
<1>7. phone'.staged = phone.staged /\ phone'.sessions = <<>>
  BY <1>2, <1>3 DEF Phones
<1>8. Ends(phone'.sessions, tries) /\ \A j \in Jobs : unheard[j] <= unheard'[j]
  BY <1>2, <1>7, UnheardMore DEF Ends
<1>9. PICK G : G = ToSet(as)
  OBVIOUS
<1>10. Flow(net.down, net'.down, G) /\ \A g \in G : g.s <= tries /\ g.type # "answer"
  BY <1>4, <1>6, <1>9
<1> QED
  BY <1>2, <1>6, <1>7, <1>8, <1>10 DEF Fades

\* ... where nothing is said.
LEMMA SilentFades ==
    ASSUME Sound, tries' = tries, UNCHANGED <<messages, told, mixed>>,
           phone'.staged \subseteq phone.staged, Ends(phone'.sessions, tries),
           desk' = desk \/ (desk' = Lost(desk) /\ Unheard), Unheard \/ unheard' = unheard,
           Flow(net.up, net'.up, {}), Flow(net.down, net'.down, {})
    PROVE  Fades
<1>1. \A j \in Jobs : unheard[j] <= unheard'[j]
  BY UnheardMore
<1>2. \A f \in {} : f.s <= tries /\ f.type # "answer"
  OBVIOUS
<1> QED
  BY <1>1, <1>2 DEF Fades

LEMMA BreaksFade ==
    ASSUME Sound, Orderly, LinkGone \/ Notice
    PROVE  Fades
<1>1. /\ net \in Nets /\ net.up \in Seq(UpFrames) /\ net.down \in Seq(Notes \cup Answers)
  BY DeskPieces
<1>2. /\ tries' = tries /\ messages' = messages /\ told' = told /\ mixed' = mixed /\ phone' = phone
      /\ desk' = desk \/ desk' = Lost(desk)
      /\ Unheard
  BY DEF LinkGone, Notice
<1>3. Flow(net.up, net'.up, {}) /\ Flow(net.down, net'.down, {})
  <2>1. CASE LinkGone
    <3>1. PICK k \in 0..Len(net.up), down \in {<<>>, net.down} :
              net' = [up |-> SubSeq(net.up, 1, k), down |-> down, cut |-> FALSE]
      BY <2>1 DEF LinkGone
    <3>2. net'.up = SubSeq(net.up, 1, k) /\ net'.down = down
      BY <3>1
    <3>3. PICK q : q = net.up
      OBVIOUS
    <3>4. Flow(q, SubSeq(q, 1, k), {})
      BY <3>1, <3>3, <1>1, FlowPrefix
    <3> QED
      BY <3>2, <3>3, <3>4, <1>1, FlowSame, FlowNone
  <2>2. CASE Notice
    <3>1. net'.up = net.up /\ net'.down = net.down
      BY <2>2, <1>1 DEF Notice, Nets
    <3> QED
      BY <3>1, <1>1, FlowSame
  <2> QED
    BY <2>1, <2>2
<1>4. Ends(phone'.sessions, tries) /\ phone'.staged \subseteq phone.staged
  BY <1>2, DeskPieces
<1> QED
  BY <1>2, <1>3, <1>4, SilentFades

LEMMA DeathFades ==
    ASSUME Sound, PhoneDies
    PROVE  Fades
<1>1. PICK ids : phone' = [Emptied(phone, ids) EXCEPT !.sessions = <<>>, !.link = FALSE]
  BY DEF PhoneDies
<1>2. /\ net' = [up |-> <<>>, down |-> <<>>, cut |-> TRUE]
      /\ UNCHANGED <<desk, messages, told, tries, history>>
  BY DEF PhoneDies
<1>3. net'.up = <<>> /\ net'.down = <<>>
  BY <1>2
<1>4. Flow(net.up, net'.up, {}) /\ Flow(net.down, net'.down, {})
  BY <1>3, FlowNone
<1>5. phone'.staged \subseteq phone.staged /\ phone'.sessions = <<>>
  <2>1. PICK p : p = Emptied(phone, ids)
    OBVIOUS
  <2>2. PhoneOK(phone)
    BY SoundParts
  <2>3. PhoneOK(p) /\ p.staged = {g \in phone.staged : g.id \notin ToSet(ids)}
    BY <2>1, <2>2, EmptiedOK
  <2>4. phone' = [p EXCEPT !.sessions = <<>>, !.link = FALSE] /\ p \in Phones
    BY <2>1, <2>3, <1>1 DEF PhoneOK
  <2>5. phone'.staged = p.staged /\ phone'.sessions = <<>>
    BY <2>4 DEF Phones
  <2> QED
    BY <2>3, <2>5
<1>6. Ends(phone'.sessions, tries)
  BY <1>5 DEF Ends
<1>7. /\ tries' = tries /\ messages' = messages /\ told' = told /\ mixed' = mixed
      /\ desk' = desk /\ unheard' = unheard
  BY <1>2 DEF history
<1> QED
  BY <1>4, <1>5, <1>6, <1>7, SilentFades

LEMMA OthersFade ==
    ASSUME Sound, Orderly, PhoneLinkDown \/ Sweep \/ TombAges \/ UNCHANGED companionVars
    PROVE  Fades
<1>1. /\ net \in Nets /\ net.up \in Seq(UpFrames) /\ net.down \in Seq(Notes \cup Answers)
      /\ phone \in Phones
  BY DeskPieces DEF Sound, PhoneOK
<1>2. /\ tries' = tries /\ messages' = messages /\ told' = told /\ mixed' = mixed
      /\ desk' = desk /\ unheard' = unheard
  BY DEF PhoneLinkDown, Sweep, TombAges, companionVars, history
<1>3. Flow(net.up, net'.up, {}) /\ Flow(net.down, net'.down, {})
  <2>1. CASE PhoneLinkDown
    <3>1. PICK k \in 0..(Len(net.down) - 1) : net' = [net EXCEPT !.down = SubSeq(@, 1, k)]
      BY <2>1 DEF PhoneLinkDown
    <3>2. net'.up = net.up /\ net'.down = SubSeq(net.down, 1, k)
      BY <3>1, <1>1 DEF Nets
    <3>3. PICK q : q = net.down
      OBVIOUS
    <3>4. k \in 0..Len(q)
      <4>1. Len(q) \in Nat
        BY <3>3, <1>1
      <4> QED
        BY <4>1, <3>1, <3>3
    <3>5. Flow(q, SubSeq(q, 1, k), {})
      BY <3>3, <3>4, <1>1, FlowPrefix
    <3> QED
      BY <3>2, <3>3, <3>5, <1>1, FlowSame
  <2>2. CASE Sweep \/ TombAges \/ UNCHANGED companionVars
    <3>1. net' = net
      BY <2>2 DEF Sweep, TombAges, companionVars
    <3> QED
      BY <3>1, <1>1, FlowSame
  <2> QED
    BY <2>1, <2>2
<1>4. phone'.staged \subseteq phone.staged /\ phone'.sessions = phone.sessions
  <2>1. CASE PhoneLinkDown \/ TombAges \/ UNCHANGED companionVars
    BY <2>1, <1>1 DEF PhoneLinkDown, TombAges, companionVars, Phones
  <2>2. CASE Sweep
    <3>1. PICK g \in phone.staged : phone' = [phone EXCEPT !.staged = @ \ {g}]
      BY <2>2 DEF Sweep
    <3>2. phone'.staged = phone.staged \ {g} /\ phone'.sessions = phone.sessions
      BY <3>1, <1>1 DEF Phones
    <3> QED
      BY <3>2
  <2> QED
    BY <2>1, <2>2
<1>5. Ends(phone'.sessions, tries)
  BY <1>4, DeskPieces
<1> QED
  BY <1>2, <1>3, <1>4, <1>5, SilentFades

LEMMA PhoneHearsCases ==
    ASSUME Sound, Orderly, PhoneHears
    PROVE  Fades \/ (UNCHANGED <<desk, told, tries, accidents, history>> /\ \E f, r, a : Serves(f, r, a))
<1>1. PICK f : f = Head(net.up)
  OBVIOUS
<1>2. /\ net.up # <<>>
      /\ HearAsk(f) \/ HearHello(f)
      /\ UNCHANGED <<desk, told, tries, accidents, history>>
  BY <1>1 DEF PhoneHears
<1>3. CASE HearHello(f)
  <2>1. net.up # <<>> /\ UNCHANGED <<desk, told, tries, accidents, history>>
    BY <1>2
  <2> QED
    BY <1>1, <1>3, <2>1, HelloFades
<1>4. CASE \E r, a : Serves(f, r, a)
  BY <1>2, <1>4
<1>5. CASE net' = [net EXCEPT !.up = Tail(@)] /\ UNCHANGED <<phone, messages>>
  <2>1. /\ net \in Nets /\ net.down \in Seq(Notes \cup Answers)
    BY DeskPieces
  <2>2. net'.up = Tail(net.up) /\ net'.down = net.down
    BY <1>5, <2>1 DEF Nets
  <2>3. Flow(net.up, net'.up, {}) /\ Flow(net.down, net'.down, {})
    <3>1. Flow(net.up, net'.up, {})
      BY <1>2, <2>2, UpTails
    <3>2. Flow(net.down, net'.down, {})
      BY <2>1, <2>2, FlowSame
    <3> QED
      BY <3>1, <3>2
  <2>4. phone'.staged \subseteq phone.staged /\ Ends(phone'.sessions, tries)
    BY <1>5, DeskPieces
  <2>5. /\ tries' = tries /\ messages' = messages /\ told' = told /\ mixed' = mixed
        /\ desk' = desk /\ unheard' = unheard
    BY <1>2, <1>5 DEF history
  <2> QED
    BY <2>3, <2>4, <2>5, SilentFades
<1> QED
  BY <1>1, <1>2, <1>3, <1>4, <1>5, HearAskCases

\* What becomes of the upload when the link is lost.
LEMMA LostFacts ==
    ASSUME NEW d \in Desks, NEW e, e = Lost(d)
    PROVE  /\ e.session = 0 /\ e.pending = 0 /\ e.out = <<>>
           /\ e.upload.job = d.upload.job /\ e.upload.ids = d.upload.ids /\ e.upload.at = d.upload.at
           /\ e.upload.next = d.upload.next /\ e.upload.total = d.upload.total
           /\ d.upload # NoUpload => e.upload.stalled
           /\ d.upload = NoUpload => e.upload = NoUpload
<1>1. d.upload \in Uploads
  BY DEF Desks
<1>2. PICK u : u = IF d.upload = NoUpload THEN d.upload ELSE [d.upload EXCEPT !.stalled = TRUE]
  OBVIOUS
<1>3. /\ u.job = d.upload.job /\ u.ids = d.upload.ids /\ u.at = d.upload.at
      /\ u.next = d.upload.next /\ u.total = d.upload.total
      /\ d.upload # NoUpload => u.stalled
      /\ d.upload = NoUpload => u = NoUpload
  BY <1>1, <1>2 DEF Uploads
<1>4. e.session = 0 /\ e.pending = 0 /\ e.out = <<>> /\ e.upload = u
  BY <1>2 DEF Lost, Desks
<1> QED
  BY <1>3, <1>4

LEMMA FadesOrderly ==
    ASSUME Sound, Sound', Orderly, Fades
    PROVE  Orderly'
<1>1. tries' = tries /\ phone'.staged \subseteq phone.staged /\ Ends(phone'.sessions, tries)
  BY DEF Fades
<1>2. PICK G : Flow(net.down, net'.down, G) /\ \A f \in G : f.s <= tries /\ f.type # "answer"
  BY DEF Fades
<1>3. Flow(net.up, net'.up, {})
  BY DEF Fades
<1>4. Truly(G, phone'.staged)
  BY <1>2 DEF Truly
<1>5. /\ Later(phone.staged, phone.fresh, phone'.staged) /\ Apart(phone'.staged)
      /\ NotLater(desk.upload.ids, desk.upload.job, phone'.staged)
  BY <1>1, FewerPlaces
<1>6. /\ Onwards(desk, desk', tries, tries')
      /\ NotLater(desk'.upload.ids, desk'.upload.job, phone'.staged)
  <2>1. CASE desk' = desk
    <3>1. Onwards(desk, desk, tries, tries')
      BY <1>1, DeskPieces DEF Onwards
    <3> QED
      BY <2>1, <3>1, <1>5
  <2>2. CASE desk' = Lost(desk)
    <3>1. PICK e : e = desk'
      OBVIOUS
    <3>2. e.session = 0 /\ e.pending = 0 /\ e.out = <<>> /\ e.upload.job = desk.upload.job
          /\ e.upload.ids = desk.upload.ids
      BY <3>1, <2>2, DeskPieces, LostFacts
    <3> QED
      BY <3>1, <3>2, <1>1, <1>5, DeskPieces DEF Onwards
  <2> QED
    BY <2>1, <2>2 DEF Fades
<1>7. Begun({}, desk', tries') /\ Newest({}, Opened') /\ Naming({}, phone'.staged)
  BY NoFrames
<1>8. tries <= tries' /\ Ends(phone'.sessions, tries') /\ \A f \in G : f.s <= tries'
  BY <1>1, <1>2, DeskPieces
<1> QED
  BY <1>2, <1>3, <1>4, <1>5, <1>6, <1>7, <1>8, OrderlyFrom

\* The steps but those of the desktop and of a request that is answered.
LEMMA StepsFade ==
    ASSUME Sound, Orderly, [CompanionNext]_companionVars
    PROVE  \/ SendFiles \/ CancelSend \/ Reach(FALSE) \/ Reach(TRUE) \/ DeskHears
           \/ UNCHANGED <<desk, told, tries, accidents, history>> /\ \E f, r, a : Serves(f, r, a)
           \/ Fades
BY PhoneHearsCases, RevokeFades, BreaksFade, DeathFades, OthersFade DEF CompanionNext

LEMMA OrderlyInit == CompanionInit => Orderly
<1> SUFFICES ASSUME CompanionInit
             PROVE  Orderly
  OBVIOUS
<1>1. /\ desk.session = 0 /\ desk.pending = 0 /\ desk.out = <<>> /\ desk.upload = NoUpload
      /\ net.up = <<>> /\ net.down = <<>> /\ tries = 0
  BY DEF CompanionInit
<1>2. phone.staged = {} /\ phone.sessions = <<>>
  <2>1. PICK w \in Wires : phone = [wire |-> w, paired |-> TRUE, tomb |-> "none", sessions |-> <<>>,
                                    link |-> FALSE, staged |-> {}, fresh |-> 1]
    BY DEF CompanionInit
  <2> QED
    BY <2>1
<1>3. DOMAIN <<>> = {}
  OBVIOUS
<1>4. Dated(desk, net.up, net.down, phone.sessions, tries)
  BY <1>1, <1>2, <1>3 DEF Dated
<1>5. InOrder(net.up) /\ Apart(phone.staged) /\ TrueDown(net.down, phone.staged)
  BY <1>1, <1>2, <1>3 DEF InOrder, Apart, TrueDown
<1>6. Behind(desk, net.up, phone.staged)
  BY <1>1, <1>2, <1>3, NothingNamed DEF Behind, NotLater
<1> QED
  BY <1>4, <1>5, <1>6 DEF Orderly

LEMMA OrderlyNext ==
    ASSUME Sound, Sound', Orderly, [CompanionNext]_companionVars
    PROVE  Orderly'
<1>1. CASE SendFiles
  BY <1>1, SendFilesOrderly
<1>2. CASE CancelSend
  BY <1>2, CancelSendOrderly
<1>3. CASE Reach(FALSE) \/ Reach(TRUE)
  BY <1>3, ReachOrderly
<1>4. CASE DeskHears
  BY <1>4, DeskHearsOrderly
<1>5. CASE UNCHANGED <<desk, told, tries, accidents, history>> /\ \E f, r, a : Serves(f, r, a)
  BY <1>5, ServesOrderly
<1>6. CASE Fades
  BY <1>6, FadesOrderly
<1> QED
  BY <1>1, <1>2, <1>3, <1>4, <1>5, <1>6, StepsFade

-----------------------------------------------------------------------------
(* What was put stays put.                                                 *)

LEMMA MineLater ==
    ASSUME NEW S, NEW n \in Nat, NEW T \in SUBSET Places, Later(S, n, T),
           NEW ids, NEW j, \A i \in DOMAIN ids : ids[i] < n, Mine(ids, j, S)
    PROVE  Mine(ids, j, T)
<1> SUFFICES ASSUME NEW i \in DOMAIN ids, NEW h \in T, h.id = ids[i]
             PROVE  h.job = j /\ h.pos = i
  BY DEF Mine
<1>1. PICK g \in S : Grew(g, h)
  BY LaterIds
<1> QED
  BY <1>1 DEF Grew, Mine

LEMMA AimedLater ==
    ASSUME NEW S, NEW n \in Nat, NEW T \in SUBSET Places, Later(S, n, T),
           NEW mix, NEW more, mix \subseteq more,
           NEW top, NEW a \in Requests, WellAsked(a, n, top), Aimed(a, S, mix)
    PROVE  Aimed(a, T, more)
<1>1. \A i \in DOMAIN a.ids : a.ids[i] < n
  BY DEF WellAsked
<1>2. ASSUME a.kind = "put", a.job \notin more, NEW h \in T, h.id = a.ids[1]
      PROVE  h.job = a.job /\ h.pos = a.which
  <2>1. Len(a.ids) = 1 /\ a.ids \in Seq(Nat)
    BY <1>2 DEF WellAsked, Requests
  <2>2. 1 \in DOMAIN a.ids
    BY <2>1
  <2>3. h.id < n
    BY <1>1, <1>2, <2>2
  <2>4. PICK g \in S : Grew(g, h)
    BY <2>3, LaterIds
  <2> QED
    BY <2>4, <1>2 DEF Grew, Aimed
<1>3. ASSUME a.kind = "send", a.job \notin more
      PROVE  Len(a.ids) = Len(Sizes[a.job]) /\ Mine(a.ids, a.job, T)
  <2>1. Mine(a.ids, a.job, S) /\ Len(a.ids) = Len(Sizes[a.job])
    BY <1>3 DEF Aimed
  <2>2. PICK ids, j : ids = a.ids /\ j = a.job
    OBVIOUS
  <2>3. Mine(ids, j, T)
    BY <1>1, <2>1, <2>2, MineLater
  <2> QED
    BY <2>1, <2>2, <2>3
<1> QED
  BY <1>2, <1>3 DEF Aimed

LEMMA FullLater ==
    ASSUME NEW S, NEW n \in Nat, NEW T \in SUBSET Places, Later(S, n, T),
           NEW ids, \A i \in DOMAIN ids : ids[i] < n, NEW k, Full(ids, k, S)
    PROVE  Full(ids, k, T)
<1> SUFFICES ASSUME NEW i \in DOMAIN ids, i < k, NEW h \in T, h.id = ids[i]
             PROVE  Missing(h) = {}
  BY DEF Full
<1>1. PICK g \in S : Grew(g, h)
  BY LaterIds
<1>2. g.id = ids[i] /\ Missing(h) \subseteq Missing(g)
  BY <1>1, GrewFacts
<1> QED
  BY <1>2 DEF Full

LEMMA PutLater ==
    ASSUME NEW S, NEW n \in Nat, NEW T \in SUBSET Places, Later(S, n, T),
           NEW u \in Uploads, \A i \in DOMAIN u.ids : u.ids[i] < n, PutSoFar(u, S)
    PROVE  PutSoFar(u, T)
<1>1. PICK ids, j : ids = u.ids /\ j = u.job
  OBVIOUS
<1>2. Mine(ids, j, T) /\ Full(ids, u.at, T)
  BY <1>1, MineLater, FullLater DEF PutSoFar
<1>3. ASSUME Len(u.ids) = u.at
      PROVE  Laying(u, T)
  <2>1. Laying(u, S) /\ u.at \in 1..(Len(Sizes[u.job]) + 1)
    BY <1>3 DEF PutSoFar
  <2>2. u.ids \in Seq(Nat)
    BY DEF Uploads
  <2>3. u.at \in DOMAIN u.ids
    BY <2>1, <2>2, <1>3
  <2>4. ASSUME NEW h \in T, h.id = u.ids[u.at]
        PROVE  u.total = Total(h) /\ 0..(u.next - 1) \subseteq h.have
    <3>1. h.id < n
      BY <2>3, <2>4
    <3>2. PICK g \in S : Grew(g, h)
      BY <3>1, LaterIds
    <3>3. g.id = u.ids[u.at] /\ Total(h) = Total(g) /\ g.have \subseteq h.have
      BY <2>4, <3>2, GrewFacts DEF Grew
    <3> QED
      BY <2>1, <3>3 DEF Laying
  <2> QED
    BY <2>1, <2>4 DEF Laying
<1> QED
  BY <1>1, <1>2, <1>3 DEF PutSoFar

\* The same upload, stalled or not.
Alike(u, v) ==
    v.job = u.job /\ v.ids = u.ids /\ v.at = u.at /\ v.next = u.next /\ v.total = u.total

LEMMA PutAlike ==
    ASSUME NEW u, NEW v, Alike(u, v), NEW S, PutSoFar(u, S)
    PROVE  PutSoFar(v, S)
BY DEF Alike, PutSoFar, Laying

LEMMA UploadLater ==
    ASSUME NEW S, NEW n \in Nat, NEW T \in SUBSET Places, Later(S, n, T),
           NEW u \in Uploads, \A i \in DOMAIN u.ids : u.ids[i] < n,
           NEW mix, NEW more, mix \subseteq more, UploadOK(u, S, mix),
           NEW v, Alike(u, v)
    PROVE  UploadOK(v, T, more)
<1> SUFFICES ASSUME v.job # 0, v.job \notin more
             PROVE  PutSoFar(v, T)
  BY DEF UploadOK
<1>1. PutSoFar(u, S)
  BY DEF UploadOK, Alike
<1>2. PutSoFar(u, T)
  BY <1>1, PutLater
<1> QED
  BY <1>2, PutAlike

\* The frames that go up, the places and the messages are well.
Held ==
    /\ AimedUp(net.up, phone.staged, mixed)
    /\ SpoiltAreOver(net.up, phone.staged, Opened, mixed)
    /\ SentOK(messages, Opened, mixed)

\* So are the upload, the table and the answers.
Kept ==
    /\ UploadOK(desk.upload, phone.staged, mixed)
    /\ OutOK(desk.out, desk.upload, mixed)
    /\ RecentDown(net.down, desk, mixed)

LEMMA FaithfulParts == Faithful <=> Held /\ Kept
BY DEF Faithful, Held, Kept

LEMMA AimedUpLater ==
    ASSUME NEW S, NEW n \in Nat, NEW T \in SUBSET Places, Later(S, n, T),
           NEW mix, NEW more, mix \subseteq more,
           NEW top, NEW q \in Seq(UpFrames), AskedUp(q, n, top), AimedUp(q, S, mix),
           NEW r, NEW F, Flow(q, r, F), \A f \in F : Aimed(f.ask, T, more)
    PROVE  AimedUp(r, T, more)
<1> SUFFICES ASSUME NEW k \in DOMAIN r
             PROVE  Aimed(r[k].ask, T, more)
  BY DEF AimedUp
<1>1. CASE \E i \in DOMAIN q : r[k] = q[i]
  <2>1. PICK i \in DOMAIN q : r[k] = q[i]
    BY <1>1
  <2>2. q[i] \in UpFrames
    OBVIOUS
  <2>3. PICK a : a = q[i].ask
    OBVIOUS
  <2>4. a \in Requests /\ WellAsked(a, n, top) /\ Aimed(a, S, mix)
    BY <2>2, <2>3 DEF UpFrames, AskedUp, AimedUp
  <2>5. Aimed(a, T, more)
    BY <2>4, AimedLater
  <2> QED
    BY <2>1, <2>3, <2>5
<1> QED
  BY <1>1, FlowEntries

\* A place with another's bytes had them before, or is of a job that is over.
Soiled(h, S) == \E g \in S : g.alien /\ g.job = h.job

LEMMA SpoiltLater ==
    ASSUME NEW S, NEW T, NEW mix, NEW more, mix \subseteq more,
           NEW top \in Nat, NEW now \in Nat, top <= now,
           NEW q, SpoiltAreOver(q, S, top, mix), S \in SUBSET Places,
           NEW r, NEW F, Flow(q, r, F), Newest(F, now),
           \A h \in T : h.alien => Soiled(h, S) \/ Spoilt(h, r, now)
    PROVE  SpoiltAreOver(r, T, now, more)
<1> SUFFICES ASSUME NEW h \in T, h.alien, h.job \notin more, Soiled(h, S)
             PROVE  Spoilt(h, r, now)
  BY DEF SpoiltAreOver
<1>1. PICK g \in S : g.alien /\ g.job = h.job
  BY DEF Soiled
<1>2. Spoilt(g, q, top)
  BY <1>1 DEF SpoiltAreOver
<1>3. h.job \in Nat
  BY <1>1, JobFacts DEF Places
<1>4. h.job < now
  BY <1>1, <1>2, <1>3 DEF Spoilt
<1>5. ASSUME NEW k \in DOMAIN r
      PROVE  r[k].ask.job = 0 \/ h.job < r[k].ask.job
  <2>1. CASE r[k] \in F
    BY <2>1, <1>4 DEF Newest
  <2>2. CASE \E i \in DOMAIN q : r[k] = q[i]
    BY <2>2, <1>1, <1>2 DEF Spoilt
  <2> QED
    BY <2>1, <2>2, FlowEntries
<1> QED
  BY <1>4, <1>5 DEF Spoilt

LEMMA SentMore ==
    ASSUME NEW ms \in Seq(Letters), NEW top \in Nat, NEW now \in Nat, top <= now,
           NEW mix, NEW more, mix \subseteq more, SentOK(ms, top, mix)
    PROVE  SentOK(ms, now, more)
<1> SUFFICES ASSUME NEW i \in DOMAIN ms
             PROVE  ms[i].text <= now /\ (ms[i].text \in more \/ WholeOne(ms[i]))
  BY DEF SentOK
<1>1. ms[i] \in Letters
  OBVIOUS
<1>2. ms[i].text \in Nat
  BY <1>1, JobFacts DEF Letters
<1> QED
  BY <1>2 DEF SentOK

\* A job once opened stays so.
LEMMA OpenedGrows ==
    ASSUME Sound, Sound', \A j \in Jobs : told[j] # "none" => told'[j] # "none"
    PROVE  Opened \in Nat /\ Opened' \in Nat /\ Opened <= Opened'
<1>1. PICK A, B : A = {i \in Jobs : told[i] # "none"} /\ B = {i \in Jobs : told'[i] # "none"}
  OBVIOUS
<1>2. Jobs = 1..Len(Sizes) /\ Len(Sizes) \in Nat
  BY CompanionAssumption DEF Jobs
<1>3. IsFiniteSet(Jobs)
  BY <1>2, FS_Interval
<1>4. B \in SUBSET Jobs /\ A \in SUBSET B /\ A \in SUBSET Jobs
  BY <1>1
<1>5. IsFiniteSet(A) /\ IsFiniteSet(B)
  BY <1>3, <1>4, FS_Subset
<1>6. Cardinality(A) <= Cardinality(B)
  BY <1>4, <1>5, FS_Subset
<1>7. Cardinality(A) \in Nat /\ Cardinality(B) \in Nat
  BY <1>5, FS_CardinalityType
<1> QED
  BY <1>1, <1>6, <1>7 DEF Opened

\* A step keeps what goes up well if what it adds is.
LEMMA HeldFrom ==
    ASSUME Sound, Sound', Held, mixed \subseteq mixed',
           Later(phone.staged, phone.fresh, phone'.staged),
           \A j \in Jobs : told[j] # "none" => told'[j] # "none",
           NEW F, Flow(net.up, net'.up, F), \A f \in F : Aimed(f.ask, phone'.staged, mixed'),
           Newest(F, Opened'),
           \A h \in phone'.staged : h.alien => Soiled(h, phone.staged) \/ Spoilt(h, net'.up, Opened'),
           SentOK(messages', Opened', mixed') \/ messages' = messages
    PROVE  Held'
<1>1. Opened \in Nat /\ Opened' \in Nat /\ Opened <= Opened'
  BY OpenedGrows
<1>2. /\ phone.fresh \in Nat /\ phone.staged \in SUBSET Places /\ phone'.staged \in SUBSET Places
      /\ net.up \in Seq(UpFrames) /\ AskedUp(net.up, phone.fresh, Opened)
      /\ messages \in Seq(Letters)
  <2>1. phone \in Phones /\ phone' \in Phones /\ net \in Nets
    BY DEF Sound, PhoneOK, NetOK
  <2> QED
    BY <2>1 DEF Sound, NetOK, Phones, Nets, BooksOK
<1>3. AimedUp(net.up, phone.staged, mixed) /\ SpoiltAreOver(net.up, phone.staged, Opened, mixed)
      /\ SentOK(messages, Opened, mixed)
  BY DEF Held
<1>4. PICK S, T, n, q, r, top, now, mix, more :
         /\ S = phone.staged /\ T = phone'.staged /\ n = phone.fresh /\ q = net.up /\ r = net'.up
         /\ top = Opened /\ now = Opened' /\ mix = mixed /\ more = mixed'
  OBVIOUS
<1>5. AimedUp(r, T, more)
  BY <1>2, <1>3, <1>4, AimedUpLater
<1>6. SpoiltAreOver(r, T, now, more)
  <2>1. \A h \in T : h.alien => Soiled(h, S) \/ Spoilt(h, r, now)
    BY <1>4
  <2>2. Newest(F, now) /\ Flow(q, r, F) /\ mix \subseteq more /\ SpoiltAreOver(q, S, top, mix)
    BY <1>3, <1>4
  <2> QED
    BY <2>1, <2>2, <1>1, <1>2, <1>4, SpoiltLater
<1>7. SentOK(messages', now, more)
  <2>1. CASE messages' = messages
    <3>1. PICK ms : ms = messages
      OBVIOUS
    <3>2. SentOK(ms, now, more)
      BY <3>1, <1>1, <1>2, <1>3, <1>4, SentMore
    <3> QED
      BY <2>1, <3>1, <3>2
  <2> QED
    BY <2>1, <1>4
<1> QED
  BY <1>4, <1>5, <1>6, <1>7 DEF Held

LEMMA NoAims ==
    ASSUME NEW S, NEW mix
    PROVE  \A f \in {} : Aimed(f.ask, S, mix)
OBVIOUS

LEMMA SoiledSame ==
    ASSUME NEW S, NEW T \in SUBSET S
    PROVE  \A h \in T : h.alien => Soiled(h, S)
BY DEF Soiled

\* ... a step of the desktop.
LEMMA DeskHeld ==
    ASSUME Sound, Sound', Held, mixed \subseteq mixed', phone' = phone, messages' = messages,
           \A j \in Jobs : told[j] # "none" => told'[j] # "none",
           NEW F, Flow(net.up, net'.up, F), \A f \in F : Aimed(f.ask, phone.staged, mixed'),
           Newest(F, Opened')
    PROVE  Held'
<1>1. Later(phone.staged, phone.fresh, phone'.staged)
  BY LaterSame
<1>2. \A h \in phone'.staged : h.alien => Soiled(h, phone.staged)
  BY SoiledSame
<1>3. \A f \in F : Aimed(f.ask, phone'.staged, mixed')
  OBVIOUS
<1> QED
  BY <1>1, <1>2, <1>3, HeldFrom

\* What a request other than a chunk or an order to send aims at.
LEMMA AimedElse ==
    ASSUME NEW a, a.kind \notin {"put", "send"}, NEW S, NEW mix
    PROVE  Aimed(a, S, mix)
BY DEF Aimed

\* What goes down to a stalled upload does, when less of it is timely.
LEMMA StaysRecent ==
    ASSUME NEW q, NEW r, NEW G, Flow(q, r, G), NEW d, NEW e, NEW mix, NEW more, mix \subseteq more,
           RecentDown(q, d, mix),
           e.upload.stalled => d.upload.stalled /\ Alike(d.upload, e.upload),
           \A i \in DOMAIN q : q[i].type = "answer" /\ Timely(e, q[i].s) => Timely(d, q[i].s),
           e.upload.stalled /\ e.upload.job \notin more =>
               \A f \in G : f.type = "answer" /\ Timely(e, f.s) => Recent(f, e)
    PROVE  RecentDown(r, e, more)
<1> SUFFICES ASSUME e.upload.stalled, e.upload.job \notin more,
                    NEW k \in DOMAIN r, r[k].type = "answer", Timely(e, r[k].s)
             PROVE  Recent(r[k], e)
  BY DEF RecentDown
<1>1. CASE r[k] \in G
  BY <1>1
<1>2. CASE \E i \in DOMAIN q : r[k] = q[i]
  <2>1. PICK i \in DOMAIN q : r[k] = q[i]
    BY <1>2
  <2>2. Recent(q[i], d)
    BY <2>1 DEF RecentDown, Alike
  <2> QED
    BY <2>1, <2>2 DEF Recent, Alike
<1> QED
  BY <1>1, <1>2, FlowEntries

LEMMA AlikeSame ==
    ASSUME NEW u
    PROVE  Alike(u, u)
BY DEF Alike

LEMMA NoUploadKept ==
    ASSUME NEW S, NEW mix, NEW out, NEW q, NEW d, d.upload = NoUpload
    PROVE  /\ UploadOK(NoUpload, S, mix) /\ OutOK(out, NoUpload, mix)
           /\ RecentDown(q, d, mix)
BY DEF NoUpload, UploadOK, OutOK, RecentDown

\* The frames that come down are of a session.
LEMMA DownSessions ==
    ASSUME Sound
    PROVE  \A i \in DOMAIN net.down : net.down[i].s \in Nat /\ net.down[i].s >= 1
<1>1. net.down \in Seq(Notes \cup Answers)
  BY DEF Sound, NetOK, Nets
<1>2. MaxTries \in Nat
  BY CompanionAssumption
<1>3. \A f \in Notes \cup Answers : f.s \in 1..MaxTries
  BY DEF Notes, Answers
<1> QED
  BY <1>1, <1>2, <1>3

LEMMA FadesHeld ==
    ASSUME Sound, Sound', Held, Fades
    PROVE  Held'
<1>1. /\ mixed' = mixed /\ told' = told /\ messages' = messages
      /\ phone'.staged \subseteq phone.staged /\ Flow(net.up, net'.up, {})
  BY DEF Fades
<1>2. Later(phone.staged, phone.fresh, phone'.staged)
  BY <1>1, LaterSame
<1>3. \A h \in phone'.staged : h.alien => Soiled(h, phone.staged)
  BY <1>1, SoiledSame
<1>4. Newest({}, Opened') /\ \A f \in {} : Aimed(f.ask, phone'.staged, mixed')
  BY NoAims DEF Newest
<1> QED
  BY <1>1, <1>2, <1>3, <1>4, HeldFrom

LEMMA FadesKept ==
    ASSUME Sound, Sound', Orderly, Kept, Fades
    PROVE  Kept'
<1>1. /\ mixed' = mixed /\ phone'.staged \subseteq phone.staged
      /\ desk' = desk \/ desk' = Lost(desk)
  BY DEF Fades
<1>2. PICK G : Flow(net.down, net'.down, G) /\ \A f \in G : f.type # "answer"
  BY DEF Fades
<1>3. /\ desk \in Desks /\ desk.upload \in Uploads /\ phone.fresh \in Nat
      /\ phone'.staged \in SUBSET Places
      /\ \A i \in DOMAIN desk.upload.ids : desk.upload.ids[i] < phone.fresh
      /\ UploadOK(desk.upload, phone.staged, mixed)
      /\ OutOK(desk.out, desk.upload, mixed) /\ RecentDown(net.down, desk, mixed)
  BY SoundParts DEF DeskOK, Desks, WellUp, Sound, PhoneOK, Phones, Kept
<1>4. PICK d, e, u, v, S, T, mix : d = desk /\ e = desk' /\ u = desk.upload /\ v = desk'.upload
         /\ S = phone.staged /\ T = phone'.staged /\ mix = mixed
  OBVIOUS
<1>5. Later(S, phone.fresh, T)
  BY <1>1, <1>4, LaterSame
<1>6. /\ Alike(u, v)
      /\ e = d \/ (e.session = 0 /\ e.pending = 0 /\ e.out = <<>>)
  <2>1. CASE e = d
    BY <2>1, <1>4, AlikeSame
  <2>2. CASE e = Lost(d)
    <3>1. d \in Desks
      BY <1>3, <1>4
    <3>2. /\ e.session = 0 /\ e.pending = 0 /\ e.out = <<>>
          /\ e.upload.job = d.upload.job /\ e.upload.ids = d.upload.ids /\ e.upload.at = d.upload.at
          /\ e.upload.next = d.upload.next /\ e.upload.total = d.upload.total
      BY <3>1, <2>2, LostFacts
    <3>3. d.upload = u /\ e.upload = v
      BY <1>4
    <3> QED
      BY <3>2, <3>3 DEF Alike
  <2> QED
    BY <2>1, <2>2, <1>1, <1>4
<1>7. UploadOK(v, T, mix)
  BY <1>3, <1>4, <1>5, <1>6, UploadLater
<1>8. OutOK(e.out, v, mix)
  <2>1. CASE e = d
    BY <2>1, <1>3, <1>4
  <2>2. CASE e.out = <<>>
    <3>1. DOMAIN <<>> = {}
      OBVIOUS
    <3> QED
      BY <2>2, <3>1 DEF OutOK, NoSteps, OneStep
  <2> QED
    BY <2>1, <2>2, <1>6
<1>9. RecentDown(net'.down, e, mix)
  <2>1. PICK q, r : q = net.down /\ r = net'.down
    OBVIOUS
  <2>2. CASE e = d
    <3>1. e.upload.stalled => d.upload.stalled /\ Alike(d.upload, e.upload)
      BY <2>2, AlikeSame
    <3> QED
      BY <2>1, <2>2, <3>1, <1>2, <1>3, <1>4, StaysRecent
  <2>3. CASE e.session = 0 /\ e.pending = 0
    <3>1. \A k \in DOMAIN r : r[k].type = "answer" => ~Timely(e, r[k].s)
      <4> SUFFICES ASSUME NEW k \in DOMAIN r, r[k].type = "answer"
                   PROVE  ~Timely(e, r[k].s)
        OBVIOUS
      <4>1. PICK i \in DOMAIN q : r[k] = q[i]
        BY <1>2, <2>1, FlowEntries
      <4>2. q[i].s \in Nat /\ q[i].s >= 1
        BY <2>1, DownSessions
      <4> QED
        BY <4>1, <4>2, <2>3 DEF Timely
    <3> QED
      BY <2>1, <3>1 DEF RecentDown
  <2> QED
    BY <2>2, <2>3, <1>6
<1> QED
  BY <1>1, <1>4, <1>7, <1>8, <1>9 DEF Kept

-----------------------------------------------------------------------------
(* A request that is answered.                                             *)

LEMMA ServesParts ==
    ASSUME Sound, Orderly, NEW f, NEW r, NEW a, Serves(f, r, a)
    PROVE  /\ f \in UpFrames /\ f.ask \in Requests /\ WellAsked(f.ask, phone.fresh, Opened)
           /\ 1 \in DOMAIN net.up /\ f = net.up[1]
           /\ PhoneOK(Reached) /\ Reached.staged = phone.staged /\ Reached.fresh = phone.fresh
           /\ r = Serve(Reached, f) /\ phone' = r.p /\ messages' = messages \o r.sent
           /\ net'.up = Tail(net.up) /\ net'.down = Append(net.down, a)
           /\ a \in Answers /\ a.files = r.ans.files
           /\ Later(phone.staged, phone.fresh, r.p.staged)
           /\ NotLater(f.ask.ids, f.ask.job, phone.staged)
<1>1. /\ net.up # <<>> /\ f = Head(net.up) /\ phone' = r.p /\ r = Serve(Reached, f)
      /\ messages' = messages \o r.sent
      /\ net' = [net EXCEPT !.up = Tail(@), !.down = Append(@, a)]
  BY DEF Serves
<1>2. f \in UpFrames /\ WellAsked(f.ask, phone.fresh, Opened) /\ a \in Answers /\ a.files = r.ans.files
  BY ServesFacts
<1>3. PhoneOK(Reached) /\ Reached.staged = phone.staged /\ Reached.fresh = phone.fresh
  BY ReachedOK
<1>4. PICK p : p = Reached
  OBVIOUS
<1>5. Truthful(p, f, r)
  BY <1>1, <1>2, <1>3, <1>4, ServesTruth DEF Orderly
<1>6. net \in Nets /\ net.up \in Seq(UpFrames)
  BY DeskPieces
<1>7. net'.up = Tail(net.up) /\ net'.down = Append(net.down, a)
  BY <1>1, <1>6 DEF Nets
<1>8. 1 \in DOMAIN net.up /\ f = net.up[1]
  BY <1>1, <1>6, TailFacts
<1>9. f.ask \in Requests
  BY <1>2 DEF UpFrames
<1> QED
  BY <1>1, <1>2, <1>3, <1>4, <1>5, <1>7, <1>8, <1>9 DEF Truthful, Orderly, Behind

\* A place that gets another's bytes is of a job that is over.
LEMMA PutSpoils ==
    ASSUME NEW q \in Seq(UpFrames), q # <<>>, InOrder(q), NEW top \in Nat, NEW new,
           NEW S, NEW mix, AimedUp(q, S, mix),
           NEW a \in Requests, a = q[1].ask, WellAsked(a, new, top), a.kind = "put",
           NotLater(a.ids, a.job, S),
           NEW g \in S, g \in Places, NEW h, h = PutIn(g, a), h.alien, h.job \notin mix
    PROVE  Soiled(h, S) \/ Spoilt(h, Tail(q), top)
<1>1. h.job = g.job
  BY PutInOK
<1>2. CASE g.alien
  BY <1>1, <1>2 DEF Soiled
<1>3. CASE ~g.alien
  <2>1. Fits(g, a)
    BY <1>3 DEF PutIn
  <2>2. h = [g EXCEPT !.have = @ \cup {a.n},
                      !.alien = @ \/ <<a.job, a.which>> # <<g.job, g.pos>>]
    BY <2>1 DEF PutIn
  <2>3. <<a.job, a.which>> # <<g.job, g.pos>>
    BY <2>2, <1>3 DEF Places
  <2>4. 1 \in DOMAIN a.ids /\ g.id = a.ids[1]
    <3>1. a.ids \in Seq(Nat) /\ Len(a.ids) = 1
      BY DEF WellAsked, Requests
    <3> QED
      BY <3>1, <2>1 DEF Fits
  <2>5. g.job <= a.job
    BY <2>4 DEF NotLater
  <2>6. 1 \in DOMAIN q /\ Aimed(a, S, mix)
    <3>1. 1 \in DOMAIN q
      OBVIOUS
    <3> QED
      BY <3>1 DEF AimedUp
  <2>7. g.job # a.job
    BY <1>1, <2>3, <2>4, <2>6 DEF Aimed
  <2>8. g.job \in Nat /\ a.job \in Nat /\ a.job <= top /\ a.job # 0
    <3>1. g.job \in Nat
      BY JobFacts DEF Places
    <3>2. a.job \in Nat
      BY JobFacts DEF Requests
    <3>3. a.job <= top /\ a.job # 0
      BY DEF WellAsked, Plains
    <3> QED
      BY <3>1, <3>2, <3>3
  <2>9. h.job < a.job /\ h.job < top
    BY <1>1, <2>5, <2>7, <2>8
  <2>10. PICK t : t = Tail(q)
    OBVIOUS
  <2>11. \A i \in DOMAIN t : t[i].ask.job = 0 \/ h.job < t[i].ask.job
    <3> SUFFICES ASSUME NEW i \in DOMAIN t, t[i].ask.job # 0
                 PROVE  h.job < t[i].ask.job
      OBVIOUS
    <3>1. i + 1 \in DOMAIN q /\ t[i] = q[i + 1] /\ i \in Nat /\ i >= 1
      BY <2>10, TailFacts
    <3>2. PICK k : k = i + 1
      OBVIOUS
    <3>3. k \in DOMAIN q /\ 1 < k /\ q[k] \in UpFrames
      BY <3>1, <3>2
    <3>4. q[1].ask.job <= q[k].ask.job
      BY <2>6, <3>1, <3>2, <3>3 DEF InOrder
    <3>5. q[k].ask.job \in Nat
      BY <3>3, JobFacts DEF UpFrames, Requests
    <3>6. h.job \in Nat
      BY <1>1, <2>8
    <3> QED
      BY <3>1, <3>2, <3>4, <3>5, <3>6, <2>8, <2>9
  <2> QED
    BY <2>9, <2>10, <2>11 DEF Spoilt
<1> QED
  BY <1>2, <1>3 DEF Places

\* What makes a message of places is whole.
LEMMA MakesWhole ==
    ASSUME NEW p, PhoneOK(p), Apart(p.staged),
           NEW q \in Seq(UpFrames), q # <<>>, NEW top \in Nat, NEW mix, AimedUp(q, p.staged, mix),
           SpoiltAreOver(q, p.staged, top, mix),
           NEW a \in Requests, a = q[1].ask, WellAsked(a, p.fresh, top), a.kind = "send", a.job \notin mix,
           Whole(p, a.ids), NEW m, m = [text |-> a.job, files |-> Taking(p, a.ids)]
    PROVE  WholeOne(m)
<1>1. 1 \in DOMAIN q /\ Aimed(a, p.staged, mix)
  <2>1. 1 \in DOMAIN q
    OBVIOUS
  <2> QED
    BY <2>1 DEF AimedUp
<1>2. PICK ids : ids = a.ids
  OBVIOUS
<1>3. Len(ids) = Len(Sizes[a.job]) /\ Mine(ids, a.job, p.staged) /\ ids \in Seq(Nat)
  BY <1>1, <1>2 DEF Aimed, Requests
<1>4. PICK fs : fs = Taking(p, ids)
  OBVIOUS
<1>5. DOMAIN fs = DOMAIN ids /\ Len(fs) = Len(ids)
  BY <1>3, <1>4 DEF Taking
<1>6. ASSUME NEW i \in DOMAIN ids
      PROVE  /\ fs[i].job = a.job /\ fs[i].pos = i
             /\ ~fs[i].alien /\ Missing(fs[i]) = {}
  <2>1. PICK g \in Place(p, ids[i]) : Missing(g) = {}
    BY <1>2, <1>6 DEF Whole
  <2>2. g \in p.staged /\ g.id = ids[i]
    BY <2>1 DEF Place
  <2>3. fs[i] = (CHOOSE h \in Place(p, ids[i]) : TRUE)
    BY <1>4, <1>6 DEF Taking
  <2>4. fs[i] \in Place(p, ids[i])
    BY <2>1, <2>3
  <2>5. fs[i] = g
    BY <2>2, <2>4 DEF Place, Apart
  <2>6. g.job = a.job /\ g.pos = i
    BY <1>3, <1>6, <2>2 DEF Mine
  <2>7. ~g.alien
    <3> SUFFICES ASSUME g.alien
                 PROVE  FALSE
      OBVIOUS
    <3>1. Spoilt(g, q, top)
      BY <2>2, <2>6 DEF SpoiltAreOver
    <3>2. a.job # 0 /\ a.job \in Nat
      BY JobFacts DEF WellAsked, Plains, Requests
    <3> QED
      BY <3>1, <3>2, <2>6, <1>1 DEF Spoilt
  <2> QED
    BY <2>1, <2>5, <2>6, <2>7
<1>7. m.text = a.job /\ m.files = fs
  BY <1>2, <1>4
<1> QED
  BY <1>3, <1>5, <1>6, <1>7 DEF WholeOne

LEMMA ServesSoils ==
    ASSUME Sound, Orderly, Held, NEW f, NEW r, NEW a, Serves(f, r, a)
    PROVE  \A h \in r.p.staged : h.alien /\ h.job \notin mixed =>
               Soiled(h, phone.staged) \/ Spoilt(h, Tail(net.up), Opened)
<1>1. /\ f \in UpFrames /\ f.ask \in Requests /\ WellAsked(f.ask, phone.fresh, Opened)
      /\ 1 \in DOMAIN net.up /\ f = net.up[1]
      /\ PhoneOK(Reached) /\ Reached.staged = phone.staged
      /\ r = Serve(Reached, f) /\ NotLater(f.ask.ids, f.ask.job, phone.staged)
  BY ServesParts
<1>2. net.up \in Seq(UpFrames) /\ phone.staged \in SUBSET Places /\ Opened \in Nat
  BY DeskPieces
<1>3. AimedUp(net.up, phone.staged, mixed) /\ InOrder(net.up)
  BY DEF Held, Orderly
<1>4. PICK p, q, S : p = Reached /\ q = net.up /\ S = phone.staged
  OBVIOUS
<1> SUFFICES ASSUME NEW h \in r.p.staged, h.alien, h.job \notin mixed
             PROVE  Soiled(h, S) \/ Spoilt(h, Tail(q), Opened)
  BY <1>4
<1>5. CASE r.p.staged \subseteq S
  BY <1>5 DEF Soiled
<1>6. CASE \E g : Gives(p, f, r, g)
  <2>1. PICK g : Gives(p, f, r, g)
    BY <1>6
  <2>2. r.p.staged = p.staged \cup {g} /\ ~g.alien
    BY <2>1 DEF Gives
  <2>3. h \in S
    BY <2>2, <1>1, <1>4
  <2> QED
    BY <2>3 DEF Soiled
<1>7. CASE f.ask.kind = "put" /\ Puts(p, f, r)
  <2>1. PICK b : b = f.ask
    OBVIOUS
  <2>2. PICK g \in S : h = PutIn(g, b)
    BY <1>1, <1>4, <1>7, <2>1 DEF Puts, PutAll
  <2>3. q # <<>>
    <3>1. DOMAIN <<>> = {}
      OBVIOUS
    <3> QED
      BY <3>1, <1>1, <1>4
  <2>4. /\ b \in Requests /\ b = q[1].ask /\ WellAsked(b, phone.fresh, Opened)
        /\ NotLater(b.ids, b.job, S) /\ g \in Places
        /\ q \in Seq(UpFrames) /\ InOrder(q) /\ AimedUp(q, S, mixed)
    BY <1>1, <1>2, <1>3, <1>4, <2>1, <2>2
  <2>5. b.kind = "put"
    BY <1>7, <2>1
  <2> QED
    BY <2>2, <2>3, <2>4, <2>5, <1>2, PutSpoils
<1>8. \/ Shrugs(p, f, r) \/ Makes(p, f, r) \/ Drops(p, f, r) \/ Tells(p, f, r)
      \/ (f.ask.kind = "put" /\ Puts(p, f, r)) \/ \E g : Gives(p, f, r, g)
  BY <1>1, <1>4, ServeShape
<1>9. CASE Shrugs(p, f, r) \/ Makes(p, f, r) \/ Drops(p, f, r) \/ Tells(p, f, r)
  <2>1. r.p.staged \subseteq p.staged
    BY <1>9 DEF Shrugs, Makes, Drops, Tells
  <2> QED
    BY <2>1, <1>1, <1>4, <1>5
<1> QED
  BY <1>6, <1>7, <1>8, <1>9

LEMMA ServesSent ==
    ASSUME Sound, Orderly, Held, NEW f, NEW r, NEW a, Serves(f, r, a)
    PROVE  SentOK(messages', Opened, mixed)
<1>1. /\ f \in UpFrames /\ f.ask \in Requests /\ WellAsked(f.ask, phone.fresh, Opened)
      /\ 1 \in DOMAIN net.up /\ f = net.up[1]
      /\ PhoneOK(Reached) /\ Reached.staged = phone.staged /\ Reached.fresh = phone.fresh
      /\ r = Serve(Reached, f) /\ messages' = messages \o r.sent
  BY ServesParts
<1>2. net.up \in Seq(UpFrames) /\ Opened \in Nat
  BY DeskPieces
<1>3. /\ AimedUp(net.up, phone.staged, mixed) /\ SpoiltAreOver(net.up, phone.staged, Opened, mixed)
      /\ SentOK(messages, Opened, mixed) /\ Apart(phone.staged)
  BY DEF Held, Orderly
<1>4. PICK p, q, ms : p = Reached /\ q = net.up /\ ms = messages
  OBVIOUS
<1>5. ms \in Seq(Letters)
  BY <1>4 DEF Sound, BooksOK
<1>6. CASE r.sent = <<>>
  <2>1. ms \o <<>> = ms
    BY <1>5
  <2> QED
    BY <2>1, <1>1, <1>3, <1>4, <1>6
<1>7. CASE f.ask.kind = "send" /\ Makes(p, f, r)
  <2>1. PICK b : b = f.ask
    OBVIOUS
  <2>2. PICK m : m = [text |-> b.job, files |-> Taking(p, b.ids)]
    OBVIOUS
  <2>3. r.sent = <<m>> /\ Whole(p, b.ids)
    BY <1>7, <2>1, <2>2 DEF Makes
  <2>4. m.text = b.job /\ b.job <= Opened
    BY <1>1, <2>1, <2>2 DEF WellAsked
  <2>5. b.job \in mixed \/ WholeOne(m)
    <3> SUFFICES ASSUME b.job \notin mixed
                 PROVE  WholeOne(m)
      OBVIOUS
    <3>1. q # <<>>
      <4>1. DOMAIN <<>> = {}
        OBVIOUS
      <4> QED
        BY <4>1, <1>1, <1>4
    <3>2. /\ PhoneOK(p) /\ Apart(p.staged) /\ q \in Seq(UpFrames)
          /\ AimedUp(q, p.staged, mixed) /\ SpoiltAreOver(q, p.staged, Opened, mixed)
          /\ b \in Requests /\ b = q[1].ask /\ WellAsked(b, p.fresh, Opened) /\ b.kind = "send"
      BY <1>1, <1>2, <1>3, <1>4, <1>7, <2>1
    <3> QED
      BY <3>1, <3>2, <2>2, <2>3, <1>2, MakesWhole
  <2>6. PICK ns : ns = ms \o <<m>>
    OBVIOUS
  <2>7. \A i \in DOMAIN ns : ns[i] = m \/ \E k \in DOMAIN ms : ns[i] = ms[k]
    BY <2>6, <1>5
  <2>8. SentOK(ms, Opened, mixed) /\ messages' = ns
    BY <2>3, <2>6, <1>1, <1>3, <1>4
  <2>9. SentOK(ns, Opened, mixed)
    BY <2>4, <2>5, <2>7, <2>8 DEF SentOK
  <2> QED
    BY <2>8, <2>9
<1>8. r.sent = <<>> \/ (f.ask.kind = "send" /\ Makes(p, f, r))
  BY <1>1, <1>4, ServeShape DEF Shrugs, Gives, Puts, Drops, Tells
<1> QED
  BY <1>6, <1>7, <1>8

LEMMA ServesHeld ==
    ASSUME Sound, Sound', Orderly, Held, NEW f, NEW r, NEW a, Serves(f, r, a),
           UNCHANGED <<desk, told, tries, accidents, history>>
    PROVE  Held'
<1>1. /\ phone' = r.p /\ net'.up = Tail(net.up) /\ net.up # <<>>
      /\ Later(phone.staged, phone.fresh, r.p.staged)
  BY ServesParts DEF Serves
<1>2. mixed' = mixed /\ told' = told
  BY DEF history
<1>3. Opened' = Opened
  BY <1>2 DEF Opened
<1>4. /\ phone.fresh \in Nat /\ phone.staged \in SUBSET Places /\ phone'.staged \in SUBSET Places
      /\ net.up \in Seq(UpFrames) /\ AskedUp(net.up, phone.fresh, Opened) /\ Opened \in Nat
  <2>1. phone' \in Phones
    BY DEF Sound, PhoneOK
  <2> QED
    BY <2>1, DeskPieces DEF Sound, NetOK, Phones
<1>5. AimedUp(net.up, phone.staged, mixed) /\ SpoiltAreOver(net.up, phone.staged, Opened, mixed)
  BY DEF Held
<1>6. PICK S, T, n, q, t, top, mix :
         /\ S = phone.staged /\ T = phone'.staged /\ n = phone.fresh /\ q = net.up /\ t = Tail(net.up)
         /\ top = Opened /\ mix = mixed
  OBVIOUS
<1>7. Flow(q, t, {}) /\ \A g \in {} : Aimed(g.ask, T, mix)
  BY <1>1, <1>4, <1>6, FlowTail
<1>8. AimedUp(t, T, mix)
  BY <1>1, <1>4, <1>5, <1>6, <1>7, AimedUpLater
<1>9. SpoiltAreOver(t, T, top, mix)
  <2> SUFFICES ASSUME NEW h \in T, h.alien, h.job \notin mix
               PROVE  Spoilt(h, t, top)
    BY DEF SpoiltAreOver
  <2>1. Soiled(h, S) \/ Spoilt(h, t, top)
    BY <1>1, <1>6, ServesSoils
  <2>2. CASE Soiled(h, S)
    <3>1. PICK U : U = {h}
      OBVIOUS
    <3>2. \A x \in U : x.alien => Soiled(x, S)
      BY <3>1, <2>2
    <3>3. Newest({}, top) /\ top <= top /\ mix \subseteq mix /\ top \in Nat
      BY <1>4, <1>6 DEF Newest
    <3>4. SpoiltAreOver(q, S, top, mix) /\ S \in SUBSET Places
      BY <1>4, <1>5, <1>6
    <3>5. SpoiltAreOver(t, U, top, mix)
      BY <3>2, <3>3, <3>4, <1>7, SpoiltLater
    <3> QED
      BY <3>1, <3>5 DEF SpoiltAreOver
  <2> QED
    BY <2>1, <2>2
<1>10. SentOK(messages', top, mix)
  BY <1>6, ServesSent
<1> QED
  BY <1>1, <1>2, <1>3, <1>6, <1>8, <1>9, <1>10 DEF Held

LEMMA ServesKept ==
    ASSUME Sound, Sound', Orderly, Kept, NEW f, NEW r, NEW a, Serves(f, r, a),
           UNCHANGED <<desk, told, tries, accidents, history>>
    PROVE  Kept'
<1>1. /\ f \in UpFrames /\ PhoneOK(Reached) /\ Reached.staged = phone.staged
      /\ r = Serve(Reached, f) /\ phone' = r.p
      /\ net'.down = Append(net.down, a) /\ a \in Answers /\ a.files = r.ans.files
      /\ Later(phone.staged, phone.fresh, r.p.staged)
  BY ServesParts
<1>2. mixed' = mixed /\ desk' = desk
  BY DEF history
<1>3. /\ desk.upload \in Uploads /\ phone.fresh \in Nat /\ phone'.staged \in SUBSET Places
      /\ \A i \in DOMAIN desk.upload.ids : desk.upload.ids[i] < phone.fresh
      /\ UploadOK(desk.upload, phone.staged, mixed)
      /\ OutOK(desk.out, desk.upload, mixed) /\ RecentDown(net.down, desk, mixed)
      /\ desk.upload.job = 0 => desk.upload = NoUpload
  <2>1. phone' \in Phones
    BY DEF Sound, PhoneOK
  <2>2. DeskOK(desk, phone.fresh, Opened) /\ phone.fresh \in Nat
    BY SoundParts
  <2> QED
    BY <2>1, <2>2 DEF DeskOK, Desks, WellUp, Phones, Kept
<1>4. PICK u, S, T, n, mix : u = desk.upload /\ S = phone.staged /\ T = phone'.staged
         /\ n = phone.fresh /\ mix = mixed
  OBVIOUS
<1>5. UploadOK(u, T, mix)
  BY <1>1, <1>3, <1>4, AlikeSame, UploadLater
<1>6. ASSUME u.stalled, u.job \notin mix
      PROVE  Recent(a, desk)
  <2>1. u.job # 0
    BY <1>3, <1>4, <1>6 DEF NoUpload
  <2>2. Full(u.ids, u.at, S)
    BY <2>1, <1>3, <1>4, <1>6 DEF UploadOK, PutSoFar
  <2>3. PICK p : p = Reached
    OBVIOUS
  <2>4. a.files = {} \/ Tells(p, f, r)
    BY <1>1, <2>3, ServeShape DEF Shrugs, Gives, Puts, Drops, Makes
  <2>5. ASSUME Tells(p, f, r), NEW x \in a.files, NEW i \in DOMAIN u.ids, i < u.at, x.id = u.ids[i]
        PROVE  x.missing = {}
    <3>1. a.files = {[id |-> g.id, missing |-> Missing(g), total |-> Total(g)] : g \in S}
      BY <2>5, <2>3, <1>1, <1>4 DEF Tells, TellOf
    <3>2. PICK g \in S : x = [id |-> g.id, missing |-> Missing(g), total |-> Total(g)]
      BY <3>1, <2>5
    <3> QED
      BY <3>2, <2>2, <2>5 DEF Full
  <2> QED
    BY <2>4, <2>5, <1>4 DEF Recent
<1>7. RecentDown(net'.down, desk, mix)
  <2>1. PICK q : q = net.down
    OBVIOUS
  <2>2. q \in Seq(Notes \cup Answers) /\ a \in Notes \cup Answers
    BY <2>1, <1>1, DeskPieces
  <2>3. Append(q, a) \in Seq(Notes \cup Answers) /\ Grown(q, Append(q, a), {a})
    BY <2>2, OneMore, GrownOne
  <2>4. PICK t : t = Append(q, a)
    OBVIOUS
  <2>5. Flow(q, t, {a})
    BY <2>2, <2>3, <2>4, FlowGrown
  <2>6. RecentDown(q, desk, mix)
    BY <1>3, <1>4, <2>1
  <2>7. \A i \in DOMAIN q : q[i].type = "answer" /\ Timely(desk, q[i].s) => Timely(desk, q[i].s)
    OBVIOUS
  <2>8. desk.upload.stalled => desk.upload.stalled /\ Alike(desk.upload, desk.upload)
    BY AlikeSame
  <2>9. desk.upload.stalled /\ desk.upload.job \notin mix =>
            \A g \in {a} : g.type = "answer" /\ Timely(desk, g.s) => Recent(g, desk)
    BY <1>4, <1>6
  <2>10. PICK d : d = desk
    OBVIOUS
  <2>11. RecentDown(t, d, mix)
    BY <2>5, <2>6, <2>7, <2>8, <2>9, <2>10, StaysRecent
  <2> QED
    BY <2>1, <2>4, <2>10, <2>11, <1>1
<1> QED
  BY <1>2, <1>3, <1>4, <1>5, <1>7 DEF Kept

-----------------------------------------------------------------------------
(* A step of the desktop.                                                  *)

\* What is told is not taken back.
LEMMA StaysTold ==
    ASSUME Sound, SendFiles \/ CancelSend \/ DeskHears
    PROVE  \A j \in Jobs : told[j] # "none" => told'[j] # "none"
<1>1. told \in [Jobs -> Fates]
  BY DEF Sound, BooksOK
<1>2. \E x \in Jobs \cup {0}, fate \in Fates \ {"none"} : told' = told \/ told' = [told EXCEPT ![x] = fate]
  <2>1. CASE SendFiles
    <3>1. "open" \in Fates \ {"none"} /\ "dropped" \in Fates \ {"none"}
      BY DEF Fates
    <3>2. \E j \in Jobs : \E b : told' = [told EXCEPT ![j] = IF b THEN "open" ELSE "dropped"]
      BY <2>1 DEF SendFiles
    <3>3. PICK j \in Jobs : \E b : told' = [told EXCEPT ![j] = IF b THEN "open" ELSE "dropped"]
      BY <3>2
    <3>4. PICK b : told' = [told EXCEPT ![j] = IF b THEN "open" ELSE "dropped"]
      BY <3>3
    <3>5. PICK fate \in Fates \ {"none"} : fate = IF b THEN "open" ELSE "dropped"
      BY <3>1
    <3>6. told' = [told EXCEPT ![j] = fate] /\ j \in Jobs \cup {0}
      BY <3>4, <3>5
    <3> QED
      BY <3>6
  <2>2. CASE CancelSend
    <3>1. Told(desk, "cancelled") /\ "cancelled" \in Fates \ {"none"} /\ desk.upload.job \in Jobs \cup {0}
      BY <2>2 DEF CancelSend, Fates, Sound, DeskOK, Desks, Uploads
    <3> QED
      BY <3>1 DEF Told
  <2>3. CASE DeskHears
    <3>1. PICK f : f = Head(net.down)
      OBVIOUS
    <3>2. \/ HearReply(f) \/ HearRevoked(f) \/ HearNothing(f)
          \/ HearProgress(f) \/ (Heard(f) /\ (HearEnd(f) \/ HearOther(f)))
      BY <2>3, <3>1 DEF DeskHears, Heard
    <3>3. /\ "sent" \in Fates \ {"none"} /\ "stopped" \in Fates \ {"none"} /\ 0 \in Jobs \cup {0}
          /\ desk.upload.job \in Jobs \cup {0}
      BY DEF Fates, Sound, DeskOK, Desks, Uploads
    <3>4. CASE HearReply(f) \/ HearNothing(f) \/ HearProgress(f)
      BY <3>3, <3>4 DEF HearReply, HearNothing, HearProgress
    <3>5. CASE HearRevoked(f)
      BY <3>3, <3>5 DEF HearRevoked, Told
    <3>6. CASE Heard(f) /\ HearEnd(f)
      <4>1. PICK d : d = Answered(desk, f)
        OBVIOUS
      <4>2. f \in Answers /\ DeskOK(d, phone.fresh, Opened)
        BY <3>6, <4>1, HeardFacts
      <4>3. f.ask.job \in Jobs \cup {0} /\ d.upload.job \in Jobs \cup {0}
        BY <4>2 DEF Answers, Requests, DeskOK, Desks, Uploads
      <4>4. \/ told' = [told EXCEPT ![f.ask.job] = "sent"] \/ told' = told
            \/ told' = [told EXCEPT ![d.upload.job] = "stopped"]
        BY <3>6, <4>1 DEF HearEnd
      <4> QED
        BY <4>3, <4>4, <3>3
    <3>7. CASE HearOther(f)
      BY <3>3, <3>7 DEF HearOther
    <3> QED
      BY <3>2, <3>4, <3>5, <3>6, <3>7
  <2> QED
    BY <2>1, <2>2, <2>3
<1>3. PICK x \in Jobs \cup {0}, fate \in Fates \ {"none"} : told' = told \/ told' = [told EXCEPT ![x] = fate]
  BY <1>2
<1> QED
  BY <1>1, <1>3

\* The desktop's table and upload, and what comes down.
LEMMA DeskKept ==
    ASSUME phone' = phone, UploadOK(desk'.upload, phone.staged, mixed'),
           OutOK(desk'.out, desk'.upload, mixed'), RecentDown(net'.down, desk', mixed')
    PROVE  Kept'
BY DEF Kept

\* Requests aim where they should, whatever carries them.
LEMMA CarriedAims ==
    ASSUME NEW F, NEW s, NEW as, Carries(F, s, as), NEW S, NEW mix, \A a \in as : Aimed(a, S, mix)
    PROVE  \A f \in F : Aimed(f.ask, S, mix)
BY DEF Carries

LEMMA CarriedNewest ==
    ASSUME NEW F, NEW s, NEW as, Carries(F, s, as), NEW top, \A a \in as : a.job \in {0, top}
    PROVE  Newest(F, top)
BY DEF Carries, Newest

LEMMA SendFilesHeld ==
    ASSUME Sound, Sound', Held, Orderly, SendFiles
    PROVE  Held'
<1>1. PICK j, u, a, o, up : Sends(j, u, a, o, up)
  BY SendFilesShape
<1>2. phone' = phone /\ messages' = messages /\ mixed' = mixed
  BY DEF SendFiles, history
<1>3. PICK F : Flow(net.up, up, F) /\ Carries(F, desk.session, {a})
  BY <1>1, PostedFlow, DeskPieces DEF Sends
<1>4. a.kind = "offer" /\ a.job = Opened' /\ net'.up = up
  BY <1>1 DEF Sends, FileOffer, RequestOf, NoUpload
<1>5. PICK as, S, mix : as = {a} /\ S = phone.staged /\ mix = mixed
  OBVIOUS
<1>6. \A b \in as : Aimed(b, S, mix)
  BY <1>4, <1>5, AimedElse
<1>7. \A f \in F : Aimed(f.ask, S, mix)
  BY <1>3, <1>5, <1>6, CarriedAims
<1>8. Newest(F, Opened')
  BY <1>3, <1>4, CarriedNewest
<1>9. \A i \in Jobs : told[i] # "none" => told'[i] # "none"
  BY StaysTold
<1> QED
  BY <1>2, <1>3, <1>4, <1>5, <1>7, <1>8, <1>9, DeskHeld

LEMMA SendFilesKept ==
    ASSUME Sound, Sound', Kept, Orderly, SendFiles
    PROVE  Kept'
<1>1. PICK j, u, a, o, up : Sends(j, u, a, o, up)
  BY SendFilesShape
<1>2. phone' = phone /\ mixed' = mixed
  BY DEF SendFiles, history
<1>3. /\ j = Opened + 1 /\ j \in Jobs /\ u = [NoUpload EXCEPT !.job = j, !.at = 1]
      /\ a = FileOffer(u, 1) /\ desk'.out = o /\ desk'.upload \in {u, NoUpload}
      /\ Len(o) <= Len(desk.out) + 1 /\ o \in Seq(Requests) /\ Grown(desk.out, o, {a})
  BY <1>1 DEF Sends, Posting
<1>4. /\ u.job = j /\ u.at = 1 /\ u.ids = <<>> /\ ~u.stalled /\ a.job = j
  BY <1>3 DEF NoUpload, FileOffer, RequestOf
<1>5. CASE desk'.upload = NoUpload
  BY <1>2, <1>5, NoUploadKept, DeskKept
<1>6. CASE desk'.upload = u
  <2>1. j \in Nat /\ Len(Sizes[j]) >= 1 /\ Len(Sizes[j]) \in Nat
    BY <1>3, JobFacts
  <2>2. PutSoFar(u, phone.staged)
    <3>1. Len(<<>>) = 0 /\ DOMAIN <<>> = {}
      OBVIOUS
    <3> QED
      BY <2>1, <3>1, <1>4 DEF PutSoFar, Mine, Full
  <2>3. Expected(u) = a
    <3>1. Len(<<>>) = 0
      OBVIOUS
    <3> QED
      BY <2>1, <3>1, <1>3, <1>4 DEF Expected
  <2>4. \A i \in DOMAIN desk.out : ~IsStep(desk.out[i], j)
    <3>1. \A i \in DOMAIN desk.out : desk.out[i].job <= Opened
      BY DEF Sound, DeskOK, AskedOut, WellAsked
    <3>2. Opened \in Nat
      BY DeskPieces
    <3> QED
      BY <3>1, <3>2, <1>3 DEF IsStep
  <2>5. desk.out \in Seq(Requests)
    BY DeskPieces DEF Desks
  <2>6. \A i \in DOMAIN o : IsStep(o[i], j) => i = Len(desk.out) + 1 /\ o[i] = a
    <3> SUFFICES ASSUME NEW i \in DOMAIN o, IsStep(o[i], j)
                 PROVE  i = Len(desk.out) + 1 /\ o[i] = a
      OBVIOUS
    <3>1. ~(i <= Len(desk.out))
      BY <2>4, <1>3 DEF Grown
    <3>2. i \in Nat /\ i <= Len(o) /\ Len(desk.out) \in Nat /\ Len(o) \in Nat
      BY <1>3, <2>5
    <3> QED
      BY <3>1, <3>2, <1>3 DEF Grown
  <2>7. OneStep(o, u)
    BY <2>3, <2>6, <1>4 DEF OneStep
  <2>8. UploadOK(u, phone.staged, mixed) /\ OutOK(o, u, mixed)
    BY <2>2, <2>7, <1>4 DEF UploadOK, OutOK
  <2>9. RecentDown(net'.down, desk', mixed)
    BY <1>4, <1>6 DEF RecentDown
  <2> QED
    BY <2>8, <2>9, <1>2, <1>3, <1>6, DeskKept
<1> QED
  BY <1>3, <1>5, <1>6

LEMMA CancelSendFaithful ==
    ASSUME Sound, Sound', Held, Orderly, CancelSend
    PROVE  Held' /\ Kept'
<1>1. PICK as, o, up : Cancels(as, o, up)
  BY CancelSendShape
<1>2. phone' = phone /\ messages' = messages /\ mixed' = mixed
  BY DEF CancelSend, history
<1>3. PICK F : Flow(net.up, up, F) /\ Carries(F, desk.session, as)
  BY <1>1, PostedFlow, DeskPieces DEF Cancels
<1>4. net'.up = up /\ desk'.upload = NoUpload
  BY <1>1 DEF Cancels
<1>5. PICK S, mix : S = phone.staged /\ mix = mixed
  OBVIOUS
<1>6. \A a \in as : Aimed(a, S, mix)
  BY <1>1, AimedElse DEF Cancels
<1>7. \A f \in F : Aimed(f.ask, S, mix)
  BY <1>3, <1>6, CarriedAims
<1>8. \A a \in as : a.job \in {0, Opened'}
  <2>1. Told(desk, "cancelled") /\ "cancelled" \in Fates \ {"none"}
    BY DEF CancelSend, Fates
  <2>2. OpenedInOrder /\ told \in [Jobs -> Fates] /\ DeskOK(desk, phone.fresh, Opened)
    BY SoundParts DEF BooksOK
  <2>3. Opened' = Opened
    BY <2>1, <2>2, ToldOf
  <2>4. desk.upload.job \in {0, Opened}
    BY <2>2 DEF DeskOK, WellUp
  <2> QED
    BY <2>3, <2>4, <1>1 DEF Cancels
<1>9. Newest(F, Opened')
  BY <1>3, <1>8, CarriedNewest
<1>10. \A i \in Jobs : told[i] # "none" => told'[i] # "none"
  BY StaysTold
<1>11. Held'
  BY <1>2, <1>3, <1>4, <1>5, <1>7, <1>9, <1>10, DeskHeld
<1>12. Kept'
  BY <1>2, <1>4, NoUploadKept, DeskKept
<1> QED
  BY <1>11, <1>12

LEMMA ReachFaithful ==
    ASSUME Sound, Sound', Held, Kept, Orderly, NEW again, Reach(again)
    PROVE  Held' /\ Kept'
<1>1. PICK f : f = [type |-> "hello", s |-> tries', ask |-> Plain("none")]
  OBVIOUS
<1>2. /\ tries' = tries + 1 /\ desk.session = 0
      /\ desk' = [desk EXCEPT !.pending = tries']
      /\ net' = [net EXCEPT !.up = Append(@, f)]
      /\ phone' = phone /\ messages' = messages /\ told' = told /\ mixed' = mixed
  BY <1>1 DEF Reach, history
<1>3. tries \in Nat /\ desk \in Desks /\ net \in Nets /\ net.up \in Seq(UpFrames)
  BY DeskPieces
<1>4. /\ desk'.session = 0 /\ desk'.pending = tries + 1 /\ desk'.out = desk.out
      /\ desk'.upload = desk.upload
      /\ net'.up = Append(net.up, f) /\ net'.down = net.down
  BY <1>2, <1>3 DEF Desks, Nets
<1>5. f \in UpFrames
  <2>1. tries' \in 1..MaxTries
    BY <1>2, <1>3, CompanionAssumption DEF Sound, BooksOK
  <2>2. Plain("none") \in Requests
    BY PlainOK DEF Plains
  <2> QED
    BY <2>1, <2>2, <1>1 DEF UpFrames
<1>6. Flow(net.up, net'.up, {f})
  <2>1. PICK q : q = net.up
    OBVIOUS
  <2>2. q \in Seq(UpFrames)
    BY <2>1, DeskPieces
  <2>3. Append(q, f) \in Seq(UpFrames) /\ Grown(q, Append(q, f), {f})
    BY <2>2, <1>5, OneMore, GrownOne
  <2>4. Flow(q, Append(q, f), {f})
    BY <2>2, <2>3, FlowGrown
  <2> QED
    BY <2>1, <2>4, <1>4
<1>7. /\ Newest({f}, Opened')
      /\ \A g \in {f} : Aimed(g.ask, phone.staged, mixed')
  BY <1>1, PlainFacts, AimedElse DEF Newest
<1>8. Held'
  BY <1>2, <1>6, <1>7, DeskHeld
<1>9. \A i \in DOMAIN net.down : Timely(desk', net.down[i].s) => Timely(desk, net.down[i].s)
  <2>1. \A i \in DOMAIN net.down : net.down[i].s \in Nat /\ net.down[i].s <= tries
    BY DownSessions, DeskPieces
  <2> QED
    BY <2>1, <1>2, <1>3, <1>4 DEF Timely
<1>10. RecentDown(net'.down, desk', mixed)
  BY <1>4, <1>9 DEF RecentDown, Recent, Kept
<1> QED
  BY <1>2, <1>4, <1>8, <1>10, DeskKept DEF Kept

-----------------------------------------------------------------------------
(* The desktop hears.                                                      *)

\* ... and nothing goes up.
LEMMA QuietHeld ==
    ASSUME Sound, Sound', Held, Orderly, DeskHears, mixed \subseteq mixed', net'.up = net.up
    PROVE  Held'
<1>1. phone' = phone /\ messages' = messages
  BY DEF DeskHears
<1>2. \A j \in Jobs : told[j] # "none" => told'[j] # "none"
  BY StaysTold
<1>3. Flow(net.up, net'.up, {})
  BY DeskPieces, FlowSame
<1>4. Newest({}, Opened') /\ \A f \in {} : Aimed(f.ask, phone.staged, mixed')
  BY DEF Newest
<1> QED
  BY <1>1, <1>2, <1>3, <1>4, DeskHeld

\* ... and the upload is as before, or none.
LEMMA QuietKept ==
    ASSUME Sound, Sound', Kept, Orderly, phone' = phone, mixed' = mixed,
           desk'.upload = desk.upload, Flow(net.down, net'.down, {}),
           OutOK(desk'.out, desk'.upload, mixed'),
           \A i \in DOMAIN net.down : Timely(desk', net.down[i].s) => Timely(desk, net.down[i].s)
    PROVE  Kept'
<1>1. PICK d, e, q, r, mix : d = desk /\ e = desk' /\ q = net.down /\ r = net'.down /\ mix = mixed
  OBVIOUS
<1>2. Flow(q, r, {}) /\ RecentDown(q, d, mix)
  BY <1>1 DEF Kept
<1>3. e.upload.stalled => d.upload.stalled /\ Alike(d.upload, e.upload)
  BY <1>1, AlikeSame
<1>4. \A i \in DOMAIN q : q[i].type = "answer" /\ Timely(e, q[i].s) => Timely(d, q[i].s)
  BY <1>1
<1>5. RecentDown(r, e, mix)
  BY <1>2, <1>3, <1>4, StaysRecent
<1> QED
  BY <1>1, <1>5, DeskKept DEF Kept

LEMMA HearReplyFaithful ==
    ASSUME Sound, Sound', Held, Kept, Orderly, DeskHears, NEW f, f = Head(net.down), HearReply(f)
    PROVE  Held' /\ Kept'
<1>1. net.down # <<>> /\ phone' = phone /\ messages' = messages /\ told' = told /\ mixed' = mixed
  BY DEF DeskHears, HearReply, history
<1>2. Mislinks \/ \E as, o, up : Links(f, as, o, up)
  BY <1>1, HearReplyShape
<1>3. net'.down = Tail(net.down)
  BY <1>2 DEF Mislinks, Links
<1>4. Flow(net.down, net'.down, {}) /\ desk \in Desks /\ net.up \in Seq(UpFrames)
  BY <1>1, <1>3, DownFlows, DeskPieces
<1>5. CASE Mislinks
  <2>1. /\ desk'.session = desk.session /\ desk'.pending = 0 /\ desk'.out = desk.out
        /\ desk'.upload = desk.upload /\ net'.up = net.up
    BY <1>5, <1>4 DEF Mislinks, Desks
  <2>2. \A i \in DOMAIN net.down : Timely(desk', net.down[i].s) => Timely(desk, net.down[i].s)
    BY <2>1, DownSessions DEF Timely
  <2>3. OutOK(desk'.out, desk'.upload, mixed')
    BY <2>1, <1>1 DEF Kept
  <2>4. Kept'
    BY <2>1, <2>2, <2>3, <1>1, <1>4, QuietKept
  <2> QED
    BY <2>1, <2>4, <1>1, QuietHeld
<1>6. CASE \E as, o, up : Links(f, as, o, up)
  <2>1. PICK as, o, up : Links(f, as, o, up)
    BY <1>6
  <2>2. /\ desk'.session = desk.pending /\ desk'.pending = 0 /\ desk'.upload = desk.upload
        /\ desk'.out = o /\ net'.up = up /\ Posting(f.s, <<>>, net.up, o, up, as)
        /\ \A a \in as : \E kind \in Plains : a = Plain(kind)
    BY <2>1 DEF Links
  <2>3. PICK F : Flow(net.up, up, F) /\ Carries(F, f.s, as)
    BY <2>2, <1>4, PostedFlow
  <2>4. \A a \in as : a.kind \in Plains /\ a.job = 0
    BY <2>2, PlainFacts
  <2>5. PICK S, mix : S = phone.staged /\ mix = mixed
    OBVIOUS
  <2>6. \A a \in as : Aimed(a, S, mix)
    BY <2>4, AimedElse DEF Plains
  <2>7. \A g \in F : Aimed(g.ask, S, mix)
    BY <2>3, <2>6, CarriedAims
  <2>8. Newest(F, Opened')
    BY <2>3, <2>4, CarriedNewest
  <2>9. Held'
    BY <2>2, <2>3, <2>5, <2>7, <2>8, <1>1, DeskHeld
  <2>10. NoSteps(o)
    <3>1. PICK none : none = <<>>
      OBVIOUS
    <3>2. Len(none) = 0 /\ o \in Seq(Requests) /\ Grown(none, o, as)
      BY <2>2, <3>1 DEF Posting
    <3>3. \A i \in DOMAIN o : o[i] \in as
      <4> SUFFICES ASSUME NEW i \in DOMAIN o
                   PROVE  o[i] \in as
        OBVIOUS
      <4>1. i \in Nat /\ i >= 1 /\ ~(i <= Len(none))
        BY <3>2
      <4> QED
        BY <3>2, <4>1 DEF Grown
    <3> QED
      BY <3>3, <2>4 DEF NoSteps, Plains, Steps
  <2>11. OutOK(desk'.out, desk'.upload, mixed')
    BY <2>2, <2>10 DEF OutOK, OneStep, NoSteps, IsStep
  <2>12. \A i \in DOMAIN net.down : Timely(desk', net.down[i].s) => Timely(desk, net.down[i].s)
    BY <2>2, DownSessions DEF Timely
  <2>13. Kept'
    BY <2>2, <2>11, <2>12, <1>1, <1>4, QuietKept
  <2> QED
    BY <2>9, <2>13
<1> QED
  BY <1>2, <1>5, <1>6

LEMMA HearRevokedFaithful ==
    ASSUME Sound, Sound', Held, Kept, Orderly, DeskHears, NEW f, f = Head(net.down), HearRevoked(f)
    PROVE  Held' /\ Kept'
<1>1. /\ desk' = Revoked(desk) /\ net' = [net EXCEPT !.down = Tail(@)]
      /\ mixed' = mixed /\ phone' = phone
  BY DEF HearRevoked, DeskHears, history
<1>2. desk \in Desks /\ net \in Nets
  BY DeskPieces
<1>3. desk'.upload = NoUpload /\ net'.up = net.up
  BY <1>1, <1>2 DEF Revoked, Desks, Nets
<1> QED
  BY <1>1, <1>3, QuietHeld, NoUploadKept, DeskKept

LEMMA HearNothingFaithful ==
    ASSUME Sound, Sound', Held, Kept, Orderly, DeskHears, NEW f, f = Head(net.down), HearNothing(f)
    PROVE  Held' /\ Kept'
<1>1. /\ desk' = desk /\ net' = [net EXCEPT !.down = Tail(@)]
      /\ mixed' = mixed /\ phone' = phone /\ net.down # <<>>
  BY DEF HearNothing, DeskHears, history
<1>2. net'.up = net.up /\ net'.down = Tail(net.down)
  BY <1>1, DeskPieces DEF Nets
<1>3. Flow(net.down, net'.down, {})
  BY <1>1, <1>2, DownFlows
<1>4. OutOK(desk'.out, desk'.upload, mixed')
  BY <1>1 DEF Kept
<1>5. \A i \in DOMAIN net.down : Timely(desk', net.down[i].s) => Timely(desk, net.down[i].s)
  BY <1>1
<1> QED
  BY <1>1, <1>2, <1>3, <1>4, <1>5, QuietHeld, QuietKept

\* With one question struck out the table is still well.
LEMMA StruckOutOK ==
    ASSUME NEW q, NEW r, NEW at, Struck(q, r, at), NEW u, NEW mix, OutOK(q, u, mix)
    PROVE  OutOK(r, u, mix)
<1>1. u.stalled => NoSteps(r)
  BY DEF OutOK, NoSteps, Struck
<1>2. ASSUME OneStep(q, u)
      PROVE  OneStep(r, u)
  <2>1. \A i \in DOMAIN r : \E k \in DOMAIN q : r[i] = q[k]
    BY DEF Struck
  <2>2. \A i, k \in DOMAIN r : IsStep(r[i], u.job) /\ IsStep(r[k], u.job) => i = k
    BY <1>2 DEF Struck, OneStep
  <2> QED
    BY <2>1, <2>2, <1>2 DEF OneStep
<1> QED
  BY <1>1, <1>2 DEF OutOK

LEMMA SettlesKept ==
    ASSUME Sound, Sound', Kept, Orderly, DeskHears, NEW f, NEW at, NEW r, Settles(f, at, r),
           desk'.upload = NoUpload \/ mixed' = mixed
    PROVE  Kept'
<1>1. /\ desk'.session = desk.session /\ desk'.pending = desk.pending /\ desk'.out = r
      /\ desk'.upload \in {desk.upload, NoUpload} /\ net'.down = Tail(net.down)
      /\ Struck(desk.out, r, at)
  BY DEF Settles, StrikesOut
<1>2. phone' = phone /\ net.down # <<>>
  BY DEF DeskHears
<1>3. CASE desk'.upload = NoUpload
  BY <1>2, <1>3, NoUploadKept, DeskKept
<1>4. CASE desk'.upload # NoUpload
  <2>1. mixed' = mixed /\ desk'.upload = desk.upload
    BY <1>1, <1>4
  <2>2. PICK u, mix, q : u = desk.upload /\ mix = mixed /\ q = desk.out
    OBVIOUS
  <2>3. OutOK(r, u, mix)
    BY <2>2, <1>1, StruckOutOK DEF Kept
  <2>4. Flow(net.down, net'.down, {})
    BY <1>1, <1>2, DownFlows
  <2>5. \A i \in DOMAIN net.down : Timely(desk', net.down[i].s) => Timely(desk, net.down[i].s)
    BY <1>1 DEF Timely
  <2> QED
    BY <2>1, <2>2, <2>3, <2>4, <2>5, <1>1, <1>2, QuietKept
<1> QED
  BY <1>3, <1>4

LEMMA HearEndFaithful ==
    ASSUME Sound, Sound', Held, Kept, Orderly, DeskHears, NEW f, Heard(f), HearEnd(f)
    PROVE  Held' /\ Kept'
<1>1. PICK at, r : Settles(f, at, r)
  BY HearEndShape
<1>2. desk'.upload = NoUpload
  BY HearEndShape
<1>3. mixed \subseteq mixed'
  BY DEF HearEnd
<1>4. net'.up = net.up
  BY <1>1 DEF Settles
<1> QED
  BY <1>1, <1>2, <1>3, <1>4, QuietHeld, SettlesKept

LEMMA HearOtherFaithful ==
    ASSUME Sound, Sound', Held, Kept, Orderly, DeskHears, NEW f, Heard(f), HearOther(f)
    PROVE  Held' /\ Kept'
<1>1. PICK at, r : Settles(f, at, r)
  BY HearOtherShape
<1>2. mixed' = mixed
  BY DEF HearOther, history
<1>3. net'.up = net.up
  BY <1>1 DEF Settles
<1> QED
  BY <1>1, <1>2, <1>3, QuietHeld, SettlesKept

-----------------------------------------------------------------------------
(* A step of an upload keeps what it has put.                              *)

\* The step is to an upload that is well, and asks for what it waits for.
Onward(step, S) ==
    \E v, rs : /\ step = Step(v, rs) /\ PutSoFar(v, S)
               /\ \A a \in ToSet(rs) : a = Expected(v)

\* What is waited for aims where it should.
LEMMA ExpectedAims ==
    ASSUME NEW v \in Uploads, v.job \in Jobs, NEW S, PutSoFar(v, S), NEW mix
    PROVE  Aimed(Expected(v), S, mix)
<1>1. Len(Sizes[v.job]) \in Nat /\ v.at \in Nat /\ v.ids \in Seq(Nat) /\ Len(v.ids) \in Nat
  BY JobFacts DEF Uploads
<1>2. PICK a : a = Expected(v)
  OBVIOUS
<1>3. CASE v.at > Len(Sizes[v.job])
  <2>1. a = FileSend(v)
    BY <1>2, <1>3 DEF Expected
  <2>2. a.kind = "send" /\ a.job = v.job /\ a.ids = v.ids
    BY <2>1 DEF FileSend, RequestOf
  <2>3. Len(v.ids) = Len(Sizes[v.job]) /\ Mine(v.ids, v.job, S)
    BY <1>1, <1>3 DEF PutSoFar
  <2> QED
    BY <2>2, <2>3, <1>2 DEF Aimed
<1>4. CASE ~(v.at > Len(Sizes[v.job])) /\ Len(v.ids) = v.at
  <2>1. a = FilePut(v, v.at, v.next)
    BY <1>2, <1>4 DEF Expected
  <2>2. a.kind = "put" /\ a.job = v.job /\ a.which = v.at /\ a.ids[1] = v.ids[v.at]
    BY <2>1 DEF FilePut, RequestOf
  <2>3. v.at \in DOMAIN v.ids
    BY <1>1, <1>4 DEF PutSoFar
  <2>4. \A g \in S : g.id = v.ids[v.at] => g.job = v.job /\ g.pos = v.at
    BY <2>3 DEF PutSoFar, Mine
  <2> QED
    BY <2>2, <2>4, <1>2 DEF Aimed
<1>5. CASE ~(v.at > Len(Sizes[v.job])) /\ Len(v.ids) # v.at
  <2>1. a = FileOffer(v, v.at)
    BY <1>2, <1>5 DEF Expected
  <2>2. a.kind \notin {"put", "send"}
    BY <2>1 DEF FileOffer, RequestOf
  <2> QED
    BY <2>2, <1>2, AimedElse
<1> QED
  BY <1>3, <1>4, <1>5

LEMMA ChunkOnward ==
    ASSUME NEW u \in Uploads, u.job \in Jobs, NEW S, PutSoFar(u, S)
    PROVE  Onward(NeedChunk(u, u.at, u.next), S)
<1>1. PICK a : a = FilePut(u, u.at, u.next)
  OBVIOUS
<1>2. PICK rs : rs = IF /\ ~u.stalled /\ u.next = u.next
                        /\ u.at <= Len(u.ids) /\ u.at <= Len(Sizes[u.job])
                     THEN <<a>> ELSE <<>>
  OBVIOUS
<1>3. NeedChunk(u, u.at, u.next) = Step(u, rs)
  BY <1>1, <1>2 DEF NeedChunk
<1>4. ASSUME NEW b \in ToSet(rs)
      PROVE  b = Expected(u)
  <2>1. ToSet(<<>>) = {} /\ ToSet(<<a>>) = {a}
    BY DEF ToSet
  <2>2. b = a /\ u.at <= Len(u.ids) /\ u.at <= Len(Sizes[u.job])
    BY <2>1, <1>2, <1>4
  <2>3. u.at \in Nat /\ Len(u.ids) \in Nat /\ Len(Sizes[u.job]) \in Nat
    BY JobFacts DEF Uploads
  <2>4. Len(u.ids) = u.at /\ ~(u.at > Len(Sizes[u.job]))
    BY <2>2, <2>3 DEF PutSoFar
  <2> QED
    BY <2>2, <2>4, <1>1 DEF Expected
<1> QED
  BY <1>3, <1>4 DEF Onward

LEMMA AdvancedOnward ==
    ASSUME NEW u \in Uploads, u.job \in Jobs, u.at \in DOMAIN Sizes[u.job], Len(u.ids) = u.at,
           NEW S, Mine(u.ids, u.job, S), Full(u.ids, u.at + 1, S)
    PROVE  Onward(Advanced(u), S)
<1>1. PICK v : v = [u EXCEPT !.at = @ + 1]
  OBVIOUS
<1>2. PICK a : a = IF v.at <= Len(Sizes[u.job]) THEN FileOffer(v, v.at) ELSE FileSend(v)
  OBVIOUS
<1>3. Advanced(u) = Step(v, <<a>>)
  BY <1>1, <1>2 DEF Advanced
<1>4. /\ v.ids = u.ids /\ v.at = u.at + 1 /\ v.job = u.job
      /\ u.at \in Nat /\ u.at >= 1 /\ u.at <= Len(Sizes[u.job]) /\ Len(Sizes[u.job]) \in Nat
  BY <1>1, JobFacts DEF Uploads
<1>5. PutSoFar(v, S)
  BY <1>4 DEF PutSoFar
<1>6. a = Expected(v)
  BY <1>2, <1>4 DEF Expected
<1>7. ToSet(<<a>>) = {a}
  BY DEF ToSet
<1> QED
  BY <1>3, <1>5, <1>6, <1>7 DEF Onward

LEMMA PlacedOnward ==
    ASSUME NEW u \in Uploads, u.job \in Jobs, u.at \in DOMAIN Sizes[u.job], Len(u.ids) = u.at - 1,
           NEW S \in SUBSET Places, PutSoFar(u, S), NEW id \in Nat,
           NEW total, total = Sizes[u.job][u.at],
           \A g \in S : g.id = id => g.job = u.job /\ g.pos = u.at
    PROVE  Onward(Placed(u, id, total), S)
<1>1. PICK v : v = [u EXCEPT !.ids = Append(@, id), !.total = total, !.next = 0]
  OBVIOUS
<1>2. /\ u.ids \in Seq(Nat) /\ total \in Nat /\ u.at \in Nat /\ u.at >= 1
      /\ u.at <= Len(Sizes[u.job]) /\ Len(Sizes[u.job]) \in Nat /\ DOMAIN Sizes[u.job] = 1..Len(Sizes[u.job])
  BY JobFacts DEF Uploads
<1>3. v.ids = Append(u.ids, id) /\ v.total = total /\ v.next = 0 /\ v.at = u.at /\ v.job = u.job
  BY <1>1 DEF Uploads
<1>4. /\ v.ids \in Seq(Nat) /\ Len(v.ids) = u.at
      /\ \A i \in DOMAIN v.ids : IF i = u.at THEN v.ids[i] = id ELSE i \in DOMAIN u.ids /\ v.ids[i] = u.ids[i]
  <2>1. PICK q, k : q = u.ids /\ k = u.at
    OBVIOUS
  <2>2. q \in Seq(Nat) /\ Len(q) = k - 1 /\ k \in Nat /\ Len(q) \in Nat
    BY <2>1, <1>2
  <2>3. /\ Append(q, id) \in Seq(Nat) /\ Len(Append(q, id)) = k
        /\ \A i \in DOMAIN Append(q, id) :
               IF i = k THEN Append(q, id)[i] = id ELSE i \in DOMAIN q /\ Append(q, id)[i] = q[i]
    BY <2>2
  <2> QED
    BY <2>1, <2>3, <1>3
<1>5. v \in Uploads
  BY <1>1, <1>2, <1>3, <1>4 DEF Uploads
<1>6. Mine(v.ids, v.job, S)
  BY <1>3, <1>4 DEF PutSoFar, Mine
<1>7. Full(v.ids, u.at, S)
  <2>1. \A i \in DOMAIN v.ids : i < u.at => i # u.at
    BY <1>2, <1>4
  <2>2. \A i \in DOMAIN v.ids : i < u.at => i \in DOMAIN u.ids /\ v.ids[i] = u.ids[i]
    BY <2>1, <1>4
  <2>3. Full(u.ids, u.at, S)
    BY DEF PutSoFar
  <2> QED
    BY <2>2, <2>3 DEF Full
<1>8. \A g \in S : g.id = v.ids[u.at] => Total(g) = total
  <2>1. v.ids[u.at] = id
    BY <1>2, <1>4
  <2> QED
    BY <2>1 DEF Total
<1>9. CASE total = 0
  <2>1. \A g \in S : g.id = v.ids[u.at] => Missing(g) = {}
    BY <1>8, <1>9 DEF Missing
  <2>2. \A i \in DOMAIN v.ids : i < u.at + 1 => i < u.at \/ i = u.at
    BY <1>2, <1>4
  <2>3. Full(v.ids, u.at + 1, S)
    BY <2>1, <2>2, <1>7 DEF Full
  <2>4. Placed(u, id, total) = Advanced(v)
    BY <1>1, <1>9 DEF Placed
  <2> QED
    BY <2>3, <2>4, <1>3, <1>4, <1>5, <1>6, AdvancedOnward
<1>10. CASE total # 0
  <2>1. Laying(v, S)
    <3>1. 0 < total /\ 0..(0 - 1) = {}
      BY <1>2, <1>10
    <3> QED
      BY <3>1, <1>3, <1>8 DEF Laying
  <2>2. PutSoFar(v, S)
    BY <2>1, <1>2, <1>3, <1>4, <1>6, <1>7 DEF PutSoFar
  <2>3. Placed(u, id, total) = NeedChunk(v, v.at, v.next)
    BY <1>1, <1>3, <1>10 DEF Placed
  <2> QED
    BY <2>2, <2>3, <1>3, <1>5, ChunkOnward
<1> QED
  BY <1>9, <1>10

LEMMA LaidOnward ==
    ASSUME NEW u \in Uploads, u.job \in Jobs, u.at \in DOMAIN Sizes[u.job], Len(u.ids) = u.at,
           NEW S \in SUBSET Places, PutSoFar(u, S),
           \A g \in S : g.id = u.ids[u.at] => u.next \in g.have
    PROVE  Onward(Laid(u), S)
<1>1. PICK v : v = [u EXCEPT !.next = @ + 1]
  OBVIOUS
<1>2. /\ u.at \in Nat /\ u.next \in Nat /\ u.total \in Nat /\ v \in Uploads
      /\ v.ids = u.ids /\ v.at = u.at /\ v.job = u.job /\ v.total = u.total /\ v.next = u.next + 1
  BY <1>1 DEF Uploads
<1>3. Laying(u, S)
  BY DEF PutSoFar
<1>4. \A g \in S : g.id = u.ids[u.at] => u.total = Total(g) /\ 0..u.next \subseteq g.have
  <2>1. \A k \in 0..u.next : k \in 0..(u.next - 1) \/ k = u.next
    BY <1>2
  <2> QED
    BY <2>1, <1>3 DEF Laying
<1>5. CASE v.next < v.total
  <2>1. v.next - 1 = u.next
    BY <1>2
  <2>2. Laying(v, S)
    BY <2>1, <1>2, <1>4, <1>5 DEF Laying
  <2>3. PutSoFar(v, S)
    BY <2>2, <1>2 DEF PutSoFar
  <2>4. Laid(u) = NeedChunk(v, v.at, v.next)
    BY <1>1, <1>5 DEF Laid
  <2> QED
    BY <2>3, <2>4, <1>2, ChunkOnward
<1>6. CASE ~(v.next < v.total)
  <2>1. u.total - 1 = u.next
    BY <1>2, <1>3, <1>6 DEF Laying
  <2>2. \A g \in S : g.id = u.ids[u.at] => Missing(g) = {}
    BY <2>1, <1>4 DEF Missing
  <2>3. \A i \in DOMAIN u.ids : i < u.at + 1 => i < u.at \/ i = u.at
    BY <1>2 DEF Uploads
  <2>4. Full(v.ids, v.at + 1, S)
    BY <2>2, <2>3, <1>2 DEF PutSoFar, Full
  <2>5. Mine(v.ids, v.job, S)
    BY <1>2 DEF PutSoFar
  <2>6. Laid(u) = Advanced(v)
    BY <1>1, <1>6 DEF Laid
  <2> QED
    BY <2>4, <2>5, <2>6, <1>2, AdvancedOnward
<1> QED
  BY <1>5, <1>6

\* What is told to be missing in the place of a file, by an answer that is true.
Telling(files, u, S) ==
    /\ \A x \in files : x.total \in Nat /\ x.missing \subseteq 0..(x.total - 1)
    /\ \A x \in files : \A g \in S : g.id = x.id => Missing(g) \subseteq x.missing /\ x.total = Total(g)
    /\ \A x \in files : \A i \in DOMAIN u.ids : i < u.at /\ x.id = u.ids[i] => x.missing = {}

\* The files before k of which nothing is said to be missing are whole.
LEMMA ToldWhole ==
    ASSUME NEW u \in Uploads, NEW files, NEW S, Telling(files, u, S), NEW k \in Nat,
           \A i \in 1..(k - 1) : \E x \in LeftOf(u, files, i) : x.missing = {}
    PROVE  Full(u.ids, k, S)
<1> SUFFICES ASSUME NEW i \in DOMAIN u.ids, i < k, NEW g \in S, g.id = u.ids[i]
             PROVE  Missing(g) = {}
  BY DEF Full
<1>1. i \in 1..(k - 1)
  BY DEF Uploads
<1>2. PICK x \in LeftOf(u, files, i) : x.missing = {}
  BY <1>1
<1>3. x \in files /\ x.id = u.ids[i]
  BY DEF LeftOf
<1>4. Missing(g) \subseteq x.missing
  BY <1>3 DEF Telling
<1> QED
  BY <1>2, <1>4

LEMMA AllThere ==
    ASSUME NEW u \in Uploads, u.job \in Jobs, NEW S, PutSoFar(u, S), NEW files, Telling(files, u, S),
           UndoneOf(u, files) = {},
           NEW v, v = [u EXCEPT !.stalled = FALSE, !.at = Len(Sizes[u.job])]
    PROVE  Onward(Advanced(v), S)
<1>1. PICK n : n = Len(Sizes[u.job])
  OBVIOUS
<1>2. n \in Nat /\ n >= 1 /\ DOMAIN Sizes[u.job] = 1..n /\ u.ids \in Seq(Nat) /\ Len(u.ids) \in Nat
      /\ DOMAIN u.ids = 1..Len(u.ids) /\ u.at \in Nat
  BY <1>1, JobFacts DEF Uploads
<1>3. v \in Uploads /\ v.ids = u.ids /\ v.at = n /\ v.job = u.job
  BY <1>1, <1>2 DEF Uploads
<1>4. \A i \in 1..n : \E x \in LeftOf(u, files, i) : x.missing = {}
  BY <1>2 DEF UndoneOf
<1>5. n <= Len(u.ids)
  <2>1. n \in 1..n
    BY <1>2
  <2> QED
    BY <2>1, <1>4 DEF LeftOf
<1>6. Len(u.ids) = n
  BY <1>1, <1>2, <1>5 DEF PutSoFar
<1>7. Full(u.ids, n + 1, S)
  <2>1. n + 1 \in Nat /\ (n + 1) - 1 = n
    BY <1>2
  <2> QED
    BY <2>1, <1>4, ToldWhole
<1>8. Mine(u.ids, u.job, S)
  BY DEF PutSoFar
<1>9. v.at \in DOMAIN Sizes[v.job] /\ Len(v.ids) = v.at /\ Full(v.ids, v.at + 1, S) /\ Mine(v.ids, v.job, S)
  BY <1>2, <1>3, <1>6, <1>7, <1>8
<1> QED
  BY <1>3, <1>9, AdvancedOnward

LEMMA PlaceGone ==
    ASSUME NEW u \in Uploads, u.job \in Jobs, NEW S, PutSoFar(u, S), NEW files, Telling(files, u, S),
           NEW at \in UndoneOf(u, files), \A k \in UndoneOf(u, files) : at <= k,
           NEW v, v = [u EXCEPT !.stalled = FALSE, !.at = at, !.ids = SubSeq(@, 1, at - 1)]
    PROVE  Onward(Step(v, <<FileOffer(v, at)>>), S)
<1>1. /\ at \in DOMAIN Sizes[u.job] /\ at \in Nat /\ at >= 1 /\ at - 1 \in 0..Len(u.ids)
      /\ \A k \in 1..(at - 1) : \E f \in LeftOf(u, files, k) : f.missing = {}
  BY RewoundFar
<1>2. PICK k : k = at - 1
  OBVIOUS
<1>3. u.ids \in Seq(Nat) /\ v.ids = SubSeq(u.ids, 1, k) /\ v.at = at /\ v.job = u.job
  BY <1>1, <1>2 DEF Uploads
<1>4. /\ Len(v.ids) = k /\ \A i \in DOMAIN v.ids : i \in DOMAIN u.ids /\ v.ids[i] = u.ids[i]
  BY <1>1, <1>2, <1>3
<1>5. Full(u.ids, at, S)
  BY <1>1, ToldWhole
<1>6. Mine(v.ids, v.job, S) /\ Full(v.ids, at, S)
  <2>1. Mine(u.ids, u.job, S)
    BY DEF PutSoFar
  <2>2. Mine(v.ids, v.job, S)
    <3> SUFFICES ASSUME NEW i \in DOMAIN v.ids, NEW g \in S, g.id = v.ids[i]
                 PROVE  g.job = v.job /\ g.pos = i
      BY DEF Mine
    <3>1. i \in DOMAIN u.ids /\ g.id = u.ids[i]
      BY <1>4
    <3> QED
      BY <3>1, <2>1, <1>3 DEF Mine
  <2>3. Full(v.ids, at, S)
    BY <1>4, <1>5 DEF Full
  <2> QED
    BY <2>2, <2>3
<1>7. at <= Len(Sizes[v.job]) /\ Len(Sizes[v.job]) \in Nat
  BY <1>1, <1>3, JobFacts
<1>8. PutSoFar(v, S)
  BY <1>1, <1>2, <1>3, <1>4, <1>6, <1>7 DEF PutSoFar
<1>9. PICK a : a = FileOffer(v, at)
  OBVIOUS
<1>10. a = Expected(v)
  BY <1>1, <1>2, <1>3, <1>4, <1>7, <1>9 DEF Expected
<1>11. ToSet(<<a>>) = {a}
  BY DEF ToSet
<1> QED
  BY <1>8, <1>9, <1>10, <1>11 DEF Onward

LEMMA ChunkGone ==
    ASSUME NEW u \in Uploads, u.job \in Jobs, NEW S \in SUBSET Places,
           \A g \in S : Total(g) \in Nat /\ g.have \subseteq Nat,
           PutSoFar(u, S), NEW files, Telling(files, u, S),
           NEW at \in UndoneOf(u, files), \A k \in UndoneOf(u, files) : at <= k,
           NEW x \in LeftOf(u, files, at),
           NEW v, v = [u EXCEPT !.stalled = FALSE, !.at = at, !.next = Lowest(x.missing), !.total = x.total]
    PROVE  Onward(NeedChunk(v, v.at, v.next), S)
<1>1. /\ at \in DOMAIN Sizes[u.job] /\ at \in Nat /\ at >= 1
      /\ \A k \in 1..(at - 1) : \E f \in LeftOf(u, files, k) : f.missing = {}
  BY RewoundFar
<1>2. x \in files /\ x.missing # {} /\ at <= Len(u.ids) /\ x.id = u.ids[at]
  BY DEF UndoneOf, LeftOf
<1>3. x.total \in Nat /\ x.missing \subseteq 0..(x.total - 1)
  BY <1>2 DEF Telling
<1>4. PICK n : n = Lowest(x.missing)
  OBVIOUS
<1>5. n \in x.missing /\ \A y \in x.missing : n <= y
  <2>1. x.missing \in SUBSET Nat
    BY <1>3
  <2> QED
    BY <2>1, <1>2, <1>4, LowestFacts
<1>6. n \in Nat /\ n < x.total
  BY <1>3, <1>5
<1>7. /\ v \in Uploads /\ v.ids = u.ids /\ v.at = at /\ v.job = u.job /\ v.next = n /\ v.total = x.total
  BY <1>1, <1>3, <1>4, <1>6 DEF Uploads
<1>8. at \in DOMAIN u.ids /\ Len(u.ids) \in Nat /\ u.at \in Nat
  BY <1>1, <1>2 DEF Uploads
<1>9. at >= u.at
  BY <1>1, <1>2, <1>8 DEF Telling
<1>10. at = u.at /\ Len(u.ids) = u.at /\ at <= Len(Sizes[u.job])
  BY <1>2, <1>8, <1>9 DEF PutSoFar
<1>11. Laying(v, S)
  <2> SUFFICES ASSUME NEW g \in S, g.id = v.ids[v.at]
               PROVE  v.total = Total(g) /\ 0..(v.next - 1) \subseteq g.have
    BY <1>6, <1>7 DEF Laying
  <2>1. g.id = x.id
    BY <1>2, <1>7
  <2>2. Missing(g) \subseteq x.missing /\ x.total = Total(g)
    BY <2>1, <1>2 DEF Telling
  <2>3. ASSUME NEW y \in 0..(n - 1)
        PROVE  y \in g.have
    <3>1. y \notin x.missing /\ y \in 0..(Total(g) - 1)
      BY <1>5, <1>6, <2>2
    <3> QED
      BY <3>1, <2>2 DEF Missing
  <2> QED
    BY <2>2, <2>3, <1>7
<1>12. PutSoFar(v, S)
  BY <1>7, <1>10, <1>11 DEF PutSoFar
<1> QED
  BY <1>7, <1>12, ChunkOnward

LEMMA ResumedOnward ==
    ASSUME NEW u \in Uploads, u.job \in Jobs, NEW S \in SUBSET Places,
           \A g \in S : Total(g) \in Nat /\ g.have \subseteq Nat,
           PutSoFar(u, S), NEW files, Telling(files, u, S)
    PROVE  Onward(Resumed(u, files), S)
<1>1. PICK step : step = Resumed(u, files)
  OBVIOUS
<1>2. Rewound(u, files, step)
  BY <1>1, ResumedCases
<1>3. PICK w : w = [u EXCEPT !.stalled = FALSE, !.at = Len(Sizes[u.job])]
  OBVIOUS
<1>4. CASE UndoneOf(u, files) = {} /\ step = Advanced(w)
  BY <1>1, <1>3, <1>4, AllThere
<1>5. CASE ~(UndoneOf(u, files) = {} /\ step = Advanced(w))
  <2>1. PICK at \in UndoneOf(u, files) :
           /\ \A k \in UndoneOf(u, files) : at <= k
           /\ \/ \E v : /\ v = [u EXCEPT !.stalled = FALSE, !.at = at, !.ids = SubSeq(@, 1, at - 1)]
                        /\ step = Step(v, <<FileOffer(v, at)>>)
              \/ \E x \in LeftOf(u, files, at) : \E v :
                    /\ v = [u EXCEPT !.stalled = FALSE, !.at = at, !.next = Lowest(x.missing),
                                     !.total = x.total]
                    /\ step = NeedChunk(v, v.at, v.next)
    BY <1>2, <1>3, <1>5 DEF Rewound
  <2>2. CASE \E v : /\ v = [u EXCEPT !.stalled = FALSE, !.at = at, !.ids = SubSeq(@, 1, at - 1)]
                    /\ step = Step(v, <<FileOffer(v, at)>>)
    <3>1. PICK v : /\ v = [u EXCEPT !.stalled = FALSE, !.at = at, !.ids = SubSeq(@, 1, at - 1)]
                   /\ step = Step(v, <<FileOffer(v, at)>>)
      BY <2>2
    <3>2. v = [u EXCEPT !.stalled = FALSE, !.at = at, !.ids = SubSeq(@, 1, at - 1)]
      BY <3>1
    <3>3. \A k \in UndoneOf(u, files) : at <= k
      BY <2>1
    <3>4. Onward(Step(v, <<FileOffer(v, at)>>), S)
      BY <3>2, <3>3, PlaceGone
    <3> QED
      BY <3>1, <3>4, <1>1
  <2>3. CASE \E x \in LeftOf(u, files, at) : \E v :
                /\ v = [u EXCEPT !.stalled = FALSE, !.at = at, !.next = Lowest(x.missing),
                                 !.total = x.total]
                /\ step = NeedChunk(v, v.at, v.next)
    <3>1. PICK x \in LeftOf(u, files, at) : \E v :
                /\ v = [u EXCEPT !.stalled = FALSE, !.at = at, !.next = Lowest(x.missing),
                                 !.total = x.total]
                /\ step = NeedChunk(v, v.at, v.next)
      BY <2>3
    <3>2. PICK v : /\ v = [u EXCEPT !.stalled = FALSE, !.at = at, !.next = Lowest(x.missing),
                                    !.total = x.total]
                   /\ step = NeedChunk(v, v.at, v.next)
      BY <3>1
    <3>3. v = [u EXCEPT !.stalled = FALSE, !.at = at, !.next = Lowest(x.missing), !.total = x.total]
      BY <3>2
    <3>4. \A k \in UndoneOf(u, files) : at <= k
      BY <2>1
    <3>5. Onward(NeedChunk(v, v.at, v.next), S)
      BY <3>3, <3>4, ChunkGone
    <3> QED
      BY <3>2, <3>5, <1>1
  <2> QED
    BY <2>1, <2>2, <2>3
<1> QED
  BY <1>4, <1>5

\* What is put is part of a file.
LEMMA PlacedTotals ==
    ASSUME Sound
    PROVE  /\ phone.staged \in SUBSET Places
           /\ \A g \in phone.staged : Total(g) \in Nat /\ g.have \subseteq Nat
<1>1. PhoneOK(phone)
  BY SoundParts
<1>2. phone.staged \in SUBSET Places
  BY <1>1 DEF PhoneOK, Phones
<1>3. ASSUME NEW g \in phone.staged
      PROVE  Total(g) \in Nat /\ g.have \subseteq Nat
  <2>1. g.job \in Jobs /\ g.have \subseteq Nat /\ g.pos \in DOMAIN Sizes[g.job]
    BY <1>1, <1>2, <1>3 DEF PhoneOK, WellPlaced, Places
  <2> QED
    BY <2>1, JobFacts DEF Total
<1> QED
  BY <1>2, <1>3

\* A step of the upload that was answered is the one it waits for.
LEMMA AnsweredStep ==
    ASSUME Sound, Orderly, Kept, NEW f, NEW at, NEW r, StrikesOut(f, at, r),
           desk.upload # NoUpload, desk.upload.job \notin mixed, f.ask.job \in {0, desk.upload.job},
           f.ask.kind \in {"offer", "put"}
    PROVE  f.ask = Expected(desk.upload) /\ f.ask.job = desk.upload.job
<1>1. /\ WellAsked(f.ask, phone.fresh, Opened) /\ at \in DOMAIN desk.out /\ desk.out[at] = f.ask
  BY DEF StrikesOut
<1>2. f.ask.job = desk.upload.job
  BY <1>1 DEF WellAsked, Plains
<1>3. desk.upload.job # 0
  BY SoundParts DEF DeskOK, WellUp
<1>4. OneStep(desk.out, desk.upload)
  BY <1>3 DEF Kept, OutOK
<1>5. IsStep(desk.out[at], desk.upload.job)
  BY <1>1, <1>2 DEF IsStep, Steps
<1> QED
  BY <1>1, <1>2, <1>4, <1>5 DEF OneStep

LEMMA OfferOnward ==
    ASSUME NEW u \in Uploads, u.job \in Jobs, NEW S \in SUBSET Places, PutSoFar(u, S),
           NEW f \in Answers, f.ans = "offer", f.ask.kind = "offer", f.ask = Expected(u), True(f, S)
    PROVE  Onward(Reaction(u, f), S)
<1>1. /\ u.at \in Nat /\ Len(u.ids) \in Nat /\ Len(Sizes[u.job]) \in Nat
      /\ DOMAIN Sizes[u.job] = 1..Len(Sizes[u.job]) /\ f.id \in Nat
  BY JobFacts DEF Uploads, Answers
<1>2. ~(u.at > Len(Sizes[u.job])) /\ Len(u.ids) # u.at /\ f.ask = FileOffer(u, u.at)
  BY DEF Expected, FileSend, FilePut, RequestOf
<1>3. f.ask.job = u.job /\ f.ask.which = u.at
  BY <1>2 DEF FileOffer, RequestOf
<1>4. Len(u.ids) = u.at - 1 /\ u.at \in DOMAIN Sizes[u.job]
  BY <1>1, <1>2 DEF PutSoFar
<1>5. PICK id, total : id = f.id /\ total = f.total
  OBVIOUS
<1>6. /\ \A g \in S : g.id = id => g.job = u.job /\ g.pos = u.at
      /\ total = Sizes[u.job][u.at]
  BY <1>3, <1>5 DEF True
<1>7. Onward(Placed(u, id, total), S)
  BY <1>1, <1>4, <1>5, <1>6, PlacedOnward
<1> QED
  BY <1>5, <1>7 DEF Reaction

LEMMA PutOnward ==
    ASSUME NEW u \in Uploads, u.job \in Jobs, NEW S \in SUBSET Places, PutSoFar(u, S),
           NEW f \in Answers, f.ans = "done", f.ask.kind = "put", f.ask = Expected(u), True(f, S)
    PROVE  Onward(Reaction(u, f), S)
<1>1. /\ u.at \in Nat /\ Len(u.ids) \in Nat /\ Len(Sizes[u.job]) \in Nat
      /\ DOMAIN Sizes[u.job] = 1..Len(Sizes[u.job])
  BY JobFacts DEF Uploads
<1>2. ~(u.at > Len(Sizes[u.job])) /\ Len(u.ids) = u.at /\ f.ask = FilePut(u, u.at, u.next)
  BY DEF Expected, FileSend, FileOffer, RequestOf
<1>3. f.ask.ids[1] = u.ids[u.at] /\ f.ask.n = u.next
  BY <1>2 DEF FilePut, RequestOf
<1>4. u.at \in DOMAIN Sizes[u.job]
  BY <1>1, <1>2 DEF PutSoFar
<1>5. \A g \in S : g.id = u.ids[u.at] => u.next \in g.have
  BY <1>3 DEF True
<1>6. Onward(Laid(u), S)
  BY <1>2, <1>4, <1>5, LaidOnward
<1> QED
  BY <1>6 DEF Reaction

LEMMA MovesOnward ==
    ASSUME Sound, Orderly, Kept, NEW f, f \in ToSet(net.down), f.type = "answer", f.s = desk.session,
           NEW at, NEW r, NEW v, NEW rs, NEW o, NEW up, Moves(f, at, r, v, rs, o, up),
           v.job \notin mixed'
    PROVE  PutSoFar(v, phone.staged) /\ \A a \in ToSet(rs) : a = Expected(v)
<1>1. PICK u, S : u = desk.upload /\ S = phone.staged
  OBVIOUS
<1>2. /\ StrikesOut(f, at, r) /\ f \in Answers /\ WellAnswered(f, phone.fresh)
      /\ u # NoUpload /\ v.job = u.job /\ Reaction(u, f) = Step(v, rs)
      /\ f.ans \in {"offer", "staged"} \/ (f.ans = "done" /\ f.ask.kind = "put")
      /\ f.ans = "staged" => u.stalled
      /\ mixed' = IF f.ask.job \in {0, u.job} THEN mixed ELSE mixed \cup {u.job}
  BY <1>1 DEF Moves, StrikesOut
<1>3. f.ask.job \in {0, u.job} /\ u.job \notin mixed
  BY <1>2
<1>4. u \in Uploads /\ u.job \in Jobs /\ u.job # 0
  BY <1>1, <1>2, SoundParts, UnderwayOf, JobFacts DEF Underway
<1>5. PutSoFar(u, S)
  BY <1>1, <1>3, <1>4 DEF Kept, UploadOK
<1>6. S \in SUBSET Places /\ \A g \in S : Total(g) \in Nat /\ g.have \subseteq Nat
  BY <1>1, PlacedTotals
<1>7. True(f, S)
  BY <1>1 DEF Orderly, TrueDown, ToSet
<1>8. Onward(Reaction(u, f), S)
  <2>1. CASE f.ans = "offer"
    <3>1. f.ask.kind = "offer"
      BY <1>2, <2>1 DEF WellAnswered
    <3>2. f.ask = Expected(u)
      BY <3>1, <1>1, <1>2, <1>3, AnsweredStep
    <3> QED
      BY <3>1, <3>2, <2>1, <1>2, <1>4, <1>5, <1>6, <1>7, OfferOnward
  <2>2. CASE f.ans = "done"
    <3>1. f.ask.kind = "put"
      BY <1>2, <2>2
    <3>2. f.ask = Expected(u)
      BY <3>1, <1>1, <1>2, <1>3, AnsweredStep
    <3> QED
      BY <3>1, <3>2, <2>2, <1>2, <1>4, <1>5, <1>6, <1>7, PutOnward
  <2>3. CASE f.ans = "staged"
    <3>1. PICK files : files = f.files
      OBVIOUS
    <3>2. \A x \in files : x.total \in Nat /\ x.missing \subseteq 0..(x.total - 1)
      BY <3>1, <1>2 DEF Answers, WellAnswered
    <3>3. \A x \in files : \A g \in S : g.id = x.id => Missing(g) \subseteq x.missing /\ x.total = Total(g)
      BY <3>1, <1>7 DEF True
    <3>4. \A x \in files : \A i \in DOMAIN u.ids : i < u.at /\ x.id = u.ids[i] => x.missing = {}
      <4>1. RecentDown(net.down, desk, mixed)
        BY DEF Kept
      <4>2. PICK i \in DOMAIN net.down : net.down[i] = f
        BY DEF ToSet
      <4>3. Timely(desk, f.s) /\ desk.upload.stalled /\ desk.upload.job \notin mixed
        BY <1>1, <1>2, <1>3, <2>3 DEF Timely
      <4>4. Recent(f, desk)
        BY <4>1, <4>2, <4>3 DEF RecentDown
      <4> QED
        BY <4>4, <3>1, <1>1 DEF Recent
    <3>5. Telling(files, u, S)
      BY <3>2, <3>3, <3>4 DEF Telling
    <3>6. Onward(Resumed(u, files), S)
      BY <3>5, <1>4, <1>5, <1>6, ResumedOnward
    <3> QED
      BY <3>1, <3>6, <2>3 DEF Reaction
  <2> QED
    BY <2>1, <2>2, <2>3, <1>2
<1>9. PICK w, qs : /\ Step(v, rs) = Step(w, qs) /\ PutSoFar(w, S)
                   /\ \A a \in ToSet(qs) : a = Expected(w)
  BY <1>2, <1>8 DEF Onward
<1>10. v = w /\ rs = qs
  BY <1>9, StepParts
<1> QED
  BY <1>1, <1>9, <1>10

\* An upload that moves on is not stalled.
Awake(step) == \E v, rs : step = Step(v, rs) /\ ~v.stalled

LEMMA StepsAwake ==
    ASSUME NEW u \in Uploads, ~u.stalled, NEW which, NEW n
    PROVE  Awake(NeedChunk(u, which, n)) /\ Awake(Advanced(u))
<1>1. Awake(NeedChunk(u, which, n))
  BY DEF Awake, NeedChunk
<1>2. PICK v : v = [u EXCEPT !.at = @ + 1]
  OBVIOUS
<1>3. ~v.stalled
  BY <1>2 DEF Uploads
<1>4. \E rs : Advanced(u) = Step(v, rs)
  BY <1>2 DEF Advanced
<1> QED
  BY <1>1, <1>3, <1>4 DEF Awake

LEMMA ResumedAwake ==
    ASSUME NEW u \in Uploads, u.job \in Jobs, NEW files, \A x \in files : x.total \in Nat /\ x.missing \in SUBSET Nat
    PROVE  Awake(Resumed(u, files))
<1>1. PICK step : step = Resumed(u, files)
  OBVIOUS
<1>2. Rewound(u, files, step)
  BY <1>1, ResumedCases
<1>3. PICK w : w = [u EXCEPT !.stalled = FALSE, !.at = Len(Sizes[u.job])]
  OBVIOUS
<1>4. CASE UndoneOf(u, files) = {} /\ step = Advanced(w)
  <2>1. w \in Uploads /\ ~w.stalled
    BY <1>3, JobFacts DEF Uploads
  <2> QED
    BY <2>1, <1>1, <1>4, StepsAwake
<1>5. CASE ~(UndoneOf(u, files) = {} /\ step = Advanced(w))
  <2>1. PICK at \in UndoneOf(u, files) :
           /\ \A k \in UndoneOf(u, files) : at <= k
           /\ \/ \E v : /\ v = [u EXCEPT !.stalled = FALSE, !.at = at, !.ids = SubSeq(@, 1, at - 1)]
                        /\ step = Step(v, <<FileOffer(v, at)>>)
              \/ \E x \in LeftOf(u, files, at) : \E v :
                    /\ v = [u EXCEPT !.stalled = FALSE, !.at = at, !.next = Lowest(x.missing),
                                     !.total = x.total]
                    /\ step = NeedChunk(v, v.at, v.next)
    BY <1>2, <1>3, <1>5 DEF Rewound
  <2>2. CASE \E v : /\ v = [u EXCEPT !.stalled = FALSE, !.at = at, !.ids = SubSeq(@, 1, at - 1)]
                    /\ step = Step(v, <<FileOffer(v, at)>>)
    <3>1. PICK v : /\ v = [u EXCEPT !.stalled = FALSE, !.at = at, !.ids = SubSeq(@, 1, at - 1)]
                   /\ step = Step(v, <<FileOffer(v, at)>>)
      BY <2>2
    <3>2. ~v.stalled
      BY <3>1 DEF Uploads
    <3> QED
      BY <3>1, <3>2, <1>1 DEF Awake
  <2>3. CASE \E x \in LeftOf(u, files, at) : \E v :
                /\ v = [u EXCEPT !.stalled = FALSE, !.at = at, !.next = Lowest(x.missing),
                                 !.total = x.total]
                /\ step = NeedChunk(v, v.at, v.next)
    <3>1. PICK x \in LeftOf(u, files, at) : \E v :
                /\ v = [u EXCEPT !.stalled = FALSE, !.at = at, !.next = Lowest(x.missing),
                                 !.total = x.total]
                /\ step = NeedChunk(v, v.at, v.next)
      BY <2>3
    <3>2. PICK v : /\ v = [u EXCEPT !.stalled = FALSE, !.at = at, !.next = Lowest(x.missing),
                                    !.total = x.total]
                   /\ step = NeedChunk(v, v.at, v.next)
      BY <3>1
    <3>3. at \in Nat /\ at >= 1 /\ x.missing # {} /\ x \in files
      <4>1. \A k \in UndoneOf(u, files) : at <= k
        BY <2>1
      <4>2. at \in Nat /\ at >= 1
        BY <4>1, RewoundFar
      <4> QED
        BY <4>2 DEF UndoneOf, LeftOf
    <3>4. Lowest(x.missing) \in Nat /\ x.total \in Nat
      BY <3>3, LowestFacts
    <3>5. v \in Uploads /\ ~v.stalled
      BY <3>2, <3>3, <3>4 DEF Uploads
    <3>6. Awake(NeedChunk(v, v.at, v.next))
      BY <3>5, StepsAwake
    <3> QED
      BY <3>2, <3>6, <1>1
  <2> QED
    BY <2>1, <2>2, <2>3
<1> QED
  BY <1>4, <1>5

LEMMA ReactionAwake ==
    ASSUME NEW u \in Uploads, u.job \in Jobs, NEW f \in Answers, f.ans \in {"offer", "done", "staged"},
           u.stalled => f.ans = "staged"
    PROVE  Awake(Reaction(u, f))
<1>1. CASE f.ans = "offer"
  <2>1. PICK v : v = [u EXCEPT !.ids = Append(@, f.id), !.total = f.total, !.next = 0]
    OBVIOUS
  <2>2. u.ids \in Seq(Nat) /\ f.id \in Nat /\ f.total \in Nat
    BY DEF Uploads, Answers
  <2>3. Append(u.ids, f.id) \in Seq(Nat)
    BY <2>2
  <2>4. v \in Uploads /\ ~v.stalled
    BY <2>1, <2>2, <2>3, <1>1 DEF Uploads
  <2>5. Reaction(u, f) = IF f.total = 0 THEN Advanced(v) ELSE NeedChunk(v, v.at, 0)
    BY <1>1, <2>1 DEF Reaction, Placed
  <2> QED
    BY <2>4, <2>5, StepsAwake
<1>2. CASE f.ans = "done"
  <2>1. PICK v : v = [u EXCEPT !.next = @ + 1]
    OBVIOUS
  <2>2. v \in Uploads /\ ~v.stalled
    BY <2>1, <1>2 DEF Uploads
  <2>3. Reaction(u, f) = IF v.next < v.total THEN NeedChunk(v, v.at, v.next) ELSE Advanced(v)
    BY <1>2, <2>1 DEF Reaction, Laid
  <2> QED
    BY <2>2, <2>3, StepsAwake
<1>3. CASE f.ans = "staged"
  <2>1. PICK files : files = f.files
    OBVIOUS
  <2>2. \A x \in files : x.total \in Nat /\ x.missing \in SUBSET Nat
    BY <2>1 DEF Answers
  <2>3. Awake(Resumed(u, files))
    BY <2>2, ResumedAwake
  <2> QED
    BY <2>1, <2>3, <1>3 DEF Reaction
<1> QED
  BY <1>1, <1>2, <1>3

LEMMA MovesAwake ==
    ASSUME Sound, Kept, NEW f, NEW at, NEW r, NEW v, NEW rs, NEW o, NEW up,
           Moves(f, at, r, v, rs, o, up)
    PROVE  ~v.stalled
<1>1. PICK u : u = desk.upload
  OBVIOUS
<1>2. /\ StrikesOut(f, at, r) /\ f \in Answers /\ WellAnswered(f, phone.fresh)
      /\ at \in DOMAIN desk.out /\ desk.out[at] = f.ask
      /\ u # NoUpload /\ Reaction(u, f) = Step(v, rs)
      /\ f.ans \in {"offer", "staged"} \/ (f.ans = "done" /\ f.ask.kind = "put")
  BY <1>1 DEF Moves, StrikesOut
<1>3. u \in Uploads /\ u.job \in Jobs
  BY <1>1, <1>2, SoundParts, UnderwayOf DEF Underway
<1>4. u.stalled => f.ans = "staged"
  <2> SUFFICES ASSUME u.stalled, f.ans # "staged"
               PROVE  FALSE
    OBVIOUS
  <2>1. NoSteps(desk.out)
    BY <1>1 DEF Kept, OutOK
  <2>2. f.ask.kind \in Steps
    BY <1>2 DEF WellAnswered, Steps
  <2> QED
    BY <2>1, <2>2, <1>2 DEF NoSteps
<1>5. Awake(Reaction(u, f))
  BY <1>2, <1>3, <1>4, ReactionAwake
<1>6. PICK w, qs : Step(v, rs) = Step(w, qs) /\ ~w.stalled
  BY <1>2, <1>5 DEF Awake
<1>7. v = w
  BY <1>6, StepParts
<1> QED
  BY <1>6, <1>7

\* The table once the answer is struck out and the next step is asked for.
LEMMA MovesOneStep ==
    ASSUME NEW q \in Seq(Requests), NEW at \in DOMAIN q, NEW r \in Seq(Requests), Struck(q, r, at),
           NEW u, OneStep(q, u), NEW j, j = u.job, IsStep(q[at], j) \/ NoSteps(q),
           NEW v, v.job = j, NEW as, \A a \in as : a = Expected(v),
           NEW o \in Seq(Requests), Grown(r, o, as), Len(o) <= Len(r) + 1
    PROVE  OneStep(o, v)
<1>1. \A i \in DOMAIN r : ~IsStep(r[i], j)
  <2> SUFFICES ASSUME NEW i \in DOMAIN r, IsStep(r[i], j)
               PROVE  FALSE
    OBVIOUS
  <2>1. PICK k \in DOMAIN q : k # at /\ r[i] = q[k]
    BY DEF Struck
  <2>2. IsStep(q[k], j) /\ ~NoSteps(q)
    BY <2>1 DEF IsStep, NoSteps
  <2> QED
    BY <2>1, <2>2 DEF OneStep
<1>2. \A i \in DOMAIN o : IsStep(o[i], j) => i = Len(r) + 1 /\ o[i] = Expected(v)
  <2> SUFFICES ASSUME NEW i \in DOMAIN o, IsStep(o[i], j)
               PROVE  i = Len(r) + 1 /\ o[i] = Expected(v)
    OBVIOUS
  <2>1. ~(i <= Len(r))
    BY <1>1 DEF Grown
  <2>2. i \in Nat /\ i <= Len(o) /\ Len(r) \in Nat /\ Len(o) \in Nat
    OBVIOUS
  <2>3. i = Len(r) + 1
    BY <2>1, <2>2
  <2>4. o[i] \in as
    BY <2>1 DEF Grown
  <2> QED
    BY <2>3, <2>4
<1> QED
  BY <1>2 DEF OneStep

LEMMA MovesOut ==
    ASSUME Sound, Orderly, Kept, NEW f, f \in ToSet(net.down), f.type = "answer", f.s = desk.session,
           NEW at, NEW r, NEW v, NEW rs, NEW o, NEW up, Moves(f, at, r, v, rs, o, up)
    PROVE  OutOK(o, v, mixed')
<1>1. ~v.stalled
  BY MovesAwake
<1>2. ASSUME v.job \notin mixed'
      PROVE  OneStep(o, v)
  <2>1. PICK u, q, as : u = desk.upload /\ q = desk.out /\ as = ToSet(rs)
    OBVIOUS
  <2>2. /\ StrikesOut(f, at, r) /\ WellAnswered(f, phone.fresh)
        /\ at \in DOMAIN q /\ q[at] = f.ask /\ r \in Seq(Requests) /\ Struck(q, r, at)
        /\ u # NoUpload /\ v.job = u.job
        /\ f.ans \in {"offer", "staged"} \/ (f.ans = "done" /\ f.ask.kind = "put")
        /\ f.ans = "staged" => u.stalled
        /\ mixed' = IF f.ask.job \in {0, u.job} THEN mixed ELSE mixed \cup {u.job}
        /\ o \in Seq(Requests) /\ Grown(r, o, as) /\ Len(o) <= Len(r) + 1
    BY <2>1 DEF Moves, StrikesOut, Posting
  <2>3. f.ask.job \in {0, u.job} /\ u.job \notin mixed
    BY <2>2, <1>2
  <2>4. u.job # 0
    BY <2>1, <2>2, SoundParts DEF DeskOK, WellUp
  <2>5. OutOK(q, u, mixed)
    BY <2>1 DEF Kept
  <2>6. OneStep(q, u)
    BY <2>3, <2>4, <2>5 DEF OutOK
  <2>7. IsStep(q[at], u.job) \/ NoSteps(q)
    <3>1. CASE f.ans = "staged"
      BY <3>1, <2>2, <2>5 DEF OutOK
    <3>2. CASE f.ans # "staged"
      <4>1. f.ask.kind \in {"offer", "put"}
        BY <3>2, <2>2 DEF WellAnswered
      <4>2. f.ask.job = u.job
        BY <4>1, <2>1, <2>2, <2>3, AnsweredStep
      <4> QED
        BY <4>1, <4>2, <2>2 DEF IsStep, Steps
    <3> QED
      BY <3>1, <3>2
  <2>8. \A a \in as : a = Expected(v)
    BY <2>1, <1>2, MovesOnward
  <2>9. q \in Seq(Requests)
    BY <2>1, DeskPieces DEF Desks
  <2> QED
    BY <2>2, <2>6, <2>7, <2>8, <2>9, MovesOneStep
<1> QED
  BY <1>1, <1>2 DEF OutOK

LEMMA MovesFaithful ==
    ASSUME Sound, Sound', Held, Kept, Orderly, DeskHears,
           NEW f, f = Head(net.down), f.type = "answer", f.s = desk.session,
           NEW at, NEW r, NEW v, NEW rs, NEW o, NEW up, Moves(f, at, r, v, rs, o, up)
    PROVE  Held' /\ Kept'
<1>1. /\ net.up \in Seq(UpFrames) /\ net.down \in Seq(Notes \cup Answers) /\ net.down # <<>>
      /\ phone' = phone /\ messages' = messages
  BY DeskPieces DEF DeskHears
<1>2. /\ desk'.out = o /\ desk'.upload \in {v, NoUpload} /\ v.job = desk.upload.job /\ desk.upload # NoUpload
      /\ net'.up = up /\ told' = told
      /\ Posting(desk.session, r, net.up, o, up, ToSet(rs))
      /\ Underway(v, phone.fresh, Opened) /\ \A a \in ToSet(rs) : a.job = v.job
      /\ mixed \subseteq mixed'
  BY DEF Moves, OfUploadOK
<1>3. f \in ToSet(net.down)
  BY <1>1, TailFacts DEF ToSet
<1>4. PICK F : Flow(net.up, up, F) /\ Carries(F, desk.session, ToSet(rs))
  BY <1>1, <1>2, PostedFlow
<1>5. PICK S, mix, as : S = phone.staged /\ mix = mixed' /\ as = ToSet(rs)
  OBVIOUS
<1>6. v.job \notin mix => PutSoFar(v, S) /\ \A a \in as : a = Expected(v)
  BY <1>3, <1>5, MovesOnward
<1>7. \A a \in as : Aimed(a, S, mix)
  <2>1. CASE v.job \in mix
    BY <2>1, <1>2, <1>5 DEF Aimed
  <2>2. CASE v.job \notin mix
    <3>1. v \in Uploads /\ v.job \in Jobs
      BY <1>2 DEF Underway
    <3>2. Aimed(Expected(v), S, mix)
      BY <3>1, <2>2, <1>6, ExpectedAims
    <3> QED
      BY <3>2, <2>2, <1>6
  <2> QED
    BY <2>1, <2>2
<1>8. \A g \in F : Aimed(g.ask, S, mix)
  BY <1>4, <1>5, <1>7, CarriedAims
<1>9. v.job = Opened'
  <2>1. desk.upload.job = Opened
    BY <1>2, SoundParts, UploadJob
  <2>2. Opened' = Opened
    BY <1>2, SoundParts, ToldSame DEF BooksOK
  <2> QED
    BY <2>1, <2>2, <1>2
<1>10. Newest(F, Opened')
  BY <1>2, <1>4, <1>9, CarriedNewest
<1>11. \A j \in Jobs : told[j] # "none" => told'[j] # "none"
  BY <1>2
<1>12. Held'
  BY <1>1, <1>2, <1>4, <1>5, <1>8, <1>10, <1>11, DeskHeld
<1>13. CASE desk'.upload = NoUpload
  BY <1>1, <1>12, <1>13, NoUploadKept, DeskKept
<1>14. CASE desk'.upload = v
  <2>1. OutOK(o, v, mix)
    BY <1>3, <1>5, MovesOut
  <2>2. UploadOK(v, S, mix)
    BY <1>6 DEF UploadOK
  <2>3. ~v.stalled
    BY MovesAwake
  <2>4. RecentDown(net'.down, desk', mix)
    BY <2>3, <1>14 DEF RecentDown
  <2>5. Kept'
    BY <2>1, <2>2, <2>4, <1>1, <1>2, <1>5, <1>14, DeskKept
  <2> QED
    BY <2>5, <1>12
<1> QED
  BY <1>2, <1>13, <1>14

LEMMA DeskHearsFaithful ==
    ASSUME Sound, Sound', Held, Kept, Orderly, DeskHears
    PROVE  Held' /\ Kept'
<1>1. PICK f : f = Head(net.down)
  OBVIOUS
<1>2. /\ net.down # <<>>
      /\ \/ HearReply(f) \/ HearRevoked(f) \/ HearNothing(f)
         \/ /\ f.type = "answer" /\ f.s = desk.session /\ f.ask \in ToSet(desk.out)
            /\ HearProgress(f) \/ HearEnd(f) \/ HearOther(f)
  BY <1>1 DEF DeskHears
<1>3. CASE HearReply(f)
  BY <1>1, <1>3, HearReplyFaithful
<1>4. CASE HearRevoked(f)
  BY <1>1, <1>4, HearRevokedFaithful
<1>5. CASE HearNothing(f)
  BY <1>1, <1>5, HearNothingFaithful
<1>6. CASE /\ f.type = "answer" /\ f.s = desk.session /\ f.ask \in ToSet(desk.out)
           /\ HearProgress(f) \/ HearEnd(f) \/ HearOther(f)
  <2>1. Heard(f)
    BY <1>1, <1>2, <1>6 DEF Heard
  <2>2. CASE HearProgress(f)
    <3>1. PICK at, r, v, rs, o, up : Moves(f, at, r, v, rs, o, up)
      BY <2>1, <2>2, HearProgressShape
    <3> QED
      BY <3>1, <1>1, <1>6, MovesFaithful
  <2>3. CASE HearEnd(f)
    BY <2>1, <2>3, HearEndFaithful
  <2>4. CASE HearOther(f)
    BY <2>1, <2>4, HearOtherFaithful
  <2> QED
    BY <2>2, <2>3, <2>4, <1>6
<1> QED
  BY <1>2, <1>3, <1>4, <1>5, <1>6

LEMMA FaithfulInit == CompanionInit => Faithful
<1> SUFFICES ASSUME CompanionInit
             PROVE  Faithful
  OBVIOUS
<1>1. /\ net.up = <<>> /\ net.down = <<>> /\ messages = <<>> /\ desk.out = <<>>
      /\ desk.upload = NoUpload /\ phone.staged = {}
  BY DEF CompanionInit
<1>2. DOMAIN <<>> = {}
  OBVIOUS
<1>3. Held
  BY <1>1, <1>2 DEF Held, AimedUp, SpoiltAreOver, SentOK
<1>4. Kept
  BY <1>1, NoUploadKept DEF Kept
<1> QED
  BY <1>3, <1>4, FaithfulParts

LEMMA FaithfulNext ==
    ASSUME Sound, Sound', Orderly, Faithful, [CompanionNext]_companionVars
    PROVE  Faithful'
<1>1. Held /\ Kept
  BY FaithfulParts
<1>2. Held' /\ Kept'
  <2>1. CASE SendFiles
    BY <2>1, <1>1, SendFilesHeld, SendFilesKept
  <2>2. CASE CancelSend
    BY <2>2, <1>1, CancelSendFaithful
  <2>3. CASE Reach(FALSE) \/ Reach(TRUE)
    BY <2>3, <1>1, ReachFaithful
  <2>4. CASE DeskHears
    BY <2>4, <1>1, DeskHearsFaithful
  <2>5. CASE UNCHANGED <<desk, told, tries, accidents, history>> /\ \E f, r, a : Serves(f, r, a)
    <3>1. PICK f, r, a : Serves(f, r, a)
      BY <2>5
    <3> QED
      BY <3>1, <2>5, <1>1, ServesHeld, ServesKept
  <2>6. CASE Fades
    BY <2>6, <1>1, FadesHeld, FadesKept
  <2> QED
    BY <2>1, <2>2, <2>3, <2>4, <2>5, <2>6, StepsFade
<1> QED
  BY <1>2, FaithfulParts DEF Faithful, Held, Kept

LEMMA AlwaysFaithful == CompanionSpec => [](Sound /\ Orderly /\ Faithful)
<1>1. CompanionInit => Orderly /\ Faithful
  BY OrderlyInit, FaithfulInit
<1>2. Sound /\ Sound' /\ Orderly /\ Faithful /\ [CompanionNext]_companionVars => Orderly' /\ Faithful'
  BY OrderlyNext, FaithfulNext
<1> QED
  BY <1>1, <1>2, AlwaysSound, PTL DEF CompanionSpec

\* A message made of an upload is the files of one job, all of them, in the
\* order they were chosen and with their own bytes, unless the job took an answer
\* meant for another: on_upload_send with what on_response has asked for.
THEOREM MessagesAreWhole == CompanionSpec => []WholeMessage
<1>1. Faithful => WholeMessage
  BY DEF Faithful, SentOK, WholeOne, WholeMessage
<1> QED
  BY <1>1, AlwaysFaithful, PTL

-----------------------------------------------------------------------------
(* Messages and dues, counted.                                             *)

LEMMA TallyFacts ==
    ASSUME NEW ms \in Seq(Letters), NEW j
    PROVE  IsFiniteSet({i \in DOMAIN ms : ms[i].text = j}) /\ Tally(ms, j) \in Nat
<1>1. IsFiniteSet(DOMAIN ms)
  BY FS_Interval
<1>2. IsFiniteSet({i \in DOMAIN ms : ms[i].text = j})
  BY <1>1, FS_Subset
<1> QED
  BY <1>2, FS_CardinalityType DEF Tally

\* One message more.
LEMMA TallyMore ==
    ASSUME NEW ms \in Seq(Letters), NEW m \in Letters, NEW j
    PROVE  Tally(ms \o <<m>>, j) = Tally(ms, j) + (IF m.text = j THEN 1 ELSE 0)
<1>1. PICK one, all : one = <<m>> /\ all = ms \o one
  OBVIOUS
<1>2. one \in Seq(Letters) /\ Len(one) = 1 /\ one[1] = m
  BY <1>1
<1>3. PICK n : n = Len(ms)
  OBVIOUS
<1>4. /\ n \in Nat /\ DOMAIN ms = 1..n /\ DOMAIN all = 1..(n + 1)
      /\ \A i \in 1..n : all[i] = ms[i]
      /\ all[n + 1] = m
  BY <1>1, <1>2, <1>3
<1>5. PICK A, B : A = {i \in DOMAIN ms : ms[i].text = j} /\ B = {i \in DOMAIN all : all[i].text = j}
  OBVIOUS
<1>6. IsFiniteSet(A) /\ Cardinality(A) \in Nat /\ n + 1 \notin A
  <2>1. IsFiniteSet(A) /\ Cardinality(A) \in Nat
    BY <1>5, TallyFacts, FS_CardinalityType
  <2>2. n + 1 \notin 1..n
    BY <1>4
  <2> QED
    BY <2>1, <2>2, <1>4, <1>5
<1>7. CASE m.text = j
  <2>1. B = A \cup {n + 1}
    <3>1. \A i \in 1..(n + 1) : i \in 1..n \/ i = n + 1
      BY <1>4
    <3>2. n + 1 \in 1..(n + 1) /\ \A i \in 1..n : i \in 1..(n + 1)
      BY <1>4
    <3> QED
      BY <3>1, <3>2, <1>4, <1>5, <1>7
  <2>2. Cardinality(B) = Cardinality(A) + 1
    BY <2>1, <1>6, FS_AddElement
  <2> QED
    BY <2>2, <1>1, <1>5, <1>7 DEF Tally
<1>8. CASE m.text # j
  <2>1. B = A
    <3>1. \A i \in 1..(n + 1) : i \in 1..n \/ i = n + 1
      BY <1>4
    <3>2. \A i \in 1..n : i \in 1..(n + 1)
      BY <1>4
    <3> QED
      BY <3>1, <3>2, <1>4, <1>5, <1>8
  <2>2. Tally(all, j) = Cardinality(B) /\ Tally(ms, j) = Cardinality(A)
    BY <1>5 DEF Tally
  <2>3. Tally(all, j) = Tally(ms, j) /\ Tally(ms, j) \in Nat
    BY <2>1, <2>2, <1>6
  <2> QED
    BY <2>3, <1>1, <1>8
<1> QED
  BY <1>7, <1>8

LEMMA TimesTally == \A j : Times(j) = Tally(messages, j)
BY DEF Times, Tally

\* Sessions are few.
LEMMA DueFacts ==
    ASSUME NEW d \in Desks, NEW q, NEW j, NEW S
    PROVE  IsFiniteSet(Due(d, q, j, S)) /\ Cardinality(Due(d, q, j, S)) \in Nat
<1>1. MaxTries \in Nat
  BY CompanionAssumption
<1>2. IsFiniteSet(0..MaxTries)
  BY <1>1, FS_Interval
<1>3. Due(d, q, j, S) \subseteq 0..MaxTries
  <2>1. LiveIn(q, j, S) \subseteq 0..MaxTries
    BY <1>1 DEF LiveIn
  <2>2. d.session \in 0..MaxTries
    BY DEF Desks
  <2>3. Current(d, j, S) \subseteq 0..MaxTries
    BY <2>2 DEF Current
  <2> QED
    BY <2>1, <2>3 DEF Due
<1>4. IsFiniteSet(Due(d, q, j, S))
  BY <1>2, <1>3, FS_Subset
<1> QED
  BY <1>4, FS_CardinalityType

LEMMA FewerDue ==
    ASSUME NEW A, NEW B, IsFiniteSet(B), A \subseteq B
    PROVE  Cardinality(A) <= Cardinality(B) /\ Cardinality(A) \in Nat /\ Cardinality(B) \in Nat
BY FS_Subset, FS_CardinalityType

LEMMA OneLessDue ==
    ASSUME NEW A, NEW B, IsFiniteSet(B), A \subseteq B, NEW s \in B, s \notin A
    PROVE  Cardinality(A) + 1 <= Cardinality(B) /\ Cardinality(A) \in Nat /\ Cardinality(B) \in Nat
<1>1. A \subseteq B \ {s}
  OBVIOUS
<1>2. IsFiniteSet(B \ {s}) /\ Cardinality(B \ {s}) = Cardinality(B) - 1
  BY FS_RemoveElement
<1>3. Cardinality(B) \in Nat /\ Cardinality(A) \in Nat /\ Cardinality(A) <= Cardinality(B \ {s})
  BY <1>1, <1>2, FewerDue, FS_CardinalityType
<1> QED
  BY <1>2, <1>3

LEMMA OneMoreDue ==
    ASSUME NEW A, NEW B, IsFiniteSet(B), NEW s, A \subseteq B \cup {s}
    PROVE  Cardinality(A) <= Cardinality(B) + 1 /\ Cardinality(A) \in Nat /\ Cardinality(B) \in Nat
<1>1. IsFiniteSet(B \cup {s}) /\ Cardinality(B \cup {s}) <= Cardinality(B) + 1 /\ Cardinality(B) \in Nat
  BY FS_AddElement, FS_CardinalityType
<1>2. Cardinality(A) \in Nat /\ Cardinality(A) <= Cardinality(B \cup {s})
  BY <1>1, FewerDue
<1>3. Cardinality(B \cup {s}) \in Nat
  BY <1>1, FS_CardinalityType
<1> QED
  BY <1>1, <1>2, <1>3

-----------------------------------------------------------------------------
(* What may still be obeyed.                                               *)

\* Places once named are not named again when they are gone.
LEMMA IdsLater ==
    ASSUME NEW S, NEW n \in Nat, NEW T \in SUBSET Places, Later(S, n, T),
           NEW N, \A k \in N : k < n, N \subseteq Ids(T)
    PROVE  N \subseteq Ids(S)
<1> SUFFICES ASSUME NEW k \in N
             PROVE  k \in Ids(S)
  OBVIOUS
<1>1. PICK h \in T : h.id = k
  BY DEF Ids
<1>2. h.id < n
  BY <1>1
<1>3. PICK g \in S : Grew(g, h)
  BY <1>2, LaterIds
<1> QED
  BY <1>1, <1>3 DEF Ids, Grew

\* Nothing is ordered.
NoOrders(F) == \A f \in F : f.ask.kind # "send"

LEMMA LiveLater ==
    ASSUME NEW S, NEW n \in Nat, NEW T \in SUBSET Places, Later(S, n, T),
           NEW top, NEW f, WellAsked(f.ask, n, top), NEW j, Live(f, j, T)
    PROVE  Live(f, j, S)
<1>1. PICK N : N = ToSet(f.ask.ids)
  OBVIOUS
<1>2. \A k \in N : k < n
  BY <1>1 DEF WellAsked, ToSet
<1>3. N \subseteq Ids(S)
  BY <1>1, <1>2, IdsLater DEF Live
<1> QED
  BY <1>1, <1>3 DEF Live

LEMMA LiveInLater ==
    ASSUME NEW S, NEW n \in Nat, NEW T \in SUBSET Places, Later(S, n, T),
           NEW top, NEW q \in Seq(UpFrames), AskedUp(q, n, top),
           NEW r, NEW F, Flow(q, r, F), NEW j, NEW s \in LiveIn(r, j, T)
    PROVE  s \in LiveIn(q, j, S) \/ \E f \in F : f.s = s /\ Live(f, j, T)
<1>1. s \in 1..MaxTries
  BY DEF LiveIn
<1>2. PICK k \in DOMAIN r : r[k].s = s /\ Live(r[k], j, T)
  BY DEF LiveIn
<1>3. CASE r[k] \in F
  BY <1>2, <1>3
<1>4. CASE \E i \in DOMAIN q : r[k] = q[i]
  <2>1. PICK i \in DOMAIN q : r[k] = q[i]
    BY <1>4
  <2>2. PICK f : f = q[i]
    OBVIOUS
  <2>3. WellAsked(f.ask, n, top) /\ Live(f, j, T) /\ f.s = s
    BY <2>1, <2>2, <1>2 DEF AskedUp
  <2>4. Live(f, j, S)
    BY <2>3, LiveLater
  <2> QED
    BY <2>2, <2>3, <2>4, <1>1 DEF LiveIn
<1> QED
  BY <1>2, <1>3, <1>4, FlowEntries

\* What the desktop owes for j, and what it may still order, when it goes on.
Eased(d, e, j, S, T) ==
    Current(e, j, T) \subseteq Current(d, j, S) /\ Owed(d, j) <= Owed(e, j)

LEMMA EasedNone ==
    ASSUME NEW d, NEW e, e.upload = NoUpload, NEW j \in Jobs, NEW S, NEW T
    PROVE  Eased(d, e, j, S, T)
<1>1. e.upload.job = 0 /\ j # 0
  BY JobFacts DEF NoUpload
<1> QED
  BY <1>1 DEF Eased, Current, Owed

\* The same upload with the same orders.
LEMMA EasedAlike ==
    ASSUME NEW S, NEW n \in Nat, NEW T \in SUBSET Places, Later(S, n, T),
           NEW d, NEW e, e.upload.job = d.upload.job, e.upload.ids = d.upload.ids,
           \A i \in DOMAIN d.upload.ids : d.upload.ids[i] < n,
           NEW j, Ordered(e.out, j) <=> Ordered(d.out, j),
           Ordered(d.out, j) => e.session = d.session
    PROVE  Eased(d, e, j, S, T)
<1>1. Owed(d, j) <= Owed(e, j)
  BY DEF Owed
<1>2. PICK N : N = ToSet(d.upload.ids)
  OBVIOUS
<1>3. \A k \in N : k < n
  BY <1>2 DEF ToSet
<1>4. N \subseteq Ids(T) => N \subseteq Ids(S)
  BY <1>3, IdsLater
<1>5. Current(e, j, T) \subseteq Current(d, j, S)
  BY <1>2, <1>4 DEF Current
<1> QED
  BY <1>1, <1>5 DEF Eased

\* Where nothing is ordered, no more may be obeyed.
LEMMA LiveSame ==
    ASSUME Sound, Sound', Later(phone.staged, phone.fresh, phone'.staged),
           NEW F, Flow(net.up, net'.up, F), NoOrders(F), NEW j
    PROVE  LiveIn(net'.up, j, phone'.staged) \subseteq LiveIn(net.up, j, phone.staged)
<1>1. /\ phone'.staged \in SUBSET Places /\ phone.fresh \in Nat
      /\ net.up \in Seq(UpFrames) /\ AskedUp(net.up, phone.fresh, Opened)
  BY DEF Sound, PhoneOK, Phones, NetOK, Nets
<1>2. PICK S, T, q, r, n, top :
          /\ S = phone.staged /\ T = phone'.staged /\ q = net.up /\ r = net'.up
          /\ n = phone.fresh /\ top = Opened
  OBVIOUS
<1>3. T \in SUBSET Places /\ n \in Nat /\ q \in Seq(UpFrames) /\ AskedUp(q, n, top)
      /\ Later(S, n, T) /\ Flow(q, r, F)
  BY <1>1, <1>2
<1>4. ASSUME NEW s \in LiveIn(r, j, T)
      PROVE  s \in LiveIn(q, j, S)
  <2>1. s \in LiveIn(q, j, S) \/ \E f \in F : f.s = s /\ Live(f, j, T)
    BY <1>3, LiveInLater
  <2> QED
    BY <2>1 DEF NoOrders, Live
<1> QED
  BY <1>2, <1>4

\* What is due grows by a session when an order is put on the table, or not at all.
LEMMA PaidFrom ==
    ASSUME Sound, Sound', NEW j \in Jobs, Paid(j), messages' = messages, unheard[j] <= unheard'[j],
           NEW D, D = Due(desk, net.up, j, phone.staged),
           NEW E, E = Due(desk', net'.up, j, phone'.staged),
           \/ E \subseteq D /\ Owed(desk, j) <= Owed(desk', j)
           \/ /\ \E s : E \subseteq D \cup {s}
              /\ Owed(desk, j) = 0 /\ Owed(desk', j) = 1
    PROVE  Paid(j)'
<1>1. /\ desk \in Desks /\ messages \in Seq(Letters) /\ unheard[j] \in Nat /\ unheard'[j] \in Nat
  BY DEF Sound, DeskOK, BooksOK
<1>2. Tally(messages, j) \in Nat
  BY <1>1, TallyFacts
<1>3. PICK d, e : d = desk /\ e = desk'
  OBVIOUS
<1>4. IsFiniteSet(D)
  BY <1>1, DueFacts
<1>5. Owed(d, j) \in Nat /\ Owed(e, j) \in Nat
  BY DEF Owed
<1>6. Tally(messages, j) + Cardinality(D) <= unheard[j] + Owed(d, j)
  BY <1>3 DEF Paid
<1>7. CASE E \subseteq D /\ Owed(desk, j) <= Owed(desk', j)
  <2>1. Cardinality(E) <= Cardinality(D) /\ Cardinality(E) \in Nat /\ Cardinality(D) \in Nat
    BY <1>4, <1>7, FewerDue
  <2>2. Owed(d, j) <= Owed(e, j)
    BY <1>3, <1>7
  <2>3. Tally(messages', j) + Cardinality(E) <= unheard'[j] + Owed(e, j)
    BY <2>1, <2>2, <1>1, <1>2, <1>5, <1>6
  <2> QED
    BY <2>3, <1>3 DEF Paid
<1>8. CASE /\ \E s : E \subseteq D \cup {s}
           /\ Owed(desk, j) = 0 /\ Owed(desk', j) = 1
  <2>1. PICK s : E \subseteq D \cup {s}
    BY <1>8
  <2>2. Cardinality(E) <= Cardinality(D) + 1 /\ Cardinality(E) \in Nat /\ Cardinality(D) \in Nat
    BY <1>4, <2>1, OneMoreDue
  <2>3. Owed(d, j) = 0 /\ Owed(e, j) = 1
    BY <1>3, <1>8
  <2>4. Tally(messages', j) + Cardinality(E) <= unheard'[j] + Owed(e, j)
    BY <2>2, <2>3, <1>1, <1>2, <1>6
  <2> QED
    BY <2>4, <1>3 DEF Paid
<1> QED
  BY <1>7, <1>8

\* ... or when an order is lost with the link.
LEMMA PaidUnheard ==
    ASSUME Sound, Sound', NEW j \in Jobs, Paid(j), messages' = messages, unheard'[j] = unheard[j] + 1,
           NEW D, D = Due(desk, net.up, j, phone.staged),
           NEW E, E = Due(desk', net'.up, j, phone'.staged), E \subseteq D
    PROVE  Paid(j)'
<1>1. desk \in Desks /\ messages \in Seq(Letters) /\ unheard[j] \in Nat
  BY DEF Sound, DeskOK, BooksOK
<1>2. Tally(messages, j) \in Nat
  BY <1>1, TallyFacts
<1>3. PICK d, e : d = desk /\ e = desk'
  OBVIOUS
<1>4. IsFiniteSet(D)
  BY <1>1, DueFacts
<1>5. Owed(d, j) \in {0, 1} /\ Owed(e, j) \in {0, 1}
  BY DEF Owed
<1>6. Tally(messages, j) + Cardinality(D) <= unheard[j] + Owed(d, j)
  BY <1>3 DEF Paid
<1>7. Cardinality(E) <= Cardinality(D) /\ Cardinality(E) \in Nat /\ Cardinality(D) \in Nat
  BY <1>4, FewerDue
<1>8. Tally(messages', j) + Cardinality(E) <= unheard'[j] + Owed(e, j)
  BY <1>1, <1>2, <1>5, <1>6, <1>7
<1> QED
  BY <1>3, <1>8 DEF Paid

\* No message is made, nothing is ordered: what is paid stays so.
LEMMA PaidStays ==
    ASSUME Sound, Sound', NEW j \in Jobs, Paid(j), messages' = messages,
           Later(phone.staged, phone.fresh, phone'.staged),
           NEW F, Flow(net.up, net'.up, F), NoOrders(F),
           Eased(desk, desk', j, phone.staged, phone'.staged),
           unheard[j] <= unheard'[j]
    PROVE  Paid(j)'
<1>1. LiveIn(net'.up, j, phone'.staged) \subseteq LiveIn(net.up, j, phone.staged)
  BY LiveSame
<1>2. PICK D, E : D = Due(desk, net.up, j, phone.staged) /\ E = Due(desk', net'.up, j, phone'.staged)
  OBVIOUS
<1>3. E \subseteq D /\ Owed(desk, j) <= Owed(desk', j)
  BY <1>1, <1>2 DEF Due, Eased
<1> QED
  BY <1>2, <1>3, PaidFrom

\* The orders that go up name more and more, whatever is added names no less.
LEMMA StaysGrowing ==
    ASSUME NEW q \in Seq(UpFrames), NEW r \in Seq(UpFrames), NEW F, Flow(q, r, F), Growing(q), NEW N,
           \A f \in F : f.ask.kind = "send" =>
               /\ ToSet(f.ask.ids) = N
               /\ \A i \in DOMAIN q : q[i].ask.kind = "send" /\ q[i].ask.job = f.ask.job /\ q[i].s = f.s =>
                      ToSet(q[i].ask.ids) \subseteq N
    PROVE  Growing(r)
<1> SUFFICES ASSUME NEW i \in DOMAIN r, NEW k \in DOMAIN r, i < k,
                    r[i].ask.kind = "send", r[k].ask.kind = "send",
                    r[i].ask.job = r[k].ask.job, r[i].s = r[k].s
             PROVE  ToSet(r[i].ask.ids) \subseteq ToSet(r[k].ask.ids)
  BY DEF Growing
<1>1. PICK c \in Nat, m \in Nat : \A l \in DOMAIN r :
          IF l <= m THEN l + c \in DOMAIN q /\ r[l] = q[l + c] ELSE r[l] \in F
  BY DEF Flow
<1>2. i \in Nat /\ k \in Nat
  OBVIOUS
<1>3. CASE k <= m
  <2>1. i <= m
    BY <1>2, <1>3
  <2>2. i + c \in DOMAIN q /\ k + c \in DOMAIN q /\ r[i] = q[i + c] /\ r[k] = q[k + c]
    BY <2>1, <1>1, <1>3
  <2>3. i + c < k + c
    BY <1>1, <1>2
  <2> QED
    BY <2>2, <2>3 DEF Growing
<1>4. CASE ~(k <= m)
  <2>1. r[k] \in F
    BY <1>1, <1>4
  <2>2. CASE i <= m
    <3>1. i + c \in DOMAIN q /\ r[i] = q[i + c]
      BY <2>2, <1>1
    <3> QED
      BY <2>1, <3>1
  <2>3. CASE ~(i <= m)
    <3>1. r[i] \in F
      BY <2>3, <1>1
    <3> QED
      BY <2>1, <3>1
  <2> QED
    BY <2>2, <2>3
<1> QED
  BY <1>3, <1>4

\* A step that orders nothing and makes no message.
LEMMA CountedFrom ==
    ASSUME Sound, Sound', Counted, messages' = messages,
           NEW F, Flow(net.up, net'.up, F), NoOrders(F),
           \A i \in DOMAIN net.up : Covered(net.up[i], desk'),
           NEW G, Flow(net.down, net'.down, G), \A f \in G : ~Makings(f),
           \A j \in Jobs : told'[j] = "sent" => Tally(messages, j) > 0,
           \A j \in Jobs : Paid(j)'
    PROVE  Counted'
<1>1. net.up \in Seq(UpFrames) /\ net'.up \in Seq(UpFrames)
  BY DEF Sound, NetOK, Nets
<1>2. PICK q, r, e, p, t : q = net.up /\ r = net'.up /\ e = desk' /\ p = net.down /\ t = net'.down
  OBVIOUS
<1>3. Growing(r)
  <2>1. q \in Seq(UpFrames) /\ r \in Seq(UpFrames) /\ Flow(q, r, F) /\ Growing(q)
    BY <1>1, <1>2 DEF Counted
  <2>2. \A f \in F : f.ask.kind # "send"
    BY DEF NoOrders
  <2> QED
    BY <2>1, <2>2, StaysGrowing
<1>4. \A i \in DOMAIN r : Covered(r[i], e)
  <2> SUFFICES ASSUME NEW i \in DOMAIN r
               PROVE  Covered(r[i], e)
    OBVIOUS
  <2>1. r[i] \in F \/ \E k \in DOMAIN q : r[i] = q[k]
    BY <1>2, FlowEntries
  <2>2. CASE r[i] \in F
    BY <2>2 DEF NoOrders, Covered
  <2>3. CASE \E k \in DOMAIN q : r[i] = q[k]
    BY <2>3, <1>2
  <2> QED
    BY <2>1, <2>2, <2>3
<1>5. \A i \in DOMAIN t : Makings(t[i]) => Tally(messages, t[i].ask.job) > 0
  <2> SUFFICES ASSUME NEW i \in DOMAIN t, Makings(t[i])
               PROVE  Tally(messages, t[i].ask.job) > 0
    OBVIOUS
  <2>1. t[i] \in G \/ \E k \in DOMAIN p : t[i] = p[k]
    BY <1>2, FlowEntries
  <2>2. PICK k \in DOMAIN p : t[i] = p[k]
    BY <2>1
  <2> QED
    BY <2>2, <1>2 DEF Counted
<1> QED
  BY <1>2, <1>3, <1>4, <1>5 DEF Counted

-----------------------------------------------------------------------------
(* The steps that make no message.                                         *)

LEMMA UpOrders ==
    ASSUME Sound, Orderly, NEW i \in DOMAIN net.up, net.up[i].ask.kind = "send"
    PROVE  /\ net.up[i].ask.job \in Jobs /\ net.up[i].ask.job # 0 /\ net.up[i].ask.job <= Opened
           /\ net.up[i].s \in 1..MaxTries /\ net.up[i].s # desk.pending
<1>1. PICK f : f = net.up[i]
  OBVIOUS
<1>2. f \in UpFrames
  BY <1>1, DeskPieces
<1>3. f.ask \in Requests /\ f.s \in 1..MaxTries /\ f.type \in {"ask", "hello"}
  BY <1>2 DEF UpFrames
<1>4. WellAsked(f.ask, phone.fresh, Opened) /\ (f.type = "hello" => f.ask.kind = "none")
  BY <1>1 DEF Sound, NetOK, AskedUp
<1>5. f.ask.kind = "send" /\ f.type = "ask"
  BY <1>1, <1>3, <1>4
<1>6. f.s # desk.pending
  BY <1>1, <1>5 DEF Orderly, Dated
<1>7. f.ask.job # 0 /\ f.ask.job <= Opened
  BY <1>4, <1>5 DEF WellAsked, Plains
<1>8. f.ask.job \in Jobs
  BY <1>3, <1>7 DEF Requests
<1> QED
  BY <1>1, <1>3, <1>6, <1>7, <1>8

LEMMA CoveredNone ==
    ASSUME Sound, Orderly, NEW e, e.upload = NoUpload
    PROVE  \A i \in DOMAIN net.up : Covered(net.up[i], e)
<1>1. e.upload.job = 0
  BY DEF NoUpload
<1> QED
  BY <1>1, UpOrders DEF Covered

LEMMA CoveredSame ==
    ASSUME Counted, NEW e, e.session = desk.session, e.upload = desk.upload
    PROVE  \A i \in DOMAIN net.up : Covered(net.up[i], e)
BY DEF Counted, Covered

LEMMA ToldElse ==
    ASSUME Sound, Counted, NEW x, NEW fate, fate # "sent",
           told' = told \/ told' = [told EXCEPT ![x] = fate]
    PROVE  \A j \in Jobs : told'[j] = "sent" => Tally(messages, j) > 0
<1>1. told \in [Jobs -> Fates]
  BY DEF Sound, BooksOK
<1>2. \A j \in Jobs : told'[j] = "sent" => told[j] = "sent"
  BY <1>1
<1> QED
  BY <1>2 DEF Counted

\* The places are the same, nothing is lost and nothing ordered.
LEMMA DeskPaid ==
    ASSUME Sound, Sound', Orderly, Counted, messages' = messages, phone' = phone, unheard' = unheard,
           NEW F, Flow(net.up, net'.up, F), NoOrders(F), NEW j \in Jobs,
           Eased(desk, desk', j, phone.staged, phone.staged)
    PROVE  Paid(j)'
<1>1. Later(phone.staged, phone.fresh, phone'.staged)
  <2>1. PICK S : S = phone.staged
    OBVIOUS
  <2>2. S \in SUBSET S
    OBVIOUS
  <2>3. Later(S, phone.fresh, S)
    BY <2>2, LaterSame
  <2> QED
    BY <2>1, <2>3
<1>2. unheard[j] <= unheard'[j]
  BY DEF Sound, BooksOK
<1>3. Paid(j)
  BY DEF Counted
<1>4. Eased(desk, desk', j, phone.staged, phone'.staged)
  OBVIOUS
<1> QED
  BY <1>1, <1>2, <1>3, <1>4, PaidStays

\* ... and the upload stays.
LEMMA DeskEased ==
    ASSUME Sound, NEW e, e.upload = desk.upload, NEW j,
           Ordered(e.out, j) <=> Ordered(desk.out, j),
           Ordered(desk.out, j) => e.session = desk.session
    PROVE  Eased(desk, e, j, phone.staged, phone.staged)
<1>1. PICK S, n, d : S = phone.staged /\ n = phone.fresh /\ d = desk
  OBVIOUS
<1>2. S \in SUBSET Places /\ n \in Nat /\ \A i \in DOMAIN d.upload.ids : d.upload.ids[i] < n
  BY <1>1 DEF Sound, PhoneOK, Phones, DeskOK, WellUp
<1>3. S \in SUBSET S
  OBVIOUS
<1>4. Later(S, n, S)
  BY <1>3, LaterSame
<1>5. /\ e.upload.job = d.upload.job /\ e.upload.ids = d.upload.ids
      /\ Ordered(e.out, j) <=> Ordered(d.out, j)
      /\ Ordered(d.out, j) => e.session = d.session
  BY <1>1
<1>6. Eased(d, e, j, S, S)
  BY <1>2, <1>4, <1>5, EasedAlike
<1> QED
  BY <1>1, <1>6

\* What is carried orders nothing.
LEMMA CarriedOrders ==
    ASSUME NEW F, NEW s, NEW as, Carries(F, s, as), \A a \in as : a.kind # "send"
    PROVE  NoOrders(F)
BY DEF Carries, NoOrders

\* Nothing comes down but what was coming.
LEMMA DownSame ==
    ASSUME Sound, net'.down = net.down
    PROVE  Flow(net.down, net'.down, {})
<1>1. net.down \in Seq(Notes \cup Answers)
  BY DEF Sound, NetOK, Nets
<1> QED
  BY <1>1, FlowSame

LEMMA SendFilesCounted ==
    ASSUME Sound, Sound', Orderly, Faithful, Counted, SendFiles
    PROVE  Counted'
<1>1. PICK j, u, a, o, up : Sends(j, u, a, o, up)
  BY SendFilesShape
<1>2. phone' = phone /\ messages' = messages /\ unheard' = unheard
  BY DEF SendFiles, history
<1>3. /\ j = Opened + 1 /\ j \in Jobs /\ desk.upload = NoUpload
      /\ u = [NoUpload EXCEPT !.job = j, !.at = 1]
      /\ a.kind = "offer" /\ desk'.out = o /\ desk'.upload \in {u, NoUpload}
      /\ net'.up = up /\ net'.down = net.down
      /\ o \in Seq(Requests) /\ Grown(desk.out, o, {a})
  BY <1>1 DEF Sends, Posting, FileOffer, RequestOf
<1>4. PICK F : Flow(net.up, up, F) /\ Carries(F, desk.session, {a})
  BY <1>1, PostedFlow, DeskPieces DEF Sends
<1>5. Flow(net.up, net'.up, F) /\ NoOrders(F)
  BY <1>3, <1>4, CarriedOrders
<1>6. desk'.upload.job \in {0, j} /\ Opened \in Nat /\ j # 0
  <2>1. u.job = j /\ NoUpload.job = 0
    <3>1. NoUpload.job = 0 /\ NoUpload \in Uploads
      BY DEF NoUpload, Uploads
    <3>2. PICK n0 : n0 = NoUpload
      OBVIOUS
    <3>3. n0 \in Uploads /\ u = [n0 EXCEPT !.job = j, !.at = 1]
      BY <3>1, <3>2, <1>3
    <3>4. u.job = j
      BY <3>3 DEF Uploads
    <3> QED
      BY <3>1, <3>4
  <2>2. Opened \in Nat
    BY DeskPieces
  <2>3. j # 0
    BY <1>3, JobFacts
  <2>4. desk'.upload = u \/ desk'.upload = NoUpload
    BY <1>3
  <2>5. (desk'.upload).job \in {0, j}
    BY <2>1, <2>4
  <2> QED
    BY <2>2, <2>3, <2>5
<1>7. \A i \in DOMAIN net.up : Covered(net.up[i], desk')
  BY <1>3, <1>6, UpOrders DEF Covered
<1>8. \A i \in Jobs : told'[i] = "sent" => Tally(messages, i) > 0
  <2>1. \E x \in Jobs : \E b : told' = [told EXCEPT ![x] = IF b THEN "open" ELSE "dropped"]
    BY DEF SendFiles
  <2>2. PICK x \in Jobs : \E b : told' = [told EXCEPT ![x] = IF b THEN "open" ELSE "dropped"]
    BY <2>1
  <2>3. PICK b : told' = [told EXCEPT ![x] = IF b THEN "open" ELSE "dropped"]
    BY <2>2
  <2>4. PICK fate : fate = (IF b THEN "open" ELSE "dropped") /\ fate # "sent"
    OBVIOUS
  <2> QED
    BY <2>3, <2>4, ToldElse
<1>9. ASSUME NEW i \in Jobs, i # j
      PROVE  Paid(i)'
  <2>1. desk'.upload.job # i /\ i # 0
    BY <1>6, <1>9, JobFacts
  <2>2. Eased(desk, desk', i, phone.staged, phone.staged)
    BY <2>1 DEF Eased, Current, Owed
  <2> QED
    BY <2>2, <1>2, <1>5, DeskPaid
<1>10. Paid(j)'
  <2>1. PICK S, q, r, e, ms : S = phone'.staged /\ q = net.up /\ r = net'.up /\ e = desk' /\ ms = messages
    OBVIOUS
  <2>2. Tally(ms, j) = 0
    <3>1. \A i \in DOMAIN ms : ms[i].text <= Opened
      BY <2>1 DEF Faithful, SentOK
    <3>2. ~(j <= Opened)
      BY <1>3, <1>6
    <3>3. {i \in DOMAIN ms : ms[i].text = j} = {}
      BY <3>1, <3>2
    <3> QED
      BY <3>3, FS_EmptySet DEF Tally
  <2>3. LiveIn(r, j, S) = {}
    <3> SUFFICES ASSUME NEW i \in DOMAIN r, r[i].ask.kind = "send", r[i].ask.job = j
                 PROVE  FALSE
      BY DEF LiveIn, Live
    <3>1. r[i] \in F \/ \E k \in DOMAIN q : r[i] = q[k]
      BY <1>5, <2>1, FlowEntries
    <3>2. PICK k \in DOMAIN q : r[i] = q[k]
      BY <3>1, <1>5 DEF NoOrders
    <3>3. q[k].ask.job <= Opened
      BY <3>2, <2>1, UpOrders
    <3> QED
      BY <3>2, <3>3, <1>3, <1>6
  <2>4. ~Ordered(o, j)
    <3> SUFFICES ASSUME NEW i \in DOMAIN o, o[i].kind = "send", o[i].job = j
                 PROVE  FALSE
      BY DEF Ordered
    <3>1. o[i] \in {a} \/ \E k \in DOMAIN desk.out : o[i] = desk.out[k]
      BY <1>3 DEF Grown
    <3>2. PICK k \in DOMAIN desk.out : o[i] = desk.out[k]
      BY <3>1, <1>3
    <3>3. desk.out[k].job <= Opened
      BY DEF Sound, DeskOK, AskedOut, WellAsked
    <3> QED
      BY <3>2, <3>3, <1>3, <1>6
  <2>5. Current(e, j, S) = {}
    BY <2>1, <2>4, <1>3 DEF Current
  <2>6. Due(e, r, j, S) = {}
    BY <2>3, <2>5 DEF Due
  <2>7. Cardinality(Due(e, r, j, S)) = 0
    BY <2>6, FS_EmptySet
  <2>8. unheard'[j] \in Nat /\ Owed(e, j) \in Nat
    BY <1>3 DEF Sound, BooksOK, Owed
  <2>9. Tally(ms, j) + Cardinality(Due(e, r, j, S)) <= unheard'[j] + Owed(e, j)
    BY <2>2, <2>7, <2>8
  <2> QED
    BY <2>1, <2>9, <1>2 DEF Paid
<1>11. \A i \in Jobs : Paid(i)'
  BY <1>9, <1>10
<1>12. Flow(net.down, net'.down, {})
  BY <1>3, DownSame
<1>13. \A f \in {} : ~Makings(f)
  OBVIOUS
<1> QED
  BY <1>2, <1>5, <1>7, <1>8, <1>11, <1>12, <1>13, CountedFrom

LEMMA CancelSendCounted ==
    ASSUME Sound, Sound', Orderly, Counted, CancelSend
    PROVE  Counted'
<1>1. PICK as, o, up : Cancels(as, o, up)
  BY CancelSendShape
<1>2. phone' = phone /\ messages' = messages /\ unheard' = unheard
  BY DEF CancelSend, history
<1>3. PICK F : Flow(net.up, up, F) /\ Carries(F, desk.session, as)
  BY <1>1, PostedFlow, DeskPieces DEF Cancels
<1>4. /\ net'.up = up /\ net'.down = net.down /\ desk'.upload = NoUpload
      /\ \A a \in as : a.kind # "send"
  BY <1>1 DEF Cancels
<1>5. Flow(net.up, net'.up, F) /\ NoOrders(F)
  BY <1>3, <1>4, CarriedOrders
<1>6. \A i \in DOMAIN net.up : Covered(net.up[i], desk')
  BY <1>4, CoveredNone
<1>7. \A i \in Jobs : told'[i] = "sent" => Tally(messages, i) > 0
  <2>1. Told(desk, "cancelled")
    BY DEF CancelSend
  <2>2. \E x : told' = told \/ told' = [told EXCEPT ![x] = "cancelled"]
    BY <2>1 DEF Told
  <2> QED
    BY <2>2, ToldElse
<1>8. \A i \in Jobs : Paid(i)'
  BY <1>2, <1>4, <1>5, EasedNone, DeskPaid
<1>9. Flow(net.down, net'.down, {}) /\ \A f \in {} : ~Makings(f)
  BY <1>4, DownSame
<1> QED
  BY <1>2, <1>5, <1>6, <1>7, <1>8, <1>9, CountedFrom

LEMMA ReachCounted ==
    ASSUME Sound, Sound', Orderly, Counted, NEW again, Reach(again)
    PROVE  Counted'
<1>1. PICK f : f = [type |-> "hello", s |-> tries', ask |-> Plain("none")]
  OBVIOUS
<1>2. /\ tries' = tries + 1 /\ desk.session = 0
      /\ desk' = [desk EXCEPT !.pending = tries']
      /\ net' = [net EXCEPT !.up = Append(@, f)]
      /\ phone' = phone /\ messages' = messages /\ told' = told /\ unheard' = unheard
  BY <1>1 DEF Reach, history
<1>3. tries \in Nat /\ desk \in Desks /\ net \in Nets /\ net.up \in Seq(UpFrames)
  BY DeskPieces
<1>4. /\ desk'.session = desk.session /\ desk'.out = desk.out /\ desk'.upload = desk.upload
      /\ net'.up = Append(net.up, f) /\ net'.down = net.down
  BY <1>2, <1>3 DEF Desks, Nets
<1>5. f \in UpFrames
  <2>1. tries' \in 1..MaxTries
    BY <1>2, <1>3, CompanionAssumption DEF Sound, BooksOK
  <2>2. Plain("none") \in Requests
    BY PlainOK DEF Plains
  <2> QED
    BY <2>1, <2>2, <1>1 DEF UpFrames
<1>6. Flow(net.up, net'.up, {f})
  <2>1. PICK q : q = net.up
    OBVIOUS
  <2>2. q \in Seq(UpFrames)
    BY <2>1, DeskPieces
  <2>3. Append(q, f) \in Seq(UpFrames) /\ Grown(q, Append(q, f), {f})
    BY <2>2, <1>5, OneMore, GrownOne
  <2>4. Flow(q, Append(q, f), {f})
    BY <2>2, <2>3, FlowGrown
  <2> QED
    BY <2>1, <2>4, <1>4
<1>7. NoOrders({f})
  BY <1>1, PlainFacts DEF NoOrders
<1>8. \A i \in DOMAIN net.up : Covered(net.up[i], desk')
  BY <1>4, CoveredSame
<1>9. \A j \in Jobs : Paid(j)'
  BY <1>2, <1>4, <1>6, <1>7, DeskEased, DeskPaid
<1>10. Flow(net.down, net'.down, {}) /\ \A g \in {} : ~Makings(g)
  BY <1>4, DownSame
<1>11. \A j \in Jobs : told'[j] = "sent" => Tally(messages, j) > 0
  BY <1>2 DEF Counted
<1> QED
  BY <1>2, <1>6, <1>7, <1>8, <1>9, <1>10, <1>11, CountedFrom

\* The desktop hears, and nothing goes up.
LEMMA QuietCounted ==
    ASSUME Sound, Sound', Orderly, Counted, DeskHears, unheard' = unheard,
           net'.up = net.up, net'.down = Tail(net.down),
           \A i \in DOMAIN net.up : Covered(net.up[i], desk'),
           \A j \in Jobs : told'[j] = "sent" => Tally(messages, j) > 0,
           \A j \in Jobs : Eased(desk, desk', j, phone.staged, phone.staged)
    PROVE  Counted'
<1>1. phone' = phone /\ messages' = messages /\ net.down # <<>>
  BY DEF DeskHears
<1>2. Flow(net.up, net'.up, {}) /\ NoOrders({})
  BY DeskPieces, FlowSame DEF NoOrders
<1>3. Flow(net.down, net'.down, {}) /\ \A g \in {} : ~Makings(g)
  BY <1>1, DownFlows
<1>4. \A j \in Jobs : Paid(j)'
  BY <1>1, <1>2, DeskPaid
<1> QED
  BY <1>1, <1>2, <1>3, <1>4, CountedFrom

LEMMA HearReplyCounted ==
    ASSUME Sound, Sound', Orderly, Counted, DeskHears, NEW f, f = Head(net.down), HearReply(f)
    PROVE  Counted'
<1>1. net.down # <<>> /\ phone' = phone /\ messages' = messages /\ told' = told /\ unheard' = unheard
  BY DEF DeskHears, HearReply, history
<1>2. Mislinks \/ \E as, o, up : Links(f, as, o, up)
  BY <1>1, HearReplyShape
<1>3. net'.down = Tail(net.down)
  BY <1>2 DEF Mislinks, Links
<1>4. Flow(net.down, net'.down, {}) /\ desk \in Desks /\ net.up \in Seq(UpFrames)
      /\ f.s \in Nat /\ f.s >= 1
  BY <1>1, <1>3, DownFlows, DeskPieces
<1>5. \A j \in Jobs : told'[j] = "sent" => Tally(messages, j) > 0
  BY <1>1 DEF Counted
<1>6. CASE Mislinks
  <2>1. /\ desk'.session = desk.session /\ desk'.out = desk.out
        /\ desk'.upload = desk.upload /\ net'.up = net.up
    BY <1>6, <1>4 DEF Mislinks, Desks
  <2>2. \A i \in DOMAIN net.up : Covered(net.up[i], desk')
    BY <2>1, CoveredSame
  <2>3. \A j \in Jobs : Eased(desk, desk', j, phone.staged, phone.staged)
    BY <2>1, DeskEased
  <2> QED
    BY <2>1, <2>2, <2>3, <1>1, <1>3, <1>5, QuietCounted
<1>7. CASE \E as, o, up : Links(f, as, o, up)
  <2>1. PICK as, o, up : Links(f, as, o, up)
    BY <1>7
  <2>2. /\ desk.pending = f.s /\ desk'.session = f.s /\ desk'.upload = desk.upload
        /\ desk'.out = o /\ net'.up = up /\ Posting(f.s, <<>>, net.up, o, up, as)
        /\ \A a \in as : \E kind \in Plains : a = Plain(kind)
    BY <2>1 DEF Links
  <2>3. PICK F : Flow(net.up, up, F) /\ Carries(F, f.s, as)
    BY <2>2, <1>4, PostedFlow
  <2>4. \A a \in as : a.kind # "send"
    BY <2>2, PlainFacts DEF Plains
  <2>5. Flow(net.up, net'.up, F) /\ NoOrders(F)
    BY <2>2, <2>3, <2>4, CarriedOrders
  <2>6. \A i \in DOMAIN net.up : Covered(net.up[i], desk')
    BY <2>2, UpOrders DEF Covered
  <2>7. \A j : ~Ordered(desk.out, j)
    <3>1. desk.out = <<>>
      BY <2>2, <1>4, DeskPieces
    <3>2. DOMAIN <<>> = {}
      OBVIOUS
    <3> QED
      BY <3>1, <3>2 DEF Ordered
  <2>8. \A j : ~Ordered(o, j)
    <3>1. PICK none : none = <<>>
      OBVIOUS
    <3>2. Len(none) = 0 /\ o \in Seq(Requests) /\ Grown(none, o, as)
      BY <2>2, <3>1 DEF Posting
    <3>3. \A i \in DOMAIN o : o[i] \in as
      <4> SUFFICES ASSUME NEW i \in DOMAIN o
                   PROVE  o[i] \in as
        OBVIOUS
      <4>1. i \in Nat /\ i >= 1 /\ ~(i <= Len(none))
        BY <3>2
      <4> QED
        BY <3>2, <4>1 DEF Grown
    <3> QED
      BY <3>3, <2>4 DEF Ordered
  <2>9. \A j \in Jobs : Eased(desk, desk', j, phone.staged, phone.staged)
    BY <2>2, <2>7, <2>8, DeskEased
  <2>10. \A j \in Jobs : Paid(j)'
    BY <2>5, <2>9, <1>1, DeskPaid
  <2>11. \A g \in {} : ~Makings(g)
    OBVIOUS
  <2> QED
    BY <2>5, <2>6, <2>10, <2>11, <1>1, <1>4, <1>5, CountedFrom
<1> QED
  BY <1>2, <1>6, <1>7

LEMMA HearRevokedCounted ==
    ASSUME Sound, Sound', Orderly, Counted, DeskHears, NEW f, f = Head(net.down), HearRevoked(f)
    PROVE  Counted'
<1>1. /\ desk' = Revoked(desk) /\ net' = [net EXCEPT !.down = Tail(@)] /\ unheard' = unheard
      /\ Told(desk, "stopped")
  BY DEF HearRevoked, history
<1>2. desk \in Desks /\ net \in Nets
  BY DeskPieces
<1>3. desk'.upload = NoUpload /\ net'.up = net.up /\ net'.down = Tail(net.down)
  BY <1>1, <1>2 DEF Revoked, Desks, Nets
<1>4. \A i \in DOMAIN net.up : Covered(net.up[i], desk')
  BY <1>3, CoveredNone
<1>5. \A j \in Jobs : told'[j] = "sent" => Tally(messages, j) > 0
  <2>1. \E x : told' = told \/ told' = [told EXCEPT ![x] = "stopped"]
    BY <1>1 DEF Told
  <2> QED
    BY <2>1, ToldElse
<1>6. \A j \in Jobs : Eased(desk, desk', j, phone.staged, phone.staged)
  BY <1>3, EasedNone
<1> QED
  BY <1>1, <1>3, <1>4, <1>5, <1>6, QuietCounted

LEMMA HearNothingCounted ==
    ASSUME Sound, Sound', Orderly, Counted, DeskHears, NEW f, f = Head(net.down), HearNothing(f)
    PROVE  Counted'
<1>1. /\ desk' = desk /\ net' = [net EXCEPT !.down = Tail(@)] /\ unheard' = unheard /\ told' = told
  BY DEF HearNothing, history
<1>2. net'.up = net.up /\ net'.down = Tail(net.down)
  BY <1>1, DeskPieces DEF Nets
<1>3. \A i \in DOMAIN net.up : Covered(net.up[i], desk')
  BY <1>1, CoveredSame
<1>4. \A j \in Jobs : told'[j] = "sent" => Tally(messages, j) > 0
  BY <1>1 DEF Counted
<1>5. \A j \in Jobs : Eased(desk, desk', j, phone.staged, phone.staged)
  BY <1>1, DeskEased
<1> QED
  BY <1>1, <1>2, <1>3, <1>4, <1>5, QuietCounted

\* An answer that is not to an order leaves the orders.
LEMMA StruckOrders ==
    ASSUME NEW q, NEW r, NEW at \in DOMAIN q, Struck(q, r, at), q[at].kind # "send", NEW j
    PROVE  Ordered(r, j) <=> Ordered(q, j)
<1>1. Ordered(r, j) => Ordered(q, j)
  BY DEF Ordered, Struck
<1>2. ASSUME NEW k \in DOMAIN q, q[k].kind = "send", q[k].job = j
      PROVE  Ordered(r, j)
  <2>1. k # at /\ q[k].kind # "hello"
    BY <1>2
  <2> QED
    BY <2>1, <1>2 DEF Ordered, Struck
<1> QED
  BY <1>1, <1>2 DEF Ordered

LEMMA HearEndCounted ==
    ASSUME Sound, Sound', Orderly, Counted, DeskHears, NEW f, Heard(f), HearEnd(f)
    PROVE  Counted'
<1>1. PICK at, r : Settles(f, at, r)
  BY HearEndShape
<1>2. desk'.upload = NoUpload /\ unheard' = unheard
  BY HearEndShape DEF HearEnd
<1>3. net'.up = net.up /\ net'.down = Tail(net.down)
  BY <1>1 DEF Settles
<1>4. \A i \in DOMAIN net.up : Covered(net.up[i], desk')
  BY <1>2, CoveredNone
<1>5. \A j \in Jobs : Eased(desk, desk', j, phone.staged, phone.staged)
  BY <1>2, EasedNone
<1>6. \A j \in Jobs : told'[j] = "sent" => Tally(messages, j) > 0
  <2>1. CASE f.ans = "done"
    <3>1. told' = [told EXCEPT ![f.ask.job] = "sent"] /\ f.ask.kind = "send"
      BY <2>1 DEF HearEnd
    <3>2. Tally(messages, f.ask.job) > 0
      <4>1. 1 \in DOMAIN net.down /\ f = net.down[1] /\ f.type = "answer"
        BY DeskPieces, TailFacts DEF Heard
      <4> QED
        BY <4>1, <3>1, <2>1 DEF Counted, Makings
    <3>3. told \in [Jobs -> Fates]
      BY DEF Sound, BooksOK
    <3>4. \A j \in Jobs : told'[j] = "sent" => j = f.ask.job \/ told[j] = "sent"
      BY <3>1, <3>3
    <3> QED
      BY <3>2, <3>4 DEF Counted
  <2>2. CASE f.ans # "done"
    <3>1. PICK x : x = Answered(desk, f).upload.job
      OBVIOUS
    <3>2. told' = told \/ told' = [told EXCEPT ![x] = "stopped"]
      BY <2>2, <3>1 DEF HearEnd
    <3> QED
      BY <3>2, ToldElse
  <2> QED
    BY <2>1, <2>2
<1> QED
  BY <1>2, <1>3, <1>4, <1>5, <1>6, QuietCounted

LEMMA HearOtherCounted ==
    ASSUME Sound, Sound', Orderly, Counted, DeskHears, NEW f, Heard(f), HearOther(f)
    PROVE  Counted'
<1>1. PICK at, r : Settles(f, at, r)
  BY HearOtherShape
<1>2. unheard' = unheard
  BY DEF HearOther, history
<1>3. /\ net'.up = net.up /\ net'.down = Tail(net.down)
      /\ desk'.session = desk.session /\ desk'.out = r /\ desk'.upload \in {desk.upload, NoUpload}
      /\ StrikesOut(f, at, r)
  BY <1>1 DEF Settles
<1>4. \A j \in Jobs : told'[j] = "sent" => Tally(messages, j) > 0
  <2>1. PICK x : x = desk.upload.job
    OBVIOUS
  <2>2. told' = told \/ told' = [told EXCEPT ![x] = "stopped"]
    BY <2>1 DEF HearOther
  <2> QED
    BY <2>2, ToldElse
<1>5. f.ask.kind # "send"
  <2>1. f.ans = "offer" => f.ask.kind = "offer"
    BY <1>3 DEF StrikesOut, WellAnswered
  <2>2. f.ans = "staged" => f.ask.kind = "staged"
    BY <1>3 DEF StrikesOut, WellAnswered
  <2>3. f.ask.kind \notin OfUpload \/ f.ans \in {"offer", "staged"} \/ f.ask.kind = "put"
    BY DEF HearOther
  <2> QED
    BY <2>1, <2>2, <2>3 DEF OfUpload
<1>6. CASE desk'.upload = NoUpload
  <2>1. \A i \in DOMAIN net.up : Covered(net.up[i], desk')
    BY <1>6, CoveredNone
  <2>2. \A j \in Jobs : Eased(desk, desk', j, phone.staged, phone.staged)
    BY <1>6, EasedNone
  <2> QED
    BY <2>1, <2>2, <1>2, <1>3, <1>4, QuietCounted
<1>7. CASE desk'.upload = desk.upload
  <2>1. \A i \in DOMAIN net.up : Covered(net.up[i], desk')
    BY <1>3, <1>7, CoveredSame
  <2>2. PICK q : q = desk.out
    OBVIOUS
  <2>3. at \in DOMAIN q /\ q[at].kind # "send" /\ Struck(q, r, at)
    BY <2>2, <1>3, <1>5 DEF StrikesOut
  <2>4. \A j : Ordered(r, j) <=> Ordered(q, j)
    BY <2>3, StruckOrders
  <2>5. \A j \in Jobs : Eased(desk, desk', j, phone.staged, phone.staged)
    BY <2>2, <2>4, <1>3, <1>7, DeskEased
  <2> QED
    BY <2>1, <2>5, <1>2, <1>3, <1>4, QuietCounted
<1> QED
  BY <1>3, <1>6, <1>7
-----------------------------------------------------------------------------
(* An upload that moves on.                                                *)

\* A step of an upload names all of N, and orders what it names.
Widens(step, N) ==
    \E v, rs : /\ step = Step(v, rs) /\ N \subseteq ToSet(v.ids)
               /\ \A a \in ToSet(rs) : a.kind = "send" => a.ids = v.ids

LEMMA StepsWiden ==
    ASSUME NEW u \in Uploads, NEW N, N \subseteq ToSet(u.ids), NEW which, NEW n
    PROVE  Widens(NeedChunk(u, which, n), N) /\ Widens(Advanced(u), N)
<1>1. Widens(NeedChunk(u, which, n), N)
  <2>1. PICK a : a = FilePut(u, which, n)
    OBVIOUS
  <2>2. PICK rs : rs = IF /\ ~u.stalled /\ n = u.next
                          /\ u.at <= Len(u.ids) /\ which <= Len(Sizes[u.job])
                       THEN <<a>> ELSE <<>>
    OBVIOUS
  <2>3. NeedChunk(u, which, n) = Step(u, rs)
    BY <2>1, <2>2 DEF NeedChunk
  <2>4. ToSet(<<>>) = {} /\ ToSet(<<a>>) = {a}
    BY DEF ToSet
  <2>5. a.kind = "put"
    BY <2>1 DEF FilePut, RequestOf
  <2>6. \A b \in ToSet(rs) : b.kind = "put"
    BY <2>2, <2>4, <2>5
  <2> QED
    BY <2>3, <2>6 DEF Widens
<1>2. Widens(Advanced(u), N)
  <2>1. PICK v : v = [u EXCEPT !.at = @ + 1]
    OBVIOUS
  <2>2. PICK a : a = IF v.at <= Len(Sizes[u.job]) THEN FileOffer(v, v.at) ELSE FileSend(v)
    OBVIOUS
  <2>3. Advanced(u) = Step(v, <<a>>)
    BY <2>1, <2>2 DEF Advanced
  <2>4. v.ids = u.ids
    BY <2>1 DEF Uploads
  <2>5. ToSet(<<a>>) = {a}
    BY DEF ToSet
  <2>6. a.kind = "send" => a.ids = v.ids
    BY <2>2 DEF FileOffer, FileSend, RequestOf
  <2>7. N \subseteq ToSet(v.ids) /\ \A b \in ToSet(<<a>>) : b.kind = "send" => b.ids = v.ids
    BY <2>4, <2>5, <2>6
  <2> QED
    BY <2>3, <2>7 DEF Widens
<1> QED
  BY <1>1, <1>2

LEMMA ResumedWidens ==
    ASSUME NEW u \in Uploads, u.job \in Jobs, NEW files, \A x \in files : x.total \in Nat /\ x.missing \in SUBSET Nat
    PROVE  Widens(Resumed(u, files), {})
<1>1. PICK step : step = Resumed(u, files)
  OBVIOUS
<1>2. Rewound(u, files, step)
  BY <1>1, ResumedCases
<1>3. PICK w : w = [u EXCEPT !.stalled = FALSE, !.at = Len(Sizes[u.job])]
  OBVIOUS
<1>4. CASE UndoneOf(u, files) = {} /\ step = Advanced(w)
  <2>1. w \in Uploads
    BY <1>3, JobFacts DEF Uploads
  <2>2. Widens(Advanced(w), {})
    BY <2>1, StepsWiden
  <2> QED
    BY <2>2, <1>1, <1>4
<1>5. CASE ~(UndoneOf(u, files) = {} /\ step = Advanced(w))
  <2>1. PICK at \in UndoneOf(u, files) :
           /\ \A k \in UndoneOf(u, files) : at <= k
           /\ \/ \E v : /\ v = [u EXCEPT !.stalled = FALSE, !.at = at, !.ids = SubSeq(@, 1, at - 1)]
                        /\ step = Step(v, <<FileOffer(v, at)>>)
              \/ \E x \in LeftOf(u, files, at) : \E v :
                    /\ v = [u EXCEPT !.stalled = FALSE, !.at = at, !.next = Lowest(x.missing),
                                     !.total = x.total]
                    /\ step = NeedChunk(v, v.at, v.next)
    BY <1>2, <1>3, <1>5 DEF Rewound
  <2>2. CASE \E v : /\ v = [u EXCEPT !.stalled = FALSE, !.at = at, !.ids = SubSeq(@, 1, at - 1)]
                    /\ step = Step(v, <<FileOffer(v, at)>>)
    <3>1. PICK v : step = Step(v, <<FileOffer(v, at)>>)
      BY <2>2
    <3>2. PICK a : a = FileOffer(v, at)
      OBVIOUS
    <3>3. ToSet(<<a>>) = {a} /\ a.kind = "offer"
      BY <3>2 DEF ToSet, FileOffer, RequestOf
    <3>4. \A b \in ToSet(<<a>>) : b.kind = "send" => b.ids = v.ids
      BY <3>3
    <3> QED
      BY <3>1, <3>2, <3>4, <1>1 DEF Widens
  <2>3. CASE \E x \in LeftOf(u, files, at) : \E v :
                /\ v = [u EXCEPT !.stalled = FALSE, !.at = at, !.next = Lowest(x.missing),
                                 !.total = x.total]
                /\ step = NeedChunk(v, v.at, v.next)
    <3>1. PICK x \in LeftOf(u, files, at) : \E v :
                /\ v = [u EXCEPT !.stalled = FALSE, !.at = at, !.next = Lowest(x.missing),
                                 !.total = x.total]
                /\ step = NeedChunk(v, v.at, v.next)
      BY <2>3
    <3>2. PICK v : /\ v = [u EXCEPT !.stalled = FALSE, !.at = at, !.next = Lowest(x.missing),
                                    !.total = x.total]
                   /\ step = NeedChunk(v, v.at, v.next)
      BY <3>1
    <3>3. at \in Nat /\ at >= 1 /\ x.missing # {} /\ x \in files
      <4>1. \A k \in UndoneOf(u, files) : at <= k
        BY <2>1
      <4>2. at \in Nat /\ at >= 1
        BY <4>1, RewoundFar
      <4> QED
        BY <4>2 DEF UndoneOf, LeftOf
    <3>4. Lowest(x.missing) \in Nat /\ x.total \in Nat
      BY <3>3, LowestFacts
    <3>5. v \in Uploads
      BY <3>2, <3>3, <3>4 DEF Uploads
    <3>6. Widens(NeedChunk(v, v.at, v.next), {})
      BY <3>5, StepsWiden
    <3> QED
      BY <3>2, <3>6, <1>1
  <2> QED
    BY <2>1, <2>2, <2>3
<1> QED
  BY <1>4, <1>5

LEMMA ReactionWidens ==
    ASSUME NEW u \in Uploads, u.job \in Jobs, NEW f \in Answers, f.ans \in {"offer", "done", "staged"},
           NEW N, N = IF f.ans = "staged" THEN {} ELSE ToSet(u.ids)
    PROVE  Widens(Reaction(u, f), N)
<1>1. CASE f.ans = "offer"
  <2>1. PICK v : v = [u EXCEPT !.ids = Append(@, f.id), !.total = f.total, !.next = 0]
    OBVIOUS
  <2>2. u.ids \in Seq(Nat) /\ f.id \in Nat /\ f.total \in Nat
    BY DEF Uploads, Answers
  <2>3. PICK q, x : q = u.ids /\ x = f.id
    OBVIOUS
  <2>4. Append(q, x) \in Seq(Nat) /\ ToSet(q) \subseteq ToSet(Append(q, x))
    BY <2>2, <2>3, OneMore DEF ToSet
  <2>5. v \in Uploads /\ v.ids = Append(q, x)
    BY <2>1, <2>2, <2>3, <2>4 DEF Uploads
  <2>6. N \subseteq ToSet(v.ids)
    BY <2>3, <2>4, <2>5, <1>1
  <2>7. Reaction(u, f) = IF f.total = 0 THEN Advanced(v) ELSE NeedChunk(v, v.at, 0)
    BY <1>1, <2>1 DEF Reaction, Placed
  <2>8. Widens(NeedChunk(v, v.at, 0), N) /\ Widens(Advanced(v), N)
    BY <2>5, <2>6, StepsWiden
  <2> QED
    BY <2>7, <2>8
<1>2. CASE f.ans = "done"
  <2>1. PICK v : v = [u EXCEPT !.next = @ + 1]
    OBVIOUS
  <2>2. v \in Uploads /\ v.ids = u.ids
    BY <2>1 DEF Uploads
  <2>3. Reaction(u, f) = IF v.next < v.total THEN NeedChunk(v, v.at, v.next) ELSE Advanced(v)
    BY <1>2, <2>1 DEF Reaction, Laid
  <2>4. N \subseteq ToSet(v.ids)
    BY <2>2, <1>2
  <2>5. Widens(NeedChunk(v, v.at, v.next), N) /\ Widens(Advanced(v), N)
    BY <2>2, <2>4, StepsWiden
  <2> QED
    BY <2>3, <2>5
<1>3. CASE f.ans = "staged"
  <2>1. PICK files : files = f.files
    OBVIOUS
  <2>2. \A x \in files : x.total \in Nat /\ x.missing \in SUBSET Nat
    BY <2>1 DEF Answers
  <2>3. Widens(Resumed(u, files), {})
    BY <2>2, ResumedWidens
  <2> QED
    BY <2>1, <2>3, <1>3 DEF Reaction
<1> QED
  BY <1>1, <1>2, <1>3

LEMMA MovesWiden ==
    ASSUME Sound, NEW f, NEW at, NEW r, NEW v, NEW rs, NEW o, NEW up,
           Moves(f, at, r, v, rs, o, up)
    PROVE  /\ desk.upload.stalled \/ ToSet(desk.upload.ids) \subseteq ToSet(v.ids)
           /\ \A a \in ToSet(rs) : a.kind = "send" => a.ids = v.ids
<1>1. PICK u : u = desk.upload
  OBVIOUS
<1>2. /\ f \in Answers /\ u # NoUpload /\ Reaction(u, f) = Step(v, rs)
      /\ f.ans = "staged" => u.stalled
      /\ f.ans \in {"offer", "done", "staged"}
  BY <1>1 DEF Moves, StrikesOut
<1>3. u \in Uploads /\ u.job \in Jobs
  BY <1>1, <1>2, SoundParts, UnderwayOf DEF Underway
<1>4. PICK N : N = IF f.ans = "staged" THEN {} ELSE ToSet(u.ids)
  OBVIOUS
<1>5. Widens(Reaction(u, f), N)
  BY <1>2, <1>3, <1>4, ReactionWidens
<1>6. PICK w, qs : /\ Step(v, rs) = Step(w, qs) /\ N \subseteq ToSet(w.ids)
                   /\ \A a \in ToSet(qs) : a.kind = "send" => a.ids = w.ids
  BY <1>2, <1>5 DEF Widens
<1>7. v = w /\ rs = qs
  BY <1>6, StepParts
<1> QED
  BY <1>1, <1>2, <1>4, <1>6, <1>7
LEMMA SameEntries ==
    ASSUME NEW X, NEW q \in Seq(X), NEW r \in Seq(X), Len(q) = Len(r),
           \A i \in 1..Len(q) : q[i] = r[i]
    PROVE  q = r
OBVIOUS

Alone(as) == \A a, b \in as : a = b

\* What goes up to be obeyed is on the table too.
LEMMA PostedOrders ==
    ASSUME NEW s, NEW out \in Seq(Requests), NEW up \in Seq(UpFrames), NEW o, NEW u, NEW as,
           Alone(as), Posting(s, out, up, o, u, as)
    PROVE  \E F : /\ Flow(up, u, F) /\ Carries(F, s, as)
                  /\ \A x \in F : x.ask.kind = "send" => Ordered(o, x.ask.job)
<1>1. o \in Seq(Requests) /\ Grown(out, o, as) /\ (o = out => u = up)
  BY DEF Posting
<1>2. CASE o = out
  <2>1. PICK F : F = {}
    OBVIOUS
  <2>2. Flow(up, u, F)
    BY <1>1, <1>2, FlowSame
  <2>3. Carries(F, s, as) /\ \A x \in F : x.ask.kind = "send" => Ordered(o, x.ask.job)
    BY <2>1 DEF Carries
  <2> QED
    BY <2>2, <2>3
<1>3. CASE o # out
  <2>1. PICK F : Flow(up, u, F) /\ Carries(F, s, as)
    BY PostedFlow
  <2>2. PICK l, k : l = Len(o) /\ k = Len(out)
    OBVIOUS
  <2>3. l \in Nat /\ k \in Nat /\ k <= l /\ DOMAIN o = 1..l /\ DOMAIN out = 1..k
    BY <1>1, <2>2 DEF Grown
  <2>4. \A i \in 1..l : IF i <= k THEN o[i] = out[i] ELSE o[i] \in as
    BY <1>1, <2>2, <2>3 DEF Grown
  <2>5. l > k
    <3>1. CASE l = k
      <4>1. \A i \in 1..l : o[i] = out[i]
        BY <2>3, <2>4, <3>1
      <4>2. o = out
        BY <1>1, <2>2, <3>1, <4>1, SameEntries
      <4> QED
        BY <4>2, <1>3
    <3> QED
      BY <2>3, <3>1
  <2>6. l \in DOMAIN o /\ o[l] \in as
    <3>1. l \in 1..l /\ ~(l <= k)
      BY <2>3, <2>5
    <3>2. o[l] \in as
      BY <2>4, <3>1
    <3> QED
      BY <2>3, <3>1, <3>2
  <2>7. ASSUME NEW x \in F, x.ask.kind = "send"
        PROVE  Ordered(o, x.ask.job)
    <3>1. x.ask = o[l]
      BY <2>1, <2>6 DEF Carries, Alone
    <3> QED
      BY <2>6, <2>7, <3>1 DEF Ordered
  <2> QED
    BY <2>1, <2>7
<1> QED
  BY <1>2, <1>3

\* What F orders is ordered of the upload v, in the session s, and is on the table o.
OrdersOf(F, s, v, o) ==
    \A x \in F : /\ x.s = s /\ x.ask.job = v.job
                 /\ x.ask.kind = "send" => x.ask.ids = v.ids /\ Ordered(o, v.job)

LEMMA MovesFlow ==
    ASSUME Sound, Orderly, NEW f, NEW at, NEW r, NEW v, NEW rs, NEW o, NEW up,
           Moves(f, at, r, v, rs, o, up)
    PROVE  \E F : Flow(net.up, up, F) /\ OrdersOf(F, desk.session, v, o)
<1>1. /\ rs \in Seq(Requests) /\ Len(rs) <= 1 /\ r \in Seq(Requests)
      /\ \A a \in ToSet(rs) : a.job = v.job
      /\ Posting(desk.session, r, net.up, o, up, ToSet(rs))
      /\ net.up \in Seq(UpFrames)
  BY DeskPieces DEF Moves, StrikesOut, OfUploadOK
<1>2. \A a \in ToSet(rs) : a.kind = "send" => a.ids = v.ids
  BY MovesWiden
<1>3. Alone(ToSet(rs))
  <2> SUFFICES ASSUME NEW a \in ToSet(rs), NEW b \in ToSet(rs)
               PROVE  a = b
    BY DEF Alone
  <2>1. PICK i \in DOMAIN rs, k \in DOMAIN rs : a = rs[i] /\ b = rs[k]
    BY DEF ToSet
  <2>2. i = k
    BY <2>1, <1>1
  <2> QED
    BY <2>1, <2>2
<1>4. PICK s, q, as : s = desk.session /\ q = net.up /\ as = ToSet(rs)
  OBVIOUS
<1>5. PICK F : /\ Flow(q, up, F) /\ Carries(F, s, as)
               /\ \A x \in F : x.ask.kind = "send" => Ordered(o, x.ask.job)
  BY <1>1, <1>3, <1>4, PostedOrders
<1>6. \A x \in F : x.ask \in as /\ x.s = s
  BY <1>5 DEF Carries
<1>7. OrdersOf(F, s, v, o)
  BY <1>1, <1>2, <1>4, <1>5, <1>6 DEF OrdersOf
<1> QED
  BY <1>4, <1>5, <1>7

LEMMA MovesCovered ==
    ASSUME Sound, Sound', Orderly, Kept, Counted, NEW f, NEW at, NEW r, NEW v, NEW rs, NEW o, NEW up,
           Moves(f, at, r, v, rs, o, up),
           NEW F, Flow(net.up, up, F), OrdersOf(F, desk.session, v, o)
    PROVE  Growing(net'.up) /\ \A i \in DOMAIN net'.up : Covered(net'.up[i], desk')
<1>1. PICK q, d, e, s, N : q = net.up /\ d = desk /\ e = desk' /\ s = desk.session /\ N = ToSet(v.ids)
  OBVIOUS
<1>2. /\ q \in Seq(UpFrames) /\ up \in Seq(UpFrames) /\ net'.up = up /\ Flow(q, up, F)
      /\ OrdersOf(F, s, v, o) /\ d.session = s /\ e.session = s
      /\ e.upload \in {v, NoUpload} /\ v.job = d.upload.job /\ v.job \in Jobs
      /\ Growing(q) /\ \A i \in DOMAIN q : Covered(q[i], d)
  BY <1>1, DeskPieces DEF Moves, Posting, Underway, Counted
<1>3. d.upload.stalled \/ ToSet(d.upload.ids) \subseteq N
  BY <1>1, MovesWiden
<1>4. ~v.stalled /\ v.job # 0
  BY <1>2, MovesAwake, JobFacts
<1>5. ASSUME NEW i \in DOMAIN q, q[i].ask.kind = "send", q[i].ask.job = v.job, q[i].s = s
      PROVE  ToSet(q[i].ask.ids) \subseteq N
  BY <1>2, <1>3, <1>5 DEF Covered
<1>6. Growing(up)
  <2>1. ASSUME NEW x \in F, x.ask.kind = "send"
        PROVE  /\ ToSet(x.ask.ids) = N
               /\ \A i \in DOMAIN q : q[i].ask.kind = "send" /\ q[i].ask.job = x.ask.job /\ q[i].s = x.s =>
                      ToSet(q[i].ask.ids) \subseteq N
    <3>1. x.s = s /\ x.ask.job = v.job /\ x.ask.ids = v.ids
      BY <1>2, <2>1 DEF OrdersOf
    <3> QED
      BY <3>1, <1>1, <1>5
  <2> QED
    BY <2>1, <1>2, StaysGrowing
<1>7. ASSUME NEW i \in DOMAIN up
      PROVE  Covered(up[i], e)
  <2>1. PICK x : x = up[i]
    OBVIOUS
  <2>2. NoUpload.job = 0
    BY DEF NoUpload
  <2>3. ASSUME x \in F
        PROVE  Covered(x, e)
    <3>1. x.ask.job = v.job /\ (x.ask.kind = "send" => x.ask.ids = v.ids)
      BY <2>3, <1>2 DEF OrdersOf
    <3>2. CASE e.upload = v
      BY <3>1, <3>2, <1>4 DEF Covered
    <3>3. CASE e.upload = NoUpload
      BY <3>1, <3>3, <2>2, <1>4 DEF Covered
    <3> QED
      BY <3>2, <3>3, <1>2
  <2>4. ASSUME \E k \in DOMAIN q : x = q[k]
        PROVE  Covered(x, e)
    <3>1. PICK k \in DOMAIN q : x = q[k]
      BY <2>4
    <3>2. CASE e.upload = v
      <4>1. x.ask.kind = "send" /\ x.s = s /\ x.ask.job = v.job => ToSet(x.ask.ids) \subseteq N
        BY <3>1, <1>5
      <4> QED
        BY <4>1, <3>2, <1>1, <1>2, <1>4 DEF Covered
    <3>3. CASE e.upload = NoUpload
      BY <3>1, <3>3, <1>1, CoveredNone
    <3> QED
      BY <3>2, <3>3, <1>2
  <2> QED
    <3>1. x \in F \/ \E k \in DOMAIN q : x = q[k]
      BY <2>1, <1>2, FlowEntries
    <3> QED
      BY <2>1, <3>1, <2>3, <2>4
<1> QED
  BY <1>1, <1>2, <1>6, <1>7

\* The jobs that are not under way are paid as before.
LEMMA MovesPaidElse ==
    ASSUME Sound, Sound', Orderly, Kept, Counted, NEW f, NEW at, NEW r, NEW v, NEW rs, NEW o, NEW up,
           Moves(f, at, r, v, rs, o, up), phone' = phone, messages' = messages,
           NEW F, Flow(net.up, up, F), OrdersOf(F, desk.session, v, o),
           NEW j \in Jobs, j # v.job
    PROVE  Paid(j)'
<1>1. PICK q, d, e, S : q = net.up /\ d = desk /\ e = desk' /\ S = phone.staged
  OBVIOUS
<1>2. /\ net'.up = up /\ e.upload \in {v, NoUpload} /\ unheard' = unheard
      /\ q \in Seq(UpFrames) /\ S \in SUBSET Places /\ phone.fresh \in Nat
      /\ AskedUp(q, phone.fresh, Opened) /\ Flow(q, up, F)
  BY <1>1, DeskPieces DEF Moves, Sound, NetOK
<1>3. e.upload.job # j
  BY <1>2, JobFacts DEF NoUpload
<1>4. Current(e, j, S) = {} /\ Owed(e, j) = 1 /\ Owed(d, j) <= 1
  BY <1>3 DEF Current, Owed
<1>5. PICK n, top : n = phone.fresh /\ top = Opened
  OBVIOUS
<1>6. Later(S, n, S) /\ n \in Nat /\ AskedUp(q, n, top)
  BY <1>2, <1>5, LaterSame
<1>7. LiveIn(up, j, S) \subseteq LiveIn(q, j, S)
  <2> SUFFICES ASSUME NEW s \in LiveIn(up, j, S)
               PROVE  s \in LiveIn(q, j, S)
    OBVIOUS
  <2>1. s \in LiveIn(q, j, S) \/ \E x \in F : x.s = s /\ Live(x, j, S)
    BY <1>2, <1>6, LiveInLater
  <2> QED
    BY <2>1 DEF OrdersOf, Live
<1>8. Due(e, up, j, S) \subseteq Due(d, q, j, S)
  BY <1>4, <1>7 DEF Due
<1>9. Paid(j) /\ unheard[j] <= unheard'[j]
  BY <1>2 DEF Counted, Sound, BooksOK
<1>10. phone'.staged = S
  BY <1>1
<1>11. PICK D, E : D = Due(d, q, j, S) /\ E = Due(e, up, j, S)
  OBVIOUS
<1>12. /\ D = Due(desk, net.up, j, phone.staged) /\ E = Due(desk', net'.up, j, phone'.staged)
       /\ E \subseteq D /\ Owed(desk, j) <= Owed(desk', j)
  BY <1>1, <1>2, <1>4, <1>8, <1>10, <1>11
<1> QED
  BY <1>9, <1>12, PaidFrom
\* So is the one that is: an order is owed for when it goes on the table, and
\* another in the same session is obeyed only if the first may be.
LEMMA MovesPaid ==
    ASSUME Sound, Sound', Orderly, Kept, Counted, NEW f, NEW at, NEW r, NEW v, NEW rs, NEW o, NEW up,
           Moves(f, at, r, v, rs, o, up), phone' = phone, messages' = messages,
           NEW F, Flow(net.up, up, F), OrdersOf(F, desk.session, v, o)
    PROVE  Paid(v.job)'
<1>1. PICK q, d, e, S, j, s : /\ q = net.up /\ d = desk /\ e = desk' /\ S = phone.staged
                              /\ j = v.job /\ s = desk.session
  OBVIOUS
<1>2. /\ net'.up = up /\ e.upload \in {v, NoUpload} /\ unheard' = unheard /\ e.out = o
      /\ e.session = s /\ d.session = s /\ d.upload.job = j /\ j \in Jobs
      /\ q \in Seq(UpFrames) /\ S \in SUBSET Places /\ phone.fresh \in Nat
      /\ AskedUp(q, phone.fresh, Opened) /\ Flow(q, up, F) /\ OrdersOf(F, s, v, o)
      /\ Grown(r, o, ToSet(rs)) /\ r \in Seq(Requests) /\ o \in Seq(Requests)
      /\ at \in DOMAIN d.out /\ d.out[at] = f.ask /\ Struck(d.out, r, at)
  BY <1>1, DeskPieces DEF Moves, StrikesOut, Posting, Underway, Sound, NetOK
<1>3. f.ask.kind # "send"
  <2>1. f.ans \in {"offer", "staged"} \/ f.ask.kind = "put"
    BY DEF Moves
  <2>2. f.ans = "offer" => f.ask.kind = "offer"
    BY DEF Moves, StrikesOut, WellAnswered
  <2>3. f.ans = "staged" => f.ask.kind = "staged"
    BY DEF Moves, StrikesOut, WellAnswered
  <2> QED
    BY <2>1, <2>2, <2>3
<1>4. Ordered(r, j) <=> Ordered(d.out, j)
  <2>1. PICK p : p = d.out
    OBVIOUS
  <2>2. at \in DOMAIN p /\ Struck(p, r, at) /\ p[at].kind # "send"
    BY <2>1, <1>2, <1>3
  <2> QED
    BY <2>1, <2>2, StruckOrders
<1>5. Ordered(r, j) => Ordered(o, j)
  <2> SUFFICES ASSUME NEW i \in DOMAIN r, r[i].kind = "send", r[i].job = j
               PROVE  Ordered(o, j)
    BY DEF Ordered
  <2>1. i \in DOMAIN o /\ o[i] = r[i]
    BY <1>2 DEF Grown
  <2> QED
    BY <2>1 DEF Ordered
<1>6. PICK n, top : n = phone.fresh /\ top = Opened
  OBVIOUS
<1>7. Later(S, n, S) /\ n \in Nat /\ AskedUp(q, n, top)
  BY <1>2, <1>6, LaterSame
<1>8. ASSUME NEW t \in LiveIn(up, j, S)
      PROVE  \/ t \in LiveIn(q, j, S)
             \/ t = s /\ Ordered(o, j) /\ ToSet(v.ids) \subseteq Ids(S)
  <2>1. t \in LiveIn(q, j, S) \/ \E x \in F : x.s = t /\ Live(x, j, S)
    BY <1>2, <1>7, LiveInLater
  <2> QED
    BY <2>1, <1>1, <1>2 DEF OrdersOf, Live
<1>9. PICK D, E : D = Due(d, q, j, S) /\ E = Due(e, up, j, S)
  OBVIOUS
<1>10. D = Due(desk, net.up, j, phone.staged) /\ E = Due(desk', net'.up, j, phone'.staged)
  BY <1>1, <1>2, <1>9
<1>11. Paid(j) /\ unheard[j] <= unheard'[j]
  BY <1>2 DEF Counted, Sound, BooksOK
<1>12. NoUpload.job # j
  BY <1>2, JobFacts DEF NoUpload
<1>13. CASE Ordered(d.out, j)
  <2>1. ~d.upload.stalled
    <3>1. PICK i \in DOMAIN d.out : d.out[i].kind = "send"
      BY <1>13 DEF Ordered
    <3>2. ~NoSteps(d.out)
      BY <3>1 DEF NoSteps, Steps
    <3> QED
      BY <3>2, <1>1 DEF Kept, OutOK
  <2>2. ToSet(d.upload.ids) \subseteq ToSet(v.ids)
    BY <2>1, <1>1, MovesWiden
  <2>3. ToSet(v.ids) \subseteq Ids(S) => Current(d, j, S) = {s}
    BY <2>2, <1>2, <1>13 DEF Current
  <2>4. Current(e, j, S) \subseteq Current(d, j, S)
    <3>1. CASE e.upload = v
      BY <3>1, <2>3, <1>2 DEF Current
    <3>2. CASE e.upload = NoUpload
      BY <3>2, <1>12 DEF Current
    <3> QED
      BY <3>1, <3>2, <1>2
  <2>5. E \subseteq D
    BY <2>3, <2>4, <1>8, <1>9 DEF Due
  <2>6. Owed(e, j) = 1 /\ Owed(d, j) <= 1
    BY <1>2, <1>4, <1>5, <1>13 DEF Owed
  <2>7. Owed(desk, j) <= Owed(desk', j)
    BY <2>6, <1>1
  <2> QED
    BY <2>5, <2>7, <1>1, <1>2, <1>10, <1>11, PaidFrom
<1>14. CASE ~Ordered(d.out, j)
  <2>1. Owed(d, j) = 0 /\ Current(d, j, S) = {}
    BY <1>2, <1>14 DEF Owed, Current
  <2>2. Owed(e, j) \in {0, 1}
    BY DEF Owed
  <2>3. CASE Ordered(o, j)
    <3>1. Owed(e, j) = 1
      BY <2>3, <1>2 DEF Owed
    <3>2. Current(e, j, S) \subseteq {s}
      BY <1>2 DEF Current
    <3>3. E \subseteq D \cup {s}
      BY <3>2, <1>8, <1>9 DEF Due
    <3>4. Owed(desk, v.job) = 0 /\ Owed(desk', v.job) = 1
      BY <2>1, <3>1, <1>1
    <3>5. \E t : E \subseteq D \cup {t}
      BY <3>3
    <3>6. /\ Paid(v.job) /\ v.job \in Jobs /\ unheard[v.job] <= unheard'[v.job]
          /\ D = Due(desk, net.up, v.job, phone.staged) /\ E = Due(desk', net'.up, v.job, phone'.staged)
      BY <1>1, <1>2, <1>10, <1>11
    <3> QED
      BY <3>4, <3>5, <3>6, PaidFrom
  <2>4. CASE ~Ordered(o, j)
    <3>1. Current(e, j, S) = {}
      BY <2>4, <1>2 DEF Current
    <3>2. E \subseteq D
      BY <2>4, <3>1, <1>8, <1>9 DEF Due
    <3>3. Owed(desk, j) <= Owed(desk', j)
      BY <2>1, <2>2, <1>1
    <3> QED
      BY <3>2, <3>3, <1>1, <1>2, <1>10, <1>11, PaidFrom
  <2> QED
    BY <2>3, <2>4
<1> QED
  BY <1>13, <1>14

LEMMA MovesCounted ==
    ASSUME Sound, Sound', Orderly, Kept, Counted, DeskHears,
           NEW f, NEW at, NEW r, NEW v, NEW rs, NEW o, NEW up, Moves(f, at, r, v, rs, o, up)
    PROVE  Counted'
<1>1. /\ phone' = phone /\ messages' = messages /\ net.down # <<>>
      /\ told' = told /\ net'.down = Tail(net.down)
  BY DEF DeskHears, Moves
<1>2. PICK F : Flow(net.up, up, F) /\ OrdersOf(F, desk.session, v, o)
  BY MovesFlow
<1>3. Growing(net'.up) /\ \A i \in DOMAIN net'.up : Covered(net'.up[i], desk')
  BY <1>2, MovesCovered
<1>4. ASSUME NEW j \in Jobs
      PROVE  Paid(j)'
  <2>1. CASE j = v.job
    BY <2>1, <1>1, <1>2, MovesPaid
  <2>2. CASE j # v.job
    BY <2>2, <1>1, <1>2, MovesPaidElse
  <2> QED
    BY <2>1, <2>2
<1>5. PICK p, t : p = net.down /\ t = net'.down
  OBVIOUS
<1>6. Flow(p, t, {})
  BY <1>1, <1>5, DownFlows
<1>7. \A i \in DOMAIN t : Makings(t[i]) => Tally(messages', t[i].ask.job) > 0
  <2> SUFFICES ASSUME NEW i \in DOMAIN t, Makings(t[i])
               PROVE  Tally(messages', t[i].ask.job) > 0
    OBVIOUS
  <2>1. PICK k \in DOMAIN p : t[i] = p[k]
    BY <1>6, FlowEntries
  <2> QED
    BY <2>1, <1>1, <1>5 DEF Counted
<1>8. \A j \in Jobs : told'[j] = "sent" => Tally(messages', j) > 0
  BY <1>1 DEF Counted
<1> QED
  BY <1>3, <1>4, <1>5, <1>7, <1>8 DEF Counted

LEMMA DeskHearsCounted ==
    ASSUME Sound, Sound', Orderly, Faithful, Counted, DeskHears
    PROVE  Counted'
<1>1. PICK f : f = Head(net.down)
  OBVIOUS
<1>2. /\ net.down # <<>> /\ Kept
      /\ \/ HearReply(f) \/ HearRevoked(f) \/ HearNothing(f)
         \/ /\ f.type = "answer" /\ f.s = desk.session /\ f.ask \in ToSet(desk.out)
            /\ HearProgress(f) \/ HearEnd(f) \/ HearOther(f)
  BY <1>1, FaithfulParts DEF DeskHears
<1>3. CASE HearReply(f)
  BY <1>1, <1>3, HearReplyCounted
<1>4. CASE HearRevoked(f)
  BY <1>1, <1>4, HearRevokedCounted
<1>5. CASE HearNothing(f)
  BY <1>1, <1>5, HearNothingCounted
<1>6. CASE /\ f.type = "answer" /\ f.s = desk.session /\ f.ask \in ToSet(desk.out)
           /\ HearProgress(f) \/ HearEnd(f) \/ HearOther(f)
  <2>1. Heard(f)
    BY <1>1, <1>2, <1>6 DEF Heard
  <2>2. CASE HearProgress(f)
    <3>1. PICK at, r, v, rs, o, up : Moves(f, at, r, v, rs, o, up)
      BY <2>1, <2>2, HearProgressShape
    <3> QED
      BY <3>1, <1>2, MovesCounted
  <2>3. CASE HearEnd(f)
    BY <2>1, <2>3, HearEndCounted
  <2>4. CASE HearOther(f)
    BY <2>1, <2>4, HearOtherCounted
  <2> QED
    BY <2>2, <2>3, <2>4, <1>6
<1> QED
  BY <1>2, <1>3, <1>4, <1>5, <1>6
-----------------------------------------------------------------------------
(* The rest of the steps.                                                  *)

LEMMA FadesCounted ==
    ASSUME Sound, Sound', Orderly, Counted, Fades
    PROVE  Counted'
<1>1. /\ messages' = messages /\ told' = told /\ phone'.staged \subseteq phone.staged
      /\ desk' = desk \/ (desk' = Lost(desk) /\ Unheard)
      /\ \A j \in Jobs : unheard[j] <= unheard'[j]
      /\ Flow(net.up, net'.up, {})
  BY DEF Fades
<1>2. PICK G : Flow(net.down, net'.down, G) /\ \A f \in G : f.type # "answer"
  BY DEF Fades
<1>3. Later(phone.staged, phone.fresh, phone'.staged)
  BY <1>1, LaterSame
<1>4. NoOrders({}) /\ \A f \in G : ~Makings(f)
  BY <1>2 DEF NoOrders, Makings
<1>5. \A j \in Jobs : told'[j] = "sent" => Tally(messages, j) > 0
  BY <1>1 DEF Counted
<1>6. /\ desk \in Desks /\ phone'.staged \in SUBSET Places /\ phone.fresh \in Nat
      /\ \A i \in DOMAIN desk.upload.ids : desk.upload.ids[i] < phone.fresh
      /\ \A j \in Jobs : Paid(j)
  BY DEF Sound, DeskOK, WellUp, PhoneOK, Phones, Counted
<1>7. PICK S, T, n, d, e : /\ S = phone.staged /\ T = phone'.staged /\ n = phone.fresh
                           /\ d = desk /\ e = desk'
  OBVIOUS
<1>8. /\ d \in Desks /\ T \in SUBSET Places /\ n \in Nat /\ Later(S, n, T)
      /\ \A i \in DOMAIN d.upload.ids : d.upload.ids[i] < n
  BY <1>3, <1>6, <1>7
<1>9. CASE desk' = desk
  <2>1. \A i \in DOMAIN net.up : Covered(net.up[i], desk')
    BY <1>9, CoveredSame
  <2>2. \A j \in Jobs : Eased(d, e, j, S, T)
    BY <1>7, <1>8, <1>9, EasedAlike
  <2>3. \A j \in Jobs : Paid(j)'
    BY <2>2, <1>1, <1>3, <1>4, <1>6, <1>7, PaidStays
  <2> QED
    BY <2>1, <2>3, <1>1, <1>2, <1>4, <1>5, CountedFrom
<1>10. CASE desk' = Lost(desk) /\ Unheard
  <2>1. /\ e.session = 0 /\ e.out = <<>> /\ e.upload.job = d.upload.job /\ e.upload.ids = d.upload.ids
    BY <1>7, <1>8, <1>10, LostFacts
  <2>2. \A i \in DOMAIN net.up : Covered(net.up[i], desk')
    <3> SUFFICES ASSUME NEW i \in DOMAIN net.up, net.up[i].ask.kind = "send"
                 PROVE  Covered(net.up[i], desk')
      BY DEF Covered
    <3>1. net.up[i].s # 0
      BY UpOrders
    <3> QED
      BY <3>1, <2>1, <1>7 DEF Covered
  <2>3. \A j : ~Ordered(e.out, j)
    <3>1. DOMAIN <<>> = {}
      OBVIOUS
    <3> QED
      BY <3>1, <2>1 DEF Ordered
  <2>4. ASSUME NEW j \in Jobs
        PROVE  Paid(j)'
    <3>1. CASE ~Ordered(d.out, j)
      <4>1. Eased(d, e, j, S, T)
        BY <1>8, <2>1, <2>3, <3>1, EasedAlike
      <4> QED
        BY <4>1, <1>1, <1>3, <1>4, <1>6, <1>7, PaidStays
    <3>2. CASE Ordered(d.out, j)
      <4>1. unheard'[j] = unheard[j] + 1
        <5>1. \E a \in ToSet(desk.out) : a.kind = "send" /\ a.job = j
          BY <3>2, <1>7 DEF Ordered, ToSet
        <5> QED
          BY <5>1, <1>10 DEF Unheard
      <4>2. Current(e, j, T) = {}
        BY <2>3 DEF Current
      <4>3. LiveIn(net'.up, j, phone'.staged) \subseteq LiveIn(net.up, j, phone.staged)
        BY <1>1, <1>3, <1>4, LiveSame
      <4>4. PICK D, E : D = Due(desk, net.up, j, phone.staged) /\ E = Due(desk', net'.up, j, phone'.staged)
        OBVIOUS
      <4>5. E \subseteq D
        BY <4>2, <4>3, <4>4, <1>7 DEF Due
      <4> QED
        BY <4>1, <4>4, <4>5, <1>1, <1>6, PaidUnheard
    <3> QED
      BY <3>1, <3>2
  <2> QED
    BY <2>2, <2>4, <1>1, <1>2, <1>4, <1>5, CountedFrom
<1> QED
  BY <1>1, <1>9, <1>10
\* A request that makes no message.
LEMMA ServesQuiet ==
    ASSUME Sound, Orderly, NEW f, NEW r, NEW a, Serves(f, r, a)
    PROVE  \/ f.ask.kind = "send" /\ Makes(Reached, f, r)
           \/ r.sent = <<>> /\ ~Makings(a)
<1>1. PhoneOK(Reached) /\ r = Serve(Reached, f)
  BY ServesParts
<1>2. a.ans = r.ans.ans /\ a.ask = f.ask
  BY ServesFacts
<1>3. PICK p : p = Reached
  OBVIOUS
<1>4. \/ Shrugs(p, f, r)
      \/ f.ask.kind = "offer" /\ \E g : Gives(p, f, r, g)
      \/ f.ask.kind = "put" /\ Puts(p, f, r)
      \/ f.ask.kind = "send" /\ Makes(p, f, r)
      \/ f.ask.kind = "abort" /\ Drops(p, f, r)
      \/ f.ask.kind = "staged" /\ Tells(p, f, r)
  BY <1>1, <1>3, ServeShape
<1>5. CASE Shrugs(p, f, r)
  <2>1. r.sent = <<>> /\ (r.ans.ans = "done" => f.ask.kind # "send")
    BY <1>5 DEF Shrugs
  <2> QED
    BY <2>1, <1>2 DEF Makings
<1>6. CASE f.ask.kind = "offer" /\ \E g : Gives(p, f, r, g)
  BY <1>2, <1>6 DEF Gives, Makings
<1>7. CASE f.ask.kind = "put" /\ Puts(p, f, r)
  BY <1>2, <1>7 DEF Puts, Makings
<1>8. CASE f.ask.kind = "send" /\ Makes(p, f, r)
  BY <1>3, <1>8
<1>9. CASE f.ask.kind = "abort" /\ Drops(p, f, r)
  BY <1>2, <1>9 DEF Drops, Makings
<1>10. CASE f.ask.kind = "staged" /\ Tells(p, f, r)
  BY <1>2, <1>10 DEF Tells, Makings
<1> QED
  BY <1>4, <1>5, <1>6, <1>7, <1>8, <1>9, <1>10

\* The answer goes down.
LEMMA AnswerFlows ==
    ASSUME Sound, NEW a \in Answers, net'.down = Append(net.down, a)
    PROVE  Flow(net.down, net'.down, {a})
<1>1. PICK X, q : X = Notes \cup Answers /\ q = net.down
  OBVIOUS
<1>2. q \in Seq(X) /\ a \in X
  BY <1>1 DEF Sound, NetOK, Nets
<1>3. Append(q, a) \in Seq(X) /\ Grown(q, Append(q, a), {a})
  BY <1>2, OneMore, GrownOne
<1>4. Flow(q, Append(q, a), {a})
  BY <1>2, <1>3, FlowGrown
<1> QED
  BY <1>1, <1>4

\* The desktop owes what it owed.
LEMMA SameEased ==
    ASSUME Sound, Sound', desk' = desk, Later(phone.staged, phone.fresh, phone'.staged), NEW j
    PROVE  Eased(desk, desk', j, phone.staged, phone'.staged)
<1>1. /\ phone'.staged \in SUBSET Places /\ phone.fresh \in Nat
      /\ \A i \in DOMAIN desk.upload.ids : desk.upload.ids[i] < phone.fresh
  BY DEF Sound, DeskOK, WellUp, PhoneOK, Phones
<1>2. PICK S, T, n, d, e : /\ S = phone.staged /\ T = phone'.staged /\ n = phone.fresh
                           /\ d = desk /\ e = desk'
  OBVIOUS
<1>3. /\ T \in SUBSET Places /\ n \in Nat /\ Later(S, n, T) /\ e = d
      /\ \A i \in DOMAIN d.upload.ids : d.upload.ids[i] < n
  BY <1>1, <1>2
<1>4. Eased(d, e, j, S, T)
  BY <1>3, EasedAlike
<1> QED
  BY <1>2, <1>4

LEMMA ServesQuietCounted ==
    ASSUME Sound, Sound', Orderly, Counted, NEW f, NEW r, NEW a, Serves(f, r, a),
           UNCHANGED <<desk, told, tries, accidents, history>>, r.sent = <<>>, ~Makings(a)
    PROVE  Counted'
<1>1. /\ phone' = r.p /\ messages' = messages \o r.sent /\ net'.up = Tail(net.up)
      /\ net'.down = Append(net.down, a) /\ a \in Answers
      /\ Later(phone.staged, phone.fresh, r.p.staged)
  BY ServesParts
<1>2. messages' = messages
  <2>1. PICK ms : ms = messages
    OBVIOUS
  <2>2. ms \in Seq(Letters)
    BY <2>1 DEF Sound, BooksOK
  <2>3. ms \o <<>> = ms
    BY <2>2
  <2> QED
    BY <2>1, <2>3, <1>1
<1>3. Flow(net.up, net'.up, {}) /\ NoOrders({})
  BY <1>1, UpTails DEF Serves, NoOrders
<1>4. Flow(net.down, net'.down, {a}) /\ \A g \in {a} : ~Makings(g)
  BY <1>1, AnswerFlows
<1>5. desk' = desk /\ told' = told /\ unheard' = unheard
  BY DEF history
<1>6. Later(phone.staged, phone.fresh, phone'.staged)
  BY <1>1
<1>7. ASSUME NEW j \in Jobs
      PROVE  Paid(j)'
  <2>1. Eased(desk, desk', j, phone.staged, phone'.staged)
    BY <1>5, <1>6, SameEased
  <2>2. Paid(j) /\ unheard[j] <= unheard'[j]
    BY <1>5 DEF Counted, Sound, BooksOK
  <2> QED
    BY <2>1, <2>2, <1>2, <1>3, <1>6, PaidStays
<1>8. \A i \in DOMAIN net.up : Covered(net.up[i], desk')
  BY <1>5, CoveredSame
<1>9. \A j \in Jobs : told'[j] = "sent" => Tally(messages, j) > 0
  BY <1>5 DEF Counted
<1> QED
  BY <1>2, <1>3, <1>4, <1>7, <1>8, <1>9, CountedFrom
\* The phone p obeys the order f, the first of q: t is left of q, and T of its places.
Obeys(p, f, q, t, T) ==
    /\ q \in Seq(UpFrames) /\ q # <<>> /\ Growing(q) /\ f = q[1] /\ f.ask.kind = "send"
    /\ t = Tail(q) /\ Whole(p, f.ask.ids) /\ T = {g \in p.staged : g.id \notin ToSet(f.ask.ids)}

\* The order obeyed is due before it is, and no more afterwards: what it names is gone.
LEMMA ObeyedOnce ==
    ASSUME NEW p, NEW f, NEW q, NEW t, NEW T, Obeys(p, f, q, t, T), NEW d, Covered(f, d),
           NEW S, S = p.staged, NEW j, j = f.ask.job,
           NEW D, D = Due(d, q, j, S), NEW E, E = Due(d, t, j, T)
    PROVE  f.s \in D /\ f.s \notin E
<1>0. /\ q \in Seq(UpFrames) /\ q # <<>> /\ Growing(q) /\ f = q[1] /\ f.ask.kind = "send"
      /\ t = Tail(q) /\ Whole(p, f.ask.ids) /\ T = {g \in S : g.id \notin ToSet(f.ask.ids)}
  BY DEF Obeys
<1>1. /\ 1 \in DOMAIN q /\ q[1] \in UpFrames
      /\ \A i \in DOMAIN t : i + 1 \in DOMAIN q /\ t[i] = q[i + 1] /\ i \in Nat /\ i >= 1
  BY <1>0, TailFacts
<1>2. f \in UpFrames
  BY <1>0, <1>1
<1>3. f.s \in 1..MaxTries /\ f.ask.ids \in Seq(Nat)
  BY <1>2 DEF UpFrames, Requests
<1>4. PICK N, ids : N = ToSet(f.ask.ids) /\ ids = f.ask.ids
  OBVIOUS
<1>5. ids # <<>> /\ \A i \in DOMAIN ids : \E g \in S : g.id = ids[i]
  BY <1>0, <1>4 DEF Whole, Place
<1>6. N \subseteq Ids(S)
  <2> SUFFICES ASSUME NEW k \in N
               PROVE  k \in Ids(S)
    OBVIOUS
  <2>1. PICK i \in DOMAIN ids : k = ids[i]
    BY <1>4 DEF ToSet
  <2>2. PICK g \in S : g.id = k
    BY <2>1, <1>5
  <2> QED
    BY <2>2 DEF Ids
<1>7. PICK k : k \in N
  <2>1. 1 \in DOMAIN ids
    BY <1>3, <1>4, <1>5
  <2> QED
    BY <2>1, <1>4 DEF ToSet
<1>8. k \notin Ids(T)
  BY <1>0, <1>4, <1>7 DEF Ids
<1>9. Live(f, j, S)
  BY <1>0, <1>4, <1>5, <1>6 DEF Live
<1>10. f.s \in LiveIn(q, j, S)
  BY <1>0, <1>1, <1>3, <1>9 DEF LiveIn
<1>11. f.s \notin LiveIn(t, j, T)
  <2> SUFFICES ASSUME NEW i \in DOMAIN t, t[i].s = f.s, Live(t[i], j, T)
               PROVE  FALSE
    BY DEF LiveIn
  <2>1. PICK x : x = t[i]
    OBVIOUS
  <2>2. i + 1 \in DOMAIN q /\ x = q[i + 1] /\ 1 < i + 1
    BY <2>1, <1>1
  <2>3. x.s = f.s /\ x.ask.kind = "send" /\ x.ask.job = j /\ ToSet(x.ask.ids) \subseteq Ids(T)
    BY <2>1 DEF Live
  <2>4. N \subseteq ToSet(x.ask.ids)
    BY <2>2, <2>3, <1>0, <1>1, <1>4 DEF Growing
  <2> QED
    BY <2>3, <2>4, <1>7, <1>8
<1>12. f.s \notin Current(d, j, T)
  <2> SUFFICES ASSUME d.upload.job = j, ToSet(d.upload.ids) \subseteq Ids(T), f.s = d.session
               PROVE  FALSE
    BY DEF Current
  <2>1. N \subseteq ToSet(d.upload.ids)
    BY <1>0, <1>4 DEF Covered
  <2> QED
    BY <2>1, <1>7, <1>8
<1> QED
  BY <1>10, <1>11, <1>12 DEF Due

LEMMA ServesMakes ==
    ASSUME Sound, Sound', Orderly, Counted, NEW f, NEW r, NEW a, Serves(f, r, a),
           UNCHANGED <<desk, told, tries, accidents, history>>,
           f.ask.kind = "send", Makes(Reached, f, r)
    PROVE  Counted'
<1>1. /\ phone' = r.p /\ messages' = messages \o r.sent /\ net'.up = Tail(net.up)
      /\ net'.down = Append(net.down, a) /\ a \in Answers
      /\ Later(phone.staged, phone.fresh, r.p.staged)
      /\ 1 \in DOMAIN net.up /\ f = net.up[1] /\ Reached.staged = phone.staged
  BY ServesParts
<1>2. desk' = desk /\ told' = told /\ unheard' = unheard /\ net.up # <<>>
  BY DEF history, Serves
<1>3. /\ messages \in Seq(Letters) /\ net.up \in Seq(UpFrames) /\ net'.up \in Seq(UpFrames)
      /\ unheard \in [Jobs -> Nat] /\ desk \in Desks
  BY DEF Sound, BooksOK, NetOK, Nets, DeskOK
<1>4. PICK job, m : job = f.ask.job /\ m = [text |-> job, files |-> Taking(Reached, f.ask.ids)]
  OBVIOUS
<1>5. r.sent = <<m>> /\ m \in Letters /\ m.text = job
  <2>1. r.sent = <<m>>
    BY <1>4 DEF Makes
  <2>2. r.sent \in Seq(Letters)
    BY ServesFacts DEF ServedOK
  <2>3. <<m>> \in Seq(Letters) /\ 1 \in DOMAIN <<m>> /\ <<m>>[1] = m
    BY <2>1, <2>2
  <2>4. m \in Letters
    BY <2>3
  <2> QED
    BY <2>1, <2>4, <1>4
<1>6. \A j : Tally(messages', j) = Tally(messages, j) + (IF job = j THEN 1 ELSE 0)
  <2>1. PICK ms : ms = messages
    OBVIOUS
  <2>2. \A j : Tally(ms \o <<m>>, j) = Tally(ms, j) + (IF m.text = j THEN 1 ELSE 0)
    BY <2>1, <1>3, <1>5, TallyMore
  <2> QED
    BY <2>1, <2>2, <1>1, <1>5
<1>7. \A j : Tally(messages, j) \in Nat
  BY <1>3, TallyFacts
<1>8. \A j : Tally(messages, j) > 0 => Tally(messages', j) > 0
  BY <1>6, <1>7
<1>9. Flow(net.up, net'.up, {}) /\ NoOrders({})
  BY <1>1, <1>2, UpTails DEF NoOrders
<1>10. Growing(net'.up)
  <2>1. PICK q, t : q = net.up /\ t = net'.up
    OBVIOUS
  <2>2. q \in Seq(UpFrames) /\ t \in Seq(UpFrames) /\ Flow(q, t, {}) /\ Growing(q)
    BY <2>1, <1>3, <1>9 DEF Counted
  <2>3. Growing(t)
    BY <2>2, StaysGrowing
  <2> QED
    BY <2>1, <2>3
<1>11. \A i \in DOMAIN net'.up : Covered(net'.up[i], desk')
  <2>1. PICK q, t : q = net.up /\ t = net'.up
    OBVIOUS
  <2>2. \A i \in DOMAIN q : Covered(q[i], desk)
    BY <2>1 DEF Counted
  <2>3. ASSUME NEW i \in DOMAIN t
        PROVE  Covered(t[i], desk)
    <3>1. PICK k \in DOMAIN q : t[i] = q[k]
      BY <2>1, <1>9, FlowEntries
    <3> QED
      BY <3>1, <2>2
  <2> QED
    BY <2>1, <2>3, <1>2
<1>12. \A i \in DOMAIN net'.down : Makings(net'.down[i]) => Tally(messages', net'.down[i].ask.job) > 0
  <2>1. PICK q, t : q = net.down /\ t = net'.down
    OBVIOUS
  <2>2. Flow(q, t, {a})
    BY <2>1, <1>1, AnswerFlows
  <2>3. ASSUME NEW i \in DOMAIN t, Makings(t[i])
        PROVE  Tally(messages', t[i].ask.job) > 0
    <3>1. t[i] \in {a} \/ \E k \in DOMAIN q : t[i] = q[k]
      BY <2>2, FlowEntries
    <3>2. CASE t[i] = a
      <4>1. t[i].ask.job = job
        BY <3>2, <1>4, ServesFacts
      <4> QED
        BY <4>1, <1>6, <1>7
    <3>3. CASE \E k \in DOMAIN q : t[i] = q[k]
      <4>1. Tally(messages, t[i].ask.job) > 0
        BY <3>3, <2>1, <2>3 DEF Counted
      <4> QED
        BY <4>1, <1>8
    <3> QED
      BY <3>1, <3>2, <3>3
  <2> QED
    BY <2>1, <2>3
<1>13. \A j \in Jobs : told'[j] = "sent" => Tally(messages', j) > 0
  BY <1>2, <1>8 DEF Counted
<1>14. ASSUME NEW j \in Jobs
       PROVE  Paid(j)'
  <2>1. PICK D, E : D = Due(desk, net.up, j, phone.staged) /\ E = Due(desk', net'.up, j, phone'.staged)
    OBVIOUS
  <2>2. E \subseteq D
    <3>1. Later(phone.staged, phone.fresh, phone'.staged)
      BY <1>1
    <3>2. LiveIn(net'.up, j, phone'.staged) \subseteq LiveIn(net.up, j, phone.staged)
      BY <3>1, <1>9, LiveSame
    <3>3. Current(desk', j, phone'.staged) \subseteq Current(desk, j, phone.staged)
      BY <3>1, <1>2, SameEased DEF Eased
    <3> QED
      BY <3>2, <3>3, <2>1 DEF Due
  <2>3. IsFiniteSet(D)
    BY <1>3, <2>1, DueFacts
  <2>4. Tally(messages, j) + Cardinality(D) <= unheard[j] + Owed(desk, j)
    BY <2>1 DEF Counted, Paid
  <2>5. Owed(desk, j) \in Nat /\ unheard[j] \in Nat
    BY <1>3 DEF Owed
  <2>6. CASE j = job
    <3>1. f.s \in D /\ f.s \notin E
      <4>1. PICK q, t, d, p, S, T : /\ q = net.up /\ t = net'.up /\ d = desk /\ p = Reached
                                    /\ S = phone.staged /\ T = phone'.staged
        OBVIOUS
      <4>2. Covered(f, d) /\ S = p.staged
        BY <4>1, <1>1 DEF Counted
      <4>3. Obeys(p, f, q, t, T)
        <5>1. q \in Seq(UpFrames) /\ q # <<>> /\ f = q[1] /\ Growing(q) /\ t = Tail(q)
          BY <4>1, <1>1, <1>2, <1>3 DEF Counted
        <5>2. Whole(p, f.ask.ids) /\ T = {g \in p.staged : g.id \notin ToSet(f.ask.ids)}
          BY <4>1, <1>1 DEF Makes
        <5> QED
          BY <5>1, <5>2 DEF Obeys
      <4>4. D = Due(d, q, j, S) /\ E = Due(d, t, j, T) /\ t = Tail(q)
        BY <4>1, <2>1, <1>1, <1>2
      <4>5. j = f.ask.job
        BY <2>6, <1>4
      <4> QED
        BY <4>2, <4>3, <4>4, <4>5, ObeyedOnce
    <3>2. Cardinality(E) + 1 <= Cardinality(D) /\ Cardinality(E) \in Nat /\ Cardinality(D) \in Nat
      BY <3>1, <2>2, <2>3, OneLessDue
    <3>3. Tally(messages', j) = Tally(messages, j) + 1 /\ Tally(messages, j) \in Nat
      BY <2>6, <1>6, <1>7
    <3>4. Tally(messages', j) + Cardinality(E) <= unheard[j] + Owed(desk, j)
      BY <3>2, <3>3, <2>4, <2>5
    <3> QED
      BY <3>4, <2>1, <1>2 DEF Paid
  <2>7. CASE j # job
    <3>1. Cardinality(E) <= Cardinality(D) /\ Cardinality(E) \in Nat /\ Cardinality(D) \in Nat
      BY <2>2, <2>3, FewerDue
    <3>2. Tally(messages', j) = Tally(messages, j) /\ Tally(messages, j) \in Nat
      BY <2>7, <1>6, <1>7
    <3>3. Tally(messages', j) + Cardinality(E) <= unheard[j] + Owed(desk, j)
      BY <3>1, <3>2, <2>4, <2>5
    <3> QED
      BY <3>3, <2>1, <1>2 DEF Paid
  <2> QED
    BY <2>6, <2>7
<1> QED
  BY <1>10, <1>11, <1>12, <1>13, <1>14 DEF Counted
LEMMA CountedInit == CompanionInit => Counted
<1> SUFFICES ASSUME CompanionInit
             PROVE  Counted
  OBVIOUS
<1>1. DOMAIN <<>> = {}
  OBVIOUS
<1>2. net.up = <<>> /\ net.down = <<>> /\ messages = <<>>
  BY DEF CompanionInit
<1>3. Growing(net.up) /\ \A i \in DOMAIN net.up : Covered(net.up[i], desk)
  BY <1>1, <1>2 DEF Growing
<1>4. \A i \in DOMAIN net.down : Makings(net.down[i]) => Tally(messages, net.down[i].ask.job) > 0
  BY <1>1, <1>2
<1>5. \A j \in Jobs : told[j] = "sent" => Tally(messages, j) > 0
  BY DEF CompanionInit
<1>6. ASSUME NEW j \in Jobs
      PROVE  Paid(j)
  <2>1. PICK d, q, S, ms : d = desk /\ q = net.up /\ S = phone.staged /\ ms = messages
    OBVIOUS
  <2>2. d.upload = NoUpload
    BY <2>1 DEF CompanionInit
  <2>3. d.upload.job # j
    BY <2>2, JobFacts DEF NoUpload
  <2>4. Owed(d, j) = 1 /\ Current(d, j, S) = {}
    BY <2>3 DEF Owed, Current
  <2>5. LiveIn(q, j, S) = {}
    BY <1>1, <1>2, <2>1 DEF LiveIn
  <2>6. Due(d, q, j, S) = {}
    BY <2>4, <2>5 DEF Due
  <2>7. {i \in DOMAIN ms : ms[i].text = j} = {}
    BY <1>1, <1>2, <2>1
  <2>8. Cardinality({}) = 0
    BY FS_EmptySet
  <2>9. Cardinality(Due(d, q, j, S)) = 0 /\ Tally(ms, j) = 0
    BY <2>6, <2>7, <2>8 DEF Tally
  <2>10. unheard[j] = 0
    BY DEF CompanionInit
  <2>11. Tally(ms, j) + Cardinality(Due(d, q, j, S)) <= unheard[j] + Owed(d, j)
    BY <2>4, <2>9, <2>10
  <2> QED
    BY <2>1, <2>11 DEF Paid
<1> QED
  BY <1>3, <1>4, <1>5, <1>6 DEF Counted

LEMMA CountedNext ==
    ASSUME Sound, Sound', Orderly, Faithful, Counted, [CompanionNext]_companionVars
    PROVE  Counted'
<1>1. CASE UNCHANGED <<desk, told, tries, accidents, history>> /\ \E f, r, a : Serves(f, r, a)
  <2>1. PICK f, r, a : Serves(f, r, a)
    BY <1>1
  <2>2. CASE f.ask.kind = "send" /\ Makes(Reached, f, r)
    BY <2>1, <2>2, <1>1, ServesMakes
  <2>3. CASE r.sent = <<>> /\ ~Makings(a)
    BY <2>1, <2>3, <1>1, ServesQuietCounted
  <2> QED
    BY <2>1, <2>2, <2>3, ServesQuiet
<1>2. CASE SendFiles
  BY <1>2, SendFilesCounted
<1>3. CASE CancelSend
  BY <1>3, CancelSendCounted
<1>4. CASE Reach(FALSE) \/ Reach(TRUE)
  BY <1>4, ReachCounted
<1>5. CASE DeskHears
  BY <1>5, DeskHearsCounted
<1>6. CASE Fades
  BY <1>6, FadesCounted
<1> QED
  BY <1>1, <1>2, <1>3, <1>4, <1>5, <1>6, StepsFade

LEMMA AlwaysCounted == CompanionSpec => []Counted
<1>1. CompanionInit => Sound /\ Orderly /\ Faithful /\ Counted
  BY SoundInit, OrderlyInit, FaithfulInit, CountedInit
<1>2. Sound /\ Orderly /\ Faithful /\ Counted /\ [CompanionNext]_companionVars
      => (Sound /\ Orderly /\ Faithful /\ Counted)'
  BY SoundNext, OrderlyNext, FaithfulNext, CountedNext
<1>3. Sound /\ Orderly /\ Faithful /\ Counted => Counted
  OBVIOUS
<1> QED
  BY <1>1, <1>2, <1>3, PTL DEF CompanionSpec

LEMMA PaidOnce ==
    ASSUME Sound, Counted
    PROVE  SentOnce
<1> SUFFICES ASSUME NEW j \in Jobs
             PROVE  (told[j] = "sent" => Times(j) > 0) /\ Times(j) <= 1 + unheard[j]
  BY DEF SentOnce
<1>1. /\ messages \in Seq(Letters) /\ desk \in Desks /\ unheard[j] \in Nat
  BY DEF Sound, BooksOK, DeskOK
<1>2. PICK d, D : d = desk /\ D = Due(desk, net.up, j, phone.staged)
  OBVIOUS
<1>3. Tally(messages, j) \in Nat /\ Cardinality(D) \in Nat
  BY <1>1, <1>2, TallyFacts, DueFacts
<1>4. Owed(d, j) \in {0, 1}
  BY DEF Owed
<1>5. Tally(messages, j) + Cardinality(D) <= unheard[j] + Owed(d, j)
  BY <1>2 DEF Counted, Paid
<1>6. Tally(messages, j) <= 1 + unheard[j]
  BY <1>1, <1>3, <1>4, <1>5
<1>7. told[j] = "sent" => Tally(messages, j) > 0
  BY DEF Counted
<1>8. Times(j) = Tally(messages, j)
  BY TimesTally
<1> QED
  BY <1>6, <1>7, <1>8

\* What the person is told was sent is sent, and no job's message is made more
\* often than once, and once again for each link that was lost while the order
\* to send was unanswered: on_upload_send takes what it sends away, and the
\* desktop orders again only what it has offered again.
THEOREM SentOnceUnlessUnheard == CompanionSpec => []SentOnce
<1>1. Sound /\ Counted => SentOnce
  BY PaidOnce
<1> QED
  BY <1>1, AlwaysSound, AlwaysCounted, PTL
=============================================================================
