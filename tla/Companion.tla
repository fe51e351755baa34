------------------------------ MODULE Companion ------------------------------
(***************************************************************************)
(* The second screen.  A desktop has no history of its own: it shakes      *)
(* hands with its phone by the pairing key, asks, and shows the answers.   *)
(* To send files it asks for a place for each, puts the chunks there one   *)
(* by one, and at the end asks that a message be made of them.  Sessions   *)
(* with a device live in memory only; what has been put lies on the        *)
(* phone's disk, and after a broken link the desktop asks what is left.    *)
(* The phone may revoke the pairing, with a farewell to whoever listens    *)
(* and a tombstone for whoever knocks later.                               *)
(*                                                                         *)
(* A job is what the person has chosen to send: a text and its files.      *)
(***************************************************************************)
EXTENDS Queues, FiniteSets, SequencesExt

CONSTANTS
    Sizes,         \* Sizes[j][p]: the chunks of the p-th file of job j
    MaxUploads,    \* MAX_UPLOADS
    OutLimit,      \* MAX_OUTSTANDING
    Wires,         \* the phone's wire: "new"; "middle", without Staged; "old", without Hello too
    MaxTries,      \* bound: handshakes
    Accidents      \* bound: what goes wrong

Jobs == DOMAIN Sizes

ASSUME CompanionAssumption ==
    /\ Sizes \in Seq(Seq(Nat)) /\ \A j \in Jobs : Sizes[j] # <<>>
    /\ MaxUploads \in Nat \ {0} /\ OutLimit \in Nat \ {0}
    /\ Wires # {} /\ Wires \subseteq {"new", "middle", "old"}
    /\ MaxTries \in Nat /\ Accidents \in Nat

VARIABLES
    desk,          \* the desktop: CompanionClient, and the driver's `sending`
    phone,         \* the phone: sessions and link in memory, the rest on disk
    net,           \* frames on their way, in order; `cut`: the phone has died, unnoticed
    messages,      \* what the phone has sent for the desktop
    told,          \* what the person has been told of each job
    tries, accidents,
    unheard,       \* unheard[j]: links lost with the order to send j unanswered
    deaf,          \* history: frames of the phone were lost and the desktop does not know
    mixed          \* history: jobs that took an answer meant for another job

companionVars == <<desk, phone, net, messages, told, tries, accidents,
                   unheard, deaf, mixed>>
history == <<unheard, deaf, mixed>>

NoUpload == [job |-> 0, at |-> 0, ids |-> <<>>, next |-> 0, total |-> 0, stalled |-> FALSE]

CompanionInit ==
    /\ desk = [session |-> 0, pending |-> 0, hello |-> FALSE, out |-> <<>>,
               upload |-> NoUpload, sending |-> 0, revoked |-> FALSE]
    /\ phone \in [wire : Wires, paired : {TRUE}, tomb : {"none"}, sessions : {<<>>},
                  link : {FALSE}, staged : {{}}, fresh : {1}]
    /\ net = [up |-> <<>>, down |-> <<>>, cut |-> FALSE]
    /\ messages = <<>>
    /\ told = [j \in Jobs |-> "none"]
    /\ tries = 0 /\ accidents = 0
    /\ unheard = [j \in Jobs |-> 0]
    /\ deaf = FALSE /\ mixed = {}

Lowest(S) == CHOOSE x \in S : \A y \in S : x <= y
Fitting(a, b) == IF a <= b THEN a ELSE b

-----------------------------------------------------------------------------
(* The desktop asks *)

RequestOf(kind, job, which, n, ids) ==
    [kind |-> kind, job |-> job, which |-> which, n |-> n, ids |-> ids]
Plain(kind) == RequestOf(kind, 0, 0, 0, <<>>)
FileOffer(u, at) == RequestOf("offer", u.job, at, 0, <<>>)
FilePut(u, which, index) == RequestOf("put", u.job, which, index, <<u.ids[u.at]>>)
FileSend(u) == RequestOf("send", u.job, 0, 0, u.ids)
FileAbort(u, id) == RequestOf("abort", u.job, 0, 0, <<id>>)

OfUpload == {"offer", "put", "send", "staged"}

\* on_ask and frame: sealed in the session, as many as the table has room for.
Posted(d, n, requests) ==
    LET fit == IF d.session = 0 THEN <<>>
               ELSE SubSeq(requests, 1, Fitting(Len(requests), OutLimit - Len(d.out)))
        frames == [i \in DOMAIN fit |-> [type |-> "ask", s |-> d.session, ask |-> fit[i]]]
    IN [d |-> [d EXCEPT !.out = @ \o fit],
        n |-> IF n.cut THEN n ELSE [n EXCEPT !.up = @ \o frames],
        all |-> Len(fit) = Len(requests)]

\* A step of an upload: what it becomes and what it asks for.
Step(u, requests) == [u |-> u, ask |-> requests]

\* NeedChunk, read by the driver, and on_put_chunk.
NeedChunk(u, which, index) ==
    Step(u, IF /\ ~u.stalled /\ index = u.next
               /\ u.at <= Len(u.ids) /\ which <= Len(Sizes[u.job])
            THEN <<FilePut(u, which, index)>> ELSE <<>>)

\* advance_upload
Advanced(u) ==
    LET v == [u EXCEPT !.at = @ + 1] IN
    Step(v, <<IF v.at <= Len(Sizes[u.job]) THEN FileOffer(v, v.at) ELSE FileSend(v)>>)

\* on_response, a place for the file; an empty file has nothing to put.
Placed(u, id, total) ==
    LET v == [u EXCEPT !.ids = Append(@, id), !.total = total, !.next = 0] IN
    IF total = 0 THEN Advanced(v) ELSE NeedChunk(v, v.at, 0)

\* on_response, the chunk lies there.
Laid(u) ==
    LET v == [u EXCEPT !.next = @ + 1] IN
    IF v.next < v.total THEN NeedChunk(v, v.at, v.next) ELSE Advanced(v)

\* on_staged: the first file that is not whole.  Fault: goes on where it was,
\* whatever the phone has.
ResumedBlindly(u, files) == NeedChunk([u EXCEPT !.stalled = FALSE], u.at, u.next)

Resumed(u, files) ==
    LET v == [u EXCEPT !.stalled = FALSE]
        Left(at) == {f \in files : at <= Len(u.ids) /\ f.id = u.ids[at]}
        undone == {at \in DOMAIN Sizes[u.job] : \A f \in Left(at) : f.missing # {}}
        at == Lowest(undone)
        fresh == [v EXCEPT !.at = at, !.ids = SubSeq(@, 1, at - 1)]
    IN IF undone = {} THEN Advanced([v EXCEPT !.at = Len(Sizes[u.job])])
       ELSE IF Left(at) = {} THEN Step(fresh, <<FileOffer(fresh, at)>>)
       ELSE LET f == CHOOSE f \in Left(at) : TRUE IN
            NeedChunk([v EXCEPT !.at = at, !.next = Lowest(f.missing), !.total = f.total],
                      at, Lowest(f.missing))

\* A chunk that did not go ends the upload; nothing else looks whether it went
\* (the answer that asks for it has just made room in the table).
Taken(d, n, step) ==
    LET p == Posted([d EXCEPT !.upload = step.u], n, step.ask) IN
    IF ~p.all /\ step.ask[1].kind = "put"
    THEN [p EXCEPT !.d.upload = NoUpload] ELSE p

Told(d, fate) ==
    told' = IF d.upload.job = 0 THEN told ELSE [told EXCEPT ![d.upload.job] = fate]

\* start_send and on_send
SendFiles ==
    LET j == Cardinality({i \in Jobs : told[i] # "none"}) + 1
        u == [NoUpload EXCEPT !.job = j, !.at = 1]
        d == [desk EXCEPT !.sending = j, !.upload = u]
        p == Posted(d, net, <<FileOffer(u, 1)>>)
    IN /\ desk.sending = 0 /\ desk.upload = NoUpload /\ j \in Jobs
       /\ desk' = IF p.all THEN p.d ELSE [p.d EXCEPT !.upload = NoUpload]
       /\ net' = p.n
       /\ told' = [told EXCEPT ![j] = IF p.all THEN "open" ELSE "dropped"]
       /\ UNCHANGED <<phone, messages, tries, accidents, history>>

\* on_cancel_send: every file that has a place is given up.
CancelSend ==
    LET u == desk.upload
        p == Posted([desk EXCEPT !.upload = NoUpload, !.sending = 0], net,
                    [i \in DOMAIN u.ids |-> FileAbort(u, u.ids[i])])
    IN /\ desk.sending # 0
       /\ desk' = p.d /\ net' = p.n
       /\ Told(desk, "cancelled")
       /\ UNCHANGED <<phone, messages, tries, accidents, history>>

Calling ==
    \/ \E f \in ToSet(net.up) : f.type = "hello"
    \/ \E f \in ToSet(net.down) : f.type \in {"reply", "tomb"}

\* on_tick and reach; a tick that finds a handshake on its way starts another.
Reach(again) ==
    /\ ~desk.revoked /\ desk.session = 0 /\ ~net.cut /\ tries < MaxTries
    /\ again = Calling
    /\ IF again THEN accidents < Accidents /\ accidents' = accidents + 1 ELSE UNCHANGED accidents
    /\ tries' = tries + 1
    /\ desk' = [desk EXCEPT !.pending = tries']
    /\ net' = [net EXCEPT !.up = Append(@, [type |-> "hello", s |-> tries', ask |-> Plain("none")])]
    /\ UNCHANGED <<phone, messages, told, history>>

-----------------------------------------------------------------------------
(* The desktop hears *)

\* on_handshake: the answer to the handshake begun last, and then three questions.
Linked(d, n) ==
    Posted([d EXCEPT !.session = d.pending, !.pending = 0, !.out = <<>>, !.hello = TRUE], n,
           <<Plain("hello"), Plain("chats")>> \o
           (IF d.upload = NoUpload THEN <<>> ELSE <<Plain("staged")>>))

\* on_handshake, step two.
HearReply(f) ==
    /\ f.type = "reply"
    /\ IF desk.pending = f.s
       THEN \E p \in {Linked(desk, net)} : desk' = p.d /\ net' = [p.n EXCEPT !.down = Tail(@)]
       ELSE desk' = [desk EXCEPT !.pending = 0] /\ net' = [net EXCEPT !.down = Tail(@)]
    /\ UNCHANGED <<told, history>>

\* on_revoked
Revoked(d) ==
    [d EXCEPT !.revoked = TRUE, !.session = 0, !.pending = 0, !.hello = FALSE,
              !.out = <<>>, !.upload = NoUpload]

\* The frame of the tombstone, or the farewell in the session.
HearRevoked(f) ==
    /\ f.type = "tomb" \/ (f.type = "revoked" /\ f.s = desk.session)
    /\ desk' = Revoked(desk) /\ net' = [net EXCEPT !.down = Tail(@)]
    /\ Told(desk, "stopped")
    /\ UNCHANGED history

\* on_frame, on_response: of no session, or of no question.
HearNothing(f) ==
    /\ f.type \in {"answer", "revoked"}
    /\ f.s # desk.session \/ (f.type = "answer" /\ f.ask \notin ToSet(desk.out))
    /\ net' = [net EXCEPT !.down = Tail(@)]
    /\ UNCHANGED <<desk, told, history>>

\* on_response with give_up_stalled: the question is struck out, and an answer
\* that overtakes the one to Hello says the phone is of the old wire; the answer
\* to Hello names the wire.  A phone without Staged cannot resume.
Answered(d, f) ==
    LET at == Lowest({i \in DOMAIN d.out : d.out[i] = f.ask})
        old == d.hello /\ f.ask.kind # "hello"
        gone == /\ d.upload.stalled /\ phone.wire # "new"
                /\ old \/ f.ask.kind = "hello"
        rest == Those(RemoveAt(d.out, at), {a \in ToSet(d.out) : ~old \/ a.kind # "hello"})
    IN [d EXCEPT !.out = rest, !.hello = FALSE,
                 !.upload = IF gone THEN NoUpload ELSE @,
                 !.sending = IF gone THEN 0 ELSE @]

\* on_response: what the answer makes of the upload.
Reaction(u, f) ==
    CASE f.ans = "offer"  -> Placed(u, f.id, f.total)
      [] f.ans = "done"   -> Laid(u)
      [] f.ans = "staged" -> Resumed(u, f.files)

\* An answer that moves an upload on, whichever upload that is.
HearProgress(f) ==
    /\ f.ans \in {"offer", "staged"} \/ (f.ans = "done" /\ f.ask.kind = "put")
    /\ \E d \in {Answered(desk, f)} :
       /\ d.upload # NoUpload /\ (f.ans = "staged" => d.upload.stalled)
       /\ \E p \in {Taken(d, [net EXCEPT !.down = Tail(@)], Reaction(d.upload, f))} :
             desk' = p.d /\ net' = p.n
       /\ mixed' = IF f.ask.job \in {0, d.upload.job} THEN mixed ELSE mixed \cup {d.upload.job}
       /\ UNCHANGED <<told, unheard, deaf>>

\* on_response: the message has gone, or a step of the upload was refused; the
\* driver lets go of the files.  Fault: the upload is kept.
ClosedKept(d) == [d EXCEPT !.sending = 0]

Closed(d) == [d EXCEPT !.upload = NoUpload, !.sending = 0]

HearEnd(f) ==
    /\ \/ f.ans = "done" /\ f.ask.kind = "send"
       \/ f.ans = "refused" /\ f.ask.kind \in OfUpload
    /\ \E d \in {Answered(desk, f)} :
          /\ desk' = Closed(d)
          /\ told' = IF f.ans = "done" THEN [told EXCEPT ![f.ask.job] = "sent"]
                     ELSE IF d.upload = NoUpload THEN told
                     ELSE [told EXCEPT ![d.upload.job] = "stopped"]
          /\ mixed' = IF d.upload.job \in {0, f.ask.job} THEN mixed
                      ELSE mixed \cup {d.upload.job}
    /\ net' = [net EXCEPT !.down = Tail(@)]
    /\ UNCHANGED <<unheard, deaf>>

\* Every other answer is only shown.
HearOther(f) ==
    /\ \E d \in {Answered(desk, f)} :
          /\ \/ f.ask.kind \notin OfUpload
             \/ f.ans \in {"offer", "staged"} /\ d.upload = NoUpload
             \/ f.ans = "done" /\ f.ask.kind = "put" /\ d.upload = NoUpload
             \/ f.ans = "staged" /\ ~d.upload.stalled
          /\ desk' = d
          /\ told' = IF desk.upload # NoUpload /\ d.upload = NoUpload
                     THEN [told EXCEPT ![desk.upload.job] = "stopped"] ELSE told
    /\ net' = [net EXCEPT !.down = Tail(@)]
    /\ UNCHANGED history

DeskHears ==
    /\ net.down # <<>>
    /\ LET f == Head(net.down) IN
       \/ HearReply(f) \/ HearRevoked(f) \/ HearNothing(f)
       \/ /\ f.type = "answer" /\ f.s = desk.session /\ f.ask \in ToSet(desk.out)
          /\ HearProgress(f) \/ HearEnd(f) \/ HearOther(f)
    /\ UNCHANGED <<phone, messages, tries, accidents>>

-----------------------------------------------------------------------------
(* The phone *)

Total(f) == Sizes[f.job][f.pos]
Missing(f) == (0..(Total(f) - 1)) \ f.have
Place(p, id) == {f \in p.staged : f.id = id}

Answer(f, kind) == [type |-> "answer", s |-> f.s, ask |-> f.ask, ans |-> kind,
                    id |-> 0, total |-> 0, files |-> {}]

\* on_upload_offer
OnUploadOffer(p, f) ==
    IF Cardinality(p.staged) >= MaxUploads
    THEN [p |-> p, ans |-> Answer(f, "refused"), sent |-> <<>>]
    ELSE [p |-> [p EXCEPT !.fresh = @ + 1,
                          !.staged = @ \cup {[id |-> p.fresh, job |-> f.ask.job,
                              pos |-> f.ask.which, have |-> {}, alien |-> FALSE]}],
          ans |-> [Answer(f, "offer") EXCEPT !.id = p.fresh,
                                             !.total = Sizes[f.ask.job][f.ask.which]],
          sent |-> <<>>]

\* on_upload_put: a file is there, the chunk is one of its chunks and of its
\* length.  Whose bytes they are nobody can tell.
OnUploadPut(p, f) ==
    LET place == {g \in Place(p, f.ask.ids[1]) :
                     f.ask.n < Total(g) /\ f.ask.n < Sizes[f.ask.job][f.ask.which]}
    IN [p |-> [p EXCEPT !.staged = (@ \ place) \cup
                   {[g EXCEPT !.have = @ \cup {f.ask.n},
                              !.alien = @ \/ <<f.ask.job, f.ask.which>> # <<g.job, g.pos>>]
                       : g \in place}],
        ans |-> Answer(f, IF place = {} THEN "refused" ELSE "done"),
        sent |-> <<>>]

\* on_upload_send: every file is known, named once, whole, and of one chat
\* (every job has a chat of its own here).
Whole(p, ids) ==
    /\ ids # <<>>
    /\ \A i \in DOMAIN ids : \E f \in Place(p, ids[i]) : Missing(f) = {}
    /\ Cardinality(ToSet(ids)) = Len(ids)
    /\ Cardinality({f.job : f \in {g \in p.staged : g.id \in ToSet(ids)}}) = 1

\* The files and their rows go.
Emptied(p, ids) == [p EXCEPT !.staged = {f \in @ : f.id \notin ToSet(ids)}]

\* Fault: whatever lies there for the chat goes.
SendAllOfChat(p, f) ==
    LET mine == {g \in p.staged : g.job = f.ask.job} IN
    IF Whole(p, f.ask.ids)
    THEN [p |-> Emptied(p, f.ask.ids), ans |-> Answer(f, "done"),
          sent |-> <<[text |-> f.ask.job,
                      files |-> SetToSortSeq(mine, LAMBDA a, b : a.id < b.id)]>>]
    ELSE [p |-> p, ans |-> Answer(f, "refused"), sent |-> <<>>]

OnUploadSend(p, f) ==
    LET ids == f.ask.ids IN
    IF Whole(p, ids)
    THEN [p |-> Emptied(p, ids), ans |-> Answer(f, "done"),
          sent |-> <<[text |-> f.ask.job,
                      files |-> [i \in DOMAIN ids |->
                                    CHOOSE g \in Place(p, ids[i]) : TRUE]]>>]
    ELSE [p |-> p, ans |-> Answer(f, "refused"), sent |-> <<>>]

\* on_upload_abort
OnUploadAbort(p, f) ==
    [p |-> Emptied(p, f.ask.ids), ans |-> Answer(f, "done"), sent |-> <<>>]

\* try_serve_companion, Staged.
OnStaged(p, f) ==
    [p |-> p, sent |-> <<>>,
     ans |-> [Answer(f, "staged") EXCEPT
                 !.files = {[id |-> g.id, missing |-> Missing(g), total |-> Total(g)]
                               : g \in p.staged}]]

Serve(p, f) ==
    CASE f.ask.kind = "offer"  -> OnUploadOffer(p, f)
      [] f.ask.kind = "put"    -> OnUploadPut(p, f)
      [] f.ask.kind = "send"   -> OnUploadSend(p, f)
      [] f.ask.kind = "abort"  -> OnUploadAbort(p, f)
      [] f.ask.kind = "staged" -> OnStaged(p, f)
      [] OTHER -> [p |-> p, ans |-> Answer(f, "done"), sent |-> <<>>]

Known(p, f) ==
    /\ f.ask.kind = "staged" => p.wire = "new"
    /\ f.ask.kind = "hello" => p.wire # "old"

\* on_device_frame and note_device_link: in a session the phone has; the answer
\* goes by the newest session.
HearAsk(f) ==
    /\ f.type = "ask"
    /\ IF f.s \in ToSet(phone.sessions) /\ Known(phone, f)
       THEN \E r \in {Serve([phone EXCEPT !.link = TRUE], f)} :
               /\ phone' = r.p
               /\ messages' = messages \o r.sent
               /\ net' = [net EXCEPT !.up = Tail(@), !.down =
                             Append(@, [r.ans EXCEPT !.s = Last(phone.sessions)])]
       ELSE net' = [net EXCEPT !.up = Tail(@)] /\ UNCHANGED <<phone, messages>>

\* tell_revoked.  Fault: whoever knocks hears nothing.
TellNothing(h) == <<>>

TellRevoked(h) ==
    IF phone.tomb = "fresh"
    THEN <<[type |-> "tomb", s |-> h, ask |-> Plain("none")]>> ELSE <<>>

\* A new session beside the one before it.
Older(sessions) == IF sessions = <<>> THEN <<>> ELSE <<Last(sessions)>>

\* on_handshake of a device, and of one that is a device no more.
HearHello(f) ==
    /\ f.type = "hello"
    /\ IF phone.paired
       THEN /\ phone' = [phone EXCEPT !.link = TRUE,
                            !.sessions = Older(@) \o <<f.s>>]
            /\ net' = [net EXCEPT !.up = Tail(@), !.down =
                          Append(@, [type |-> "reply", s |-> f.s, ask |-> Plain("none")])]
       ELSE /\ net' = [net EXCEPT !.up = Tail(@), !.down = @ \o TellRevoked(f.s)]
            /\ UNCHANGED phone
    /\ UNCHANGED messages

PhoneHears ==
    /\ net.up # <<>>
    /\ HearAsk(Head(net.up)) \/ HearHello(Head(net.up))
    /\ UNCHANGED <<desk, told, tries, accidents, history>>

\* on_revoke_pairing: a farewell where there is a link, then everything goes;
\* what was put stays until it is swept.
Revoke ==
    LET farewell == IF phone.link /\ phone.sessions # <<>>
                    THEN <<[type |-> "revoked", s |-> Last(phone.sessions),
                            ask |-> Plain("none")]>> ELSE <<>>
    IN /\ phone.paired /\ accidents < Accidents /\ accidents' = accidents + 1
       /\ phone' = [phone EXCEPT !.paired = FALSE, !.tomb = "fresh",
                                 !.sessions = <<>>, !.link = FALSE]
       /\ net' = [net EXCEPT !.down = @ \o farewell]
       /\ UNCHANGED <<desk, messages, told, tries, history>>

-----------------------------------------------------------------------------
(* What goes wrong *)

\* on_lost
Lost(d) ==
    [d EXCEPT !.session = 0, !.pending = 0, !.hello = FALSE, !.out = <<>>,
              !.upload = IF @ = NoUpload THEN @ ELSE [@ EXCEPT !.stalled = TRUE]]

Unheard ==
    unheard' = [j \in Jobs |->
        unheard[j] + (IF \E a \in ToSet(desk.out) : a.kind = "send" /\ a.job = j THEN 1 ELSE 0)]

\* on_link_gone: the desktop's connection breaks; of what is on its way any
\* first part arrives.
LinkGone ==
    /\ accidents < Accidents /\ accidents' = accidents + 1 /\ ~desk.revoked
    /\ \E k \in 0..Len(net.up), down \in {<<>>, net.down} :
           net' = [up |-> SubSeq(net.up, 1, k), down |-> down, cut |-> FALSE]
    /\ desk' = Lost(desk) /\ Unheard
    /\ UNCHANGED <<phone, messages, told, tries, deaf, mixed>>

\* The phone dies, between two frames or between the deletions of the rows of
\* what it is about to send.
PhoneDies ==
    /\ accidents < Accidents /\ accidents' = accidents + 1
    /\ \E k \in 0..(IF net.up = <<>> THEN 0 ELSE Len(Head(net.up).ask.ids)) :
           /\ k > 0 => /\ Head(net.up).ask.kind = "send"
                       /\ Head(net.up).s \in ToSet(phone.sessions)
                       /\ Whole(phone, Head(net.up).ask.ids)
           /\ phone' = [Emptied(phone, IF k = 0 THEN <<>> ELSE SubSeq(Head(net.up).ask.ids, 1, k))
                            EXCEPT !.sessions = <<>>, !.link = FALSE]
    /\ net' = [up |-> <<>>, down |-> <<>>, cut |-> TRUE]
    /\ UNCHANGED <<desk, messages, told, tries, history>>

\* The dead connection is taken for a live one: the desktop is linked, so its
\* tick writes nothing, and no request has a timer.
Deluded == net.cut /\ desk.session # 0

\* on_transport: a write into the dead connection fails, or the network
\* changes.  A linked desktop may never write again, so it may never happen.
Notice ==
    /\ net.cut
    /\ net' = [net EXCEPT !.cut = FALSE]
    /\ desk' = IF desk.revoked THEN desk ELSE Lost(desk)
    /\ Unheard
    /\ UNCHANGED <<phone, messages, told, tries, accidents, deaf, mixed>>

\* Without a session every tick writes a handshake, and one of them fails.
KnockFails == desk.session = 0 /\ ~desk.revoked /\ Notice

\* The phone's own connection breaks: drop_device_link.  Nobody tells the desktop.
PhoneLinkDown ==
    /\ accidents < Accidents /\ accidents' = accidents + 1 /\ phone.paired
    /\ \E k \in 0..(Len(net.down) - 1) : net' = [net EXCEPT !.down = SubSeq(@, 1, k)]
    /\ phone' = [phone EXCEPT !.link = FALSE]
    /\ deaf' = TRUE
    /\ UNCHANGED <<desk, messages, told, tries, unheard, mixed>>

\* sweep_abandoned_uploads: seven days have passed.
Sweep ==
    /\ accidents < Accidents /\ accidents' = accidents + 1
    /\ \E f \in phone.staged : phone' = [phone EXCEPT !.staged = @ \ {f}]
    /\ UNCHANGED <<desk, net, messages, told, tries, history>>

\* tell_revoked: thirty days have passed.
TombAges ==
    /\ phone.tomb = "fresh" /\ accidents < Accidents /\ accidents' = accidents + 1
    /\ phone' = [phone EXCEPT !.tomb = "old"]
    /\ UNCHANGED <<desk, net, messages, told, tries, history>>

-----------------------------------------------------------------------------
CompanionNext ==
    \/ SendFiles \/ CancelSend
    \/ Reach(FALSE) \/ Reach(TRUE)
    \/ DeskHears \/ PhoneHears
    \/ Revoke
    \/ LinkGone \/ PhoneDies \/ Notice \/ PhoneLinkDown \/ Sweep \/ TombAges

CompanionSpec ==
    /\ CompanionInit /\ [][CompanionNext]_companionVars
    /\ WF_companionVars(DeskHears) /\ WF_companionVars(PhoneHears)
    /\ WF_companionVars(Reach(FALSE)) /\ WF_companionVars(KnockFails)

-----------------------------------------------------------------------------
(* Properties *)

Kinds == {"none", "hello", "chats", "staged", "offer", "put", "send", "abort"}
Requests == [kind : Kinds, job : Jobs \cup {0}, which : Nat, n : Nat, ids : Seq(Nat)]
Uploads == [job : Jobs \cup {0}, at : Nat, ids : Seq(Nat), next : Nat, total : Nat,
            stalled : BOOLEAN]
Desks == [session : 0..MaxTries, pending : 0..MaxTries, hello : BOOLEAN,
          out : Seq(Requests), upload : Uploads, sending : Jobs \cup {0},
          revoked : BOOLEAN]
Places == [id : Nat, job : Jobs, pos : Nat, have : SUBSET Nat, alien : BOOLEAN]
Phones == [wire : Wires, paired : BOOLEAN, tomb : {"none", "fresh", "old"},
           sessions : Seq(1..MaxTries), link : BOOLEAN, staged : SUBSET Places,
           fresh : Nat]
UpFrames == [type : {"ask", "hello"}, s : 1..MaxTries, ask : Requests]
Notes == [type : {"reply", "tomb", "revoked"}, s : 1..MaxTries, ask : Requests]
Answers == [type : {"answer"}, s : 1..MaxTries, ask : Requests,
            ans : {"offer", "done", "staged", "refused"}, id : Nat, total : Nat,
            files : SUBSET [id : Nat, missing : SUBSET Nat, total : Nat]]
Nets == [up : Seq(UpFrames), down : Seq(Notes \cup Answers), cut : BOOLEAN]
Fates == {"none", "open", "sent", "dropped", "cancelled", "stopped"}

CompanionTypeOK ==
    /\ desk \in Desks /\ Len(desk.out) <= OutLimit
    /\ phone \in Phones
    /\ IsFiniteSet(phone.staged) /\ Cardinality(phone.staged) <= MaxUploads
    /\ net \in Nets
    /\ messages \in Seq([text : Jobs, files : Seq(Places)])
    /\ told \in [Jobs -> Fates] /\ unheard \in [Jobs -> Nat]
    /\ deaf \in BOOLEAN /\ mixed \subseteq Jobs
    /\ tries \in 0..MaxTries /\ accidents \in 0..Accidents

\* A message the phone makes of an upload has the files of one job, all of
\* them, in the order they were chosen, with their own bytes.
WholeMessage ==
    \A i \in DOMAIN messages :
        \/ messages[i].text \in mixed
        \/ LET m == messages[i] IN
           /\ Len(m.files) = Len(Sizes[m.text])
           /\ \A p \in DOMAIN m.files :
                  /\ m.files[p].job = m.text /\ m.files[p].pos = p
                  /\ ~m.files[p].alien /\ Missing(m.files[p]) = {}

Times(j) == Cardinality({i \in DOMAIN messages : messages[i].text = j})

\* What the person is told was sent is sent, and nothing is sent twice but
\* where the link was lost while the order to send was unanswered.
SentOnce ==
    \A j \in Jobs : /\ told[j] = "sent" => Times(j) > 0
                    /\ Times(j) <= 1 + unheard[j]

\* Every upload ends, however often the link breaks and the phone dies, but
\* where the desktop goes on for ever believing in a connection that is dead:
\* the phone died after the request was written, and nothing is written since.
EverySendEnds ==
    \A j \in Jobs :
        desk.upload.job = j ~> \/ desk.upload.job # j
                               \/ deaf \/ j \in mixed \/ ~phone.paired
                               \/ []Deluded

\* A desktop whose pairing was revoked learns of it, with the same exception:
\* one that believes itself linked to a phone that has restarted does not knock.
RevokedLearns ==
    ~phone.paired ~> desk.revoked \/ phone.tomb = "old" \/ deaf \/ []Deluded
=============================================================================
