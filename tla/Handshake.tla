------------------------------ MODULE Handshake ------------------------------
(***************************************************************************)
(* Two engines and the sessions between them, over the direct rungs of one *)
(* family.  Either side may call, both may call at once, first steps and   *)
(* replies are lost, repeated and late, and a side may forget, by dying,   *)
(* what it kept in memory only.                                            *)
(*                                                                         *)
(* An ephemeral key is a number, minted[k] its owner.  Every acceptance of *)
(* a first step makes a session of its own, so a session is the key and    *)
(* the ordinal of the acceptance.  What a session's slot holds is the      *)
(* outcome proved of module SessionRegistry: the newest sends unless it    *)
(* was retired, the one before it listens, and the disk holds the same.    *)
(***************************************************************************)
EXTENDS Naturals, FiniteSets, SequencesExt

CONSTANTS
    Nodes,      \* the two sides
    Scenarios,  \* who has something to send, and who may die
    MaxKeys,    \* bound: ephemeral keys minted
    Budget      \* bound: frames lost or repeated, hasty timers, deaths

ASSUME HandshakeAssumption ==
    /\ \E p, q \in Nodes : p # q /\ Nodes = {p, q}
    /\ Scenarios \subseteq [talk : SUBSET Nodes, die : SUBSET Nodes]
    /\ MaxKeys \in Nat
    /\ Budget \in Nat

VARIABLES
    cast,      \* the scenario
    minted,    \* the owner of each ephemeral key
    pend,      \* OutgoingHandshake: its key, or NoKey
    ring,      \* the handshake's timer is armed
    held,      \* sessions of the slot, the newest last
    mute,      \* the newest is retired
    seen,      \* HandshakeReplayGuard.seen, in memory
    seenRows,  \* table handshake_seen
    answers,   \* HandshakeReplayGuard.responses: the sessions they belong to
    made,      \* history: sessions made by accepting a first step
    cut,       \* history: keys whose acceptance a death cut short
    wait,      \* a frame has left and its timer is armed
    net,       \* frames on their way
    meddled    \* bound: what the environment has done so far

handshakeVars == <<cast, minted, pend, ring, held, mute, seen, seenRows, answers,
                   made, cut, wait, net, meddled>>

NoKey == 0
Keys  == 1..Len(minted)
Other(n) == CHOOSE p \in Nodes : p # n

\* Frames.  A handshake frame names no peer; whose it is follows from the key.
First(k)   == [kind |-> "first", key |-> k, turn |-> 0, to |-> "key"]
Reply(s)   == [kind |-> "reply", key |-> s.key, turn |-> s.turn, to |-> "key"]
Data(s, n) == [kind |-> "data", key |-> s.key, turn |-> s.turn, to |-> n]
Ack(s, n)  == [kind |-> "ack", key |-> s.key, turn |-> s.turn, to |-> n]
SessionOf(f) == [key |-> f.key, turn |-> f.turn]

Holds(n)  == ToSet(held[n])
Sends(n)  == held[n] # <<>> /\ ~mute[n]
Sender(n) == Last(held[n])

HandshakeInit ==
    /\ cast \in Scenarios
    /\ minted = <<>>
    /\ pend = [n \in Nodes |-> NoKey] /\ ring = [n \in Nodes |-> FALSE]
    /\ held = [n \in Nodes |-> <<>>] /\ mute = [n \in Nodes |-> FALSE]
    /\ seen = [n \in Nodes |-> {}] /\ seenRows = [n \in Nodes |-> {}]
    /\ answers = [n \in Nodes |-> {}] /\ made = {} /\ cut = {}
    /\ wait = [n \in Nodes |-> FALSE]
    /\ net = {} /\ meddled = 0

Meddles == meddled < Budget /\ meddled' = meddled + 1

\* A timer is longer than any trip; one that fires with a frame still on its
\* way is the environment's doing.
TimeIsUp == IF net = {} THEN UNCHANGED meddled ELSE Meddles

-----------------------------------------------------------------------------
(* One side calls.                                                          *)

\* ensure_handshake: the key under way, or a new one.
CallFrame(n) == IF pend[n] = NoKey THEN Len(minted) + 1 ELSE pend[n]

\* begin_handshake and the repetition of a spent one.
Calls(n) ==
    LET k == CallFrame(n) IN
    /\ k <= MaxKeys
    /\ minted' = IF k \in Keys THEN minted ELSE Append(minted, n)
    /\ pend' = [pend EXCEPT ![n] = k]
    /\ ring' = [ring EXCEPT ![n] = TRUE]
    /\ net' = net \cup {First(k)}

\* A delivery, new or tried again, finds no session to send on.
Call(n) ==
    /\ n \in cast.talk /\ ~Sends(n) /\ ~ring[n]
    /\ Calls(n)
    /\ UNCHANGED <<cast, held, mute, seen, seenRows, answers, made, cut, wait, meddled>>

\* on_delivery_failed, a silence: the session that sends now is retired; a
\* frame that was under way on it calls at once, everything else is put off.
Unanswered(n, ringing) ==
    /\ mute' = [mute EXCEPT ![n] = held[n] # <<>>]
    /\ wait' = [wait EXCEPT ![n] = FALSE]
    /\ IF wait[n] /\ Sends(n) THEN Calls(n)
       ELSE ring' = [ring EXCEPT ![n] = ringing] /\ UNCHANGED <<minted, pend, net>>
    /\ UNCHANGED <<cast, held, seen, seenRows, answers, made, cut>>

\* on_timer, the handshake's and a delivery's.
CallSilence(n) == ring[n] /\ TimeIsUp /\ Unanswered(n, FALSE)
Silence(n)     == wait[n] /\ TimeIsUp /\ Unanswered(n, ring[n])

\* Fault: the session before is not kept listening.
InsertedAlone(n, s) == <<s>>

\* SessionRegistry::insert, as seen by one slot.
InsertedInSlot(n, s) == IF Sends(n) THEN <<Sender(n), s>> ELSE <<s>>

\* supersede and persist_session
Establishes(n, s) ==
    /\ held' = [held EXCEPT ![n] = InsertedInSlot(n, s)]
    /\ mute' = [mute EXCEPT ![n] = FALSE]

\* A frame of a session opens once: the ratchet drops its repetition.
OpensOnce(f, new) == net' = (net \ {f}) \cup new /\ UNCHANGED meddled

\* A step of a handshake may come again: a copy stays on the way.
Takes(f, new) ==
    \/ OpensOnce(f, new)
    \/ net' = net \cup new /\ Meddles

-----------------------------------------------------------------------------
(* The other side answers.                                                  *)

NextSession(k) == [key |-> k, turn |-> 1 + Cardinality({s \in made : s.key = k})]

\* Responder::accept, a first step seen for the first time.
Accept(n, k) ==
    LET s == NextSession(k) IN
    /\ First(k) \in net /\ n = Other(minted[k])
    /\ k \notin seen[n]
    /\ seen' = [seen EXCEPT ![n] = @ \cup {k}]
    /\ seenRows' = [seenRows EXCEPT ![n] = @ \cup {k}]
    /\ answers' = [answers EXCEPT ![n] = @ \cup {s}]
    /\ made' = made \cup {s}
    /\ Establishes(n, s)
    /\ Takes(First(k), {Reply(s)})
    /\ UNCHANGED <<cast, minted, pend, ring, cut, wait>>

\* Fault: a repetition is refused, as it once was.
AnswersNone(n, k) == {}

\* HandshakeReplayGuard::admit: the reply kept for a repetition, if any is.
AnswersTo(n, k) == {s \in answers[n] : s.key = k}

Repeat(n, k) ==
    /\ First(k) \in net /\ n = Other(minted[k])
    /\ k \in seen[n]
    /\ Takes(First(k), {Reply(s) : s \in AnswersTo(n, k)})
    /\ UNCHANGED <<cast, minted, pend, ring, held, mute, seen, seenRows, answers, made, cut, wait>>

\* on_handshake_response: for the key under way, or for no one.
Finish(n, f) ==
    /\ f \in net /\ f.kind = "reply" /\ n = minted[f.key]
    /\ Takes(f, {})
    /\ IF pend[n] = f.key
       THEN /\ pend' = [pend EXCEPT ![n] = NoKey] /\ ring' = [ring EXCEPT ![n] = FALSE]
            /\ Establishes(n, SessionOf(f))
       ELSE UNCHANGED <<pend, ring, held, mute>>
    /\ UNCHANGED <<cast, minted, seen, seenRows, answers, made, cut, wait>>

-----------------------------------------------------------------------------
(* Frames of a session.                                                     *)

SendData(n) ==
    /\ n \in cast.talk /\ Sends(n) /\ ~wait[n]
    /\ net' = net \cup {Data(Sender(n), Other(n))}
    /\ wait' = [wait EXCEPT ![n] = TRUE]
    /\ UNCHANGED <<cast, minted, pend, ring, held, mute, seen, seenRows, answers, made, cut, meddled>>

\* on_data: a frame of an unknown session is dropped without a word; another
\* is confirmed on the receiver's own session, if it has one to send on.
Hear(n, f) ==
    /\ f \in net /\ f.kind = "data" /\ f.to = n
    /\ OpensOnce(f, IF SessionOf(f) \in Holds(n) /\ Sends(n)
                    THEN {Ack(Sender(n), Other(n))} ELSE {})
    /\ UNCHANGED <<cast, minted, pend, ring, held, mute, seen, seenRows, answers, made, cut, wait>>

Confirmed(n, f) ==
    /\ f \in net /\ f.kind = "ack" /\ f.to = n
    /\ OpensOnce(f, {})
    /\ wait' = [wait EXCEPT ![n] = @ /\ SessionOf(f) \notin Holds(n)]
    /\ UNCHANGED <<cast, minted, pend, ring, held, mute, seen, seenRows, answers, made, cut>>

-----------------------------------------------------------------------------
(* The environment.                                                         *)

Lose ==
    /\ Meddles
    /\ \E f \in net : net' = net \ {f}
    /\ UNCHANGED <<cast, minted, pend, ring, held, mute, seen, seenRows, answers, made, cut, wait>>

\* What memory alone held is gone; restore reads the rest.
Forgets(n, digests) ==
    /\ pend' = [pend EXCEPT ![n] = NoKey] /\ ring' = [ring EXCEPT ![n] = FALSE]
    /\ wait' = [wait EXCEPT ![n] = FALSE]
    /\ mute' = [mute EXCEPT ![n] = FALSE]
    /\ seen' = [seen EXCEPT ![n] = digests]
    /\ answers' = [answers EXCEPT ![n] = {}]

\* Fault: the digests are not read back, as they once were not.
RestartBlank(n) ==
    /\ n \in cast.die
    /\ Meddles
    /\ Forgets(n, {})
    /\ UNCHANGED <<cast, minted, held, seenRows, made, cut, net>>

Restart(n) ==
    /\ n \in cast.die
    /\ Meddles
    /\ Forgets(n, seenRows[n])
    /\ UNCHANGED <<cast, minted, held, seenRows, made, cut, net>>

\* on_handshake_first, cut off between persist_session and put_handshake_seen.
DieAccepting(n, k) ==
    LET s == NextSession(k) IN
    /\ n \in cast.die
    /\ First(k) \in net /\ n = Other(minted[k]) /\ k \notin seen[n]
    /\ Meddles
    /\ made' = made \cup {s} /\ cut' = cut \cup {k}
    /\ held' = [held EXCEPT ![n] = InsertedInSlot(n, s)]
    /\ Forgets(n, seenRows[n])
    /\ UNCHANGED <<cast, minted, seenRows, net>>

HandshakeNext ==
    \/ \E n \in Nodes :
        \/ Call(n) \/ CallSilence(n)
        \/ \E k \in Keys : Accept(n, k) \/ Repeat(n, k) \/ DieAccepting(n, k)
        \/ \E f \in net : Finish(n, f) \/ Hear(n, f) \/ Confirmed(n, f)
        \/ SendData(n) \/ Silence(n) \/ Restart(n)
    \/ Lose

HandshakeSpec == HandshakeInit /\ [][HandshakeNext]_handshakeVars

\* A frame on its way arrives, a timer fires once nothing is on its way, and
\* whoever has something to send goes on trying.
HandshakeFairSpec ==
    /\ HandshakeSpec
    /\ \A n \in Nodes :
        /\ WF_handshakeVars(Call(n)) /\ WF_handshakeVars(CallSilence(n))
        /\ WF_handshakeVars(\E k \in Keys : Accept(n, k) \/ Repeat(n, k))
        /\ WF_handshakeVars(\E f \in net : Finish(n, f))
        /\ WF_handshakeVars(\E f \in net : Hear(n, f))
        /\ WF_handshakeVars(\E f \in net : Confirmed(n, f))
        /\ WF_handshakeVars(SendData(n)) /\ WF_handshakeVars(Silence(n))

-----------------------------------------------------------------------------
(* Properties.                                                              *)

SessionsOfKeys == [key : Keys, turn : Nat \ {0}]

HandshakeTypeOK ==
    /\ cast \in Scenarios /\ minted \in Seq(Nodes)
    /\ pend \in [Nodes -> {NoKey} \cup Keys] /\ ring \in [Nodes -> BOOLEAN]
    /\ held \in [Nodes -> Seq(SessionsOfKeys)] /\ mute \in [Nodes -> BOOLEAN]
    /\ seen \in [Nodes -> SUBSET Keys] /\ seenRows \in [Nodes -> SUBSET Keys]
    /\ answers \in [Nodes -> SUBSET SessionsOfKeys] /\ made \subseteq SessionsOfKeys
    /\ cut \subseteq Keys
    /\ wait \in [Nodes -> BOOLEAN]
    /\ \A f \in net : f.key \in Keys /\ (f.kind = "first" \/ SessionOf(f) \in SessionsOfKeys)
    /\ meddled \in 0..Budget

\* A first step makes one session, however often it comes and whatever was
\* forgotten in between, for a second one would push out the session in use.
\* Only a death between the session's row and the digest's makes another.
OneSessionPerKey ==
    \A s, t \in made : s.key = t.key /\ s.key \notin cut => s = t

\* What n sends on, the other side holds.
Usable(n) == Sends(n) /\ Sender(n) \in Holds(Other(n))

\* Both may call at once and the frames may overtake one another: unless the
\* reply is still on its way, what one side sends on, the other holds.
EachHearsTheOther ==
    meddled = 0 =>
        \A n \in Nodes : Sends(n) /\ Reply(Sender(n)) \notin net => Usable(n)

\* After the last mishap whoever has something to send finds a session the
\* other side holds, whatever was lost, repeated or late and however often it
\* was itself restarted.
HealsIfRemembered ==
    \A n \in Nodes : <>[](cast.talk = {n} /\ cast.die \subseteq {n} => Usable(n))

\* The same, if the side that is called may be restarted too.
Heals == \A n \in Nodes : <>[](cast.talk = {n} => Usable(n))
=============================================================================
