--------------------------- MODULE TransportLadder ---------------------------
(***************************************************************************)
(* The pure part of transport choice: the ladder of rungs, the families a  *)
(* session is bound to, and one attempt to walk the ladder.                *)
(* An attempt is [tried : Seq(Rungs), fin : BOOLEAN].                      *)
(***************************************************************************)
EXTENDS Queues, SequencesExt

NoRung == "none"

\* The order in which rungs are offered.
Ladder == <<"lan", "bt", "ygg", "onion", "nostr", "mail">>
Rungs  == ToSet(Ladder)

Direct(t) == t \in {"lan", "bt", "ygg", "onion"}

\* SessionBinding::of: the three rungs that go through Tor share a family.
Family(t) == IF t \in {"onion", "nostr", "mail"} THEN "tor" ELSE t

NewAttempt == [tried |-> <<>>, fin |-> FALSE]
Current(a) == IF a.tried = <<>> THEN NoRung ELSE Last(a.tried)

Place == [t \in Rungs |-> CHOOSE i \in DOMAIN Ladder : Ladder[i] = t]
Best(S)  == CHOOSE t \in S : \A u \in S : Place[t] <= Place[u]

\* The rungs Attempt::next may still offer.
Open(a, usable) == (usable \cap Rungs) \ ToSet(a.tried)

\* Attempt::next: take the best of them, or close the attempt.
Step(a, usable) ==
    IF a.fin THEN a
    ELSE IF Open(a, usable) = {} THEN [a EXCEPT !.fin = TRUE]
    ELSE [a EXCEPT !.tried = Append(@, Best(Open(a, usable)))]

\* Attempt::forget: the rung may be offered once more.
Forgotten(a, t) ==
    [tried |-> Those(a.tried, Rungs \ {t}), fin |-> FALSE]

\* walk_attempt_to: take rungs up to the target, or leave the attempt alone.
WalkedTo(a, usable, target) ==
    LET open == Open(a, usable)
        way  == {t \in open : Place[t] <= Place[target]}
    IN  IF a.fin \/ target \notin open THEN a
        ELSE [a EXCEPT !.tried = @ \o Those(Ladder, way)]
=============================================================================
