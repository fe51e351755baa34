------------------------------- MODULE Exchange -------------------------------
(***************************************************************************)
(* What a conversation promises about each message: it is sent, then kept  *)
(* by the receiver, then confirmed to the sender, each at most once and in *)
(* this order; nothing is confirmed that is not kept.                      *)
(***************************************************************************)
CONSTANT Msgs

VARIABLES sent, kept, confirmed
vars == <<sent, kept, confirmed>>

Init == sent = {} /\ kept = {} /\ confirmed = {}

Send(m)    == m \notin sent /\ sent' = sent \cup {m} /\ UNCHANGED <<kept, confirmed>>
Keep(m)    == m \in sent \ kept /\ kept' = kept \cup {m} /\ UNCHANGED <<sent, confirmed>>
Confirm(m) == m \in kept \ confirmed /\ confirmed' = confirmed \cup {m} /\ UNCHANGED <<sent, kept>>

Next == \E m \in Msgs : Send(m) \/ Keep(m) \/ Confirm(m)
Spec == Init /\ [][Next]_vars
=============================================================================
