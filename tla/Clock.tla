------------------------------- MODULE Clock -------------------------------
(***************************************************************************)
(* The hybrid logical clock (crdt/hlc.rs).  A stamp is a physical time and *)
(* a number that tells apart the stamps of one time; its order is the      *)
(* order of messages in a chat and decides which of two changes is newer.  *)
(*                                                                         *)
(* The number is a u32 and its addition is checked; to meet the limit      *)
(* takes 2^32 events in one millisecond and is left out.                   *)
(***************************************************************************)
EXTENDS Integers

CONSTANT MaxSkew   \* MAX_FUTURE_SKEW_MS, in ticks

ASSUME ClockAssumption == MaxSkew \in Nat

Stamp == [wall : Nat, logical : Nat]
Zero == [wall |-> 0, logical |-> 0]

\* The derived order: by time, then by number.
Before(s, t) == s.wall < t.wall \/ (s.wall = t.wall /\ s.logical < t.logical)

Next1(s) == [s EXCEPT !.logical = @ + 1]

\* Fault: an event in the same time moves the time on.
NowByTime(last, phys) ==
    IF phys > last.wall THEN [wall |-> phys, logical |-> 0]
    ELSE [wall |-> last.wall + 1, logical |-> 0]

\* now: the stamp of an own event, and the clock's new state.
Now(last, phys) == IF phys > last.wall THEN [wall |-> phys, logical |-> 0] ELSE Next1(last)

\* observe turns away a stamp too far ahead, and the clock stays as it is.
Refuses(phys, remote) == remote.wall > phys + MaxSkew

Later(s, t) == IF Before(s, t) THEN t ELSE s

\* Fault: what was heard leaves no trace.
ObservedNone(last, phys, remote) == Now(last, phys)

\* observe: past the time, past the own stamps and past the one heard.
Observed(last, phys, remote) == Now(Later(last, remote), phys)
=============================================================================
