---------------------------- MODULE ContentProofs ----------------------------
(***************************************************************************)
(* What a conversation carries besides its words, for any constants.       *)
(*                                                                         *)
(* Changes: the clock orders what depends on what, whatever the system     *)
(* clocks show.  An answer comes after what it answers, the newest         *)
(* reaction stays, and two neighbours in time hear each other.             *)
(*                                                                         *)
(* Files: what is marked is on disk, an accepted file has one place, and   *)
(* who waits in a queue waits for a file that has a timer.  Between two    *)
(* events these hold of the receivers as they are; within a handler some   *)
(* files are still in hand: neither on a lane nor queued, or on a lane     *)
(* without a timer.  Good says so of a set X of such files; each thing a   *)
(* handler does moves one file t, keeps Good with X or X and t, and asking *)
(* for t takes it out of X.  A lane freed is remembered until the end of   *)
(* the handler, where Wake takes the whole queue in hand.                  *)
(***************************************************************************)
EXTENDS Changes, Files, QueueProofs, FiniteSetTheorems, TLAPS

-----------------------------------------------------------------------------
(* The clock.                                                              *)

LEMMA StampType ==
    ASSUME NEW s \in Stamp, NEW t \in Stamp, NEW p \in Nat
    PROVE  /\ Now(s, p) \in Stamp /\ Observed(s, p, t) \in Stamp
           /\ Zero \in Stamp /\ Later(s, t) \in {s, t}
<1>1. \A u \in Stamp : Next1(u) \in Stamp
  BY DEF Next1, Stamp
<1>2. \A u \in Stamp : Now(u, p) \in Stamp
  BY <1>1 DEF Now, Stamp
<1>3. Later(s, t) \in {s, t}
  BY DEF Later
<1> QED
  BY <1>2, <1>3 DEF Observed, Zero, Stamp

\* Before is a strict order in which any two stamps compare.
LEMMA StampOrder ==
    ASSUME NEW s \in Stamp, NEW t \in Stamp, NEW u \in Stamp
    PROVE  /\ ~Before(s, s)
           /\ Before(s, t) => ~Before(t, s)
           /\ Before(s, t) /\ ~Before(u, t) => Before(s, u)
           /\ ~Before(t, s) /\ Before(t, u) => Before(s, u)
           /\ ~Before(t, s) /\ ~Before(u, t) => ~Before(u, s)
BY DEF Before, Stamp

\* An own event is stamped past all the clock has stamped or heard.
LEMMA NowAfter ==
    ASSUME NEW s \in Stamp, NEW p \in Nat
    PROVE  Before(s, Now(s, p))
<1>1. Next1(s).wall = s.wall /\ Next1(s).logical = s.logical + 1
  BY DEF Next1, Stamp
<1> QED
  BY <1>1 DEF Now, Before, Stamp

\* What was heard moves the clock past the own stamps and the one heard.
LEMMA ObservedAfter ==
    ASSUME NEW s \in Stamp, NEW t \in Stamp, NEW p \in Nat
    PROVE  Before(s, Observed(s, p, t)) /\ Before(t, Observed(s, p, t))
<1>1. Later(s, t) \in Stamp /\ ~Before(Later(s, t), s) /\ ~Before(Later(s, t), t)
  BY StampType, StampOrder DEF Later
<1>2. Before(Later(s, t), Observed(s, p, t)) /\ Observed(s, p, t) \in Stamp
  BY <1>1, NowAfter, StampType DEF Observed
<1> QED
  BY <1>1, <1>2, StampOrder

\* The clock takes its time from the system's, its own or the one heard.
LEMMA WallFrom ==
    ASSUME NEW s \in Stamp, NEW t \in Stamp, NEW p \in Nat
    PROVE  /\ Now(s, p).wall \in {s.wall, p}
           /\ Observed(s, p, t).wall \in {s.wall, t.wall, p}
<1>1. \A u \in Stamp : Now(u, p).wall \in {u.wall, p}
  BY DEF Now, Next1, Stamp
<1> QED
  BY <1>1, StampType DEF Observed

-----------------------------------------------------------------------------
(* Types. *)

Row == [st : {"none", "here", "gone"}, text : Nat, at : Stamp, since : Nat]
Sign == [sign : Nat, at : Stamp]
Env == [to : Sides, kind : {"text", "edit", "retract", "sign"},
        msg : Msgs, what : Nat, at : Stamp]

TypeInv ==
    /\ phys \in [Sides -> Nat]
    /\ clock \in [Sides -> Stamp]
    /\ history \in [Sides -> [Msgs -> Row]]
    /\ signs \in [Sides -> [Msgs -> [Sides -> Sign]]]
    /\ net \subseteq Env
    /\ changes \in Nat /\ restarts \in Nat /\ stepped \in Nat

\* There are two sides and each is the other's other.
LEMMA TwoSides ==
    /\ \A n \in Sides : Other(n) \in Sides /\ Other(n) # n /\ Other(Other(n)) = n
    /\ \A n, x \in Sides : x # n => x = Other(n)
<1>1. PICK a \in Sides, b \in Sides : a # b /\ Sides = {a, b}
  BY ChangesAssumption
<1>2. Other(a) = b /\ Other(b) = a
  BY <1>1 DEF Other
<1> QED
  BY <1>1, <1>2

LEMMA TypeInit == ChangesInit => TypeInv
BY ChangesAssumption, StampType DEF ChangesInit, TypeInv, Row, Sign, NoRow, NoSign, Zero, Stamp

LEMMA EnvType ==
    ASSUME NEW n \in Sides, NEW m \in Msgs, NEW w \in Nat, NEW at \in Stamp,
           NEW kind \in {"text", "edit", "retract", "sign"}
    PROVE  Envelope(n, kind, m, w, at) \in Env
BY TwoSides DEF Envelope, Env

\* A row replaced, and a reaction replaced.
LEMMA RowType ==
    ASSUME TypeInv, NEW n \in Sides, NEW m \in Msgs, NEW r \in Row
    PROVE  [history EXCEPT ![n][m] = r] \in [Sides -> [Msgs -> Row]]
BY DEF TypeInv

LEMMA SignType ==
    ASSUME TypeInv, NEW n \in Sides, NEW m \in Msgs, NEW x \in Sides, NEW r \in Sign
    PROVE  [signs EXCEPT ![n][m][x] = r] \in [Sides -> [Msgs -> [Sides -> Sign]]]
<1>1. [signs[n][m] EXCEPT ![x] = r] \in [Sides -> Sign]
  BY DEF TypeInv
<1>2. [signs[n] EXCEPT ![m] = [signs[n][m] EXCEPT ![x] = r]] \in [Msgs -> [Sides -> Sign]]
  BY <1>1 DEF TypeInv
<1> QED
  BY <1>2 DEF TypeInv

LEMMA RowParts ==
    ASSUME TypeInv, NEW n \in Sides, NEW m \in Msgs
    PROVE  /\ history[n][m] \in Row
           /\ [history[n][m] EXCEPT !.st = "gone"] \in Row
           /\ \A k \in Nat : [history[n][m] EXCEPT !.text = k] \in Row
<1>1. history[n][m] \in Row
  BY DEF TypeInv
<1>2. \A r \in Row : [r EXCEPT !.st = "gone"] \in Row
  BY DEF Row
<1>3. \A r \in Row, k \in Nat : [r EXCEPT !.text = k] \in Row
  BY DEF Row
<1> QED
  BY <1>1, <1>2, <1>3

LEMMA WriteType == ASSUME TypeInv, NEW m \in Msgs, Write(m) PROVE TypeInv'
<1> DEFINE n == Author[m]
           at == Now(clock[n], phys[n])
           row == [st |-> "here", text |-> 0, at |-> at, since |-> phys[n]]
<1>1. n \in Sides /\ at \in Stamp
  BY ChangesAssumption, StampType DEF TypeInv
<1>2. row \in Row
  BY <1>1 DEF Row, TypeInv
<1>3. Envelope(n, "text", m, 0, at) \in Env
  BY <1>1, EnvType
<1>4. /\ clock' = [clock EXCEPT ![n] = at]
      /\ history' = [history EXCEPT ![n][m] = row]
      /\ net' = net \cup {Envelope(n, "text", m, 0, at)}
      /\ UNCHANGED <<phys, signs, missed, bounds>>
  BY DEF Write
<1> HIDE DEF n, at, row
<1>5. history' \in [Sides -> [Msgs -> Row]]
  BY <1>1, <1>2, <1>4, RowType
<1> QED
  BY <1>1, <1>3, <1>4, <1>5 DEF TypeInv, bounds

LEMMA EditType == ASSUME TypeInv, NEW m \in Msgs, Edit(m) PROVE TypeInv'
<1> DEFINE n == Author[m]
           at == Now(clock[n], phys[n])
           row == [history[n][m] EXCEPT !.text = changes + 1]
<1>1. n \in Sides /\ at \in Stamp
  BY ChangesAssumption, StampType DEF TypeInv
<1>2. row \in Row /\ changes + 1 \in Nat
  <2>1. changes + 1 \in Nat
    BY DEF TypeInv
  <2> HIDE DEF n
  <2> QED BY <1>1, <2>1, RowParts
<1>3. Envelope(n, "edit", m, changes + 1, at) \in Env
  <2> HIDE DEF n, at
  <2> QED BY <1>1, <1>2, EnvType
<1>4. /\ clock' = [clock EXCEPT ![n] = at]
      /\ history' = [history EXCEPT ![n][m] = row]
      /\ net' = net \cup {Envelope(n, "edit", m, changes + 1, at)}
      /\ changes' = changes + 1
      /\ UNCHANGED <<phys, signs, restarts, stepped>>
  BY DEF Edit, bounds
<1> HIDE DEF n, at, row
<1>5. history' \in [Sides -> [Msgs -> Row]]
  BY <1>1, <1>2, <1>4, RowType
<1> QED
  BY <1>1, <1>3, <1>4, <1>5 DEF TypeInv

LEMMA EntombedType ==
    ASSUME TypeInv, NEW n \in Sides, NEW m \in Msgs, Entombed(n, m)
    PROVE  /\ history' \in [Sides -> [Msgs -> Row]]
           /\ signs' \in [Sides -> [Msgs -> [Sides -> Sign]]]
<1>1. [history[n][m] EXCEPT !.st = "gone"] \in Row
  BY RowParts
<1>2. history' = [history EXCEPT ![n][m] = [history[n][m] EXCEPT !.st = "gone"]]
  BY DEF Entombed
<1>3. [x \in Sides |-> NoSign] \in [Sides -> Sign]
  BY StampType DEF NoSign, Sign, Zero, Stamp
<1>4. [signs[n] EXCEPT ![m] = [x \in Sides |-> NoSign]] \in [Msgs -> [Sides -> Sign]]
  BY <1>3 DEF TypeInv
<1>5. signs' = [signs EXCEPT ![n] = [signs[n] EXCEPT ![m] = [x \in Sides |-> NoSign]]]
  BY DEF Entombed
<1> QED
  BY <1>1, <1>2, <1>4, <1>5, RowType DEF TypeInv

LEMMA RetractType ==
    ASSUME TypeInv, NEW n \in Sides, NEW m \in Msgs, Retract(n, m)
    PROVE  TypeInv'
<1> DEFINE at == Now(clock[n], phys[n])
<1>1. at \in Stamp
  BY StampType DEF TypeInv
<1>2. Envelope(n, "retract", m, 0, at) \in Env
  BY <1>1, EnvType
<1>3. /\ clock' = [clock EXCEPT ![n] = at] \/ UNCHANGED clock
      /\ net' \subseteq net \cup {Envelope(n, "retract", m, 0, at)}
      /\ changes' = changes + 1 /\ Entombed(n, m)
      /\ UNCHANGED <<phys, restarts, stepped>>
  BY DEF Retract
<1> HIDE DEF at
<1>4. clock' \in [Sides -> Stamp] /\ net' \subseteq Env /\ changes' \in Nat
  <2>1. clock' \in [Sides -> Stamp]
    BY <1>1, <1>3 DEF TypeInv
  <2>2. net' \subseteq Env
    BY <1>2, <1>3 DEF TypeInv
  <2>3. changes' \in Nat
    BY <1>3 DEF TypeInv
  <2> QED
    BY <2>1, <2>2, <2>3
<1>5. /\ history' \in [Sides -> [Msgs -> Row]]
      /\ signs' \in [Sides -> [Msgs -> [Sides -> Sign]]]
  BY <1>3, EntombedType
<1> QED
  BY <1>3, <1>4, <1>5 DEF TypeInv

LEMMA ReactType ==
    ASSUME TypeInv, NEW n \in Sides, NEW m \in Msgs, React(n, m)
    PROVE  TypeInv'
<1> DEFINE at == Now(clock[n], phys[n])
           sent == Now(at, phys[n])
           sign == [sign |-> changes + 1, at |-> at]
<1>1. at \in Stamp
  BY StampType DEF TypeInv
<1>2. sent \in Stamp /\ changes + 1 \in Nat
  <2> HIDE DEF at
  <2> QED BY <1>1, StampType DEF TypeInv
<1>3. sign \in Sign /\ Envelope(n, "sign", m, changes + 1, sent) \in Env
  <2> HIDE DEF at, sent
  <2> QED BY <1>1, <1>2, EnvType DEF Sign
<1>4. /\ clock' = [clock EXCEPT ![n] = sent]
      /\ signs' = [signs EXCEPT ![n][m][n] = sign]
      /\ net' = net \cup {Envelope(n, "sign", m, changes + 1, sent)}
      /\ changes' = changes + 1
      /\ UNCHANGED <<phys, history, restarts, stepped>>
  BY DEF React
<1> HIDE DEF at, sent, sign
<1>5. signs' \in [Sides -> [Msgs -> [Sides -> Sign]]]
  BY <1>3, <1>4, SignType
<1> QED
  BY <1>2, <1>3, <1>4, <1>5 DEF TypeInv

LEMMA ReceiveType ==
    ASSUME TypeInv, NEW f \in net, Receive(f)
    PROVE  TypeInv'
<1> DEFINE n == f.to
           m == f.msg
<1>1. n \in Sides /\ m \in Msgs /\ f \in Env /\ f.at \in Stamp /\ f.what \in Nat
  BY DEF TypeInv, Env
<1>2. Observed(clock[n], phys[n], f.at) \in Stamp
  BY <1>1, StampType DEF TypeInv
<1>3. clock' \in [Sides -> Stamp]
  <2> HIDE DEF n
  <2> QED BY <1>1, <1>2 DEF TypeInv, Receive, n
<1>4. net' \subseteq Env /\ UNCHANGED <<phys, changes, restarts, stepped>>
  BY DEF TypeInv, Receive, bounds
<1>5. ASSUME OnText(n, f)
      PROVE  history' \in [Sides -> [Msgs -> Row]] /\ UNCHANGED signs
  <2> DEFINE row == IF history[n][m].st = "gone" THEN history[n][m]
                    ELSE [st |-> "here", text |-> 0, at |-> f.at, since |-> phys[n]]
  <2>1. row \in Row
    BY <1>1 DEF Row, TypeInv
  <2>2. history' = [history EXCEPT ![n][m] = row]
    BY <1>5 DEF OnText
  <2> HIDE DEF row
  <2> QED
    BY <1>1, <1>5, <2>1, <2>2, RowType DEF OnText
<1>6. ASSUME OnEdit(n, f)
      PROVE  history' \in [Sides -> [Msgs -> Row]] /\ UNCHANGED signs
  <2> DEFINE text == IF Here(n, m) /\ InWindow(n, m) THEN f.what ELSE history[n][m].text
             row == [history[n][m] EXCEPT !.text = text]
  <2>1. text \in Nat
    BY <1>1, RowParts DEF Row
  <2>2. row \in Row
    <3> HIDE DEF text, n, m
    <3> QED BY <1>1, <2>1, RowParts
  <2>3. history' = [history EXCEPT ![n][m] = row]
    BY <1>6 DEF OnEdit
  <2> HIDE DEF row
  <2> QED
    BY <1>1, <1>6, <2>2, <2>3, RowType DEF OnEdit
<1>7. ASSUME OnRetract(n, f)
      PROVE  history' \in [Sides -> [Msgs -> Row]] /\ signs' \in [Sides -> [Msgs -> [Sides -> Sign]]]
  BY <1>1, <1>7, EntombedType DEF OnRetract, TypeInv, disk
<1>8. ASSUME OnReaction(n, f)
      PROVE  UNCHANGED history /\ signs' \in [Sides -> [Msgs -> [Sides -> Sign]]]
  <2> DEFINE x == Other(n)
             sign == IF Here(n, m) /\ Before(signs[n][m][x].at, f.at)
                     THEN [sign |-> f.what, at |-> f.at] ELSE signs[n][m][x]
  <2>1. x \in Sides
    BY <1>1, TwoSides
  <2>2. sign \in Sign
    <3> HIDE DEF x
    <3> QED BY <1>1, <2>1 DEF Sign, TypeInv
  <2>3. signs' = [signs EXCEPT ![n][m][x] = sign]
    BY <1>8 DEF OnReaction
  <2>4. UNCHANGED history
    BY <1>8 DEF OnReaction
  <2> HIDE DEF n, m, x, sign
  <2> QED
    BY <1>1, <2>1, <2>2, <2>3, <2>4, SignType
<1>9. history' \in [Sides -> [Msgs -> Row]] /\ signs' \in [Sides -> [Msgs -> [Sides -> Sign]]]
  BY <1>5, <1>6, <1>7, <1>8 DEF Receive, TypeInv, disk
<1> QED
  BY <1>3, <1>4, <1>9 DEF TypeInv

LEMMA TypeNext == TypeInv /\ [ChangesNext]_changesVars => TypeInv'
<1> SUFFICES ASSUME TypeInv, [ChangesNext]_changesVars PROVE TypeInv'
  OBVIOUS
<1>1. ASSUME NEW m \in Msgs, Write(m) \/ Edit(m) PROVE TypeInv'
  BY <1>1, WriteType, EditType
<1>2. ASSUME NEW n \in Sides, NEW m \in Msgs, Retract(n, m) \/ React(n, m) PROVE TypeInv'
  BY <1>2, RetractType, ReactType
<1>3. ASSUME NEW f \in net, Receive(f) PROVE TypeInv'
  BY <1>3, ReceiveType
<1>4. ASSUME NEW n \in Sides, Rebirth(n) PROVE TypeInv'
  BY <1>4 DEF Rebirth, TypeInv, disk, Zero, Stamp
<1>5. ASSUME NEW n \in Sides, StepBack(n) PROVE TypeInv'
  BY <1>5 DEF StepBack, TypeInv, disk
<1>6. CASE Tick
  BY <1>6 DEF Tick, TypeInv, disk
<1>7. CASE UNCHANGED changesVars
  BY <1>7 DEF changesVars, TypeInv
<1> QED
  BY <1>1, <1>2, <1>3, <1>4, <1>5, <1>6, <1>7 DEF ChangesNext

-----------------------------------------------------------------------------
(* Neighbours in time. *)

\* No clock and no stamp on its way is ahead of every system clock.
InTime ==
    stepped = 0 =>
        /\ \A n \in Sides : \E x \in Sides : clock[n].wall <= phys[x]
        /\ \A f \in net : \E x \in Sides : f.at.wall <= phys[x]

\* What one side does gives its clock and its envelope a time it knew.
LEMMA OwnStepInTime ==
    ASSUME TypeInv, InTime, NEW n \in Sides, NEW at \in Stamp,
           at.wall \in {clock[n].wall, phys[n]},
           clock' \in {clock, [clock EXCEPT ![n] = at]},
           \A f \in net' : f \in net \/ f.at = at,
           UNCHANGED <<phys, stepped>>
    PROVE  InTime'
<1> SUFFICES ASSUME stepped = 0
             PROVE  /\ \A k \in Sides : \E x \in Sides : clock'[k].wall <= phys[x]
                    /\ \A f \in net' : \E x \in Sides : f.at.wall <= phys[x]
  BY DEF InTime
<1>1. \E x \in Sides : at.wall <= phys[x]
  BY DEF InTime, TypeInv
<1>2. \A k \in Sides : clock'[k] = clock[k] \/ clock'[k] = at
  BY DEF TypeInv
<1> QED
  BY <1>1, <1>2 DEF InTime

LEMMA ReceiveInTime ==
    ASSUME TypeInv, InTime, NEW f \in net, Receive(f)
    PROVE  InTime'
<1> DEFINE n == f.to
           at == Observed(clock[n], phys[n], f.at)
<1>1. n \in Sides /\ f.at \in Stamp /\ clock[n] \in Stamp /\ phys[n] \in Nat
  BY DEF TypeInv, Env
<1>2. at.wall \in {clock[n].wall, f.at.wall, phys[n]}
  BY <1>1, WallFrom
<1>3. clock' \in {clock, [clock EXCEPT ![n] = at]} /\ net' \subseteq net /\ UNCHANGED <<phys, stepped>>
  BY DEF Receive, bounds
<1> HIDE DEF n, at
<1> SUFFICES ASSUME stepped = 0
             PROVE  /\ \A k \in Sides : \E x \in Sides : clock'[k].wall <= phys[x]
                    /\ \A g \in net' : \E x \in Sides : g.at.wall <= phys[x]
  BY <1>3 DEF InTime
<1>4. \E x \in Sides : at.wall <= phys[x]
  BY <1>1, <1>2 DEF InTime, TypeInv
<1>5. \A k \in Sides : clock'[k] = clock[k] \/ clock'[k] = at
  BY <1>3 DEF TypeInv
<1> QED
  BY <1>3, <1>4, <1>5 DEF InTime

LEMMA InTimeInit == ChangesInit => InTime
<1> SUFFICES ASSUME ChangesInit PROVE InTime
  OBVIOUS
<1>1. \A n \in Sides : clock[n].wall = 0 /\ phys[n] \in Nat
  BY ChangesAssumption DEF ChangesInit, Zero
<1>2. \A n \in Sides : clock[n].wall <= phys[n]
  BY <1>1
<1> QED
  BY <1>2 DEF ChangesInit, InTime

LEMMA InTimeNext == TypeInv /\ InTime /\ [ChangesNext]_changesVars => InTime'
<1> SUFFICES ASSUME TypeInv, InTime, [ChangesNext]_changesVars PROVE InTime'
  OBVIOUS
<1> DEFINE at(n) == Now(clock[n], phys[n])
<1>1. \A n \in Sides : at(n) \in Stamp /\ at(n).wall \in {clock[n].wall, phys[n]}
  BY StampType, WallFrom DEF TypeInv
<1>2. ASSUME NEW m \in Msgs, Write(m) \/ Edit(m) PROVE InTime'
  <2>1. Author[m] \in Sides
    BY ChangesAssumption
  <2>2. /\ clock' = [clock EXCEPT ![Author[m]] = at(Author[m])]
        /\ \A f \in net' : f \in net \/ f.at = at(Author[m])
        /\ UNCHANGED <<phys, stepped>>
    BY <1>2 DEF Write, Edit, Envelope, bounds
  <2> HIDE DEF at
  <2> QED
    BY <1>1, <2>1, <2>2, OwnStepInTime
<1>3. ASSUME NEW n \in Sides, NEW m \in Msgs, Retract(n, m) PROVE InTime'
  <2>1. /\ clock' \in {clock, [clock EXCEPT ![n] = at(n)]}
        /\ \A f \in net' : f \in net \/ f.at = at(n)
        /\ UNCHANGED <<phys, stepped>>
    BY <1>3 DEF Retract, Envelope
  <2> HIDE DEF at
  <2> QED
    BY <1>1, <2>1, OwnStepInTime
<1>4. ASSUME NEW n \in Sides, NEW m \in Msgs, React(n, m) PROVE InTime'
  <2> DEFINE sent == Now(at(n), phys[n])
  <2>1. sent \in Stamp /\ sent.wall \in {at(n).wall, phys[n]}
    <3> HIDE DEF at
    <3> QED BY <1>1, StampType, WallFrom DEF TypeInv
  <2>2. /\ clock' = [clock EXCEPT ![n] = sent]
        /\ \A f \in net' : f \in net \/ f.at = sent
        /\ UNCHANGED <<phys, stepped>>
    BY <1>4 DEF React, Envelope
  <2>3. sent.wall \in {clock[n].wall, phys[n]}
    BY <1>1, <2>1
  <2> HIDE DEF sent
  <2> QED
    BY <2>1, <2>2, <2>3, OwnStepInTime
<1>5. ASSUME NEW f \in net, Receive(f) PROVE InTime'
  BY <1>5, ReceiveInTime
<1>6. ASSUME NEW n \in Sides, Rebirth(n) PROVE InTime'
  <2>1. Zero \in Stamp /\ Zero.wall = 0 /\ phys[n] \in Nat
    BY StampType DEF Zero, TypeInv
  <2>2. clock' = [clock EXCEPT ![n] = Zero] /\ UNCHANGED <<phys, net, stepped>>
    BY <1>6 DEF Rebirth
  <2> SUFFICES ASSUME stepped = 0
               PROVE  \A k \in Sides : \E x \in Sides : clock'[k].wall <= phys[x]
    BY <2>2 DEF InTime
  <2>3. clock'[n].wall <= phys[n]
    BY <2>1, <2>2 DEF TypeInv
  <2>4. \A k \in Sides : k # n => clock'[k] = clock[k]
    BY <2>2 DEF TypeInv
  <2> QED
    BY <2>3, <2>4 DEF InTime
<1>7. ASSUME NEW n \in Sides, StepBack(n) PROVE InTime'
  <2>1. stepped' # 0
    BY <1>7 DEF StepBack, TypeInv
  <2> QED
    BY <2>1 DEF InTime
<1>8. CASE Tick
  <2>1. UNCHANGED <<clock, net, stepped>> /\ \A x \in Sides : phys'[x] = phys[x] + 1
    BY <1>8 DEF Tick
  <2>2. \A x \in Sides, w \in Nat : w <= phys[x] => w <= phys'[x]
    BY <2>1 DEF TypeInv
  <2>3. (\A n \in Sides : clock[n].wall \in Nat) /\ \A f \in net : f.at.wall \in Nat
    BY DEF TypeInv, Stamp, Env
  <2> QED
    BY <2>1, <2>2, <2>3 DEF InTime
<1>9. CASE UNCHANGED changesVars
  BY <1>9 DEF changesVars, InTime
<1> QED
  BY <1>2, <1>3, <1>4, <1>5, <1>6, <1>7, <1>8, <1>9 DEF ChangesNext

(***************************************************************************)
(* Two sides whose system clocks differ by no more than MAX_FUTURE_SKEW_MS *)
(* take each other's envelopes, however many stamps they gave within one   *)
(* tick and whatever each heard before: the clock does not run away.       *)
(***************************************************************************)
THEOREM ClockStaysNear == ChangesSpec => []NeighboursHeard
<1>1. TypeInv /\ InTime => NeighboursHeard
  <2> SUFFICES ASSUME TypeInv, InTime, stepped = 0,
                      \A n, o \in Sides : phys[n] <= phys[o] + MaxSkew,
                      NEW f \in net
               PROVE  ~Refuses(phys[f.to], f.at)
    BY DEF NeighboursHeard
  <2>1. PICK x \in Sides : f.at.wall <= phys[x]
    BY DEF InTime
  <2>2. f.to \in Sides /\ f.at.wall \in Nat /\ phys[x] \in Nat /\ phys[f.to] \in Nat
    BY DEF TypeInv, Env, Stamp
  <2>3. phys[x] <= phys[f.to] + MaxSkew
    BY <2>2
  <2> QED
    BY <2>1, <2>2, <2>3, ClockAssumption DEF Refuses
<1> QED
  BY <1>1, TypeInit, TypeNext, InTimeInit, InTimeNext, PTL DEF ChangesSpec

-----------------------------------------------------------------------------
(* Answers. *)

Written(n, m) == history[n][m].st # "none"
FirstRow(m) == history[Author[m]][m]

\* A message bears one stamp: its author's, on the way and on either side.
OneStamp ==
    /\ \A n \in Sides, m \in Msgs : Written(n, m) =>
           Written(Author[m], m) /\ history[n][m].at = FirstRow(m).at
    /\ \A f \in net : f.kind = "text" =>
           Written(Author[f.msg], f.msg) /\ f.at = FirstRow(f.msg).at

\* A clock that was not lost is past every row, and answers are in order.
Ordered ==
    restarts = 0 =>
        /\ \A n \in Sides, m \in Msgs :
               Written(n, m) => ~Before(clock[n], history[n][m].at)
        /\ \A m \in Msgs : Written(Author[m], m) /\ AnswerTo[m] # m =>
               /\ Written(Author[AnswerTo[m]], AnswerTo[m])
               /\ Before(FirstRow(AnswerTo[m]).at, FirstRow(m).at)

\* How a row moves in one step: it stays as it was stamped, is written, or
\* comes from the other side.
RowStays(n, m) ==
    /\ history'[n][m].st = "none" <=> history[n][m].st = "none"
    /\ history[n][m].st = "gone" => history'[n][m].st = "gone"
    /\ history'[n][m].at = history[n][m].at

RowFresh(n, m) ==
    /\ n = Author[m] /\ Write(m)
    /\ history[n][m].st = "none"
    /\ history'[n][m].st = "here" /\ history'[n][m].at = clock'[n]
    /\ Before(clock[n], clock'[n])

RowCopied(n, m) ==
    \E f \in net :
        /\ f.kind = "text" /\ f.to = n /\ f.msg = m
        /\ history[n][m].st # "gone"
        /\ history'[n][m].st = "here" /\ history'[n][m].at = f.at
        /\ ~Before(clock'[n], f.at)

LEMMA EntombedRows ==
    ASSUME TypeInv, NEW n \in Sides, NEW m \in Msgs, Entombed(n, m), Here(n, m)
    PROVE  \A k \in Sides, j \in Msgs : RowStays(k, j)
<1>1. history' = [history EXCEPT ![n][m] = [history[n][m] EXCEPT !.st = "gone"]]
  BY DEF Entombed
<1>2. /\ [history[n][m] EXCEPT !.st = "gone"].st = "gone"
      /\ [history[n][m] EXCEPT !.st = "gone"].at = history[n][m].at
  BY RowParts DEF Row
<1>3. \A k \in Sides, j \in Msgs : \/ history'[k][j] = history[k][j]
                                   \/ /\ k = n /\ j = m
                                      /\ history'[k][j].st = "gone"
                                      /\ history'[k][j].at = history[k][j].at
  BY <1>1, <1>2 DEF TypeInv
<1> QED
  BY <1>3 DEF RowStays, Here

LEMMA TextRows ==
    ASSUME TypeInv, NEW n \in Sides, NEW m \in Msgs, NEW k \in Nat,
           history' = [history EXCEPT ![n][m] = [history[n][m] EXCEPT !.text = k]]
    PROVE  \A o \in Sides, j \in Msgs : RowStays(o, j)
<1>1. /\ [history[n][m] EXCEPT !.text = k].st = history[n][m].st
      /\ [history[n][m] EXCEPT !.text = k].at = history[n][m].at
  BY RowParts DEF Row
<1>2. \A o \in Sides, j \in Msgs : /\ history'[o][j].st = history[o][j].st
                                   /\ history'[o][j].at = history[o][j].at
  BY <1>1 DEF TypeInv
<1> QED
  BY <1>2 DEF RowStays

LEMMA WriteRows ==
    ASSUME TypeInv, NEW m \in Msgs, Write(m)
    PROVE  /\ RowFresh(Author[m], m)
           /\ \A n \in Sides, j \in Msgs : RowStays(n, j) \/ (n = Author[m] /\ j = m)
<1> DEFINE n == Author[m]
           at == Now(clock[n], phys[n])
           row == [st |-> "here", text |-> 0, at |-> at, since |-> phys[n]]
<1>1. n \in Sides /\ clock[n] \in Stamp /\ phys[n] \in Nat
  BY ChangesAssumption DEF TypeInv
<1>2. Before(clock[n], at)
  BY <1>1, NowAfter
<1>3. history' = [history EXCEPT ![n][m] = row] /\ clock' = [clock EXCEPT ![n] = at]
      /\ history[n][m].st = "none"
  BY DEF Write
<1>4. row.st = "here" /\ row.at = at
  OBVIOUS
<1> HIDE DEF n, at, row
<1>5. history'[n][m] = row /\ clock'[n] = at
  BY <1>1, <1>3 DEF TypeInv
<1>6. \A k \in Sides, j \in Msgs : history'[k][j] = history[k][j] \/ (k = n /\ j = m)
  BY <1>1, <1>3 DEF TypeInv
<1> QED
  BY <1>2, <1>3, <1>4, <1>5, <1>6 DEF RowFresh, RowStays, n

LEMMA ReceiveRows ==
    ASSUME TypeInv, NEW f \in net, Receive(f), NEW k \in Sides, NEW j \in Msgs
    PROVE  RowStays(k, j) \/ RowCopied(k, j)
<1> DEFINE n == f.to
           m == f.msg
<1>1. n \in Sides /\ m \in Msgs /\ f.at \in Stamp /\ f.what \in Nat
      /\ clock[n] \in Stamp /\ phys[n] \in Nat
  BY DEF TypeInv, Env
<1>2. CASE Refuses(phys[n], f.at)
  BY <1>2 DEF Receive, RowStays, disk
<1>3. CASE ~Refuses(phys[n], f.at) /\ f.kind = "text" /\ OnText(n, f)
  <2> DEFINE row == [st |-> "here", text |-> 0, at |-> f.at, since |-> phys[n]]
  <2>1. clock'[n] = Observed(clock[n], phys[n], f.at)
    BY <1>1, <1>3 DEF Receive, TypeInv
  <2>2. ~Before(clock'[n], f.at)
    <3> DEFINE at == Observed(clock[n], phys[n], f.at)
    <3>1. Before(f.at, at) /\ at \in Stamp
      BY <1>1, ObservedAfter, StampType
    <3> HIDE DEF at
    <3>2. ~Before(at, f.at)
      BY <1>1, <3>1, StampOrder
    <3> QED
      BY <2>1, <3>2 DEF at
  <2>3. history' = [history EXCEPT ![n][m] =
                       IF history[n][m].st = "gone" THEN history[n][m] ELSE row]
    BY <1>3 DEF OnText
  <2>4. row.st = "here" /\ row.at = f.at
    OBVIOUS
  <2> HIDE DEF row
  <2>5. \/ history'[k][j] = history[k][j]
        \/ k = n /\ j = m /\ history[n][m].st # "gone" /\ history'[k][j] = row
    BY <1>1, <2>3 DEF TypeInv
  <2> QED
    BY <1>3, <2>2, <2>4, <2>5 DEF RowStays, RowCopied
<1>4. CASE OnEdit(n, f)
  <2> DEFINE text == IF Here(n, m) /\ InWindow(n, m) THEN f.what ELSE history[n][m].text
  <2>1. text \in Nat
    BY <1>1, RowParts DEF Row
  <2>2. history' = [history EXCEPT ![n][m] = [history[n][m] EXCEPT !.text = text]]
    BY <1>4 DEF OnEdit
  <2> HIDE DEF text, n, m
  <2> QED
    BY <1>1, <2>1, <2>2, TextRows
<1>5. CASE OnRetract(n, f)
  BY <1>1, <1>5, EntombedRows DEF OnRetract, RowStays, disk
<1>6. CASE OnReaction(n, f)
  BY <1>6 DEF OnReaction, RowStays
<1> QED
  BY <1>2, <1>3, <1>4, <1>5, <1>6 DEF Receive

LEMMA RowStep ==
    ASSUME TypeInv, [ChangesNext]_changesVars, NEW n \in Sides, NEW m \in Msgs
    PROVE  RowStays(n, m) \/ RowFresh(n, m) \/ RowCopied(n, m)
<1>1. ASSUME NEW j \in Msgs, Write(j) PROVE RowStays(n, m) \/ RowFresh(n, m)
  BY <1>1, WriteRows
<1>2. ASSUME NEW j \in Msgs, Edit(j) PROVE RowStays(n, m)
  <2>1. Author[j] \in Sides /\ changes + 1 \in Nat
    BY ChangesAssumption DEF TypeInv
  <2>2. history' = [history EXCEPT ![Author[j]][j] =
                       [history[Author[j]][j] EXCEPT !.text = changes + 1]]
    BY <1>2 DEF Edit
  <2> QED
    BY <2>1, <2>2, TextRows
<1>3. ASSUME NEW k \in Sides, NEW j \in Msgs, Retract(k, j) PROVE RowStays(n, m)
  BY <1>3, EntombedRows DEF Retract
<1>4. ASSUME NEW k \in Sides, NEW j \in Msgs, React(k, j) PROVE RowStays(n, m)
  BY <1>4 DEF React, RowStays
<1>5. ASSUME NEW f \in net, Receive(f) PROVE RowStays(n, m) \/ RowCopied(n, m)
  BY <1>5, ReceiveRows
<1>6. ASSUME UNCHANGED history PROVE RowStays(n, m)
  BY <1>6 DEF RowStays
<1> QED
  BY <1>1, <1>2, <1>3, <1>4, <1>5, <1>6
     DEF ChangesNext, Rebirth, StepBack, Tick, disk, changesVars

\* A message once stamped by its author keeps that stamp.
LEMMA FirstStays ==
    ASSUME TypeInv, OneStamp, [ChangesNext]_changesVars, NEW m \in Msgs, Written(Author[m], m)
    PROVE  Written(Author[m], m)' /\ FirstRow(m)'.at = FirstRow(m).at
<1>1. Author[m] \in Sides
  BY ChangesAssumption
<1>2. RowStays(Author[m], m) \/ RowCopied(Author[m], m)
  BY <1>1, RowStep DEF RowFresh, Written
<1>3. CASE RowStays(Author[m], m)
  BY <1>3 DEF RowStays, Written, FirstRow
<1>4. CASE RowCopied(Author[m], m)
  BY <1>4 DEF RowCopied, Written, FirstRow, OneStamp
<1> QED
  BY <1>2, <1>3, <1>4

\* A text on the net was there, or is now written.
LEMMA TextStep ==
    ASSUME TypeInv, [ChangesNext]_changesVars, NEW f \in net', f.kind = "text"
    PROVE  \/ f \in net
           \/ f.msg \in Msgs /\ RowFresh(Author[f.msg], f.msg) /\ f.at = clock'[Author[f.msg]]
<1>1. ASSUME NEW m \in Msgs, Write(m), f \notin net
      PROVE  f.msg \in Msgs /\ RowFresh(Author[f.msg], f.msg) /\ f.at = clock'[Author[f.msg]]
  <2> DEFINE at == Now(clock[Author[m]], phys[Author[m]])
  <2>1. f.msg = m /\ f.at = at /\ clock' = [clock EXCEPT ![Author[m]] = at]
    BY <1>1 DEF Write, Envelope
  <2>2. RowFresh(Author[m], m) /\ Author[m] \in Sides
    BY <1>1, WriteRows, ChangesAssumption
  <2> HIDE DEF at
  <2> QED
    BY <2>1, <2>2 DEF TypeInv
<1>2. ASSUME NEW m \in Msgs, Edit(m) PROVE f \in net
  BY <1>2 DEF Edit, Envelope
<1>3. ASSUME NEW n \in Sides, NEW m \in Msgs, Retract(n, m) \/ React(n, m) PROVE f \in net
  BY <1>3 DEF Retract, React, Envelope
<1>4. ASSUME NEW g \in net, Receive(g) PROVE f \in net
  BY <1>4 DEF Receive
<1> QED
  BY <1>1, <1>2, <1>3, <1>4 DEF ChangesNext, Rebirth, StepBack, Tick, changesVars

LEMMA OneStampNext == TypeInv /\ OneStamp /\ [ChangesNext]_changesVars => OneStamp'
<1> SUFFICES ASSUME TypeInv, OneStamp, [ChangesNext]_changesVars PROVE OneStamp'
  OBVIOUS
<1>1. ASSUME NEW n \in Sides, NEW m \in Msgs, Written(n, m)'
      PROVE  Written(Author[m], m)' /\ history'[n][m].at = FirstRow(m)'.at
  <2>1. CASE RowStays(n, m)
    BY <1>1, <2>1, FirstStays DEF RowStays, Written, OneStamp
  <2>2. CASE RowFresh(n, m)
    BY <1>1, <2>2 DEF RowFresh, Written, FirstRow
  <2>3. CASE RowCopied(n, m)
    BY <2>3, FirstStays DEF RowCopied, OneStamp
  <2> QED
    BY <2>1, <2>2, <2>3, RowStep
<1>2. ASSUME NEW f \in net', f.kind = "text"
      PROVE  Written(Author[f.msg], f.msg)' /\ f.at = FirstRow(f.msg)'.at
  <2>1. CASE f \in net
    <3>1. f.msg \in Msgs
      BY <2>1 DEF TypeInv, Env
    <3> QED
      BY <1>2, <2>1, <3>1, FirstStays DEF OneStamp
  <2>2. CASE RowFresh(Author[f.msg], f.msg) /\ f.at = clock'[Author[f.msg]]
    BY <2>2 DEF RowFresh, Written, FirstRow
  <2> QED
    BY <1>2, <2>1, <2>2, TextStep
<1> QED
  BY <1>1, <1>2 DEF OneStamp

\* No step but a restart takes a clock back.
LEMMA ClockGrows ==
    ASSUME TypeInv, [ChangesNext]_changesVars, restarts' = 0, NEW n \in Sides
    PROVE  clock'[n] \in Stamp /\ ~Before(clock'[n], clock[n])
<1>1. \A k \in Sides : clock[k] \in Stamp /\ phys[k] \in Nat
  BY DEF TypeInv
<1>2. TypeInv'
  BY TypeNext
<1>3. clock'[n] \in Stamp
  BY <1>2 DEF TypeInv
<1>4. ASSUME clock'[n] = clock[n] \/ Before(clock[n], clock'[n])
      PROVE  ~Before(clock'[n], clock[n])
  BY <1>1, <1>3, <1>4, StampOrder
<1> DEFINE at(k) == Now(clock[k], phys[k])
<1>5. \A k \in Sides : at(k) \in Stamp /\ Before(clock[k], at(k))
  BY <1>1, StampType, NowAfter
<1>6. ASSUME NEW k \in Sides, NEW t, Before(clock[k], t),
             clock' \in {clock, [clock EXCEPT ![k] = t]}
      PROVE  ~Before(clock'[n], clock[n])
  <2>1. clock'[n] = clock[n] \/ (n = k /\ clock'[n] = t)
    BY <1>6 DEF TypeInv
  <2> QED
    BY <1>4, <1>6, <2>1
<1>7. ASSUME NEW m \in Msgs, Write(m) \/ Edit(m) PROVE ~Before(clock'[n], clock[n])
  <2>1. Author[m] \in Sides /\ clock' = [clock EXCEPT ![Author[m]] = at(Author[m])]
    BY <1>7, ChangesAssumption DEF Write, Edit
  <2> HIDE DEF at
  <2> QED
    BY <1>5, <1>6, <2>1
<1>8. ASSUME NEW k \in Sides, NEW m \in Msgs, Retract(k, m) PROVE ~Before(clock'[n], clock[n])
  <2>1. clock' \in {clock, [clock EXCEPT ![k] = at(k)]}
    BY <1>8 DEF Retract
  <2> HIDE DEF at
  <2> QED
    BY <1>5, <1>6, <2>1
<1>9. ASSUME NEW k \in Sides, NEW m \in Msgs, React(k, m) PROVE ~Before(clock'[n], clock[n])
  <2> DEFINE sent == Now(at(k), phys[k])
  <2>1. clock' = [clock EXCEPT ![k] = sent]
    BY <1>9 DEF React
  <2>2. sent \in Stamp /\ Before(at(k), sent)
    <3> HIDE DEF at
    <3> QED BY <1>1, <1>5, StampType, NowAfter
  <2> HIDE DEF at, sent
  <2>3. Before(clock[k], sent)
    BY <1>1, <1>5, <2>2, StampOrder
  <2> QED
    BY <1>6, <2>1, <2>3
<1>10. ASSUME NEW f \in net, Receive(f) PROVE ~Before(clock'[n], clock[n])
  <2> DEFINE t == Observed(clock[f.to], phys[f.to], f.at)
  <2>1. f.to \in Sides /\ f.at \in Stamp
    BY DEF TypeInv, Env
  <2>2. Before(clock[f.to], t)
    BY <1>1, <2>1, ObservedAfter
  <2>3. clock' \in {clock, [clock EXCEPT ![f.to] = t]}
    BY <1>10 DEF Receive
  <2> HIDE DEF t
  <2> QED
    BY <1>6, <2>1, <2>2, <2>3
<1>11. ASSUME NEW k \in Sides, Rebirth(k) PROVE FALSE
  BY <1>11 DEF Rebirth, TypeInv
<1>12. ASSUME UNCHANGED clock PROVE ~Before(clock'[n], clock[n])
  BY <1>4, <1>12
<1>13. ~Before(clock'[n], clock[n])
  BY <1>7, <1>8, <1>9, <1>10, <1>11, <1>12 DEF ChangesNext, StepBack, Tick, changesVars
<1> QED
  BY <1>3, <1>13

LEMMA StillUp == TypeInv /\ [ChangesNext]_changesVars /\ restarts' = 0 => restarts = 0
<1>1. ASSUME [ChangesNext]_changesVars PROVE restarts' = restarts \/ restarts' = restarts + 1
  BY <1>1 DEF ChangesNext, Write, Edit, Retract, React, Receive, Rebirth, StepBack, Tick, bounds, changesVars
<1> QED
  BY <1>1 DEF TypeInv

LEMMA OrderedNext == TypeInv /\ OneStamp /\ Ordered /\ [ChangesNext]_changesVars => Ordered'
<1> SUFFICES ASSUME TypeInv, OneStamp, Ordered, [ChangesNext]_changesVars, restarts' = 0
             PROVE  Ordered'
  BY DEF Ordered
<1>1. restarts = 0
  BY StillUp
<1>2. TypeInv'
  BY TypeNext
<1>3. \A n \in Sides, m \in Msgs :
        /\ clock[n] \in Stamp /\ clock'[n] \in Stamp
        /\ history[n][m].at \in Stamp /\ history'[n][m].at \in Stamp
  BY <1>2 DEF TypeInv, Row
<1>4. ASSUME NEW n \in Sides, NEW m \in Msgs, Written(n, m)'
      PROVE  ~Before(clock'[n], history'[n][m].at)
  <2>1. CASE RowStays(n, m)
    <3>1. ~Before(clock[n], history[n][m].at)
      BY <1>1, <1>4, <2>1 DEF RowStays, Written, Ordered
    <3>2. ~Before(clock'[n], clock[n])
      BY ClockGrows
    <3>3. ~Before(clock'[n], history[n][m].at)
      BY <1>3, <3>1, <3>2, StampOrder
    <3> QED
      BY <2>1, <3>3 DEF RowStays
  <2>2. CASE RowFresh(n, m)
    BY <1>3, <2>2, StampOrder DEF RowFresh
  <2>3. CASE RowCopied(n, m)
    BY <2>3 DEF RowCopied
  <2> QED
    BY <2>1, <2>2, <2>3, RowStep
<1>5. ASSUME NEW m \in Msgs, Written(Author[m], m)', AnswerTo[m] # m
      PROVE  /\ Written(Author[AnswerTo[m]], AnswerTo[m])'
             /\ Before(FirstRow(AnswerTo[m])'.at, FirstRow(m)'.at)
  <2> DEFINE n == Author[m]
             a == AnswerTo[m]
  <2>1. n \in Sides /\ a \in Msgs /\ Author[a] \in Sides
    BY ChangesAssumption
  <2>2. CASE Written(n, m)
    <3>1. Written(Author[a], a) /\ Before(FirstRow(a).at, FirstRow(m).at)
      BY <1>1, <1>5, <2>2 DEF Ordered
    <3> QED
      BY <2>1, <2>2, <3>1, FirstStays
  <2>3. CASE ~Written(n, m)
    <3>1. RowFresh(n, m)
      <4>1. ~RowStays(n, m)
        BY <1>5, <2>3 DEF RowStays, Written
      <4>2. ~RowCopied(n, m)
        BY <2>3 DEF RowCopied, OneStamp
      <4> QED
        BY <2>1, <4>1, <4>2, RowStep
    <3>2. Here(n, a)
      BY <1>5, <3>1 DEF RowFresh, Write
    <3>3. Written(n, a) /\ Written(Author[a], a) /\ history[n][a].at = FirstRow(a).at
      BY <2>1, <3>2 DEF Here, Written, OneStamp
    <3>4. ~Before(clock[n], FirstRow(a).at)
      BY <1>1, <2>1, <3>3 DEF Ordered
    <3>5. Before(clock[n], clock'[n]) /\ FirstRow(m)'.at = clock'[n]
      BY <3>1 DEF RowFresh, FirstRow
    <3>6. Before(FirstRow(a).at, clock'[n])
      <4> HIDE DEF n, a
      <4> QED BY <1>3, <2>1, <3>4, <3>5, StampOrder DEF FirstRow
    <3>7. Written(Author[a], a)' /\ FirstRow(a)'.at = FirstRow(a).at
      BY <2>1, <3>3, FirstStays
    <3> QED
      BY <3>5, <3>6, <3>7
  <2> QED
    BY <2>2, <2>3
<1> QED
  BY <1>4, <1>5 DEF Ordered

LEMMA OrderInit == ChangesInit => OneStamp /\ Ordered
BY ChangesAssumption DEF ChangesInit, OneStamp, Ordered, Written, NoRow

(***************************************************************************)
(* An answer stands after what it answers, on both sides, while no restart *)
(* lost a clock: whatever the system clocks show, however they are set     *)
(* back, and though the order of arrival is anyone's (send_own_text takes  *)
(* its stamp past all that admit has let the clock hear).                  *)
(***************************************************************************)
THEOREM AnswersSort == ChangesSpec => []AnswersFollow
<1>1. OneStamp /\ Ordered => AnswersFollow
  <2> SUFFICES ASSUME OneStamp, Ordered, restarts = 0, NEW n \in Sides, NEW m \in Msgs,
                      Here(n, m), AnswerTo[m] # m, Here(n, AnswerTo[m])
               PROVE  Before(history[n][AnswerTo[m]].at, history[n][m].at)
    BY DEF AnswersFollow
  <2>1. AnswerTo[m] \in Msgs
    BY ChangesAssumption
  <2>2. /\ Written(Author[m], m) /\ history[n][m].at = FirstRow(m).at
        /\ history[n][AnswerTo[m]].at = FirstRow(AnswerTo[m]).at
    BY <2>1 DEF OneStamp, Written, Here
  <2> QED
    BY <2>2 DEF Ordered
<1> QED
  BY <1>1, TypeInit, TypeNext, OrderInit, OneStampNext, OrderedNext, PTL DEF ChangesSpec

-----------------------------------------------------------------------------
(* Reactions. *)

Gone(n, m) == history[n][m].st = "gone"
Flying(x, m) == {f \in net : f.kind = "sign" /\ f.msg = m /\ f.to = Other(x)}

\* What x said last of m is what the other side has, or is the newest on its way.
Newest(x, m) ==
    LET mine == signs[x][m][x]
        theirs == signs[Other(x)][m][x]
    IN  \/ /\ theirs.sign = mine.sign
           /\ \A f \in Flying(x, m) : ~Before(theirs.at, f.at)
        \/ \E f \in Flying(x, m) :
               /\ f.what = mine.sign /\ Before(theirs.at, f.at)
               /\ \A g \in Flying(x, m) : g = f \/ Before(g.at, f.at)

SignInv ==
    restarts = 0 =>
        \A x \in Sides, m \in Msgs :
            /\ ~Before(clock[x], signs[Other(x)][m][x].at)
            /\ \A f \in Flying(x, m) : ~Before(clock[x], f.at)
            /\ m \notin missed /\ ~Gone(x, m) /\ ~Gone(Other(x), m) => Newest(x, m)

\* What one step does to the reactions of x to m: nothing, one more is given,
\* one arrives, or the message is buried.
Keeps(x, m) ==
    /\ Gone(x, m) => Gone(x, m)'
    /\ Gone(Other(x), m) => Gone(Other(x), m)'
    /\ missed \subseteq missed'

Quiet(x, m) ==
    /\ signs'[x][m][x] = signs[x][m][x]
    /\ signs'[Other(x)][m][x] = signs[Other(x)][m][x]
    /\ Flying(x, m)' = Flying(x, m)

Given(x, m) ==
    \E f \in Flying(x, m)' :
        /\ Flying(x, m)' = Flying(x, m) \cup {f}
        /\ f.what = signs'[x][m][x].sign /\ f.at = clock'[x]
        /\ Before(clock[x], clock'[x])
        /\ signs'[Other(x)][m][x] = signs[Other(x)][m][x]

Came(x, m) ==
    \E f \in Flying(x, m) :
        LET theirs == signs[Other(x)][m][x]
            theirs2 == signs'[Other(x)][m][x]
        IN  /\ Flying(x, m)' = Flying(x, m) \ {f}
            /\ signs'[x][m][x] = signs[x][m][x]
            /\ \/ m \in missed' /\ theirs2 = theirs
               \/ Before(theirs.at, f.at) /\ theirs2 = [sign |-> f.what, at |-> f.at]
               \/ ~Before(theirs.at, f.at) /\ theirs2 = theirs

Buried(x, m) ==
    /\ Flying(x, m)' = Flying(x, m)
    /\ Gone(x, m)' \/ Gone(Other(x), m)'
    /\ signs'[Other(x)][m][x] \in {signs[Other(x)][m][x], NoSign}

LEMMA KeepsStep ==
    ASSUME TypeInv, [ChangesNext]_changesVars, NEW x \in Sides, NEW m \in Msgs
    PROVE  Keeps(x, m)
<1>1. \A n \in Sides : Gone(n, m) => Gone(n, m)'
  BY RowStep DEF RowStays, RowFresh, RowCopied, Gone
<1>2. missed \subseteq missed'
  BY DEF ChangesNext, Write, Edit, Retract, React, Receive, Rebirth, StepBack, Tick, changesVars
<1> QED
  BY <1>1, <1>2, TwoSides DEF Keeps

LEMMA EntombedSigns ==
    ASSUME TypeInv, NEW n \in Sides, NEW j \in Msgs, Entombed(n, j),
           NEW x \in Sides, NEW m \in Msgs, Flying(x, m)' = Flying(x, m)
    PROVE  Quiet(x, m) \/ Buried(x, m)
<1> DEFINE none == [y \in Sides |-> NoSign]
<1>1. signs' = [signs EXCEPT ![n] = [signs[n] EXCEPT ![j] = none]]
  BY DEF Entombed
<1>2. \A y \in Sides : none[y] = NoSign
  OBVIOUS
<1>3. x \in Sides /\ Other(x) \in Sides /\ Other(x) # x
      /\ \A k \in Sides : k = x \/ k = Other(x)
  BY TwoSides
<1>4. history' = [history EXCEPT ![n][j] = [history[n][j] EXCEPT !.st = "gone"]]
      /\ [history[n][j] EXCEPT !.st = "gone"].st = "gone"
  BY RowParts DEF Entombed, Row
<1>5. Gone(n, j)'
  BY <1>4 DEF Gone, TypeInv
<1> HIDE DEF none
<1>6. \A k \in Sides : signs'[k][m] = IF k = n /\ m = j THEN none ELSE signs[k][m]
  BY <1>1 DEF TypeInv
<1> QED
  BY <1>2, <1>3, <1>5, <1>6 DEF Quiet, Buried

LEMMA ReactSigns ==
    ASSUME TypeInv, NEW n \in Sides, NEW j \in Msgs, React(n, j),
           NEW x \in Sides, NEW m \in Msgs
    PROVE  Quiet(x, m) \/ Given(x, m)
<1> DEFINE at == Now(clock[n], phys[n])
           sent == Now(at, phys[n])
           sign == [sign |-> changes + 1, at |-> at]
           f == Envelope(n, "sign", j, changes + 1, sent)
<1>1. at \in Stamp /\ Before(clock[n], at) /\ clock[n] \in Stamp /\ phys[n] \in Nat
  BY StampType, NowAfter DEF TypeInv
<1>2. Before(clock[n], sent)
  <2> HIDE DEF at
  <2> QED BY <1>1, StampType, NowAfter, StampOrder
<1>3. clock' = [clock EXCEPT ![n] = sent] /\ signs' = [signs EXCEPT ![n][j][n] = sign]
      /\ net' = net \cup {f}
  BY DEF React
<1>4. f.kind = "sign" /\ f.msg = j /\ f.to = Other(n) /\ f.what = sign.sign /\ f.at = sent
  BY DEF Envelope
<1>5. Other(x) \in Sides /\ Other(x) # x /\ (Other(n) = Other(x) => n = x)
  BY TwoSides
<1> HIDE DEF at, sent, sign, f
<1>6. clock'[n] = sent
  BY <1>3 DEF TypeInv
<1>7. /\ signs'[n][j][n] = sign
      /\ \A k, y \in Sides, i \in Msgs :
            signs'[k][i][y] = signs[k][i][y] \/ (k = n /\ i = j /\ y = n)
  BY <1>3 DEF TypeInv
<1>8. CASE n = x /\ j = m
  <2>1. Flying(x, m)' = Flying(x, m) \cup {f}
    BY <1>3, <1>4, <1>8 DEF Flying
  <2>2. signs'[Other(x)][m][x] = signs[Other(x)][m][x]
    BY <1>5, <1>7, <1>8
  <2> QED
    BY <1>2, <1>4, <1>6, <1>7, <1>8, <2>1, <2>2 DEF Given
<1>9. CASE ~(n = x /\ j = m)
  <2>1. Flying(x, m)' = Flying(x, m)
    BY <1>3, <1>4, <1>5, <1>9 DEF Flying
  <2> QED
    BY <1>5, <1>7, <1>9, <2>1 DEF Quiet
<1> QED
  BY <1>8, <1>9

LEMMA ReceiveSigns ==
    ASSUME TypeInv, NEW f \in net, Receive(f), NEW x \in Sides, NEW m \in Msgs
    PROVE  Quiet(x, m) \/ Came(x, m) \/ Buried(x, m)
<1> DEFINE n == f.to
           j == f.msg
           y == Other(n)
<1>1. n \in Sides /\ j \in Msgs /\ y \in Sides /\ y # n
  BY TwoSides DEF TypeInv, Env
<1>2. Other(x) \in Sides /\ Other(x) # x /\ Other(Other(x)) = x
  BY TwoSides
<1>3. net' = net \ {f}
  BY DEF Receive
<1>4. f \notin Flying(x, m) => Flying(x, m)' = Flying(x, m)
  BY <1>3 DEF Flying
<1>5. f \in Flying(x, m) => /\ Flying(x, m)' = Flying(x, m) \ {f}
                            /\ n = Other(x) /\ j = m /\ y = x
  BY <1>2, <1>3 DEF Flying
<1>6. CASE Refuses(phys[n], f.at)
  <2>1. UNCHANGED signs /\ j \in missed'
    BY <1>6 DEF Receive, InVain, disk
  <2> QED
    BY <1>4, <1>5, <2>1 DEF Quiet, Came
<1>7. CASE f.kind # "sign" /\ UNCHANGED signs
  BY <1>4, <1>7 DEF Quiet, Flying
<1>8. CASE f.kind = "retract" /\ Entombed(n, j)
  BY <1>1, <1>4, <1>8, EntombedSigns DEF Flying
<1>9. CASE f.kind = "sign" /\ OnReaction(n, f)
  <2> DEFINE old == signs[n][j][y]
             sign == IF Here(n, j) /\ Before(old.at, f.at)
                     THEN [sign |-> f.what, at |-> f.at] ELSE old
  <2>1. signs' = [signs EXCEPT ![n][j][y] = sign]
    BY <1>9 DEF OnReaction
  <2>2. Here(n, j) \/ j \in missed'
    BY <1>9 DEF Receive, InVain
  <2>3. \/ sign = old /\ j \in missed'
        \/ Before(old.at, f.at) /\ sign = [sign |-> f.what, at |-> f.at]
        \/ ~Before(old.at, f.at) /\ sign = old
    BY <2>2
  <2> HIDE DEF y, sign, n, j
  <2>4. /\ signs'[n][j][y] = sign
        /\ \A k, z \in Sides, i \in Msgs :
              signs'[k][i][z] = signs[k][i][z] \/ (k = n /\ i = j /\ z = y)
    BY <1>1, <2>1 DEF TypeInv
  <2>5. CASE f \in Flying(x, m)
    <3>1. n = Other(x) /\ j = m /\ y = x /\ Flying(x, m)' = Flying(x, m) \ {f}
      BY <1>5, <2>5
    <3>2. signs'[x][m][x] = signs[x][m][x]
      BY <1>2, <2>4, <3>1
    <3> QED
      BY <2>3, <2>4, <2>5, <3>1, <3>2 DEF Came
  <2>6. CASE f \notin Flying(x, m)
    <3>1. ~(j = m /\ n = Other(x))
      BY <1>9, <2>6 DEF Flying, n, j
    <3>2. /\ signs'[x][m][x] = signs[x][m][x]
          /\ signs'[Other(x)][m][x] = signs[Other(x)][m][x]
      BY <1>1, <1>2, <2>4, <3>1, TwoSides
    <3> QED
      BY <1>4, <2>6, <3>2 DEF Quiet
  <2> QED
    BY <2>5, <2>6
<1> QED
  BY <1>6, <1>7, <1>8, <1>9 DEF Receive, OnText, OnEdit, OnRetract, disk

LEMMA SignStep ==
    ASSUME TypeInv, [ChangesNext]_changesVars, NEW x \in Sides, NEW m \in Msgs
    PROVE  Quiet(x, m) \/ Given(x, m) \/ Came(x, m) \/ Buried(x, m)
<1>1. ASSUME NEW j \in Msgs, Write(j) PROVE Quiet(x, m)
  BY <1>1 DEF Write, Envelope, Quiet, Flying
<1>2. ASSUME NEW j \in Msgs, Edit(j) PROVE Quiet(x, m)
  BY <1>2 DEF Edit, Envelope, Quiet, Flying
<1>3. ASSUME NEW n \in Sides, NEW j \in Msgs, Retract(n, j) PROVE Quiet(x, m) \/ Buried(x, m)
  <2>1. Flying(x, m)' = Flying(x, m)
    BY <1>3 DEF Retract, Envelope, Flying
  <2>2. Entombed(n, j)
    BY <1>3 DEF Retract
  <2> QED
    BY <2>1, <2>2, EntombedSigns
<1>4. ASSUME NEW n \in Sides, NEW j \in Msgs, React(n, j) PROVE Quiet(x, m) \/ Given(x, m)
  BY <1>4, ReactSigns
<1>5. ASSUME NEW f \in net, Receive(f) PROVE Quiet(x, m) \/ Came(x, m) \/ Buried(x, m)
  BY <1>5, ReceiveSigns
<1>6. ASSUME UNCHANGED <<signs, net>> PROVE Quiet(x, m)
  BY <1>6 DEF Quiet, Flying
<1> QED
  BY <1>1, <1>2, <1>3, <1>4, <1>5, <1>6 DEF ChangesNext, Rebirth, StepBack, Tick, disk, changesVars

\* What holds of one side's reactions to one message, of the invariant.
SignOK(x, m) ==
    /\ ~Before(clock[x], signs[Other(x)][m][x].at)
    /\ \A f \in Flying(x, m) : ~Before(clock[x], f.at)
    /\ m \notin missed /\ ~Gone(x, m) /\ ~Gone(Other(x), m) => Newest(x, m)

LEMMA SignTypes ==
    ASSUME TypeInv, NEW x \in Sides, NEW m \in Msgs
    PROVE  /\ clock[x] \in Stamp
           /\ signs[Other(x)][m][x].at \in Stamp
           /\ \A f \in Flying(x, m) : f.at \in Stamp
BY TwoSides DEF TypeInv, Sign, Env, Flying

LEMMA GivenOK ==
    ASSUME TypeInv, TypeInv', NEW x \in Sides, NEW m \in Msgs, SignOK(x, m), Given(x, m)
    PROVE  SignOK(x, m)'
<1> DEFINE theirs == signs[Other(x)][m][x]
<1>1. PICK f \in Flying(x, m)' :
        /\ Flying(x, m)' = Flying(x, m) \cup {f}
        /\ f.what = signs'[x][m][x].sign /\ f.at = clock'[x]
        /\ Before(clock[x], clock'[x])
        /\ signs'[Other(x)][m][x] = theirs
  BY DEF Given
<1>2. clock[x] \in Stamp /\ clock'[x] \in Stamp /\ theirs.at \in Stamp
      /\ \A g \in Flying(x, m) : g.at \in Stamp
  BY SignTypes DEF TypeInv
<1>3. ~Before(clock[x], theirs.at) /\ \A g \in Flying(x, m) : ~Before(clock[x], g.at)
  BY DEF SignOK
<1> HIDE DEF theirs
<1>4. Before(theirs.at, clock'[x]) /\ \A g \in Flying(x, m) : Before(g.at, clock'[x])
  BY <1>1, <1>2, <1>3, StampOrder
<1>5. ~Before(clock'[x], theirs.at) /\ ~Before(clock'[x], clock'[x])
      /\ \A g \in Flying(x, m) : ~Before(clock'[x], g.at)
  BY <1>2, <1>4, StampOrder
<1>6. \A g \in Flying(x, m)' : g = f \/ g \in Flying(x, m)
  BY <1>1
<1>7. Newest(x, m)'
  BY <1>1, <1>4, <1>6 DEF Newest
<1> QED
  BY <1>1, <1>5, <1>6, <1>7 DEF SignOK

LEMMA CameOK ==
    ASSUME TypeInv, TypeInv', NEW x \in Sides, NEW m \in Msgs, SignOK(x, m), Came(x, m),
           Keeps(x, m), ~Before(clock'[x], clock[x])
    PROVE  SignOK(x, m)'
<1> DEFINE theirs == signs[Other(x)][m][x]
           theirs2 == signs'[Other(x)][m][x]
           mine == signs[x][m][x]
<1>1. PICK f \in Flying(x, m) :
        /\ Flying(x, m)' = Flying(x, m) \ {f}
        /\ signs'[x][m][x] = mine
        /\ \/ m \in missed' /\ theirs2 = theirs
           \/ Before(theirs.at, f.at) /\ theirs2 = [sign |-> f.what, at |-> f.at]
           \/ ~Before(theirs.at, f.at) /\ theirs2 = theirs
  BY DEF Came
<1>2. clock[x] \in Stamp /\ clock'[x] \in Stamp /\ theirs.at \in Stamp /\ f.at \in Stamp
      /\ \A g \in Flying(x, m) : g.at \in Stamp
  BY SignTypes DEF TypeInv
<1>3. ~Before(clock[x], theirs.at) /\ \A g \in Flying(x, m) : ~Before(clock[x], g.at)
  BY DEF SignOK
<1>4. theirs2.at \in {theirs.at, f.at}
  BY <1>1
<1> HIDE DEF theirs, theirs2, mine
<1>5. ~Before(clock'[x], theirs.at) /\ \A g \in Flying(x, m) : ~Before(clock'[x], g.at)
  BY <1>2, <1>3, StampOrder
<1>6. ~Before(clock'[x], theirs2.at)
  BY <1>4, <1>5
<1>7. ASSUME m \notin missed', ~Gone(x, m)', ~Gone(Other(x), m)'
      PROVE  \/ /\ theirs2.sign = mine.sign
                /\ \A g \in Flying(x, m) \ {f} : ~Before(theirs2.at, g.at)
             \/ \E h \in Flying(x, m) \ {f} :
                   /\ h.what = mine.sign /\ Before(theirs2.at, h.at)
                   /\ \A g \in Flying(x, m) \ {f} : g = h \/ Before(g.at, h.at)
  <2>1. Newest(x, m)
    BY <1>7 DEF SignOK, Keeps
  <2>2. CASE theirs.sign = mine.sign /\ \A g \in Flying(x, m) : ~Before(theirs.at, g.at)
    BY <1>1, <1>7, <2>2
  <2>3. ASSUME NEW h \in Flying(x, m), h.what = mine.sign, Before(theirs.at, h.at),
               \A g \in Flying(x, m) : g = h \/ Before(g.at, h.at)
        PROVE  \/ /\ theirs2.sign = mine.sign
                  /\ \A g \in Flying(x, m) \ {f} : ~Before(theirs2.at, g.at)
               \/ /\ h \in Flying(x, m) \ {f} /\ Before(theirs2.at, h.at)
    <3>1. CASE h = f
      <4>1. theirs2.sign = mine.sign /\ theirs2.at = f.at
        BY <1>1, <1>7, <2>3, <3>1
      <4>2. \A g \in Flying(x, m) \ {f} : ~Before(f.at, g.at)
        BY <1>2, <2>3, <3>1, StampOrder
      <4> QED
        BY <4>1, <4>2
    <3>2. CASE h # f
      BY <1>4, <2>3, <3>2
    <3> QED
      BY <3>1, <3>2
  <2>4. \/ theirs.sign = mine.sign /\ \A g \in Flying(x, m) : ~Before(theirs.at, g.at)
        \/ \E h \in Flying(x, m) :
              /\ h.what = mine.sign /\ Before(theirs.at, h.at)
              /\ \A g \in Flying(x, m) : g = h \/ Before(g.at, h.at)
    BY <2>1 DEF Newest, theirs, mine
  <2> QED
    BY <2>2, <2>3, <2>4
<1>8. m \notin missed' /\ ~Gone(x, m)' /\ ~Gone(Other(x), m)' => Newest(x, m)'
  BY <1>1, <1>7 DEF Newest, theirs2
<1> QED
  BY <1>1, <1>5, <1>6, <1>8 DEF SignOK, theirs2

LEMMA QuietOK ==
    ASSUME TypeInv, TypeInv', NEW x \in Sides, NEW m \in Msgs, SignOK(x, m),
           Keeps(x, m), ~Before(clock'[x], clock[x]), Quiet(x, m) \/ Buried(x, m)
    PROVE  SignOK(x, m)'
<1> DEFINE theirs == signs[Other(x)][m][x]
           theirs2 == signs'[Other(x)][m][x]
<1>1. clock[x] \in Stamp /\ clock'[x] \in Stamp /\ theirs.at \in Stamp
      /\ \A g \in Flying(x, m) : g.at \in Stamp
  BY SignTypes DEF TypeInv
<1>2. ~Before(clock[x], theirs.at) /\ \A g \in Flying(x, m) : ~Before(clock[x], g.at)
  BY DEF SignOK
<1>3. theirs2 = theirs \/ theirs2 = NoSign
  BY DEF Quiet, Buried
<1>4. Flying(x, m)' = Flying(x, m)
  BY DEF Quiet, Buried
<1>5. ~Before(clock'[x], NoSign.at)
  BY <1>1 DEF NoSign, Zero, Before, Stamp
<1>6. m \notin missed' /\ ~Gone(x, m)' /\ ~Gone(Other(x), m)' => Newest(x, m)'
  <2> SUFFICES ASSUME m \notin missed', ~Gone(x, m)', ~Gone(Other(x), m)'
               PROVE  Newest(x, m)'
    OBVIOUS
  <2>1. Newest(x, m) /\ Quiet(x, m)
    BY DEF SignOK, Keeps, Buried
  <2> QED
    BY <2>1 DEF Newest, Quiet
<1> HIDE DEF theirs, theirs2
<1>7. ~Before(clock'[x], theirs.at) /\ \A g \in Flying(x, m) : ~Before(clock'[x], g.at)
  BY <1>1, <1>2, StampOrder
<1>8. ~Before(clock'[x], theirs2.at)
  BY <1>3, <1>5, <1>7
<1> QED
  BY <1>4, <1>6, <1>7, <1>8 DEF SignOK, theirs2

LEMMA SignNext == TypeInv /\ SignInv /\ [ChangesNext]_changesVars => SignInv'
<1> SUFFICES ASSUME TypeInv, SignInv, [ChangesNext]_changesVars, restarts' = 0,
                    NEW x \in Sides, NEW m \in Msgs
             PROVE  SignOK(x, m)'
  BY DEF SignInv, SignOK
<1>1. SignOK(x, m)
  BY StillUp DEF SignInv, SignOK
<1>2. TypeInv' /\ Keeps(x, m) /\ ~Before(clock'[x], clock[x])
  BY TypeNext, KeepsStep, ClockGrows
<1> QED
  BY <1>1, <1>2, SignStep, QuietOK, GivenOK, CameOK

LEMMA SignInit == ChangesInit => SignInv
<1> SUFFICES ASSUME ChangesInit, NEW x \in Sides, NEW m \in Msgs PROVE SignOK(x, m)
  BY DEF SignInv, SignOK
<1>1. /\ signs[x][m][x] = NoSign /\ signs[Other(x)][m][x] = NoSign
      /\ clock[x] = Zero /\ Flying(x, m) = {}
  BY TwoSides DEF ChangesInit, Flying
<1>2. ~Before(Zero, NoSign.at)
  BY DEF Before, Zero, NoSign
<1> QED
  BY <1>1, <1>2 DEF SignOK, Newest

(***************************************************************************)
(* With nothing on its way both sides show the same reactions, in whatever *)
(* order the envelopes came (on_reaction keeps the newest by its stamp):   *)
(* but for messages of which some change came in vain, or after a restart  *)
(* lost a clock.                                                           *)
(***************************************************************************)
THEOREM SidesAgree == ChangesSpec => []ReactionsAgree
<1>1. SignInv => ReactionsAgree
  <2> SUFFICES ASSUME SignInv, net = {}, restarts = 0, NEW m \in Msgs \ missed,
                      \A n \in Sides : Here(n, m),
                      NEW n \in Sides, NEW o \in Sides, NEW x \in Sides
               PROVE  signs[n][m][x].sign = signs[o][m][x].sign
    BY DEF ReactionsAgree
  <2>1. Flying(x, m) = {} /\ Other(x) \in Sides
    BY TwoSides DEF Flying
  <2>2. ~Gone(x, m) /\ ~Gone(Other(x), m)
    BY <2>1 DEF Gone, Here
  <2>3. Newest(x, m)
    BY <2>2 DEF SignInv
  <2>4. signs[Other(x)][m][x].sign = signs[x][m][x].sign
    BY <2>1, <2>3 DEF Newest
  <2> QED
    BY <2>4, TwoSides
<1> QED
  BY <1>1, TypeInit, TypeNext, SignInit, SignNext, PTL DEF ChangesSpec

-----------------------------------------------------------------------------
(* Files: who is where.                                                    *)

Links == [Senders -> [Receivers -> {"up", "seen", "gone"}]]

LEMMA Places ==
    ASSUME shape \in Shapes, NEW t \in Transfers
    PROVE  From(t) \in Senders /\ To(t) \in Receivers /\ File(t) \in Content
<1>1. shape \in [Transfers -> [from : Senders, to : Receivers, file : Content]]
  BY FilesAssumption
<1> QED
  BY <1>1 DEF From, To, File

\* No file is twice in the queue q.
Once(q) == \A i, j \in DOMAIN q : q[i] = q[j] => i = j

LEMMA QueueEntries ==
    ASSUME NEW q \in Seq(Transfers)
    PROVE  ToSet(q) \subseteq Transfers
BY DEF ToSet

LEMMA NonEmpty ==
    ASSUME NEW q \in Seq(Transfers), NEW p \in Seq(Transfers),
           ToSet(p) \subseteq ToSet(q), p # <<>>
    PROVE  q # <<>>
<1>1. 1 \in DOMAIN p
  OBVIOUS
<1>2. PICK i \in DOMAIN q : q[i] = p[1]
  BY <1>1 DEF ToSet
<1> QED
  BY <1>2

Full(r, n) == Cardinality(OnLane(r, n)) >= Limit

LaneOK(l, r, X) ==
    \A u \in r.lane :
        \/ u \in X
        \/ r.row[u] = "gone"
        \/ r.row[u] = "accepted" /\ (u \in r.timers \/ Road(l, u) = "gone")

QueueOK(r) ==
    \A n \in Receivers :
        /\ Once(r.queued[n])
        /\ \A u \in ToSet(r.queued[n]) : To(u) = n /\ u \notin r.lane
        /\ r.queued[n] # <<>> /\ n \notin r.freed => Full(r, n)

TendedOK(l, r, X) ==
    \A u \in Transfers :
        r.row[u] = "accepted" /\ Road(l, u) = "up" =>
            u \in X \/ u \in r.lane \/ u \in ToSet(r.queued[To(u)])

Good(l, r, X) == r \in Receiving /\ LaneOK(l, r, X) /\ QueueOK(r) /\ TendedOK(l, r, X)

-----------------------------------------------------------------------------
(* One file is moved. *)

\* From r to s only t moves: the others keep their row, lane and place, and
\* a timer they have.
Others(r, s, t) ==
    /\ \A u \in Transfers :
           u # t => /\ s.row[u] = r.row[u]
                    /\ u \in s.lane <=> u \in r.lane
                    /\ u \in r.timers => u \in s.timers
    /\ \A n \in Receivers : n # To(t) => s.queued[n] = r.queued[n]
    /\ r.freed \subseteq s.freed

\* The queue t would wait in, q before and p after.
QueueMoves(q, p, t) ==
    /\ Once(q) => Once(p)
    /\ \A u \in Transfers : u # t => (u \in ToSet(p) <=> u \in ToSet(q))

\* t itself.
Moved(r, s, t) ==
    /\ t \in s.lane => t \notin ToSet(s.queued[To(t)])
    /\ s.queued[To(t)] # <<>> /\ To(t) \notin s.freed =>
           /\ r.queued[To(t)] # <<>> \/ Full(r, To(t))
           /\ t \in r.lane => t \in s.lane

LEMMA FullGrows ==
    ASSUME NEW r, NEW s, NEW n, s.lane \subseteq Transfers, Full(r, n),
           OnLane(r, n) \subseteq OnLane(s, n)
    PROVE  Full(s, n)
<1>1. IsFiniteSet(OnLane(s, n))
  BY FilesAssumption, FS_Subset DEF OnLane
<1>2. /\ IsFiniteSet(OnLane(r, n))
      /\ Cardinality(OnLane(r, n)) <= Cardinality(OnLane(s, n))
  BY <1>1, FS_Subset
<1>3. Cardinality(OnLane(r, n)) \in Nat /\ Cardinality(OnLane(s, n)) \in Nat
  BY <1>1, <1>2, FS_CardinalityType
<1> QED
  BY <1>2, <1>3, FilesAssumption DEF Full

LEMMA MoveGood ==
    ASSUME shape \in Shapes, NEW l, NEW r, NEW s, NEW X, NEW t \in Transfers,
           Good(l, r, X), s \in Receiving, Others(r, s, t), Moved(r, s, t),
           QueueMoves(r.queued[To(t)], s.queued[To(t)], t)
    PROVE  Good(l, s, X \cup {t})
<1> DEFINE n == To(t)
<1>1. n \in Receivers /\ s.lane \subseteq Transfers /\ r.lane \subseteq Transfers
  BY Places DEF Good, Receiving
<1>2. /\ \A u \in Transfers :
             u # t => /\ s.row[u] = r.row[u]
                      /\ u \in s.lane <=> u \in r.lane
                      /\ u \in r.timers => u \in s.timers
      /\ \A m \in Receivers : m # n => s.queued[m] = r.queued[m]
      /\ r.freed \subseteq s.freed
  BY DEF Others
<1>3. /\ t \in s.lane => t \notin ToSet(s.queued[n])
      /\ s.queued[n] # <<>> /\ n \notin s.freed =>
             /\ r.queued[n] # <<>> \/ Full(r, n)
             /\ t \in r.lane => t \in s.lane
  BY DEF Moved
<1>4. \A m \in Receivers : ToSet(s.queued[m]) \subseteq Transfers
  <2>1. \A m \in Receivers : s.queued[m] \in Seq(Transfers)
    BY DEF Receiving
  <2> QED
    BY <2>1, QueueEntries
<1> HIDE DEF n
<1>5. LaneOK(l, s, X \cup {t})
  BY <1>1, <1>2, <1>3 DEF Good, LaneOK
<1>6. TendedOK(l, s, X \cup {t})
  <2> SUFFICES ASSUME NEW u \in Transfers, s.row[u] = "accepted", Road(l, u) = "up", u # t,
                      u \notin X, u \notin s.lane
               PROVE  u \in ToSet(s.queued[To(u)])
    BY DEF TendedOK
  <2>1. u \in ToSet(r.queued[To(u)]) /\ To(u) \in Receivers
    BY <1>2, Places DEF Good, TendedOK
  <2> QED
    BY <1>2, <2>1 DEF n, QueueMoves
<1>7. QueueOK(s)
  <2> SUFFICES ASSUME NEW m \in Receivers
               PROVE  /\ Once(s.queued[m])
                      /\ \A u \in ToSet(s.queued[m]) : To(u) = m /\ u \notin s.lane
                      /\ s.queued[m] # <<>> /\ m \notin s.freed => Full(s, m)
    BY DEF QueueOK
  <2>1. /\ Once(r.queued[m])
        /\ \A u \in ToSet(r.queued[m]) : To(u) = m /\ u \notin r.lane
        /\ r.queued[m] # <<>> /\ m \notin r.freed => Full(r, m)
    BY DEF Good, QueueOK
  <2>2. Once(s.queued[m])
    BY <1>2, <2>1 DEF QueueMoves, n
  <2>3. ASSUME NEW u \in ToSet(s.queued[m])
        PROVE  To(u) = m /\ u \notin s.lane
    <3>1. u \in Transfers
      BY <1>4, <2>3
    <3>2. CASE u = t
      <4>1. m = n
        <5>1. m # n => u \in ToSet(r.queued[m])
          BY <1>2, <2>3
        <5> QED
          BY <2>1, <3>2, <5>1 DEF n
      <4> QED
        BY <1>3, <2>3, <3>2, <4>1 DEF n
    <3>3. CASE u # t
      <4>1. u \in ToSet(r.queued[m])
        BY <1>2, <2>3, <3>1, <3>3 DEF QueueMoves, n
      <4> QED
        BY <1>2, <2>1, <3>1, <3>3, <4>1
    <3> QED
      BY <3>2, <3>3
  <2>4. ASSUME s.queued[m] # <<>>, m \notin s.freed
        PROVE  Full(s, m)
    <3>1. Full(r, m)
      <4>1. m \notin r.freed
        BY <1>2, <2>4
      <4>2. CASE m = n
        BY <1>3, <2>1, <2>4, <4>1, <4>2
      <4>3. CASE m # n
        BY <1>2, <2>1, <2>4, <4>1, <4>3
      <4> QED
        BY <4>2, <4>3
    <3>2. OnLane(r, m) \subseteq OnLane(s, m)
      <4> SUFFICES ASSUME NEW u \in r.lane, To(u) = m
                   PROVE  u \in s.lane
        BY DEF OnLane
      <4>1. CASE u = t
        BY <1>3, <2>4, <4>1 DEF n
      <4>2. CASE u # t
        BY <1>1, <1>2, <4>2
      <4> QED
        BY <4>1, <4>2
    <3> QED
      BY <1>1, <3>1, <3>2, FullGrows
  <2> QED
    BY <2>2, <2>3, <2>4
<1> QED
  BY <1>5, <1>6, <1>7 DEF Good

\* t is out of hand: it has a place, and a timer if it is on a lane.
LEMMA Handed ==
    ASSUME NEW l, NEW s, NEW X, NEW t, Good(l, s, X \cup {t}),
           t \in s.lane =>
               \/ s.row[t] = "gone"
               \/ s.row[t] = "accepted" /\ (t \in s.timers \/ Road(l, t) = "gone"),
           s.row[t] = "accepted" /\ Road(l, t) = "up" =>
               t \in s.lane \/ t \in ToSet(s.queued[To(t)])
    PROVE  Good(l, s, X \ {t})
BY DEF Good, LaneOK, TendedOK

-----------------------------------------------------------------------------
(* What a handler does for one file. *)

\* Row, marks, tries and timer of t change, and what is asked for.
LEMMA NotedGood ==
    ASSUME shape \in Shapes, NEW l, NEW r, NEW s, NEW X, NEW t \in Transfers,
           Good(l, r, X), s \in Receiving,
           s.queued = r.queued, s.lane = r.lane, s.freed = r.freed,
           \A u \in Transfers : u # t => /\ s.row[u] = r.row[u]
                                         /\ u \in r.timers => u \in s.timers
    PROVE  Good(l, s, X \cup {t})
<1>1. To(t) \in Receivers
  BY Places
<1>2. Others(r, s, t)
  BY DEF Others
<1>3. Moved(r, s, t)
  <2>1. t \in r.lane => t \notin ToSet(r.queued[To(t)])
    BY <1>1 DEF Good, QueueOK
  <2>2. r.queued[To(t)] # <<>> /\ To(t) \notin r.freed => r.queued[To(t)] # <<>>
    OBVIOUS
  <2> QED
    BY <2>1, <2>2 DEF Moved
<1>4. QueueMoves(r.queued[To(t)], s.queued[To(t)], t)
  BY DEF QueueMoves
<1> QED
  BY <1>2, <1>3, <1>4, MoveGood

\* Leave, as one record
OffLane(r, t) ==
    [r EXCEPT !.lane = r.lane \ {t},
              !.freed = IF t \in r.lane THEN r.freed \cup {To(t)} ELSE r.freed]

LEMMA LeaveGood ==
    ASSUME shape \in Shapes, NEW l, NEW r, NEW X, NEW t \in Transfers, Good(l, r, X)
    PROVE  /\ Good(l, Leave(r, t), X \cup {t})
           /\ Leave(r, t) = OffLane(r, t)
<1>1. PICK s : s = Leave(r, t)
  OBVIOUS
<1>2. r \in Receiving /\ To(t) \in Receivers
  BY Places DEF Good
<1>3. PICK lane : lane = r.lane \ {t}
  OBVIOUS
<1>4. PICK freed : freed = IF t \in r.lane THEN r.freed \cup {To(t)} ELSE r.freed
  OBVIOUS
<1>5. lane \in SUBSET Transfers /\ freed \in SUBSET Receivers
  BY <1>2, <1>3, <1>4 DEF Receiving
<1>6. s = [r EXCEPT !.lane = lane, !.freed = freed]
  <2>1. CASE t \in r.lane
    BY <1>1, <1>3, <1>4, <2>1 DEF Leave
  <2>2. CASE t \notin r.lane
    <3>1. lane = r.lane /\ freed = r.freed
      BY <1>3, <1>4, <2>2
    <3> QED
      BY <1>1, <1>2, <2>2, <3>1 DEF Leave, Receiving
  <2> QED
    BY <2>1, <2>2
<1>7. /\ s \in Receiving /\ s.row = r.row /\ s.queued = r.queued /\ s.timers = r.timers
      /\ s.lane = lane /\ s.freed = freed
  BY <1>2, <1>5, <1>6 DEF Receiving
<1>8. Others(r, s, t)
  BY <1>3, <1>4, <1>7 DEF Others
<1>9. Moved(r, s, t)
  BY <1>3, <1>4, <1>7 DEF Moved
<1>10. QueueMoves(r.queued[To(t)], s.queued[To(t)], t)
  BY <1>7 DEF QueueMoves
<1>11. Good(l, s, X \cup {t})
  BY <1>7, <1>8, <1>9, <1>10, MoveGood
<1> QED
  BY <1>1, <1>3, <1>4, <1>6, <1>11 DEF OffLane

LEMMA OnceApart ==
    ASSUME NEW q, NEW p, Once(q), FromApart(q, p)
    PROVE  Once(p)
BY DEF Once, FromApart

\* s is r without t in its queue.
Dequeued(r, s, t) ==
    \E q \in Seq(Transfers) :
        /\ s = [r EXCEPT !.queued[To(t)] = q]
        /\ ToSet(q) = ToSet(r.queued[To(t)]) \ {t}
        /\ q # <<>> => r.queued[To(t)] # <<>>

LEMMA UnqueuedGood ==
    ASSUME shape \in Shapes, NEW l, NEW r, NEW X, NEW t \in Transfers, Good(l, r, X)
    PROVE  /\ Good(l, Unqueued(r, t), X \cup {t})
           /\ Dequeued(r, Unqueued(r, t), t)
<1>1. PICK n : n = To(t)
  OBVIOUS
<1>2. r \in Receiving /\ n \in Receivers
  BY <1>1, Places DEF Good
<1>3. PICK q : q = r.queued[n]
  OBVIOUS
<1>4. q \in Seq(Transfers)
  BY <1>2, <1>3 DEF Receiving
<1>5. PICK p : p = Those(q, Transfers \ {t})
  OBVIOUS
<1>6. p \in Seq(Transfers) /\ ToSet(p) = ToSet(q) \cap (Transfers \ {t})
  BY <1>4, <1>5, ThoseFacts
<1>7. FromApart(q, p)
  BY <1>4, <1>5, ThoseApart
<1>8. ToSet(p) = ToSet(q) \ {t}
  BY <1>4, <1>6, QueueEntries
<1>9. p # <<>> => q # <<>>
  BY <1>4, <1>6, NonEmpty
<1>10. PICK s : s = [r EXCEPT !.queued[n] = p]
  OBVIOUS
<1>11. s = Unqueued(r, t)
  BY <1>1, <1>3, <1>5, <1>10 DEF Unqueued
<1>12. /\ s \in Receiving /\ s.row = r.row /\ s.timers = r.timers /\ s.lane = r.lane
       /\ s.freed = r.freed /\ s.queued = [r.queued EXCEPT ![n] = p]
  BY <1>2, <1>6, <1>10 DEF Receiving
<1>13. s.queued[n] = p /\ \A m \in Receivers : m # n => s.queued[m] = r.queued[m]
  BY <1>2, <1>12 DEF Receiving
<1>14. Others(r, s, t)
  BY <1>1, <1>12, <1>13 DEF Others
<1>15. Moved(r, s, t)
  <2> QED
    BY <1>1, <1>3, <1>8, <1>9, <1>12, <1>13 DEF Moved
<1>16. QueueMoves(r.queued[To(t)], s.queued[To(t)], t)
  <2>1. Once(q) => Once(p)
    BY <1>7, OnceApart
  <2> QED
    BY <1>1, <1>3, <1>8, <1>13, <2>1 DEF QueueMoves
<1>17. Good(l, s, X \cup {t})
  BY <1>12, <1>14, <1>15, <1>16, MoveGood
<1> QED
  BY <1>1, <1>3, <1>6, <1>8, <1>9, <1>10, <1>11, <1>17 DEF Dequeued

\* What is left of a file that is not wanted any more: nothing in memory.
OutOfMind(r, s, t) ==
    /\ s.row = r.row /\ s.noted = r.noted /\ s.half = r.half /\ s.lane = r.lane \ {t}
    /\ s.freed = IF t \in r.lane THEN r.freed \cup {To(t)} ELSE r.freed

LEMMA SettledGood ==
    ASSUME shape \in Shapes, NEW l, NEW r, NEW X, NEW t \in Transfers,
           Good(l, r, X \cup {t}), r.row[t] # "accepted"
    PROVE  Good(l, Settled(r, t), X \ {t}) /\ OutOfMind(r, Settled(r, t), t)
<1>1. PICK Y : Y = X \cup {t}
  OBVIOUS
<1>2. Y = Y \cup {t} /\ r \in Receiving
  BY <1>1 DEF Good
<1>3. PICK a : a = [r EXCEPT !.timers = @ \ {t}, !.tries[t] = 0]
  OBVIOUS
<1> DEFINE timers == r.timers \ {t}
           tries == [r.tries EXCEPT ![t] = 0]
<1>19. timers \in SUBSET Transfers /\ tries \in [Transfers -> 0..Patience]
  <2>1. 0 \in 0..Patience
    BY FilesAssumption
  <2> QED
    BY <1>2, <2>1 DEF Receiving
<1>20. a = [r EXCEPT !.timers = timers, !.tries = tries]
  BY <1>3
<1> HIDE DEF timers, tries
<1>4. /\ a \in Receiving /\ a.row = r.row /\ a.noted = r.noted /\ a.half = r.half /\ a.lane = r.lane
      /\ a.queued = r.queued /\ a.freed = r.freed /\ a.timers = timers
  BY <1>2, <1>19, <1>20 DEF Receiving
<1>5. Good(l, a, Y \cup {t})
  <2>1. \A u \in Transfers : u # t => a.row[u] = r.row[u] /\ (u \in r.timers => u \in a.timers)
    BY <1>4 DEF timers
  <2> QED
    BY <1>1, <1>4, <2>1, NotedGood
<1>6. Good(l, a, Y)
  BY <1>2, <1>5
<1>7. PICK b : b = Unqueued(a, t)
  OBVIOUS
<1>8. Good(l, b, Y \cup {t}) /\ Dequeued(a, b, t)
  BY <1>6, <1>7, UnqueuedGood
<1>9. PICK q \in Seq(Transfers) : b = [a EXCEPT !.queued[To(t)] = q]
  BY <1>8 DEF Dequeued
<1>10. Good(l, b, Y)
  BY <1>2, <1>8
<1>11. b.row = a.row /\ b.noted = a.noted /\ b.half = a.half /\ b.lane = a.lane /\ b.freed = a.freed
  BY <1>4, <1>9 DEF Receiving
<1>12. PICK c : c = Leave(b, t)
  OBVIOUS
<1>13. Good(l, c, Y \cup {t}) /\ c = OffLane(b, t)
  BY <1>10, <1>12, LeaveGood
<1>14. b \in Receiving
  BY <1>10 DEF Good
<1>15. /\ c.row = r.row /\ c.noted = r.noted /\ c.half = r.half /\ c.lane = r.lane \ {t}
       /\ c.freed = IF t \in r.lane THEN r.freed \cup {To(t)} ELSE r.freed
  BY <1>4, <1>11, <1>13, <1>14 DEF Receiving, OffLane
<1>16. Good(l, c, X \cup {t})
  BY <1>1, <1>2, <1>13
<1>17. Good(l, c, X \ {t})
  BY <1>15, <1>16, Handed
<1>18. c = Settled(r, t)
  BY <1>3, <1>7, <1>12 DEF Settled
<1> QED
  BY <1>15, <1>17, <1>18 DEF OutOfMind

\* s is r with t in its queue.
Queued(r, s, t) ==
    /\ t \in ToSet(s.queued[To(t)])
    /\ \E q \in Seq(Transfers) : s = [r EXCEPT !.queued[To(t)] = q]

LEMMA EnqueueGood ==
    ASSUME shape \in Shapes, NEW l, NEW r, NEW X, NEW t \in Transfers, Good(l, r, X),
           t \notin r.lane, Full(r, To(t)) \/ To(t) \in r.freed
    PROVE  Good(l, Enqueue(r, t), X \cup {t}) /\ Queued(r, Enqueue(r, t), t)
<1>1. PICK n : n = To(t)
  OBVIOUS
<1>2. r \in Receiving /\ n \in Receivers
  BY <1>1, Places DEF Good
<1>3. PICK q : q = r.queued[n]
  OBVIOUS
<1>4. q \in Seq(Transfers)
  BY <1>2, <1>3 DEF Receiving
<1>5. PICK s : s = Enqueue(r, t)
  OBVIOUS
<1>6. CASE t \in ToSet(q)
  <2>1. s = r
    BY <1>1, <1>3, <1>5, <1>6 DEF Enqueue
  <2>2. Good(l, r, X \cup {t})
    BY DEF Good, LaneOK, TendedOK
  <2>3. r = [r EXCEPT !.queued[n] = q]
    BY <1>2, <1>3 DEF Receiving
  <2> QED
    BY <1>1, <1>3, <1>4, <1>5, <1>6, <2>1, <2>2, <2>3 DEF Queued
<1>7. CASE t \notin ToSet(q)
  <2>1. PICK p : p = Append(q, t)
    OBVIOUS
  <2>2. /\ p \in Seq(Transfers) /\ Len(q) \in Nat
        /\ DOMAIN q = 1..Len(q) /\ DOMAIN p = 1..(Len(q) + 1) /\ p[Len(q) + 1] = t
        /\ \A i \in 1..Len(q) : p[i] = q[i]
        /\ ToSet(p) = ToSet(q) \cup {t}
    BY <1>4, <2>1, OneMore
  <2>3. s = [r EXCEPT !.queued[n] = p]
    BY <1>1, <1>3, <1>5, <1>7, <2>1 DEF Enqueue
  <2>4. /\ s \in Receiving /\ s.row = r.row /\ s.timers = r.timers /\ s.lane = r.lane
        /\ s.freed = r.freed /\ s.queued = [r.queued EXCEPT ![n] = p]
    BY <1>2, <2>2, <2>3 DEF Receiving
  <2>5. s.queued[n] = p /\ \A m \in Receivers : m # n => s.queued[m] = r.queued[m]
    BY <1>2, <2>4 DEF Receiving
  <2>6. Others(r, s, t)
    BY <1>1, <2>4, <2>5 DEF Others
  <2>7. Moved(r, s, t)
    BY <1>1, <2>4 DEF Moved
  <2>8. Once(q) => Once(p)
    <3> SUFFICES ASSUME Once(q), NEW i \in DOMAIN p, NEW j \in DOMAIN p, p[i] = p[j]
                 PROVE  i = j
      BY DEF Once
    <3>1. \A k \in 1..Len(q) : q[k] # t
      BY <1>7, <2>2 DEF ToSet
    <3>2. \A k \in DOMAIN p : k \in 1..Len(q) \/ k = Len(q) + 1
      BY <2>2
    <3>3. i \in 1..Len(q) <=> j \in 1..Len(q)
      BY <2>2, <3>1, <3>2
    <3>4. CASE i \in 1..Len(q)
      BY <2>2, <3>3, <3>4 DEF Once
    <3>5. CASE i \notin 1..Len(q)
      BY <3>2, <3>3, <3>5
    <3> QED
      BY <3>4, <3>5
  <2>9. QueueMoves(r.queued[To(t)], s.queued[To(t)], t)
    BY <1>1, <1>3, <2>2, <2>5, <2>8 DEF QueueMoves
  <2>10. Good(l, s, X \cup {t})
    BY <2>4, <2>6, <2>7, <2>9, MoveGood
  <2> QED
    BY <1>1, <1>5, <2>2, <2>3, <2>5, <2>10 DEF Queued
<1> QED
  BY <1>6, <1>7

\* Some timers are set anew.
OnlyTimers(r, s) == \E T \in SUBSET Transfers : s = [r EXCEPT !.timers = T]

LEMMA HurriedGood ==
    ASSUME NEW l, NEW r, NEW X, NEW n, Good(l, r, X)
    PROVE  Good(l, Hurried(r, n), X) /\ OnlyTimers(r, Hurried(r, n))
<1>1. r \in Receiving
  BY DEF Good
<1>2. PICK T : T = r.timers \cup {u \in OnLane(r, n) : r.tries[u] > 0}
  OBVIOUS
<1>3. T \in SUBSET Transfers /\ r.timers \subseteq T
  BY <1>1, <1>2 DEF Receiving, OnLane
<1>4. PICK s : s = Hurried(r, n)
  OBVIOUS
<1>5. s = [r EXCEPT !.timers = T]
  BY <1>2, <1>4 DEF Hurried
<1>6. /\ s \in Receiving /\ s.row = r.row /\ s.timers = T /\ s.lane = r.lane
      /\ s.freed = r.freed /\ s.queued = r.queued
  BY <1>1, <1>3, <1>5 DEF Receiving
<1>7. LaneOK(l, s, X) /\ TendedOK(l, s, X)
  BY <1>3, <1>6 DEF Good, LaneOK, TendedOK
<1>8. \A m : OnLane(s, m) = OnLane(r, m)
  BY <1>6 DEF OnLane
<1>9. QueueOK(s)
  BY <1>6, <1>8 DEF Good, QueueOK, Full
<1> QED
  BY <1>3, <1>4, <1>5, <1>6, <1>7, <1>9 DEF Good, OnlyTimers

LEMMA NextIsMissing ==
    ASSUME NEW r \in Receiving, NEW t \in Transfers, r.noted[t] # Index
    PROVE  NextMissing(r, t) \in Index
<1>1. PICK S : S = Index \ r.noted[t]
  OBVIOUS
<1>2. Index \subseteq Nat
  BY FilesAssumption DEF Index
<1>3. S \in SUBSET Nat /\ \E k : k \in S
  BY <1>1, <1>2 DEF Receiving
<1>4. \E j \in S : \A i \in S : j <= i
  BY <1>3, Least
<1>5. (CHOOSE i \in S : \A j \in S : i <= j) \in S
  BY <1>4
<1> QED
  BY <1>1, <1>5 DEF NextMissing

-----------------------------------------------------------------------------
(* Asking for a file. *)

\* What asking for t changes, besides what Good says.
Asked(r, s, t) ==
    /\ s.noted = r.noted /\ s.half = r.half
    /\ s.row[t] = "complete" => r.row[t] = "complete" \/ s.noted[t] = Index
    /\ \A u \in Transfers : u # t => s.row[u] = r.row[u]
    /\ s.lane \subseteq r.lane \cup {t}
    /\ s.freed = r.freed \/ (t \in r.lane /\ s.freed = r.freed \cup {To(t)})

LEMMA AskedSame ==
    ASSUME NEW r, NEW t
    PROVE  Asked(r, r, t)
BY DEF Asked

\* finish_file
LEMMA FinishGood ==
    ASSUME shape \in Shapes, NEW l, NEW r, NEW X, NEW t \in Transfers, Good(l, r, X),
           r.noted[t] = Index
    PROVE  Good(l, Finish(r, t), X \ {t}) /\ Asked(r, Finish(r, t), t)
<1>1. PICK a : a = [r EXCEPT !.row[t] = "complete"]
  OBVIOUS
<1> DEFINE row == [r.row EXCEPT ![t] = "complete"]
<1>2. r \in Receiving /\ a = [r EXCEPT !.row = row]
  BY <1>1 DEF Good
<1>3. row \in [Transfers -> Rows] /\ row[t] = "complete" /\ \A u \in Transfers : u # t => row[u] = r.row[u]
  BY <1>2 DEF Receiving, Rows
<1> HIDE DEF row
<1>4. /\ a \in Receiving /\ a.row = row /\ a.noted = r.noted /\ a.half = r.half /\ a.lane = r.lane
      /\ a.queued = r.queued /\ a.freed = r.freed /\ a.timers = r.timers
  BY <1>2, <1>3 DEF Receiving
<1>5. \A u \in Transfers : u # t => a.row[u] = r.row[u] /\ (u \in r.timers => u \in a.timers)
  BY <1>3, <1>4
<1>6. Good(l, a, X \cup {t})
  BY <1>4, <1>5, NotedGood
<1>7. a.row[t] # "accepted"
  BY <1>3, <1>4
<1>8. PICK s : s = Settled(a, t)
  OBVIOUS
<1>9. Good(l, s, X \ {t}) /\ OutOfMind(a, s, t)
  BY <1>6, <1>7, <1>8, SettledGood
<1>10. Asked(r, s, t)
  BY <1>3, <1>4, <1>9 DEF Asked, OutOfMind
<1>11. s = Finish(r, t)
  BY <1>1, <1>8 DEF Finish
<1> QED
  BY <1>9, <1>10, <1>11

\* The request goes out.
Request(r, t, stalled) ==
    [Unqueued(r, t) EXCEPT
        !.asks = @ \cup {[t |-> t, next |-> NextMissing(r, t), stalled |-> stalled]},
        !.lane = @ \cup {t},
        !.timers = @ \cup {t}]

LEMMA RequestGood ==
    ASSUME shape \in Shapes, NEW l, NEW r, NEW X, NEW t \in Transfers, Good(l, r, X),
           r.noted[t] # Index, r.row[t] = "accepted", NEW stalled \in BOOLEAN
    PROVE  Good(l, Request(r, t, stalled), X \ {t}) /\ Asked(r, Request(r, t, stalled), t)
<1>1. r \in Receiving
  BY DEF Good
<1>2. PICK i \in Index : i = NextMissing(r, t)
  BY <1>1, NextIsMissing
<1>3. PICK b : b = Unqueued(r, t)
  OBVIOUS
<1>4. Good(l, b, X \cup {t}) /\ Dequeued(r, b, t)
  BY <1>3, UnqueuedGood
<1>5. PICK q \in Seq(Transfers) :
          b = [r EXCEPT !.queued[To(t)] = q] /\ ToSet(q) = ToSet(r.queued[To(t)]) \ {t}
  BY <1>4 DEF Dequeued
<1>6. To(t) \in Receivers /\ b \in Receiving
  BY <1>4, Places DEF Good
<1>7. /\ b.row = r.row /\ b.noted = r.noted /\ b.half = r.half /\ b.lane = r.lane /\ b.freed = r.freed
      /\ b.asks = r.asks /\ b.timers = r.timers /\ b.queued[To(t)] = q
  BY <1>1, <1>5, <1>6 DEF Receiving
<1>8. PICK asks : asks = b.asks \cup {[t |-> t, next |-> i, stalled |-> stalled]}
  OBVIOUS
<1>9. PICK lane : lane = b.lane \cup {t}
  OBVIOUS
<1>10. PICK timers : timers = b.timers \cup {t}
  OBVIOUS
<1>11. /\ asks \in SUBSET [t : Transfers, next : Index, stalled : BOOLEAN]
       /\ lane \in SUBSET Transfers /\ timers \in SUBSET Transfers
  <2>1. [t |-> t, next |-> i, stalled |-> stalled]
            \in [t : Transfers, next : Index, stalled : BOOLEAN]
    OBVIOUS
  <2>2. /\ b.asks \in SUBSET [t : Transfers, next : Index, stalled : BOOLEAN]
        /\ b.lane \in SUBSET Transfers /\ b.timers \in SUBSET Transfers
    BY <1>6 DEF Receiving
  <2> QED
    BY <1>8, <1>9, <1>10, <2>1, <2>2
<1>12. PICK s : s = [b EXCEPT !.asks = asks, !.lane = lane, !.timers = timers]
  OBVIOUS
<1>13. s = Request(r, t, stalled)
  BY <1>2, <1>3, <1>8, <1>9, <1>10, <1>12 DEF Request
<1>14. /\ s \in Receiving /\ s.row = r.row /\ s.noted = r.noted /\ s.half = r.half /\ s.queued = b.queued
       /\ s.freed = r.freed /\ s.lane = lane /\ s.timers = timers
  BY <1>6, <1>7, <1>11, <1>12 DEF Receiving
<1>15. Others(b, s, t)
  BY <1>7, <1>9, <1>10, <1>14 DEF Others
<1>16. Moved(b, s, t)
  BY <1>5, <1>7, <1>9, <1>14 DEF Moved
<1>17. QueueMoves(b.queued[To(t)], s.queued[To(t)], t)
  BY <1>14 DEF QueueMoves
<1>18. PICK Y : Y = X \cup {t}
  OBVIOUS
<1>19. Y \cup {t} = Y
  BY <1>18
<1>20. Good(l, b, Y)
  BY <1>4, <1>18
<1>21. Good(l, s, Y \cup {t})
  BY <1>14, <1>15, <1>16, <1>17, <1>20, MoveGood
<1>22. Good(l, s, X \cup {t})
  BY <1>18, <1>19, <1>21
<1>23. t \in s.lane /\ t \in s.timers /\ s.row[t] = "accepted"
  BY <1>9, <1>10, <1>14
<1>24. Good(l, s, X \ {t})
  BY <1>22, <1>23, Handed
<1>25. Asked(r, s, t)
  BY <1>7, <1>9, <1>14 DEF Asked
<1> QED
  BY <1>13, <1>24, <1>25

LEMMA AskGood ==
    ASSUME shape \in Shapes, NEW l \in Links, NEW r, NEW X, NEW t \in Transfers,
           Good(l, r, X), r.row[t] = "accepted", NEW stalled \in BOOLEAN
    PROVE  Good(l, Ask(l, r, t, stalled), X \ {t}) /\ Asked(r, Ask(l, r, t, stalled), t)
<1>1. PICK s : s = Ask(l, r, t, stalled)
  OBVIOUS
<1>2. r \in Receiving /\ From(t) \in Senders /\ To(t) \in Receivers
  BY Places DEF Good
<1>3. Road(l, t) \in {"up", "seen", "gone"}
  BY <1>2 DEF Links, Road
<1>4. Good(l, r, X \cup {t})
  BY DEF Good, LaneOK, TendedOK
<1>5. CASE Road(l, t) = "gone"
  <2>1. s = r
    BY <1>1, <1>5 DEF Ask
  <2>2. Good(l, r, X \ {t})
    BY <1>4, <1>5, Handed
  <2> QED
    BY <1>1, <2>1, <2>2, AskedSame
<1>6. CASE Road(l, t) # "gone" /\ r.noted[t] = Index
  <2>1. s = Finish(r, t)
    BY <1>1, <1>6 DEF Ask
  <2> QED
    BY <1>1, <1>6, <2>1, FinishGood
<1>7. CASE Road(l, t) = "seen" /\ r.noted[t] # Index
  <2>1. s = Leave(r, t)
    BY <1>1, <1>7 DEF Ask
  <2>2. Good(l, s, X \cup {t}) /\ s = OffLane(r, t)
    BY <2>1, LeaveGood
  <2>3. /\ s.lane = r.lane \ {t} /\ s.row = r.row /\ s.noted = r.noted /\ s.half = r.half
        /\ s.freed = IF t \in r.lane THEN r.freed \cup {To(t)} ELSE r.freed
    BY <1>2, <2>2 DEF OffLane, Receiving
  <2>4. Good(l, s, X \ {t})
    BY <1>7, <2>2, <2>3, Handed
  <2>5. Asked(r, s, t)
    BY <2>3 DEF Asked
  <2> QED
    BY <1>1, <2>4, <2>5
<1>8. CASE Road(l, t) = "up" /\ r.noted[t] # Index /\ ~HasRoom(r, t)
  <2>1. t \notin r.lane /\ Full(r, To(t))
    <3>1. IsFiniteSet(OnLane(r, To(t)))
      <4>1. OnLane(r, To(t)) \subseteq Transfers
        BY <1>2 DEF OnLane, Receiving
      <4> QED
        BY <4>1, FilesAssumption, FS_Subset
    <3>2. Cardinality(OnLane(r, To(t))) \in Nat
      BY <3>1, FS_CardinalityType
    <3> QED
      BY <1>8, <3>2, FilesAssumption DEF HasRoom, Full
  <2>2. CASE t \in ToSet(r.queued[To(t)])
    <3>1. s = r
      BY <1>1, <1>8, <2>2 DEF Ask
    <3>2. Good(l, r, X \ {t})
      BY <1>4, <2>1, <2>2, Handed
    <3> QED
      BY <1>1, <3>1, <3>2, AskedSame
  <2>3. CASE t \notin ToSet(r.queued[To(t)])
    <3>1. PICK a : a = Enqueue(r, t)
      OBVIOUS
    <3>2. s = Hurried(a, To(t))
      BY <1>1, <1>8, <2>3, <3>1 DEF Ask
    <3>3. Good(l, a, X \cup {t}) /\ Queued(r, a, t)
      BY <2>1, <3>1, EnqueueGood
    <3>4. /\ a \in Receiving /\ a.row = r.row /\ a.noted = r.noted /\ a.half = r.half /\ a.lane = r.lane
          /\ a.freed = r.freed
      BY <1>2, <3>3 DEF Good, Receiving, Queued
    <3>5. Good(l, s, X \cup {t}) /\ OnlyTimers(a, s)
      BY <3>2, <3>3, HurriedGood
    <3>6. /\ s.row = r.row /\ s.noted = r.noted /\ s.half = r.half /\ s.lane = r.lane /\ s.freed = r.freed
          /\ s.queued = a.queued
      BY <3>4, <3>5 DEF Receiving, OnlyTimers
    <3>7. Good(l, s, X \ {t})
      BY <2>1, <3>3, <3>5, <3>6, Handed DEF Queued
    <3>8. Asked(r, s, t)
      BY <3>6 DEF Asked
    <3> QED
      BY <1>1, <3>7, <3>8
  <2> QED
    BY <2>2, <2>3
<1>9. CASE Road(l, t) = "up" /\ r.noted[t] # Index /\ HasRoom(r, t)
  <2>1. s = Request(r, t, stalled)
    BY <1>1, <1>9 DEF Ask, Request
  <2> QED
    BY <1>1, <1>9, <2>1, RequestGood
<1> QED
  BY <1>3, <1>5, <1>6, <1>7, <1>8, <1>9


-----------------------------------------------------------------------------
(* Asking for one file after the other: under a name of its own, for no     *)
(* prover takes AskAgain itself.                                            *)

AskedAgain(e, q, l) == InTurn(AskAgain, e, q, l)

\* f[i] is what is left after the first i of q.
AskTurns(f, e, q, l) ==
    /\ f[0] = e /\ f[Len(q)] = AskedAgain(e, q, l)
    /\ \A i \in 1..Len(q) : f[i] = AskAgain(f[i - 1], q[i], l)

LEMMA AskTurnSteps ==
    ASSUME NEW e, NEW X, NEW q \in Seq(X), NEW l
    PROVE  \E f : AskTurns(f, e, q, l)
<1> DEFINE Is(h, k) ==
               h = [i \in 0..k |-> IF i = 0 THEN e ELSE AskAgain(h[i - 1], q[i], l)]
           done == {k \in Nat : \E h : Is(h, k)}
<1>1. 0 \in done
  <2>1. Is([i \in 0..0 |-> e], 0)
    OBVIOUS
  <2> QED
    BY <2>1
<1>2. ASSUME NEW k \in 1..Len(q), k - 1 \in done
      PROVE  k \in done
  <2>1. PICK h : Is(h, k - 1)
    BY <1>2
  <2>2. PICK g : g = [i \in 0..k |-> IF i = k THEN AskAgain(h[k - 1], q[k], l) ELSE h[i]]
    OBVIOUS
  <2>3. \A i \in 0..(k - 1) : h[i] = IF i = 0 THEN e ELSE AskAgain(h[i - 1], q[i], l)
    BY <2>1
  <2> HIDE DEF Is
  <2>4. \A i \in 0..k : g[i] = IF i = k THEN AskAgain(h[k - 1], q[k], l) ELSE h[i]
    BY <2>2
  <2>5. k \in Nat /\ k > 0
    OBVIOUS
  <2>6. \A i \in 0..(k - 1) : i \in 0..k /\ i # k
    BY <2>5
  <2>7. g[k] = AskAgain(g[k - 1], q[k], l) /\ \A i \in 0..(k - 1) : g[i] = h[i]
    BY <2>4, <2>5, <2>6
  <2>8. \A i \in 0..k : g[i] = IF i = 0 THEN e ELSE AskAgain(g[i - 1], q[i], l)
    BY <2>3, <2>7
  <2>9. Is(g, k)
    BY <2>2, <2>8 DEF Is
  <2> QED
    BY <2>9
<1> HIDE DEF done
<1>3. Len(q) \in Nat /\ done \in SUBSET Nat
  BY DEF done
<1>4. \A k \in 0..Len(q) : k \in done
  BY <1>1, <1>2, <1>3, Induct
<1>5. \E h : Is(h, Len(q))
  BY <1>3, <1>4 DEF done
<1> DEFINE f == CHOOSE h : Is(h, Len(q))
<1>6. Is(f, Len(q))
  BY <1>5
<1>7. f[Len(q)] = AskedAgain(e, q, l)
  BY DEF AskedAgain, InTurn
<1> HIDE DEF f
<1>8. f = [i \in 0..Len(q) |-> IF i = 0 THEN e ELSE AskAgain(f[i - 1], q[i], l)]
  BY <1>6
<1> HIDE DEF Is
<1>9. \A i \in 0..Len(q) : f[i] = IF i = 0 THEN e ELSE AskAgain(f[i - 1], q[i], l)
  BY <1>8
<1>10. 0 \in 0..Len(q) /\ \A i \in 1..Len(q) : i \in 0..Len(q) /\ i # 0
  BY <1>3
<1>11. f[0] = e /\ \A i \in 1..Len(q) : f[i] = AskAgain(f[i - 1], q[i], l)
  BY <1>9, <1>10
<1> QED
  BY <1>7, <1>11 DEF AskTurns

\* Marks stay, and a file becomes complete with its last chunk only.
Kept(r, s) ==
    /\ s.noted = r.noted /\ s.half = r.half
    /\ \A u \in Transfers :
           s.row[u] = "complete" => r.row[u] = "complete" \/ s.noted[u] = Index

LEMMA KeptOn ==
    ASSUME NEW r, NEW s, NEW t, Kept(r, s), Kept(s, t)
    PROVE  Kept(r, t)
BY DEF Kept

First(q, k) == {q[i] : i \in 1..k}

\* Not on a lane, and not twice in q.
Waiting(r, q) == Once(q) /\ \A u \in ToSet(q) : u \notin r.lane

\* s is what e has become after the first k of q, of which X are in hand.
Passed(l, e, q, X, k, s) ==
    /\ Good(l, s, X \ First(q, k))
    /\ \A u \in X \ First(q, k) : s.row[u] = "accepted"
    /\ Kept(e, s)
    /\ s.lane \subseteq e.lane \cup First(q, k)
    /\ s.freed \subseteq e.freed \cup {To(u) : u \in First(q, k)}
    /\ Waiting(e, q) => s.freed = e.freed

LEMMA FirstGrows ==
    ASSUME NEW q, NEW k \in Nat \ {0}
    PROVE  First(q, 0) = {} /\ First(q, k) = First(q, k - 1) \cup {q[k]}
<1>1. \A i \in 1..k : i \in 1..(k - 1) \/ i = k
  OBVIOUS
<1>2. k \in 1..k /\ \A i \in 1..(k - 1) : i \in 1..k
  OBVIOUS
<1>3. 1..0 = {}
  OBVIOUS
<1> QED
  BY <1>1, <1>2, <1>3 DEF First

LEMMA PassedOne ==
    ASSUME shape \in Shapes, NEW l \in Links, NEW e, NEW q \in Seq(Transfers),
           NEW X \in SUBSET Transfers, NEW k \in 1..Len(q), NEW r, Passed(l, e, q, X, k - 1, r)
    PROVE  Passed(l, e, q, X, k, AskAgain(r, q[k], l))
<1>1. PICK s : s = AskAgain(r, q[k], l)
  OBVIOUS
<1>2. PICK t \in Transfers : t = q[k]
  OBVIOUS
<1>3. PICK Y : Y = X \ First(q, k - 1)
  OBVIOUS
<1>4. First(q, k) = First(q, k - 1) \cup {t}
  BY <1>2, FirstGrows
<1>5. X \ First(q, k) = Y \ {t}
  BY <1>3, <1>4
<1>6. Good(l, r, Y) /\ \A u \in Y : r.row[u] = "accepted"
  BY <1>3 DEF Passed
<1>7. Good(l, s, Y \ {t}) /\ Asked(r, s, t)
  <2>1. CASE r.row[t] = "accepted"
    <3>1. s = Ask(l, r, t, TRUE)
      BY <1>1, <1>2, <2>1 DEF AskAgain
    <3> QED
      BY <1>6, <2>1, <3>1, AskGood
  <2>2. CASE r.row[t] # "accepted"
    <3>1. s = r
      BY <1>1, <1>2, <2>2 DEF AskAgain
    <3>2. Y \ {t} = Y
      BY <1>6, <2>2
    <3> QED
      BY <1>6, <3>1, <3>2, AskedSame
  <2> QED
    BY <2>1, <2>2
<1>8. Good(l, s, X \ First(q, k))
  BY <1>5, <1>7
<1>9. Y \subseteq Transfers
  BY <1>3
<1>10. Kept(r, s)
  BY <1>7 DEF Asked, Kept
<1>11. Kept(e, s)
  BY <1>10, KeptOn DEF Passed
<1>12. s.lane \subseteq e.lane \cup First(q, k)
  BY <1>4, <1>7 DEF Passed, Asked
<1>13. s.freed \subseteq e.freed \cup {To(u) : u \in First(q, k)}
  BY <1>4, <1>7 DEF Passed, Asked
<1>14. ASSUME Waiting(e, q)
       PROVE  s.freed = e.freed
  <2>1. t \notin e.lane
    BY <1>2, <1>14 DEF Waiting, ToSet
  <2>2. t \notin First(q, k - 1)
    <3>1. \A i \in 1..(k - 1) : i \in DOMAIN q /\ i # k
      OBVIOUS
    <3>2. k \in DOMAIN q
      OBVIOUS
    <3> QED
      BY <1>2, <1>14, <3>1, <3>2 DEF Waiting, Once, First
  <2>3. t \notin r.lane
    BY <2>1, <2>2 DEF Passed
  <2> QED
    BY <1>7, <1>14, <2>3 DEF Passed, Asked
<1>15. \A u \in X \ First(q, k) : s.row[u] = "accepted"
  <2> SUFFICES ASSUME NEW u \in Y, u # t
               PROVE  s.row[u] = "accepted"
    BY <1>5
  <2> QED
    BY <1>6, <1>7, <1>9 DEF Asked
<1> QED
  BY <1>1, <1>8, <1>11, <1>12, <1>13, <1>14, <1>15 DEF Passed

LEMMA PassedAll ==
    ASSUME shape \in Shapes, NEW l \in Links, NEW e, NEW q \in Seq(Transfers),
           NEW X \in SUBSET Transfers, Good(l, e, X), \A u \in X : e.row[u] = "accepted"
    PROVE  Passed(l, e, q, X, Len(q), AskedAgain(e, q, l))
<1>1. PICK f : AskTurns(f, e, q, l)
  BY AskTurnSteps
<1> DEFINE done == {k \in Nat : Passed(l, e, q, X, k, f[k])}
<1>2. 0 \in done
  <2>1. f[0] = e
    BY <1>1 DEF AskTurns
  <2>2. First(q, 0) = {}
    <3>1. 1 \in Nat \ {0}
      OBVIOUS
    <3> QED
      BY <3>1, FirstGrows
  <2>3. X \ First(q, 0) = X
    BY <2>2
  <2>4. Passed(l, e, q, X, 0, e)
    BY <2>2, <2>3 DEF Passed, Kept
  <2> QED
    BY <2>1, <2>4
<1>3. ASSUME NEW k \in 1..Len(q), k - 1 \in done
      PROVE  k \in done
  <2>1. PICK r : r = f[k - 1]
    OBVIOUS
  <2>2. Passed(l, e, q, X, k - 1, r)
    BY <1>3, <2>1
  <2>3. f[k] = AskAgain(r, q[k], l)
    BY <1>1, <2>1 DEF AskTurns
  <2>4. Passed(l, e, q, X, k, f[k])
    BY <2>2, <2>3, PassedOne
  <2> QED
    BY <2>4
<1> HIDE DEF done
<1>4. Len(q) \in Nat /\ done \in SUBSET Nat
  BY DEF done
<1>5. \A k \in 0..Len(q) : k \in done
  BY <1>2, <1>3, <1>4, Induct
<1>6. Passed(l, e, q, X, Len(q), f[Len(q)])
  BY <1>4, <1>5 DEF done
<1> QED
  BY <1>1, <1>6 DEF AskTurns

LEMMA FirstAll ==
    ASSUME NEW q \in Seq(Transfers)
    PROVE  First(q, Len(q)) = ToSet(q)
<1>1. DOMAIN q = 1..Len(q)
  OBVIOUS
<1> QED
  BY <1>1 DEF First, ToSet

\* wake_queued_files: whoever waits for the lane that came free is asked for,
\* and no lane comes free of that.
LEMMA WakeGood ==
    ASSUME shape \in Shapes, NEW l \in Links, NEW r, NEW n \in Receivers,
           Good(l, r, {}), r.freed \subseteq {n}
    PROVE  /\ Good(l, Wake(l, r, n), {}) /\ Wake(l, r, n).freed = {}
           /\ Kept(r, Wake(l, r, n))
<1>1. PICK s : s = Wake(l, r, n)
  OBVIOUS
<1>2. r \in Receiving
  BY DEF Good
<1>3. CASE n \notin r.freed
  <2>1. s = r /\ r.freed = {}
    BY <1>1, <1>3 DEF Wake
  <2>2. Kept(r, r)
    BY DEF Kept
  <2> QED
    BY <1>1, <2>1, <2>2
<1>4. CASE n \in r.freed
  <2>1. PICK q : q = r.queued[n]
    OBVIOUS
  <2>2. q \in Seq(Transfers) /\ ToSet(q) \subseteq Transfers
    BY <1>2, <2>1, QueueEntries DEF Receiving
  <2> DEFINE empty == <<>>
  <2>3. empty \in Seq(Transfers) /\ ToSet(empty) = {} /\ Once(empty)
    BY DEF ToSet, Once
  <2> HIDE DEF empty
  <2>4. PICK e : e = [r EXCEPT !.freed = {}, !.queued[n] = empty]
    OBVIOUS
  <2>5. s = AskedAgain(e, q, l)
    <3>1. r.freed \ {n} = {}
      OBVIOUS
    <3>2. e = [r EXCEPT !.freed = r.freed \ {n}, !.queued[n] = <<>>]
      BY <2>4, <3>1 DEF empty
    <3>3. s = InTurn(AskAgain, [r EXCEPT !.freed = r.freed \ {n}, !.queued[n] = <<>>], q, l)
      BY <1>1, <1>4, <2>1 DEF Wake
    <3> QED
      BY <3>2, <3>3 DEF AskedAgain
  <2>6. /\ e \in Receiving /\ e.row = r.row /\ e.noted = r.noted /\ e.half = r.half /\ e.lane = r.lane
        /\ e.timers = r.timers /\ e.freed = {} /\ e.queued = [r.queued EXCEPT ![n] = empty]
    BY <1>2, <2>3, <2>4 DEF Receiving
  <2>7. e.queued[n] = empty /\ \A m \in Receivers : m # n => e.queued[m] = r.queued[m]
    BY <1>2, <2>6 DEF Receiving
  <2>8. PICK X : X = {u \in ToSet(q) : e.row[u] = "accepted"}
    OBVIOUS
  <2>9. Good(l, e, X)
    <3>1. LaneOK(l, e, X)
      BY <2>6 DEF Good, LaneOK
    <3>2. TendedOK(l, e, X)
      <4> SUFFICES ASSUME NEW u \in Transfers, e.row[u] = "accepted", Road(l, u) = "up"
                   PROVE  u \in X \/ u \in e.lane \/ u \in ToSet(e.queued[To(u)])
        BY DEF TendedOK
      <4>1. u \in r.lane \/ u \in ToSet(r.queued[To(u)])
        BY <2>6 DEF Good, TendedOK
      <4>2. To(u) \in Receivers
        BY Places
      <4> QED
        BY <2>1, <2>6, <2>7, <2>8, <4>1, <4>2
    <3>3. QueueOK(e)
      <4> SUFFICES ASSUME NEW m \in Receivers
                   PROVE  /\ Once(e.queued[m])
                          /\ \A u \in ToSet(e.queued[m]) : To(u) = m /\ u \notin e.lane
                          /\ e.queued[m] # <<>> /\ m \notin e.freed => Full(e, m)
        BY DEF QueueOK
      <4>1. CASE m = n
        BY <2>3, <2>7, <4>1 DEF empty
      <4>2. CASE m # n
        <5>1. OnLane(e, m) = OnLane(r, m)
          BY <2>6 DEF OnLane
        <5>2. Full(r, m) => Full(e, m)
          BY <5>1 DEF Full
        <5>3. m \notin r.freed
          BY <4>2
        <5> QED
          BY <2>6, <2>7, <4>2, <5>2, <5>3 DEF Good, QueueOK
      <4> QED
        BY <4>1, <4>2
    <3> QED
      BY <2>6, <3>1, <3>2, <3>3 DEF Good
  <2>10. X \in SUBSET Transfers /\ \A u \in X : e.row[u] = "accepted"
    BY <2>2, <2>8
  <2>11. Passed(l, e, q, X, Len(q), s)
    BY <2>2, <2>5, <2>9, <2>10, PassedAll
  <2>12. Waiting(e, q)
    BY <2>1, <2>6 DEF Good, QueueOK, Waiting
  <2>13. X \ First(q, Len(q)) = {}
    BY <2>2, <2>8, FirstAll
  <2>14. Good(l, s, {}) /\ s.freed = {} /\ Kept(e, s)
    BY <2>6, <2>11, <2>12, <2>13 DEF Passed
  <2>15. Kept(r, s)
    BY <2>6, <2>14 DEF Kept
  <2> QED
    BY <1>1, <2>14, <2>15
<1> QED
  BY <1>3, <1>4

LEMMA SetToSeqFacts ==
    ASSUME NEW S, IsFiniteSet(S)
    PROVE  SetToSeq(S) \in Seq(S) /\ ToSet(SetToSeq(S)) = S
<1>1. PICK c \in Nat : c = Cardinality(S)
  BY FS_CardinalityType
<1>2. \E f \in [1..c -> S] : IsInjective(f)
  <2>1. PICK f : f \in Bijection(1..c, S)
    BY <1>1, FS_CardinalityType DEF ExistsBijection
  <2> QED
    BY <2>1 DEF Bijection, Injection
<1>3. PICK g : g = SetToSeq(S)
  OBVIOUS
<1>4. g \in [1..c -> S] /\ IsInjective(g)
  BY <1>1, <1>2, <1>3 DEF SetToSeq
<1>5. g \in Seq(S) /\ Len(g) = c /\ DOMAIN g = 1..c
  BY <1>4
<1>6. \A x \in S : \E i \in 1..c : g[i] = x
  <2>1. g \in Injection(1..c, S)
    BY <1>4 DEF Injection
  <2>2. Cardinality(1..c) = c
    BY FS_Interval
  <2>3. g \in Surjection(1..c, S)
    BY <1>1, <2>1, <2>2, FS_Injection
  <2> QED
    BY <2>3 DEF Surjection
<1> QED
  BY <1>3, <1>4, <1>5, <1>6 DEF ToSet

-----------------------------------------------------------------------------
(* The receivers between two events.                                        *)

Marked(b, r) ==
    \A t \in Transfers :
        /\ t \notin r.half => r.noted[t] \subseteq b[t]
        /\ r.row[t] = "complete" => r.noted[t] = Index

AtRest(l, b, r) == Good(l, r, {}) /\ r.freed = {} /\ Marked(b, r)

LEMMA KeptMarked ==
    ASSUME NEW b, NEW r, NEW s, Marked(b, r), Kept(r, s)
    PROVE  Marked(b, s)
BY DEF Marked, Kept

LEMMA WakeRest ==
    ASSUME shape \in Shapes, NEW l \in Links, NEW b, NEW r, NEW n \in Receivers,
           Good(l, r, {}), r.freed \subseteq {n}, Marked(b, r)
    PROVE  AtRest(l, b, Wake(l, r, n))
<1>1. PICK s : s = Wake(l, r, n)
  OBVIOUS
<1>2. Good(l, s, {}) /\ s.freed = {} /\ Kept(r, s)
  BY <1>1, WakeGood
<1>3. Marked(b, s)
  BY <1>2, KeptMarked
<1> QED
  BY <1>1, <1>2, <1>3 DEF AtRest

LEMMA AskRest ==
    ASSUME shape \in Shapes, NEW l \in Links, NEW b, NEW r, NEW t \in Transfers,
           Good(l, r, {t}), r.row[t] = "accepted", r.freed = {}, Marked(b, r),
           NEW stalled \in BOOLEAN
    PROVE  AtRest(l, b, Wake(l, Ask(l, r, t, stalled), To(t)))
<1>1. PICK s : s = Ask(l, r, t, stalled)
  OBVIOUS
<1>2. Good(l, s, {t} \ {t}) /\ Asked(r, s, t)
  BY <1>1, AskGood
<1>3. Good(l, s, {})
  <2>1. {t} \ {t} = {}
    OBVIOUS
  <2> QED
    BY <1>2, <2>1
<1>4. s.freed \subseteq {To(t)}
  BY <1>2 DEF Asked
<1>5. Kept(r, s)
  BY <1>2 DEF Asked, Kept
<1>6. Marked(b, s) /\ To(t) \in Receivers
  BY <1>5, KeptMarked, Places
<1> QED
  BY <1>1, <1>3, <1>4, <1>6, WakeRest

\* s is r with another row and other marks for t.
Rowed(r, s, t, row, marks) ==
    /\ s \in Receiving
    /\ s.row[t] = row /\ \A u \in Transfers : u # t => s.row[u] = r.row[u]
    /\ s.noted[t] = marks /\ \A u \in Transfers : u # t => s.noted[u] = r.noted[u]
    /\ s.lane = r.lane /\ s.queued = r.queued /\ s.timers = r.timers /\ s.freed = r.freed
    /\ s.half = r.half

LEMMA RowedIs ==
    ASSUME NEW r \in Receiving, NEW t \in Transfers, NEW row \in Rows,
           NEW marks \in SUBSET Index
    PROVE  Rowed(r, [r EXCEPT !.row[t] = row, !.noted[t] = marks], t, row, marks)
<1>1. PICK s : s = [r EXCEPT !.row[t] = row, !.noted[t] = marks]
  OBVIOUS
<1>2. PICK rows : rows = [r.row EXCEPT ![t] = row]
  OBVIOUS
<1>3. PICK noted : noted = [r.noted EXCEPT ![t] = marks]
  OBVIOUS
<1>4. /\ rows \in [Transfers -> Rows] /\ rows[t] = row
      /\ \A u \in Transfers : u # t => rows[u] = r.row[u]
  BY <1>2 DEF Receiving
<1>5. /\ noted \in [Transfers -> SUBSET Index] /\ noted[t] = marks
      /\ \A u \in Transfers : u # t => noted[u] = r.noted[u]
  BY <1>3 DEF Receiving
<1>6. s = [r EXCEPT !.row = rows, !.noted = noted]
  BY <1>1, <1>2, <1>3
<1>7. /\ s \in Receiving /\ s.row = rows /\ s.noted = noted /\ s.half = r.half /\ s.lane = r.lane
      /\ s.queued = r.queued /\ s.timers = r.timers /\ s.freed = r.freed
  BY <1>4, <1>5, <1>6 DEF Receiving
<1> QED
  BY <1>1, <1>4, <1>5, <1>7 DEF Rowed

LEMMA RowOnly ==
    ASSUME NEW r \in Receiving, NEW t \in Transfers, NEW row \in Rows
    PROVE  Rowed(r, [r EXCEPT !.row[t] = row], t, row, r.noted[t])
<1>1. PICK marks \in SUBSET Index : marks = r.noted[t]
  BY DEF Receiving
<1>2. [r.noted EXCEPT ![t] = marks] = r.noted
  BY <1>1 DEF Receiving
<1>3. [r EXCEPT !.row[t] = row, !.noted[t] = marks] = [r EXCEPT !.row[t] = row]
  BY <1>2 DEF Receiving
<1>4. Rowed(r, [r EXCEPT !.row[t] = row, !.noted[t] = marks], t, row, marks)
  BY RowedIs
<1> QED
  BY <1>1, <1>3, <1>4

LEMMA NotedOnly ==
    ASSUME NEW r \in Receiving, NEW p, p.t \in Transfers, p.i \in Index
    PROVE  Rowed(r, Noted(r, p), p.t, r.row[p.t], r.noted[p.t] \cup {p.i})
<1>1. PICK t \in Transfers : t = p.t
  OBVIOUS
<1>2. PICK marks \in SUBSET Index : marks = r.noted[t] \cup {p.i}
  BY DEF Receiving
<1>3. PICK row \in Rows : row = r.row[t]
  BY DEF Receiving
<1>4. [r.row EXCEPT ![t] = row] = r.row
  BY <1>3 DEF Receiving
<1>5. [r EXCEPT !.row[t] = row, !.noted[t] = marks] = Noted(r, p)
  BY <1>1, <1>2, <1>4 DEF Receiving, Noted
<1>6. Rowed(r, [r EXCEPT !.row[t] = row, !.noted[t] = marks], t, row, marks)
  BY RowedIs
<1> QED
  BY <1>1, <1>2, <1>3, <1>5, <1>6

LEMMA RowedGood ==
    ASSUME shape \in Shapes, NEW l, NEW r, NEW s, NEW t \in Transfers, NEW row, NEW marks,
           Good(l, r, {}), Rowed(r, s, t, row, marks)
    PROVE  Good(l, s, {t})
<1>1. Good(l, s, {} \cup {t})
  BY NotedGood DEF Rowed
<1>2. {} \cup {t} = {t}
  OBVIOUS
<1> QED
  BY <1>1, <1>2

\* The file gets a row it is not asked for with, and the memory forgets it.
LEMMA SettledRest ==
    ASSUME shape \in Shapes, NEW l \in Links, NEW b, NEW r, NEW s, NEW t \in Transfers,
           NEW row, NEW marks, Good(l, r, {}), r.freed = {},
           Rowed(r, s, t, row, marks), row # "accepted", Marked(b, s)
    PROVE  AtRest(l, b, Wake(l, Settled(s, t), To(t)))
<1>1. PICK a : a = Settled(s, t)
  OBVIOUS
<1>2. Good(l, s, {} \cup {t})
  BY RowedGood
<1>3. s.row[t] # "accepted" /\ s.freed = {}
  BY DEF Rowed
<1>4. Good(l, a, {} \ {t}) /\ OutOfMind(s, a, t)
  BY <1>1, <1>2, <1>3, SettledGood
<1>5. Good(l, a, {})
  <2>1. {} \ {t} = {}
    OBVIOUS
  <2> QED
    BY <1>4, <2>1
<1>6. a.freed \subseteq {To(t)} /\ Marked(b, a) /\ To(t) \in Receivers
  BY <1>3, <1>4, Places DEF OutOfMind, Marked
<1> QED
  BY <1>1, <1>5, <1>6, WakeRest

-----------------------------------------------------------------------------
(* The invariant, and what each event does to the receivers.                *)

FilesInv == TypeOK /\ AtRest(link, bytes, rx)

LEMMA InvFacts ==
    ASSUME FilesInv
    PROVE  /\ shape \in Shapes /\ link \in Links /\ Good(link, rx, {}) /\ rx.freed = {}
           /\ Marked(bytes, rx) /\ rx \in Receiving
BY DEF FilesInv, TypeOK, AtRest, Links

LEMMA AcceptedRest ==
    ASSUME FilesInv, NEW t \in Transfers,
           rx' = Wake(link, Ask(link, [rx EXCEPT !.row[t] = "accepted"], t, TRUE), To(t)),
           UNCHANGED <<link, bytes>>
    PROVE  AtRest(link', bytes', rx')
<1>1. /\ shape \in Shapes /\ link \in Links /\ Good(link, rx, {}) /\ rx.freed = {}
      /\ Marked(bytes, rx) /\ rx \in Receiving
  BY InvFacts
<1>2. PICK r : r = [rx EXCEPT !.row[t] = "accepted"]
  OBVIOUS
<1>3. Rowed(rx, r, t, "accepted", rx.noted[t])
  BY <1>1, <1>2, RowOnly DEF Rows
<1>4. Good(link, r, {t})
  BY <1>1, <1>3, RowedGood
<1>5. r.row[t] = "accepted" /\ r.freed = {} /\ Marked(bytes, r)
  BY <1>1, <1>3 DEF Rowed, Marked
<1>6. AtRest(link, bytes, Wake(link, Ask(link, r, t, TRUE), To(t)))
  BY <1>1, <1>4, <1>5, AskRest
<1> QED
  BY <1>2, <1>6

LEMMA OfferRest ==
    ASSUME FilesInv, NEW t \in Transfers, Offer(t)
    PROVE  AtRest(link', bytes', rx')
<1>1. CASE rx' = Wake(link, Ask(link, [rx EXCEPT !.row[t] = "accepted"], t, TRUE), To(t))
  BY <1>1, AcceptedRest DEF Offer
<1>2. CASE rx' = [rx EXCEPT !.row[t] = "offered"]
  <2>1. /\ shape \in Shapes /\ link \in Links /\ Good(link, rx, {}) /\ rx.freed = {}
        /\ Marked(bytes, rx) /\ rx \in Receiving
    BY InvFacts
  <2>2. PICK r : r = rx'
    OBVIOUS
  <2>3. Rowed(rx, r, t, "offered", rx.noted[t])
    BY <1>2, <2>1, <2>2, RowOnly DEF Rows
  <2>4. Good(link, r, {} \cup {t})
    BY <2>1, <2>3, RowedGood
  <2>5. t \notin r.lane
    BY <2>1, <2>3 DEF Offer, Good, LaneOK, Rowed
  <2>6. r.row[t] # "accepted" /\ r.freed = {} /\ Marked(bytes, r)
    BY <2>1, <2>3 DEF Rowed, Marked
  <2>7. Good(link, r, {} \ {t})
    BY <2>4, <2>5, <2>6, Handed
  <2>8. {} \ {t} = {}
    OBVIOUS
  <2>9. AtRest(link, bytes, r)
    BY <2>6, <2>7, <2>8 DEF AtRest
  <2> QED
    BY <2>2, <2>9 DEF Offer
<1> QED
  BY <1>1, <1>2 DEF Offer

LEMMA PauseRest ==
    ASSUME FilesInv, NEW t \in Transfers, Pause(t)
    PROVE  AtRest(link', bytes', rx')
<1>1. /\ shape \in Shapes /\ link \in Links /\ Good(link, rx, {}) /\ rx.freed = {}
      /\ Marked(bytes, rx) /\ rx \in Receiving
  BY InvFacts
<1>2. PICK r : r = [rx EXCEPT !.row[t] = "offered"]
  OBVIOUS
<1>3. Rowed(rx, r, t, "offered", rx.noted[t])
  BY <1>1, <1>2, RowOnly DEF Rows
<1>4. Marked(bytes, r)
  BY <1>1, <1>3 DEF Rowed, Marked
<1>5. AtRest(link, bytes, Wake(link, Settled(r, t), To(t)))
  BY <1>1, <1>3, <1>4, SettledRest
<1> QED
  BY <1>2, <1>5 DEF Pause

\* The bytes of t go, and the row with the marks.
LEMMA GoneMarked ==
    ASSUME NEW t \in Transfers, NEW r, NEW b, NEW s, Marked(b, r),
           Rowed(r, s, t, "gone", {}), NEW c, c = [b EXCEPT ![t] = {}],
           b \in [Transfers -> SUBSET Index]
    PROVE  Marked(c, s)
<1>1. c[t] = {} /\ \A u \in Transfers : u # t => c[u] = b[u]
  OBVIOUS
<1> QED
  BY <1>1 DEF Marked, Rowed

LEMMA DeclineRest ==
    ASSUME FilesInv, NEW t \in Transfers, Decline(t)
    PROVE  AtRest(link', bytes', rx')
<1>1. /\ shape \in Shapes /\ link \in Links /\ Good(link, rx, {}) /\ rx.freed = {}
      /\ Marked(bytes, rx) /\ rx \in Receiving
  BY InvFacts
<1>2. PICK r : r = [rx EXCEPT !.row[t] = "gone", !.noted[t] = {}]
  OBVIOUS
<1>3. Rowed(rx, r, t, "gone", {})
  BY <1>1, <1>2, RowedIs DEF Rows
<1>4. Good(link, r, {} \cup {t})
  BY <1>1, <1>3, RowedGood
<1>5. r.row[t] = "gone" /\ r.freed = {}
  BY <1>1, <1>3 DEF Rowed
<1>6. Good(link, r, {} \ {t})
  BY <1>4, <1>5, Handed
<1>7. {} \ {t} = {}
  OBVIOUS
<1>8. Marked(bytes', r)
  BY <1>1, <1>3, GoneMarked DEF Decline, FilesInv, TypeOK
<1>9. AtRest(link, bytes', r)
  BY <1>5, <1>6, <1>7, <1>8 DEF AtRest
<1> QED
  BY <1>2, <1>9 DEF Decline

LEMMA ForgetRest ==
    ASSUME FilesInv, NEW t \in Transfers, Forget(t)
    PROVE  AtRest(link', bytes', rx')
<1>1. /\ shape \in Shapes /\ link \in Links /\ Good(link, rx, {}) /\ rx.freed = {}
      /\ Marked(bytes, rx) /\ rx \in Receiving
  BY InvFacts
<1>2. PICK r : r = [rx EXCEPT !.row[t] = "gone", !.noted[t] = {}]
  OBVIOUS
<1>3. Rowed(rx, r, t, "gone", {})
  BY <1>1, <1>2, RowedIs DEF Rows
<1>4. Marked(bytes', r)
  BY <1>1, <1>3, GoneMarked DEF Forget, FilesInv, TypeOK
<1>5. AtRest(link, bytes', Wake(link, Settled(r, t), To(t)))
  BY <1>1, <1>3, <1>4, SettledRest
<1> QED
  BY <1>2, <1>5 DEF Forget

\* The timer and the tries of t change.
Timed(r, s, t) ==
    /\ s \in Receiving /\ s.row = r.row /\ s.noted = r.noted /\ s.half = r.half /\ s.lane = r.lane
    /\ s.queued = r.queued /\ s.freed = r.freed
    /\ \A u \in Transfers : u # t => (u \in s.timers <=> u \in r.timers)

\* T has what U has, but for t.
Alike(T, U, t) == \A u \in Transfers : u # t => (u \in T <=> u \in U)

TimersAnd(r, T, t, k) == [r EXCEPT !.timers = T, !.tries[t] = k]
TimersOnly(r, T) == [r EXCEPT !.timers = T]

LEMMA TimedIs ==
    ASSUME NEW r \in Receiving, NEW t \in Transfers, NEW k \in 0..Patience,
           NEW T \in SUBSET Transfers, Alike(T, r.timers, t)
    PROVE  /\ Timed(r, TimersAnd(r, T, t, k), t)
           /\ TimersAnd(r, T, t, k).timers = T
           /\ TimersAnd(r, T, t, k).tries[t] = k
<1>1. PICK tries : tries = [r.tries EXCEPT ![t] = k]
  OBVIOUS
<1>2. tries \in [Transfers -> 0..Patience] /\ tries[t] = k
  BY <1>1 DEF Receiving
<1>3. PICK s : s = [r EXCEPT !.timers = T, !.tries = tries]
  OBVIOUS
<1>4. s = TimersAnd(r, T, t, k)
  BY <1>1, <1>3 DEF TimersAnd
<1>5. s.timers = T /\ Timed(r, s, t) /\ s.tries[t] = k
  BY <1>2, <1>3 DEF Receiving, Timed, Alike
<1> QED
  BY <1>4, <1>5

LEMMA TimersIs ==
    ASSUME NEW r \in Receiving, NEW t \in Transfers,
           NEW T \in SUBSET Transfers, Alike(T, r.timers, t)
    PROVE  Timed(r, TimersOnly(r, T), t) /\ TimersOnly(r, T).timers = T
<1>1. PICK s : s = TimersOnly(r, T)
  OBVIOUS
<1>2. s.timers = T /\ Timed(r, s, t)
  BY <1>1 DEF Receiving, Timed, Alike, TimersOnly
<1> QED
  BY <1>1, <1>2

LEMMA TimedGood ==
    ASSUME shape \in Shapes, NEW l, NEW r, NEW s, NEW X, NEW t \in Transfers,
           Good(l, r, X), Timed(r, s, t)
    PROVE  Good(l, s, X \cup {t})
BY NotedGood DEF Timed

\* on_file_chunk's last part, with a chunk more noted.
LEMMA CountedRest ==
    ASSUME shape \in Shapes, NEW l \in Links, NEW b, NEW r, NEW t \in Transfers,
           Good(l, r, {}), r.freed = {}, Marked(b, r), r.row[t] = "accepted"
    PROVE  AtRest(l, b, Wake(l, Counted(l, r, t), To(t)))
<1>1. r \in Receiving /\ To(t) \in Receivers /\ 0 \in 0..Patience
  BY Places, FilesAssumption DEF Good
<1>2. CASE r.noted[t] = Index
  <2>1. PICK a : a = Finish(r, t)
    OBVIOUS
  <2>2. Good(l, a, {} \ {t}) /\ Asked(r, a, t)
    BY <1>2, <2>1, FinishGood
  <2>3. {} \ {t} = {}
    OBVIOUS
  <2>4. Good(l, a, {})
    BY <2>2, <2>3
  <2>5. a.freed \subseteq {To(t)} /\ Kept(r, a)
    BY <2>2 DEF Asked, Kept
  <2>6. Marked(b, a)
    BY <2>5, KeptMarked
  <2>7. AtRest(l, b, Wake(l, a, To(t)))
    BY <1>1, <2>4, <2>5, <2>6, WakeRest
  <2>8. Counted(l, r, t) = a
    BY <1>2, <2>1 DEF Counted
  <2> QED
    BY <2>7, <2>8
<1>3. CASE r.noted[t] # Index /\ Cardinality(r.noted[t]) % AckEvery = 0
  <2>1. PICK a : a = [r EXCEPT !.tries[t] = 0]
    OBVIOUS
  <2>2. PICK T \in SUBSET Transfers : T = r.timers
    BY <1>1 DEF Receiving
  <2>3. a = TimersAnd(r, T, t, 0)
    BY <1>1, <2>1, <2>2 DEF Receiving, TimersAnd
  <2>4. Timed(r, TimersAnd(r, T, t, 0), t)
    <3>1. Alike(T, r.timers, t)
      BY <2>2 DEF Alike
    <3> QED
      BY <1>1, <3>1, TimedIs
  <2>5. Timed(r, a, t)
    BY <2>3, <2>4
  <2>6. Good(l, a, {} \cup {t})
    BY <2>5, TimedGood
  <2>7. {} \cup {t} = {t}
    OBVIOUS
  <2>8. Good(l, a, {t})
    BY <2>6, <2>7
  <2>9. a.row[t] = "accepted" /\ a.freed = {} /\ Marked(b, a)
    BY <2>5 DEF Timed, Marked
  <2>10. AtRest(l, b, Wake(l, Ask(l, a, t, FALSE), To(t)))
    BY <2>8, <2>9, AskRest
  <2>11. Counted(l, r, t) = Ask(l, a, t, FALSE)
    BY <1>3, <2>1 DEF Counted
  <2> QED
    BY <2>10, <2>11
<1>4. CASE r.noted[t] # Index /\ Cardinality(r.noted[t]) % AckEvery # 0
  <2>1. PICK T \in SUBSET Transfers : T = r.timers \cup {t}
    BY <1>1 DEF Receiving
  <2>2. PICK a : a = TimersAnd(r, T, t, 0)
    OBVIOUS
  <2>3. Alike(T, r.timers, t)
    BY <2>1 DEF Alike
  <2>4. Timed(r, a, t) /\ a.timers = T
    BY <1>1, <2>2, <2>3, TimedIs
  <2>5. Good(l, a, {} \cup {t})
    BY <2>4, TimedGood
  <2>6. a.row[t] = "accepted" /\ a.freed = {} /\ Marked(b, a) /\ t \in a.timers
    BY <2>1, <2>4 DEF Timed, Marked
  <2>7. Road(l, t) = "up" => t \in a.lane \/ t \in ToSet(a.queued[To(t)])
    BY <2>4 DEF Good, TendedOK, Timed
  <2>8. Good(l, a, {} \ {t})
    BY <2>5, <2>6, <2>7, Handed
  <2>9. {} \ {t} = {}
    OBVIOUS
  <2>10. Good(l, a, {}) /\ a.freed \subseteq {To(t)}
    BY <2>6, <2>8, <2>9
  <2>11. AtRest(l, b, Wake(l, a, To(t)))
    BY <1>1, <2>6, <2>10, WakeRest
  <2>12. [r EXCEPT !.tries[t] = 0, !.timers = r.timers \cup {t}] = a
    BY <1>1, <2>1, <2>2 DEF Receiving, TimersAnd
  <2>13. Counted(l, r, t) = a
    BY <1>4, <2>12 DEF Counted
  <2> QED
    BY <2>11, <2>13
<1> QED
  BY <1>2, <1>3, <1>4

LEMMA PieceFacts ==
    ASSUME FilesInv, NEW p \in tx.pieces
    PROVE  p.t \in Transfers /\ p.i \in Index
BY DEF FilesInv, TypeOK, Sending

\* The bytes with the piece p.
Stored(p) == [bytes EXCEPT ![p.t] = @ \cup {p.i}]

\* A chunk more is noted: nothing else of Good speaks of the marks.
LEMMA NotedRest ==
    ASSUME FilesInv, NEW p \in tx.pieces, Fresh(p),
           NEW b, b = Stored(p), NEW r, r = Noted(rx, p)
    PROVE  /\ Good(link, r, {}) /\ r.freed = {} /\ Marked(b, r) /\ Marked(b, rx)
           /\ r.row = rx.row /\ r.lane = rx.lane /\ r.queued = rx.queued
           /\ r.timers = rx.timers
<1>1. /\ shape \in Shapes /\ link \in Links /\ Good(link, rx, {}) /\ rx.freed = {}
      /\ Marked(bytes, rx) /\ rx \in Receiving
  BY InvFacts
<1>2. p.t \in Transfers /\ p.i \in Index
  BY PieceFacts
<1>4. Rowed(rx, r, p.t, rx.row[p.t], rx.noted[p.t] \cup {p.i})
  BY <1>1, <1>2, NotedOnly
<1>5. r.row = rx.row
  <2>1. rx.row \in [Transfers -> Rows] /\ r.row \in [Transfers -> Rows]
    BY <1>1, <1>4 DEF Rowed, Receiving
  <2>2. \A u \in Transfers : r.row[u] = rx.row[u]
    BY <1>2, <1>4 DEF Rowed
  <2> QED
    BY <2>1, <2>2
<1>6. /\ r \in Receiving /\ r.lane = rx.lane /\ r.queued = rx.queued /\ r.timers = rx.timers
      /\ r.freed = rx.freed
  BY <1>4 DEF Rowed
<1>7. \A m : OnLane(r, m) = OnLane(rx, m)
  BY <1>6 DEF OnLane
<1>8. Good(link, r, {})
  BY <1>1, <1>5, <1>6, <1>7 DEF Good, LaneOK, QueueOK, TendedOK, Full
<1>9. b[p.t] = bytes[p.t] \cup {p.i} /\ \A u \in Transfers : u # p.t => b[u] = bytes[u]
  BY <1>2 DEF FilesInv, TypeOK, Stored
<1>10. Marked(b, rx)
  BY <1>1, <1>9 DEF Marked
<1>11. Marked(b, r)
  <2>1. r.row[p.t] = "accepted"
    BY <1>5 DEF Fresh
  <2>2. \A u \in Transfers : u # p.t => r.row[u] = rx.row[u] /\ r.noted[u] = rx.noted[u]
    BY <1>4 DEF Rowed
  <2>3. p.t \notin r.half => r.noted[p.t] \subseteq b[p.t]
    BY <1>1, <1>2, <1>4, <1>9 DEF Rowed, Marked
  <2>4. r.half = rx.half
    BY <1>4 DEF Rowed
  <2> QED
    BY <1>1, <1>9, <2>1, <2>2, <2>3, <2>4 DEF Marked
<1> QED
  BY <1>1, <1>5, <1>6, <1>8, <1>10, <1>11

LEMMA ChunkRest ==
    ASSUME FilesInv, NEW p \in tx.pieces, OnChunk(p)
    PROVE  AtRest(link', bytes', rx')
<1>1. CASE ~Fresh(p)
  BY <1>1 DEF OnChunk, FilesInv, AtRest
<1>2. CASE Fresh(p)
  <2>1. PICK r : r = Noted(rx, p)
    OBVIOUS
  <2>2. PICK t \in Transfers : t = p.t
    BY PieceFacts
  <2>3. PICK b : b = bytes'
    OBVIOUS
  <2>4. b = Stored(p)
    BY <1>2, <2>3 DEF OnChunk, Stored
  <2>5. Good(link, r, {}) /\ r.freed = {} /\ Marked(b, r) /\ r.row = rx.row
    BY <1>2, <2>1, <2>4, NotedRest
  <2>6. shape \in Shapes /\ link \in Links /\ r.row[t] = "accepted"
    BY <1>2, <2>2, <2>5, InvFacts DEF Fresh
  <2>7. AtRest(link, b, Wake(link, Counted(link, r, t), To(t)))
    BY <2>5, <2>6, CountedRest
  <2>8. rx' = Wake(link, Counted(link, r, t), To(t)) /\ link' = link
    BY <1>2, <2>1, <2>2 DEF OnChunk
  <2> QED
    BY <2>3, <2>7, <2>8
<1> QED
  BY <1>1, <1>2

LEMMA StallRest ==
    ASSUME FilesInv, NEW t \in Transfers, OnStall(t)
    PROVE  AtRest(link', bytes', rx')
<1>1. /\ shape \in Shapes /\ link \in Links /\ Good(link, rx, {}) /\ rx.freed = {}
      /\ Marked(bytes, rx) /\ rx \in Receiving
  BY InvFacts
<1>2. To(t) \in Receivers
  BY <1>1, Places
<1>3. PICK T \in SUBSET Transfers : T = rx.timers \ {t}
  BY <1>1 DEF Receiving
<1>4. Alike(T, rx.timers, t)
  BY <1>3 DEF Alike
<1>5. link' = link /\ bytes' = bytes
  BY DEF OnStall
<1>6. {} \cup {t} = {t} /\ {} \ {t} = {} /\ {t} \cup {t} = {t} /\ {t} \ {t} = {}
  OBVIOUS
<1>7. CASE rx.row[t] # "accepted"
  <2>1. PICK a : a = TimersOnly(rx, T)
    OBVIOUS
  <2>2. Timed(rx, a, t)
    BY <1>1, <1>4, <2>1, TimersIs
  <2>3. Good(link, a, {} \cup {t})
    BY <1>1, <2>2, TimedGood
  <2>4. t \in a.lane => a.row[t] = "gone"
    BY <1>1, <1>7, <2>2 DEF Good, LaneOK, Timed
  <2>5. a.row[t] # "accepted" /\ a.freed = {} /\ Marked(bytes, a)
    BY <1>1, <1>7, <2>2 DEF Timed, Marked
  <2>6. Good(link, a, {} \ {t})
    BY <2>3, <2>4, <2>5, Handed
  <2>7. Good(link, a, {}) /\ a.freed \subseteq {To(t)}
    BY <1>6, <2>5, <2>6
  <2>8. AtRest(link, bytes, Wake(link, a, To(t)))
    BY <1>1, <1>2, <2>5, <2>7, WakeRest
  <2>9. rx' = Wake(link, a, To(t))
    BY <1>3, <1>7, <2>1 DEF OnStall, TimersOnly
  <2> QED
    BY <1>5, <2>8, <2>9
<1>8. CASE rx.row[t] = "accepted"
  <2>1. PICK k : k = IF rx.tries[t] < Patience THEN rx.tries[t] + 1 ELSE rx.tries[t]
    OBVIOUS
  <2>2. k \in 0..Patience
    <3>1. rx.tries[t] \in 0..Patience
      BY <1>1 DEF Receiving
    <3> QED
      BY <2>1, <3>1, FilesAssumption
  <2>3. PICK r : r = TimersAnd(rx, T, t, k)
    OBVIOUS
  <2>4. Timed(rx, r, t)
    BY <1>1, <1>4, <2>2, <2>3, TimedIs
  <2>5. Good(link, r, {} \cup {t})
    BY <1>1, <2>4, TimedGood
  <2>6. Good(link, r, {t})
    BY <1>6, <2>5
  <2>7. r.row[t] = "accepted" /\ r.freed = {} /\ Marked(bytes, r) /\ r.lane = rx.lane
    BY <1>1, <1>8, <2>4 DEF Timed, Marked
  <2>8. r = [rx EXCEPT !.timers = @ \ {t},
                       !.tries[t] = IF @ < Patience THEN @ + 1 ELSE @]
    BY <1>1, <1>3, <2>1, <2>3 DEF Receiving, TimersAnd
  <2>9. \/ rx' = Wake(link, Ask(link, r, t, TRUE), To(t))
        \/ rx' = Wake(link, IF t \in r.lane THEN Enqueue(Leave(r, t), t) ELSE r, To(t))
    <3>1. PICK a : a = Ask(link, r, t, TRUE)
      OBVIOUS
    <3>2. PICK c : c = IF t \in r.lane THEN Enqueue(Leave(r, t), t) ELSE r
      OBVIOUS
    <3>3. PICK e : e = [rx EXCEPT !.timers = @ \ {t}]
      OBVIOUS
    <3>4. rx' = Wake(link, CASE rx.row[t] # "accepted" -> e
                             [] rx.row[t] = "accepted" /\ r.tries[t] < Patience -> a
                             [] OTHER -> c, To(t))
      BY <2>8, <3>1, <3>2, <3>3 DEF OnStall
    <3>5. rx' = Wake(link, a, To(t)) \/ rx' = Wake(link, c, To(t))
      BY <1>8, <3>4
    <3> QED
      BY <3>1, <3>2, <3>5
  <2>10. CASE rx' = Wake(link, Ask(link, r, t, TRUE), To(t))
    <3>1. AtRest(link, bytes, Wake(link, Ask(link, r, t, TRUE), To(t)))
      BY <1>1, <2>6, <2>7, AskRest
    <3> QED
      BY <1>5, <2>10, <3>1
  <2>11. CASE t \notin r.lane /\ rx' = Wake(link, r, To(t))
    <3>1. Road(link, t) = "up" => t \in ToSet(r.queued[To(t)])
      BY <1>1, <1>8, <2>4, <2>7, <2>11 DEF Good, TendedOK, Timed
    <3>2. Good(link, r, {} \ {t})
      BY <2>5, <2>11, <3>1, Handed
    <3>3. Good(link, r, {}) /\ r.freed \subseteq {To(t)}
      BY <1>6, <2>7, <3>2
    <3>4. AtRest(link, bytes, Wake(link, r, To(t)))
      BY <1>1, <1>2, <2>7, <3>3, WakeRest
    <3> QED
      BY <1>5, <2>11, <3>4
  <2>12. CASE t \in r.lane /\ rx' = Wake(link, Enqueue(Leave(r, t), t), To(t))
    <3>1. PICK a : a = Leave(r, t)
      OBVIOUS
    <3>2. Good(link, a, {t} \cup {t}) /\ a = OffLane(r, t)
      BY <1>1, <2>6, <3>1, LeaveGood
    <3>3. Good(link, a, {t}) /\ r \in Receiving
      BY <1>6, <2>6, <3>2 DEF Good
    <3>4. /\ t \notin a.lane /\ a.freed = {To(t)} /\ a.row = r.row /\ a.noted = r.noted /\ a.half = r.half
      BY <2>7, <2>12, <3>2, <3>3 DEF OffLane, Receiving
    <3>5. PICK c : c = Enqueue(a, t)
      OBVIOUS
    <3>6. To(t) \in a.freed
      BY <3>4
    <3>7. Good(link, c, {t} \cup {t}) /\ Queued(a, c, t)
      BY <1>1, <3>3, <3>4, <3>5, <3>6, EnqueueGood
    <3>8. a \in Receiving
      BY <3>3 DEF Good
    <3>9. /\ c.lane = a.lane /\ c.freed = a.freed /\ c.row = a.row /\ c.noted = a.noted /\ c.half = a.half
          /\ t \in ToSet(c.queued[To(t)])
      BY <1>2, <3>7, <3>8 DEF Queued, Receiving
    <3>10. Good(link, c, {} \cup {t})
      BY <1>6, <3>7
    <3>11. t \notin c.lane
      BY <3>4, <3>9
    <3>12. Good(link, c, {} \ {t})
      BY <3>9, <3>10, <3>11, Handed
    <3>13. Good(link, c, {}) /\ c.freed \subseteq {To(t)} /\ Marked(bytes, c)
      BY <1>6, <2>7, <3>4, <3>9, <3>12 DEF Marked
    <3>14. AtRest(link, bytes, Wake(link, c, To(t)))
      BY <1>1, <1>2, <3>13, WakeRest
    <3> QED
      BY <1>5, <2>12, <3>1, <3>5, <3>14
  <2> QED
    BY <2>9, <2>10, <2>11, <2>12
<1> QED
  BY <1>7, <1>8

\* Requests are lost or come.
LEMMA AsksRest ==
    ASSUME NEW l, NEW b, NEW r, NEW A, AtRest(l, b, r), A \subseteq r.asks
    PROVE  AtRest(l, b, [r EXCEPT !.asks = A])
<1>1. PICK s : s = [r EXCEPT !.asks = A]
  OBVIOUS
<1>2. /\ s \in Receiving /\ s.row = r.row /\ s.noted = r.noted /\ s.half = r.half /\ s.lane = r.lane
      /\ s.queued = r.queued /\ s.timers = r.timers /\ s.freed = r.freed
  BY <1>1 DEF AtRest, Good, Receiving
<1>3. \A m : OnLane(s, m) = OnLane(r, m)
  BY <1>2 DEF OnLane
<1>4. Good(l, s, {})
  BY <1>2, <1>3 DEF AtRest, Good, LaneOK, QueueOK, TendedOK, Full
<1>5. s.freed = {} /\ Marked(b, s)
  BY <1>2 DEF AtRest, Marked
<1> QED
  BY <1>1, <1>4, <1>5 DEF AtRest

LEMMA RequestRest ==
    ASSUME FilesInv, NEW q \in rx.asks, OnRequest(q)
    PROVE  AtRest(link', bytes', rx')
<1>1. PICK A : A = rx.asks \ {q}
  OBVIOUS
<1>2. AtRest(link, bytes, [rx EXCEPT !.asks = A])
  BY <1>1, AsksRest DEF FilesInv
<1> QED
  BY <1>1, <1>2 DEF OnRequest

LEMMA LoseRest ==
    ASSUME FilesInv, Lose
    PROVE  AtRest(link', bytes', rx')
<1>1. CASE UNCHANGED rx
  BY <1>1 DEF Lose, FilesInv
<1>2. CASE \E q \in rx.asks : rx' = [rx EXCEPT !.asks = @ \ {q}]
  <2>1. PICK q : rx' = [rx EXCEPT !.asks = @ \ {q}]
    BY <1>2
  <2>2. PICK A : A = rx.asks \ {q}
    OBVIOUS
  <2>3. AtRest(link, bytes, [rx EXCEPT !.asks = A])
    BY <2>2, AsksRest DEF FilesInv
  <2> QED
    BY <2>1, <2>2, <2>3 DEF Lose
<1> QED
  BY <1>1, <1>2 DEF Lose

-----------------------------------------------------------------------------
(* The links.                                                               *)

LEMMA CutLinks ==
    ASSUME link \in Links, NEW s \in Senders, NEW n \in Receivers,
           NEW road \in {"up", "seen", "gone"}
    PROVE  /\ Cut(s, n, road) \in Links
           /\ Cut(s, n, road)[s][n] = road
           /\ \A v \in Senders, m \in Receivers :
                  v # s \/ m # n => Cut(s, n, road)[v][m] = link[v][m]
BY DEF Links, Cut

\* The roads there are less, but none is out of sight that was not, or the
\* lanes do not care.
Fewer(l, k) ==
    \A t \in Transfers : /\ Road(k, t) = "up" => Road(l, t) = "up"
                         /\ Road(l, t) = "gone" => Road(k, t) = "gone"

LEMMA FewerRest ==
    ASSUME NEW l, NEW k, NEW b, NEW r, AtRest(l, b, r), Fewer(l, k)
    PROVE  AtRest(k, b, r)
<1>1. r.lane \subseteq Transfers
  BY DEF AtRest, Good, Receiving
<1>2. Good(k, r, {})
  BY <1>1 DEF AtRest, Good, LaneOK, TendedOK, Fewer
<1> QED
  BY <1>2 DEF AtRest

\* Carried: the requests over links that are down are lost.
LEMMA CarriedRest ==
    ASSUME NEW l, NEW k, NEW b, NEW r, AtRest(l, b, r)
    PROVE  AtRest(l, b, Carried(k, r))
<1>1. PICK A : A = {q \in r.asks : Road(k, q.t) = "up"}
  OBVIOUS
<1>2. AtRest(l, b, [r EXCEPT !.asks = A])
  BY <1>1, AsksRest
<1> QED
  BY <1>1, <1>2 DEF Carried

LEMMA ConnectRest ==
    ASSUME FilesInv, NEW s \in Senders, NEW n \in Receivers, NEW road \in {"up", "seen"},
           Connect(s, n, road)
    PROVE  AtRest(link', bytes', rx') /\ link' \in Links
<1>1. /\ shape \in Shapes /\ link \in Links /\ Good(link, rx, {}) /\ rx.freed = {}
      /\ Marked(bytes, rx) /\ rx \in Receiving
  BY InvFacts
<1>2. PICK l : l = Cut(s, n, road)
  OBVIOUS
<1>3. /\ l \in Links
      /\ \A v \in Senders, m \in Receivers : v # s \/ m # n => l[v][m] = link[v][m]
  BY <1>1, <1>2, CutLinks
<1>4. PICK S : S = {t \in Transfers : From(t) = s /\ To(t) = n}
  OBVIOUS
<1>5. \A t \in Transfers : t \notin S => Road(l, t) = Road(link, t)
  BY <1>1, <1>3, <1>4, Places DEF Road
<1>6. PICK X \in SUBSET Transfers : X = {t \in S : rx.row[t] = "accepted"}
  BY <1>4
<1>7. Good(l, rx, X)
  <2>1. LaneOK(l, rx, X)
    <3> SUFFICES ASSUME NEW u \in rx.lane, u \notin X, rx.row[u] # "gone"
                 PROVE  rx.row[u] = "accepted" /\ (u \in rx.timers \/ Road(l, u) = "gone")
      BY DEF LaneOK
    <3>1. u \in Transfers
      BY <1>1 DEF Receiving
    <3>2. rx.row[u] = "accepted" /\ (u \in rx.timers \/ Road(link, u) = "gone")
      BY <1>1 DEF Good, LaneOK
    <3> QED
      BY <1>5, <1>6, <3>1, <3>2
  <2>2. TendedOK(l, rx, X)
    BY <1>1, <1>5, <1>6 DEF Good, TendedOK
  <2> QED
    BY <1>1, <2>1, <2>2 DEF Good
<1>8. \A u \in X : rx.row[u] = "accepted"
  BY <1>6
<1>9. PICK q : q = SetToSeq(S)
  OBVIOUS
<1>10. IsFiniteSet(S)
  BY <1>4, FilesAssumption, FS_Subset
<1>11. q \in Seq(S) /\ ToSet(q) = S
  BY <1>9, <1>10, SetToSeqFacts
<1>12. q \in Seq(Transfers)
  BY <1>4, <1>11
<1>13. PICK r : r = AskedAgain(rx, q, l)
  OBVIOUS
<1>14. Passed(l, rx, q, X, Len(q), r)
  BY <1>1, <1>3, <1>7, <1>8, <1>12, <1>13, PassedAll
<1>15. First(q, Len(q)) = S
  BY <1>11, <1>12, FirstAll
<1>16. X \ S = {} /\ {To(u) : u \in S} \subseteq {n}
  BY <1>4, <1>6
<1>17. Good(l, r, {}) /\ r.freed \subseteq {n} /\ Kept(rx, r)
  BY <1>1, <1>14, <1>15, <1>16 DEF Passed
<1>18. Marked(bytes, r)
  BY <1>1, <1>17, KeptMarked
<1>19. AtRest(l, bytes, Wake(l, r, n))
  BY <1>1, <1>3, <1>17, <1>18, WakeRest
<1>20. r = Resume(l, rx, s, n)
  BY <1>4, <1>9, <1>13 DEF Resume, AskedAgain
<1>21. link' = l /\ bytes' = bytes /\ rx' = Wake(l, r, n)
  BY <1>2, <1>20 DEF Connect
<1> QED
  BY <1>3, <1>19, <1>21

LEMMA DisconnectRest ==
    ASSUME FilesInv, NEW s \in Senders, NEW n \in Receivers, NEW road \in {"seen", "gone"},
           Disconnect(s, n, road)
    PROVE  AtRest(link', bytes', rx') /\ link' \in Links
<1>1. shape \in Shapes /\ link \in Links
  BY InvFacts
<1>2. PICK l : l = Cut(s, n, road)
  OBVIOUS
<1>3. /\ l \in Links /\ l[s][n] = road
      /\ \A v \in Senders, m \in Receivers : v # s \/ m # n => l[v][m] = link[v][m]
  BY <1>1, <1>2, CutLinks
<1>4. link[s][n] = "up" /\ link' = l /\ bytes' = bytes /\ rx' = Carried(l, rx)
  BY <1>2 DEF Disconnect
<1>5. Fewer(link, l)
  BY <1>1, <1>3, <1>4, Places DEF Fewer, Road
<1>6. AtRest(l, bytes, rx)
  BY <1>5, FewerRest DEF FilesInv
<1>7. AtRest(l, bytes, Carried(l, rx))
  BY <1>6, CarriedRest
<1> QED
  BY <1>3, <1>4, <1>7

LEMMA SenderRestartRest ==
    ASSUME FilesInv, NEW s \in Senders, SenderRestart(s)
    PROVE  AtRest(link', bytes', rx') /\ link' \in Links
<1>1. shape \in Shapes /\ link \in Links
  BY InvFacts
<1>2. PICK l : l = [link EXCEPT ![s] = [n \in Receivers |-> NoSession(@[n])]]
  OBVIOUS
<1>3. \A v \in Senders, m \in Receivers :
          l[v][m] = IF v = s THEN NoSession(link[v][m]) ELSE link[v][m]
  BY <1>1, <1>2 DEF Links
<1>4. l \in Links
  BY <1>1, <1>2 DEF Links, NoSession
<1>5. Fewer(link, l)
  BY <1>1, <1>3, Places DEF Fewer, Road, NoSession
<1>6. AtRest(l, bytes, rx)
  BY <1>5, FewerRest DEF FilesInv
<1>7. AtRest(l, bytes, Carried(l, rx))
  BY <1>6, CarriedRest
<1>8. link' = l /\ bytes' = bytes /\ rx' = Carried(l, rx)
  BY <1>2 DEF SenderRestart
<1> QED
  BY <1>4, <1>7, <1>8

\* A receiver starts again: nothing of its files is in memory, and no session
\* is left of which a file could be asked for.
LEMMA NoMemoryGood ==
    ASSUME shape \in Shapes, NEW l, NEW r, NEW n \in Receivers, Good(l, r, {}), r.freed = {},
           \A t \in Transfers : To(t) = n => Road(l, t) # "up"
    PROVE  /\ Good(l, NoMemory(r, n), {}) /\ NoMemory(r, n).freed = {}
           /\ NoMemory(r, n).row = r.row /\ NoMemory(r, n).noted = r.noted /\ NoMemory(r, n).half = r.half
<1>1. PICK mine : mine = {t \in Transfers : To(t) = n}
  OBVIOUS
<1>2. r \in Receiving
  BY DEF Good
<1>3. PICK tries : tries = [t \in Transfers |-> IF t \in mine THEN 0 ELSE r.tries[t]]
  OBVIOUS
<1>4. tries \in [Transfers -> 0..Patience]
  <2>1. 0 \in 0..Patience
    BY FilesAssumption
  <2> QED
    BY <1>2, <1>3, <2>1 DEF Receiving
<1> DEFINE empty == <<>>
<1>5. empty \in Seq(Transfers) /\ ToSet(empty) = {} /\ Once(empty)
  BY DEF ToSet, Once
<1>6. PICK s : s = NoMemory(r, n)
  OBVIOUS
<1>7. s = [r EXCEPT !.lane = r.lane \ mine, !.queued[n] = empty, !.timers = r.timers \ mine,
                    !.tries = tries, !.freed = r.freed \ {n}]
  BY <1>1, <1>3, <1>6 DEF NoMemory
<1> HIDE DEF empty
<1>8. PICK queued : queued = [r.queued EXCEPT ![n] = empty]
  OBVIOUS
<1>9. /\ queued \in [Receivers -> Seq(Transfers)] /\ queued[n] = empty
      /\ \A m \in Receivers : m # n => queued[m] = r.queued[m]
  BY <1>2, <1>5, <1>8 DEF Receiving
<1>10. s = [r EXCEPT !.lane = r.lane \ mine, !.queued = queued, !.timers = r.timers \ mine,
                     !.tries = tries, !.freed = r.freed \ {n}]
  BY <1>7, <1>8
<1>11. /\ s \in Receiving /\ s.row = r.row /\ s.noted = r.noted /\ s.half = r.half /\ s.queued = queued
       /\ s.lane = r.lane \ mine /\ s.timers = r.timers \ mine /\ s.freed = {}
  BY <1>2, <1>4, <1>9, <1>10 DEF Receiving
<1>12. LaneOK(l, s, {})
  BY <1>11 DEF Good, LaneOK
<1>13. TendedOK(l, s, {})
  <2> SUFFICES ASSUME NEW u \in Transfers, s.row[u] = "accepted", Road(l, u) = "up"
               PROVE  u \in s.lane \/ u \in ToSet(s.queued[To(u)])
    BY DEF TendedOK
  <2>1. u \notin mine /\ To(u) # n /\ To(u) \in Receivers
    BY <1>1, Places
  <2> QED
    BY <1>9, <1>11, <2>1 DEF Good, TendedOK
<1>14. QueueOK(s)
  <2> SUFFICES ASSUME NEW m \in Receivers
               PROVE  /\ Once(s.queued[m])
                      /\ \A u \in ToSet(s.queued[m]) : To(u) = m /\ u \notin s.lane
                      /\ s.queued[m] # <<>> /\ m \notin s.freed => Full(s, m)
    BY DEF QueueOK
  <2>1. CASE m = n
    BY <1>5, <1>9, <1>11, <2>1 DEF empty
  <2>2. CASE m # n
    <3>1. OnLane(s, m) = OnLane(r, m)
      BY <1>1, <1>2, <1>11, <2>2 DEF OnLane, Receiving
    <3>2. Full(r, m) => Full(s, m)
      BY <3>1 DEF Full
    <3> QED
      BY <1>9, <1>11, <2>2, <3>2 DEF Good, QueueOK
  <2> QED
    BY <2>1, <2>2
<1> QED
  BY <1>6, <1>11, <1>12, <1>13, <1>14 DEF Good


LEMMA RestartedRest ==
    ASSUME shape \in Shapes, link \in Links, NEW b, NEW r, NEW n \in Receivers,
           Good(link, r, {}), r.freed = {}, Marked(b, r), Restarted(n, r)
    PROVE  AtRest(link', b, rx') /\ link' \in Links
<1>1. PICK l : l = [s \in Senders |-> [link[s] EXCEPT ![n] = NoSession(@)]]
  OBVIOUS
<1>2. \A v \in Senders, m \in Receivers :
          l[v][m] = IF m = n THEN NoSession(link[v][m]) ELSE link[v][m]
  BY <1>1 DEF Links
<1>3. l \in Links
  BY <1>1 DEF Links, NoSession
<1>4. Fewer(link, l) /\ \A t \in Transfers : To(t) = n => Road(l, t) # "up"
  BY <1>2, Places DEF Fewer, Road, NoSession
<1>5. AtRest(link, b, r)
  BY DEF AtRest
<1>6. AtRest(l, b, r)
  BY <1>4, <1>5, FewerRest
<1>7. PICK s : s = NoMemory(r, n)
  OBVIOUS
<1>8. Good(l, s, {}) /\ s.freed = {} /\ s.row = r.row /\ s.noted = r.noted /\ s.half = r.half
  BY <1>4, <1>6, <1>7, NoMemoryGood DEF AtRest
<1>9. AtRest(l, b, s)
  BY <1>8 DEF AtRest, Marked
<1>10. AtRest(l, b, Carried(l, s))
  BY <1>9, CarriedRest
<1>11. link' = l /\ rx' = Carried(l, s)
  BY <1>1, <1>7 DEF Restarted
<1> QED
  BY <1>3, <1>10, <1>11

LEMMA RestartRest ==
    ASSUME FilesInv, NEW n \in Receivers, Restart(n)
    PROVE  AtRest(link', bytes', rx') /\ link' \in Links
<1>1. /\ shape \in Shapes /\ link \in Links /\ Good(link, rx, {}) /\ rx.freed = {}
      /\ Marked(bytes, rx)
  BY InvFacts
<1>2. PICK r : r = rx
  OBVIOUS
<1>3. AtRest(link', bytes, rx') /\ link' \in Links
  BY <1>1, RestartedRest DEF Restart
<1> QED
  BY <1>3 DEF Restart

LEMMA DieStoringRest ==
    ASSUME FilesInv, NEW p \in tx.pieces, DieStoring(p)
    PROVE  AtRest(link', bytes', rx') /\ link' \in Links
<1>1. /\ shape \in Shapes /\ link \in Links /\ Good(link, rx, {}) /\ rx.freed = {}
  BY InvFacts
<1>2. PICK b : b = Stored(p)
  OBVIOUS
<1>3. PICK s : s = Noted(rx, p)
  OBVIOUS
<1>4. Fresh(p) /\ bytes' = b
  BY <1>2 DEF DieStoring, Stored
<1>5. Good(link, s, {}) /\ s.freed = {} /\ Marked(b, s) /\ Marked(b, rx)
  BY <1>2, <1>3, <1>4, NotedRest
<1>6. PICK n \in Receivers : n = To(p.t)
  BY <1>1, PieceFacts, Places
<1>7. Restarted(n, rx) \/ Restarted(n, s)
  BY <1>3, <1>6 DEF DieStoring
<1>8. CASE Restarted(n, rx)
  BY <1>1, <1>4, <1>5, <1>8, RestartedRest
<1>9. CASE Restarted(n, s)
  BY <1>1, <1>4, <1>5, <1>9, RestartedRest
<1> QED
  BY <1>7, <1>8, <1>9

-----------------------------------------------------------------------------
(* A person's move cut short, and the sweep.                                *)

\* Good speaks of neither bytes, marks nor history.
LEMMA OthersGood ==
    ASSUME NEW l, NEW r, NEW s \in Receiving, Good(l, r, {}),
           s.row = r.row, s.lane = r.lane, s.queued = r.queued, s.timers = r.timers,
           s.freed = r.freed
    PROVE  Good(l, s, {})
<1>1. \A m : OnLane(s, m) = OnLane(r, m)
  BY DEF OnLane
<1> QED
  BY <1>1 DEF Good, LaneOK, QueueOK, TendedOK, Full

\* Bytes of t go, and the marks stay.
Halved(r, t) == [r EXCEPT !.half = @ \cup {t}]

LEMMA HalvedRest ==
    ASSUME NEW l, NEW r, NEW t \in Transfers, Good(l, r, {}), r.freed = {}, Marked(bytes, r),
           bytes \in [Transfers -> SUBSET Index], NEW left, NEW b, b = [bytes EXCEPT ![t] = left]
    PROVE  /\ Good(l, Halved(r, t), {}) /\ Halved(r, t).freed = {}
           /\ Marked(b, Halved(r, t))
<1>1. PICK s : s = Halved(r, t)
  OBVIOUS
<1>2. r \in Receiving
  BY DEF Good
<1>3. /\ s \in Receiving /\ s.row = r.row /\ s.lane = r.lane /\ s.queued = r.queued
      /\ s.timers = r.timers /\ s.freed = r.freed
  BY <1>1, <1>2 DEF Halved, Receiving
<1>4. s.noted = r.noted /\ s.half = r.half \cup {t}
  BY <1>1, <1>2 DEF Halved, Receiving
<1>5. Good(l, s, {})
  BY <1>3, OthersGood
<1>6. \A u \in Transfers : u # t => b[u] = bytes[u]
  OBVIOUS
<1>7. Marked(b, s)
  BY <1>3, <1>4, <1>6 DEF Marked
<1> QED
  BY <1>1, <1>3, <1>5, <1>7

LEMMA HalfDeclinedRest ==
    ASSUME FilesInv, NEW t \in Transfers, HalfDeclined(t)
    PROVE  /\ AtRest(link', bytes', rx') /\ link' \in Links
           /\ bytes' \in [Transfers -> SUBSET Index]
<1>1. /\ shape \in Shapes /\ link \in Links /\ Good(link, rx, {}) /\ rx.freed = {}
      /\ Marked(bytes, rx) /\ bytes \in [Transfers -> SUBSET Index]
  BY InvFacts DEF FilesInv, TypeOK
<1>2. PICK left \in SUBSET bytes[t] : bytes' = [bytes EXCEPT ![t] = left]
  BY DEF HalfDeclined
<1>3. PICK b : b = [bytes EXCEPT ![t] = left]
  OBVIOUS
<1>4. bytes' = b /\ b \in [Transfers -> SUBSET Index]
  BY <1>1, <1>2, <1>3
<1>5. PICK r : r = Halved(rx, t)
  OBVIOUS
<1>6. Good(link, r, {}) /\ r.freed = {} /\ Marked(b, r)
  BY <1>1, <1>3, <1>5, HalvedRest
<1>7. PICK n \in Receivers : n = To(t)
  BY <1>1, Places
<1>8. Restarted(n, r) \/ (rx' = r /\ link' = link)
  BY <1>5, <1>7 DEF HalfDeclined, Halved
<1>9. CASE Restarted(n, r)
  BY <1>1, <1>4, <1>6, <1>9, RestartedRest
<1>10. CASE rx' = r /\ link' = link
  BY <1>1, <1>4, <1>6, <1>10 DEF AtRest
<1> QED
  BY <1>4, <1>8, <1>9, <1>10

LEMMA DieForgettingRest ==
    ASSUME FilesInv, NEW t \in Transfers, DieForgetting(t)
    PROVE  /\ AtRest(link', bytes', rx') /\ link' \in Links
           /\ bytes' \in [Transfers -> SUBSET Index]
<1>1. /\ shape \in Shapes /\ link \in Links /\ Good(link, rx, {}) /\ rx.freed = {}
      /\ Marked(bytes, rx) /\ rx \in Receiving /\ bytes \in [Transfers -> SUBSET Index]
  BY InvFacts DEF FilesInv, TypeOK
<1>2. PICK left \in SUBSET bytes[t] : bytes' = [bytes EXCEPT ![t] = left]
  BY DEF DieForgetting
<1>3. PICK b : b = [bytes EXCEPT ![t] = left]
  OBVIOUS
<1>4. bytes' = b /\ b \in [Transfers -> SUBSET Index]
  BY <1>1, <1>2, <1>3
<1>5. PICK a : a = [rx EXCEPT !.row[t] = "gone"]
  OBVIOUS
<1>6. Rowed(rx, a, t, "gone", rx.noted[t])
  BY <1>1, <1>5, RowOnly DEF Rows
<1>7. Good(link, a, {} \cup {t})
  BY <1>1, <1>6, RowedGood
<1>8. a.row[t] = "gone" /\ a.freed = {} /\ a \in Receiving
  BY <1>1, <1>6 DEF Rowed
<1>9. Good(link, a, {} \ {t})
  BY <1>7, <1>8, Handed
<1>10. {} \ {t} = {}
  OBVIOUS
<1>11. Good(link, a, {}) /\ Marked(bytes, a)
  BY <1>1, <1>6, <1>8, <1>9, <1>10 DEF Rowed, Marked
<1>12. PICK r : r = Halved(a, t)
  OBVIOUS
<1>13. Good(link, r, {}) /\ r.freed = {} /\ Marked(b, r)
  BY <1>1, <1>3, <1>8, <1>11, <1>12, HalvedRest
<1>14. PICK n \in Receivers : n = To(t)
  BY <1>1, Places
<1>15. [rx EXCEPT !.row[t] = "gone", !.half = @ \cup {t}] = r
  BY <1>5, <1>12 DEF Halved
<1>16. Restarted(n, r)
  BY <1>14, <1>15 DEF DieForgetting
<1> QED
  BY <1>1, <1>4, <1>13, <1>16, RestartedRest

\* The sweep takes marks of files that are attached to nothing, and bytes that
\* have no mark.
LEMMA SweepRest ==
    ASSUME FilesInv, NEW n \in Receivers, Sweep(n)
    PROVE  /\ AtRest(link', bytes', rx') /\ link' \in Links
           /\ bytes' \in [Transfers -> SUBSET Index]
<1>1. /\ link \in Links /\ Good(link, rx, {}) /\ rx.freed = {} /\ Marked(bytes, rx)
      /\ rx \in Receiving /\ bytes \in [Transfers -> SUBSET Index]
  BY InvFacts DEF FilesInv, TypeOK
<1>2. PICK left : left = [t \in Transfers |->
                              IF Unattached(t) /\ To(t) = n THEN {} ELSE rx.noted[t]]
  OBVIOUS
<1>3. PICK b : b = [t \in Transfers |->
                        IF To(t) = n THEN bytes[t] \cap left[t] ELSE bytes[t]]
  OBVIOUS
<1>4. PICK s : s = [rx EXCEPT !.noted = left]
  OBVIOUS
<1>5. left \in [Transfers -> SUBSET Index] /\ b \in [Transfers -> SUBSET Index]
  BY <1>1, <1>2, <1>3 DEF Receiving
<1>6. /\ s \in Receiving /\ s.row = rx.row /\ s.lane = rx.lane /\ s.queued = rx.queued
      /\ s.timers = rx.timers /\ s.freed = rx.freed /\ s.noted = left /\ s.half = rx.half
  BY <1>1, <1>4, <1>5 DEF Receiving
<1>7. Good(link, s, {})
  BY <1>1, <1>6, OthersGood
<1>8. Marked(b, s)
  BY <1>1, <1>2, <1>3, <1>6 DEF Marked, Unattached
<1>9. link' = link /\ rx' = s /\ bytes' = b
  BY <1>2, <1>3, <1>4 DEF Sweep
<1> QED
  BY <1>1, <1>5, <1>6, <1>7, <1>8, <1>9 DEF AtRest

-----------------------------------------------------------------------------
(* The senders: types.                                                      *)

LEMMA ZeroCount == 0 \in 0..Chunks
BY FilesAssumption

LEMMA DroppedType ==
    ASSUME shape \in Shapes, NEW x \in Sending, NEW gone \in SUBSET Transfers
    PROVE  Dropped(x, gone) \in Sending
<1>1. PICK hit : hit = {t \in gone : t \in ToSet(x.order[From(t)])}
  OBVIOUS
<1>2. hit \in SUBSET Transfers
  BY <1>1
<1>3. PICK order : order = [s \in Senders |-> Those(x.order[s], Transfers \ hit)]
  OBVIOUS
<1>4. order \in [Senders -> Seq(Transfers)]
  <2>1. \A s \in Senders : x.order[s] \in Seq(Transfers)
    BY DEF Sending
  <2>2. \A s \in Senders : Those(x.order[s], Transfers \ hit) \in Seq(Transfers)
    BY <2>1, ThoseFacts
  <2> QED
    BY <1>3, <2>2
<1>5. PICK acked : acked = [t \in Transfers |-> IF t \in hit THEN 0 ELSE x.acked[t]]
  OBVIOUS
<1>6. PICK sent : sent = [t \in Transfers |-> IF t \in hit THEN 0 ELSE x.sent[t]]
  OBVIOUS
<1>7. acked \in [Transfers -> 0..Chunks] /\ sent \in [Transfers -> 0..Chunks]
  BY <1>5, <1>6, ZeroCount DEF Sending
<1>8. PICK freed : freed = x.freed \cup {From(t) : t \in hit}
  OBVIOUS
<1>9. freed \in SUBSET Senders
  BY <1>2, <1>8, Places DEF Sending
<1>10. Dropped(x, gone) = [x EXCEPT !.order = order, !.acked = acked, !.sent = sent,
                                    !.waiting = x.waiting \ hit, !.freed = freed]
  BY <1>1, <1>3, <1>5, <1>6, <1>8 DEF Dropped
<1> QED
  BY <1>4, <1>7, <1>9, <1>10 DEF Sending

LEMMA FedType ==
    ASSUME shape \in Shapes, NEW x \in Sending, NEW t \in Transfers
    PROVE  Fed(x, t) \in Sending
<1>1. PICK until : until = IF x.acked[t] + Window < Chunks THEN x.acked[t] + Window ELSE Chunks
  OBVIOUS
<1>2. x.acked[t] \in 0..Chunks /\ x.sent[t] \in 0..Chunks
  BY DEF Sending
<1>3. until \in 0..Chunks
  BY <1>1, <1>2, FilesAssumption
<1>4. CASE x.sent[t] >= until
  BY <1>1, <1>4 DEF Fed
<1>5. CASE x.sent[t] < until /\ own[File(t)] # "whole"
  <2>1. Copies(File(t)) \in SUBSET Transfers
    BY DEF Copies
  <2>2. Fed(x, t) = Dropped(x, Copies(File(t)))
    BY <1>1, <1>2, <1>3, <1>5 DEF Fed
  <2> QED
    BY <2>1, <2>2, DroppedType
<1>6. CASE x.sent[t] < until /\ own[File(t)] = "whole"
  <2>1. PICK new : new = {[t |-> t, i |-> i] : i \in x.sent[t]..(until - 1)}
    OBVIOUS
  <2>2. \A i \in x.sent[t]..(until - 1) : i \in Index
    BY <1>2, <1>3, FilesAssumption DEF Index
  <2>3. new \in SUBSET [t : Transfers, i : Index]
    BY <2>1, <2>2
  <2>4. PICK sent : sent = [x.sent EXCEPT ![t] = until]
    OBVIOUS
  <2>5. sent \in [Transfers -> 0..Chunks]
    BY <1>3, <2>4 DEF Sending
  <2>6. PICK pieces : pieces = x.pieces \cup new
    OBVIOUS
  <2>7. pieces \in SUBSET [t : Transfers, i : Index]
    BY <2>3, <2>6 DEF Sending
  <2>8. Fed(x, t) = [x EXCEPT !.sent = sent, !.pieces = pieces]
    BY <1>1, <1>2, <1>3, <1>6, <2>1, <2>4, <2>6 DEF Fed
  <2> QED
    BY <2>5, <2>7, <2>8 DEF Sending
<1> QED
  BY <1>2, <1>3, <1>4, <1>5, <1>6

LEMMA PumpType ==
    ASSUME shape \in Shapes, NEW l, NEW x \in Sending, NEW t \in Transfers
    PROVE  Pump(l, x, t) \in Sending
<1>1. PICK more : more = [x EXCEPT !.waiting = @ \cup {t}]
  OBVIOUS
<1>2. PICK less : less = [x EXCEPT !.waiting = @ \ {t}]
  OBVIOUS
<1>3. more \in Sending /\ less \in Sending
  BY <1>1, <1>2 DEF Sending
<1>4. Fed(less, t) \in Sending
  BY <1>3, FedType
<1>5. Pump(l, x, t) \in {x, more, less, Fed(less, t)}
  BY <1>1, <1>2 DEF Pump
<1> QED
  BY <1>3, <1>4, <1>5

PumpedAgain(e, q, l) == InTurn(PumpAgain, e, q, l)

PumpTurns(f, e, q, l) ==
    /\ f[0] = e /\ f[Len(q)] = PumpedAgain(e, q, l)
    /\ \A i \in 1..Len(q) : f[i] = PumpAgain(f[i - 1], q[i], l)

LEMMA PumpTurnSteps ==
    ASSUME NEW e, NEW X, NEW q \in Seq(X), NEW l
    PROVE  \E f : PumpTurns(f, e, q, l)
<1> DEFINE Is(h, k) ==
               h = [i \in 0..k |-> IF i = 0 THEN e ELSE PumpAgain(h[i - 1], q[i], l)]
           done == {k \in Nat : \E h : Is(h, k)}
<1>1. 0 \in done
  <2>1. Is([i \in 0..0 |-> e], 0)
    OBVIOUS
  <2> QED
    BY <2>1
<1>2. ASSUME NEW k \in 1..Len(q), k - 1 \in done
      PROVE  k \in done
  <2>1. PICK h : Is(h, k - 1)
    BY <1>2
  <2>2. PICK g : g = [i \in 0..k |-> IF i = k THEN PumpAgain(h[k - 1], q[k], l) ELSE h[i]]
    OBVIOUS
  <2>3. \A i \in 0..(k - 1) : h[i] = IF i = 0 THEN e ELSE PumpAgain(h[i - 1], q[i], l)
    BY <2>1
  <2> HIDE DEF Is
  <2>4. \A i \in 0..k : g[i] = IF i = k THEN PumpAgain(h[k - 1], q[k], l) ELSE h[i]
    BY <2>2
  <2>5. k \in Nat /\ k > 0
    OBVIOUS
  <2>6. \A i \in 0..(k - 1) : i \in 0..k /\ i # k
    BY <2>5
  <2>7. g[k] = PumpAgain(g[k - 1], q[k], l) /\ \A i \in 0..(k - 1) : g[i] = h[i]
    BY <2>4, <2>5, <2>6
  <2>8. \A i \in 0..k : g[i] = IF i = 0 THEN e ELSE PumpAgain(g[i - 1], q[i], l)
    BY <2>3, <2>7
  <2>9. Is(g, k)
    BY <2>2, <2>8 DEF Is
  <2> QED
    BY <2>9
<1> HIDE DEF done
<1>3. Len(q) \in Nat /\ done \in SUBSET Nat
  BY DEF done
<1>4. \A k \in 0..Len(q) : k \in done
  BY <1>1, <1>2, <1>3, Induct
<1>5. \E h : Is(h, Len(q))
  BY <1>3, <1>4 DEF done
<1> DEFINE f == CHOOSE h : Is(h, Len(q))
<1>6. Is(f, Len(q))
  BY <1>5
<1>7. f[Len(q)] = PumpedAgain(e, q, l)
  BY DEF PumpedAgain, InTurn
<1> HIDE DEF f
<1>8. f = [i \in 0..Len(q) |-> IF i = 0 THEN e ELSE PumpAgain(f[i - 1], q[i], l)]
  BY <1>6
<1> HIDE DEF Is
<1>9. \A i \in 0..Len(q) : f[i] = IF i = 0 THEN e ELSE PumpAgain(f[i - 1], q[i], l)
  BY <1>8
<1>10. 0 \in 0..Len(q) /\ \A i \in 1..Len(q) : i \in 0..Len(q) /\ i # 0
  BY <1>3
<1>11. f[0] = e /\ \A i \in 1..Len(q) : f[i] = PumpAgain(f[i - 1], q[i], l)
  BY <1>9, <1>10
<1> QED
  BY <1>7, <1>11 DEF PumpTurns

LEMMA PumpedType ==
    ASSUME shape \in Shapes, NEW l, NEW e \in Sending, NEW q \in Seq(Transfers)
    PROVE  PumpedAgain(e, q, l) \in Sending
<1>1. PICK f : PumpTurns(f, e, q, l)
  BY PumpTurnSteps
<1> DEFINE done == {k \in Nat : f[k] \in Sending}
<1>2. 0 \in done
  BY <1>1 DEF PumpTurns
<1>3. ASSUME NEW k \in 1..Len(q), k - 1 \in done
      PROVE  k \in done
  <2>1. PICK x \in Sending : x = f[k - 1]
    BY <1>3
  <2>2. f[k] = PumpAgain(x, q[k], l)
    BY <1>1, <2>1 DEF PumpTurns
  <2>3. q[k] \in Transfers
    OBVIOUS
  <2>4. Pump(l, x, q[k]) \in Sending
    BY <2>3, PumpType
  <2> QED
    BY <2>2, <2>4 DEF PumpAgain
<1> HIDE DEF done
<1>4. Len(q) \in Nat /\ done \in SUBSET Nat
  BY DEF done
<1>5. \A k \in 0..Len(q) : k \in done
  BY <1>2, <1>3, <1>4, Induct
<1>6. f[Len(q)] \in Sending
  BY <1>4, <1>5 DEF done
<1> QED
  BY <1>1, <1>6 DEF PumpTurns

LEMMA WokenType ==
    ASSUME shape \in Shapes, NEW l, NEW x \in Sending, NEW s \in Senders
    PROVE  Woken(x, s, l) \in Sending
<1>1. PICK mine : mine = {t \in x.waiting : From(t) = s}
  OBVIOUS
<1>2. PICK e : e = [x EXCEPT !.freed = @ \ {s}, !.waiting = @ \ mine]
  OBVIOUS
<1>3. e \in Sending
  BY <1>2 DEF Sending
<1>4. mine \subseteq Transfers
  BY <1>1 DEF Sending
<1>5. IsFiniteSet(mine)
  BY <1>4, FilesAssumption, FS_Subset
<1>6. PICK q : q = SetToSeq(mine)
  OBVIOUS
<1>7. q \in Seq(mine)
  BY <1>5, <1>6, SetToSeqFacts
<1>8. q \in Seq(Transfers)
  BY <1>4, <1>7
<1>9. PumpedAgain(e, q, l) \in Sending
  BY <1>3, <1>8, PumpedType
<1>10. Woken(x, s, l) = IF s \notin x.freed THEN x ELSE PumpedAgain(e, q, l)
  BY <1>1, <1>2, <1>6 DEF Woken, PumpedAgain
<1> QED
  BY <1>9, <1>10

WokenAll(e, q, l) == InTurn(Woken, e, q, l)

WokenTurns(f, e, q, l) ==
    /\ f[0] = e /\ f[Len(q)] = WokenAll(e, q, l)
    /\ \A i \in 1..Len(q) : f[i] = Woken(f[i - 1], q[i], l)

LEMMA WokenTurnSteps ==
    ASSUME NEW e, NEW X, NEW q \in Seq(X), NEW l
    PROVE  \E f : WokenTurns(f, e, q, l)
<1> DEFINE Is(h, k) ==
               h = [i \in 0..k |-> IF i = 0 THEN e ELSE Woken(h[i - 1], q[i], l)]
           done == {k \in Nat : \E h : Is(h, k)}
<1>1. 0 \in done
  <2>1. Is([i \in 0..0 |-> e], 0)
    OBVIOUS
  <2> QED
    BY <2>1
<1>2. ASSUME NEW k \in 1..Len(q), k - 1 \in done
      PROVE  k \in done
  <2>1. PICK h : Is(h, k - 1)
    BY <1>2
  <2>2. PICK g : g = [i \in 0..k |-> IF i = k THEN Woken(h[k - 1], q[k], l) ELSE h[i]]
    OBVIOUS
  <2>3. \A i \in 0..(k - 1) : h[i] = IF i = 0 THEN e ELSE Woken(h[i - 1], q[i], l)
    BY <2>1
  <2> HIDE DEF Is
  <2>4. \A i \in 0..k : g[i] = IF i = k THEN Woken(h[k - 1], q[k], l) ELSE h[i]
    BY <2>2
  <2>5. k \in Nat /\ k > 0
    OBVIOUS
  <2>6. \A i \in 0..(k - 1) : i \in 0..k /\ i # k
    BY <2>5
  <2>7. g[k] = Woken(g[k - 1], q[k], l) /\ \A i \in 0..(k - 1) : g[i] = h[i]
    BY <2>4, <2>5, <2>6
  <2>8. \A i \in 0..k : g[i] = IF i = 0 THEN e ELSE Woken(g[i - 1], q[i], l)
    BY <2>3, <2>7
  <2>9. Is(g, k)
    BY <2>2, <2>8 DEF Is
  <2> QED
    BY <2>9
<1> HIDE DEF done
<1>3. Len(q) \in Nat /\ done \in SUBSET Nat
  BY DEF done
<1>4. \A k \in 0..Len(q) : k \in done
  BY <1>1, <1>2, <1>3, Induct
<1>5. \E h : Is(h, Len(q))
  BY <1>3, <1>4 DEF done
<1> DEFINE f == CHOOSE h : Is(h, Len(q))
<1>6. Is(f, Len(q))
  BY <1>5
<1>7. f[Len(q)] = WokenAll(e, q, l)
  BY DEF WokenAll, InTurn
<1> HIDE DEF f
<1>8. f = [i \in 0..Len(q) |-> IF i = 0 THEN e ELSE Woken(f[i - 1], q[i], l)]
  BY <1>6
<1> HIDE DEF Is
<1>9. \A i \in 0..Len(q) : f[i] = IF i = 0 THEN e ELSE Woken(f[i - 1], q[i], l)
  BY <1>8
<1>10. 0 \in 0..Len(q) /\ \A i \in 1..Len(q) : i \in 0..Len(q) /\ i # 0
  BY <1>3
<1>11. f[0] = e /\ \A i \in 1..Len(q) : f[i] = Woken(f[i - 1], q[i], l)
  BY <1>9, <1>10
<1> QED
  BY <1>7, <1>11 DEF WokenTurns

LEMMA WokenAllType ==
    ASSUME shape \in Shapes, NEW l, NEW e \in Sending, NEW q \in Seq(Senders)
    PROVE  WokenAll(e, q, l) \in Sending
<1>1. PICK f : WokenTurns(f, e, q, l)
  BY WokenTurnSteps
<1> DEFINE done == {k \in Nat : f[k] \in Sending}
<1>2. 0 \in done
  BY <1>1 DEF WokenTurns
<1>3. ASSUME NEW k \in 1..Len(q), k - 1 \in done
      PROVE  k \in done
  <2>1. PICK x \in Sending : x = f[k - 1]
    BY <1>3
  <2>2. f[k] = Woken(x, q[k], l)
    BY <1>1, <2>1 DEF WokenTurns
  <2>3. q[k] \in Senders
    OBVIOUS
  <2> QED
    BY <2>2, <2>3, WokenType
<1> HIDE DEF done
<1>4. Len(q) \in Nat /\ done \in SUBSET Nat
  BY DEF done
<1>5. \A k \in 0..Len(q) : k \in done
  BY <1>2, <1>3, <1>4, Induct
<1>6. f[Len(q)] \in Sending
  BY <1>4, <1>5 DEF done
<1> QED
  BY <1>1, <1>6 DEF WokenTurns

LEMMA AskedForType ==
    ASSUME shape \in Shapes, NEW x \in Sending, NEW q,
           q \in [t : Transfers, next : Index, stalled : BOOLEAN]
    PROVE  AskedFor(x, q) \in Sending
<1>1. PICK t \in Transfers : t = q.t
  OBVIOUS
<1>2. PICK s \in Senders : s = From(t)
  BY Places
<1>3. q.next \in 0..Chunks
  BY FilesAssumption DEF Index
<1>4. x.order[s] \in Seq(Transfers)
  BY DEF Sending
<1>5. PICK line : line = Append(Those(x.order[s], Transfers \ {t}), t)
  OBVIOUS
<1>6. line \in Seq(Transfers)
  <2>1. Those(x.order[s], Transfers \ {t}) \in Seq(Transfers)
    BY <1>4, ThoseFacts
  <2> QED
    BY <1>5, <2>1
<1>7. PICK order : order = [x.order EXCEPT ![s] = line]
  OBVIOUS
<1>8. PICK acked : acked = [x.acked EXCEPT ![t] = q.next]
  OBVIOUS
<1>9. PICK known : known = (t \in ToSet(x.order[s]))
  OBVIOUS
<1>10. PICK k : k = IF known /\ ~q.stalled /\ x.sent[t] > q.next THEN x.sent[t] ELSE q.next
  OBVIOUS
<1>11. k \in 0..Chunks
  BY <1>3, <1>10 DEF Sending
<1>12. PICK sent : sent = [x.sent EXCEPT ![t] = k]
  OBVIOUS
<1>13. /\ order \in [Senders -> Seq(Transfers)] /\ acked \in [Transfers -> 0..Chunks]
       /\ sent \in [Transfers -> 0..Chunks]
  BY <1>3, <1>6, <1>7, <1>8, <1>11, <1>12 DEF Sending
<1>14. AskedFor(x, q) = [x EXCEPT !.order = order, !.acked = acked, !.sent = sent]
  BY <1>1, <1>2, <1>5, <1>7, <1>8, <1>9, <1>10, <1>12 DEF AskedFor
<1> QED
  BY <1>13, <1>14 DEF Sending

-----------------------------------------------------------------------------
(* What each event does to the rest.                                        *)

\* The state but for the receivers and the links.
RestOK ==
    /\ shape \in Shapes
    /\ bytes \in [Transfers -> SUBSET Index]
    /\ tx \in Sending
    /\ own \in [Content -> {"whole", "torn", "deleted"}]
    /\ moves \in 0..MaxMoves /\ mishaps \in 0..Mishaps

LEMMA InvParts == FilesInv <=> RestOK /\ link \in Links /\ AtRest(link, bytes, rx)
BY DEF FilesInv, TypeOK, RestOK, Links, AtRest, Good

LEMMA CarriedType ==
    ASSUME NEW l, NEW x \in Sending
    PROVE  Borne(l, x) \in Sending
BY DEF Borne, Sending

LEMMA MoreMoves ==
    ASSUME RestOK
    PROVE  /\ moves < MaxMoves => moves + 1 \in 0..MaxMoves
           /\ mishaps < Mishaps => mishaps + 1 \in 0..Mishaps
BY FilesAssumption DEF RestOK

LEMMA ReceiverOK ==
    ASSUME RestOK, NEW t \in Transfers,
           Offer(t) \/ Accept(t) \/ Pause(t) \/ Decline(t) \/ Forget(t) \/ OnStall(t)
    PROVE  RestOK'
<1>1. UNCHANGED <<shape, own, tx>>
  BY DEF Offer, Accept, Pause, Decline, Forget, OnStall
<1>2. bytes' = bytes \/ bytes' = [bytes EXCEPT ![t] = {}]
  BY DEF Offer, Accept, Pause, Decline, Forget, OnStall
<1>3. bytes' \in [Transfers -> SUBSET Index]
  BY <1>2 DEF RestOK
<1>4. moves' \in 0..MaxMoves
  <2>1. moves' = moves \/ (moves < MaxMoves /\ moves' = moves + 1)
    BY DEF Offer, Accept, Pause, Decline, Forget, OnStall
  <2> QED
    BY <2>1, MoreMoves DEF RestOK
<1>5. mishaps' \in 0..Mishaps
  <2>1. CASE OnStall(t)
    <3>1. PICK early \in {0, 1} : mishaps + early <= Mishaps /\ mishaps' = mishaps + early
      BY <2>1 DEF OnStall
    <3> QED
      BY <3>1, FilesAssumption DEF RestOK
  <2>2. CASE ~OnStall(t)
    <3>1. mishaps' = mishaps
      BY <2>2 DEF Offer, Accept, Pause, Decline, Forget
    <3> QED
      BY <3>1 DEF RestOK
  <2> QED
    BY <2>1, <2>2
<1> QED
  BY <1>1, <1>3, <1>4, <1>5 DEF RestOK

LEMMA StoredType ==
    ASSUME RestOK, NEW p \in tx.pieces
    PROVE  Stored(p) \in [Transfers -> SUBSET Index]
<1>1. p.t \in Transfers /\ p.i \in Index
  BY DEF RestOK, Sending
<1>2. bytes[p.t] \cup {p.i} \in SUBSET Index
  BY <1>1 DEF RestOK
<1> QED
  BY <1>1, <1>2 DEF Stored, RestOK

LEMMA ChunkOK ==
    ASSUME RestOK, NEW p \in tx.pieces, OnChunk(p)
    PROVE  RestOK'
<1>1. tx' \in Sending
  BY DEF OnChunk, RestOK, Sending
<1>2. bytes' = bytes \/ bytes' = Stored(p)
  BY DEF OnChunk, Stored
<1>3. bytes' \in [Transfers -> SUBSET Index]
  BY <1>2, StoredType DEF RestOK
<1> QED
  BY <1>1, <1>3 DEF OnChunk, RestOK

LEMMA RequestOK ==
    ASSUME RestOK, rx \in Receiving, NEW q \in rx.asks, OnRequest(q)
    PROVE  RestOK'
<1>1. q \in [t : Transfers, next : Index, stalled : BOOLEAN]
  BY DEF Receiving
<1>2. PICK t \in Transfers : t = q.t
  BY <1>1
<1>3. shape \in Shapes /\ tx \in Sending
  BY DEF RestOK
<1>4. PICK a \in Sending : a = AskedFor(tx, q)
  BY <1>1, <1>3, AskedForType
<1>5. PICK x \in Sending : x = Pump(link, a, t)
  BY <1>3, PumpType
<1>6. PICK s \in Senders : s = From(t)
  BY <1>3, Places
<1>7. Woken(x, s, link) \in Sending
  BY <1>3, WokenType
<1>8. tx' = IF own[File(t)] = "deleted" THEN tx ELSE Woken(x, s, link)
  BY <1>2, <1>4, <1>5, <1>6 DEF OnRequest
<1>9. tx' \in Sending
  BY <1>3, <1>7, <1>8
<1> QED
  BY <1>9 DEF OnRequest, RestOK

LEMMA SourceOK ==
    ASSUME RestOK, NEW f \in Content, Tear(f) \/ Withdraw(f)
    PROVE  RestOK'
<1>1. shape \in Shapes /\ tx \in Sending
  BY DEF RestOK
<1>2. CASE Tear(f)
  <2>1. moves' \in 0..MaxMoves
    BY <1>2, MoreMoves DEF Tear
  <2> QED
    BY <1>2, <2>1 DEF Tear, RestOK
<1>3. CASE Withdraw(f)
  <2>1. moves' \in 0..MaxMoves
    BY <1>3, MoreMoves DEF Withdraw
  <2>2. Copies(f) \in SUBSET Transfers
    BY DEF Copies
  <2>3. PICK x \in Sending : x = Dropped(tx, Copies(f))
    BY <1>1, <2>2, DroppedType
  <2>4. PICK q : q = SetToSeq(Senders)
    OBVIOUS
  <2>5. q \in Seq(Senders)
    BY <2>4, SetToSeqFacts, FilesAssumption
  <2>6. WokenAll(x, q, link) \in Sending
    BY <1>1, <2>5, WokenAllType
  <2>7. tx' = WokenAll(x, q, link)
    BY <1>3, <2>3, <2>4 DEF Withdraw, WokenAll
  <2> QED
    BY <1>3, <2>1, <2>6, <2>7 DEF Withdraw, RestOK
<1> QED
  BY <1>2, <1>3

LEMMA LinksOK ==
    ASSUME RestOK, NEW s \in Senders, NEW n \in Receivers, NEW road,
           Connect(s, n, road) \/ Disconnect(s, n, road)
    PROVE  RestOK'
<1>1. CASE Connect(s, n, road)
  BY <1>1 DEF Connect, RestOK
<1>2. CASE Disconnect(s, n, road)
  <2>1. mishaps' \in 0..Mishaps
    BY <1>2, MoreMoves DEF Disconnect
  <2>2. PICK l : l = Cut(s, n, road)
    OBVIOUS
  <2>3. tx' = Borne(l, tx)
    BY <1>2, <2>2 DEF Disconnect
  <2>4. tx' \in Sending
    BY <2>3, CarriedType DEF RestOK
  <2> QED
    BY <1>2, <2>1, <2>4 DEF Disconnect, RestOK
<1> QED
  BY <1>1, <1>2

LEMMA RestartedOK ==
    ASSUME RestOK, NEW n, NEW r, Restarted(n, r), bytes' \in [Transfers -> SUBSET Index],
           moves' \in 0..MaxMoves
    PROVE  RestOK'
<1>1. mishaps' \in 0..Mishaps
  BY MoreMoves DEF Restarted
<1>2. PICK l : l = [s \in Senders |-> [link[s] EXCEPT ![n] = NoSession(@)]]
  OBVIOUS
<1>3. tx' = Borne(l, tx)
  BY <1>2 DEF Restarted
<1>4. tx' \in Sending
  BY <1>3, CarriedType DEF RestOK
<1> QED
  BY <1>1, <1>4 DEF Restarted, RestOK

LEMMA CutShortOK ==
    ASSUME RestOK, NEW t \in Transfers, HalfDeclined(t) \/ DieForgetting(t),
           bytes' \in [Transfers -> SUBSET Index]
    PROVE  RestOK'
<1>1. moves' \in 0..MaxMoves
  BY MoreMoves DEF HalfDeclined, DieForgetting
<1>2. CASE \E r : Restarted(To(t), r)
  <2>1. PICK r : Restarted(To(t), r)
    BY <1>2
  <2>2. PICK n : n = To(t)
    OBVIOUS
  <2>3. Restarted(n, r)
    BY <2>1, <2>2
  <2> QED
    BY <1>1, <2>3, RestartedOK
<1>3. CASE ~\E r : Restarted(To(t), r)
  <2>1. /\ mishaps < Mishaps /\ mishaps' = mishaps + 1
        /\ UNCHANGED <<shape, own, tx>>
    BY <1>3 DEF HalfDeclined, DieForgetting
  <2> QED
    BY <1>1, <2>1, MoreMoves DEF RestOK
<1> QED
  BY <1>2, <1>3

LEMMA SenderRestartOK ==
    ASSUME RestOK, NEW s \in Senders, SenderRestart(s)
    PROVE  RestOK'
<1>1. mishaps' \in 0..Mishaps
  BY MoreMoves DEF SenderRestart
<1>2. PICK mine \in SUBSET Transfers : mine = {t \in Transfers : From(t) = s}
  OBVIOUS
<1>3. PICK x \in Sending : x = Dropped(tx, mine)
  BY DroppedType DEF RestOK
<1>4. PICK l : l = [link EXCEPT ![s] = [n \in Receivers |-> NoSession(@[n])]]
  OBVIOUS
<1>5. PICK y \in Sending : y = Borne(l, x)
  BY CarriedType
<1>6. tx' = [y EXCEPT !.freed = @ \ {s}]
  BY <1>2, <1>3, <1>4, <1>5 DEF SenderRestart
<1>7. tx' \in Sending
  BY <1>6 DEF Sending
<1> QED
  BY <1>1, <1>7 DEF SenderRestart, RestOK

LEMMA LoseOK ==
    ASSUME RestOK, Lose
    PROVE  RestOK'
<1>1. mishaps' \in 0..Mishaps
  BY MoreMoves DEF Lose
<1>2. tx' \in Sending
  <2>1. CASE UNCHANGED tx
    BY <2>1 DEF RestOK
  <2>2. CASE \E p \in tx.pieces : tx' = [tx EXCEPT !.pieces = @ \ {p}]
    <3>1. PICK p : tx' = [tx EXCEPT !.pieces = @ \ {p}]
      BY <2>2
    <3> QED
      BY <3>1 DEF RestOK, Sending
  <2> QED
    BY <2>1, <2>2 DEF Lose
<1> QED
  BY <1>1, <1>2 DEF Lose, RestOK

-----------------------------------------------------------------------------
(* The theorems.                                                            *)

LEMMA StartInv ==
    ASSUME Init
    PROVE  FilesInv
<1>1. RestOK
  <2>1. 0 \in 0..MaxMoves /\ 0 \in 0..Mishaps
    BY FilesAssumption
  <2>2. TxInit \in Sending
    BY ZeroCount DEF TxInit, Sending
  <2> QED
    BY <2>1, <2>2 DEF Init, RestOK
<1>2. link \in Links
  BY DEF Init, Links
<1>3. PICK r : r = RxInit
  OBVIOUS
<1> DEFINE empty == <<>>
<1>4. empty \in Seq(Transfers) /\ ToSet(empty) = {} /\ Once(empty)
  BY DEF ToSet, Once
<1>5. r = [row |-> [t \in Transfers |-> "none"], noted |-> [t \in Transfers |-> {}],
           lane |-> {}, queued |-> [n \in Receivers |-> empty], timers |-> {},
           tries |-> [t \in Transfers |-> 0], freed |-> {}, asks |-> {}, half |-> {}]
  BY <1>3 DEF RxInit
<1> HIDE DEF empty
<1>6. r \in Receiving
  <2>1. 0 \in 0..Patience
    BY FilesAssumption
  <2> QED
    BY <1>4, <1>5, <2>1 DEF Receiving, Rows
<1>7. /\ \A t \in Transfers : r.row[t] = "none" /\ r.noted[t] = {}
      /\ \A n \in Receivers : r.queued[n] = empty
      /\ r.lane = {} /\ r.freed = {}
  BY <1>5
<1>8. LaneOK(link, r, {}) /\ TendedOK(link, r, {}) /\ Marked(bytes, r)
  BY <1>7 DEF LaneOK, TendedOK, Marked
<1>9. QueueOK(r)
  BY <1>4, <1>7 DEF QueueOK, empty
<1>10. AtRest(link, bytes, r)
  BY <1>6, <1>7, <1>8, <1>9 DEF AtRest, Good
<1>11. rx = r
  BY <1>3 DEF Init
<1> QED
  BY <1>1, <1>2, <1>10, <1>11, InvParts

LEMMA NextInv ==
    ASSUME FilesInv, [Next]_vars
    PROVE  FilesInv'
<1>1. /\ RestOK /\ link \in Links /\ AtRest(link, bytes, rx) /\ rx \in Receiving
      /\ shape \in Shapes /\ Good(link, rx, {}) /\ rx.freed = {} /\ Marked(bytes, rx)
  BY InvParts, InvFacts
<1>2. SUFFICES RestOK' /\ link' \in Links /\ AtRest(link, bytes, rx)'
  BY DEF FilesInv, TypeOK, RestOK, Links, AtRest, Good
<1>3. AtRest(link', bytes', rx') => AtRest(link, bytes, rx)'
  <2>1. UNCHANGED shape
    BY DEF Next, vars, Person, Offer, OnStall, Accept, Pause, Decline, Forget, OnRequest,
           OnChunk, DieStoring, Restarted, Tear, Withdraw, SenderRestart, Restart,
           HalfDeclined, DieForgetting, Sweep, Connect, Disconnect, Lose
  <2>2. LaneOK(link', rx', {}) => LaneOK(link, rx, {})'
    BY <2>1 DEF LaneOK, Road, From, To
  <2>3. TendedOK(link', rx', {}) => TendedOK(link, rx, {})'
    BY <2>1 DEF TendedOK, Road, From, To
  <2>4. QueueOK(rx') => QueueOK(rx)'
    <3>1. \A n \in Receivers : Full(rx', n) => Full(rx, n)'
      BY <2>1 DEF Full, OnLane, To
    <3> QED
      BY <2>1, <3>1 DEF QueueOK, To
  <2> QED
    BY <2>2, <2>3, <2>4 DEF AtRest, Good, Marked
<1>4. CASE \E t \in Transfers : Offer(t) \/ OnStall(t) \/ Accept(t) \/ Pause(t)
                                \/ Decline(t) \/ Forget(t)
  <2>1. PICK t \in Transfers : Offer(t) \/ OnStall(t) \/ Accept(t) \/ Pause(t)
                                \/ Decline(t) \/ Forget(t)
    BY <1>4
  <2>2. RestOK'
    BY <1>1, <2>1, ReceiverOK
  <2>3. link' = link
    BY <2>1 DEF Offer, OnStall, Accept, Pause, Decline, Forget
  <2>4. CASE Accept(t)
    BY <1>1, <1>3, <2>2, <2>3, <2>4, AcceptedRest DEF Accept
  <2>5. CASE ~Accept(t)
    BY <1>1, <1>3, <2>1, <2>2, <2>3, <2>5, OfferRest, StallRest, PauseRest, DeclineRest, ForgetRest
  <2> QED
    BY <2>4, <2>5
<1>5. CASE \E q \in rx.asks : OnRequest(q)
  <2>1. PICK q \in rx.asks : OnRequest(q)
    BY <1>5
  <2>2. RestOK' /\ AtRest(link', bytes', rx')
    BY <1>1, <2>1, RequestOK, RequestRest
  <2>3. link' = link
    BY <2>1 DEF OnRequest
  <2> QED
    BY <1>1, <1>3, <2>2, <2>3
<1>6. CASE \E p \in tx.pieces : OnChunk(p)
  <2>1. PICK p \in tx.pieces : OnChunk(p)
    BY <1>6
  <2>2. RestOK' /\ AtRest(link', bytes', rx')
    BY <1>1, <2>1, ChunkOK, ChunkRest
  <2>3. link' = link
    BY <2>1 DEF OnChunk
  <2> QED
    BY <1>1, <1>3, <2>2, <2>3
<1>7. CASE \E p \in tx.pieces : DieStoring(p)
  <2>1. PICK p \in tx.pieces : DieStoring(p)
    BY <1>7
  <2>2. link' \in Links /\ AtRest(link', bytes', rx')
    BY <2>1, DieStoringRest
  <2>3. bytes' = Stored(p)
    BY <2>1 DEF DieStoring, Stored
  <2>4. bytes' \in [Transfers -> SUBSET Index]
    BY <1>1, <2>3, StoredType
  <2>5. PICK r : Restarted(To(p.t), r)
    BY <2>1 DEF DieStoring
  <2>6. RestOK'
    <3>1. moves' \in 0..MaxMoves
      BY <1>1, <2>1 DEF DieStoring, RestOK
    <3> QED
      BY <1>1, <2>4, <2>5, <3>1, RestartedOK
  <2> QED
    BY <1>3, <2>2, <2>6
<1>8. CASE \E f \in Content : Tear(f) \/ Withdraw(f)
  <2>1. PICK f \in Content : Tear(f) \/ Withdraw(f)
    BY <1>8
  <2>2. RestOK'
    BY <1>1, <2>1, SourceOK
  <2>3. link' = link /\ bytes' = bytes /\ rx' = rx
    BY <2>1 DEF Tear, Withdraw
  <2> QED
    BY <1>1, <1>3, <2>2, <2>3
<1>9. CASE \E s \in Senders : SenderRestart(s)
  BY <1>1, <1>3, <1>9, SenderRestartOK, SenderRestartRest
<1>10. CASE \E n \in Receivers : Restart(n)
  <2>1. PICK n \in Receivers : Restart(n)
    BY <1>10
  <2>2. link' \in Links /\ AtRest(link', bytes', rx')
    BY <2>1, RestartRest
  <2>3. Restarted(n, rx) /\ bytes' \in [Transfers -> SUBSET Index]
    BY <1>1, <2>1 DEF Restart, RestOK
  <2>4. PICK r : Restarted(n, r)
    BY <2>3
  <2>5. RestOK'
    <3>1. moves' \in 0..MaxMoves
      BY <1>1, <2>1 DEF Restart, RestOK
    <3> QED
      BY <1>1, <2>3, <2>4, <3>1, RestartedOK
  <2> QED
    BY <1>3, <2>2, <2>5
<1>11. CASE \E s \in Senders, n \in Receivers, road \in {"up", "seen"} : Connect(s, n, road)
  BY <1>1, <1>3, <1>11, LinksOK, ConnectRest
<1>12. CASE \E s \in Senders, n \in Receivers, road \in {"seen", "gone"} :
                Disconnect(s, n, road)
  BY <1>1, <1>3, <1>12, LinksOK, DisconnectRest
<1>13. CASE Lose
  <2>1. link' = link
    BY <1>13 DEF Lose
  <2> QED
    BY <1>1, <1>3, <1>13, <2>1, LoseOK, LoseRest
<1>14. CASE \E t \in Transfers : HalfDeclined(t) \/ DieForgetting(t)
  <2>1. PICK t \in Transfers : HalfDeclined(t) \/ DieForgetting(t)
    BY <1>14
  <2>2. link' \in Links /\ AtRest(link', bytes', rx') /\ bytes' \in [Transfers -> SUBSET Index]
    BY <2>1, HalfDeclinedRest, DieForgettingRest
  <2>3. RestOK'
    BY <1>1, <2>1, <2>2, CutShortOK
  <2> QED
    BY <1>3, <2>2, <2>3
<1>15. CASE \E n \in Receivers : Sweep(n)
  <2>1. PICK n \in Receivers : Sweep(n)
    BY <1>15
  <2>2. link' \in Links /\ AtRest(link', bytes', rx') /\ bytes' \in [Transfers -> SUBSET Index]
    BY <2>1, SweepRest
  <2>3. RestOK'
    BY <1>1, <2>1, <2>2 DEF Sweep, RestOK
  <2> QED
    BY <1>3, <2>2, <2>3
<1>16. CASE UNCHANGED vars
  BY <1>1, <1>3, <1>16 DEF vars, RestOK
<1> QED
  BY <1>4, <1>5, <1>6, <1>7, <1>8, <1>9, <1>10, <1>11, <1>12, <1>13, <1>14, <1>15, <1>16
     DEF Next, Person

\* on_file_request, on_file_chunk, ask_for_file: a request asks for a chunk
\* the file has, a piece is one, and no counter leaves its range.
THEOREM FilesTypes == Spec => []TypeOK
<1>1. Init => FilesInv
  BY StartInv
<1>2. FilesInv /\ [Next]_vars => FilesInv'
  BY NextInv
<1>3. FilesInv => TypeOK
  BY DEF FilesInv
<1> QED
  BY <1>1, <1>2, <1>3, PTL DEF Spec

\* blobs.rs, note_chunk: what is marked is on disk, and a complete file is there
\* to its last chunk, whenever the receiver died; but for a file a person was
\* taking away when it did.
THEOREM TheMarkedIsThere == Spec => []MarkedIsThere
<1>1. Init => FilesInv
  BY StartInv
<1>2. FilesInv /\ [Next]_vars => FilesInv'
  BY NextInv
<1>3. FilesInv => MarkedIsThere
  BY DEF FilesInv, AtRest, Marked, MarkedIsThere
<1> QED
  BY <1>1, <1>2, <1>3, PTL DEF Spec

LEMMA WakerInv ==
    ASSUME FilesInv
    PROVE  WaitersHaveAWaker
<1> SUFFICES ASSUME NEW n \in Receivers, rx.queued[n] # <<>>
             PROVE  /\ Cardinality(OnLane(rx, n)) >= Limit
                    /\ \E u \in OnLane(rx, n) : u \in rx.timers \/ Abandoned(u)
  BY DEF WaitersHaveAWaker
<1>1. Good(link, rx, {}) /\ rx.freed = {} /\ rx \in Receiving
  BY InvFacts
<1>2. Cardinality(OnLane(rx, n)) >= Limit
  BY <1>1 DEF Good, QueueOK, Full
<1>3. OnLane(rx, n) # {}
  <2>1. OnLane(rx, n) = {} => Cardinality(OnLane(rx, n)) = 0
    BY FS_EmptySet
  <2> QED
    BY <1>2, <2>1, FilesAssumption
<1>4. PICK u \in OnLane(rx, n) : u \in rx.lane
  BY <1>3 DEF OnLane
<1>5. u \in rx.timers \/ Abandoned(u)
  BY <1>1, <1>4 DEF Good, LaneOK, Abandoned
<1> QED
  BY <1>2, <1>4, <1>5

\* leave_lane, wake_queued_files: who waits in a queue waits for as many files
\* as the rung takes, and one of them has a timer or is kept for nobody.
THEOREM TheWaitersHaveAWaker == Spec => []WaitersHaveAWaker
<1>1. Init => FilesInv
  BY StartInv
<1>2. FilesInv /\ [Next]_vars => FilesInv'
  BY NextInv
<1>3. FilesInv => WaitersHaveAWaker
  BY WakerInv
<1> QED
  BY <1>1, <1>2, <1>3, PTL DEF Spec

LEMMA TendedInv ==
    ASSUME FilesInv
    PROVE  TendedOnce
<1> SUFFICES ASSUME NEW t \in Transfers, rx.row[t] = "accepted", Road(link, t) = "up"
             PROVE  LET places == Cardinality({k \in DOMAIN rx.queued[To(t)] :
                                                   rx.queued[To(t)][k] = t})
                    IN  IF t \in rx.lane THEN places = 0 /\ t \in rx.timers ELSE places = 1
  BY DEF TendedOnce
<1>1. Good(link, rx, {}) /\ rx \in Receiving /\ To(t) \in Receivers
  BY InvFacts, Places
<1>2. PICK q : q = rx.queued[To(t)]
  OBVIOUS
<1>3. PICK P : P = {k \in DOMAIN q : q[k] = t}
  OBVIOUS
<1>4. CASE t \in rx.lane
  <2>1. t \notin ToSet(q)
    BY <1>1, <1>2, <1>4 DEF Good, QueueOK
  <2>2. P = {}
    BY <1>3, <2>1 DEF ToSet
  <2>3. t \in rx.timers
    BY <1>1, <1>4 DEF Good, LaneOK
  <2> QED
    BY <1>2, <1>3, <1>4, <2>2, <2>3, FS_EmptySet
<1>5. CASE t \notin rx.lane
  <2>1. t \in ToSet(q) /\ Once(q)
    BY <1>1, <1>2, <1>5 DEF Good, QueueOK, TendedOK
  <2>2. PICK k \in DOMAIN q : q[k] = t
    BY <2>1 DEF ToSet
  <2>3. P = {k}
    BY <1>3, <2>1, <2>2 DEF Once
  <2>4. Cardinality(P) = 1
    BY <2>3, FS_Singleton
  <2> QED
    BY <1>2, <1>3, <1>5, <2>4
<1> QED
  BY <1>4, <1>5

\* ask_for_file: an accepted file whose sender has a session is on a lane and
\* has a timer, or is in the queue once; never both and never neither.
THEOREM TheyAreTendedOnce == Spec => []TendedOnce
<1>1. Init => FilesInv
  BY StartInv
<1>2. FilesInv /\ [Next]_vars => FilesInv'
  BY NextInv
<1>3. FilesInv => TendedOnce
  BY TendedInv
<1> QED
  BY <1>1, <1>2, <1>3, PTL DEF Spec
=============================================================================
