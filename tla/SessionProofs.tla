----------------------------- MODULE SessionProofs -----------------------------
(***************************************************************************)
(* Proofs about the sessions of an engine.  First one direction of one     *)
(* session (Ratchet), for any limits, any number of frames and any number  *)
(* of crashes; then all the sessions an engine holds (SessionRegistry):    *)
(* their types, the shape of a slot, what the disk holds, and that a pair  *)
(* (session, counter) leaves at most once.  Last the sessions of two       *)
(* engines (Handshake): a first step makes one session, for any number of  *)
(* keys, losses, repetitions and deaths, and calls that cross still meet.  *)
(***************************************************************************)
EXTENDS Ratchet, SessionRegistry, Handshake, FiniteSetTheorems, TLAPS

USE RatchetAssumption

\* The chain key is that of the next position, and every cached key is that of
\* its own, already passed, position.
Sound(r) ==
    /\ r.ck = r.next
    /\ \A n \in Skipped(r) : n < r.next /\ r.keys[n].key = n

\* The limits only take keys away.
LEMMA SurvivorsAreKeys == ASSUME NEW ks PROVE Survivors(ks) \subseteq DOMAIN ks
BY DEF Survivors

\* The chain a commit leaves: what is consumed stays consumed, and a position
\* is consumed anew only by being opened or by a limit.
Follows(r, s, c) ==
    /\ ChainOK(s) /\ Sound(s)
    /\ Consumed(s, c)
    /\ \A n \in Counters : Consumed(r, n) => Consumed(s, n)
    /\ \A n \in Counters : Consumed(s, n) => Consumed(r, n) \/ n = c \/ n \in s.gone
    /\ r.gone \subseteq s.gone

LEMMA TakenFollows ==
    ASSUME NEW r, NEW c \in Counters, ChainOK(r), Sound(r), c \in Skipped(r)
    PROVE  Follows(r, TakenSkipped(r, c), c)
<1> DEFINE s == TakenSkipped(r, c)
<1>1. /\ DOMAIN s = DOMAIN r /\ s.ck = r.ck /\ s.next = r.next /\ s.gone = r.gone
      /\ s.keys = [n \in Skipped(r) \ {c} |-> r.keys[n]]
  BY DEF TakenSkipped, ChainOK
<1>2. Skipped(s) = Skipped(r) \ {c}
  BY <1>1 DEF Skipped
<1>3. s.keys \in [Skipped(s) -> [key : Nat, at : 0..MaxNow]]
  BY <1>1, <1>2 DEF ChainOK
<1>4. ChainOK(s)
  BY <1>1, <1>2, <1>3 DEF ChainOK
<1>5. Sound(s)
  BY <1>1, <1>2 DEF Sound
<1>6. QED
  BY <1>1, <1>2, <1>4, <1>5 DEF Follows, Consumed, Sound

LEMMA AdvancedFollows ==
    ASSUME NEW r, NEW c \in Counters, ChainOK(r), Sound(r), c \notin Skipped(r),
           c >= r.next, now \in 0..MaxNow
    PROVE  Follows(r, Advanced(r, c), c)
<1> DEFINE all == [n \in Skipped(r) \cup r.next..(c - 1) |->
                      IF n \in Skipped(r) THEN r.keys[n] ELSE GapKeys(r, c)[n]]
           stay == Survivors(all)
           s == Advanced(r, c)
<1>1. /\ DOMAIN s = {"ck", "next", "keys", "gone"}
      /\ s.ck = r.ck + (c - r.next) + 1 /\ s.next = c + 1
      /\ s.keys = [n \in stay |-> all[n]]
      /\ s.gone = r.gone \cup (DOMAIN all \ stay)
  BY DEF Advanced
<1>2. DOMAIN all = Skipped(r) \cup r.next..(c - 1)
  OBVIOUS
<1>3. stay \subseteq DOMAIN all /\ Skipped(s) = stay
  BY <1>1, SurvivorsAreKeys DEF Skipped
<1>4. \A n \in DOMAIN all : all[n] \in [key : Nat, at : 0..MaxNow] /\ all[n].key = n /\ n <= c - 1 /\ n \in Counters
  <2> SUFFICES ASSUME NEW n \in DOMAIN all
               PROVE  all[n] \in [key : Nat, at : 0..MaxNow] /\ all[n].key = n /\ n <= c - 1 /\ n \in Counters
    OBVIOUS
  <2>1. CASE n \in Skipped(r)
    BY <2>1 DEF ChainOK, Sound, Counters
  <2>2. CASE n \notin Skipped(r)
    <3>1. n \in r.next..(c - 1) /\ r.next \in Nat /\ r.ck = r.next
      BY <2>2, <1>2 DEF ChainOK, Sound
    <3>2. all[n] = [key |-> r.ck + (n - r.next), at |-> now]
      BY <2>2, <3>1 DEF GapKeys
    <3>3. QED
      BY <3>1, <3>2 DEF Counters
  <2>3. QED
    BY <2>1, <2>2
<1> HIDE DEF all, stay, s
<1>5. s.keys \in [Skipped(s) -> [key : Nat, at : 0..MaxNow]]
  BY <1>1, <1>3, <1>4
<1>6. ChainOK(s)
  BY <1>1, <1>2, <1>3, <1>4, <1>5 DEF ChainOK, Counters
<1>7. Sound(s)
  BY <1>1, <1>3, <1>4 DEF Sound, ChainOK, Counters
<1>8. Consumed(s, c)
  BY <1>1, <1>3, <1>4 DEF Consumed, Counters
<1>9. ASSUME NEW n \in Counters, Consumed(r, n) PROVE Consumed(s, n)
  BY <1>1, <1>2, <1>3, <1>9 DEF Consumed, ChainOK, Counters
<1>10. ASSUME NEW n \in Counters, Consumed(s, n) PROVE Consumed(r, n) \/ n = c \/ n \in s.gone
  BY <1>1, <1>2, <1>3, <1>10 DEF Consumed, ChainOK, Counters
<1>11. QED
  BY <1>1, <1>6, <1>7, <1>8, <1>9, <1>10 DEF Follows, s

\* A commit of a position that opens.
LEMMA CommittedFollows ==
    ASSUME NEW r, NEW c \in Counters, ChainOK(r), Sound(r), Opens(r, c), now \in 0..MaxNow
    PROVE  Follows(r, Committed(r, c), c)
<1>1. CASE c \in Skipped(r)
  BY <1>1, TakenFollows DEF Committed
<1>2. CASE c \notin Skipped(r)
  BY <1>2, AdvancedFollows DEF Committed, Opens, Consumed, ChainOK, Counters
<1>3. QED
  BY <1>1, <1>2
-----------------------------------------------------------------------------
(* The inductive invariant.                                                 *)

\* How the frame in hand and the snapshot relate to the chain in memory.
InStep ==
    /\ step.at = "idle" => chain = disk
    /\ step.at = "committed" => Consumed(chain, step.counter)
    /\ step.at = "saved" => chain = disk /\ Consumed(disk, step.counter)
    /\ step.at # "idle" => step.counter \in Counters \ handed
    /\ \A n \in Counters : Consumed(disk, n) => Consumed(chain, n)

\* Every consumed position is accounted for.
Accounted ==
    /\ \A n \in Counters : Consumed(disk, n) =>
          \/ n \in handed \cup burned \cup disk.gone
          \/ step.at = "saved" /\ n = step.counter
    /\ \A n \in Counters : Consumed(chain, n) =>
          \/ n \in handed \cup burned \cup chain.gone
          \/ step.at # "idle" /\ n = step.counter
    /\ disk.gone \subseteq chain.gone

RatchetInv ==
    /\ RatchetTypeOK
    /\ Sound(chain) /\ Sound(disk)
    /\ \A n \in handed : Consumed(disk, n)
    /\ InStep
    /\ Accounted

LEMMA RatchetInvInit == RatchetInit => RatchetInv
<1> SUFFICES ASSUME RatchetInit PROVE RatchetInv
  OBVIOUS
<1> USE DEF RatchetInit, NewChain
<1>1. ChainOK(chain) /\ Sound(chain) /\ Skipped(chain) = {}
  BY DEF ChainOK, Sound, Skipped
<1>2. \A n \in Counters : ~Consumed(chain, n)
  BY DEF Consumed, Counters
<1>3. RatchetTypeOK
  BY <1>1 DEF RatchetTypeOK, AtRest
<1>4. QED
  BY <1>1, <1>2, <1>3 DEF RatchetInv, InStep, Accounted, AtRest

LEMMA RatchetInvStep ==
    ASSUME RatchetInv, [RatchetNext]_ratchetVars
    PROVE  RatchetInv'
<1> USE DEF RatchetInv
<1>0. ASSUME UNCHANGED <<chain, disk, step, handed, burned>>, RatchetTypeOK'
      PROVE  RatchetInv'
  BY <1>0 DEF InStep, Accounted, Sound, Consumed, Skipped
<1>1. CASE Send
  <2>1. RatchetTypeOK'
    BY <1>1 DEF Send, RatchetTypeOK, ChainOK, Skipped
  <2>2. QED
    BY <1>0, <1>1, <2>1 DEF Send
<1>2. CASE Tick
  <2>1. RatchetTypeOK'
    BY <1>2 DEF Tick, RatchetTypeOK, ChainOK, Skipped
  <2>2. QED
    BY <1>0, <1>2, <2>1 DEF Tick
<1>3. ASSUME NEW c \in Counters, Open(c) PROVE RatchetInv'
  <2>1. /\ step.at = "idle" /\ Opens(chain, c) /\ chain' = Committed(chain, c)
        /\ step' = [at |-> "committed", counter |-> c]
        /\ UNCHANGED <<sealed, disk, now, handed, burned, crashes>>
        /\ chain = disk
    BY <1>3 DEF Open, InStep
  <2>2. Follows(chain, chain', c)
    BY <2>1, CommittedFollows DEF RatchetTypeOK
  <2>3. RatchetTypeOK' /\ Sound(chain)' /\ Sound(disk)'
    BY <2>1, <2>2 DEF RatchetTypeOK, Follows, ChainOK, Sound, Skipped
  <2>4. (\A n \in handed : Consumed(disk, n))'
    BY <2>1 DEF Consumed, Skipped
  <2>5. c \notin handed
    BY <2>1 DEF Opens
  <2>6. InStep'
    BY <2>1, <2>2, <2>5 DEF InStep, Follows, Consumed, Skipped
  <2>7. Accounted'
    BY <2>1, <2>2 DEF Accounted, Follows, Consumed, Skipped
  <2>8. QED
    BY <2>3, <2>4, <2>6, <2>7
<1>4. CASE Save
  <2>1. /\ step.at = "committed" /\ disk' = chain /\ chain' = chain
        /\ step' = [step EXCEPT !.at = "saved"]
        /\ UNCHANGED <<sealed, now, handed, burned, crashes>>
    BY <1>4 DEF Save
  <2>2. step'.at = "saved" /\ step'.counter = step.counter
    BY <2>1 DEF RatchetTypeOK
  <2>3. RatchetTypeOK' /\ Sound(chain)' /\ Sound(disk)'
    BY <2>1 DEF RatchetTypeOK, ChainOK, Sound, Skipped
  <2>4. (\A n \in handed : Consumed(disk, n))'
    BY <2>1 DEF InStep, Consumed, Skipped, RatchetTypeOK
  <2>5. InStep' /\ Accounted'
    BY <2>1, <2>2 DEF InStep, Accounted, Consumed, Skipped
  <2>6. QED
    BY <2>3, <2>4, <2>5
<1>5. CASE Hand
  <2>1. /\ step.at = "saved" /\ handed' = handed \cup {step.counter} /\ step' = AtRest
        /\ UNCHANGED <<sealed, chain, disk, now, burned, crashes>>
    BY <1>5 DEF Hand
  <2>2. chain = disk /\ Consumed(disk, step.counter) /\ step.counter \in Counters
    BY <2>1 DEF InStep
  <2>3. RatchetTypeOK' /\ Sound(chain)' /\ Sound(disk)'
    BY <2>1, <2>2 DEF RatchetTypeOK, ChainOK, Sound, Skipped, AtRest
  <2>4. (\A n \in handed : Consumed(disk, n))'
    BY <2>1, <2>2 DEF Consumed, Skipped
  <2>5. InStep' /\ Accounted'
    BY <2>1, <2>2 DEF InStep, Accounted, Consumed, Skipped, AtRest
  <2>6. QED
    BY <2>3, <2>4, <2>5
<1>6. CASE Die
  <2>1. /\ chain' = disk /\ step' = AtRest /\ crashes < MaxCrashes /\ crashes' = crashes + 1
        /\ burned' = IF step.at = "saved" THEN burned \cup {step.counter} ELSE burned
        /\ UNCHANGED <<sealed, disk, now, handed>>
    BY <1>6 DEF Die
  <2>2. RatchetTypeOK' /\ Sound(chain)' /\ Sound(disk)'
    BY <2>1 DEF RatchetTypeOK, ChainOK, Sound, Skipped, AtRest, InStep
  <2>3. (\A n \in handed : Consumed(disk, n))'
    BY <2>1 DEF Consumed, Skipped
  <2>4. InStep' /\ Accounted'
    BY <2>1 DEF InStep, Accounted, Consumed, Skipped, AtRest
  <2>5. QED
    BY <2>2, <2>3, <2>4
<1>7. CASE UNCHANGED ratchetVars
  <2>1. RatchetTypeOK'
    BY <1>7 DEF ratchetVars, RatchetTypeOK, ChainOK, Skipped
  <2>2. QED
    BY <1>0, <1>7, <2>1 DEF ratchetVars
<1> HIDE DEF RatchetInv
<1>8. QED
  BY <1>1, <1>2, <1>3, <1>4, <1>5, <1>6, <1>7 DEF RatchetNext

THEOREM RatchetInductive == RatchetSpec => []RatchetInv
BY RatchetInvInit, RatchetInvStep, PTL DEF RatchetSpec

-----------------------------------------------------------------------------
(* What follows.                                                            *)

\* Every reachable state has the types of TypeOK.
THEOREM RatchetTypes == RatchetSpec => []RatchetTypeOK
<1>1. RatchetInv => RatchetTypeOK
  BY DEF RatchetInv
<1>2. QED
  BY <1>1, RatchetInductive, PTL

\* A frame that was read is not read again, whatever comes again and wherever
\* the process dies.
THEOREM ReadOnce == RatchetSpec => []HandedOnce
<1>1. RatchetInv => HandedOnce
  BY DEF RatchetInv, InStep, HandedOnce
<1>2. QED
  BY <1>1, RatchetInductive, PTL

\* Neither memory nor disk yields the key of a frame that was read: no cached
\* key is its key, and the chain key has been derived past it.
THEOREM ForwardSecrecy == RatchetSpec => []KeysErased
<1>1. ASSUME RatchetInv, NEW c \in handed, NEW r \in {chain, disk}
      PROVE  r.ck > c /\ Consumed(r, c) /\ \A n \in Skipped(r) : r.keys[n].key # c
  <2>1. Consumed(r, c) /\ Sound(r)
    BY <1>1 DEF RatchetInv, InStep, RatchetTypeOK
  <2>2. r.ck > c
    BY <2>1 DEF Consumed, Sound
  <2>3. QED
    BY <2>1, <2>2 DEF Consumed, Sound
<1>2. RatchetInv => KeysErased
  BY <1>1 DEF KeysErased
<1>3. QED
  BY <1>2, RatchetInductive, PTL

\* A frame that has not come yet still opens, but for the limits, a death of
\* the process on it, and a jump too long.
THEOREM NothingForgotten == RatchetSpec => []StillOpens
<1>1. ASSUME RatchetInv, step.at = "idle", NEW c \in 0..(sealed - 1)
      PROVE  c \in handed \cup burned \cup chain.gone \/ TooFar(chain, c) \/ Opens(chain, c)
  <2>1. c \in Counters
    BY <1>1 DEF RatchetInv, RatchetTypeOK, Counters
  <2>2. CASE Consumed(chain, c)
    BY <1>1, <2>1, <2>2 DEF RatchetInv, Accounted
  <2>3. CASE ~Consumed(chain, c)
    <3>1. Key(chain, c) = c
      BY <1>1, <2>1, <2>3 DEF RatchetInv, Sound, Key, Consumed, RatchetTypeOK, ChainOK, Counters
    <3>2. QED
      BY <2>3, <3>1 DEF Opens
  <2>4. QED
    BY <2>2, <2>3
<1>2. RatchetInv => StillOpens
  BY <1>1 DEF StillOpens
<1>3. QED
  BY <1>2, RatchetInductive, PTL

-----------------------------------------------------------------------------
(* The registry.                                                            *)

USE SessionsAssumption

\* A handshake has a place in the order of its slot.
LEMMA PlaceType == ASSUME NEW s \in Sessions PROVE Cardinality(Met(s)) \in Nat
<1>1. Met(s) \subseteq Sessions /\ IsFiniteSet(Sessions)
  BY DEF Met
<1> QED BY <1>1, FS_Subset, FS_CardinalityType

\* The program starts inside its types, on any rows an earlier build left.
LEMMA InitFacts == Init => TypeOK
<1> SUFFICES ASSUME Init PROVE TypeOK
  OBVIOUS
<1>1. Cardinality(Sessions) \in Nat
  BY FS_CardinalityType
<1>2. rows \subseteq Sessions
  BY DEF Init
<1>3. birth \in [Sessions -> Nat] /\ est \in [Sessions -> Nat]
  BY <1>1 DEF Init
<1> QED BY <1>2, <1>3 DEF Init, TypeOK, Modes, Idle

\* Every step keeps every variable of the registry inside its type.
LEMMA TypeStep == TypeOK /\ [Next]_vars => TypeOK'
<1> SUFFICES ASSUME TypeOK, [Next]_vars PROVE TypeOK'
  OBVIOUS
<1> USE DEF TypeOK, Modes, Idle
<1>1. CASE UNCHANGED vars
  BY <1>1 DEF vars
<1>2. ASSUME NEW s \in Sessions, Establish(s) PROVE TypeOK'
  <2>1. mode' \in [Sessions -> Modes]
    BY <1>2 DEF Establish, Inserted
  <2>2. est' \in [Sessions -> Nat]
    BY <1>2 DEF Establish
  <2>3. todo' \in [del : SUBSET Sessions, put : Sessions \cup {NoSession},
                   send : SUBSET (Sessions \X Nat)]
    BY <1>2 DEF Establish, Dropped, PutOf
  <2>4. birth' \in [Sessions -> Nat]
    BY <1>2, PlaceType DEF Establish
  <2>5. UNCHANGED <<up, ctr, rows, rowCtr, sent>>
    BY <1>2 DEF Establish
  <2> QED BY <2>1, <2>2, <2>3, <2>4, <2>5
<1>3. ASSUME NEW s \in Sessions, Retire(s) PROVE TypeOK'
  BY <1>3 DEF Retire
<1>4. ASSUME NEW s \in Sessions, NEW pieces \in 1..MaxPieces, Seal(s, pieces) PROVE TypeOK'
  <2>1. ctr[s]..(ctr[s] + pieces - 1) \subseteq Nat
    OBVIOUS
  <2>2. {s} \X (ctr[s]..(ctr[s] + pieces - 1)) \in SUBSET (Sessions \X Nat)
    BY <2>1
  <2>3. todo' \in [del : SUBSET Sessions, put : Sessions \cup {NoSession},
                   send : SUBSET (Sessions \X Nat)]
    BY <1>4, <2>2 DEF Seal, PutOf, Frames
  <2> QED BY <1>4, <2>3 DEF Seal
<1>5. ASSUME NEW p \in Peers, Forget(p) PROVE TypeOK'
  <2>1. mode' \in [Sessions -> Modes]
    BY <1>5 DEF Forget
  <2>2. todo' \in [del : SUBSET Sessions, put : Sessions \cup {NoSession},
                   send : SUBSET (Sessions \X Nat)]
    BY <1>5 DEF Forget, Live
  <2> QED BY <1>5, <2>1, <2>2 DEF Forget
<1>6. ASSUME NEW s \in Sessions, DeleteRow(s) PROVE TypeOK'
  BY <1>6 DEF DeleteRow
<1>7. CASE PutRow
  BY <1>7 DEF PutRow
<1>8. ASSUME NEW s \in Sessions, NEW n \in 0..MaxCtr, Emit(s, n) PROVE TypeOK'
  BY <1>8 DEF Emit
<1>9. CASE Crash
  BY <1>9 DEF Crash
<1>10. CASE Restore
  <2>1. PICK rank \in Orders :
          /\ mode' = [s \in Sessions |-> RestoredMode(rank, s)]
          /\ todo' = [Idle EXCEPT !.del = {s \in rows : RestoredMode(rank, s) = "none"}]
    BY <1>10 DEF Restore
  <2>2. mode' \in [Sessions -> Modes]
    BY <2>1 DEF RestoredMode
  <2>3. todo' \in [del : SUBSET Sessions, put : Sessions \cup {NoSession},
                   send : SUBSET (Sessions \X Nat)]
    BY <2>1
  <2>4. ctr' \in [Sessions -> Nat]
    BY <1>10 DEF Restore
  <2> QED BY <1>10, <2>2, <2>3, <2>4 DEF Restore
<1> QED BY <1>1, <1>2, <1>3, <1>4, <1>5, <1>6, <1>7, <1>8, <1>9, <1>10 DEF Next

\* The registry's variables stay in their types, for any set of sessions.
THEOREM TypeCorrect == Spec => []TypeOK
<1>1. Init => TypeOK
  BY InitFacts
<1> QED BY <1>1, TypeStep, PTL DEF Spec

-----------------------------------------------------------------------------
(* The shape of a slot.  AtMostTwo is not inductive alone: a handshake adds  *)
(* a session, and only OneSends bounds what it leaves behind.                *)

SlotInv == OneSends /\ AtMostTwo

\* The ranks a restore may use tell the rows apart and are integers.
LEMMA RankFacts ==
    ASSUME TypeOK, NEW rank \in Orders
    PROVE  /\ rank \in [Sessions -> Int]
           /\ \A s, t \in rows : s # t => rank[s] # rank[t]
<1>1. IsFiniteSet(rows)
  BY FS_Subset DEF TypeOK
<1>2. Cardinality(rows) \in Nat
  BY <1>1, FS_CardinalityType
<1> QED BY <1>2 DEF Orders

\* No step puts two senders, or three sessions, into one slot.
LEMMA SlotStep == TypeOK /\ SlotInv /\ [Next]_vars => SlotInv'
<1> SUFFICES ASSUME TypeOK, SlotInv, [Next]_vars PROVE SlotInv'
  OBVIOUS
<1> USE DEF TypeOK, SlotInv, OneSends, AtMostTwo, SameSlot, Live
<1>1. ASSUME UNCHANGED mode PROVE SlotInv'
  BY <1>1
<1>2. ASSUME NEW s \in Sessions, Establish(s) PROVE SlotInv'
  <2>1. \A t \in Sessions : mode'[t] = IF t = s THEN "sending"
                                       ELSE IF ~SameSlot(s, t) THEN mode[t]
                                       ELSE IF mode[t] = "sending" THEN "retired" ELSE "none"
    BY <1>2 DEF Establish, Inserted
  <2>2. OneSends'
    BY <2>1
  <2>3. AtMostTwo'
    BY <2>1
  <2> QED BY <2>2, <2>3
<1>3. ASSUME NEW s \in Sessions, Retire(s) PROVE SlotInv'
  BY <1>3 DEF Retire
<1>4. ASSUME NEW s \in Sessions, NEW pieces \in 1..MaxPieces, Seal(s, pieces) PROVE SlotInv'
  BY <1>1, <1>4 DEF Seal
<1>5. ASSUME NEW p \in Peers, Forget(p) PROVE SlotInv'
  BY <1>5 DEF Forget
<1>6. ASSUME NEW s \in Sessions, DeleteRow(s) PROVE SlotInv'
  BY <1>1, <1>6 DEF DeleteRow
<1>7. CASE PutRow
  BY <1>1, <1>7 DEF PutRow
<1>8. ASSUME NEW s \in Sessions, NEW n \in 0..MaxCtr, Emit(s, n) PROVE SlotInv'
  BY <1>1, <1>8 DEF Emit
<1>9. CASE Crash
  BY <1>9 DEF Crash
<1>10. CASE Restore
  <2>1. PICK rank \in Orders : mode' = [s \in Sessions |-> RestoredMode(rank, s)]
    BY <1>10 DEF Restore
  <2>2. /\ rank \in [Sessions -> Int]
        /\ \A s, t \in rows : s # t => rank[s] # rank[t]
    BY <2>1, RankFacts
  <2>3. OneSends'
    <3> SUFFICES ASSUME NEW s \in Sessions, NEW t \in Sessions, SameSlot(s, t),
                        mode'[s] = "sending", mode'[t] = "sending", s # t
                 PROVE  FALSE
      OBVIOUS
    <3>1. /\ s \in rows /\ t \in rows
          /\ Later(rank, s) = {} /\ Later(rank, t) = {}
      BY <2>1 DEF RestoredMode
    <3>2. rank[s] < rank[t] \/ rank[t] < rank[s]
      BY <2>2, <3>1
    <3> QED BY <3>1, <3>2 DEF Later
  <2>4. AtMostTwo'
    <3> SUFFICES ASSUME NEW s \in Live', NEW t \in Live', NEW u \in Live',
                        SameSlot(s, t)', SameSlot(t, u)', s # t, t # u, s # u
                 PROVE  FALSE
      OBVIOUS
    <3>1. /\ s \in rows /\ t \in rows /\ u \in rows
          /\ \A x, y \in Later(rank, s) : x = y
          /\ \A x, y \in Later(rank, t) : x = y
          /\ \A x, y \in Later(rank, u) : x = y
      BY <2>1 DEF RestoredMode
    <3>2. rank[s] # rank[t] /\ rank[t] # rank[u] /\ rank[s] # rank[u]
      BY <2>2, <3>1
    <3>3. CASE rank[s] < rank[t] /\ rank[s] < rank[u]
      BY <3>1, <3>3 DEF Later
    <3>4. CASE rank[t] < rank[s] /\ rank[t] < rank[u]
      BY <3>1, <3>4 DEF Later
    <3>5. CASE rank[u] < rank[s] /\ rank[u] < rank[t]
      BY <3>1, <3>5 DEF Later
    <3> QED BY <2>2, <3>2, <3>3, <3>4, <3>5
  <2> QED BY <2>3, <2>4
<1>11. CASE UNCHANGED vars
  BY <1>1, <1>11 DEF vars
<1> QED BY <1>2, <1>3, <1>4, <1>5, <1>6, <1>7, <1>8, <1>9, <1>10, <1>11 DEF Next

\* In every slot at most one session sends and at most two live.
THEOREM SlotShape == Spec => [](OneSends /\ AtMostTwo)
<1>1. Init => TypeOK /\ SlotInv
  BY InitFacts DEF Init, SlotInv, OneSends, AtMostTwo, Live
<1> QED BY <1>1, TypeStep, SlotStep, PTL DEF Spec, SlotInv

-----------------------------------------------------------------------------
(* Memory and disk.  In the middle of a step the disk lags behind memory by  *)
(* exactly the calls still owed, so the invariant speaks of both.            *)

Keep == {s \in Live : Stored(s)}

DiskInv ==
    /\ \A s \in rows : Stored(s)
    /\ ~up => Live = {} /\ todo = Idle
    /\ \A s \in rows \cup Live : birth[s] # 0
    /\ up => /\ todo.del \cap Live = {}
             /\ todo.put # NoSession => todo.put \in Keep
             /\ (rows \ todo.del) \cup ({todo.put} \ {NoSession}) = Keep

\* Each call to the store, each command and each restart keeps the disk no
\* more than the owed calls away from memory.
LEMMA DiskStep == TypeOK /\ DiskInv /\ [Next]_vars => DiskInv'
<1> SUFFICES ASSUME TypeOK, DiskInv, [Next]_vars PROVE DiskInv'
  OBVIOUS
<1> USE DEF TypeOK, DiskInv, Keep, Live, Idle
<1>1. CASE UNCHANGED vars
  BY <1>1 DEF vars, Stored
<1>2. ASSUME NEW s \in Sessions, Establish(s) PROVE DiskInv'
  <2>1. /\ up /\ todo = Idle /\ birth[s] = 0
        /\ up' = up /\ rows' = rows
        /\ birth' = [birth EXCEPT ![s] = Cardinality(Met(s)) + 1]
        /\ Cardinality(Met(s)) \in Nat
        /\ mode' = Inserted(mode, s)
    BY <1>2, PlaceType DEF Establish, Ready
  <2>2. /\ todo'.del = Dropped(mode, s) \cap {t \in Sessions : Stored(t)}
        /\ todo'.put = PutOf(s)
        /\ todo'.send = {}
    BY <1>2 DEF Establish
  <2>3. rows = Keep
    BY <2>1
  <2>4. \A t \in Sessions : mode'[t] = IF t = s THEN "sending"
                                       ELSE IF ~SameSlot(s, t) THEN mode[t]
                                       ELSE IF mode[t] = "sending" THEN "retired" ELSE "none"
    BY <2>1 DEF Inserted
  <2>5. \A t \in Sessions : t \in Dropped(mode, s) <=> mode[t] # "none" /\ mode'[t] = "none"
    BY <2>1 DEF Dropped
  <2>6. Keep' = {t \in Sessions : mode'[t] # "none" /\ Stored(t)}
    BY DEF Stored
  <2>7. (rows' \ todo'.del) \cup ({todo'.put} \ {NoSession}) = Keep'
    BY <2>1, <2>2, <2>3, <2>4, <2>5, <2>6 DEF PutOf
  <2>8. /\ todo'.del \cap Live' = {}
        /\ todo'.put # NoSession => todo'.put \in Keep'
    BY <2>2, <2>4, <2>5, <2>6 DEF PutOf
  <2>9. \A t \in rows' \cup Live' : birth'[t] # 0
    <3> SUFFICES ASSUME NEW t \in rows' \cup Live', t # s PROVE birth[t] # 0
      BY <2>1
    <3> QED BY <2>1, <2>4
  <2> QED BY <2>1, <2>7, <2>8, <2>9 DEF Stored
<1>3. ASSUME NEW s \in Sessions, Retire(s) PROVE DiskInv'
  <2>1. Live' = Live /\ Keep' = Keep
    BY <1>3 DEF Retire, Stored, Modes
  <2> QED BY <1>3, <2>1 DEF Retire, Ready, Stored
<1>4. ASSUME NEW s \in Sessions, NEW pieces \in 1..MaxPieces, Seal(s, pieces) PROVE DiskInv'
  <2>1. Live' = Live /\ Keep' = Keep
    BY <1>4 DEF Seal, Stored
  <2>2. /\ todo = Idle /\ up /\ s \in Live
        /\ todo'.del = {} /\ todo'.put = PutOf(s)
        /\ UNCHANGED <<up, rows, birth>>
    BY <1>4 DEF Seal, Ready
  <2> QED BY <2>1, <2>2 DEF PutOf, Stored
<1>5. ASSUME NEW p \in Peers, Forget(p) PROVE DiskInv'
  <2>1. /\ todo = Idle /\ up /\ UNCHANGED <<up, rows, birth>>
        /\ mode' = [s \in Sessions |-> IF PeerOf[s] = p THEN "none" ELSE mode[s]]
        /\ todo'.put = NoSession /\ todo'.send = {}
        /\ todo'.del = {s \in Live : PeerOf[s] = p /\ Stored(s)}
    BY <1>5 DEF Forget, Ready
  <2>2. Live' = {s \in Live : PeerOf[s] # p}
    BY <2>1
  <2>3. Keep' = {s \in Keep : PeerOf[s] # p}
    BY <2>1, <2>2 DEF Stored
  <2>4. rows = Keep
    BY <2>1
  <2>5. (rows' \ todo'.del) \cup ({todo'.put} \ {NoSession}) = Keep'
    BY <2>1, <2>3, <2>4
  <2> QED BY <2>1, <2>2, <2>5 DEF Stored
<1>6. ASSUME NEW s \in Sessions, DeleteRow(s) PROVE DiskInv'
  <2>1. Live' = Live /\ Keep' = Keep
    BY <1>6 DEF DeleteRow, Stored
  <2>2. /\ up /\ s \in todo.del /\ rows' = rows \ {s}
        /\ todo'.del = todo.del \ {s} /\ todo'.put = todo.put
        /\ UNCHANGED <<up, birth>>
    BY <1>6 DEF DeleteRow
  <2>3. rows' \ todo'.del = rows \ todo.del
    BY <2>2
  <2>4. (rows' \ todo'.del) \cup ({todo'.put} \ {NoSession}) = Keep'
    BY <2>1, <2>2, <2>3
  <2> QED BY <2>1, <2>2, <2>4 DEF Stored
<1>7. CASE PutRow
  <2>1. Live' = Live /\ Keep' = Keep
    BY <1>7 DEF PutRow, Stored
  <2>2. /\ up /\ todo.del = {} /\ todo.put # NoSession
        /\ rows' = rows \cup {todo.put}
        /\ todo'.del = {} /\ todo'.put = NoSession
        /\ UNCHANGED <<up, birth>>
    BY <1>7 DEF PutRow
  <2>3. todo.put \in Keep
    BY <2>2
  <2>4. (rows' \ todo'.del) \cup ({todo'.put} \ {NoSession}) = Keep'
    BY <2>1, <2>2, <2>3
  <2> QED BY <2>1, <2>2, <2>3, <2>4 DEF Stored
<1>8. ASSUME NEW s \in Sessions, NEW n \in 0..MaxCtr, Emit(s, n) PROVE DiskInv'
  <2>1. Live' = Live /\ Keep' = Keep
    BY <1>8 DEF Emit, Stored
  <2> QED BY <1>8, <2>1 DEF Emit, Stored
<1>9. CASE Crash
  BY <1>9 DEF Crash, Stored
<1>10. CASE Restore
  <2>1. PICK rank \in Orders :
          /\ mode' = [s \in Sessions |-> RestoredMode(rank, s)]
          /\ todo' = [Idle EXCEPT !.del = {s \in rows : RestoredMode(rank, s) = "none"}]
    BY <1>10 DEF Restore
  <2>2. /\ todo'.put = NoSession
        /\ todo'.del = {s \in rows : mode'[s] = "none"}
    BY <2>1
  <2>3. /\ Live' \subseteq rows
        /\ Live' = {s \in Sessions : mode'[s] # "none"}
    BY <2>1 DEF RestoredMode
  <2>4. Keep' = {s \in rows : mode'[s] # "none"}
    BY <2>3 DEF Stored
  <2>5. UNCHANGED <<birth, rows>> /\ up'
    BY <1>10 DEF Restore
  <2> QED BY <2>2, <2>3, <2>4, <2>5 DEF Stored
<1> QED BY <1>1, <1>2, <1>3, <1>4, <1>5, <1>6, <1>7, <1>8, <1>9, <1>10 DEF Next

\* Between steps the disk holds exactly the sessions of contacts in memory.
THEOREM DiskFaithful == Spec => []DiskMatchesMemory
<1>1. Init => TypeOK /\ DiskInv
  BY InitFacts DEF Init, DiskInv, Live
<1>2. TypeOK /\ DiskInv => DiskMatchesMemory
  BY DEF TypeOK, DiskInv, DiskMatchesMemory, Ready, Idle, Keep
<1> QED BY <1>1, <1>2, TypeStep, DiskStep, PTL DEF Spec

-----------------------------------------------------------------------------
(* Nonces.  A counter that has left is below the counter of memory, if the   *)
(* session lives, and below the counter of its row, if it has one: so        *)
(* neither going on nor coming back can produce it again.                    *)

NonceInv ==
    /\ \A s \in Live : \A n \in sent[s] : n < ctr[s]
    /\ \A s \in rows : \A n \in sent[s] : n < rowCtr[s]
    /\ \A s \in Sessions : birth[s] = 0 => sent[s] = {} /\ ctr[s] = 0
    /\ \A f \in todo.send :
          /\ f[1] \in Live /\ f[2] < ctr[f[1]] /\ f[2] \notin sent[f[1]]
          /\ Stored(f[1]) => todo.put = f[1] \/ f[2] < rowCtr[f[1]]

\* No call to the store, no command and no restart lets a counter return.
LEMMA NonceStep == TypeOK /\ DiskInv /\ NonceInv /\ [Next]_vars => NonceInv'
<1> SUFFICES ASSUME TypeOK, DiskInv, NonceInv, [Next]_vars PROVE NonceInv'
  OBVIOUS
<1> USE DEF TypeOK, NonceInv, Live
<1>1. CASE UNCHANGED vars
  BY <1>1 DEF vars, Stored
<1>2. ASSUME NEW s \in Sessions, Establish(s) PROVE NonceInv'
  <2>1. /\ birth[s] = 0 /\ birth' = [birth EXCEPT ![s] = Cardinality(Met(s)) + 1]
        /\ Cardinality(Met(s)) \in Nat
        /\ mode' = Inserted(mode, s) /\ UNCHANGED <<ctr, rows, rowCtr, sent>>
    BY <1>2, PlaceType DEF Establish
  <2>2. todo'.send = {}
    BY <1>2 DEF Establish, Idle
  <2>3. \A t \in Live' : t = s \/ t \in Live
    BY <2>1 DEF Inserted
  <2> QED BY <2>1, <2>2, <2>3
<1>3. ASSUME NEW s \in Sessions, Retire(s) PROVE NonceInv'
  <2>1. Live' = Live
    BY <1>3 DEF Retire, Modes
  <2> QED BY <1>3, <2>1 DEF Retire, Stored
<1>4. ASSUME NEW s \in Sessions, NEW pieces \in 1..MaxPieces, Seal(s, pieces) PROVE NonceInv'
  <2>1. /\ s \in Live /\ Live' = Live
        /\ ctr' = [ctr EXCEPT ![s] = ctr[s] + pieces]
        /\ UNCHANGED <<birth, rows, rowCtr, sent>>
    BY <1>4 DEF Seal
  <2>2. /\ todo'.put = PutOf(s)
        /\ todo'.send = {s} \X (ctr[s]..(ctr[s] + pieces - 1))
    BY <1>4 DEF Seal, Idle, Frames
  <2>3. \A t \in Live' : \A n \in sent'[t] : n < ctr'[t]
    BY <2>1
  <2>4. birth[s] # 0
    BY <2>1 DEF DiskInv
  <2>5. \A t \in Sessions : birth'[t] = 0 => sent'[t] = {} /\ ctr'[t] = 0
    BY <2>1, <2>4
  <2>6. ASSUME NEW f \in todo'.send
        PROVE  /\ f[1] \in Live' /\ f[2] < ctr'[f[1]] /\ f[2] \notin sent'[f[1]]
               /\ Stored(f[1]) => todo'.put = f[1]
    <3>1. f[1] = s /\ f[2] \in ctr[s]..(ctr[s] + pieces - 1)
      BY <2>2, <2>6
    <3>2. f[2] \in Nat /\ ctr[s] <= f[2] /\ f[2] < ctr[s] + pieces
      BY <3>1
    <3> QED BY <2>1, <2>2, <3>1, <3>2 DEF PutOf
  <2> QED BY <2>1, <2>3, <2>5, <2>6 DEF Stored
<1>5. ASSUME NEW p \in Peers, Forget(p) PROVE NonceInv'
  <2>1. /\ Live' \subseteq Live /\ todo'.send = {}
        /\ UNCHANGED <<birth, ctr, rows, rowCtr, sent>>
    BY <1>5 DEF Forget, Idle
  <2> QED BY <2>1
<1>6. ASSUME NEW s \in Sessions, DeleteRow(s) PROVE NonceInv'
  <2>1. /\ Live' = Live /\ rows' \subseteq rows
        /\ todo'.send = todo.send /\ todo'.put = todo.put
        /\ UNCHANGED <<birth, ctr, rowCtr, sent>>
    BY <1>6 DEF DeleteRow
  <2> QED BY <2>1 DEF Stored
<1>7. CASE PutRow
  <2>1. /\ Live' = Live /\ up /\ todo.put # NoSession
        /\ rows' = rows \cup {todo.put}
        /\ rowCtr' = [rowCtr EXCEPT ![todo.put] = ctr[todo.put]]
        /\ todo'.send = todo.send
        /\ UNCHANGED <<birth, ctr, sent>>
    BY <1>7 DEF PutRow
  <2>2. todo.put \in Live
    BY <2>1 DEF DiskInv, Keep
  <2>3. \A t \in rows' : \A n \in sent'[t] : n < rowCtr'[t]
    BY <2>1, <2>2
  <2>4. ASSUME NEW f \in todo'.send
        PROVE  /\ f[1] \in Live' /\ f[2] < ctr'[f[1]] /\ f[2] \notin sent'[f[1]]
               /\ Stored(f[1])' => f[2] < rowCtr'[f[1]]
    <3>1. f \in Sessions \X Nat
      BY <2>1, <2>4
    <3> QED BY <2>1, <2>2, <2>4, <3>1 DEF Stored
  <2> QED BY <2>1, <2>3, <2>4
<1>8. ASSUME NEW s \in Sessions, NEW n \in 0..MaxCtr, Emit(s, n) PROVE NonceInv'
  <2>1. /\ Live' = Live /\ up /\ todo.del = {} /\ todo.put = NoSession
        /\ <<s, n>> \in todo.send
        /\ sent' = [sent EXCEPT ![s] = sent[s] \cup {n}]
        /\ todo'.send = todo.send \ {<<s, n>>} /\ todo'.put = NoSession
        /\ UNCHANGED <<birth, ctr, rows, rowCtr>>
    BY <1>8 DEF Emit
  <2>2. /\ s \in Live /\ n < ctr[s] /\ n \in Nat
        /\ Stored(s) => n < rowCtr[s]
    BY <2>1
  <2>3. s \in rows => Stored(s)
    BY DEF DiskInv
  <2>4. birth[s] # 0
    BY <2>2 DEF DiskInv
  <2>5. \A t \in Sessions : \A m \in sent'[t] : m \in sent[t] \/ (t = s /\ m = n)
    BY <2>1
  <2>6. /\ \A t \in Live' : \A m \in sent'[t] : m < ctr'[t]
        /\ \A t \in rows' : \A m \in sent'[t] : m < rowCtr'[t]
        /\ \A t \in Sessions : birth'[t] = 0 => sent'[t] = {} /\ ctr'[t] = 0
    BY <2>1, <2>2, <2>3, <2>4, <2>5
  <2>7. ASSUME NEW f \in todo'.send
        PROVE  /\ f[1] \in Live' /\ f[2] < ctr'[f[1]] /\ f[2] \notin sent'[f[1]]
               /\ Stored(f[1])' => todo'.put = f[1] \/ f[2] < rowCtr'[f[1]]
    <3>1. f \in todo.send /\ f # <<s, n>> /\ f \in Sessions \X Nat
      BY <2>1, <2>7
    <3>2. ~(f[1] = s /\ f[2] = n)
      BY <3>1
    <3> QED BY <2>1, <2>5, <3>1, <3>2 DEF Stored
  <2> QED BY <2>6, <2>7
<1>9. CASE Crash
  <2>1. /\ Live' = {} /\ todo'.send = {}
        /\ ctr' = [s \in Sessions |-> 0]
        /\ UNCHANGED <<birth, rows, rowCtr, sent>>
    BY <1>9 DEF Crash, Idle
  <2> QED BY <2>1
<1>10. CASE Restore
  <2>1. /\ Live' \subseteq rows /\ todo'.send = {}
        /\ ctr' = [s \in Sessions |-> IF s \in rows THEN rowCtr[s] ELSE 0]
        /\ UNCHANGED <<birth, rows, rowCtr, sent>>
    BY <1>10 DEF Restore, RestoredMode, Idle
  <2>2. \A s \in Sessions : birth[s] = 0 => s \notin rows
    BY DEF DiskInv
  <2> QED BY <2>1, <2>2
<1> QED BY <1>1, <1>2, <1>3, <1>4, <1>5, <1>6, <1>7, <1>8, <1>9, <1>10 DEF Next

\* A counter leaves at most once in the life of a session, whatever the crashes.
THEOREM NonceNeverReused == Spec => []NonceFresh
<1>1. Init => TypeOK /\ DiskInv /\ NonceInv
  BY InitFacts DEF Init, DiskInv, NonceInv, Live, Idle
<1>2. TypeOK /\ NonceInv => NonceFresh
  BY DEF NonceInv, NonceFresh
<1> QED BY <1>1, <1>2, TypeStep, DiskStep, NonceStep, PTL DEF Spec
-----------------------------------------------------------------------------
(* What a step may never do. *)

\* While the process is down nothing is in memory, so what a restart raises
\* was not sending before it.
LEMMA GraceStep == TypeOK /\ DiskInv /\ [Next]_vars =>
    \A s \in Sessions :
        mode[s] = "sending" /\ mode'[s] = "none" =>
            ~up' \/ \A t \in Sessions : PeerOf[t] = PeerOf[s] => mode'[t] = "none"
<1> SUFFICES ASSUME TypeOK, DiskInv, [Next]_vars, NEW s \in Sessions,
                    mode[s] = "sending", mode'[s] = "none", up'
             PROVE  \A t \in Sessions : PeerOf[t] = PeerOf[s] => mode'[t] = "none"
  OBVIOUS
<1>1. mode' # mode /\ up
  BY DEF DiskInv, Live
<1>2. ASSUME NEW t \in Sessions, Establish(t) PROVE FALSE
  BY <1>2 DEF Establish, Inserted
<1>3. ASSUME NEW t \in Sessions, Retire(t) PROVE FALSE
  BY <1>3 DEF Retire, TypeOK
<1>4. ASSUME NEW p \in Peers, Forget(p)
      PROVE  \A t \in Sessions : PeerOf[t] = PeerOf[s] => mode'[t] = "none"
  BY <1>4 DEF Forget
<1>5. ASSUME NEW t \in Sessions, DeleteRow(t) PROVE FALSE
  BY <1>1, <1>5 DEF DeleteRow
<1>6. ASSUME NEW t \in Sessions, NEW pieces \in 1..MaxPieces, Seal(t, pieces) PROVE FALSE
  BY <1>1, <1>6 DEF Seal
<1>7. ASSUME NEW t \in Sessions, NEW n \in 0..MaxCtr, Emit(t, n) PROVE FALSE
  BY <1>1, <1>7 DEF Emit
<1>8. ~PutRow /\ ~Crash /\ ~Restore /\ ~UNCHANGED vars
  BY <1>1 DEF PutRow, Crash, Restore, vars
<1> QED
  BY <1>2, <1>3, <1>4, <1>5, <1>6, <1>7, <1>8 DEF Next

\* insert lets the old sender listen before it drops it: a sending session goes
\* at once only when its peer is forgotten or the process dies.
THEOREM SendersListenFirst == Spec => Grace
<1>1. Init => TypeOK /\ DiskInv
  BY InitFacts DEF Init, DiskInv, Live
<1>2. TypeOK /\ DiskInv /\ [Next]_vars =>
        [\A s \in Sessions :
            mode[s] = "sending" /\ mode'[s] = "none" =>
                ~up' \/ \A t \in Sessions : PeerOf[t] = PeerOf[s] => mode'[t] = "none"]_vars
  BY GraceStep
<1> QED
  BY <1>1, <1>2, TypeStep, DiskStep, PTL DEF Spec, Grace

\* What a restart does to two rows of one slot, of which it lets the earlier
\* handshake's send: the clock did not go forward between the two, and the
\* later one listens, or gives way to a third whose row is no older.
Overtaken(s, t) ==
    SameSlot(s, t) /\ birth[s] < birth[t] /\ mode'[s] = "sending" =>
        /\ est[t] <= est[s]
        /\ mode'[t] # "retired" =>
              \E u \in rows \ {s, t} : SameSlot(s, u) /\ est[t] <= est[u]

LEMMA LatestStep ==
    TypeOK /\ [Next]_vars => (~up /\ up' => \A s, t \in rows : Overtaken(s, t))
<1> SUFFICES ASSUME TypeOK, [Next]_vars, ~up, up',
                    NEW s \in rows, NEW t \in rows,
                    SameSlot(s, t), birth[s] < birth[t], mode'[s] = "sending"
             PROVE  /\ est[t] <= est[s]
                    /\ mode'[t] # "retired" =>
                          \E u \in rows \ {s, t} : SameSlot(s, u) /\ est[t] <= est[u]
  BY DEF Overtaken
<1>1. Restore
  BY DEF Next, vars, Establish, Retire, Seal, Forget, DeleteRow, PutRow, Emit, Crash, Ready
<1>2. PICK rank \in Orders : mode' = [u \in Sessions |-> RestoredMode(rank, u)]
  BY <1>1 DEF Restore
<1>3. s \in Sessions /\ t \in Sessions /\ birth[s] \in Nat /\ s # t
  BY DEF TypeOK
<1>4. /\ \A u \in rows : est[u] \in Nat /\ rank[u] \in Nat
      /\ \A u, v \in rows : u # v => rank[u] # rank[v]
      /\ \A u, v \in rows : est[u] < est[v] => rank[u] < rank[v]
  BY <1>2 DEF Orders, TypeOK
<1>5. Later(rank, s) = {}
  BY <1>2, <1>3 DEF RestoredMode
<1>6. rank[t] < rank[s]
  <2>1. ~(rank[s] < rank[t])
    BY <1>5 DEF Later
  <2> QED BY <2>1, <1>3, <1>4
<1>7. est[t] <= est[s]
  BY <1>4, <1>6
<1>8. s \in Later(rank, t)
  BY <1>6 DEF Later, SameSlot
<1>9. ASSUME mode'[t] # "retired"
      PROVE  \E u \in rows \ {s, t} : SameSlot(s, u) /\ est[t] <= est[u]
  <2>1. PICK u, v \in Later(rank, t) : u # v
    BY <1>2, <1>3, <1>8, <1>9 DEF RestoredMode
  <2>2. PICK w \in Later(rank, t) : w # s
    BY <2>1
  <2>3. w \in rows /\ SameSlot(s, w) /\ rank[t] < rank[w]
    BY <2>2 DEF Later, SameSlot
  <2>4. w # t /\ est[t] <= est[w]
    BY <2>3, <1>4
  <2> QED BY <2>2, <2>3, <2>4
<1> QED
  BY <1>7, <1>9

\* restore sorts the rows by established_ms.  So after a restart a slot sends on
\* its latest handshake, however many rows of it an earlier build left, unless
\* the clock had not gone forward since an earlier one; and then the latest
\* still listens.
THEOREM RestoredLatest == Spec => RestartSendsOnLatest
<1>1. Init => TypeOK
  BY InitFacts
<1>2. TypeOK /\ [Next]_vars =>
        [~up /\ up' => \A s, t \in rows : Overtaken(s, t)]_vars
  BY LatestStep
<1>3. TypeOK /\ [Next]_vars =>
        [~up /\ up' =>
            \A s, t \in rows :
                SameSlot(s, t) /\ birth[s] < birth[t] /\ mode'[s] = "sending" =>
                    /\ est[t] <= est[s]
                    /\ mode'[t] # "retired" =>
                          \E u \in rows \ {s, t} : SameSlot(s, u) /\ est[t] <= est[u]]_vars
  BY <1>2 DEF Overtaken
<1> QED
  BY <1>1, <1>3, TypeStep, PTL DEF Spec, RestartSendsOnLatest

-----------------------------------------------------------------------------
(* The sessions of two sides.                                               *)

USE HandshakeAssumption

Pos == Nat \ {0}

\* The acceptances are counted, so there must be finitely many of them.
Counted == IsFiniteSet(made)

TypeInv == HandshakeTypeOK /\ Counted

\* What Responder::accept made a session of stays in the guard and on the
\* disk, at the side the key was not minted by.
Remembered ==
    /\ \A n \in Nodes : seenRows[n] \subseteq seen[n]
    /\ \A s \in made : s.key \notin cut =>
        \E n \in Nodes : n = Other(minted[s.key]) /\ s.key \in seenRows[n]

ReplayInv == TypeInv /\ Remembered /\ OneSessionPerKey

-----------------------------------------------------------------------------
(* Types.                                                                   *)

\* Ordinals of acceptances start from one.
LEMMA NextSessionType ==
    ASSUME TypeInv, NEW k \in Keys PROVE NextSession(k) \in SessionsOfKeys
<1> DEFINE S == {s \in made : s.key = k}
<1>1. IsFiniteSet(S)
  BY FS_Subset DEF TypeInv, Counted
<1>2. Cardinality(S) \in Nat
  BY <1>1, FS_CardinalityType
<1>3. 1 + Cardinality(S) \in Nat \ {0}
  BY <1>2
<1> QED BY <1>3 DEF NextSession, SessionsOfKeys

\* A call uses the key under way or mints the next one.
LEMMA CallsType ==
    ASSUME TypeInv, NEW n \in Nodes, Calls(n)
    PROVE  /\ minted' \in Seq(Nodes) /\ Keys \subseteq Keys'
           /\ \A k \in Keys : minted'[k] = minted[k]
           /\ pend' \in [Nodes -> {NoKey} \cup Keys'] /\ ring' \in [Nodes -> BOOLEAN]
           /\ \A f \in net' : f \in net \/ (f.kind = "first" /\ f.key \in Keys')
<1> DEFINE k == CallFrame(n)
<1> USE DEF TypeInv, HandshakeTypeOK
<1>1. minted \in Seq(Nodes) /\ Len(minted) \in Nat
  OBVIOUS
<1>2. k \in Keys \/ k = Len(minted) + 1
  BY DEF CallFrame
<1>3. minted' \in Seq(Nodes) /\ Keys \subseteq Keys' /\ k \in Keys'
      /\ \A j \in Keys : minted'[j] = minted[j]
  <2>1. CASE k \in Keys
    BY <2>1 DEF Calls, Keys
  <2>2. CASE k \notin Keys
    <3>1. minted' = Append(minted, n) /\ k = Len(minted) + 1
      BY <1>2, <2>2 DEF Calls
    <3>2. Len(minted') = Len(minted) + 1 /\ minted' \in Seq(Nodes)
      BY <3>1, <1>1
    <3> QED BY <3>1, <3>2, <1>1 DEF Keys
  <2> QED BY <2>1, <2>2
<1>4. pend' \in [Nodes -> {NoKey} \cup Keys']
  BY <1>3 DEF Calls
<1>5. ring' \in [Nodes -> BOOLEAN]
  BY DEF Calls
<1>6. \A f \in net' : f \in net \/ (f.kind = "first" /\ f.key \in Keys')
  BY <1>3 DEF Calls, First
<1> QED BY <1>3, <1>4, <1>5, <1>6

\* A new session keeps a slot well typed.
LEMMA InsertedType ==
    ASSUME TypeInv, NEW n \in Nodes, NEW s \in SessionsOfKeys
    PROVE  InsertedInSlot(n, s) \in Seq(SessionsOfKeys)
<1>1. CASE Sends(n)
  <2>1. held[n] \in Seq(SessionsOfKeys) /\ held[n] # <<>>
    BY <1>1 DEF TypeInv, HandshakeTypeOK, Sends
  <2>2. Sender(n) \in SessionsOfKeys
    BY <2>1 DEF Sender, Last
  <2> QED BY <1>1, <2>2 DEF InsertedInSlot
<1>2. CASE ~Sends(n)
  BY <1>2 DEF InsertedInSlot
<1> QED BY <1>1, <1>2

\* The bound on mishaps, whether a step spends it or not.
LEMMA MeddledType ==
    ASSUME TypeInv, Meddles \/ UNCHANGED meddled PROVE meddled' \in 0..Budget
BY DEF TypeInv, HandshakeTypeOK, Meddles

\* Whoever holds a session of a frame may name it in another.
LEMMA SenderType ==
    ASSUME TypeInv, NEW n \in Nodes, Sends(n) PROVE Sender(n) \in SessionsOfKeys
<1>1. held[n] \in Seq(SessionsOfKeys) /\ held[n] # <<>>
  BY DEF TypeInv, HandshakeTypeOK, Sends
<1> QED BY <1>1 DEF Sender, Last

LEMMA InitType == HandshakeInit => TypeInv
<1> SUFFICES ASSUME HandshakeInit PROVE TypeInv
  OBVIOUS
<1>1. IsFiniteSet(made)
  BY FS_EmptySet DEF HandshakeInit
<1> QED BY <1>1 DEF HandshakeInit, TypeInv, HandshakeTypeOK, Counted, Keys, NoKey, SessionsOfKeys

\* Steps that mint no key and change neither the slots nor the guard.
LEMMA QuietType ==
    ASSUME TypeInv,
           UNCHANGED <<cast, minted, pend, ring, held, mute, seen, seenRows, answers, made, cut>>,
           wait' \in [Nodes -> BOOLEAN], meddled' \in 0..Budget,
           \A f \in net' : f.key \in Keys /\ (f.kind = "first" \/ SessionOf(f) \in SessionsOfKeys)
    PROVE  TypeInv'
<1>1. Keys' = Keys /\ SessionsOfKeys' = SessionsOfKeys
  BY DEF Keys, SessionsOfKeys
<1>2. \A f : SessionOf(f)' = SessionOf(f)
  BY DEF SessionOf
<1> QED BY <1>1, <1>2 DEF TypeInv, HandshakeTypeOK, Counted

\* What is left of the network after a frame was taken is well typed if what
\* was added is.
LEMMA TakesType ==
    ASSUME TypeInv, NEW f \in net, NEW new, Takes(f, new),
           \A g \in new : g.key \in Keys /\ (g.kind = "first" \/ SessionOf(g) \in SessionsOfKeys)
    PROVE  /\ meddled' \in 0..Budget
           /\ \A g \in net' : g.key \in Keys /\ (g.kind = "first" \/ SessionOf(g) \in SessionsOfKeys)
<1>1. meddled' \in 0..Budget
  BY MeddledType DEF Takes, OpensOnce
<1>2. \A g \in net' : g \in net \/ g \in new
  BY DEF Takes, OpensOnce
<1> QED BY <1>1, <1>2 DEF TypeInv, HandshakeTypeOK

\* Calling keeps the types, whatever else the step does to the slot.
LEMMA CallingType ==
    ASSUME TypeInv, NEW n \in Nodes, Calls(n),
           UNCHANGED <<cast, held, seen, seenRows, answers, made, cut>>,
           mute' \in [Nodes -> BOOLEAN], wait' \in [Nodes -> BOOLEAN],
           meddled' \in 0..Budget
    PROVE  TypeInv'
<1> USE DEF TypeInv, HandshakeTypeOK
<1>1. /\ minted' \in Seq(Nodes) /\ Keys \subseteq Keys'
      /\ pend' \in [Nodes -> {NoKey} \cup Keys'] /\ ring' \in [Nodes -> BOOLEAN]
      /\ \A f \in net' : f \in net \/ (f.kind = "first" /\ f.key \in Keys')
  BY CallsType
<1>2. SessionsOfKeys \subseteq SessionsOfKeys'
  BY <1>1 DEF SessionsOfKeys
<1>3. held' \in [Nodes -> Seq(SessionsOfKeys')]
  BY <1>2
<1>4. \A f \in net' : f.key \in Keys' /\ (f.kind = "first" \/ SessionOf(f)' \in SessionsOfKeys')
  BY <1>1, <1>2 DEF SessionOf
<1> QED BY <1>1, <1>2, <1>3, <1>4 DEF Counted

\* A death, or a clean stop, keeps the types.
LEMMA ForgetsType ==
    ASSUME TypeInv, NEW n \in Nodes, Forgets(n, seenRows[n])
    PROVE  /\ pend' \in [Nodes -> {NoKey} \cup Keys] /\ ring' \in [Nodes -> BOOLEAN]
           /\ wait' \in [Nodes -> BOOLEAN] /\ mute' \in [Nodes -> BOOLEAN]
           /\ seen' \in [Nodes -> SUBSET Keys] /\ answers' \in [Nodes -> SUBSET SessionsOfKeys]
BY DEF TypeInv, HandshakeTypeOK, Forgets

\* Silence, the handshake's or a frame's, keeps the types.
LEMMA UnansweredType ==
    ASSUME TypeInv, NEW n \in Nodes, NEW ringing \in BOOLEAN, TimeIsUp,
           Unanswered(n, ringing)
    PROVE  TypeInv'
<1>1. meddled' \in 0..Budget
  BY MeddledType DEF TimeIsUp
<1>2. mute' \in [Nodes -> BOOLEAN] /\ wait' \in [Nodes -> BOOLEAN]
  BY DEF Unanswered, TypeInv, HandshakeTypeOK
<1>3. CASE wait[n] /\ Sends(n)
  BY <1>1, <1>2, <1>3, CallingType DEF Unanswered
<1>4. CASE ~(wait[n] /\ Sends(n))
  <2>1. ring' \in [Nodes -> BOOLEAN]
    BY <1>4 DEF Unanswered, TypeInv, HandshakeTypeOK
  <2>2. UNCHANGED <<cast, minted, pend, held, seen, seenRows, answers, made, cut, net>>
    BY <1>4 DEF Unanswered
  <2>3. Keys' = Keys /\ SessionsOfKeys' = SessionsOfKeys /\ \A f : SessionOf(f)' = SessionOf(f)
    BY <2>2 DEF Keys, SessionsOfKeys, SessionOf
  <2> QED BY <1>1, <1>2, <2>1, <2>2, <2>3 DEF TypeInv, HandshakeTypeOK, Counted
<1> QED BY <1>3, <1>4

-----------------------------------------------------------------------------

\* The side that answers a first step.
LEMMA AcceptType ==
    ASSUME TypeInv, NEW n \in Nodes, NEW k \in Keys, Accept(n, k) PROVE TypeInv'
<1> DEFINE s == NextSession(k)
<1> USE DEF TypeInv, HandshakeTypeOK
<1>1. s \in SessionsOfKeys /\ s.key = k
  BY NextSessionType DEF NextSession
<1>2. held' \in [Nodes -> Seq(SessionsOfKeys)] /\ mute' \in [Nodes -> BOOLEAN]
  <2>1. InsertedInSlot(n, s) \in Seq(SessionsOfKeys)
    BY <1>1, InsertedType
  <2> QED BY <2>1 DEF Accept, Establishes
<1>3. seen' \in [Nodes -> SUBSET Keys] /\ seenRows' \in [Nodes -> SUBSET Keys]
      /\ answers' \in [Nodes -> SUBSET SessionsOfKeys] /\ made' \subseteq SessionsOfKeys
  BY <1>1 DEF Accept
<1>4. IsFiniteSet(made')
  <2>1. made' = made \cup {s}
    BY DEF Accept
  <2> QED BY <2>1, FS_AddElement DEF Counted
<1>5. /\ meddled' \in 0..Budget
      /\ \A g \in net' : g.key \in Keys /\ (g.kind = "first" \/ SessionOf(g) \in SessionsOfKeys)
  <2>1. First(k) \in net /\ Takes(First(k), {Reply(s)})
    BY DEF Accept
  <2>2. \A g \in {Reply(s)} : g.key \in Keys /\ SessionOf(g) \in SessionsOfKeys
    BY <1>1 DEF Reply, SessionOf, SessionsOfKeys
  <2> QED BY <2>1, <2>2, TakesType
<1>6. Keys' = Keys /\ SessionsOfKeys' = SessionsOfKeys /\ \A f : SessionOf(f)' = SessionOf(f)
  BY DEF Accept, Keys, SessionsOfKeys, SessionOf
<1> QED BY <1>2, <1>3, <1>4, <1>5, <1>6 DEF Accept, Counted

LEMMA RepeatType ==
    ASSUME TypeInv, NEW n \in Nodes, NEW k \in Keys, Repeat(n, k) PROVE TypeInv'
<1> DEFINE new == {Reply(s) : s \in AnswersTo(n, k)}
<1>1. \A g \in new : g.key \in Keys /\ SessionOf(g) \in SessionsOfKeys
  <2> SUFFICES ASSUME NEW s \in AnswersTo(n, k)
               PROVE  Reply(s).key \in Keys /\ SessionOf(Reply(s)) \in SessionsOfKeys
    OBVIOUS
  <2>1. s \in SessionsOfKeys
    BY DEF AnswersTo, TypeInv, HandshakeTypeOK
  <2> QED BY <2>1 DEF Reply, SessionOf, SessionsOfKeys
<1>2. First(k) \in net /\ Takes(First(k), new)
  BY DEF Repeat
<1>3. /\ meddled' \in 0..Budget
      /\ \A g \in net' : g.key \in Keys /\ (g.kind = "first" \/ SessionOf(g) \in SessionsOfKeys)
  BY <1>1, <1>2, TakesType
<1>4. wait' \in [Nodes -> BOOLEAN]
  BY DEF Repeat, TypeInv, HandshakeTypeOK
<1> QED BY <1>3, <1>4, QuietType DEF Repeat

\* The side that gets the reply.
LEMMA FinishType ==
    ASSUME TypeInv, NEW n \in Nodes, NEW f \in net, Finish(n, f) PROVE TypeInv'
<1> USE DEF TypeInv, HandshakeTypeOK
<1>1. /\ meddled' \in 0..Budget
      /\ \A g \in net' : g.key \in Keys /\ (g.kind = "first" \/ SessionOf(g) \in SessionsOfKeys)
  BY TakesType DEF Finish
<1>2. SessionOf(f) \in SessionsOfKeys
  BY DEF Finish
<1>3. held' \in [Nodes -> Seq(SessionsOfKeys)] /\ mute' \in [Nodes -> BOOLEAN]
  <2>1. InsertedInSlot(n, SessionOf(f)) \in Seq(SessionsOfKeys)
    BY <1>2, InsertedType
  <2>2. CASE pend[n] = f.key
    <3>1. Establishes(n, SessionOf(f))
      BY <2>2 DEF Finish
    <3>2. held' = [held EXCEPT ![n] = InsertedInSlot(n, SessionOf(f))]
          /\ mute' = [mute EXCEPT ![n] = FALSE]
      BY <3>1 DEF Establishes
    <3>3. held \in [Nodes -> Seq(SessionsOfKeys)] /\ mute \in [Nodes -> BOOLEAN]
      OBVIOUS
    <3> HIDE DEF TypeInv, HandshakeTypeOK
    <3> QED BY <2>1, <3>2, <3>3
  <2>3. CASE pend[n] # f.key
    BY <2>3 DEF Finish
  <2> QED BY <2>2, <2>3
<1>4. pend' \in [Nodes -> {NoKey} \cup Keys] /\ ring' \in [Nodes -> BOOLEAN]
  BY DEF Finish
<1>5. Keys' = Keys /\ SessionsOfKeys' = SessionsOfKeys /\ \A g : SessionOf(g)' = SessionOf(g)
  BY DEF Finish, Keys, SessionsOfKeys, SessionOf
<1> QED BY <1>1, <1>3, <1>4, <1>5 DEF Finish, Counted

\* A frame of a session, and what is confirmed by it.
LEMMA SendType == ASSUME TypeInv, NEW n \in Nodes, SendData(n) PROVE TypeInv'
<1>1. Sender(n) \in SessionsOfKeys
  BY SenderType DEF SendData
<1>2. LET f == Data(Sender(n), Other(n)) IN f.key \in Keys /\ SessionOf(f) \in SessionsOfKeys
  BY <1>1 DEF Data, SessionOf, SessionsOfKeys
<1>3. \A g \in net' : g.key \in Keys /\ (g.kind = "first" \/ SessionOf(g) \in SessionsOfKeys)
  BY <1>2 DEF SendData, TypeInv, HandshakeTypeOK
<1>4. wait' \in [Nodes -> BOOLEAN] /\ meddled' \in 0..Budget
  BY DEF SendData, TypeInv, HandshakeTypeOK
<1> QED BY <1>3, <1>4, QuietType DEF SendData

LEMMA HearType == ASSUME TypeInv, NEW n \in Nodes, NEW f \in net, Hear(n, f) PROVE TypeInv'
<1> DEFINE new == IF SessionOf(f) \in Holds(n) /\ Sends(n)
                  THEN {Ack(Sender(n), Other(n))} ELSE {}
<1>1. \A g \in new : g.key \in Keys /\ SessionOf(g) \in SessionsOfKeys
  <2>1. CASE SessionOf(f) \in Holds(n) /\ Sends(n)
    <3>1. Sender(n) \in SessionsOfKeys
      BY <2>1, SenderType
    <3> QED BY <2>1, <3>1 DEF Ack, SessionOf, SessionsOfKeys
  <2>2. CASE ~(SessionOf(f) \in Holds(n) /\ Sends(n))
    BY <2>2
  <2> QED BY <2>1, <2>2
<1>2. /\ meddled' \in 0..Budget
      /\ \A g \in net' : g.key \in Keys /\ (g.kind = "first" \/ SessionOf(g) \in SessionsOfKeys)
  <2>1. Takes(f, new)
    BY DEF Hear, Takes
  <2> QED BY <1>1, <2>1, TakesType
<1>3. wait' \in [Nodes -> BOOLEAN]
  BY DEF Hear, TypeInv, HandshakeTypeOK
<1> QED BY <1>2, <1>3, QuietType DEF Hear

LEMMA ConfirmedType ==
    ASSUME TypeInv, NEW n \in Nodes, NEW f \in net, Confirmed(n, f) PROVE TypeInv'
<1>1. /\ meddled' \in 0..Budget
      /\ \A g \in net' : g.key \in Keys /\ (g.kind = "first" \/ SessionOf(g) \in SessionsOfKeys)
  BY TakesType DEF Confirmed, Takes
<1>2. wait' \in [Nodes -> BOOLEAN]
  BY DEF Confirmed, TypeInv, HandshakeTypeOK
<1> QED BY <1>1, <1>2, QuietType DEF Confirmed

LEMMA LoseType == ASSUME TypeInv, Lose PROVE TypeInv'
<1>1. \A g \in net' : g.key \in Keys /\ (g.kind = "first" \/ SessionOf(g) \in SessionsOfKeys)
  BY DEF Lose, TypeInv, HandshakeTypeOK
<1>2. wait' \in [Nodes -> BOOLEAN] /\ meddled' \in 0..Budget
  BY MeddledType DEF Lose, TypeInv, HandshakeTypeOK
<1> QED BY <1>1, <1>2, QuietType DEF Lose

\* A side stops between two handlers, or inside the one that accepts.
LEMMA RestartType == ASSUME TypeInv, NEW n \in Nodes, Restart(n) PROVE TypeInv'
<1>1. Keys' = Keys /\ SessionsOfKeys' = SessionsOfKeys /\ \A g : SessionOf(g)' = SessionOf(g)
  BY DEF Restart, Keys, SessionsOfKeys, SessionOf
<1>2. meddled' \in 0..Budget
  BY MeddledType DEF Restart
<1> QED BY <1>1, <1>2, ForgetsType DEF Restart, TypeInv, HandshakeTypeOK, Counted

LEMMA DieAcceptingType ==
    ASSUME TypeInv, NEW n \in Nodes, NEW k \in Keys, DieAccepting(n, k) PROVE TypeInv'
<1> DEFINE s == NextSession(k)
<1>1. Keys' = Keys /\ SessionsOfKeys' = SessionsOfKeys /\ \A g : SessionOf(g)' = SessionOf(g)
  BY DEF DieAccepting, Keys, SessionsOfKeys, SessionOf
<1>2. meddled' \in 0..Budget
  BY MeddledType DEF DieAccepting
<1>3. s \in SessionsOfKeys /\ InsertedInSlot(n, s) \in Seq(SessionsOfKeys)
  BY NextSessionType, InsertedType
<1>4. held' \in [Nodes -> Seq(SessionsOfKeys)] /\ made' \subseteq SessionsOfKeys /\ cut' \subseteq Keys
  BY <1>3 DEF DieAccepting, TypeInv, HandshakeTypeOK
<1>5. IsFiniteSet(made')
  <2>1. made' = made \cup {s}
    BY DEF DieAccepting
  <2> QED BY <2>1, FS_AddElement DEF TypeInv, Counted
<1> QED BY <1>1, <1>2, <1>4, <1>5, ForgetsType DEF DieAccepting, TypeInv, HandshakeTypeOK, Counted

LEMMA CallType == ASSUME TypeInv, NEW n \in Nodes, Call(n) PROVE TypeInv'
<1>1. mute' \in [Nodes -> BOOLEAN] /\ wait' \in [Nodes -> BOOLEAN] /\ meddled' \in 0..Budget
  BY DEF Call, TypeInv, HandshakeTypeOK
<1> QED BY <1>1, CallingType DEF Call

LEMMA HandshakeTypeStep == TypeInv /\ [HandshakeNext]_handshakeVars => TypeInv'
<1> SUFFICES ASSUME TypeInv, [HandshakeNext]_handshakeVars PROVE TypeInv'
  OBVIOUS
<1>1. CASE UNCHANGED handshakeVars
  BY <1>1 DEF handshakeVars, TypeInv, HandshakeTypeOK, Counted, Keys, SessionsOfKeys, SessionOf
<1>2. ASSUME NEW n \in Nodes, Call(n) \/ CallSilence(n) \/ Silence(n) PROVE TypeInv'
  <2>1. CASE Call(n)
    BY <2>1, CallType
  <2>2. CASE CallSilence(n)
    BY <2>2, UnansweredType DEF CallSilence
  <2>3. CASE Silence(n)
    <3>1. ring[n] \in BOOLEAN
      BY DEF TypeInv, HandshakeTypeOK
    <3> QED BY <2>3, <3>1, UnansweredType DEF Silence
  <2> QED BY <1>2, <2>1, <2>2, <2>3
<1>3. ASSUME NEW n \in Nodes, NEW k \in Keys,
             Accept(n, k) \/ Repeat(n, k) \/ DieAccepting(n, k)
      PROVE  TypeInv'
  BY <1>3, AcceptType, RepeatType, DieAcceptingType
<1>4. ASSUME NEW n \in Nodes, NEW f \in net, Finish(n, f) \/ Hear(n, f) \/ Confirmed(n, f)
      PROVE  TypeInv'
  BY <1>4, FinishType, HearType, ConfirmedType
<1>5. ASSUME NEW n \in Nodes, SendData(n) \/ Restart(n) PROVE TypeInv'
  BY <1>5, SendType, RestartType
<1>6. CASE Lose
  BY <1>6, LoseType
<1> QED BY <1>1, <1>2, <1>3, <1>4, <1>5, <1>6 DEF HandshakeNext

\* Every reachable state of the two engines has the types of TypeOK: no frame
\* names a key nobody minted, no slot a session nobody made.
THEOREM HandshakeTypes == HandshakeSpec => []HandshakeTypeOK
<1>1. TypeInv => HandshakeTypeOK
  BY DEF TypeInv
<1> QED BY <1>1, InitType, HandshakeTypeStep, PTL DEF HandshakeSpec

-----------------------------------------------------------------------------
(* One session per first step.                                              *)

\* Minting a key changes the owner of no earlier one.
LEMMA OwnerKept ==
    ASSUME TypeInv, [HandshakeNext]_handshakeVars, NEW k \in Keys PROVE minted'[k] = minted[k]
<1>1. CASE UNCHANGED minted
  BY <1>1
<1>2. ASSUME NEW n \in Nodes, Calls(n) PROVE minted'[k] = minted[k]
  BY <1>2, CallsType
<1>3. (\E n \in Nodes : Calls(n)) \/ UNCHANGED minted
  BY DEF HandshakeNext, handshakeVars, Call, CallSilence, Silence, Unanswered, Accept, Repeat, DieAccepting,
         Finish, Hear, Confirmed, SendData, Restart, Lose
<1> QED BY <1>1, <1>2, <1>3

\* Steps that accept nothing leave the guard's digests, or lose those of
\* memory alone.
LEMMA QuietReplay ==
    ASSUME ReplayInv, [HandshakeNext]_handshakeVars, UNCHANGED <<made, cut, seenRows>>,
           \A n \in Nodes : seenRows[n] \subseteq seen'[n]
    PROVE  Remembered' /\ OneSessionPerKey'
<1>1. \A s \in made : minted'[s.key] = minted[s.key]
  BY OwnerKept DEF ReplayInv, TypeInv, HandshakeTypeOK, SessionsOfKeys
<1>2. \A s \in made : Other(minted'[s.key]) = Other(minted[s.key])
  BY <1>1
<1>3. \A s \in made' : s.key \notin cut' =>
        \E n \in Nodes : n = Other(minted[s.key]) /\ s.key \in seenRows'[n]
  BY DEF ReplayInv, Remembered
<1>4. Remembered'
  BY <1>2, <1>3 DEF Remembered, Other
<1> QED BY <1>4 DEF ReplayInv, OneSessionPerKey

LEMMA AcceptReplay ==
    ASSUME ReplayInv, NEW n \in Nodes, NEW k \in Keys, Accept(n, k)
    PROVE  Remembered' /\ OneSessionPerKey'
<1> DEFINE s == NextSession(k)
<1>1. s.key = k
  BY DEF NextSession
<1>2. made' = made \cup {s} /\ UNCHANGED <<minted, cut>> /\ n = Other(minted[k])
  BY DEF Accept
<1>3. /\ seenRows' = [seenRows EXCEPT ![n] = @ \cup {k}]
      /\ seen' = [seen EXCEPT ![n] = @ \cup {k}]
      /\ k \notin seen[n]
  BY DEF Accept
<1>4. seenRows \in [Nodes -> SUBSET Keys] /\ seen \in [Nodes -> SUBSET Keys]
  BY DEF ReplayInv, TypeInv, HandshakeTypeOK
<1>5. \A m \in Nodes : seenRows'[m] \subseteq seen'[m] /\ seenRows[m] \subseteq seenRows'[m]
  BY <1>3, <1>4 DEF ReplayInv, Remembered
<1>6. k \in seenRows'[n]
  BY <1>3, <1>4
<1>7. \A t \in made : t.key = k => t.key \in cut
  <2> SUFFICES ASSUME NEW t \in made, t.key = k, t.key \notin cut PROVE FALSE
    OBVIOUS
  <2>1. k \in seenRows[n]
    BY <1>2 DEF ReplayInv, Remembered
  <2> QED BY <2>1, <1>3 DEF ReplayInv, Remembered
<1>8. \A t \in made' : t.key \notin cut' =>
        \E m \in Nodes : m = Other(minted[t.key]) /\ t.key \in seenRows'[m]
  <2> SUFFICES ASSUME NEW t \in made', t.key \notin cut'
               PROVE  \E m \in Nodes : m = Other(minted[t.key]) /\ t.key \in seenRows'[m]
    OBVIOUS
  <2>1. CASE t = s
    BY <2>1, <1>1, <1>2, <1>6
  <2>2. CASE t \in made
    <3>1. PICK m \in Nodes : m = Other(minted[t.key]) /\ t.key \in seenRows[m]
      BY <2>2, <1>2 DEF ReplayInv, Remembered
    <3> QED BY <3>1, <1>5
  <2> QED BY <2>1, <2>2, <1>2
<1>9. Remembered'
  BY <1>2, <1>5, <1>8 DEF Remembered, Other
<1>10. OneSessionPerKey'
  BY <1>1, <1>2, <1>7 DEF ReplayInv, OneSessionPerKey
<1> QED BY <1>9, <1>10

LEMMA DieReplay ==
    ASSUME ReplayInv, NEW n \in Nodes, NEW k \in Keys, DieAccepting(n, k)
    PROVE  Remembered' /\ OneSessionPerKey'
<1> DEFINE s == NextSession(k)
<1>1. s.key = k
  BY DEF NextSession
<1>2. made' = made \cup {s} /\ cut' = cut \cup {k} /\ UNCHANGED <<minted, seenRows>>
  BY DEF DieAccepting
<1>3. seen' = [seen EXCEPT ![n] = seenRows[n]] /\ seen \in [Nodes -> SUBSET Keys]
  BY DEF DieAccepting, Forgets, ReplayInv, TypeInv, HandshakeTypeOK
<1>4. \A m \in Nodes : seenRows'[m] \subseteq seen'[m]
  BY <1>2, <1>3 DEF ReplayInv, Remembered
<1>5. \A t \in made' : t.key \notin cut' => t \in made /\ t.key \notin cut
  BY <1>1, <1>2
<1>6. Remembered'
  BY <1>2, <1>4, <1>5 DEF ReplayInv, Remembered, Other
<1>7. OneSessionPerKey'
  BY <1>2, <1>5 DEF ReplayInv, OneSessionPerKey
<1> QED BY <1>6, <1>7

LEMMA ReplayStep == ReplayInv /\ [HandshakeNext]_handshakeVars => ReplayInv'
<1> SUFFICES ASSUME ReplayInv, [HandshakeNext]_handshakeVars PROVE ReplayInv'
  OBVIOUS
<1>1. TypeInv'
  BY HandshakeTypeStep DEF ReplayInv
<1>2. ASSUME UNCHANGED <<made, cut, seenRows, seen>> PROVE Remembered' /\ OneSessionPerKey'
  BY <1>2, QuietReplay DEF ReplayInv, Remembered
<1>3. ASSUME NEW n \in Nodes, Restart(n) PROVE Remembered' /\ OneSessionPerKey'
  <2>1. seen' = [seen EXCEPT ![n] = seenRows[n]] /\ UNCHANGED <<made, cut, seenRows>>
    BY <1>3 DEF Restart, Forgets
  <2>2. \A m \in Nodes : seenRows[m] \subseteq seen'[m]
    BY <2>1 DEF ReplayInv, Remembered, TypeInv, HandshakeTypeOK
  <2> QED BY <2>1, <2>2, QuietReplay
<1>4. \/ UNCHANGED <<made, cut, seenRows, seen>>
      \/ \E n \in Nodes : Restart(n)
      \/ \E n \in Nodes, k \in Keys : Accept(n, k) \/ DieAccepting(n, k)
  BY DEF HandshakeNext, handshakeVars, Call, CallSilence, Silence, Unanswered, Repeat, Finish, Hear, Confirmed,
         SendData, Lose
<1>5. Remembered' /\ OneSessionPerKey'
  BY <1>2, <1>3, <1>4, AcceptReplay, DieReplay
<1> QED BY <1>1, <1>5 DEF ReplayInv

\* For any number of keys, losses, repetitions and restarts a first step makes
\* one session, unless its acceptor died before the digest was on the disk:
\* what the guard remembers across a restart is enough.
THEOREM OneSession == HandshakeSpec => []OneSessionPerKey
<1>1. HandshakeInit => ReplayInv
  BY InitType DEF HandshakeInit, ReplayInv, Remembered, OneSessionPerKey
<1>2. ReplayInv => OneSessionPerKey
  BY DEF ReplayInv
<1> QED BY <1>1, <1>2, ReplayStep, PTL DEF HandshakeSpec

-----------------------------------------------------------------------------
(***************************************************************************)
(* While nothing goes wrong, what one side sends on the other holds.  The  *)
(* two calls of a side follow one another, but those of the two sides      *)
(* cross in every way, so the invariant says of each frame of a handshake  *)
(* what both slots are at that moment: a reply on its way belongs to a     *)
(* session only the replier holds, and the replier has since put at most   *)
(* one session after it, on which both send; a caller whose first step is  *)
(* on its way sends only on what the other sends on, or will.              *)
(***************************************************************************)

Awaited(s) ==
    LET n == minted[s.key]  m == Other(n) IN
    /\ pend[n] = s.key
    /\ s \in Holds(m) /\ s \notin Holds(n)
    /\ Sends(m)
    /\ \/ Sender(m) = s
       \/ pend[m] = NoKey /\ Sends(n) /\ Sender(m) = Sender(n)

\* who called has the first step or the reply on its way
CallCalm(n) ==
    /\ ring[n] <=> pend[n] # NoKey
    /\ pend[n] # NoKey =>
        /\ minted[pend[n]] = n
        /\ First(pend[n]) \in net \/ \E s \in made : s.key = pend[n] /\ Reply(s) \in net

FrameCalm(f) ==
    /\ f.kind = "first" => /\ f = First(f.key)
                           /\ pend[minted[f.key]] = f.key
                           /\ f.key \notin seen[Other(minted[f.key])]
    /\ f.kind = "reply" => /\ f = Reply(SessionOf(f)) /\ SessionOf(f) \in made
                           /\ Awaited(SessionOf(f))

SlotCalm(n) ==
    /\ Holds(n) \subseteq made
    /\ Sends(n) => Sender(n) \in Holds(Other(n)) \/ Reply(Sender(n)) \in net
    /\ (pend[n] # NoKey /\ First(pend[n]) \in net /\ Sends(n)) =>
         \/ Reply(Sender(n)) \in net
         \/ Sends(Other(n)) /\ Sender(Other(n)) = Sender(n)

CalmInv ==
    /\ cut = {}
    /\ \A n \in Nodes : CallCalm(n) /\ SlotCalm(n)
    /\ \A f \in net : FrameCalm(f)

HearInv == meddled = 0 => CalmInv

-----------------------------------------------------------------------------
(* The two sides and the frames. *)

LEMMA Sides ==
    /\ \A n \in Nodes : Other(n) \in Nodes /\ Other(n) # n /\ Other(Other(n)) = n
    /\ \A n, x \in Nodes : x # n => x = Other(n)
<1>1. PICK p, q \in Nodes : p # q /\ Nodes = {p, q}
  OBVIOUS
<1>2. Other(p) = q /\ Other(q) = p
  BY <1>1 DEF Other
<1> QED BY <1>1, <1>2

LEMMA FrameFacts ==
    /\ \A k : First(k).kind = "first" /\ First(k).key = k
    /\ \A s : Reply(s).kind = "reply" /\ Reply(s).key = s.key
    /\ \A s \in SessionsOfKeys : SessionOf(Reply(s)) = s
    /\ \A s, n : Data(s, n).kind = "data" /\ Ack(s, n).kind = "ack"
BY DEF First, Reply, Data, Ack, SessionOf, SessionsOfKeys

\* A reply names one session, for each session belongs to the key it is made from.
LEMMA OneReply ==
    ASSUME ReplayInv, CalmInv, NEW s \in made, NEW t \in made, s.key = t.key
    PROVE  s = t
BY DEF ReplayInv, OneSessionPerKey, CalmInv

\* A session that was made is remembered by the side its key was not minted by.
LEMMA MadeSeen ==
    ASSUME ReplayInv, CalmInv, NEW s \in made
    PROVE  /\ s.key \in seen[Other(minted[s.key])]
           /\ s.key \in Keys /\ minted[s.key] \in Nodes /\ s.key # NoKey /\ s \in SessionsOfKeys
BY DEF ReplayInv, Remembered, CalmInv, TypeInv, HandshakeTypeOK, SessionsOfKeys, Keys, NoKey

LEMMA SenderHeld ==
    ASSUME TypeInv, NEW n \in Nodes, Sends(n)
    PROVE  Sender(n) \in Holds(n)
<1>1. held[n] \in Seq(SessionsOfKeys) /\ held[n] # <<>>
  BY DEF TypeInv, HandshakeTypeOK, Sends
<1>2. Len(held[n]) \in DOMAIN held[n]
  BY <1>1
<1> QED BY <1>2 DEF Sender, Last, Holds, ToSet

\* What a slot is once a session was put into it.
LEMMA Established ==
    ASSUME TypeInv, NEW n \in Nodes, NEW s \in SessionsOfKeys, Establishes(n, s)
    PROVE  /\ Sends(n)' /\ Sender(n)' = s
           /\ s \in Holds(n)' /\ \A t \in Holds(n)' : t = s \/ (Sends(n) /\ t = Sender(n))
           /\ Sends(n) => Sender(n) \in Holds(n)'
           /\ \A m \in Nodes : m # n =>
                Sends(m)' = Sends(m) /\ Sender(m)' = Sender(m) /\ Holds(m)' = Holds(m)
<1>1. /\ held'[n] = InsertedInSlot(n, s) /\ mute'[n] = FALSE
      /\ \A m \in Nodes : m # n => held'[m] = held[m] /\ mute'[m] = mute[m]
  BY DEF Establishes, TypeInv, HandshakeTypeOK
<1>2. CASE Sends(n)
  <2>1. held'[n] = <<Sender(n), s>>
    BY <1>1, <1>2 DEF InsertedInSlot
  <2>2. /\ held'[n] # <<>> /\ Last(held'[n]) = s
        /\ ToSet(held'[n]) = {Sender(n), s}
    BY <2>1 DEF Last, ToSet
  <2> QED BY <1>1, <1>2, <2>2 DEF Sends, Sender, Holds
<1>3. CASE ~Sends(n)
  <2>1. held'[n] = <<s>>
    BY <1>1, <1>3 DEF InsertedInSlot
  <2>2. held'[n] # <<>> /\ Last(held'[n]) = s /\ ToSet(held'[n]) = {s}
    BY <2>1 DEF Last, ToSet
  <2> QED BY <1>1, <1>3, <2>2 DEF Sends, Sender, Holds
<1> QED BY <1>2, <1>3

-----------------------------------------------------------------------------
(* The steps. *)

\* Steps that touch neither the slots nor a frame of a handshake.
LEMMA QuietCalm ==
    ASSUME ReplayInv, CalmInv,
           UNCHANGED <<minted, pend, ring, held, mute, seen, made, cut>>,
           \A f \in net : f \in net' \/ f.kind \in {"data", "ack"},
           \A f \in net' : f \in net \/ f.kind \in {"data", "ack"}
    PROVE  CalmInv'
<1>1. /\ \A k : First(k) \in net' <=> First(k) \in net
      /\ \A s : Reply(s) \in net' <=> Reply(s) \in net
  BY FrameFacts
<1>2. \A n : /\ Holds(n)' = Holds(n) /\ Sends(n)' = Sends(n)
             /\ Sender(n)' = Sender(n)
  BY DEF Holds, Sends, Sender
<1>3. \A n \in Nodes : CallCalm(n)' /\ SlotCalm(n)'
  BY <1>1, <1>2, Sides DEF CalmInv, CallCalm, SlotCalm, First, Reply, Other
<1>4. \A f \in net' : FrameCalm(f)'
  <2> TAKE f \in net'
  <2>1. CASE f \in net
    <3>1. FrameCalm(f) /\ SessionOf(f)' = SessionOf(f)
      BY <2>1 DEF CalmInv, SessionOf
    <3>2. \A s : Awaited(s)' = Awaited(s)
      BY <1>2 DEF Awaited, Other
    <3> QED BY <3>1, <3>2 DEF FrameCalm, First, Reply, Other, SessionOf
  <2> QED BY <2>1 DEF FrameCalm
<1> QED BY <1>3, <1>4 DEF CalmInv

\* A side calls when it has nothing to send on, or after a silence, which is
\* longer than any trip: no reply is on its way then.
LEMMA CallsCalm ==
    ASSUME ReplayInv, CalmInv, NEW n \in Nodes, Calls(n), ~ring[n],
           net = {} \/ ~Sends(n), ~Sends(n)',
           \A m \in Nodes : m # n => mute'[m] = mute[m],
           UNCHANGED <<held, seen, made, cut>>
    PROVE  CalmInv'
<1> DEFINE x == Other(n)
<1>1. x \in Nodes /\ x # n /\ Other(x) = n /\ \A m \in Nodes : m = n \/ m = x
  BY Sides
<1>2. pend[n] = NoKey /\ Len(minted) \in Nat /\ minted \in Seq(Nodes)
  BY DEF CalmInv, CallCalm, ReplayInv, TypeInv, HandshakeTypeOK
<1>k. PICK k : k = Len(minted) + 1
  OBVIOUS
<1>3. k \notin Keys /\ k # NoKey
  BY <1>2, <1>k DEF Keys, NoKey
<1>4. /\ minted' = Append(minted, n) /\ net' = net \cup {First(k)}
      /\ pend' = [pend EXCEPT ![n] = k] /\ ring' = [ring EXCEPT ![n] = TRUE]
  BY <1>2, <1>3, <1>k DEF Calls, CallFrame
<1>5. /\ pend'[n] = k /\ pend'[x] = pend[x] /\ ring'[n] = TRUE /\ ring'[x] = ring[x]
      /\ minted'[k] = n /\ \A j \in Keys : minted'[j] = minted[j] /\ j # k
  BY <1>1, <1>2, <1>3, <1>4, <1>k DEF ReplayInv, TypeInv, HandshakeTypeOK, Keys
<1>6. \A f \in net : f.key \in Keys /\ (f.kind = "first" \/ SessionOf(f) \in SessionsOfKeys)
  BY DEF ReplayInv, TypeInv, HandshakeTypeOK
<1>7. \A f \in net : f.kind # "reply"
  <2> SUFFICES ASSUME NEW f \in net, f.kind = "reply" PROVE FALSE
    OBVIOUS
  <2>1. PICK s \in made : s = SessionOf(f) /\ Awaited(s)
    BY DEF CalmInv, FrameCalm
  <2>2. s.key # NoKey /\ minted[s.key] \in Nodes
    BY MadeSeen
  <2>3. CASE minted[s.key] = n
    BY <1>2, <2>1, <2>2, <2>3 DEF Awaited
  <2>4. CASE minted[s.key] = x
    BY <1>1, <2>1, <2>4 DEF Awaited
  <2> QED BY <1>1, <2>2, <2>3, <2>4
<1>8. /\ \A m : Holds(m)' = Holds(m) /\ Sender(m)' = Sender(m)
      /\ Sends(x)' = Sends(x)
  BY <1>1 DEF Holds, Sender, Sends
<1>9. CallCalm(n)' /\ SlotCalm(n)'
  <2>1. First(k) \in net' /\ First(k)' = First(k)
    BY <1>4 DEF First
  <2>2. CallCalm(n)'
    BY <1>3, <1>5, <2>1 DEF CallCalm, First
  <2>3. Holds(n)' \subseteq made'
    BY <1>8 DEF CalmInv, SlotCalm
  <2> QED BY <2>2, <2>3 DEF SlotCalm
<1>10. CallCalm(x)'
  <2>1. pend[x] # NoKey => pend[x] \in Keys
    BY <1>1 DEF ReplayInv, TypeInv, HandshakeTypeOK
  <2>2. CallCalm(x)
    BY <1>1 DEF CalmInv
  <2>3. pend[x] # NoKey => minted'[pend[x]] = x
    BY <1>5, <2>1, <2>2 DEF CallCalm
  <2>4. net \subseteq net' /\ made' = made
    BY <1>4
  <2> HIDE DEF x
  <2> QED BY <1>5, <2>2, <2>3, <2>4 DEF CallCalm, First, Reply
<1>11. SlotCalm(x)'
  <2>1. SlotCalm(x)
    BY <1>1 DEF CalmInv
  <2>2. First(pend[x]) \in net' /\ pend[x] # NoKey => First(pend[x]) \in net
    <3>1. pend[x] # NoKey => pend[x] \in Keys
      BY <1>1 DEF ReplayInv, TypeInv, HandshakeTypeOK
    <3> QED BY <1>3, <1>4, <3>1, FrameFacts
  <2>3. \A s : Reply(s) \in net => Reply(s) \in net'
    BY <1>4
  <2> QED BY <1>1, <1>5, <1>7, <1>8, <2>1, <2>2, <2>3, FrameFacts DEF SlotCalm, First, Reply, Other
<1>12. \A f \in net' : FrameCalm(f)'
  <2> TAKE f \in net'
  <2>1. CASE f = First(k)
    <3>1. k \notin seen[x]
      BY <1>1, <1>3 DEF ReplayInv, TypeInv, HandshakeTypeOK
    <3> QED BY <1>5, <2>1, <3>1, FrameFacts DEF FrameCalm, First, Other
  <2>2. CASE f \in net
    <3>1. f.kind # "reply" /\ f.key \in Keys /\ FrameCalm(f)
      BY <1>6, <1>7, <2>2 DEF CalmInv
    <3>2. minted'[f.key] = minted[f.key] /\ minted[f.key] \in Nodes
      BY <1>2, <1>5, <3>1 DEF Keys
    <3>3. f.kind = "first" => minted[f.key] # n
      BY <1>2, <3>1 DEF FrameCalm, Keys, NoKey
    <3> QED BY <1>1, <1>5, <3>1, <3>2, <3>3 DEF FrameCalm, First, Other
  <2> QED BY <1>4, <2>1, <2>2
<1> QED BY <1>1, <1>9, <1>10, <1>11, <1>12 DEF CalmInv

\* A first step taken up: its reply is on its way, and the caller sends, if on
\* anything, on what the replier sends on, which the new session does not push out.
LEMMA AcceptCalm ==
    ASSUME ReplayInv, CalmInv, NEW m \in Nodes, NEW k \in Keys, Accept(m, k),
           meddled = 0, meddled' = 0
    PROVE  CalmInv'
<1> DEFINE n == Other(m)
<1>s. PICK s : s = NextSession(k)
  OBVIOUS
<1>1. /\ n \in Nodes /\ n # m /\ Other(n) = m /\ \A i \in Nodes : i = m \/ i = n
  BY Sides
<1>2. /\ s \in SessionsOfKeys /\ s.key = k /\ First(k) \in net /\ k \notin seen[m]
      /\ minted[k] = n /\ pend[n] = k /\ k # NoKey
  <2>1. s \in SessionsOfKeys /\ s.key = k
    BY <1>s, NextSessionType DEF NextSession, ReplayInv
  <2>2. First(k) \in net /\ m = Other(minted[k]) /\ k \notin seen[m]
    BY DEF Accept
  <2>3. minted[k] \in Nodes /\ k # NoKey
    BY DEF ReplayInv, TypeInv, HandshakeTypeOK, Keys, NoKey
  <2>4. FrameCalm(First(k))
    BY <2>2 DEF CalmInv
  <2> QED BY <1>1, <2>1, <2>2, <2>3, <2>4, FrameFacts, Sides DEF FrameCalm
<1>3. net' = (net \ {First(k)}) \cup {Reply(s)}
  BY <1>s DEF Accept, Takes, OpensOnce, Meddles
<1>4. /\ made' = made \cup {s} /\ UNCHANGED <<minted, pend, ring, cut>>
      /\ seen'[m] = seen[m] \cup {k} /\ seen'[n] = seen[n]
      /\ Establishes(m, s)
  BY <1>1, <1>s DEF Accept, ReplayInv, TypeInv, HandshakeTypeOK
<1>5. \A t \in made : t.key # k
  BY <1>1, <1>2, MadeSeen
<1>6. /\ Sends(m)' /\ Sender(m)' = s /\ s \in Holds(m)'
      /\ \A t \in Holds(m)' : t = s \/ (Sends(m) /\ t = Sender(m))
      /\ Sends(m) => Sender(m) \in Holds(m)'
      /\ Sends(n)' = Sends(n) /\ Sender(n)' = Sender(n) /\ Holds(n)' = Holds(n)
  BY <1>1, <1>2, <1>4, Established DEF ReplayInv
<1>7. /\ \A j : j # k => (First(j) \in net' <=> First(j) \in net)
      /\ First(k) \notin net'
      /\ \A t : Reply(t) \in net => Reply(t) \in net'
      /\ Reply(s) \in net'
  BY <1>3, FrameFacts
<1>8. CallCalm(n)' /\ CallCalm(m)'
  BY <1>1, <1>2, <1>4, <1>7 DEF CalmInv, CallCalm, First, Reply
<1>9. SlotCalm(m)'
  <2>1. Holds(m)' \subseteq made'
    BY <1>4, <1>6, SenderHeld DEF CalmInv, SlotCalm, ReplayInv
  <2> QED BY <1>6, <1>7, <2>1 DEF SlotCalm, First, Reply
<1>10. SlotCalm(n)'
  <2>1. SlotCalm(n)
    BY <1>1 DEF CalmInv
  <2>2. Sends(n)' => Sender(n)' \in Holds(m)' \/ Reply(Sender(n)') \in net'
    BY <1>1, <1>2, <1>6, <1>7, <2>1 DEF SlotCalm
  <2>3. First(pend'[n]) \notin net'
    BY <1>2, <1>4, <1>7
  <2> QED BY <1>1, <1>4, <1>6, <2>1, <2>2, <2>3 DEF SlotCalm, First, Reply, Other
<1>11. \A f \in net' : FrameCalm(f)'
  <2> TAKE f \in net'
  <2>1. CASE f = Reply(s)
    <3>1. SessionOf(f) = s /\ s \in made' /\ f.kind = "reply"
      BY <1>2, <1>4, <2>1, FrameFacts
    <3>2. s \notin Holds(n)'
      BY <1>1, <1>2, <1>5, <1>6 DEF CalmInv, SlotCalm
    <3>3. Awaited(s)'
      BY <1>1, <1>2, <1>4, <1>6, <3>2 DEF Awaited, Other
    <3> QED BY <2>1, <3>1, <3>3 DEF FrameCalm, Reply, SessionOf
  <2>2. CASE f \in net /\ f.kind = "first"
    <3>1. FrameCalm(f) /\ f = First(f.key) /\ f.key # k /\ f.key \in Keys
      BY <1>3, <2>2, FrameFacts DEF CalmInv, FrameCalm, ReplayInv, TypeInv, HandshakeTypeOK
    <3>2. minted[f.key] \in Nodes
      BY <3>1 DEF ReplayInv, TypeInv, HandshakeTypeOK, Keys
    <3>3. f.key \notin seen'[Other(minted[f.key])]
      BY <1>1, <1>4, <2>2, <3>1, <3>2, Sides DEF FrameCalm
    <3> QED BY <1>4, <2>2, <3>1, <3>3 DEF FrameCalm, First, Other
  <2>3. CASE f \in net /\ f.kind = "reply"
    <3>1. PICK t \in made : t = SessionOf(f) /\ f = Reply(t) /\ Awaited(t)
      BY <2>3 DEF CalmInv, FrameCalm
    \* the caller's key has no reply yet, so this one answers a call of m
    <3>2. minted[t.key] = m
      BY <1>1, <1>2, <1>5, <3>1, MadeSeen DEF Awaited
    <3>3. Sends(n) /\ Sender(n) = t /\ t \in Holds(n) /\ t \notin Holds(m) /\ pend[m] = t.key
      BY <1>1, <1>2, <3>1, <3>2 DEF Awaited
    <3>4. t # s /\ t \notin Holds(m)'
      <4>1. t # s
        BY <1>2, <1>5, <3>1
      <4> QED BY <1>6, <3>3, <4>1, SenderHeld DEF ReplayInv
    <3>5. Awaited(t)'
      BY <1>1, <1>4, <1>6, <3>2, <3>3, <3>4 DEF Awaited, Other
    <3> QED BY <1>4, <2>3, <3>1, <3>5 DEF FrameCalm, Reply, SessionOf
  <2>4. CASE f.kind \notin {"first", "reply"}
    BY <2>4 DEF FrameCalm
  <2> QED BY <1>3, <2>1, <2>2, <2>3, <2>4
<1> QED BY <1>1, <1>4, <1>8, <1>9, <1>10, <1>11 DEF CalmInv

\* A reply that comes is always for the key under way; the session it makes is
\* the one the replier sends on, or comes with one on which both send.
LEMMA FinishCalm ==
    ASSUME ReplayInv, CalmInv, NEW n \in Nodes, NEW f \in net, Finish(n, f),
           meddled = 0, meddled' = 0
    PROVE  CalmInv'
<1> DEFINE m == Other(n)
<1>s. PICK s \in made : s = SessionOf(f) /\ f = Reply(s) /\ Awaited(s)
  BY DEF CalmInv, FrameCalm, Finish
<1>1. /\ m \in Nodes /\ n # m /\ Other(m) = n /\ \A i \in Nodes : i = n \/ i = m
  BY Sides
<1>2. /\ s \in SessionsOfKeys /\ s.key # NoKey /\ minted[s.key] = n /\ f.key = s.key
  BY <1>s, MadeSeen, FrameFacts DEF Finish
<1>3. /\ pend[n] = s.key /\ s \in Holds(m) /\ s \notin Holds(n) /\ Sends(m)
      /\ \/ Sender(m) = s
         \/ pend[m] = NoKey /\ Sends(n) /\ Sender(m) = Sender(n)
  BY <1>s, <1>2 DEF Awaited
<1>4. net' = net \ {Reply(s)}
  BY <1>s DEF Finish, Takes, OpensOnce, Meddles
<1>5. /\ UNCHANGED <<minted, made, cut, seen>> /\ Establishes(n, s)
      /\ pend'[n] = NoKey /\ ring'[n] = FALSE /\ pend'[m] = pend[m] /\ ring'[m] = ring[m]
  BY <1>s, <1>1, <1>2, <1>3 DEF Finish, ReplayInv, TypeInv, HandshakeTypeOK
<1>6. /\ Sends(n)' /\ Sender(n)' = s /\ s \in Holds(n)'
      /\ \A t \in Holds(n)' : t = s \/ (Sends(n) /\ t = Sender(n))
      /\ Sends(n) => Sender(n) \in Holds(n)'
      /\ Sends(m)' = Sends(m) /\ Sender(m)' = Sender(m) /\ Holds(m)' = Holds(m)
  BY <1>1, <1>2, <1>5, Established DEF ReplayInv
\* any other reply answers a call of m
<1>7. \A t \in made : Reply(t) \in net /\ t # s => minted[t.key] = m
  <2> SUFFICES ASSUME NEW t \in made, Reply(t) \in net, t # s, minted[t.key] = n PROVE FALSE
    BY <1>1, MadeSeen
  <2>1. Awaited(t)
    BY FrameFacts, MadeSeen DEF CalmInv, FrameCalm
  <2> QED BY <1>3, <2>1, OneReply DEF Awaited
<1>8. /\ \A k : First(k) \in net' <=> First(k) \in net
      /\ \A t \in SessionsOfKeys : t # s => (Reply(t) \in net' <=> Reply(t) \in net)
  <2>1. \A t \in SessionsOfKeys : t # s => Reply(t) # Reply(s)
    BY <1>2, FrameFacts
  <2> QED BY <1>4, <2>1, FrameFacts
<1>9. Sender(m) \in Holds(m) /\ Holds(m) \subseteq made /\ Holds(n) \subseteq made
      /\ made \subseteq SessionsOfKeys
  BY <1>1, <1>3, SenderHeld DEF CalmInv, SlotCalm, ReplayInv, TypeInv, HandshakeTypeOK
<1>10. CallCalm(n)' /\ CallCalm(m)'
  <2>1. CallCalm(n)'
    BY <1>5 DEF CallCalm
  <2>2. CallCalm(m)
    BY <1>1 DEF CalmInv
  <2>3. ASSUME NEW t \in made, t.key = pend[m], Reply(t) \in net, pend[m] # NoKey
        PROVE  Reply(t) \in net'
    <3>1. t # s
      BY <1>1, <1>2, <2>2, <2>3 DEF CallCalm
    <3> QED BY <1>8, <1>9, <2>3, <3>1
  <2>4. CallCalm(m)'
    BY <1>5, <1>8, <2>2, <2>3 DEF CallCalm, First, Reply
  <2> QED BY <2>1, <2>4
<1>11. SlotCalm(n)'
  <2>1. Holds(n)' \subseteq made'
    BY <1>5, <1>6, <1>9, SenderHeld DEF ReplayInv
  <2> QED BY <1>3, <1>5, <1>6, <2>1 DEF SlotCalm, Other
<1>12. SlotCalm(m)'
  <2>1. Sender(m) \in Holds(n)'
    BY <1>3, <1>6
  \* with a call of its own still open, the replier has put nothing after s
  <2>2. pend[m] # NoKey => Sender(m) = Sender(n)'
    BY <1>3, <1>6
  <2> QED BY <1>1, <1>5, <1>6, <1>9, <2>1, <2>2 DEF SlotCalm, Other
<1>13. \A g \in net' : FrameCalm(g)'
  <2> TAKE g \in net'
  <2>0. g \in net /\ g # Reply(s) /\ FrameCalm(g)
    BY <1>4 DEF CalmInv
  <2>1. CASE g.kind = "first"
    <3>1. minted[g.key] \in Nodes /\ g.key \in Keys /\ g.key # NoKey
      BY <2>0 DEF ReplayInv, TypeInv, HandshakeTypeOK, Keys, NoKey
    <3>2. minted[g.key] # n
      <4>1. minted[g.key] = n => g.key = s.key
        BY <1>3, <2>0, <2>1 DEF FrameCalm
      <4>2. s.key \in seen[m]
        BY <1>2, MadeSeen
      <4> QED BY <2>0, <2>1, <4>1, <4>2 DEF FrameCalm
    <3> QED BY <1>1, <1>5, <2>0, <2>1, <3>1, <3>2 DEF FrameCalm, First, Other
  <2>2. CASE g.kind = "reply"
    <3>1. PICK t \in made : t = SessionOf(g) /\ g = Reply(t) /\ Awaited(t)
      BY <2>0, <2>2 DEF FrameCalm
    <3>2. t # s /\ minted[t.key] = m
      BY <1>7, <2>0, <3>1
    <3>3. /\ pend[m] = t.key /\ t \in Holds(n) /\ t \notin Holds(m) /\ Sends(n)
          /\ Sender(n) = t
      BY <1>1, <1>2, <1>3, <3>1, <3>2 DEF Awaited
    <3>4. Sender(m) = s /\ pend[m] # NoKey
      BY <1>3, <1>9, <3>2, <3>3, MadeSeen
    <3>5. Awaited(t)'
      BY <1>1, <1>3, <1>5, <1>6, <3>2, <3>3, <3>4 DEF Awaited, Other
    <3> QED BY <1>5, <2>2, <3>1, <3>5 DEF FrameCalm, Reply, SessionOf
  <2>3. CASE g.kind \notin {"first", "reply"}
    BY <2>3 DEF FrameCalm
  <2> QED BY <2>1, <2>2, <2>3
<1> QED BY <1>1, <1>5, <1>10, <1>11, <1>12, <1>13 DEF CalmInv

\* A silence with nothing on its way: no call is under way either.
LEMMA SilenceCalm ==
    ASSUME ReplayInv, CalmInv, NEW n \in Nodes, NEW ringing \in BOOLEAN,
           Unanswered(n, ringing), net = {}, ringing = ring[n]
    PROVE  CalmInv'
<1>1. \A m \in Nodes : pend[m] = NoKey /\ ~ring[m]
  BY DEF CalmInv, CallCalm
<1>2. /\ mute'[n] = (held[n] # <<>>) /\ \A m \in Nodes : m # n => mute'[m] = mute[m]
      /\ UNCHANGED <<held, seen, made, cut>>
  BY DEF Unanswered, ReplayInv, TypeInv, HandshakeTypeOK
<1>3. ~Sends(n)'
  BY <1>2 DEF Sends
<1>4. CASE wait[n] /\ Sends(n)
  <2>1. Calls(n)
    BY <1>4 DEF Unanswered
  <2> QED BY <1>1, <1>2, <1>3, <2>1, CallsCalm
<1>5. CASE ~(wait[n] /\ Sends(n))
  <2>1. UNCHANGED <<minted, pend, net>> /\ ring' = ring
    BY <1>5 DEF Unanswered, ReplayInv, TypeInv, HandshakeTypeOK
  <2>2. \A m \in Nodes : /\ Holds(m)' = Holds(m) /\ Sender(m)' = Sender(m)
                         /\ Sends(m)' => Sends(m)
    BY <1>2, <1>3 DEF Holds, Sender, Sends
  <2>3. ASSUME NEW m \in Nodes PROVE CallCalm(m)'
    BY <1>1, <2>1 DEF CallCalm
  <2>4. ASSUME NEW m \in Nodes PROVE SlotCalm(m)'
    <3>1. Other(m) \in Nodes /\ Other(m)' = Other(m) /\ SlotCalm(m)
      BY Sides DEF CalmInv, Other
    <3>2. Holds(Other(m))' = Holds(Other(m))
      BY <2>2, <3>1
    <3>3. pend'[m] = NoKey /\ net' = {} /\ made' = made
      BY <1>1, <1>2, <2>1
    <3>4. Holds(m)' \subseteq made'
      BY <2>2, <3>1, <3>3 DEF SlotCalm
    <3>5. Sends(m)' => Sender(m)' \in Holds(Other(m))'
      BY <2>2, <3>1, <3>2 DEF SlotCalm
    <3> QED BY <3>1, <3>3, <3>4, <3>5 DEF SlotCalm
  <2>5. \A m \in Nodes : CallCalm(m)' /\ SlotCalm(m)'
    BY <2>3, <2>4
  <2>6. \A f \in net' : FrameCalm(f)'
    BY <2>1
  <2> QED BY <1>2, <2>5, <2>6 DEF CalmInv
<1> QED BY <1>4, <1>5

LEMMA HearStep == ReplayInv /\ HearInv /\ [HandshakeNext]_handshakeVars => HearInv'
<1> SUFFICES ASSUME ReplayInv, HearInv, [HandshakeNext]_handshakeVars, meddled' = 0 PROVE CalmInv'
  BY DEF HearInv
<1>1. meddled \in Nat
  BY DEF ReplayInv, TypeInv, HandshakeTypeOK
<1>2. ~Meddles
  BY <1>1 DEF Meddles
<1>3. UNCHANGED meddled
  BY <1>2 DEF HandshakeNext, handshakeVars, Call, CallSilence, Silence, TimeIsUp, Accept, Repeat, DieAccepting,
              Finish, Hear, Confirmed, SendData, Restart, Lose, Takes, OpensOnce
<1>4. CalmInv /\ meddled = 0
  BY <1>3 DEF HearInv
<1>5. CASE UNCHANGED handshakeVars
  BY <1>4, <1>5, QuietCalm DEF handshakeVars
<1>6. ASSUME NEW n \in Nodes, Call(n) PROVE CalmInv'
  <2>1. /\ Calls(n) /\ ~ring[n] /\ ~Sends(n) /\ UNCHANGED <<held, mute, seen, made, cut>>
    BY <1>6 DEF Call
  <2>2. ~Sends(n)'
    BY <2>1 DEF Sends
  <2> QED BY <1>4, <2>1, <2>2, CallsCalm
<1>7. ASSUME NEW n \in Nodes, CallSilence(n) \/ Silence(n) PROVE CalmInv'
  <2>1. net = {}
    BY <1>2, <1>7 DEF CallSilence, Silence, TimeIsUp
  <2>2. ~ring[n] /\ ring[n] \in BOOLEAN
    BY <1>4, <2>1 DEF CalmInv, CallCalm, ReplayInv, TypeInv, HandshakeTypeOK
  <2>3. Unanswered(n, ring[n])
    BY <1>7, <2>2 DEF CallSilence, Silence
  <2> QED BY <1>4, <2>1, <2>2, <2>3, SilenceCalm
<1>8. ASSUME NEW n \in Nodes, NEW k \in Keys, Accept(n, k) PROVE CalmInv'
  BY <1>3, <1>4, <1>8, AcceptCalm
<1>9. ASSUME NEW n \in Nodes, NEW k \in Keys, Repeat(n, k) PROVE FALSE
  <2>1. First(k) \in net /\ n = Other(minted[k]) /\ k \in seen[n]
    BY <1>9 DEF Repeat
  <2> QED BY <1>4, <2>1, FrameFacts DEF CalmInv, FrameCalm
<1>10. ASSUME NEW n \in Nodes, NEW f \in net, Finish(n, f) PROVE CalmInv'
  BY <1>3, <1>4, <1>10, FinishCalm
<1>11. ASSUME NEW n \in Nodes, NEW f \in net, Hear(n, f) \/ Confirmed(n, f) PROVE CalmInv'
  <2>1. /\ f.kind \in {"data", "ack"}
        /\ \A g \in net : g \in net' \/ g = f
        /\ \A g \in net' : g \in net \/ g.kind \in {"data", "ack"}
        /\ UNCHANGED <<minted, pend, ring, held, mute, seen, made, cut>>
    BY <1>11, FrameFacts DEF Hear, Confirmed, OpensOnce
  <2> QED BY <1>4, <2>1, QuietCalm
<1>12. ASSUME NEW n \in Nodes, SendData(n) PROVE CalmInv'
  <2>1. /\ net \subseteq net' /\ \A g \in net' : g \in net \/ g.kind \in {"data", "ack"}
        /\ UNCHANGED <<minted, pend, ring, held, mute, seen, made, cut>>
    BY <1>12, FrameFacts DEF SendData
  <2> QED BY <1>4, <2>1, QuietCalm
<1>13. \A n \in Nodes : ~Restart(n) /\ \A k \in Keys : ~DieAccepting(n, k)
  BY <1>2 DEF Restart, DieAccepting
<1>14. ~Lose
  BY <1>2 DEF Lose
<1> QED BY <1>5, <1>6, <1>7, <1>8, <1>9, <1>10, <1>11, <1>12, <1>13, <1>14 DEF HandshakeNext

\* While no frame is lost, repeated or late and nobody dies, what one side
\* sends on the other holds, unless the reply that tells it is still on its way:
\* SessionRegistry::insert keeps the session before, and two calls that cross
\* need no more, in whatever order their four frames come.
THEOREM CrossingCallsMeet == HandshakeSpec => []EachHearsTheOther
<1>1. HandshakeInit => ReplayInv
  BY InitType DEF HandshakeInit, ReplayInv, Remembered, OneSessionPerKey
<1>2. HandshakeInit => HearInv
  <2> SUFFICES ASSUME HandshakeInit PROVE CalmInv
    BY DEF HearInv
  <2>1. \A n \in Nodes : held[n] = <<>> /\ pend[n] = NoKey /\ ring[n] = FALSE
    BY DEF HandshakeInit
  <2>2. \A n \in Nodes : ~Sends(n) /\ Holds(n) = {}
    BY <2>1 DEF Sends, Holds, ToSet
  <2> QED BY <2>1, <2>2 DEF HandshakeInit, CalmInv, CallCalm, SlotCalm
<1>3. HearInv => EachHearsTheOther
  BY DEF HearInv, CalmInv, SlotCalm, EachHearsTheOther, Usable
<1> QED BY <1>1, <1>2, <1>3, ReplayStep, HearStep, PTL DEF HandshakeSpec
=============================================================================
