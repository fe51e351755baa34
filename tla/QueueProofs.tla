----------------------------- MODULE QueueProofs -----------------------------
(***************************************************************************)
(* Induction over the positions of a queue, and what the operators of      *)
(* Queues do.  No induction theorem with an operator for a parameter is    *)
(* used: what is proved by Induct is that a *set* of numbers has all the   *)
(* positions.                                                              *)
(***************************************************************************)
EXTENDS Queues, SequencesExt, WellFoundedInduction, TLAPS

LEMMA Least ==
    ASSUME NEW S \in SUBSET Nat, NEW k \in S
    PROVE  \E j \in S : \A i \in S : j <= i
<1> DEFINE R == OpToRel(<, Nat)
<1>1. IsWellFoundedOn(R, Nat)
  BY NatLessThanWellFounded
<1>2. \A i, j \in Nat : i < j => <<i, j>> \in R
  BY DEF OpToRel
<1> HIDE DEF R
<1>3. PICK j \in S : \A i \in S : ~ (<<i, j>> \in R)
  BY <1>1, WFMin
<1>4. \A i \in S : i \in Nat /\ j \in Nat /\ ~(i < j)
  BY <1>2, <1>3
<1> QED
  BY <1>4

\* Induction up to n, over the set of the numbers that are good.
LEMMA Induct ==
    ASSUME NEW n \in Nat, NEW S \in SUBSET Nat, 0 \in S,
           \A k \in 1..n : k - 1 \in S => k \in S
    PROVE  \A k \in 0..n : k \in S
<1> SUFFICES ASSUME NEW k \in 0..n, k \notin S
             PROVE  FALSE
  OBVIOUS
<1> DEFINE bad == {j \in Nat : j <= n /\ j \notin S}
<1>1. k \in bad /\ bad \in SUBSET Nat
  OBVIOUS
<1> HIDE DEF bad
<1>2. PICK j \in bad : \A i \in bad : j <= i
  BY <1>1, Least
<1> QED
  BY <1>2 DEF bad

LEMMA ThoseSteps ==
    ASSUME NEW X, NEW s \in Seq(X), NEW S
    PROVE  \E f : /\ f[0] = <<>> /\ f[Len(s)] = Those(s, S)
                  /\ \A i \in 1..Len(s) : f[i] = Joined(f[i - 1], s[i], S)
<1> DEFINE Is(h, k) ==
               h = [i \in 0..k |-> IF i = 0 THEN <<>> ELSE Joined(h[i - 1], s[i], S)]
           done == {k \in Nat : \E h : Is(h, k)}
<1>1. 0 \in done
  <2>1. Is([i \in 0..0 |-> <<>>], 0)
    OBVIOUS
  <2> QED
    BY <2>1
<1>2. ASSUME NEW k \in 1..Len(s), k - 1 \in done
      PROVE  k \in done
  <2>1. PICK h : Is(h, k - 1)
    BY <1>2
  <2>2. PICK g : g = [i \in 0..k |-> IF i = k THEN Joined(h[k - 1], s[k], S) ELSE h[i]]
    OBVIOUS
  <2>3. \A i \in 0..(k - 1) : h[i] = IF i = 0 THEN <<>> ELSE Joined(h[i - 1], s[i], S)
    BY <2>1
  <2> HIDE DEF Is
  <2>4. \A i \in 0..k : g[i] = IF i = k THEN Joined(h[k - 1], s[k], S) ELSE h[i]
    BY <2>2
  <2>5. k \in Nat /\ k > 0
    OBVIOUS
  <2>6. \A i \in 0..(k - 1) : i \in 0..k /\ i # k
    BY <2>5
  <2>7. g[k] = Joined(g[k - 1], s[k], S) /\ \A i \in 0..(k - 1) : g[i] = h[i]
    BY <2>4, <2>5, <2>6
  <2>8. \A i \in 0..k : g[i] = IF i = 0 THEN <<>> ELSE Joined(g[i - 1], s[i], S)
    BY <2>3, <2>7
  <2>9. Is(g, k)
    BY <2>2, <2>8 DEF Is
  <2> QED
    BY <2>9
<1> HIDE DEF done
<1>3. Len(s) \in Nat /\ done \in SUBSET Nat
  BY DEF done
<1>4. \A k \in 0..Len(s) : k \in done
  BY <1>1, <1>2, <1>3, Induct
<1>5. \E h : Is(h, Len(s))
  BY <1>3, <1>4 DEF done
<1> DEFINE f == CHOOSE h : Is(h, Len(s))
<1>6. Is(f, Len(s))
  BY <1>5
<1>7. f[Len(s)] = Those(s, S)
  BY DEF Those
<1> HIDE DEF f
<1> QED
  BY <1>3, <1>6, <1>7

\* t is what is left of the first k entries of s.
Keeping(s, k, t, S) ==
    /\ \A j \in 1..k : s[j] \in S => \E i \in 1..Len(t) : t[i] = s[j]
    /\ \A i \in 1..Len(t) : t[i] \in S /\ \E a \in 1..k : t[i] = s[a]
    /\ \A i, j \in 1..Len(t) : i < j =>
           \E a, b \in 1..k : a < b /\ t[i] = s[a] /\ t[j] = s[b]

LEMMA ThoseLeft ==
    ASSUME NEW X, NEW s \in Seq(X), NEW S
    PROVE  Those(s, S) \in Seq(X) /\ Keeping(s, Len(s), Those(s, S), S)
<1>1. PICK f : /\ f[0] = <<>> /\ f[Len(s)] = Those(s, S)
               /\ \A i \in 1..Len(s) : f[i] = Joined(f[i - 1], s[i], S)
  BY ThoseSteps
<1> DEFINE done == {k \in Nat : f[k] \in Seq(X) /\ Keeping(s, k, f[k], S)}
<1>2. 0 \in done
  <2>1. PICK t : t = f[0]
    OBVIOUS
  <2>2. t = <<>> /\ t \in Seq(X) /\ Len(t) = 0
    BY <1>1, <2>1
  <2>3. Keeping(s, 0, t, S)
    BY <2>2 DEF Keeping
  <2> QED
    BY <2>1, <2>2, <2>3
<1>3. ASSUME NEW k \in 1..Len(s), k - 1 \in done
      PROVE  k \in done
  <2>1. PICK t : t = f[k - 1]
    OBVIOUS
  <2>2. PICK u : u = f[k]
    OBVIOUS
  <2>3. t \in Seq(X) /\ Keeping(s, k - 1, t, S)
    BY <1>3, <2>1
  <2>4. u = IF s[k] \in S THEN Append(t, s[k]) ELSE t
    BY <1>1, <2>1, <2>2 DEF Joined
  <2>5. CASE s[k] \notin S
    <3>1. u = t
      BY <2>4, <2>5
    <3>2. Keeping(s, k, u, S)
      BY <2>3, <2>5, <3>1 DEF Keeping
    <3>3. k \in Nat /\ f[k] \in Seq(X) /\ Keeping(s, k, f[k], S)
      BY <2>2, <2>3, <3>1, <3>2
    <3> QED
      BY <3>3
  <2>6. CASE s[k] \in S
    <3>1. s[k] \in X /\ t \in Seq(X) /\ Len(t) \in Nat
      BY <2>3
    <3>2. /\ u \in Seq(X) /\ Len(u) = Len(t) + 1 /\ u[Len(u)] = s[k]
          /\ \A i \in 1..Len(t) : u[i] = t[i]
      BY <2>4, <2>6, <3>1
    <3>3. \A i \in 1..Len(u) : i = Len(u) \/ i \in 1..Len(t)
      BY <3>1, <3>2
    <3>4. \A j \in 1..k : s[j] \in S => \E i \in 1..Len(u) : u[i] = s[j]
      <4> SUFFICES ASSUME NEW j \in 1..k, s[j] \in S
                   PROVE  \E i \in 1..Len(u) : u[i] = s[j]
        OBVIOUS
      <4>1. CASE j = k
        BY <3>1, <3>2, <4>1
      <4>2. CASE j # k
        <5>1. PICK i \in 1..Len(t) : t[i] = s[j]
          BY <2>3, <4>2 DEF Keeping
        <5> QED
          BY <3>1, <3>2, <5>1
      <4> QED
        BY <4>1, <4>2
    <3>5. \A i \in 1..Len(t) : u[i] \in S /\ \E a \in 1..(k - 1) : u[i] = s[a]
      BY <2>3, <3>2 DEF Keeping
    <3>6. \A i \in 1..Len(u) : u[i] \in S /\ \E a \in 1..k : u[i] = s[a]
      BY <2>6, <3>2, <3>3, <3>5
    <3>7. ASSUME NEW i \in 1..Len(u), NEW j \in 1..Len(u), i < j
          PROVE  \E a, b \in 1..k : a < b /\ u[i] = s[a] /\ u[j] = s[b]
      <4>1. i \in 1..Len(t)
        BY <3>1, <3>2, <3>7
      <4>2. CASE j = Len(u)
        <5>1. PICK a \in 1..(k - 1) : u[i] = s[a]
          BY <3>5, <4>1
        <5> QED
          BY <3>2, <4>2, <5>1
      <4>3. CASE j # Len(u)
        <5>1. j \in 1..Len(t)
          BY <3>3, <4>3
        <5>2. PICK a, b \in 1..(k - 1) : a < b /\ t[i] = s[a] /\ t[j] = s[b]
          BY <2>3, <3>7, <4>1, <5>1 DEF Keeping
        <5> QED
          BY <3>2, <4>1, <5>1, <5>2
      <4> QED
        BY <4>2, <4>3
    <3>8. Keeping(s, k, u, S)
      BY <3>4, <3>6, <3>7 DEF Keeping
    <3>9. k \in Nat /\ f[k] \in Seq(X) /\ Keeping(s, k, f[k], S)
      BY <2>2, <3>2, <3>8
    <3> QED
      BY <3>9
  <2> QED
    BY <2>5, <2>6
<1>4. Len(s) \in Nat /\ done \in SUBSET Nat
  OBVIOUS
<1> HIDE DEF done
<1>5. \A k \in 0..Len(s) : k \in done
  BY <1>2, <1>3, <1>4, Induct
<1> QED
  BY <1>1, <1>4, <1>5 DEF done

LEMMA ThoseFacts ==
    ASSUME NEW X, NEW s \in Seq(X), NEW S
    PROVE  Those(s, S) \in Seq(X) /\ ToSet(Those(s, S)) = ToSet(s) \cap S
<1>1. PICK t : t = Those(s, S)
  OBVIOUS
<1>2. t \in Seq(X) /\ Keeping(s, Len(s), t, S)
  BY <1>1, ThoseLeft
<1>3. DOMAIN t = 1..Len(t) /\ DOMAIN s = 1..Len(s)
  BY <1>2
<1>4. \A x \in ToSet(t) : x \in ToSet(s) /\ x \in S
  BY <1>2, <1>3 DEF Keeping, ToSet
<1>5. \A x \in ToSet(s) : x \in S => x \in ToSet(t)
  <2> SUFFICES ASSUME NEW x \in ToSet(s), x \in S
               PROVE  x \in ToSet(t)
    OBVIOUS
  <2>1. PICK j \in 1..Len(s) : s[j] = x
    BY <1>3 DEF ToSet
  <2>2. PICK i \in 1..Len(t) : t[i] = s[j]
    BY <1>2, <2>1 DEF Keeping
  <2> QED
    BY <1>3, <2>1, <2>2 DEF ToSet
<1> QED
  BY <1>1, <1>2, <1>4, <1>5

\* Entries apart in t come from entries apart in s.
FromApart(s, t) ==
    \A i, j \in DOMAIN t : i # j =>
        \E a, b \in DOMAIN s : a # b /\ t[i] = s[a] /\ t[j] = s[b]

LEMMA ThoseApart ==
    ASSUME NEW X, NEW s \in Seq(X), NEW S
    PROVE  FromApart(s, Those(s, S))
<1>1. PICK t : t = Those(s, S)
  OBVIOUS
<1>2. t \in Seq(X) /\ Keeping(s, Len(s), t, S)
  BY <1>1, ThoseLeft
<1>3. DOMAIN t = 1..Len(t) /\ DOMAIN s = 1..Len(s)
  BY <1>2
<1>4. ASSUME NEW i \in 1..Len(t), NEW j \in 1..Len(t), i < j
      PROVE  \E a, b \in 1..Len(s) : a # b /\ t[i] = s[a] /\ t[j] = s[b]
  <2>1. PICK a, b \in 1..Len(s) : a < b /\ t[i] = s[a] /\ t[j] = s[b]
    BY <1>2, <1>4 DEF Keeping
  <2>2. a # b
    BY <1>2, <2>1
  <2> QED
    BY <2>1, <2>2
<1>5. \A i, j \in 1..Len(t) : i # j => i < j \/ j < i
  OBVIOUS
<1>6. ASSUME NEW i \in 1..Len(t), NEW j \in 1..Len(t), i # j
      PROVE  \E a, b \in 1..Len(s) : a # b /\ t[i] = s[a] /\ t[j] = s[b]
  BY <1>4, <1>5, <1>6
<1>7. FromApart(s, t)
  <2> SUFFICES ASSUME NEW i \in DOMAIN t, NEW j \in DOMAIN t, i # j
               PROVE  \E a, b \in DOMAIN s : a # b /\ t[i] = s[a] /\ t[j] = s[b]
    BY DEF FromApart
  <2>1. i \in 1..Len(t) /\ j \in 1..Len(t)
    BY <1>3
  <2>2. PICK a, b \in 1..Len(s) : a # b /\ t[i] = s[a] /\ t[j] = s[b]
    BY <1>6, <2>1
  <2>3. a \in DOMAIN s /\ b \in DOMAIN s
    BY <1>3
  <2> QED
    BY <2>2, <2>3
<1> QED
  BY <1>1, <1>7

LEMMA OneMore ==
    ASSUME NEW X, NEW q \in Seq(X), NEW x \in X
    PROVE  /\ Append(q, x) \in Seq(X) /\ Len(q) \in Nat
           /\ DOMAIN q = 1..Len(q) /\ DOMAIN Append(q, x) = 1..(Len(q) + 1)
           /\ Append(q, x)[Len(q) + 1] = x
           /\ \A i \in 1..Len(q) : Append(q, x)[i] = q[i]
           /\ ToSet(Append(q, x)) = ToSet(q) \cup {x}
<1>1. /\ Append(q, x) \in Seq(X) /\ Len(q) \in Nat
      /\ DOMAIN q = 1..Len(q) /\ DOMAIN Append(q, x) = 1..(Len(q) + 1)
      /\ Append(q, x)[Len(q) + 1] = x
      /\ \A i \in 1..Len(q) : Append(q, x)[i] = q[i]
  OBVIOUS
<1>2. PICK t : t = Append(q, x)
  OBVIOUS
<1>3. 1..(Len(q) + 1) = 1..Len(q) \cup {Len(q) + 1}
  BY <1>1
<1>4. ToSet(t) = ToSet(q) \cup {x}
  BY <1>1, <1>2, <1>3 DEF ToSet
<1> QED
  BY <1>1, <1>2, <1>4

\* What is left is no longer than what there was.
LEMMA ThoseShorter ==
    ASSUME NEW X, NEW s \in Seq(X), NEW S
    PROVE  Those(s, S) \in Seq(X) /\ Len(Those(s, S)) <= Len(s)
<1>1. PICK f : /\ f[0] = <<>> /\ f[Len(s)] = Those(s, S)
               /\ \A i \in 1..Len(s) : f[i] = Joined(f[i - 1], s[i], S)
  BY ThoseSteps
<1> DEFINE done == {k \in Nat : f[k] \in Seq(X) /\ Len(f[k]) <= k}
<1>2. 0 \in done
  <2>1. PICK t : t = f[0]
    OBVIOUS
  <2>2. t \in Seq(X) /\ Len(t) = 0
    BY <1>1, <2>1
  <2> QED
    BY <2>1, <2>2
<1>3. ASSUME NEW k \in 1..Len(s), k - 1 \in done
      PROVE  k \in done
  <2>1. PICK t : t = f[k - 1]
    OBVIOUS
  <2>2. t \in Seq(X) /\ Len(t) <= k - 1 /\ s[k] \in X /\ k \in Nat
    BY <1>3, <2>1
  <2>3. f[k] = IF s[k] \in S THEN Append(t, s[k]) ELSE t
    BY <1>1, <2>1 DEF Joined
  <2>4. Append(t, s[k]) \in Seq(X) /\ Len(Append(t, s[k])) = Len(t) + 1 /\ Len(t) \in Nat
    BY <2>2
  <2>5. f[k] \in Seq(X) /\ Len(f[k]) <= k
    BY <2>2, <2>3, <2>4
  <2> QED
    BY <2>2, <2>5
<1>4. Len(s) \in Nat /\ done \in SUBSET Nat
  OBVIOUS
<1> HIDE DEF done
<1>5. \A k \in 0..Len(s) : k \in done
  BY <1>2, <1>3, <1>4, Induct
<1> QED
  BY <1>1, <1>4, <1>5 DEF done
=============================================================================
