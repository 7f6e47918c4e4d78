----------------------------- MODULE RecordsProofs -----------------------------
(***************************************************************************)
(* What the collector keeps and what is told of it: whatever an endpoint   *)
(* answers, the rows say what happened; the reference price follows the    *)
(* market; and the figures are those of the rows.                          *)
(***************************************************************************)
EXTENDS MCIngest, FiniteSetTheorems, SequenceTheorems, WellFoundedInduction, TLAPS

(* Counting up, and joining sequences. *)

\* What holds of 0, and of n + 1 when it holds of n, holds of every number.
LEMMA CountingUp ==
    ASSUME NEW S, 0 \in S, \A n \in Nat : n \in S => n + 1 \in S
    PROVE  Nat \subseteq S
<1> SUFFICES ASSUME NEW b \in Nat, b \notin S PROVE FALSE
  OBVIOUS
<1> DEFINE T == Nat \ S
           Below == OpToRel(<, Nat)
<1>1. IsWellFoundedOn(Below, Nat)
  BY NatLessThanWellFounded
<1>2. T \subseteq Nat /\ T # {}
  OBVIOUS
<1>3. PICK x \in T : \A y \in T : ~(<<y, x>> \in Below)
  <2> HIDE DEF T, Below
  <2> QED
    BY <1>1, <1>2, WFMin
<1>4. x \in Nat /\ x # 0 /\ x - 1 \in Nat
  OBVIOUS
<1>5. x - 1 \in S
  <2>1. <<x - 1, x>> \in Nat \X Nat /\ x - 1 < x
    BY <1>4
  <2>2. <<x - 1, x>> \in Below
    BY <2>1 DEF OpToRel
  <2> QED
    BY <1>3, <1>4, <2>2
<1>6. (x - 1) + 1 \in S
  BY <1>4, <1>5
<1> QED
  BY <1>4, <1>6

\* The same, up to a bound.
LEMMA CountingTo ==
    ASSUME NEW m \in Nat, NEW S, 0 \in S, \A n \in 0 .. m : n \in S /\ n < m => n + 1 \in S
    PROVE  0 .. m \subseteq S
<1> DEFINE T == {n \in Nat : n > m \/ n \in S}
<1>1. 0 \in T
  OBVIOUS
<1>2. ASSUME NEW n \in Nat, n \in T PROVE n + 1 \in T
  <2>1. CASE n >= m
    BY <2>1
  <2>2. CASE n < m
    BY <2>2, <1>2
  <2> QED
    BY <2>1, <2>2
<1>3. Nat \subseteq T
  <2> HIDE DEF T
  <2> QED
    BY <1>1, <1>2, CountingUp
<1> QED
  BY <1>3

\* The sequences of s joined up to each place (the function in FlattenSeq).
IsJoined(g, s, n) == g = [i \in 1 .. n |-> IF i = 1 THEN s[i] ELSE g[i - 1] \o s[i]]
Joined(s, n) == FlattenSeq([k \in 1 .. n |-> s[k]])

LEMMA JoinedExists ==
    ASSUME NEW s, NEW m \in Nat
    PROVE  \E g : IsJoined(g, s, m)
<1> DEFINE S == {n \in Nat : \E g : IsJoined(g, s, n)}
<1>1. 0 \in S
  <2>1. IsJoined([i \in 1 .. 0 |-> 0], s, 0)
    BY DEF IsJoined
  <2> QED
    BY <2>1
<1>2. ASSUME NEW n \in Nat, n \in S PROVE n + 1 \in S
  <2>1. PICK g : IsJoined(g, s, n)
    BY <1>2
  <2> DEFINE next == IF n = 0 THEN s[1] ELSE g[n] \o s[n + 1]
             h == [i \in 1 .. n + 1 |-> IF i = n + 1 THEN next ELSE g[i]]
  <2>2. ASSUME NEW i \in 1 .. n + 1 PROVE h[i] = IF i = 1 THEN s[i] ELSE h[i - 1] \o s[i]
    <3>1. CASE i = n + 1 /\ n = 0
      BY <3>1
    <3>2. CASE i = n + 1 /\ n # 0
      <4>1. i - 1 = n /\ n \in 1 .. n + 1 /\ n # n + 1 /\ i # 1
        BY <3>2
      <4>2. h[n] = g[n] /\ h[i] = g[n] \o s[n + 1]
        BY <3>2, <4>1
      <4> QED
        BY <3>2, <4>1, <4>2
    <3>3. CASE i # n + 1
      <4>1. i \in 1 .. n /\ h[i] = g[i] /\ (i # 1 => i - 1 \in 1 .. n /\ h[i - 1] = g[i - 1])
        BY <3>3
      <4> QED
        BY <2>1, <4>1 DEF IsJoined
    <3> QED
      BY <3>1, <3>2, <3>3
  <2>3. h = [i \in 1 .. n + 1 |-> IF i = 1 THEN s[i] ELSE h[i - 1] \o s[i]]
    <3>1. h = [i \in 1 .. n + 1 |-> h[i]]
      OBVIOUS
    <3> HIDE DEF h
    <3> QED
      BY <2>2, <3>1
  <2>4. IsJoined(h, s, n + 1)
    <3> HIDE DEF h
    <3> QED
      BY <2>3 DEF IsJoined
  <2> QED
    BY <2>4
<1> HIDE DEF S
<1>3. Nat \subseteq S
  BY <1>1, <1>2, CountingUp
<1> QED
  BY <1>3 DEF S

LEMMA JoinedUnique ==
    ASSUME NEW s, NEW t, NEW m \in Nat, NEW n \in Nat, NEW g, NEW h,
           IsJoined(g, s, m), IsJoined(h, t, n),
           m <= n, \A i \in 1 .. m : s[i] = t[i]
    PROVE  \A i \in 1 .. m : g[i] = h[i]
<1> DEFINE S == {i \in Nat : i \in 1 .. m => g[i] = h[i]}
<1>1. 0 \in S
  OBVIOUS
<1>2. ASSUME NEW i \in Nat, i \in S PROVE i + 1 \in S
  <2> SUFFICES ASSUME i + 1 \in 1 .. m PROVE g[i + 1] = h[i + 1]
    OBVIOUS
  <2>1. g[i + 1] = IF i + 1 = 1 THEN s[i + 1] ELSE g[(i + 1) - 1] \o s[i + 1]
    BY DEF IsJoined
  <2>2. h[i + 1] = IF i + 1 = 1 THEN t[i + 1] ELSE h[(i + 1) - 1] \o t[i + 1]
    <3>1. i + 1 \in 1 .. n
      OBVIOUS
    <3> QED
      BY <3>1 DEF IsJoined
  <2>3. (i + 1) - 1 = i /\ s[i + 1] = t[i + 1]
    OBVIOUS
  <2>4. CASE i = 0
    BY <2>1, <2>2, <2>3, <2>4
  <2>5. CASE i # 0
    BY <1>2, <2>1, <2>2, <2>3, <2>5
  <2> QED
    BY <2>4, <2>5
<1> HIDE DEF S
<1>3. Nat \subseteq S
  BY <1>1, <1>2, CountingUp
<1> QED
  BY <1>3 DEF S

LEMMA JoinedPrefix ==
    ASSUME NEW s, NEW m \in Nat, NEW n \in Nat, n <= m, NEW g, NEW h,
           IsJoined(g, s, m), IsJoined(h, [k \in 1 .. n |-> s[k]], n)
    PROVE  \A i \in 1 .. n : h[i] = g[i]
<1> DEFINE p == [k \in 1 .. n |-> s[k]]
<1>1. \A i \in 1 .. n : p[i] = s[i]
  OBVIOUS
<1> HIDE DEF p
<1>2. IsJoined(h, p, n)
  BY DEF p
<1> QED
  BY <1>1, <1>2, JoinedUnique

\* What FlattenSeq computes is the join of all.
LEMMA JoinedUnfolds ==
    ASSUME NEW s, NEW m \in Nat
    PROVE  /\ Joined(s, 0) = <<>>
           /\ \A n \in 1 .. m : Joined(s, n) = IF n = 1 THEN s[n] ELSE Joined(s, n - 1) \o s[n]
<1>1. PICK g : IsJoined(g, s, m)
  BY JoinedExists
<1>2. ASSUME NEW n \in 1 .. m PROVE Joined(s, n) = g[n]
  <2> DEFINE p == [k \in 1 .. n |-> s[k]]
             h == CHOOSE h : h = [i \in 1 .. n |-> IF i = 1 THEN p[i] ELSE h[i - 1] \o p[i]]
  <2>1. n \in Nat /\ n \in 1 .. n /\ n <= m /\ n # 0
    OBVIOUS
  <2>2. Joined(s, n) = h[n]
    <3>1. Len(p) = n
      BY <2>1
    <3> QED
      BY <2>1, <3>1 DEF Joined, FlattenSeq
  <2>3. \E f : IsJoined(f, p, n)
    <3> HIDE DEF p
    <3> QED
      BY <2>1, JoinedExists
  <2>4. IsJoined(h, p, n)
    BY <2>3 DEF IsJoined
  <2> HIDE DEF h
  <2>5. \A i \in 1 .. n : h[i] = g[i]
    BY <1>1, <2>1, <2>4, JoinedPrefix
  <2> QED
    BY <2>1, <2>2, <2>5
<1>3. Joined(s, 0) = <<>>
  <2> DEFINE p == [k \in 1 .. 0 |-> s[k]]
  <2>1. p = <<>> /\ Len(p) = 0
    OBVIOUS
  <2> QED
    BY <2>1 DEF Joined, FlattenSeq
<1>4. ASSUME NEW n \in 1 .. m
      PROVE  Joined(s, n) = IF n = 1 THEN s[n] ELSE Joined(s, n - 1) \o s[n]
  <2>1. g[n] = IF n = 1 THEN s[n] ELSE g[n - 1] \o s[n]
    BY <1>1 DEF IsJoined
  <2>2. n # 1 => n - 1 \in 1 .. m
    OBVIOUS
  <2> QED
    BY <1>2, <2>1, <2>2
<1> QED
  BY <1>3, <1>4

\* Joining one sequence more.
LEMMA JoinedStep ==
    ASSUME NEW T, NEW s \in Seq(Seq(T))
    PROVE  /\ Joined(s, 0) = <<>>
           /\ \A n \in 1 .. Len(s) : Joined(s, n) = Joined(s, n - 1) \o s[n]
           /\ \A n \in 0 .. Len(s) : Joined(s, n) \in Seq(T)
           /\ FlattenSeq(s) = Joined(s, Len(s))
<1>1. Len(s) \in Nat /\ \A k \in 1 .. Len(s) : s[k] \in Seq(T)
  OBVIOUS
<1>2. /\ Joined(s, 0) = <<>>
      /\ \A n \in 1 .. Len(s) : Joined(s, n) = IF n = 1 THEN s[n] ELSE Joined(s, n - 1) \o s[n]
  BY <1>1, JoinedUnfolds
<1>3. ASSUME NEW n \in 1 .. Len(s), Joined(s, n - 1) \in Seq(T)
      PROVE  Joined(s, n) = Joined(s, n - 1) \o s[n] /\ Joined(s, n) \in Seq(T)
  <2>1. s[n] \in Seq(T)
    BY <1>1
  <2>2. CASE n = 1
    <3>1. Joined(s, n - 1) = <<>> /\ Joined(s, n) = s[n]
      <4>1. n - 1 = 0
        BY <2>2
      <4> QED
        BY <1>2, <2>2, <4>1
    <3>2. <<>> \o s[n] = s[n]
      BY <2>1
    <3> QED
      BY <2>1, <3>1, <3>2
  <2>3. CASE n # 1
    <3>1. Joined(s, n) = Joined(s, n - 1) \o s[n]
      BY <1>2, <2>3
    <3> QED
      BY <1>3, <2>1, <3>1
  <2> QED
    BY <2>2, <2>3
<1>4. \A n \in 0 .. Len(s) : Joined(s, n) \in Seq(T)
  <2> DEFINE S == {n \in Nat : Joined(s, n) \in Seq(T)}
  <2>1. 0 \in S
    <3>1. <<>> \in Seq(T)
      OBVIOUS
    <3> QED
      BY <1>2, <3>1
  <2>2. ASSUME NEW n \in 0 .. Len(s), n \in S /\ n < Len(s) PROVE n + 1 \in S
    <3>1. n + 1 \in 1 .. Len(s) /\ (n + 1) - 1 = n /\ n + 1 \in Nat
      BY <1>1, <2>2
    <3> QED
      BY <1>3, <2>2, <3>1
  <2> HIDE DEF S
  <2>3. 0 .. Len(s) \subseteq S
    BY <1>1, <2>1, <2>2, CountingTo
  <2> QED
    BY <2>3 DEF S
<1>5. \A n \in 1 .. Len(s) : Joined(s, n) = Joined(s, n - 1) \o s[n]
  <2> TAKE n \in 1 .. Len(s)
  <2>1. n - 1 \in 0 .. Len(s)
    BY <1>1
  <2> QED
    BY <1>3, <1>4, <2>1
<1>6. FlattenSeq(s) = Joined(s, Len(s))
  <2>1. [k \in 1 .. Len(s) |-> s[k]] = s
    OBVIOUS
  <2> QED
    BY <2>1 DEF Joined
<1> QED
  BY <1>2, <1>4, <1>5, <1>6

\* Where the i-th sequence of s starts in the join.
Start(s, i) == Len(Joined(s, i - 1))

\* Each sequence ends before the next starts.
LEMMA StartsGrow ==
    ASSUME NEW T, NEW s \in Seq(Seq(T))
    PROVE  /\ \A i \in 1 .. Len(s) + 1 : Start(s, i) \in Nat
           /\ \A i \in 1 .. Len(s) : Len(s[i]) \in Nat /\ Start(s, i + 1) = Start(s, i) + Len(s[i])
           /\ \A j \in 1 .. Len(s) + 1 : \A i \in 1 .. Len(s) : i < j => Start(s, i) + Len(s[i]) <= Start(s, j)
<1>1. Len(s) \in Nat /\ \A i \in 1 .. Len(s) : s[i] \in Seq(T) /\ Len(s[i]) \in Nat
  OBVIOUS
<1>2. \A i \in 1 .. Len(s) + 1 : Start(s, i) \in Nat
  <2> TAKE i \in 1 .. Len(s) + 1
  <2>1. i - 1 \in 0 .. Len(s)
    BY <1>1
  <2>2. Joined(s, i - 1) \in Seq(T)
    BY <2>1, JoinedStep
  <2> QED
    BY <2>2 DEF Start
<1>3. \A i \in 1 .. Len(s) : Start(s, i + 1) = Start(s, i) + Len(s[i])
  <2> TAKE i \in 1 .. Len(s)
  <2>1. i - 1 \in 0 .. Len(s) /\ (i + 1) - 1 = i
    BY <1>1
  <2>2. Joined(s, i - 1) \in Seq(T) /\ Joined(s, i) = Joined(s, i - 1) \o s[i]
    BY <2>1, JoinedStep
  <2>3. Len(Joined(s, i)) = Len(Joined(s, i - 1)) + Len(s[i])
    BY <1>1, <2>2
  <2> QED
    BY <2>1, <2>3 DEF Start
<1>4. \A j \in 1 .. Len(s) + 1 : \A i \in 1 .. Len(s) : i < j => Start(s, i) + Len(s[i]) <= Start(s, j)
  <2> DEFINE S == {j \in Nat : \A i \in 1 .. Len(s) : i < j => Start(s, i) + Len(s[i]) <= Start(s, j)}
  <2>1. 0 \in S
    OBVIOUS
  <2>2. ASSUME NEW j \in 0 .. Len(s) + 1, j \in S /\ j < Len(s) + 1 PROVE j + 1 \in S
    <3> SUFFICES ASSUME NEW i \in 1 .. Len(s), i < j + 1 PROVE Start(s, i) + Len(s[i]) <= Start(s, j + 1)
      BY <2>2
    <3>1. j \in 1 .. Len(s)
      BY <1>1, <2>2
    <3>2. Start(s, j + 1) = Start(s, j) + Len(s[j]) /\ Start(s, j) \in Nat /\ Len(s[j]) \in Nat
      BY <1>1, <1>2, <1>3, <3>1
    <3>3. CASE i = j
      BY <3>2, <3>3
    <3>4. CASE i # j
      <4>1. i < j
        BY <3>4, <1>1
      <4>2. Start(s, i) + Len(s[i]) <= Start(s, j)
        BY <2>2, <4>1
      <4>3. Start(s, i) \in Nat /\ Len(s[i]) \in Nat
        BY <1>1, <1>2
      <4> QED
        BY <3>2, <4>2, <4>3
    <3> QED
      BY <3>3, <3>4
  <2>3. Len(s) + 1 \in Nat
    BY <1>1
  <2> HIDE DEF S
  <2>4. 0 .. Len(s) + 1 \subseteq S
    BY <2>1, <2>2, <2>3, CountingTo
  <2>5. 1 .. Len(s) + 1 \subseteq 0 .. Len(s) + 1
    BY <1>1
  <2> QED
    BY <2>4, <2>5 DEF S
<1> QED
  BY <1>1, <1>2, <1>3, <1>4

\* Each item of each sequence has its place in the join, and each place its item.
HasPlace(s, n, i, k) ==
    /\ Start(s, i) + k \in 1 .. Len(Joined(s, n))
    /\ Joined(s, n)[Start(s, i) + k] = s[i][k]
IsPlace(s, n, p) == \E i \in 1 .. n : \E k \in 1 .. Len(s[i]) : p = Start(s, i) + k

LEMMA JoinedPlaces ==
    ASSUME NEW T, NEW s \in Seq(Seq(T))
    PROVE  \A n \in 0 .. Len(s) :
             /\ \A i \in 1 .. n : \A k \in 1 .. Len(s[i]) : HasPlace(s, n, i, k)
             /\ \A p \in 1 .. Len(Joined(s, n)) : IsPlace(s, n, p)
<1> DEFINE P(n) == /\ \A i \in 1 .. n : \A k \in 1 .. Len(s[i]) : HasPlace(s, n, i, k)
                   /\ \A p \in 1 .. Len(Joined(s, n)) : IsPlace(s, n, p)
           S == {n \in Nat : P(n)}
<1>0. Len(s) \in Nat
  OBVIOUS
<1>1. 0 \in S
  <2>1. Joined(s, 0) = <<>> /\ Len(<<>>) = 0
    BY JoinedStep
  <2>2. 1 .. 0 = {}
    OBVIOUS
  <2> QED
    BY <2>1, <2>2
<1>2. ASSUME NEW n \in 0 .. Len(s), n \in S /\ n < Len(s) PROVE n + 1 \in S
  <2> DEFINE last == s[n + 1]
             a == Joined(s, n)
             b == Joined(s, n + 1)
  <2>1. n + 1 \in 1 .. Len(s) /\ (n + 1) - 1 = n /\ n + 1 \in Nat
    BY <1>0, <1>2
  <2>2. last \in Seq(T) /\ a \in Seq(T) /\ b = a \o last
    <3>1. Joined(s, n + 1) = Joined(s, (n + 1) - 1) \o s[n + 1]
      BY <2>1, JoinedStep
    <3>2. Joined(s, n) \in Seq(T)
      BY <1>2, JoinedStep
    <3>3. s[n + 1] \in Seq(T)
      BY <2>1
    <3> QED
      BY <2>1, <3>1, <3>2, <3>3
  <2>3. Start(s, n + 1) = Len(a)
    BY <2>1 DEF Start
  <2>4. /\ Len(a) \in Nat /\ Len(last) \in Nat /\ Len(b) = Len(a) + Len(last)
        /\ \A p \in 1 .. Len(a) : p \in 1 .. Len(b) /\ b[p] = a[p]
        /\ \A k \in 1 .. Len(last) : Len(a) + k \in 1 .. Len(b) /\ b[Len(a) + k] = last[k]
    <3> HIDE DEF last, a, b
    <3>1. Len(a) \in Nat /\ Len(last) \in Nat /\ Len(b) = Len(a) + Len(last)
      BY <2>2
    <3>2. ASSUME NEW p \in 1 .. Len(a) PROVE p \in 1 .. Len(b) /\ b[p] = a[p]
      BY <2>2, <3>1
    <3>3. ASSUME NEW k \in 1 .. Len(last) PROVE Len(a) + k \in 1 .. Len(b) /\ b[Len(a) + k] = last[k]
      <4>1. Len(a) + k \in 1 .. Len(b) /\ ~(Len(a) + k <= Len(a)) /\ (Len(a) + k) - Len(a) = k
        BY <3>1
      <4> QED
        BY <2>2, <3>1, <4>1
    <3> QED
      BY <3>1, <3>2, <3>3
  <2>5. ASSUME NEW i \in 1 .. n + 1, NEW k \in 1 .. Len(s[i]) PROVE HasPlace(s, n + 1, i, k)
    <3>1. CASE i = n + 1
      <4> HIDE DEF a, b
      <4>1. k \in 1 .. Len(last) /\ s[i][k] = last[k] /\ Start(s, i) = Len(a)
        BY <2>3, <3>1
      <4> HIDE DEF last
      <4>2. Start(s, i) + k \in 1 .. Len(b) /\ b[Start(s, i) + k] = s[i][k]
        BY <2>4, <4>1
      <4> QED
        BY <4>2 DEF HasPlace, b
    <3>2. CASE i # n + 1
      <4>1. i \in 1 .. n
        BY <3>2
      <4>2. HasPlace(s, n, i, k)
        BY <1>2, <4>1
      <4>3. Start(s, i) + k \in 1 .. Len(a) /\ a[Start(s, i) + k] = s[i][k]
        BY <4>2 DEF HasPlace
      <4> HIDE DEF a, b
      <4>4. Start(s, i) + k \in 1 .. Len(b) /\ b[Start(s, i) + k] = s[i][k]
        BY <2>4, <4>3
      <4> QED
        BY <4>4 DEF HasPlace, b
    <3> QED
      BY <3>1, <3>2
  <2>6. ASSUME NEW p \in 1 .. Len(b) PROVE IsPlace(s, n + 1, p)
    <3>1. CASE p \in 1 .. Len(a)
      <4>1. IsPlace(s, n, p)
        BY <1>2, <3>1
      <4>2. 1 .. n \subseteq 1 .. n + 1
        OBVIOUS
      <4> QED
        BY <4>1, <4>2 DEF IsPlace
    <3>2. CASE p \notin 1 .. Len(a)
      <4> DEFINE k == p - Len(a)
      <4>1. k \in 1 .. Len(last) /\ p = Len(a) + k
        <5> HIDE DEF a, b, last
        <5> QED
          BY <2>4, <3>2
      <4>2. n + 1 \in 1 .. n + 1
        OBVIOUS
      <4>3. p = Start(s, n + 1) + k /\ k \in 1 .. Len(s[n + 1])
        BY <2>3, <4>1
      <4> HIDE DEF k
      <4> QED
        BY <4>2, <4>3 DEF IsPlace
    <3> QED
      BY <3>1, <3>2
  <2> QED
    BY <2>1, <2>5, <2>6
<1> HIDE DEF S
<1>3. 0 .. Len(s) \subseteq S
  BY <1>0, <1>1, <1>2, CountingTo
<1> QED
  BY <1>3 DEF S

\* A join is as long as its parts, whatever they hold.
LEMMA StartsAgree ==
    ASSUME NEW T, NEW s \in Seq(Seq(T)), NEW U, NEW t \in Seq(Seq(U)), Len(t) = Len(s),
           \A i \in 1 .. Len(s) : Len(t[i]) = Len(s[i])
    PROVE  \A i \in 1 .. Len(s) + 1 : Start(t, i) = Start(s, i)
<1> DEFINE S == {i \in Nat : i # 0 => Start(t, i) = Start(s, i)}
<1>0. Len(s) \in Nat /\ Len(s) + 1 \in Nat
  OBVIOUS
<1>1. 0 \in S
  OBVIOUS
<1>2. ASSUME NEW i \in 0 .. Len(s) + 1, i \in S /\ i < Len(s) + 1 PROVE i + 1 \in S
  <2>1. CASE i = 0
    <3>1. Start(t, i + 1) = Len(Joined(t, 0)) /\ Start(s, i + 1) = Len(Joined(s, 0))
      <4>1. (i + 1) - 1 = 0
        BY <2>1
      <4> QED
        BY <4>1 DEF Start
    <3>2. Joined(t, 0) = <<>> /\ Joined(s, 0) = <<>>
      BY JoinedStep
    <3> QED
      BY <3>1, <3>2
  <2>2. CASE i # 0
    <3>1. i \in 1 .. Len(s)
      BY <1>0, <1>2, <2>2
    <3>2. Start(s, i + 1) = Start(s, i) + Len(s[i])
      BY <3>1, StartsGrow
    <3>3. Start(t, i + 1) = Start(t, i) + Len(t[i])
      BY <3>1, StartsGrow
    <3> QED
      BY <1>2, <2>2, <3>1, <3>2, <3>3
  <2> QED
    BY <2>1, <2>2
<1> HIDE DEF S
<1>3. 0 .. Len(s) + 1 \subseteq S
  BY <1>0, <1>1, <1>2, CountingTo
<1>4. 1 .. Len(s) + 1 \subseteq 0 .. Len(s) + 1 /\ 0 \notin 1 .. Len(s) + 1
  BY <1>0
<1> QED
  BY <1>3, <1>4 DEF S

-----------------------------------------------------------------------------
(* The logs of a block. *)

\* The logs of the deeds of a transaction, and of the transactions of b.
DeedLogs(tx) == [j \in DOMAIN tx.deeds |-> LogsOfDeed(tx.deeds[j])]
TxLogs(b) == [i \in DOMAIN truth[b] |-> LogsOfTx(truth[b][i])]

\* The log l of a deed, served and parsed as log p of transaction i of b.
Parsed(b, i, l, p) ==
    [block |-> b, tx |-> i, index |-> p, address |-> l.address, topic |-> l.topic,
     from |-> l.from, to |-> l.to, value |-> l.value]
Raw(l) == l = [topic |-> l.topic, address |-> l.address, from |-> l.from, to |-> l.to, value |-> l.value, index |-> 0]

\* Sequences of sequences, whatever they hold.
LEMMA SeqOfSeqs ==
    ASSUME NEW s, NEW m \in Nat, s = [i \in 1 .. m |-> s[i]],
           \A i \in 1 .. m : s[i] \in Seq(ToSet(s[i]))
    PROVE  s \in Seq(Seq(UNION {ToSet(s[i]) : i \in 1 .. m})) /\ Len(s) = m
<1> DEFINE T == UNION {ToSet(s[i]) : i \in 1 .. m}
<1>1. ASSUME NEW i \in 1 .. m PROVE s[i] \in Seq(T)
  <2>1. ToSet(s[i]) \subseteq T
    OBVIOUS
  <2> DEFINE c == s[i]
             U == ToSet(s[i])
  <2>2. c \in Seq(U)
    OBVIOUS
  <2> HIDE DEF T, U, c
  <2>3. c \in Seq(T)
    BY <2>1, <2>2 DEF U
  <2> QED
    BY <2>3 DEF c
<1> HIDE DEF T
<1>2. s \in [1 .. m -> Seq(T)]
  BY <1>1
<1>3. s \in Seq(Seq(T)) /\ Len(s) = m
  BY <1>2
<1> QED
  BY <1>3 DEF T

\* What happens in a transaction.
LEMMA Transactions ==
    ASSUME truth \in [Asked -> Contents], NEW b \in Asked
    PROVE  /\ b \in Nat \ {0}
           /\ Len(truth[b]) \in Nat /\ DOMAIN truth[b] = 1 .. Len(truth[b])
           /\ truth[b] = [i \in 1 .. Len(truth[b]) |-> truth[b][i]]
           /\ \A i \in DOMAIN truth[b] : IsTransaction(truth[b][i])
<1>1. b \in Nat \ {0} /\ truth[b] \in Contents
  BY ReadingAssumption
<1> DEFINE c == truth[b]
<1>2. c \in Seq(ToSet(c)) /\ \A tx \in ToSet(c) : IsTransaction(tx)
  BY <1>1, ReadingAssumption
<1>3. \A i \in DOMAIN c : c[i] \in ToSet(c)
  BY DEF ToSet
<1> HIDE DEF c
<1>4. Len(c) \in Nat /\ DOMAIN c = 1 .. Len(c) /\ c = [i \in 1 .. Len(c) |-> c[i]]
  BY <1>2
<1>5. \A i \in DOMAIN c : IsTransaction(c[i])
  BY <1>2, <1>3
<1> QED
  BY <1>1, <1>4, <1>5 DEF c

LEMMA DeedShape ==
    ASSUME NEW tx, IsTransaction(tx)
    PROVE  /\ Len(tx.deeds) \in Nat /\ DOMAIN tx.deeds = 1 .. Len(tx.deeds)
           /\ \A j \in DOMAIN tx.deeds :
                /\ tx.deeds[j].does \in {"pay", "move", "authorize", "transfer"}
                /\ tx.deeds[j].token # NativeLedger
<1> DEFINE d == tx.deeds
<1>1. d \in Seq(ToSet(d)) /\ \A e \in ToSet(d) : e.does \in {"pay", "move", "authorize", "transfer"} /\ e.token # NativeLedger
  BY DEF IsTransaction
<1>2. \A j \in DOMAIN d : d[j] \in ToSet(d)
  BY DEF ToSet
<1> HIDE DEF d
<1>3. Len(d) \in Nat /\ DOMAIN d = 1 .. Len(d)
  BY <1>1
<1>4. \A j \in DOMAIN d : d[j].does \in {"pay", "move", "authorize", "transfer"} /\ d[j].token # NativeLedger
  BY <1>1, <1>2
<1> QED
  BY <1>3, <1>4 DEF d

\* The logs of one deed: an authorization first, the move last.
LEMMA LogsOfOne ==
    ASSUME NEW d, d.does \in {"pay", "move", "authorize", "transfer"}
    PROVE  LET logs == LogsOfDeed(d) IN
           /\ logs \in Seq(ToSet(logs)) /\ Len(logs) \in 1 .. 3 /\ DOMAIN logs = 1 .. Len(logs)
           /\ d.does \in {"pay", "authorize"} => logs[1] = Authorized(d)
           /\ d.does # "authorize" => logs[Len(logs)] = Moved(d)
           /\ d.does = "pay" => Len(logs) = 3
           /\ \A m \in 1 .. Len(logs) :
                /\ Raw(logs[m])
                /\ logs[m].topic = "authorization" => m = 1 /\ d.does \in {"pay", "authorize"}
                /\ logs[m].topic = "transfer" /\ logs[m].address # NativeLedger => m = Len(logs) /\ d.does # "authorize"
<1>0. Raw(Authorized(d)) /\ Raw(Moved(d)) /\ Raw(Mirrored(d)) /\ Mirrored(d).address = NativeLedger
      /\ Mirrored(d).topic = "transfer" /\ Moved(d).topic = "transfer" /\ Authorized(d).topic = "authorization"
  <2>1. Raw(Authorized(d)) /\ Authorized(d).topic = "authorization"
    BY DEF Raw, Authorized
  <2>2. Raw(Moved(d)) /\ Moved(d).topic = "transfer"
    BY DEF Raw, Moved
  <2> DEFINE m == Moved(d)
             v == m.value * 1000
  <2>a. Mirrored(d) = [m EXCEPT !.address = NativeLedger, !.value = v]
    BY DEF Mirrored
  <2> HIDE DEF v
  <2>3. Mirrored(d) = [topic |-> "transfer", address |-> NativeLedger, from |-> d.payer, to |-> d.payee, value |-> v, index |-> 0]
    BY <2>a DEF Moved
  <2>4. Raw(Mirrored(d)) /\ Mirrored(d).address = NativeLedger /\ Mirrored(d).topic = "transfer"
    BY <2>3 DEF Raw
  <2> QED
    BY <2>1, <2>2, <2>4
<1>1. CASE d.does = "pay"
  <2> DEFINE s == <<Authorized(d), Mirrored(d), Moved(d)>>
  <2>1. LogsOfDeed(d) = s
    BY <1>1 DEF LogsOfDeed
  <2>2. s \in Seq(ToSet(s)) /\ Len(s) = 3 /\ DOMAIN s = 1 .. 3
        /\ s[1] = Authorized(d) /\ s[2] = Mirrored(d) /\ s[3] = Moved(d)
    BY DEF ToSet
  <2>3. \A m \in 1 .. 3 : m = 1 \/ m = 2 \/ m = 3
    OBVIOUS
  <2> HIDE DEF s
  <2> QED
    BY <1>0, <1>1, <2>1, <2>2, <2>3
<1>2. CASE d.does \in {"move", "transfer"}
  <2> DEFINE s == <<Mirrored(d), Moved(d)>>
  <2>1. LogsOfDeed(d) = s
    BY <1>2 DEF LogsOfDeed
  <2>2. s \in Seq(ToSet(s)) /\ Len(s) = 2 /\ DOMAIN s = 1 .. 2
        /\ s[1] = Mirrored(d) /\ s[2] = Moved(d)
    BY DEF ToSet
  <2>3. \A m \in 1 .. 2 : m = 1 \/ m = 2
    OBVIOUS
  <2> HIDE DEF s
  <2> QED
    BY <1>0, <1>2, <2>1, <2>2, <2>3
<1>3. CASE d.does = "authorize"
  <2> DEFINE s == <<Authorized(d)>>
  <2>1. LogsOfDeed(d) = s
    BY <1>3 DEF LogsOfDeed
  <2>2. s \in Seq(ToSet(s)) /\ Len(s) = 1 /\ DOMAIN s = 1 .. 1 /\ s[1] = Authorized(d)
    BY DEF ToSet
  <2>3. \A m \in 1 .. 1 : m = 1
    OBVIOUS
  <2> HIDE DEF s
  <2> QED
    BY <1>0, <1>3, <2>1, <2>2, <2>3
<1> QED
  BY <1>1, <1>2, <1>3

\* Where deed j of a transaction is authorized, and where it moves, among its logs.
AuthIn(tx, j) == Start(DeedLogs(tx), j) + 1
MoveIn(tx, j) == Start(DeedLogs(tx), j) + Len(LogsOfDeed(tx.deeds[j]))

\* The logs of the deeds make a join.
LEMMA DeedsJoin ==
    ASSUME NEW tx, IsTransaction(tx)
    PROVE  \E T : /\ DeedLogs(tx) \in Seq(Seq(T)) /\ Len(DeedLogs(tx)) = Len(tx.deeds)
                  /\ \A j \in DOMAIN tx.deeds : DeedLogs(tx)[j] = LogsOfDeed(tx.deeds[j])
<1> DEFINE s == DeedLogs(tx)
           m == Len(tx.deeds)
<1>1. m \in Nat /\ DOMAIN tx.deeds = 1 .. m
  BY DeedShape
<1>2. \A j \in 1 .. m : s[j] = LogsOfDeed(tx.deeds[j]) /\ s[j] \in Seq(ToSet(s[j]))
  <2> TAKE j \in 1 .. m
  <2>1. s[j] = LogsOfDeed(tx.deeds[j])
    BY <1>1 DEF DeedLogs
  <2>2. tx.deeds[j].does \in {"pay", "move", "authorize", "transfer"}
    BY <1>1, DeedShape
  <2>3. LogsOfDeed(tx.deeds[j]) \in Seq(ToSet(LogsOfDeed(tx.deeds[j])))
    BY <2>2, LogsOfOne
  <2> QED
    BY <2>1, <2>3
<1>3. s = [j \in 1 .. m |-> s[j]]
  BY <1>1 DEF DeedLogs
<1> HIDE DEF s, m
<1>4. s \in Seq(Seq(UNION {ToSet(s[j]) : j \in 1 .. m})) /\ Len(s) = m
  BY <1>1, <1>2, <1>3, SeqOfSeqs
<1> QED
  BY <1>1, <1>2, <1>4 DEF s, m

\* The logs of a transaction are those of its deeds, one after the other.
LEMMA LogsOfDeeds ==
    ASSUME NEW tx, IsTransaction(tx), tx.ok
    PROVE  /\ \E T : LogsOfTx(tx) \in Seq(T)
           /\ \A j \in DOMAIN tx.deeds : \A m \in 1 .. Len(LogsOfDeed(tx.deeds[j])) :
                LET k == Start(DeedLogs(tx), j) + m IN
                k \in 1 .. Len(LogsOfTx(tx)) /\ LogsOfTx(tx)[k] = LogsOfDeed(tx.deeds[j])[m]
           /\ \A k \in 1 .. Len(LogsOfTx(tx)) :
                \E j \in DOMAIN tx.deeds : \E m \in 1 .. Len(LogsOfDeed(tx.deeds[j])) :
                    k = Start(DeedLogs(tx), j) + m
<1> DEFINE s == DeedLogs(tx)
           n == Len(tx.deeds)
<1>1. n \in Nat /\ DOMAIN tx.deeds = 1 .. n
  BY DeedShape
<1>2. PICK T : s \in Seq(Seq(T)) /\ Len(s) = n /\ \A j \in 1 .. n : s[j] = LogsOfDeed(tx.deeds[j])
  BY <1>1, DeedsJoin
<1>3. LogsOfTx(tx) = FlattenSeq(s)
  BY DEF LogsOfTx, DeedLogs
<1> HIDE DEF s, n
<1>4. FlattenSeq(s) = Joined(s, n) /\ Joined(s, n) \in Seq(T) /\ n \in 0 .. Len(s)
  <2>1. n \in 0 .. Len(s)
    BY <1>1, <1>2
  <2> QED
    BY <1>2, <2>1, JoinedStep
<1>5. /\ \A j \in 1 .. n : \A m \in 1 .. Len(s[j]) : HasPlace(s, n, j, m)
      /\ \A k \in 1 .. Len(Joined(s, n)) : IsPlace(s, n, k)
  BY <1>2, <1>4, JoinedPlaces
<1>6. ASSUME NEW j \in 1 .. n, NEW m \in 1 .. Len(LogsOfDeed(tx.deeds[j]))
      PROVE  /\ Start(s, j) + m \in 1 .. Len(LogsOfTx(tx))
             /\ LogsOfTx(tx)[Start(s, j) + m] = LogsOfDeed(tx.deeds[j])[m]
  <2>1. s[j] = LogsOfDeed(tx.deeds[j])
    BY <1>2
  <2>2. HasPlace(s, n, j, m)
    BY <1>5, <2>1
  <2> QED
    BY <1>3, <1>4, <2>1, <2>2 DEF HasPlace
<1>7. ASSUME NEW k \in 1 .. Len(LogsOfTx(tx))
      PROVE  \E j \in 1 .. n : \E m \in 1 .. Len(LogsOfDeed(tx.deeds[j])) : k = Start(s, j) + m
  <2>1. IsPlace(s, n, k)
    BY <1>3, <1>4, <1>5
  <2>2. PICK j \in 1 .. n : \E m \in 1 .. Len(s[j]) : k = Start(s, j) + m
    BY <2>1 DEF IsPlace
  <2>3. s[j] = LogsOfDeed(tx.deeds[j])
    BY <1>2
  <2> QED
    BY <2>2, <2>3
<1>8. LogsOfTx(tx) \in Seq(T)
  BY <1>3, <1>4
<1> QED
  BY <1>1, <1>6, <1>7, <1>8 DEF s, n

\* What the logs of a transaction are.
LEMMA LogsOfATx ==
    ASSUME NEW tx, IsTransaction(tx)
    PROVE  LET L == LogsOfTx(tx) IN
           /\ Len(L) \in Nat /\ DOMAIN L = 1 .. Len(L) /\ L \in Seq(ToSet(L))
           /\ \A k \in 1 .. Len(L) :
                /\ Raw(L[k])
                /\ L[k].topic = "authorization" => tx.ok /\ \E j \in Authorizing(tx.deeds) : k = AuthIn(tx, j)
                /\ L[k].topic = "transfer" /\ L[k].address # NativeLedger =>
                     tx.ok /\ \E j \in Moving(tx.deeds) : k = MoveIn(tx, j)
           /\ tx.ok => \A j \in Authorizing(tx.deeds) : AuthIn(tx, j) \in 1 .. Len(L) /\ L[AuthIn(tx, j)] = Authorized(tx.deeds[j])
           /\ tx.ok => \A j \in Moving(tx.deeds) : MoveIn(tx, j) \in 1 .. Len(L) /\ L[MoveIn(tx, j)] = Moved(tx.deeds[j])
<1> DEFINE L == LogsOfTx(tx)
<1>1. CASE ~tx.ok
  <2>1. L = <<>>
    BY <1>1 DEF LogsOfTx
  <2>2. Len(<<>>) = 0 /\ DOMAIN <<>> = 1 .. 0 /\ 1 .. 0 = {} /\ <<>> \in Seq(ToSet(<<>>))
    OBVIOUS
  <2> HIDE DEF L
  <2>3. Len(L) \in Nat /\ DOMAIN L = 1 .. Len(L) /\ L \in Seq(ToSet(L)) /\ 1 .. Len(L) = {}
    BY <2>1, <2>2
  <2> QED
    BY <1>1, <2>3 DEF L
<1>2. CASE tx.ok
  <2> DEFINE one(j) == LogsOfDeed(tx.deeds[j])
  <2>1. PICK T : L \in Seq(T)
    BY <1>2, LogsOfDeeds
  <2>2. Len(L) \in Nat /\ DOMAIN L = 1 .. Len(L) /\ L \in Seq(ToSet(L))
    <3> HIDE DEF L
    <3>1. Len(L) \in Nat /\ DOMAIN L = 1 .. Len(L)
      BY <2>1
    <3>2. \A k \in 1 .. Len(L) : L[k] \in ToSet(L)
      BY <3>1 DEF ToSet
    <3> QED
      BY <2>1, <3>1, <3>2
  <2>3. \A j \in DOMAIN tx.deeds : tx.deeds[j].does \in {"pay", "move", "authorize", "transfer"}
    BY DeedShape
  <2>4. ASSUME NEW j \in DOMAIN tx.deeds, NEW m \in 1 .. Len(one(j))
        PROVE  Start(DeedLogs(tx), j) + m \in 1 .. Len(L) /\ L[Start(DeedLogs(tx), j) + m] = one(j)[m]
    BY <1>2, LogsOfDeeds
  <2>5. ASSUME NEW k \in 1 .. Len(L)
        PROVE  /\ Raw(L[k])
               /\ L[k].topic = "authorization" => \E j \in Authorizing(tx.deeds) : k = AuthIn(tx, j)
               /\ L[k].topic = "transfer" /\ L[k].address # NativeLedger => \E j \in Moving(tx.deeds) : k = MoveIn(tx, j)
    <3>1. PICK j \in DOMAIN tx.deeds : \E m \in 1 .. Len(one(j)) : k = Start(DeedLogs(tx), j) + m
      BY <1>2, LogsOfDeeds
    <3>2. PICK m \in 1 .. Len(one(j)) : k = Start(DeedLogs(tx), j) + m
      BY <3>1
    <3>3. L[k] = one(j)[m]
      BY <2>4, <3>2
    <3>4. /\ Raw(one(j)[m])
          /\ one(j)[m].topic = "authorization" => m = 1 /\ tx.deeds[j].does \in {"pay", "authorize"}
          /\ one(j)[m].topic = "transfer" /\ one(j)[m].address # NativeLedger => m = Len(one(j)) /\ tx.deeds[j].does # "authorize"
      BY <2>3, LogsOfOne
    <3> HIDE DEF L, one
    <3>5. tx.deeds[j].does \in {"pay", "authorize"} => j \in Authorizing(tx.deeds)
      BY DEF Authorizing
    <3>6. tx.deeds[j].does # "authorize" => j \in Moving(tx.deeds)
      BY DEF Moving
    <3>7. m = 1 => k = AuthIn(tx, j)
      BY <3>2 DEF AuthIn
    <3>8. m = Len(one(j)) => k = MoveIn(tx, j)
      BY <3>2 DEF MoveIn, one
    <3> QED
      BY <3>3, <3>4, <3>5, <3>6, <3>7, <3>8
  <2>6. ASSUME NEW j \in Authorizing(tx.deeds) PROVE AuthIn(tx, j) \in 1 .. Len(L) /\ L[AuthIn(tx, j)] = Authorized(tx.deeds[j])
    <3>1. j \in DOMAIN tx.deeds /\ tx.deeds[j].does \in {"pay", "authorize"}
      BY DEF Authorizing
    <3>2. one(j)[1] = Authorized(tx.deeds[j]) /\ Len(one(j)) \in 1 .. 3
      BY <2>3, <3>1, LogsOfOne
    <3>3. 1 \in 1 .. Len(one(j))
      BY <3>2
    <3> QED
      BY <2>4, <3>1, <3>2, <3>3 DEF AuthIn
  <2>7. ASSUME NEW j \in Moving(tx.deeds) PROVE MoveIn(tx, j) \in 1 .. Len(L) /\ L[MoveIn(tx, j)] = Moved(tx.deeds[j])
    <3>1. j \in DOMAIN tx.deeds /\ tx.deeds[j].does # "authorize"
      BY DEF Moving
    <3>2. one(j)[Len(one(j))] = Moved(tx.deeds[j]) /\ Len(one(j)) \in 1 .. 3
      BY <2>3, <3>1, LogsOfOne
    <3>3. \A x \in 1 .. 3 : x \in 1 .. x
      OBVIOUS
    <3>4. Len(one(j)) \in 1 .. Len(one(j))
      BY <3>2, <3>3
    <3> QED
      BY <2>4, <3>1, <3>2, <3>4 DEF MoveIn
  <2> HIDE DEF L
  <2> QED
    BY <1>2, <2>2, <2>5, <2>6, <2>7 DEF L
<1> QED
  BY <1>1, <1>2

\* The deeds come in order, and a payment is authorized before it moves.
LEMMA DeedsInOrder ==
    ASSUME NEW tx, IsTransaction(tx), NEW h \in DOMAIN tx.deeds, NEW j \in DOMAIN tx.deeds
    PROVE  /\ AuthIn(tx, h) \in Nat /\ MoveIn(tx, h) \in Nat /\ AuthIn(tx, h) <= MoveIn(tx, h)
           /\ tx.deeds[h].does = "pay" => AuthIn(tx, h) < MoveIn(tx, h)
           /\ h < j => MoveIn(tx, h) < AuthIn(tx, j)
<1> DEFINE s == DeedLogs(tx)
           n == Len(tx.deeds)
<1>1. n \in Nat /\ DOMAIN tx.deeds = 1 .. n
  BY DeedShape
<1>2. PICK T : s \in Seq(Seq(T)) /\ Len(s) = n /\ \A i \in 1 .. n : s[i] = LogsOfDeed(tx.deeds[i])
  BY <1>1, DeedsJoin
<1>3. Len(LogsOfDeed(tx.deeds[h])) \in 1 .. 3 /\ (tx.deeds[h].does = "pay" => Len(LogsOfDeed(tx.deeds[h])) = 3)
  <2>1. tx.deeds[h].does \in {"pay", "move", "authorize", "transfer"}
    BY DeedShape
  <2> QED
    BY <2>1, LogsOfOne
<1>4. AuthIn(tx, h) = Start(s, h) + 1 /\ AuthIn(tx, j) = Start(s, j) + 1 /\ MoveIn(tx, h) = Start(s, h) + Len(s[h])
      /\ s[h] = LogsOfDeed(tx.deeds[h])
  BY <1>1, <1>2 DEF AuthIn, MoveIn
<1> HIDE DEF s, n
<1>5. Start(s, h) \in Nat /\ Start(s, j) \in Nat /\ (h < j => Start(s, h) + Len(s[h]) <= Start(s, j))
  <2>1. h \in 1 .. Len(s) /\ h \in 1 .. Len(s) + 1 /\ j \in 1 .. Len(s) + 1
    BY <1>1, <1>2
  <2> QED
    BY <1>2, <2>1, StartsGrow
<1> DEFINE from == Start(s, h)
           len == Len(LogsOfDeed(tx.deeds[h]))
           to == Start(s, j)
<1>6. from \in Nat /\ to \in Nat /\ len \in 1 .. 3 /\ (h < j => from + len <= to)
      /\ AuthIn(tx, h) = from + 1 /\ MoveIn(tx, h) = from + len /\ AuthIn(tx, j) = to + 1
      /\ (tx.deeds[h].does = "pay" => len = 3)
  BY <1>3, <1>4, <1>5
<1> HIDE DEF from, len, to
<1> QED
  BY <1>6

\* The logs of block b as parsed from what its endpoint serves.
ParsedTx(b) == [i \in DOMAIN truth[b] |-> ParseLogs(ServedReceipt(b, i), b, i)]
BlockLogs(b) == FlattenSeq(ParsedTx(b))

LEMMA ParsedLogs ==
    ASSUME truth \in [Asked -> Contents], NEW b \in Asked, NEW i \in DOMAIN truth[b]
    PROVE  ParseLogs(ServedReceipt(b, i), b, i) =
             [k \in 1 .. Len(LogsOfTx(truth[b][i])) |->
                 Parsed(b, i, LogsOfTx(truth[b][i])[k], LogsBefore(b, i) + k)]
<1> DEFINE L == LogsOfTx(truth[b][i])
           logs == [k \in DOMAIN L |-> [L[k] EXCEPT !.index = LogsBefore(b, i) + k]]
<1>1. IsTransaction(truth[b][i])
  BY Transactions
<1>2. DOMAIN L = 1 .. Len(L) /\ \A k \in 1 .. Len(L) : Raw(L[k])
  BY <1>1, LogsOfATx
<1>3. ServedReceipt(b, i).logs = logs
  BY DEF ServedReceipt
<1> HIDE DEF L
<1>4. ASSUME NEW k \in 1 .. Len(L)
      PROVE  /\ logs[k].index = LogsBefore(b, i) + k /\ logs[k].topic = L[k].topic /\ logs[k].address = L[k].address
             /\ logs[k].from = L[k].from /\ logs[k].to = L[k].to /\ logs[k].value = L[k].value
  <2> DEFINE l == L[k]
             x == LogsBefore(b, i) + k
  <2>1. logs[k] = [l EXCEPT !.index = x]
    BY <1>2
  <2>2. Raw(l)
    BY <1>2
  <2> HIDE DEF l, x, logs
  <2>3. logs[k] = [topic |-> l.topic, address |-> l.address, from |-> l.from, to |-> l.to, value |-> l.value, index |-> x]
    BY <2>1, <2>2 DEF Raw
  <2> QED
    BY <2>3 DEF l, x
<1>5. DOMAIN logs = 1 .. Len(L)
  BY <1>2
<1> HIDE DEF logs
<1>6. ParseLogs(ServedReceipt(b, i), b, i) = [k \in 1 .. Len(L) |-> Parsed(b, i, L[k], LogsBefore(b, i) + k)]
  BY <1>3, <1>4, <1>5 DEF ParseLogs, Parsed
<1> QED
  BY <1>6 DEF L

\* Where the logs of transaction i start is where it is numbered from.
LEMMA TxsJoin ==
    ASSUME truth \in [Asked -> Contents], NEW b \in Asked
    PROVE  /\ \E T : TxLogs(b) \in Seq(Seq(T)) /\ Len(TxLogs(b)) = Len(truth[b])
           /\ \E T : ParsedTx(b) \in Seq(Seq(T)) /\ Len(ParsedTx(b)) = Len(truth[b])
           /\ \A i \in 1 .. Len(truth[b]) : Len(ParsedTx(b)[i]) = Len(LogsOfTx(truth[b][i]))
           /\ \A i \in 1 .. Len(truth[b]) + 1 : LogsBefore(b, i) = Start(TxLogs(b), i) /\ LogsBefore(b, i) = Start(ParsedTx(b), i)
<1> DEFINE m == Len(truth[b])
           s == TxLogs(b)
           t == ParsedTx(b)
<1>1. m \in Nat /\ DOMAIN truth[b] = 1 .. m /\ \A i \in 1 .. m : IsTransaction(truth[b][i])
  BY Transactions
<1>2. ASSUME NEW i \in 1 .. m
      PROVE  /\ s[i] = LogsOfTx(truth[b][i]) /\ s[i] \in Seq(ToSet(s[i])) /\ Len(s[i]) \in Nat
             /\ t[i] \in Seq(ToSet(t[i])) /\ Len(t[i]) = Len(s[i])
  <2>1. s[i] = LogsOfTx(truth[b][i]) /\ t[i] = ParseLogs(ServedReceipt(b, i), b, i)
    BY <1>1 DEF TxLogs, ParsedTx
  <2>2. s[i] \in Seq(ToSet(s[i])) /\ Len(s[i]) \in Nat
    BY <1>1, <2>1, LogsOfATx
  <2>3. t[i] = [k \in 1 .. Len(s[i]) |-> Parsed(b, i, s[i][k], LogsBefore(b, i) + k)]
    BY <1>1, <2>1, ParsedLogs
  <2> DEFINE u == t[i]
             len == Len(s[i])
             e(k) == Parsed(b, i, s[i][k], LogsBefore(b, i) + k)
  <2>4. u = [k \in 1 .. len |-> e(k)] /\ len \in Nat
    BY <2>2, <2>3
  <2> HIDE DEF u, len, e
  <2>5. DOMAIN u = 1 .. len /\ Len(u) = len /\ \A k \in 1 .. len : u[k] \in ToSet(u)
    BY <2>4 DEF ToSet
  <2>6. u = [k \in 1 .. len |-> u[k]]
    BY <2>4
  <2>7. u \in Seq(ToSet(u))
    BY <2>4, <2>5, <2>6
  <2> QED
    BY <2>1, <2>2, <2>5, <2>7 DEF u, len
<1>3. s = [i \in 1 .. m |-> s[i]] /\ t = [i \in 1 .. m |-> t[i]]
  BY <1>1 DEF TxLogs, ParsedTx
<1>4. \A i \in 1 .. m + 1 : LogsBefore(b, i) = Start(s, i)
  <2> TAKE i \in 1 .. m + 1
  <2>1. \A k \in 1 .. i - 1 : s[k] = LogsOfTx(truth[b][k])
    BY <1>1, <1>2
  <2>2. [k \in 1 .. i - 1 |-> LogsOfTx(truth[b][k])] = [k \in 1 .. i - 1 |-> s[k]]
    <3> HIDE DEF s
    <3> QED
      BY <2>1
  <2> QED
    BY <2>2 DEF LogsBefore, Start, Joined
<1> HIDE DEF m, s, t
<1>5. PICK T : s \in Seq(Seq(T)) /\ Len(s) = m
  BY <1>1, <1>2, <1>3, SeqOfSeqs
<1>6. PICK U : t \in Seq(Seq(U)) /\ Len(t) = m
  BY <1>1, <1>2, <1>3, SeqOfSeqs
<1>7. \A i \in 1 .. m + 1 : Start(t, i) = Start(s, i)
  <2>1. Len(t) = Len(s) /\ \A i \in 1 .. Len(s) : Len(t[i]) = Len(s[i])
    BY <1>2, <1>5, <1>6
  <2>2. \A i \in 1 .. Len(s) + 1 : Start(t, i) = Start(s, i)
    BY <1>5, <1>6, <2>1, StartsAgree
  <2> QED
    BY <1>5, <2>2
<1> QED
  BY <1>2, <1>4, <1>5, <1>6, <1>7 DEF m, s, t

\* The logs of a block: each of each transaction, numbered through.
LEMMA LogsOfBlock ==
    ASSUME truth \in [Asked -> Contents], NEW b \in Asked
    PROVE  /\ BlockLogs(b) \in Seq(ToSet(BlockLogs(b)))
           /\ Len(BlockLogs(b)) \in Nat /\ Len(BlockLogs(b)) = LogsBefore(b, Len(truth[b]) + 1)
           /\ \A i \in 1 .. Len(truth[b]) : LogsBefore(b, i) \in Nat
           /\ \A i \in 1 .. Len(truth[b]) : \A k \in 1 .. Len(LogsOfTx(truth[b][i])) :
                LET p == LogsBefore(b, i) + k IN
                p \in 1 .. Len(BlockLogs(b)) /\ BlockLogs(b)[p] = Parsed(b, i, LogsOfTx(truth[b][i])[k], p)
           /\ \A p \in 1 .. Len(BlockLogs(b)) :
                \E i \in 1 .. Len(truth[b]) : \E k \in 1 .. Len(LogsOfTx(truth[b][i])) : p = LogsBefore(b, i) + k
<1> DEFINE m == Len(truth[b])
           t == ParsedTx(b)
           len(i) == Len(LogsOfTx(truth[b][i]))
<1>1. m \in Nat /\ DOMAIN truth[b] = 1 .. m
  BY Transactions
<1>2. PICK T : t \in Seq(Seq(T)) /\ Len(t) = m
  BY TxsJoin
<1>3. /\ \A i \in 1 .. m : Len(t[i]) = len(i)
      /\ \A i \in 1 .. m + 1 : LogsBefore(b, i) = Start(t, i)
  BY TxsJoin
<1>4. \A i \in 1 .. m : t[i] = [k \in 1 .. len(i) |-> Parsed(b, i, LogsOfTx(truth[b][i])[k], LogsBefore(b, i) + k)]
  BY <1>1, ParsedLogs DEF ParsedTx
<1>5. \A i \in 1 .. m : \A k \in 1 .. len(i) : t[i][k] = Parsed(b, i, LogsOfTx(truth[b][i])[k], LogsBefore(b, i) + k)
  BY <1>4
<1> HIDE DEF m, t, len
<1>6. BlockLogs(b) = Joined(t, m) /\ Joined(t, m) \in Seq(T) /\ m \in 0 .. Len(t)
  <2>1. m \in 0 .. Len(t)
    BY <1>1, <1>2
  <2> QED
    BY <1>2, <2>1, JoinedStep DEF BlockLogs, t
<1>7. /\ \A i \in 1 .. m : \A k \in 1 .. Len(t[i]) : HasPlace(t, m, i, k)
      /\ \A p \in 1 .. Len(Joined(t, m)) : IsPlace(t, m, p)
  BY <1>2, <1>6, JoinedPlaces
<1>8. \A i \in 1 .. m + 1 : Start(t, i) \in Nat
  BY <1>2, StartsGrow
<1>9. BlockLogs(b) \in Seq(ToSet(BlockLogs(b))) /\ Len(BlockLogs(b)) \in Nat /\ Len(BlockLogs(b)) = LogsBefore(b, m + 1)
  <2> DEFINE L == BlockLogs(b)
  <2>1. L \in Seq(T)
    BY <1>6
  <2> HIDE DEF L
  <2>2. Len(L) \in Nat /\ DOMAIN L = 1 .. Len(L)
    BY <2>1
  <2>3. \A k \in 1 .. Len(L) : L[k] \in ToSet(L)
    BY <2>2 DEF ToSet
  <2>4. L \in Seq(ToSet(L))
    BY <2>1, <2>2, <2>3
  <2>5. Len(L) = Start(t, m + 1)
    <3>1. (m + 1) - 1 = m
      BY <1>1
    <3> QED
      BY <1>6, <3>1 DEF Start, L
  <2>6. m + 1 \in 1 .. m + 1
    BY <1>1
  <2> QED
    BY <1>3, <2>2, <2>4, <2>5, <2>6 DEF L
<1>10. ASSUME NEW i \in 1 .. m, NEW k \in 1 .. len(i)
       PROVE  /\ LogsBefore(b, i) + k \in 1 .. Len(BlockLogs(b))
              /\ BlockLogs(b)[LogsBefore(b, i) + k] = Parsed(b, i, LogsOfTx(truth[b][i])[k], LogsBefore(b, i) + k)
  <2>1. i \in 1 .. m + 1
    BY <1>1
  <2>2. LogsBefore(b, i) = Start(t, i) /\ Len(t[i]) = len(i)
    BY <1>3, <2>1
  <2>3. HasPlace(t, m, i, k)
    BY <1>7, <2>2
  <2> QED
    BY <1>5, <1>6, <2>2, <2>3 DEF HasPlace
<1>11. ASSUME NEW p \in 1 .. Len(BlockLogs(b))
       PROVE  \E i \in 1 .. m : \E k \in 1 .. len(i) : p = LogsBefore(b, i) + k
  <2>1. IsPlace(t, m, p)
    BY <1>6, <1>7
  <2>2. PICK i \in 1 .. m : \E k \in 1 .. Len(t[i]) : p = Start(t, i) + k
    BY <2>1 DEF IsPlace
  <2>3. i \in 1 .. m + 1
    BY <1>1
  <2>4. LogsBefore(b, i) = Start(t, i) /\ Len(t[i]) = len(i)
    BY <1>3, <2>3
  <2> QED
    BY <2>2, <2>4
<1>12. \A i \in 1 .. m : LogsBefore(b, i) \in Nat
  <2> TAKE i \in 1 .. m
  <2>1. i \in 1 .. m + 1
    BY <1>1
  <2> QED
    BY <1>3, <1>8, <2>1
<1> QED
  BY <1>9, <1>10, <1>11, <1>12 DEF m, len
-----------------------------------------------------------------------------
(* The payments of a block. *)

Deed(b, i, j) == truth[b][i].deeds[j]
IsAuth(b, i, j) == i \in DOMAIN truth[b] /\ truth[b][i].ok /\ j \in Authorizing(truth[b][i].deeds)
IsMove(b, i, j) == i \in DOMAIN truth[b] /\ truth[b][i].ok /\ j \in Moving(truth[b][i].deeds)

\* Where deed j of transaction i is authorized, and where it moves, in block b.
AuthAt(b, i, j) == LogsBefore(b, i) + AuthIn(truth[b][i], j)
MoveAt(b, i, j) == LogsBefore(b, i) + MoveIn(truth[b][i], j)

\* Of the logs of a block, which authorize and which move.
LEMMA BlockPlaces ==
    ASSUME truth \in [Asked -> Contents], NEW b \in Asked
    PROVE  LET L == BlockLogs(b) IN
           /\ \A p \in 1 .. Len(L) : L[p].index = p
           /\ \A i, j : IsAuth(b, i, j) =>
                AuthAt(b, i, j) \in 1 .. Len(L) /\ L[AuthAt(b, i, j)] = Parsed(b, i, Authorized(Deed(b, i, j)), AuthAt(b, i, j))
           /\ \A i, j : IsMove(b, i, j) =>
                MoveAt(b, i, j) \in 1 .. Len(L) /\ L[MoveAt(b, i, j)] = Parsed(b, i, Moved(Deed(b, i, j)), MoveAt(b, i, j))
           /\ \A p \in 1 .. Len(L) : L[p].topic = "authorization" => \E i, j : IsAuth(b, i, j) /\ p = AuthAt(b, i, j)
           /\ \A p \in 1 .. Len(L) : L[p].topic = "transfer" /\ L[p].address # NativeLedger =>
                \E i, j : IsMove(b, i, j) /\ p = MoveAt(b, i, j)
<1> DEFINE L == BlockLogs(b)
           T(i) == LogsOfTx(truth[b][i])
<1>1. DOMAIN truth[b] = 1 .. Len(truth[b]) /\ \A i \in DOMAIN truth[b] : IsTransaction(truth[b][i])
  BY Transactions
<1>2. /\ \A i \in DOMAIN truth[b] : \A k \in 1 .. Len(T(i)) :
           LogsBefore(b, i) + k \in 1 .. Len(L) /\ L[LogsBefore(b, i) + k] = Parsed(b, i, T(i)[k], LogsBefore(b, i) + k)
      /\ \A p \in 1 .. Len(L) : \E i \in DOMAIN truth[b] : \E k \in 1 .. Len(T(i)) : p = LogsBefore(b, i) + k
  <2>1. \A i \in 1 .. Len(truth[b]) : \A k \in 1 .. Len(T(i)) :
          LogsBefore(b, i) + k \in 1 .. Len(L) /\ L[LogsBefore(b, i) + k] = Parsed(b, i, T(i)[k], LogsBefore(b, i) + k)
    BY LogsOfBlock
  <2>2. \A p \in 1 .. Len(L) : \E i \in 1 .. Len(truth[b]) : \E k \in 1 .. Len(T(i)) : p = LogsBefore(b, i) + k
    BY LogsOfBlock
  <2> HIDE DEF L, T
  <2> QED
    BY <1>1, <2>1, <2>2
<1> HIDE DEF L, T
<1>3. ASSUME NEW i, NEW j, IsAuth(b, i, j)
      PROVE  AuthAt(b, i, j) \in 1 .. Len(L) /\ L[AuthAt(b, i, j)] = Parsed(b, i, Authorized(Deed(b, i, j)), AuthAt(b, i, j))
  <2>1. AuthIn(truth[b][i], j) \in 1 .. Len(T(i)) /\ T(i)[AuthIn(truth[b][i], j)] = Authorized(Deed(b, i, j))
    BY <1>1, <1>3, LogsOfATx DEF T, IsAuth, Deed
  <2> QED
    BY <1>2, <1>3, <2>1 DEF AuthAt, IsAuth
<1>4. ASSUME NEW i, NEW j, IsMove(b, i, j)
      PROVE  MoveAt(b, i, j) \in 1 .. Len(L) /\ L[MoveAt(b, i, j)] = Parsed(b, i, Moved(Deed(b, i, j)), MoveAt(b, i, j))
  <2>1. MoveIn(truth[b][i], j) \in 1 .. Len(T(i)) /\ T(i)[MoveIn(truth[b][i], j)] = Moved(Deed(b, i, j))
    BY <1>1, <1>4, LogsOfATx DEF T, IsMove, Deed
  <2> QED
    BY <1>2, <1>4, <2>1 DEF MoveAt, IsMove
<1>5. ASSUME NEW p \in 1 .. Len(L)
      PROVE  /\ L[p].index = p
             /\ L[p].topic = "authorization" => \E i, j : IsAuth(b, i, j) /\ p = AuthAt(b, i, j)
             /\ L[p].topic = "transfer" /\ L[p].address # NativeLedger => \E i, j : IsMove(b, i, j) /\ p = MoveAt(b, i, j)
  <2>1. PICK i \in DOMAIN truth[b] : \E k \in 1 .. Len(T(i)) : p = LogsBefore(b, i) + k
    BY <1>2
  <2>2. PICK k \in 1 .. Len(T(i)) : p = LogsBefore(b, i) + k
    BY <2>1
  <2>3. L[p] = Parsed(b, i, T(i)[k], p)
    BY <1>2, <2>2
  <2>4. L[p].index = p /\ L[p].topic = T(i)[k].topic /\ L[p].address = T(i)[k].address
    BY <2>3 DEF Parsed
  <2>5. /\ T(i)[k].topic = "authorization" => truth[b][i].ok /\ \E j \in Authorizing(truth[b][i].deeds) : k = AuthIn(truth[b][i], j)
        /\ T(i)[k].topic = "transfer" /\ T(i)[k].address # NativeLedger =>
             truth[b][i].ok /\ \E j \in Moving(truth[b][i].deeds) : k = MoveIn(truth[b][i], j)
    BY <1>1, LogsOfATx DEF T
  <2>6. ASSUME L[p].topic = "authorization" PROVE \E h, j : IsAuth(b, h, j) /\ p = AuthAt(b, h, j)
    <3>1. PICK j \in Authorizing(truth[b][i].deeds) : k = AuthIn(truth[b][i], j)
      BY <2>4, <2>5, <2>6
    <3>2. IsAuth(b, i, j) /\ p = AuthAt(b, i, j)
      BY <2>2, <2>4, <2>5, <2>6, <3>1 DEF IsAuth, AuthAt
    <3> QED
      BY <3>2
  <2>7. ASSUME L[p].topic = "transfer", L[p].address # NativeLedger PROVE \E h, j : IsMove(b, h, j) /\ p = MoveAt(b, h, j)
    <3>1. PICK j \in Moving(truth[b][i].deeds) : k = MoveIn(truth[b][i], j)
      BY <2>4, <2>5, <2>7
    <3>2. IsMove(b, i, j) /\ p = MoveAt(b, i, j)
      BY <2>2, <2>4, <2>5, <2>7, <3>1 DEF IsMove, MoveAt
    <3> QED
      BY <3>2
  <2> QED
    BY <2>4, <2>6, <2>7
<1> QED
  BY <1>3, <1>4, <1>5 DEF L

\* Of one transaction's deeds, an earlier one's logs come before a later one's.
LEMMA PlacesInOrder ==
    ASSUME truth \in [Asked -> Contents], NEW b \in Asked, NEW i \in DOMAIN truth[b],
           NEW h \in DOMAIN truth[b][i].deeds, NEW j \in DOMAIN truth[b][i].deeds
    PROVE  /\ h \in Nat /\ AuthAt(b, i, h) \in Nat /\ MoveAt(b, i, h) \in Nat /\ AuthAt(b, i, h) <= MoveAt(b, i, h)
           /\ truth[b][i].deeds[h].does = "pay" => AuthAt(b, i, h) < MoveAt(b, i, h)
           /\ h < j => MoveAt(b, i, h) < AuthAt(b, i, j)
<1>1. IsTransaction(truth[b][i]) /\ LogsBefore(b, i) \in Nat
  BY Transactions, LogsOfBlock
<1>2. h \in Nat
  BY <1>1, DeedShape
<1> DEFINE x == AuthIn(truth[b][i], h)
           y == MoveIn(truth[b][i], h)
           z == AuthIn(truth[b][i], j)
           pays == truth[b][i].deeds[h].does = "pay"
           o == LogsBefore(b, i)
<1>3. x \in Nat /\ y \in Nat /\ z \in Nat /\ x <= y /\ (pays => x < y) /\ (h < j => y < z)
  BY <1>1, DeedsInOrder
<1>4. o \in Nat /\ AuthAt(b, i, h) = o + x /\ MoveAt(b, i, h) = o + y /\ AuthAt(b, i, j) = o + z
  BY <1>1 DEF AuthAt, MoveAt
<1> HIDE DEF x, y, z, o
<1>5. (o + x \in Nat) /\ (o + y \in Nat) /\ (o + x <= o + y) /\ (x < y => o + x < o + y) /\ (y < z => o + y < o + z)
  BY <1>3, <1>4
<1> QED
  BY <1>2, <1>3, <1>4, <1>5

\* Which deed moves what deed j was authorized to move, and where it does.
MovedBy(tx) == CHOOSE moved \in [Authorizing(tx.deeds) -> Moving(tx.deeds)] : MovesFor(tx.deeds, moved)
TakenAt(b, i, j) == MoveAt(b, i, MovedBy(truth[b][i])[j])

LEMMA MovedByMoves ==
    ASSUME NEW tx, IsTransaction(tx)
    PROVE  MovesFor(tx.deeds, MovedBy(tx))
BY DEF IsTransaction, MovedBy

\* The transfer an authorization moves comes after it, in its transaction.
LEMMA MoveOfAuth ==
    ASSUME truth \in [Asked -> Contents], NEW b \in Asked, NEW i, NEW j, IsAuth(b, i, j)
    PROVE  LET m == MovedBy(truth[b][i])[j] IN
           /\ IsMove(b, i, m) /\ m >= j
           /\ Deed(b, i, m).token = Deed(b, i, j).token /\ Deed(b, i, m).payer = Deed(b, i, j).payer
           /\ Deed(b, i, m).payee = Deed(b, i, j).payee /\ Deed(b, i, m).amount = Deed(b, i, j).amount
           /\ AuthAt(b, i, j) < TakenAt(b, i, j)
           /\ TakenAt(b, i, j) \in 1 .. Len(BlockLogs(b))
<1> DEFINE tx == truth[b][i]
           m == MovedBy(tx)[j]
<1>1. IsTransaction(tx) /\ i \in DOMAIN truth[b] /\ tx.ok /\ j \in Authorizing(tx.deeds)
  BY Transactions DEF IsAuth
<1>2. MovesFor(tx.deeds, MovedBy(tx))
  BY <1>1, MovedByMoves
<1> HIDE DEF tx
<1>3. /\ m \in Moving(tx.deeds) /\ m >= j /\ SamePurse(tx.deeds[m], tx.deeds[j])
      /\ tx.deeds[m].payee = tx.deeds[j].payee /\ tx.deeds[m].amount = tx.deeds[j].amount
  BY <1>1, <1>2 DEF MovesFor
<1> HIDE DEF m
<1>4. /\ j \in DOMAIN tx.deeds /\ m \in DOMAIN tx.deeds
      /\ tx.deeds[j].does \in {"pay", "authorize"} /\ tx.deeds[m].does # "authorize"
  BY <1>1, <1>3 DEF Authorizing, Moving
<1>5. /\ j \in Nat /\ m \in Nat
      /\ AuthAt(b, i, j) \in Nat /\ AuthAt(b, i, m) \in Nat /\ MoveAt(b, i, j) \in Nat /\ MoveAt(b, i, m) \in Nat
      /\ AuthAt(b, i, j) <= MoveAt(b, i, j) /\ AuthAt(b, i, m) <= MoveAt(b, i, m)
      /\ tx.deeds[j].does = "pay" => AuthAt(b, i, j) < MoveAt(b, i, j)
      /\ j < m => MoveAt(b, i, j) < AuthAt(b, i, m)
  BY <1>1, <1>4, PlacesInOrder DEF tx
<1>6. AuthAt(b, i, j) < MoveAt(b, i, m)
  <2>1. CASE m = j
    BY <1>4, <1>5, <2>1
  <2>2. CASE m # j
    <3>1. j < m
      BY <1>3, <1>5, <2>2
    <3> QED
      BY <1>5, <3>1
  <2> QED
    BY <2>1, <2>2
<1>7. IsMove(b, i, m)
  BY <1>1, <1>3 DEF IsMove, tx
<1>8. MoveAt(b, i, m) \in 1 .. Len(BlockLogs(b))
  BY <1>7, BlockPlaces
<1> QED
  BY <1>3, <1>6, <1>7, <1>8 DEF SamePurse, Deed, TakenAt, m, tx

\* Two authorizations have two places, and two transfers.
LEMMA AuthsApart ==
    ASSUME truth \in [Asked -> Contents], NEW b \in Asked, NEW i, NEW j, IsAuth(b, i, j), NEW g, NEW h, IsAuth(b, g, h)
    PROVE  /\ AuthAt(b, g, h) = AuthAt(b, i, j) => g = i /\ h = j
           /\ TakenAt(b, g, h) = TakenAt(b, i, j) => g = i /\ h = j
<1> DEFINE L == BlockLogs(b)
           m == MovedBy(truth[b][i])[j]
           n == MovedBy(truth[b][g])[h]
<1>1. L[AuthAt(b, i, j)].tx = i /\ L[AuthAt(b, g, h)].tx = g
  <2>1. L[AuthAt(b, i, j)] = Parsed(b, i, Authorized(Deed(b, i, j)), AuthAt(b, i, j))
    BY BlockPlaces
  <2>2. L[AuthAt(b, g, h)] = Parsed(b, g, Authorized(Deed(b, g, h)), AuthAt(b, g, h))
    BY BlockPlaces
  <2> HIDE DEF L
  <2> QED
    BY <2>1, <2>2 DEF Parsed
<1>2. IsMove(b, i, m) /\ IsMove(b, g, n)
  BY MoveOfAuth
<1>3. L[MoveAt(b, i, m)].tx = i /\ L[MoveAt(b, g, n)].tx = g
  <2> HIDE DEF m, n
  <2>1. L[MoveAt(b, i, m)] = Parsed(b, i, Moved(Deed(b, i, m)), MoveAt(b, i, m))
    BY <1>2, BlockPlaces
  <2>2. L[MoveAt(b, g, n)] = Parsed(b, g, Moved(Deed(b, g, n)), MoveAt(b, g, n))
    BY <1>2, BlockPlaces
  <2> HIDE DEF L
  <2> QED
    BY <2>1, <2>2 DEF Parsed
<1>4. IsTransaction(truth[b][i]) /\ i \in DOMAIN truth[b] /\ j \in Authorizing(truth[b][i].deeds)
  BY Transactions DEF IsAuth
<1>5. ASSUME g = i, h # j PROVE AuthAt(b, i, h) # AuthAt(b, i, j) /\ m # n /\ MoveAt(b, i, m) # MoveAt(b, i, n)
  <2>1. h \in Authorizing(truth[b][i].deeds)
    BY <1>5 DEF IsAuth
  <2>2. m # n /\ m \in Moving(truth[b][i].deeds) /\ n \in Moving(truth[b][i].deeds)
    <3>1. MovesFor(truth[b][i].deeds, MovedBy(truth[b][i]))
      BY <1>4, MovedByMoves
    <3> QED
      BY <1>4, <1>5, <2>1, <3>1 DEF MovesFor
  <2> HIDE DEF m, n
  <2>3. j \in DOMAIN truth[b][i].deeds /\ h \in DOMAIN truth[b][i].deeds
        /\ m \in DOMAIN truth[b][i].deeds /\ n \in DOMAIN truth[b][i].deeds
    BY <1>4, <2>1, <2>2 DEF Authorizing, Moving
  <2>4. ASSUME NEW x \in DOMAIN truth[b][i].deeds, NEW y \in DOMAIN truth[b][i].deeds, x # y
        PROVE  AuthAt(b, i, x) # AuthAt(b, i, y) /\ MoveAt(b, i, x) # MoveAt(b, i, y)
    <3>1. /\ x \in Nat /\ AuthAt(b, i, x) \in Nat /\ MoveAt(b, i, x) \in Nat /\ AuthAt(b, i, x) <= MoveAt(b, i, x)
          /\ x < y => MoveAt(b, i, x) < AuthAt(b, i, y)
      BY <1>4, PlacesInOrder
    <3>2. /\ y \in Nat /\ AuthAt(b, i, y) \in Nat /\ MoveAt(b, i, y) \in Nat /\ AuthAt(b, i, y) <= MoveAt(b, i, y)
          /\ y < x => MoveAt(b, i, y) < AuthAt(b, i, x)
      BY <1>4, PlacesInOrder
    <3>3. x < y \/ y < x
      BY <2>4, <3>1, <3>2
    <3> QED
      BY <3>1, <3>2, <3>3
  <2> QED
    BY <1>5, <2>2, <2>3, <2>4
<1> HIDE DEF L
<1>6. AuthAt(b, g, h) = AuthAt(b, i, j) => g = i
  BY <1>1
<1>7. MoveAt(b, g, n) = MoveAt(b, i, m) => g = i
  BY <1>3
<1> HIDE DEF m, n
<1>8. g = i /\ h # j => AuthAt(b, g, h) # AuthAt(b, i, j) /\ MoveAt(b, i, m) # MoveAt(b, g, n)
  BY <1>5
<1> QED
  BY <1>6, <1>7, <1>8 DEF TakenAt, m, n

\* What comes between an authorization and its transfer, and could be taken for
\* it, was moved for an earlier one.
LEMMA OthersWereTaken ==
    ASSUME truth \in [Asked -> Contents], NEW b \in Asked, NEW i, NEW j, IsAuth(b, i, j),
           NEW q \in 1 .. Len(BlockLogs(b)), q < TakenAt(b, i, j),
           Transfers(BlockLogs(b)[AuthAt(b, i, j)], BlockLogs(b)[q])
    PROVE  \E h : IsAuth(b, i, h) /\ AuthAt(b, i, h) < AuthAt(b, i, j) /\ q = TakenAt(b, i, h)
<1> DEFINE L == BlockLogs(b)
           p == AuthAt(b, i, j)
           tx == truth[b][i]
           m == MovedBy(tx)[j]
<1>1. IsTransaction(tx) /\ i \in DOMAIN truth[b] /\ tx.ok /\ j \in Authorizing(tx.deeds) /\ j \in DOMAIN tx.deeds
  BY Transactions DEF IsAuth, Authorizing
<1>2. L[p] = Parsed(b, i, Authorized(tx.deeds[j]), p) /\ p \in 1 .. Len(L) /\ L[p].index = p /\ L[q].index = q
  BY BlockPlaces DEF Deed
<1>3. tx.deeds[j].token # NativeLedger
  BY <1>1, DeedShape
<1> HIDE DEF p, tx, m
<1>4. L[q].topic = "transfer" /\ L[q].address = tx.deeds[j].token /\ L[q].from = tx.deeds[j].payer /\ L[q].tx = i /\ q > p
  <2> HIDE DEF L
  <2>1. Transfers(L[p], L[q])
    BY DEF L, p
  <2>2. L[p].address = tx.deeds[j].token /\ L[p].from = tx.deeds[j].payer /\ L[p].tx = i
    BY <1>2 DEF Parsed, Authorized
  <2> QED
    BY <1>2, <2>1, <2>2 DEF Transfers
<1>5. PICK g, k : IsMove(b, g, k) /\ q = MoveAt(b, g, k)
  BY <1>3, <1>4, BlockPlaces
<1>6. L[q] = Parsed(b, g, Moved(Deed(b, g, k)), q)
  BY <1>5, BlockPlaces
<1> HIDE DEF L
<1>7. g = i /\ Deed(b, g, k).token = tx.deeds[j].token /\ Deed(b, g, k).payer = tx.deeds[j].payer
  BY <1>4, <1>6 DEF Parsed, Moved
<1>8. k \in Moving(tx.deeds) /\ SamePurse(tx.deeds[k], tx.deeds[j]) /\ k \in DOMAIN tx.deeds /\ q = MoveAt(b, i, k)
  BY <1>5, <1>7 DEF IsMove, Deed, tx, SamePurse, Moving
<1>9. MovesFor(tx.deeds, MovedBy(tx))
  BY <1>1, MovedByMoves
<1>10. m \in Moving(tx.deeds) /\ m \in DOMAIN tx.deeds /\ TakenAt(b, i, j) = MoveAt(b, i, m)
  BY <1>1, <1>9 DEF MovesFor, Moving, TakenAt, m, tx
<1>11. j <= k
  <2>1. k \in Nat /\ MoveAt(b, i, k) \in Nat /\ (k < j => MoveAt(b, i, k) < AuthAt(b, i, j))
    BY <1>1, <1>8, PlacesInOrder DEF tx
  <2>2. j \in Nat /\ AuthAt(b, i, j) \in Nat
    BY <1>1, PlacesInOrder DEF tx
  <2> QED
    BY <1>4, <1>8, <2>1, <2>2 DEF p
<1>12. k < m
  <2>1. k \in Nat /\ MoveAt(b, i, k) \in Nat /\ AuthAt(b, i, k) \in Nat /\ AuthAt(b, i, k) <= MoveAt(b, i, k)
    BY <1>1, <1>8, PlacesInOrder DEF tx
  <2>2. m \in Nat /\ MoveAt(b, i, m) \in Nat /\ (m < k => MoveAt(b, i, m) < AuthAt(b, i, k))
    BY <1>1, <1>8, <1>10, PlacesInOrder DEF tx
  <2>3. MoveAt(b, i, k) < MoveAt(b, i, m)
    BY <1>8, <1>10
  <2> QED
    BY <2>1, <2>2, <2>3
<1>13. PICK h \in Authorizing(tx.deeds) : h < j /\ MovedBy(tx)[h] = k
  BY <1>1, <1>8, <1>9, <1>11, <1>12 DEF MovesFor, m
<1>14. AuthAt(b, i, h) < AuthAt(b, i, j)
  <2>1. h \in DOMAIN tx.deeds
    BY DEF Authorizing
  <2>2. AuthAt(b, i, h) \in Nat /\ MoveAt(b, i, h) \in Nat /\ AuthAt(b, i, h) <= MoveAt(b, i, h)
        /\ MoveAt(b, i, h) < AuthAt(b, i, j)
    BY <1>1, <1>13, <2>1, PlacesInOrder DEF tx
  <2>3. AuthAt(b, i, j) \in Nat
    BY <1>1, PlacesInOrder DEF tx
  <2> QED
    BY <2>2, <2>3
<1>15. IsAuth(b, i, h) /\ q = TakenAt(b, i, h)
  BY <1>1, <1>8, <1>13 DEF IsAuth, TakenAt, tx
<1> QED
  BY <1>14, <1>15

\* What is found for the authorization of deed j.
Found(b, i, j) ==
    [block |-> b, logIndex |-> AuthAt(b, i, j), tx |-> i, token |-> Deed(b, i, j).token, payer |-> Deed(b, i, j).payer,
     payee |-> Deed(b, i, j).payee, amount |-> Deed(b, i, j).amount, nonce |-> Deed(b, i, j).nonce,
     relayer |-> Absent, called |-> Absent]

\* What the logs up to place n give.
PaidUpTo(b, n) == {x \in (DOMAIN truth[b]) \X Nat : IsAuth(b, x[1], x[2]) /\ AuthAt(b, x[1], x[2]) <= n}
PairedUpTo(b, n) ==
    [taken |-> {TakenAt(b, x[1], x[2]) : x \in PaidUpTo(b, n)},
     found |-> {Found(b, x[1], x[2]) : x \in PaidUpTo(b, n)}]

LEMMA PairParts ==
    ASSUME NEW A, NEW B
    PROVE  /\ \A x \in A \X B : x = <<x[1], x[2]>> /\ x[1] \in A /\ x[2] \in B
           /\ \A x, y : <<x, y>> \in A \X B <=> x \in A /\ y \in B
OBVIOUS

LEMMA PaidUpToIs ==
    ASSUME truth \in [Asked -> Contents], NEW b \in Asked, NEW n, NEW i, NEW j
    PROVE  <<i, j>> \in PaidUpTo(b, n) <=> IsAuth(b, i, j) /\ AuthAt(b, i, j) <= n
<1>1. IsAuth(b, i, j) => i \in DOMAIN truth[b] /\ j \in Nat
  <2> SUFFICES ASSUME IsAuth(b, i, j) PROVE i \in DOMAIN truth[b] /\ j \in Nat
    OBVIOUS
  <2>1. i \in DOMAIN truth[b] /\ j \in DOMAIN truth[b][i].deeds
    BY DEF IsAuth, Authorizing
  <2> QED
    BY <2>1, PlacesInOrder
<1> DEFINE x == <<i, j>>
<1>2. x[1] = i /\ x[2] = j
  OBVIOUS
<1>3. x \in (DOMAIN truth[b]) \X Nat <=> i \in DOMAIN truth[b] /\ j \in Nat
  BY PairParts
<1> HIDE DEF x
<1>4. x \in PaidUpTo(b, n) <=> IsAuth(b, i, j) /\ AuthAt(b, i, j) <= n
  BY <1>1, <1>2, <1>3 DEF PaidUpTo
<1> QED
  BY <1>4 DEF x

\* One log more: an authorization finds its own transfer first.
LEMMA TakeOne ==
    ASSUME truth \in [Asked -> Contents], NEW b \in Asked, NEW p \in 1 .. Len(BlockLogs(b))
    PROVE  Take(PairedUpTo(b, p - 1), BlockLogs(b), BlockLogs(b)[p]) = PairedUpTo(b, p)
<1> DEFINE L == BlockLogs(b)
           acc == PairedUpTo(b, p - 1)
           a == L[p]
           free == {k \in DOMAIN L : Transfers(a, L[k])} \ acc.taken
<1>0. Len(L) \in Nat /\ DOMAIN L = 1 .. Len(L) /\ p \in Nat /\ a.index = p
  <2>1. L \in Seq(ToSet(L))
    BY LogsOfBlock
  <2>2. a.index = p
    BY BlockPlaces
  <2> HIDE DEF L
  <2> QED
    BY <2>1, <2>2
<1>1. \A i, j : IsAuth(b, i, j) => AuthAt(b, i, j) \in Nat /\ (AuthAt(b, i, j) <= p <=> AuthAt(b, i, j) <= p - 1 \/ AuthAt(b, i, j) = p)
  <2> TAKE i, j
  <2> SUFFICES ASSUME IsAuth(b, i, j) PROVE AuthAt(b, i, j) \in Nat
    BY <1>0
  <2>1. i \in DOMAIN truth[b] /\ j \in DOMAIN truth[b][i].deeds
    BY DEF IsAuth, Authorizing
  <2> QED
    BY <2>1, PlacesInOrder
<1>2. CASE a.topic # "authorization"
  <2>1. \A i, j : IsAuth(b, i, j) => AuthAt(b, i, j) # p
    <3> SUFFICES ASSUME NEW i, NEW j, IsAuth(b, i, j), AuthAt(b, i, j) = p PROVE FALSE
      OBVIOUS
    <3>1. L[p] = Parsed(b, i, Authorized(Deed(b, i, j)), p)
      BY BlockPlaces
    <3> HIDE DEF L
    <3> QED
      BY <1>2, <3>1 DEF Parsed, Authorized
  <2>2. PaidUpTo(b, p) = PaidUpTo(b, p - 1)
    BY <1>1, <2>1 DEF PaidUpTo
  <2>3. Take(acc, L, a) = acc
    BY <1>2 DEF Take
  <2> QED
    BY <2>2, <2>3 DEF PairedUpTo
<1>3. CASE a.topic = "authorization"
  <2>1. PICK i, j : IsAuth(b, i, j) /\ p = AuthAt(b, i, j)
    BY <1>3, BlockPlaces
  <2> DEFINE t == TakenAt(b, i, j)
             m == MovedBy(truth[b][i])[j]
             d == Deed(b, i, j)
  <2>2. a = Parsed(b, i, Authorized(d), p)
    BY <2>1, BlockPlaces
  <2>3. /\ IsMove(b, i, m) /\ p < t /\ t \in 1 .. Len(L) /\ t = MoveAt(b, i, m)
        /\ Deed(b, i, m).token = d.token /\ Deed(b, i, m).payer = d.payer
        /\ Deed(b, i, m).payee = d.payee /\ Deed(b, i, m).amount = d.amount
    BY <2>1, MoveOfAuth DEF TakenAt
  <2>4. L[t] = Parsed(b, i, Moved(Deed(b, i, m)), t) /\ L[t].index = t
    BY <2>3, BlockPlaces
  <2> HIDE DEF t, m, d, L
  <2>5. Transfers(a, L[t]) /\ L[t].to = d.payee /\ L[t].value = d.amount
    <3>1. L[t].tx = i /\ L[t].topic = "transfer" /\ L[t].address = d.token /\ L[t].from = d.payer
          /\ L[t].to = d.payee /\ L[t].value = d.amount
      BY <2>3, <2>4 DEF Parsed, Moved
    <3>2. a.tx = i /\ a.address = d.token /\ a.from = d.payer /\ a.to = d.nonce /\ a.block = b
      BY <2>2 DEF Parsed, Authorized
    <3> HIDE DEF a
    <3> QED
      BY <1>0, <2>3, <2>4, <3>1, <3>2 DEF Transfers
  <2>6. \A x \in PaidUpTo(b, p - 1) : IsAuth(b, x[1], x[2]) /\ AuthAt(b, x[1], x[2]) # p
    BY <1>0, <1>1 DEF PaidUpTo
  <2>7. t \notin acc.taken
    <3> SUFFICES ASSUME NEW x \in PaidUpTo(b, p - 1), t = TakenAt(b, x[1], x[2]) PROVE FALSE
      BY DEF PairedUpTo
    <3> DEFINE g == x[1]
               h == x[2]
    <3>1. IsAuth(b, g, h) /\ AuthAt(b, g, h) # p
      BY <2>6
    <3> HIDE DEF g, h
    <3>2. TakenAt(b, g, h) = TakenAt(b, i, j)
      BY DEF g, h, t
    <3>3. g = i /\ h = j
      BY <2>1, <3>1, <3>2, AuthsApart
    <3> QED
      BY <2>1, <3>1, <3>3
  <2>8. t \in free
    BY <1>0, <2>3, <2>5, <2>7
  <2>9. \A q \in free : t <= q
    <3> SUFFICES ASSUME NEW q \in DOMAIN L, Transfers(a, L[q]), q \notin acc.taken, q < t PROVE FALSE
      BY <1>0, <2>3
    <3>1. Transfers(L[AuthAt(b, i, j)], L[q])
      BY <2>1
    <3>2. \E h : IsAuth(b, i, h) /\ AuthAt(b, i, h) < AuthAt(b, i, j) /\ q = TakenAt(b, i, h)
      BY <1>0, <2>1, <3>1, OthersWereTaken DEF L, t
    <3>3. PICK h : IsAuth(b, i, h) /\ AuthAt(b, i, h) < p /\ q = TakenAt(b, i, h)
      BY <2>1, <3>2
    <3>4. AuthAt(b, i, h) <= p - 1
      BY <1>0, <1>1, <3>3
    <3>5. <<i, h>> \in PaidUpTo(b, p - 1)
      BY <3>3, <3>4, PaidUpToIs
    <3>6. q \in acc.taken
      <4> DEFINE x == <<i, h>>
      <4>1. x \in PaidUpTo(b, p - 1) /\ q = TakenAt(b, x[1], x[2])
        BY <3>3, <3>5
      <4> HIDE DEF x
      <4> QED
        BY <4>1 DEF PairedUpTo
    <3> QED
      BY <3>6
  <2>10. Min(free) = t
    <3>1. free \subseteq Nat
      BY <1>0
    <3> HIDE DEF free
    <3>2. Min(free) \in free /\ \A q \in free : Min(free) <= q
      BY <2>8, <2>9 DEF Min
    <3>3. Min(free) <= t /\ t <= Min(free)
      BY <2>8, <2>9, <3>2
    <3>4. Min(free) \in Nat /\ t \in Nat
      BY <2>8, <3>1, <3>2
    <3> QED
      BY <3>3, <3>4
  <2>11. PaidUpTo(b, p) = PaidUpTo(b, p - 1) \cup {<<i, j>>}
    <3>1. ASSUME NEW x \in PaidUpTo(b, p) PROVE x \in PaidUpTo(b, p - 1) \/ x = <<i, j>>
      <4>1. x \in (DOMAIN truth[b]) \X Nat /\ IsAuth(b, x[1], x[2]) /\ AuthAt(b, x[1], x[2]) <= p
        BY <3>1 DEF PaidUpTo
      <4>2. x = <<x[1], x[2]>>
        BY <4>1, PairParts
      <4>3. CASE AuthAt(b, x[1], x[2]) = p
        <5> DEFINE g == x[1]
                   h == x[2]
        <5>1. IsAuth(b, g, h) /\ AuthAt(b, g, h) = AuthAt(b, i, j) /\ x = <<g, h>>
          BY <2>1, <4>1, <4>2, <4>3
        <5> HIDE DEF g, h
        <5>2. g = i /\ h = j
          BY <2>1, <5>1, AuthsApart
        <5> QED
          BY <5>1, <5>2
      <4>4. CASE AuthAt(b, x[1], x[2]) <= p - 1
        BY <4>1, <4>4 DEF PaidUpTo
      <4> QED
        BY <1>1, <4>1, <4>3, <4>4
    <3>2. ASSUME NEW x \in PaidUpTo(b, p - 1) PROVE x \in PaidUpTo(b, p)
      BY <1>1 DEF PaidUpTo
    <3>3. <<i, j>> \in PaidUpTo(b, p)
      <4>1. AuthAt(b, i, j) <= p
        BY <1>0, <2>1
      <4> QED
        BY <2>1, <4>1, PaidUpToIs
    <3> QED
      BY <3>1, <3>2, <3>3
  <2>12. Take(acc, L, a) =
           [taken |-> acc.taken \cup {t}, found |-> acc.found \cup {Found(b, i, j)}]
    <3>1. a.topic = "authorization" /\ free # {}
      BY <1>3, <2>8
    <3>2. Found(b, i, j) =
            [block |-> a.block, logIndex |-> a.index, tx |-> a.tx, token |-> a.address, payer |-> a.from,
             payee |-> L[t].to, amount |-> L[t].value, nonce |-> a.to, relayer |-> Absent, called |-> Absent]
      <4>1. a.tx = i /\ a.address = d.token /\ a.from = d.payer /\ a.to = d.nonce /\ a.block = b /\ a.index = AuthAt(b, i, j)
        BY <2>1, <2>2 DEF Parsed, Authorized
      <4> HIDE DEF a
      <4> QED
        BY <2>5, <4>1 DEF Found, d
    <3> HIDE DEF a, acc
    <3> QED
      BY <2>10, <3>1, <3>2 DEF Take
  <2>13. /\ {TakenAt(b, x[1], x[2]) : x \in PaidUpTo(b, p)} = acc.taken \cup {t}
         /\ {Found(b, x[1], x[2]) : x \in PaidUpTo(b, p)} = acc.found \cup {Found(b, i, j)}
    <3> DEFINE z == <<i, j>>
    <3>1. PaidUpTo(b, p) = PaidUpTo(b, p - 1) \cup {z} /\ t = TakenAt(b, z[1], z[2]) /\ Found(b, i, j) = Found(b, z[1], z[2])
      BY <2>11 DEF t
    <3>2. acc.taken = {TakenAt(b, x[1], x[2]) : x \in PaidUpTo(b, p - 1)} /\ acc.found = {Found(b, x[1], x[2]) : x \in PaidUpTo(b, p - 1)}
      BY DEF PairedUpTo
    <3> HIDE DEF z, acc
    <3> QED
      BY <3>1, <3>2
  <2> QED
    BY <2>12, <2>13 DEF PairedUpTo, L
<1> QED
  BY <1>2, <1>3

\* The payments of a block's logs.
LEMMA PairsAreFound ==
    ASSUME truth \in [Asked -> Contents], NEW b \in Asked
    PROVE  PairAuthorizations(BlockLogs(b)) = {Found(b, x[1], x[2]) : x \in PaidUpTo(b, Len(BlockLogs(b)))}
<1> DEFINE L == BlockLogs(b)
           N == Len(L)
           none == [taken |-> {}, found |-> {}]
           Pairs(g) == g = [k \in 0 .. N |-> IF k = 0 THEN none ELSE Take(g[k - 1], L, L[k])]
           w == [k \in 0 .. N |-> PairedUpTo(b, k)]
           after == CHOOSE g : Pairs(g)
<1>1. N \in Nat
  BY LogsOfBlock
<1>2. PairedUpTo(b, 0) = none
  <2>1. PaidUpTo(b, 0) = {}
    <3> SUFFICES ASSUME NEW x \in (DOMAIN truth[b]) \X Nat, IsAuth(b, x[1], x[2]), AuthAt(b, x[1], x[2]) <= 0 PROVE FALSE
      BY DEF PaidUpTo
    <3>1. AuthAt(b, x[1], x[2]) \in 1 .. N
      BY BlockPlaces
    <3> QED
      BY <1>1, <3>1
  <2> QED
    BY <2>1 DEF PairedUpTo
<1>3. \A k \in 1 .. N : Take(PairedUpTo(b, k - 1), L, L[k]) = PairedUpTo(b, k)
  BY TakeOne
<1> HIDE DEF L, N, none
<1>4. Pairs(w)
  <2>1. ASSUME NEW k \in 0 .. N PROVE w[k] = IF k = 0 THEN none ELSE Take(w[k - 1], L, L[k])
    <3>1. CASE k = 0
      BY <1>2, <3>1
    <3>2. CASE k # 0
      <4>1. k - 1 \in 0 .. N /\ k \in 1 .. N
        BY <1>1, <3>2
      <4>2. w[k - 1] = PairedUpTo(b, k - 1) /\ w[k] = PairedUpTo(b, k)
        BY <4>1
      <4> HIDE DEF w
      <4> QED
        BY <1>3, <3>2, <4>1, <4>2
    <3> QED
      BY <3>1, <3>2
  <2>2. w = [k \in 0 .. N |-> w[k]]
    OBVIOUS
  <2> HIDE DEF w
  <2> QED
    BY <2>1, <2>2
<1>5. Pairs(after)
  <2> HIDE DEF w, Pairs
  <2> QED
    BY <1>4
<1> HIDE DEF after
<1>6. \A k \in 0 .. N : after[k] = PairedUpTo(b, k)
  <2> DEFINE S == {k \in Nat : after[k] = PairedUpTo(b, k)}
  <2>1. 0 \in S
    BY <1>1, <1>2, <1>5
  <2>2. ASSUME NEW k \in 0 .. N, k \in S /\ k < N PROVE k + 1 \in S
    <3>1. k + 1 \in 0 .. N /\ k + 1 # 0 /\ (k + 1) - 1 = k /\ k + 1 \in 1 .. N /\ k + 1 \in Nat
      BY <1>1, <2>2
    <3>2. after[k + 1] = IF k + 1 = 0 THEN none ELSE Take(after[(k + 1) - 1], L, L[k + 1])
      BY <1>5, <3>1
    <3>3. after[k + 1] = Take(PairedUpTo(b, k), L, L[k + 1])
      BY <2>2, <3>1, <3>2
    <3>4. Take(PairedUpTo(b, (k + 1) - 1), L, L[k + 1]) = PairedUpTo(b, k + 1)
      BY <1>3, <3>1
    <3> QED
      BY <3>1, <3>3, <3>4
  <2> HIDE DEF S
  <2>3. 0 .. N \subseteq S
    BY <1>1, <2>1, <2>2, CountingTo
  <2> QED
    BY <2>3 DEF S
<1>7. PairAuthorizations(L) = after[N].found
  BY DEF PairAuthorizations, after, Pairs, none, N
<1>8. N \in 0 .. N
  BY <1>1
<1>9. PairAuthorizations(L) = PairedUpTo(b, N).found
  BY <1>6, <1>7, <1>8
<1> QED
  BY <1>9 DEF PairedUpTo, L, N
-----------------------------------------------------------------------------
(* The answers that are kept. *)

\* A served block and its receipts, item by item.
LEMMA ServedItems ==
    ASSUME truth \in [Asked -> Contents], NEW b \in Asked
    PROVE  LET txs == ServedBlock(b).txs
               list == ServedReceipts(b).list
               n == Len(truth[b])
           IN /\ n \in Nat /\ b \in Nat \ {0}
              /\ DOMAIN txs = 1 .. n /\ Len(txs) = n /\ txs = [i \in 1 .. n |-> ServedTx(b, i)]
              /\ DOMAIN list = 1 .. n /\ Len(list) = n /\ list = [i \in 1 .. n |-> ServedReceipt(b, i)]
              /\ \A i \in 1 .. n : txs[i] = ServedTx(b, i) /\ list[i] = ServedReceipt(b, i)
              /\ ServedBlock(b).number = b /\ ServedBlock(b).hash = b
<1>1. Len(truth[b]) \in Nat /\ b \in Nat \ {0} /\ DOMAIN truth[b] = 1 .. Len(truth[b])
  BY Transactions
<1> DEFINE n == Len(truth[b])
<1> HIDE DEF n
<1>2. n \in Nat /\ DOMAIN truth[b] = 1 .. n
  BY <1>1 DEF n
<1>3. ServedBlock(b).txs = [i \in 1 .. n |-> ServedTx(b, i)] /\ ServedBlock(b).number = b /\ ServedBlock(b).hash = b
  BY <1>2 DEF ServedBlock
<1>4. ServedReceipts(b).list = [i \in 1 .. n |-> ServedReceipt(b, i)]
  BY <1>2 DEF ServedReceipts
<1> QED
  BY <1>1, <1>2, <1>3, <1>4 DEF n

LEMMA ServedFields ==
    ASSUME NEW b, NEW i
    PROVE  /\ ServedTx(b, i).hash = <<b, i>> /\ ServedTx(b, i).blockHash = b /\ ServedTx(b, i).index = i
           /\ ServedReceipt(b, i).txHash = <<b, i>> /\ ServedReceipt(b, i).blockHash = b
BY DEF ServedTx, ServedReceipt

\* A sequence turned round whose items are where they say is the sequence.
LEMMA TurnedRound ==
    ASSUME NEW n \in Nat, NEW s, s = [i \in 1 .. n |-> s[i]], Len(s) = n, NEW place,
           \A i \in 1 .. n : place[s[i]] = i,
           \A i \in 1 .. n : place[Reverse(s)[i]] = i
    PROVE  Reverse(s) = s
<1>1. Reverse(s) = [i \in 1 .. n |-> s[(n - i) + 1]]
  BY DEF Reverse
<1>2. \A i \in 1 .. n : s[(n - i) + 1] = s[i]
  <2> TAKE i \in 1 .. n
  <2>1. (n - i) + 1 \in 1 .. n
    OBVIOUS
  <2>2. place[s[(n - i) + 1]] = i /\ place[s[(n - i) + 1]] = (n - i) + 1
    BY <1>1, <2>1
  <2>3. (n - i) + 1 = i
    BY <2>2
  <2> QED
    BY <2>3
<1> QED
  BY <1>1, <1>2

\* Of what an endpoint may answer for the block, only the block is kept.
LEMMA OnlyItsBlock ==
    ASSUME truth \in [Asked -> Contents], NEW n \in Asked, NEW block \in BlockAnswers(n), NEW receipts,
           FetchOutcome(n, block, receipts) = "ok"
    PROVE  block.number = n /\ block.hash = n /\ block.txs = ServedBlock(n).txs
<1> DEFINE right == ServedBlock(n)
           N == Len(truth[n])
<1>1. block.is # "error" /\ block.is # Absent /\ Matches(block, receipts.list) /\ block.number = n
  BY DEF FetchOutcome
<1>2. /\ N \in Nat /\ n # 0 /\ DOMAIN right.txs = 1 .. N /\ Len(right.txs) = N
      /\ right.txs = [i \in 1 .. N |-> ServedTx(n, i)]
      /\ right.number = n /\ right.hash = n
  BY ServedItems
<1>3. DOMAIN right = {"is", "number", "hash", "baseFee", "objects", "txs"}
  BY DEF ServedBlock
<1>4. block.baseFee # Absent /\ \A i \in DOMAIN block.txs : block.txs[i].blockHash = block.hash /\ block.txs[i].index = i
  BY <1>1 DEF Matches
<1> DEFINE cut == [i \in DOMAIN right.txs |-> [right.txs[i] EXCEPT !.blockHash = 0]]
           turned == Reverse(right.txs)
<1>5. \/ \E c \in Asked : block = ServedBlock(c)
      \/ \E k \in {Absent, "error"} : block = [right EXCEPT !.is = k]
      \/ block = [right EXCEPT !.baseFee = Absent]
      \/ block = [right EXCEPT !.objects = FALSE]
      \/ block = [right EXCEPT !.txs = turned]
      \/ block = [right EXCEPT !.txs = cut]
  BY DEF BlockAnswers
<1>6. CASE \E c \in Asked : block = ServedBlock(c)
  <2>1. PICK c \in Asked : block = ServedBlock(c)
    BY <1>6
  <2>2. c = n
    BY <1>1, <2>1, ServedItems
  <2> QED
    BY <1>2, <2>1, <2>2
<1>7. CASE \E k \in {Absent, "error"} : block = [right EXCEPT !.is = k]
  <2> HIDE DEF right
  <2> QED
    BY <1>1, <1>3, <1>7
<1>8. CASE block = [right EXCEPT !.baseFee = Absent]
  <2> HIDE DEF right
  <2> QED
    BY <1>3, <1>4, <1>8
<1>9. CASE block = [right EXCEPT !.objects = FALSE]
  <2> HIDE DEF right
  <2> QED
    BY <1>2, <1>3, <1>9 DEF right
<1>10. CASE block = [right EXCEPT !.txs = turned]
  <2> HIDE DEF right, turned, cut, N
  <2>1. block.txs = turned /\ block.number = n /\ block.hash = n
    BY <1>2, <1>3, <1>10
  <2> DEFINE s == right.txs
             place == [t \in {s[i] : i \in 1 .. N} |-> t.index]
  <2>2. s = [i \in 1 .. N |-> s[i]] /\ Len(s) = N
    BY <1>2
  <2>3. \A i \in 1 .. N : s[i].index = i
    BY <1>2, ServedFields
  <2>4. turned = [i \in 1 .. N |-> s[(N - i) + 1]] /\ DOMAIN turned = 1 .. N
    BY <2>2 DEF Reverse, turned
  <2>5. \A i \in 1 .. N : turned[i] \in {s[k] : k \in 1 .. N} /\ turned[i].index = i
    <3> TAKE i \in 1 .. N
    <3>1. (N - i) + 1 \in 1 .. N
      BY <1>2
    <3> QED
      BY <1>4, <2>1, <2>4, <3>1
  <2>6. (\A i \in 1 .. N : place[s[i]] = i) /\ (\A i \in 1 .. N : place[turned[i]] = i)
    BY <2>3, <2>5
  <2> HIDE DEF s, place
  <2>7. Reverse(s) = s
    BY <1>2, <2>2, <2>6, TurnedRound DEF turned, s
  <2> QED
    BY <1>2, <2>1, <2>7 DEF s, turned, right
<1>11. CASE block = [right EXCEPT !.txs = cut]
  <2> HIDE DEF right, cut, turned, N
  <2>1. block.txs = cut /\ block.number = n /\ block.hash = n
    BY <1>2, <1>3, <1>11
  <2>2. \A i \in 1 .. N : cut[i] = [ServedTx(n, i) EXCEPT !.blockHash = 0]
    BY <1>2 DEF cut
  <2>3. \A i \in 1 .. N : [ServedTx(n, i) EXCEPT !.blockHash = 0].blockHash = 0
    BY DEF ServedTx
  <2>4. DOMAIN cut = 1 .. N
    BY <1>2 DEF cut
  <2>5. 1 .. N = {}
    <3> SUFFICES ASSUME NEW i \in 1 .. N PROVE FALSE
      OBVIOUS
    <3>1. cut[i].blockHash = 0
      BY <2>2, <2>3
    <3>2. cut[i].blockHash = n
      BY <1>4, <2>1, <2>4
    <3> QED
      BY <1>2, <3>1, <3>2
  <2>6. cut = right.txs
    BY <1>2, <2>4, <2>5 DEF cut
  <2> QED
    BY <2>1, <2>6 DEF right
<1> QED
  BY <1>5, <1>6, <1>7, <1>8, <1>9, <1>10, <1>11

\* And of what it may answer for the receipts, only the block's.
LEMMA OnlyItsReceipts ==
    ASSUME truth \in [Asked -> Contents], NEW n \in Asked, NEW block \in BlockAnswers(n), NEW receipts \in ReceiptAnswers(n),
           FetchOutcome(n, block, receipts) = "ok"
    PROVE  receipts.list = ServedReceipts(n).list
<1> DEFINE right == ServedReceipts(n)
           N == Len(truth[n])
           list == receipts.list
           cut == [i \in DOMAIN right.list |-> [right.list[i] EXCEPT !.blockHash = 0]]
           turned == Reverse(right.list)
<1>1. receipts.is # "error" /\ receipts.is # Absent /\ Matches(block, list)
  BY DEF FetchOutcome
<1>2. /\ N \in Nat /\ n # 0 /\ DOMAIN right.list = 1 .. N /\ Len(right.list) = N
      /\ right.list = [i \in 1 .. N |-> ServedReceipt(n, i)]
  BY ServedItems
<1>3. DOMAIN right = {"is", "list"}
  BY DEF ServedReceipts
<1>4. block.hash = n /\ DOMAIN block.txs = 1 .. N /\ Len(block.txs) = N /\ \A i \in 1 .. N : block.txs[i] = ServedTx(n, i)
  <2>1. block.hash = n /\ block.txs = ServedBlock(n).txs
    BY OnlyItsBlock
  <2> DEFINE txs == ServedBlock(n).txs
  <2>2. DOMAIN txs = 1 .. N /\ Len(txs) = N /\ \A i \in 1 .. N : txs[i] = ServedTx(n, i)
    BY ServedItems
  <2> HIDE DEF right, N, list, cut, turned
  <2> QED
    BY <2>1, <2>2
<1>5. Len(list) = N /\ \A i \in 1 .. N : list[i].txHash = <<n, i>> /\ list[i].blockHash = n
  <2>1. Len(list) = Len(block.txs)
        /\ \A i \in DOMAIN block.txs : list[i].txHash = block.txs[i].hash /\ list[i].blockHash = block.hash
    BY <1>1 DEF Matches
  <2>2. \A i \in 1 .. N : block.txs[i].hash = <<n, i>>
    BY <1>4, ServedFields
  <2> HIDE DEF list, N
  <2> QED
    BY <1>4, <2>1, <2>2
<1>6. \/ \E c \in Asked : receipts = ServedReceipts(c)
      \/ \E k \in {Absent, "error"} : receipts = [right EXCEPT !.is = k]
      \/ receipts = [right EXCEPT !.list = <<>>]
      \/ receipts = [right EXCEPT !.list = turned]
      \/ receipts = [right EXCEPT !.list = cut]
  BY DEF ReceiptAnswers
<1>7. CASE \E c \in Asked : receipts = ServedReceipts(c)
  <2>1. PICK c \in Asked : receipts = ServedReceipts(c)
    BY <1>7
  <2>2. /\ Len(list) = Len(truth[c])
        /\ list = [i \in 1 .. Len(truth[c]) |-> ServedReceipt(c, i)]
        /\ \A i \in 1 .. Len(truth[c]) : list[i] = ServedReceipt(c, i)
    BY <2>1, ServedItems
  <2>3. CASE N = 0
    <3> DEFINE M == Len(truth[c])
    <3> HIDE DEF list, right, N, M
    <3>1. 1 .. N = {} /\ M = N
      <4>1. Len(list) = N /\ Len(list) = M
        BY <1>5, <2>2 DEF M
      <4>2. 1 .. N = {}
        BY <2>3
      <4> QED
        BY <4>1, <4>2
    <3>2. list = [i \in 1 .. N |-> ServedReceipt(c, i)]
      BY <2>2, <3>1 DEF M
    <3> QED
      BY <1>2, <3>1, <3>2 DEF list, right
  <2>4. CASE N # 0
    <3>1. 1 \in 1 .. N
      BY <1>2, <2>4
    <3>2. list[1] = ServedReceipt(c, 1)
      BY <1>5, <2>2, <3>1
    <3>3. ServedReceipt(c, 1).blockHash = c
      BY ServedFields
    <3>4. c = n
      BY <1>5, <3>1, <3>2, <3>3
    <3> QED
      BY <2>1, <3>4
  <2> QED
    BY <2>3, <2>4
<1>8. CASE \E k \in {Absent, "error"} : receipts = [right EXCEPT !.is = k]
  <2> HIDE DEF right
  <2> QED
    BY <1>1, <1>3, <1>8
<1>9. CASE receipts = [right EXCEPT !.list = <<>>]
  <2> HIDE DEF right
  <2>1. list = <<>>
    BY <1>3, <1>9
  <2>2. N = 0
    <3>1. Len(<<>>) = 0
      OBVIOUS
    <3> HIDE DEF list, N
    <3> QED
      BY <1>5, <2>1, <3>1
  <2>3. right.list = <<>>
    <3>1. 1 .. N = {}
      BY <2>2
    <3> HIDE DEF N, list
    <3>2. right.list = [i \in {} |-> ServedReceipt(n, i)]
      BY <1>2, <3>1
    <3> QED
      BY <3>2
  <2> QED
    BY <2>1, <2>3 DEF right
<1>10. CASE receipts = [right EXCEPT !.list = turned]
  <2> HIDE DEF right, turned, cut, N
  <2>1. list = turned
    BY <1>3, <1>10
  <2> HIDE DEF list
  <2> DEFINE s == right.list
             place == [t \in {s[i] : i \in 1 .. N} |-> t.txHash[2]]
  <2>2. s = [i \in 1 .. N |-> s[i]] /\ Len(s) = N
    BY <1>2
  <2>3. \A i \in 1 .. N : s[i].txHash[2] = i
    <3> TAKE i \in 1 .. N
    <3>1. s[i].txHash = <<n, i>>
      BY <1>2, ServedFields
    <3> QED
      BY <3>1
  <2>4. turned = [i \in 1 .. N |-> s[(N - i) + 1]] /\ DOMAIN turned = 1 .. N
    BY <2>2 DEF Reverse, turned
  <2>5. \A i \in 1 .. N : turned[i] \in {s[k] : k \in 1 .. N} /\ turned[i].txHash[2] = i
    <3> TAKE i \in 1 .. N
    <3>1. (N - i) + 1 \in 1 .. N
      BY <1>2
    <3>2. turned[i].txHash = <<n, i>>
      BY <1>5, <2>1
    <3> QED
      BY <2>4, <3>1, <3>2
  <2>6. (\A i \in 1 .. N : place[s[i]] = i) /\ (\A i \in 1 .. N : place[turned[i]] = i)
    BY <2>3, <2>5
  <2> HIDE DEF s, place
  <2>7. Reverse(s) = s
    BY <1>2, <2>2, <2>6, TurnedRound DEF turned, s
  <2> QED
    BY <2>1, <2>7 DEF s, turned, right, list
<1>11. CASE receipts = [right EXCEPT !.list = cut]
  <2> HIDE DEF right, cut, turned, N
  <2>1. list = cut
    BY <1>3, <1>11
  <2> HIDE DEF list
  <2>2. \A i \in 1 .. N : cut[i] = [ServedReceipt(n, i) EXCEPT !.blockHash = 0]
    BY <1>2 DEF cut
  <2>3. \A i \in 1 .. N : [ServedReceipt(n, i) EXCEPT !.blockHash = 0].blockHash = 0
    BY DEF ServedReceipt
  <2>4. DOMAIN cut = 1 .. N
    BY <1>2 DEF cut
  <2>5. 1 .. N = {}
    <3> SUFFICES ASSUME NEW i \in 1 .. N PROVE FALSE
      OBVIOUS
    <3>1. cut[i].blockHash = 0
      BY <2>2, <2>3
    <3>2. cut[i].blockHash = n
      BY <1>5, <2>1
    <3> QED
      BY <1>2, <3>1, <3>2
  <2>6. cut = right.list
    BY <1>2, <2>4, <2>5 DEF cut
  <2> QED
    BY <2>1, <2>6 DEF right, list
<1> QED
  BY <1>6, <1>7, <1>8, <1>9, <1>10, <1>11

-----------------------------------------------------------------------------
(* The rows of a block. *)

TrueStats(b) ==
    [block |-> b, txCount |-> Len(truth[b]),
     failed |-> Cardinality({i \in DOMAIN truth[b] : ~truth[b][i].ok}),
     counts |-> [c \in OpClasses |-> Cardinality(Did(b, c))],
     fees |-> [c \in OpClasses |-> TrueFees(b, Did(b, c))],
     feeTotal |-> TrueFees(b, DOMAIN truth[b])]

TrueDeploy(b, i) ==
    LET tx == truth[b][i] IN
    [address |-> <<tx.from, tx.nonce>>, deployer |-> tx.from, txHash |-> <<b, i>>, block |-> b, index |-> i, success |-> tx.ok]

\* The payment of deed j of transaction i, as its row says it.
TruePayment(b, i, j) ==
    [block |-> b, logIndex |-> AuthAt(b, i, j), tx |-> i, token |-> Deed(b, i, j).token, payer |-> Deed(b, i, j).payer,
     payee |-> Deed(b, i, j).payee, amount |-> Deed(b, i, j).amount, nonce |-> Deed(b, i, j).nonce,
     relayer |-> truth[b][i].from, called |-> Called(truth[b][i])]
Paying(b) == {x \in (DOMAIN truth[b]) \X Nat : IsAuth(b, x[1], x[2])}

\* What the collector makes of the block it was asked for.
BlockRows(b) ==
    [block |-> [number |-> b, hash |-> b, txCount |-> Len(truth[b])],
     stats |-> TrueStats(b),
     transactions |-> {ParseTx(ServedTx(b, i), b) : i \in DOMAIN truth[b]},
     receipts |-> {ParseReceipt(ServedReceipt(b, i), b) : i \in DOMAIN truth[b]},
     logs |-> ToSet(BlockLogs(b)),
     deploys |-> {TrueDeploy(b, i) : i \in Did(b, "deploy")},
     reverts |-> {<<b, i>> : i \in {i \in DOMAIN truth[b] : ~truth[b][i].ok}},
     payments |-> {TruePayment(b, x[1], x[2]) : x \in Paying(b)}]

\* The kind read from a transaction is what it did.
LEMMA KindRead ==
    ASSUME truth \in [Asked -> Contents], NEW b \in Asked, NEW i \in DOMAIN truth[b]
    PROVE  LET t == ParseTx(ServedTx(b, i), b) IN
           /\ ClassifyTx(t) = truth[b][i].did
           /\ t.to = Called(truth[b][i]) /\ t.from = truth[b][i].from /\ t.hash = <<b, i>> /\ t.index = i /\ t.block = b
           /\ t.to = Absent <=> truth[b][i].did = "deploy"
<1>1. IsTransaction(truth[b][i])
  BY Transactions
<1> DEFINE tx == truth[b][i]
           s == ServedTx(b, i)
           t == ParseTx(s, b)
<1>2. /\ s.hash = <<b, i>> /\ s.index = i /\ s.from = tx.from /\ s.to = Called(tx)
      /\ s.input = CASE tx.did = "native_transfer" -> "empty"
                     [] tx.did = "erc20_transfer" -> "transfer"
                     [] OTHER -> tx.input
  BY DEF ServedTx
<1> HIDE DEF s
<1>3. /\ t.hash = <<b, i>> /\ t.index = i /\ t.from = tx.from /\ t.to = Called(tx) /\ t.block = b
      /\ t.input = CASE tx.did = "native_transfer" -> "empty"
                     [] tx.did = "erc20_transfer" -> "transfer"
                     [] OTHER -> tx.input
  BY <1>2 DEF ParseTx
<1> HIDE DEF t, tx
<1>4. /\ tx.did \in OpClasses /\ (tx.did # "deploy" => tx.to # Absent)
      /\ (tx.did = "contract_call" => tx.input \notin {"empty", "transfer"})
  BY <1>1 DEF IsTransaction, tx
<1>5. Called(tx) = Absent <=> tx.did = "deploy"
  BY <1>4 DEF Called
<1>6. ClassifyTx(t) = tx.did
  BY <1>3, <1>4, <1>5 DEF ClassifyTx, OpClasses
<1> QED
  BY <1>3, <1>5, <1>6 DEF t, s, tx

\* What is paid for an authorization goes with who relayed it, and to whom.
LEMMA PaymentsRead ==
    ASSUME truth \in [Asked -> Contents], NEW b \in Asked, NEW txs,
           \A i \in DOMAIN truth[b] : txs[i] = ParseTx(ServedTx(b, i), b)
    PROVE  DirectPaymentsInBlock(txs, BlockLogs(b)) = {TruePayment(b, x[1], x[2]) : x \in Paying(b)}
<1> DEFINE N == Len(BlockLogs(b))
           full(p) == [p EXCEPT !.relayer = txs[p.tx].from, !.called = txs[p.tx].to]
<1>1. PaidUpTo(b, N) = Paying(b)
  <2>1. ASSUME NEW x, IsAuth(b, x[1], x[2]) PROVE AuthAt(b, x[1], x[2]) \in 1 .. N
    BY <2>1, BlockPlaces
  <2>2. N \in Nat
    BY LogsOfBlock
  <2> HIDE DEF N
  <2> QED
    BY <2>1, <2>2 DEF PaidUpTo, Paying
<1>2. PairAuthorizations(BlockLogs(b)) = {Found(b, x[1], x[2]) : x \in Paying(b)}
  BY <1>1, PairsAreFound
<1>3. ASSUME NEW x \in Paying(b) PROVE full(Found(b, x[1], x[2])) = TruePayment(b, x[1], x[2])
  <2> DEFINE i == x[1]
             j == x[2]
  <2>1. i \in DOMAIN truth[b]
    BY DEF Paying, IsAuth
  <2> HIDE DEF i, j
  <2>2. txs[i].from = truth[b][i].from /\ txs[i].to = Called(truth[b][i])
    BY <2>1, KindRead
  <2> DEFINE p == Found(b, i, j)
             from == truth[b][i].from
             to == Called(truth[b][i])
  <2>3. p.tx = i
    BY DEF Found
  <2>4. [p EXCEPT !.relayer = from, !.called = to] = TruePayment(b, i, j)
    <3> DEFINE d == Deed(b, i, j)
               at == AuthAt(b, i, j)
    <3> HIDE DEF from, to, d, at
    <3>1. p = [block |-> b, logIndex |-> at, tx |-> i, token |-> d.token, payer |-> d.payer,
               payee |-> d.payee, amount |-> d.amount, nonce |-> d.nonce, relayer |-> Absent, called |-> Absent]
      BY DEF Found, d, at
    <3>2. TruePayment(b, i, j) =
              [block |-> b, logIndex |-> at, tx |-> i, token |-> d.token, payer |-> d.payer,
               payee |-> d.payee, amount |-> d.amount, nonce |-> d.nonce, relayer |-> from, called |-> to]
      BY DEF TruePayment, d, at, from, to
    <3> HIDE DEF p
    <3> DEFINE q == [p EXCEPT !.relayer = from]
    <3>3. q = [block |-> b, logIndex |-> at, tx |-> i, token |-> d.token, payer |-> d.payer,
               payee |-> d.payee, amount |-> d.amount, nonce |-> d.nonce, relayer |-> from, called |-> Absent]
      BY <3>1
    <3>4. [p EXCEPT !.relayer = from, !.called = to] = [q EXCEPT !.called = to]
      BY <3>1
    <3> HIDE DEF q
    <3> QED
      BY <3>2, <3>3, <3>4
  <2>5. full(p) = [p EXCEPT !.relayer = from, !.called = to]
    <3> HIDE DEF p
    <3> QED
      BY <2>2, <2>3
  <2> QED
    BY <2>4, <2>5 DEF i, j
<1>4. DirectPaymentsInBlock(txs, BlockLogs(b)) = {full(p) : p \in PairAuthorizations(BlockLogs(b))}
  BY DEF DirectPaymentsInBlock
<1> HIDE DEF full
<1> QED
  BY <1>2, <1>3, <1>4

\* What is read of a receipt.
LEMMA ReceiptRead ==
    ASSUME NEW b, NEW i
    PROVE  LET r == ServedReceipt(b, i) IN
           /\ r.ok = truth[b][i].ok /\ r.index = i /\ r.txHash = <<b, i>>
           /\ Fee(r) = truth[b][i].gas * truth[b][i].price
           /\ r.contract = IF truth[b][i].did = "deploy" /\ truth[b][i].ok THEN <<truth[b][i].from, truth[b][i].nonce>> ELSE NoContract
BY DEF ServedReceipt, Fee

LEMMA FeeRead ==
    ASSUME NEW b, NEW i
    PROVE  Fee(ServedReceipt(b, i)) = truth[b][i].gas * truth[b][i].price
BY DEF ServedReceipt, Fee

LEMMA OkRead ==
    ASSUME NEW b, NEW i
    PROVE  ServedReceipt(b, i).ok = truth[b][i].ok
BY DEF ServedReceipt

\* The counts and the fees read are those of the block.
LEMMA StatsRead ==
    ASSUME truth \in [Asked -> Contents], NEW b \in Asked, NEW txs, NEW list,
           DOMAIN txs = DOMAIN truth[b], Len(txs) = Len(truth[b]), DOMAIN list = DOMAIN truth[b],
           \A i \in DOMAIN truth[b] : txs[i] = ParseTx(ServedTx(b, i), b) /\ list[i] = ServedReceipt(b, i)
    PROVE  ComputeStats(b, txs, list) = TrueStats(b)
<1> DEFINE D == DOMAIN truth[b]
           fee == [i \in DOMAIN list |-> Fee(list[i])]
           trueFee == [i \in DOMAIN truth[b] |-> truth[b][i].gas * truth[b][i].price]
           classed(c) == {i \in DOMAIN txs : ClassifyTx(txs[i]) = c}
           failed == {i \in DOMAIN txs : ~list[i].ok}
<1>1. fee = trueFee
  <2>1. ASSUME NEW i \in D PROVE Fee(list[i]) = truth[b][i].gas * truth[b][i].price
    <3> DEFINE r == ServedReceipt(b, i)
    <3>1. Fee(r) = truth[b][i].gas * truth[b][i].price
      BY FeeRead, Zenon
    <3>2. list[i] = r
      OBVIOUS
    <3> QED
      BY <3>1, <3>2, Zenon
  <2> QED
    BY <2>1
<1>2. ASSUME NEW c PROVE classed(c) = Did(b, c)
  <2>1. ASSUME NEW i \in D PROVE ClassifyTx(txs[i]) = truth[b][i].did
    BY KindRead
  <2> QED
    BY <2>1 DEF Did
<1>3. failed = {i \in DOMAIN truth[b] : ~truth[b][i].ok}
  <2>1. ASSUME NEW i \in D PROVE list[i].ok = truth[b][i].ok
    <3>1. list[i] = ServedReceipt(b, i)
      OBVIOUS
    <3> QED
      BY <3>1, OkRead, Zenon
  <2> QED
    BY <2>1
<1>4. ComputeStats(b, txs, list) =
        [block |-> b, txCount |-> Len(txs), failed |-> Cardinality(failed),
         counts |-> [c \in OpClasses |-> Cardinality(classed(c))],
         fees |-> [c \in OpClasses |-> SumOver(classed(c), fee)],
         feeTotal |-> SumOver(DOMAIN txs, fee)]
  BY DEF ComputeStats
<1> DEFINE ofKind == [c \in OpClasses |-> Cardinality(Did(b, c))]
           feesOfKind == [c \in OpClasses |-> TrueFees(b, Did(b, c))]
<1>5. [c \in OpClasses |-> Cardinality(classed(c))] = ofKind
  <2> HIDE DEF classed
  <2> QED
    BY <1>2
<1>6. [c \in OpClasses |-> SumOver(classed(c), fee)] = feesOfKind
  <2>1. ASSUME NEW c PROVE SumOver(classed(c), fee) = TrueFees(b, Did(b, c))
    <3> HIDE DEF classed, fee
    <3> QED
      BY <1>1, <1>2 DEF TrueFees
  <2> HIDE DEF classed, fee
  <2> QED
    BY <2>1
<1>7. SumOver(DOMAIN txs, fee) = TrueFees(b, DOMAIN truth[b])
  <2> HIDE DEF fee
  <2> QED
    BY <1>1 DEF TrueFees
<1> QED
  <2>1. TrueStats(b) =
          [block |-> b, txCount |-> Len(truth[b]), failed |-> Cardinality({i \in DOMAIN truth[b] : ~truth[b][i].ok}),
           counts |-> ofKind, fees |-> feesOfKind, feeTotal |-> TrueFees(b, DOMAIN truth[b])]
    BY DEF TrueStats
  <2> HIDE DEF classed, fee, ofKind, feesOfKind, failed
  <2> QED
    BY <1>3, <1>4, <1>5, <1>6, <1>7, <2>1

\* What an answer with the block's transactions and receipts is parsed into.
LEMMA RowsRead ==
    ASSUME truth \in [Asked -> Contents], NEW b \in Asked, NEW block, NEW list,
           block.number = b, block.hash = b, block.txs = ServedBlock(b).txs, list = ServedReceipts(b).list
    PROVE  ParseBundle(block, list) = BlockRows(b)
<1> DEFINE N == Len(truth[b])
           D == DOMAIN truth[b]
           txs == [i \in DOMAIN block.txs |-> ParseTx(block.txs[i], b)]
           logs == FlattenSeq([i \in DOMAIN list |-> ParseLogs(list[i], b, i)])
           created == {i \in DOMAIN txs : txs[i].to = Absent}
           reverted == {i \in DOMAIN txs : ~list[i].ok}
<1>1. ParseBundle(block, list) =
        [block |-> [number |-> b, hash |-> b, txCount |-> Len(block.txs)],
         stats |-> ComputeStats(b, txs, list),
         transactions |-> ToSet(txs),
         receipts |-> {ParseReceipt(list[i], b) : i \in DOMAIN list},
         logs |-> ToSet(logs),
         deploys |-> {ParseDeploy(block.txs[i], list[i], b, i) : i \in created},
         reverts |-> {txs[i].hash : i \in reverted},
         payments |-> DirectPaymentsInBlock(txs, logs)]
  BY DEF ParseBundle
<1>2. N \in Nat /\ D = 1 .. N
  BY Transactions
<1>3. /\ DOMAIN block.txs = D /\ Len(block.txs) = N /\ DOMAIN list = D
      /\ \A i \in D : block.txs[i] = ServedTx(b, i) /\ list[i] = ServedReceipt(b, i)
  <2> DEFINE btxs == ServedBlock(b).txs
             blist == ServedReceipts(b).list
  <2>1. /\ DOMAIN btxs = 1 .. N /\ Len(btxs) = N /\ DOMAIN blist = 1 .. N
        /\ \A i \in 1 .. N : btxs[i] = ServedTx(b, i) /\ blist[i] = ServedReceipt(b, i)
    BY ServedItems
  <2> HIDE DEF N, D
  <2> QED
    BY <1>2, <2>1
<1>4. DOMAIN txs = D /\ Len(txs) = N /\ \A i \in D : txs[i] = ParseTx(ServedTx(b, i), b)
  <2> HIDE DEF N, D
  <2> QED
    BY <1>2, <1>3
<1>5. logs = BlockLogs(b)
  <2>1. [i \in DOMAIN list |-> ParseLogs(list[i], b, i)] = ParsedTx(b)
    BY <1>3 DEF ParsedTx
  <2> QED
    BY <2>1 DEF BlockLogs
<1> HIDE DEF txs, logs
<1>6. ComputeStats(b, txs, list) = TrueStats(b)
  BY <1>3, <1>4, StatsRead
<1>7. ToSet(txs) = {ParseTx(ServedTx(b, i), b) : i \in D}
  BY <1>4 DEF ToSet
<1>8. {ParseReceipt(list[i], b) : i \in DOMAIN list} = {ParseReceipt(ServedReceipt(b, i), b) : i \in D}
  BY <1>3
<1>9. created = Did(b, "deploy")
  <2>1. ASSUME NEW i \in D PROVE txs[i].to = Absent <=> truth[b][i].did = "deploy"
    BY <1>4, KindRead
  <2> QED
    BY <1>4, <2>1 DEF Did
<1>10. {ParseDeploy(block.txs[i], list[i], b, i) : i \in created} = {TrueDeploy(b, i) : i \in Did(b, "deploy")}
  <2>1. ASSUME NEW i \in Did(b, "deploy") PROVE ParseDeploy(block.txs[i], list[i], b, i) = TrueDeploy(b, i)
    <3>1. i \in D /\ truth[b][i].did = "deploy"
      BY DEF Did
    <3> DEFINE t == ServedTx(b, i)
               r == ServedReceipt(b, i)
               tx == truth[b][i]
    <3>2. t.from = tx.from /\ t.nonce = tx.nonce /\ t.hash = <<b, i>>
      BY DEF ServedTx
    <3>3. r.ok = tx.ok /\ r.contract = IF tx.ok THEN <<tx.from, tx.nonce>> ELSE NoContract
      BY <3>1, ReceiptRead
    <3> HIDE DEF t, r
    <3>4. CreatedAt(t, r) = <<tx.from, tx.nonce>>
      BY <3>2, <3>3 DEF CreatedAt
    <3>5. ParseDeploy(t, r, b, i) = TrueDeploy(b, i)
      BY <3>2, <3>3, <3>4 DEF ParseDeploy, TrueDeploy
    <3> QED
      BY <1>3, <3>1, <3>5 DEF t, r
  <2> HIDE DEF created
  <2> QED
    BY <1>9, <2>1
<1>11. {txs[i].hash : i \in reverted} = {<<b, i>> : i \in {i \in D : ~truth[b][i].ok}}
  <2>1. ASSUME NEW i \in D PROVE txs[i].hash = <<b, i>> /\ list[i].ok = truth[b][i].ok
    <3>1. list[i] = ServedReceipt(b, i) /\ txs[i] = ParseTx(ServedTx(b, i), b)
      BY <1>3, <1>4
    <3>2. ServedReceipt(b, i).ok = truth[b][i].ok
      BY OkRead
    <3>3. ParseTx(ServedTx(b, i), b).hash = <<b, i>>
      BY KindRead
    <3> QED
      BY <3>1, <3>2, <3>3, Zenon
  <2>2. reverted = {i \in D : ~truth[b][i].ok}
    BY <1>4, <2>1
  <2> HIDE DEF reverted
  <2> QED
    BY <2>1, <2>2
<1>12. DirectPaymentsInBlock(txs, logs) = {TruePayment(b, x[1], x[2]) : x \in Paying(b)}
  BY <1>4, <1>5, PaymentsRead
<1> QED
  <2>1. BlockRows(b) =
          [block |-> [number |-> b, hash |-> b, txCount |-> N], stats |-> TrueStats(b),
           transactions |-> {ParseTx(ServedTx(b, i), b) : i \in D},
           receipts |-> {ParseReceipt(ServedReceipt(b, i), b) : i \in D},
           logs |-> ToSet(BlockLogs(b)), deploys |-> {TrueDeploy(b, i) : i \in Did(b, "deploy")},
           reverts |-> {<<b, i>> : i \in {i \in D : ~truth[b][i].ok}},
           payments |-> {TruePayment(b, x[1], x[2]) : x \in Paying(b)}]
    BY DEF BlockRows
  <2> QED
    BY <1>1, <1>3, <1>5, <1>6, <1>7, <1>8, <1>10, <1>11, <1>12, <2>1, Zenon

-----------------------------------------------------------------------------
(* The rows kept are those of the blocks kept. *)

\* The tables when the blocks kept are kept, those of full with their details.
TablesOf(kept, full) ==
    [blocks |-> {BlockRows(b).block : b \in kept}, stats |-> {BlockRows(b).stats : b \in kept},
     deploys |-> UNION {BlockRows(b).deploys : b \in kept}, payments |-> UNION {BlockRows(b).payments : b \in kept},
     transactions |-> UNION {BlockRows(b).transactions : b \in full},
     receipts |-> UNION {BlockRows(b).receipts : b \in full},
     logs |-> UNION {BlockRows(b).logs : b \in full}, reverts |-> UNION {BlockRows(b).reverts : b \in full}]

RowsFit == \E kept \in SUBSET Asked : \E full \in SUBSET kept : tables = TablesOf(kept, full)
ReadingInv == truth \in [Asked -> Contents] /\ RowsFit

\* While the chain stays as it is, so do the rows it asks for.
LEMMA LogsStay ==
    ASSUME truth' = truth, NEW b, NEW i
    PROVE  /\ LogsBefore(b, i)' = LogsBefore(b, i)
           /\ ServedTx(b, i)' = ServedTx(b, i)
<1>1. LogsBefore(b, i)' = LogsBefore(b, i)
  BY DEF LogsBefore
<1>2. ServedTx(b, i)' = ServedTx(b, i)
  BY DEF ServedTx
<1> QED
  BY <1>1, <1>2

LEMMA ReceiptsStay ==
    ASSUME truth' = truth, NEW b, NEW i
    PROVE  ServedReceipt(b, i)' = ServedReceipt(b, i)
BY LogsStay DEF ServedReceipt

LEMMA BlockLogsStay ==
    ASSUME truth' = truth, NEW b
    PROVE  BlockLogs(b)' = BlockLogs(b)
<1>1. ParsedTx(b)' = ParsedTx(b)
  BY ReceiptsStay DEF ParsedTx
<1> QED
  BY <1>1 DEF BlockLogs

LEMMA PaymentStays ==
    ASSUME truth' = truth, NEW b, NEW i, NEW j
    PROVE  TruePayment(b, i, j)' = TruePayment(b, i, j) /\ (IsAuth(b, i, j)' <=> IsAuth(b, i, j))
<1>1. AuthAt(b, i, j)' = AuthAt(b, i, j)
  BY LogsStay DEF AuthAt
<1>2. TruePayment(b, i, j)' = TruePayment(b, i, j)
  BY <1>1 DEF TruePayment, Deed
<1>3. IsAuth(b, i, j)' <=> IsAuth(b, i, j)
  BY DEF IsAuth
<1> QED
  BY <1>2, <1>3

LEMMA StatsStay ==
    ASSUME truth' = truth, NEW b
    PROVE  TrueStats(b)' = TrueStats(b)
<1>1. ASSUME NEW c PROVE Did(b, c)' = Did(b, c)
  BY DEF Did
<1>2. ASSUME NEW S PROVE TrueFees(b, S)' = TrueFees(b, S)
  BY DEF TrueFees
<1>3. ASSUME NEW c PROVE TrueFees(b, Did(b, c))' = TrueFees(b, Did(b, c))
  BY <1>1 DEF TrueFees
<1> QED
  BY <1>1, <1>2, <1>3 DEF TrueStats

LEMMA RowsStay ==
    ASSUME truth' = truth, NEW b
    PROVE  BlockRows(b)' = BlockRows(b)
<1>1. {TruePayment(b, x[1], x[2]) : x \in Paying(b)}' = {TruePayment(b, x[1], x[2]) : x \in Paying(b)}
  <2>1. Paying(b)' = Paying(b)
    BY PaymentStays DEF Paying
  <2> QED
    BY <2>1, PaymentStays
<1>2. {TrueDeploy(b, i) : i \in Did(b, "deploy")}' = {TrueDeploy(b, i) : i \in Did(b, "deploy")}
  BY DEF TrueDeploy, Did
<1>3. /\ {ParseTx(ServedTx(b, i), b) : i \in DOMAIN truth[b]}' = {ParseTx(ServedTx(b, i), b) : i \in DOMAIN truth[b]}
      /\ {ParseReceipt(ServedReceipt(b, i), b) : i \in DOMAIN truth[b]}' = {ParseReceipt(ServedReceipt(b, i), b) : i \in DOMAIN truth[b]}
  BY LogsStay, ReceiptsStay
<1> QED
  BY <1>1, <1>2, <1>3, BlockLogsStay, StatsStay DEF BlockRows

LEMMA TablesStay ==
    ASSUME truth' = truth, NEW kept, NEW full
    PROVE  TablesOf(kept, full)' = TablesOf(kept, full)
BY RowsStay DEF TablesOf

\* Nothing is kept at first.
LEMMA RowsFitFirst == ReadingInit => ReadingInv
<1> SUFFICES ASSUME ReadingInit PROVE ReadingInv
  OBVIOUS
<1>1. tables = TablesOf({}, {})
  BY DEF ReadingInit, NoRows, TablesOf
<1> QED
  BY <1>1 DEF ReadingInit, ReadingInv, RowsFit

\* The rows of one more block join those of the rest.
LEMMA OneMoreRead ==
    ASSUME truth \in [Asked -> Contents], NEW n \in Asked, NEW mode \in {"light", "full"},
           NEW kept \in SUBSET Asked, NEW full \in SUBSET kept
    PROVE  \E k \in SUBSET Asked : \E f \in SUBSET k : Written(TablesOf(kept, full), BlockRows(n), mode) = TablesOf(k, f)
<1> DEFINE t == TablesOf(kept, full)
           f == IF mode = "light" THEN full ELSE full \cup {n}
           k == kept \cup {n}
<1>1. /\ t.blocks = {BlockRows(b).block : b \in kept} /\ t.stats = {BlockRows(b).stats : b \in kept}
      /\ t.deploys = UNION {BlockRows(b).deploys : b \in kept} /\ t.payments = UNION {BlockRows(b).payments : b \in kept}
      /\ t.transactions = UNION {BlockRows(b).transactions : b \in full}
      /\ t.receipts = UNION {BlockRows(b).receipts : b \in full}
      /\ t.logs = UNION {BlockRows(b).logs : b \in full} /\ t.reverts = UNION {BlockRows(b).reverts : b \in full}
  BY DEF TablesOf
<1>2. \A b : BlockRows(b).block.number = b
  BY DEF BlockRows
<1>3. (\E row \in t.blocks : row.number = BlockRows(n).block.number) <=> n \in kept
  <2> HIDE DEF t
  <2> QED
    BY <1>1, <1>2
<1>4. CASE n \in kept
  <2> HIDE DEF t
  <2>1. Written(t, BlockRows(n), mode) = t
    BY <1>3, <1>4 DEF Written
  <2> QED
    BY <2>1 DEF t
<1>5. CASE n \notin kept
  <2>1. f \in SUBSET k /\ k \in SUBSET Asked
    OBVIOUS
  <2> DEFINE brings(rows) == IF mode = "light" THEN {} ELSE rows
  <2>2. Written(t, BlockRows(n), mode) =
          [blocks |-> t.blocks \cup {BlockRows(n).block}, stats |-> t.stats \cup {BlockRows(n).stats},
           deploys |-> t.deploys \cup BlockRows(n).deploys, payments |-> t.payments \cup BlockRows(n).payments,
           transactions |-> t.transactions \cup brings(BlockRows(n).transactions),
           receipts |-> t.receipts \cup brings(BlockRows(n).receipts),
           logs |-> t.logs \cup brings(BlockRows(n).logs), reverts |-> t.reverts \cup brings(BlockRows(n).reverts)]
    <3> HIDE DEF t
    <3> QED
      BY <1>3, <1>5 DEF Written
  <2>3. /\ t.blocks \cup {BlockRows(n).block} = {BlockRows(b).block : b \in k}
        /\ t.stats \cup {BlockRows(n).stats} = {BlockRows(b).stats : b \in k}
    <3> HIDE DEF t
    <3> QED
      BY <1>1
  <2>4. /\ t.deploys \cup BlockRows(n).deploys = UNION {BlockRows(b).deploys : b \in k}
        /\ t.payments \cup BlockRows(n).payments = UNION {BlockRows(b).payments : b \in k}
    <3> HIDE DEF t
    <3> QED
      BY <1>1
  <2>5. /\ t.transactions \cup brings(BlockRows(n).transactions) = UNION {BlockRows(b).transactions : b \in f}
        /\ t.receipts \cup brings(BlockRows(n).receipts) = UNION {BlockRows(b).receipts : b \in f}
        /\ t.logs \cup brings(BlockRows(n).logs) = UNION {BlockRows(b).logs : b \in f}
        /\ t.reverts \cup brings(BlockRows(n).reverts) = UNION {BlockRows(b).reverts : b \in f}
    <3> HIDE DEF t
    <3>1. CASE mode = "light"
      <4>1. f = full /\ \A rows : brings(rows) = {}
        BY <3>1
      <4> HIDE DEF f, brings
      <4> QED
        BY <1>1, <4>1
    <3>2. CASE mode # "light"
      <4>1. f = full \cup {n} /\ \A rows : brings(rows) = rows
        BY <3>2
      <4> HIDE DEF f, brings
      <4> QED
        BY <1>1, <4>1
    <3> QED
      BY <3>1, <3>2
  <2>6. Written(t, BlockRows(n), mode) = TablesOf(k, f)
    <3> HIDE DEF t, k, f, brings
    <3> QED
      BY <2>2, <2>3, <2>4, <2>5 DEF TablesOf
  <2> QED
    BY <2>1, <2>6
<1> QED
  BY <1>4, <1>5

LEMMA RowsFitNext == ReadingInv /\ [ReadingNext]_readingVars => ReadingInv'
<1> SUFFICES ASSUME ReadingInv, [ReadingNext]_readingVars PROVE ReadingInv'
  OBVIOUS
<1>1. truth \in [Asked -> Contents]
  BY DEF ReadingInv
<1>2. PICK kept \in SUBSET Asked : \E full \in SUBSET kept : tables = TablesOf(kept, full)
  BY DEF ReadingInv, RowsFit
<1>3. PICK full \in SUBSET kept : tables = TablesOf(kept, full)
  BY <1>2
<1>4. CASE ReadingNext
  <2>1. PICK n \in Asked, mode \in {"light", "full"} : ReadsBlock(n, mode)
    BY <1>4 DEF ReadingNext
  <2>2. PICK block \in BlockAnswers(n), receipts \in ReceiptAnswers(n) :
          /\ FetchOutcome(n, block, receipts) = "ok"
          /\ tables' = Written(tables, ParseBundle(block, receipts.list), mode)
          /\ truth' = truth
    BY <2>1 DEF ReadsBlock
  <2>3. block.number = n /\ block.hash = n /\ block.txs = ServedBlock(n).txs
    BY <1>1, <2>2, OnlyItsBlock
  <2>4. receipts.list = ServedReceipts(n).list
    BY <1>1, <2>2, OnlyItsReceipts
  <2>5. ParseBundle(block, receipts.list) = BlockRows(n)
    BY <1>1, <2>3, <2>4, RowsRead
  <2>6. PICK k \in SUBSET Asked : \E f \in SUBSET k : Written(TablesOf(kept, full), BlockRows(n), mode) = TablesOf(k, f)
    BY <1>1, OneMoreRead
  <2>7. PICK f \in SUBSET k : Written(TablesOf(kept, full), BlockRows(n), mode) = TablesOf(k, f)
    BY <2>6
  <2>8. tables' = TablesOf(k, f)'
    BY <1>3, <2>2, <2>5, <2>7, TablesStay
  <2> QED
    BY <1>1, <2>2, <2>8 DEF ReadingInv, RowsFit
<1>5. CASE UNCHANGED readingVars
  <2>1. truth' = truth /\ tables' = tables
    BY <1>5 DEF readingVars
  <2>2. tables' = TablesOf(kept, full)'
    BY <1>3, <2>1, TablesStay
  <2> QED
    BY <1>1, <2>1, <2>2 DEF ReadingInv, RowsFit
<1> QED
  BY <1>4, <1>5

-----------------------------------------------------------------------------
(* What the rows kept say. *)

LEMMA StatsSay ==
    ASSUME NEW kept, NEW full, tables = TablesOf(kept, full)
    PROVE  StatsTrue
<1> SUFFICES ASSUME NEW s \in tables.stats
             PROVE  LET b == s.block IN
                    /\ s.txCount = Len(truth[b]) /\ s.feeTotal = TrueFees(b, DOMAIN truth[b])
                    /\ s.failed = Cardinality({i \in DOMAIN truth[b] : ~truth[b][i].ok})
                    /\ \A c \in OpClasses : s.counts[c] = Cardinality(Did(b, c)) /\ s.fees[c] = TrueFees(b, Did(b, c))
  BY DEF StatsTrue
<1>1. tables.stats = {BlockRows(b).stats : b \in kept}
  BY DEF TablesOf
<1>2. PICK b \in kept : s = BlockRows(b).stats
  BY <1>1
<1>3. s = TrueStats(b)
  BY <1>2 DEF BlockRows
<1> QED
  BY <1>3 DEF TrueStats

LEMMA DeploysSay ==
    ASSUME NEW kept, NEW full, tables = TablesOf(kept, full)
    PROVE  DeploysTrue
<1> DEFINE says(d) == [block |-> d.block, index |-> d.index, address |-> d.address, success |-> d.success]
           made(b, i) == [block |-> b, index |-> i, address |-> <<truth[b][i].from, truth[b][i].nonce>>,
                          success |-> truth[b][i].ok]
<1>1. tables.deploys = UNION {BlockRows(b).deploys : b \in kept} /\ tables.blocks = {BlockRows(b).block : b \in kept}
  BY DEF TablesOf
<1>2. \A b : BlockRows(b).block.number = b /\ BlockRows(b).deploys = {TrueDeploy(b, i) : i \in Did(b, "deploy")}
  BY DEF BlockRows
<1>3. \A b, i : says(TrueDeploy(b, i)) = made(b, i)
  BY DEF TrueDeploy
<1>4. tables.deploys = UNION {{TrueDeploy(b, i) : i \in Did(b, "deploy")} : b \in kept}
  BY <1>1, <1>2
<1> HIDE DEF says, made
<1>5. {says(d) : d \in tables.deploys} = UNION {{made(b, i) : i \in Did(b, "deploy")} : b \in kept}
  BY <1>3, <1>4
<1>6. UNION {{made(b.number, i) : i \in Did(b.number, "deploy")} : b \in tables.blocks} =
      UNION {{made(b, i) : i \in Did(b, "deploy")} : b \in kept}
  <2> DEFINE of(b) == {made(b, i) : i \in Did(b, "deploy")}
  <2> HIDE DEF of
  <2>1. UNION {of(b.number) : b \in tables.blocks} = UNION {of(b) : b \in kept}
    BY <1>1, <1>2
  <2> QED
    BY <2>1 DEF of
<1> QED
  BY <1>5, <1>6 DEF DeploysTrue, says, made

\* A row without its place among the logs is the payment of a deed.
LEMMA PaymentSays ==
    ASSUME NEW b, NEW i, NEW j
    PROVE  LET p == TruePayment(b, i, j)
               d == Deed(b, i, j)
           IN [k \in DOMAIN p \ {"logIndex"} |-> p[k]] =
              [block |-> b, tx |-> i, token |-> d.token, payer |-> d.payer, payee |-> d.payee, amount |-> d.amount,
               nonce |-> d.nonce, relayer |-> truth[b][i].from, called |-> Called(truth[b][i])]
<1> DEFINE d == Deed(b, i, j)
           from == truth[b][i].from
           to == Called(truth[b][i])
           at == AuthAt(b, i, j)
           p == TruePayment(b, i, j)
<1>1. p = [block |-> b, logIndex |-> at, tx |-> i, token |-> d.token, payer |-> d.payer,
           payee |-> d.payee, amount |-> d.amount, nonce |-> d.nonce, relayer |-> from, called |-> to]
  BY DEF TruePayment
<1> HIDE DEF d, from, to, at, p
<1>2. DOMAIN p \ {"logIndex"} = {"block", "tx", "token", "payer", "payee", "amount", "nonce", "relayer", "called"}
  BY <1>1
<1>3. [k \in DOMAIN p \ {"logIndex"} |-> p[k]] =
      [block |-> b, tx |-> i, token |-> d.token, payer |-> d.payer, payee |-> d.payee, amount |-> d.amount,
       nonce |-> d.nonce, relayer |-> from, called |-> to]
  BY <1>1, <1>2
<1> QED
  BY <1>3 DEF d, from, to, p

LEMMA PaymentsSay ==
    ASSUME truth \in [Asked -> Contents], NEW kept \in SUBSET Asked, NEW full, tables = TablesOf(kept, full)
    PROVE  PaymentsTrue
<1> DEFINE without(p) == [k \in DOMAIN p \ {"logIndex"} |-> p[k]]
           of(b, i, d) ==
               [block |-> b, tx |-> i, token |-> d.token, payer |-> d.payer, payee |-> d.payee, amount |-> d.amount,
                nonce |-> d.nonce, relayer |-> truth[b][i].from, called |-> Called(truth[b][i])]
<1>1. tables.payments = UNION {BlockRows(b).payments : b \in kept} /\ tables.blocks = {BlockRows(b).block : b \in kept}
  BY DEF TablesOf
<1>2. \A b : BlockRows(b).block.number = b /\ BlockRows(b).payments = {TruePayment(b, x[1], x[2]) : x \in Paying(b)}
  BY DEF BlockRows
<1>3. ASSUME NEW b, NEW i, NEW j PROVE without(TruePayment(b, i, j)) = of(b, i, Deed(b, i, j))
  BY PaymentSays
<1>4. ASSUME NEW b \in kept
      PROVE  Paid(b) = {of(b, x[1], Deed(b, x[1], x[2])) : x \in Paying(b)}
  <2> DEFINE T == truth[b]
             settled(i) == {d \in ToSet(truth[b][i].deeds) : d.does \in {"pay", "authorize"}}
             ok == {i \in DOMAIN truth[b] : truth[b][i].ok}
  <2>1. Paid(b) = UNION {{of(b, i, d) : d \in settled(i)} : i \in ok}
    BY DEF Paid
  <2>2. ASSUME NEW x \in Paying(b) PROVE x[1] \in ok /\ Deed(b, x[1], x[2]) \in settled(x[1])
    BY DEF Paying, IsAuth, Authorizing, Deed, ToSet
  <2>3. ASSUME NEW i \in ok, NEW d \in settled(i)
        PROVE  \E x \in Paying(b) : x[1] = i /\ Deed(b, x[1], x[2]) = d
    <3>1. PICK j \in DOMAIN truth[b][i].deeds : truth[b][i].deeds[j] = d
      BY DEF ToSet
    <3>2. IsAuth(b, i, j) /\ Deed(b, i, j) = d
      BY <3>1 DEF IsAuth, Authorizing, Deed
    <3>3. j \in Nat
      BY PlacesInOrder
    <3> DEFINE x == <<i, j>>
    <3>4. x \in (DOMAIN truth[b]) \X Nat /\ x[1] = i /\ x[2] = j
      BY <3>3
    <3>5. x \in Paying(b)
      <4> HIDE DEF x
      <4> QED
        BY <3>2, <3>4 DEF Paying
    <3> QED
      BY <3>2, <3>4, <3>5
  <2> HIDE DEF of, settled, ok
  <2> QED
    BY <2>1, <2>2, <2>3
<1> HIDE DEF without, of
<1>5. {without(p) : p \in tables.payments} = UNION {Paid(b) : b \in kept}
  BY <1>1, <1>2, <1>3, <1>4
<1>6. UNION {Paid(b.number) : b \in tables.blocks} = UNION {Paid(b) : b \in kept}
  BY <1>1, <1>2
<1>7. ASSUME NEW p \in tables.payments, NEW q \in tables.payments, p.block = q.block, p.logIndex = q.logIndex
      PROVE  p = q
  <2>1. PICK b \in kept : p \in BlockRows(b).payments
    BY <1>1
  <2>2. PICK x \in Paying(b) : p = TruePayment(b, x[1], x[2])
    BY <1>2, <2>1
  <2>3. PICK c \in kept : q \in BlockRows(c).payments
    BY <1>1
  <2>4. PICK y \in Paying(c) : q = TruePayment(c, y[1], y[2])
    BY <1>2, <2>3
  <2>5. b = c /\ AuthAt(b, x[1], x[2]) = AuthAt(c, y[1], y[2])
    BY <1>7, <2>2, <2>4 DEF TruePayment
  <2>6. IsAuth(b, x[1], x[2]) /\ IsAuth(c, y[1], y[2])
    BY DEF Paying
  <2>7. x[1] = y[1] /\ x[2] = y[2]
    BY <2>5, <2>6, AuthsApart
  <2> QED
    BY <2>2, <2>4, <2>5, <2>7
<1> QED
  BY <1>5, <1>6, <1>7 DEF PaymentsTrue, without

\* The logs of a block are as many as the places they take.
LEMMA LogsCounted ==
    ASSUME truth \in [Asked -> Contents], NEW b \in Asked
    PROVE  /\ Cardinality(BlockRows(b).logs) = LogsBefore(b, Len(truth[b]) + 1)
           /\ truth[b] = <<>> => BlockRows(b).logs = {}
           /\ \A l \in BlockRows(b).logs : l.block = b
<1> DEFINE L == BlockLogs(b)
           n == Len(L)
<1>1. /\ n \in Nat /\ n = LogsBefore(b, Len(truth[b]) + 1) /\ L \in Seq(ToSet(L))
      /\ \A p \in 1 .. n : \E i \in 1 .. Len(truth[b]) : \E k \in 1 .. Len(LogsOfTx(truth[b][i])) : p = LogsBefore(b, i) + k
  BY LogsOfBlock
<1>2. \A p \in 1 .. n : L[p].index = p
  BY BlockPlaces
<1>3. ASSUME NEW p \in 1 .. n PROVE L[p].block = b
  <2>1. PICK i \in 1 .. Len(truth[b]) : \E k \in 1 .. Len(LogsOfTx(truth[b][i])) : p = LogsBefore(b, i) + k
    BY <1>1
  <2>2. PICK k \in 1 .. Len(LogsOfTx(truth[b][i])) : p = LogsBefore(b, i) + k
    BY <2>1
  <2>3. L[p] = Parsed(b, i, LogsOfTx(truth[b][i])[k], p)
    BY <2>2, LogsOfBlock
  <2> QED
    BY <2>3 DEF Parsed
<1> HIDE DEF n, L
<1>4. BlockRows(b).logs = {L[p] : p \in 1 .. n}
  <2>1. DOMAIN L = 1 .. n
    BY <1>1 DEF n
  <2> QED
    BY <2>1 DEF BlockRows, L, ToSet
<1> DEFINE S == BlockRows(b).logs
           f == [p \in 1 .. n |-> L[p]]
<1>5. f \in Bijection(1 .. n, S)
  <2> HIDE DEF S
  <2>1. f \in [1 .. n -> S] /\ \A l \in S : \E p \in 1 .. n : f[p] = l
    BY <1>4 DEF S
  <2>2. \A p, q \in 1 .. n : f[p] = f[q] => p = q
    BY <1>2
  <2> HIDE DEF f
  <2> QED
    BY <2>1, <2>2 DEF Bijection, Injection, Surjection, IsInjective
<1>6. Cardinality(S) = n
  <2>1. IsFiniteSet(1 .. n) /\ Cardinality(1 .. n) = n
    <3> DEFINE one == 1
    <3>1. one \in Int /\ n \in Int /\ one = 1
      BY <1>1
    <3> HIDE DEF one
    <3>2. IsFiniteSet(one .. n) /\ Cardinality(one .. n) = IF one > n THEN 0 ELSE n - one + 1
      BY <3>1, FS_Interval
    <3> QED
      BY <1>1, <3>1, <3>2
  <2> HIDE DEF S, f
  <2>2. ExistsBijection(1 .. n, S)
    BY <1>5 DEF ExistsBijection
  <2> QED
    BY <2>1, <2>2, FS_Bijection
<1>7. ASSUME truth[b] = <<>> PROVE S = {}
  <2>1. 1 .. Len(truth[b]) = {}
    BY <1>7
  <2>2. 1 .. n = {}
    BY <1>1, <2>1
  <2> HIDE DEF S
  <2> QED
    BY <1>4, <2>2 DEF S
<1> QED
  BY <1>1, <1>3, <1>4, <1>6, <1>7 DEF S

\* The details of block b: those of the blocks kept whole are its own.
LEMMA DetailsOf ==
    ASSUME truth \in [Asked -> Contents], NEW kept \in SUBSET Asked, NEW full \in SUBSET kept, tables = TablesOf(kept, full),
           NEW b \in kept
    PROVE  LET of(rows) == {r \in rows : r.block = b}
               its(rows) == IF b \in full THEN rows ELSE {}
           IN /\ of(tables.transactions) = its(BlockRows(b).transactions)
              /\ of(tables.receipts) = its(BlockRows(b).receipts)
              /\ of(tables.logs) = its(BlockRows(b).logs)
              /\ \A i : <<b, i>> \in tables.reverts <=> <<b, i>> \in its(BlockRows(b).reverts)
<1>1. /\ tables.transactions = UNION {BlockRows(c).transactions : c \in full}
      /\ tables.receipts = UNION {BlockRows(c).receipts : c \in full}
      /\ tables.logs = UNION {BlockRows(c).logs : c \in full}
      /\ tables.reverts = UNION {BlockRows(c).reverts : c \in full}
  BY DEF TablesOf
<1>2. \A c \in full : \A l \in BlockRows(c).logs : l.block = c
  BY LogsCounted
<1>3. \A c \in full : \A t \in BlockRows(c).transactions : t.block = c
  BY DEF BlockRows, ParseTx
<1>4. \A c \in full : \A r \in BlockRows(c).receipts : r.block = c
  BY DEF BlockRows, ParseReceipt
<1>5. \A c \in full : \A i : <<b, i>> \in BlockRows(c).reverts => c = b
  BY DEF BlockRows
<1> QED
  BY <1>1, <1>2, <1>3, <1>4, <1>5

LEMMA DetailsSay ==
    ASSUME truth \in [Asked -> Contents], NEW kept \in SUBSET Asked, NEW full \in SUBSET kept, tables = TablesOf(kept, full)
    PROVE  DetailsWhole
<1> DEFINE of(rows, b) == {r \in rows : r.block = b}
           none(b) == of(tables.transactions, b) = {}
           Whole(b) ==
               /\ none(b) \/ {<<t.index, t.hash>> : t \in of(tables.transactions, b)} = {<<i, <<b, i>>>> : i \in DOMAIN truth[b]}
               /\ {<<r.index, r.txHash, r.ok, r.logsCount>> : r \in of(tables.receipts, b)} =
                  {<<t.index, t.hash, truth[b][t.index].ok, Len(LogsOfTx(truth[b][t.index]))>> : t \in of(tables.transactions, b)}
               /\ Cardinality(of(tables.logs, b)) = IF none(b) THEN 0 ELSE LogsBefore(b, Len(truth[b]) + 1)
               /\ {i \in DOMAIN truth[b] : <<b, i>> \in tables.reverts} = {i \in DOMAIN truth[b] : ~none(b) /\ ~truth[b][i].ok}
<1>1. ASSUME NEW b \in kept PROVE Whole(b)
  <2> DEFINE D == DOMAIN truth[b]
             t(i) == ParseTx(ServedTx(b, i), b)
             r(i) == ParseReceipt(ServedReceipt(b, i), b)
             N == Len(truth[b])
  <2>1. /\ BlockRows(b).transactions = {t(i) : i \in D} /\ BlockRows(b).receipts = {r(i) : i \in D}
        /\ BlockRows(b).reverts = {<<b, i>> : i \in {i \in D : ~truth[b][i].ok}}
    BY DEF BlockRows
  <2>2. /\ Cardinality(BlockRows(b).logs) = LogsBefore(b, N + 1)
        /\ truth[b] = <<>> => BlockRows(b).logs = {}
    BY LogsCounted
  <2>3. ASSUME NEW i \in D PROVE t(i).index = i /\ t(i).hash = <<b, i>>
    BY KindRead
  <2>4. ASSUME NEW i \in D
        PROVE  r(i).index = i /\ r(i).txHash = <<b, i>> /\ r(i).logsCount = Len(LogsOfTx(truth[b][i]))
    <3> DEFINE L == LogsOfTx(truth[b][i])
               s == ServedReceipt(b, i)
    <3>1. s.index = i /\ s.txHash = <<b, i>> /\ s.logs = [k \in DOMAIN L |-> [L[k] EXCEPT !.index = LogsBefore(b, i) + k]]
      BY DEF ServedReceipt
    <3>2. L \in Seq(ToSet(L))
      BY Transactions, LogsOfATx
    <3>3. Len(L) \in Nat /\ DOMAIN L = 1 .. Len(L)
      BY <3>2
    <3> HIDE DEF s, L
    <3>4. Len(s.logs) = Len(L)
      BY <3>1, <3>3
    <3> QED
      BY <3>1, <3>4 DEF ParseReceipt, s, L
  <2>5. ASSUME NEW i \in D PROVE r(i).ok = truth[b][i].ok
    <3>1. r(i).ok = ServedReceipt(b, i).ok
      BY DEF ParseReceipt
    <3> QED
      BY <3>1, OkRead, Zenon
  <2>6. /\ of(tables.transactions, b) = IF b \in full THEN BlockRows(b).transactions ELSE {}
        /\ of(tables.receipts, b) = IF b \in full THEN BlockRows(b).receipts ELSE {}
        /\ of(tables.logs, b) = IF b \in full THEN BlockRows(b).logs ELSE {}
        /\ \A i : <<b, i>> \in tables.reverts <=> <<b, i>> \in IF b \in full THEN BlockRows(b).reverts ELSE {}
    BY DetailsOf
  <2>7. N \in Nat /\ D = 1 .. N /\ truth[b] = [i \in 1 .. N |-> truth[b][i]]
    BY Transactions
  <2>8. D = {} => truth[b] = <<>>
    <3> SUFFICES ASSUME D = {} PROVE truth[b] = <<>>
      OBVIOUS
    <3>1. truth[b] = [i \in {} |-> truth[b][i]]
      BY <2>7
    <3> QED
      BY <3>1
  <2>9. Cardinality({}) = 0
    BY FS_EmptySet
  <2> DEFINE ts == of(tables.transactions, b)
             rs == of(tables.receipts, b)
             ls == of(tables.logs, b)
             vs == tables.reverts
  <2>10. /\ ts = {} \/ {<<x.index, x.hash>> : x \in ts} = {<<i, <<b, i>>>> : i \in D}
         /\ {<<x.index, x.txHash, x.ok, x.logsCount>> : x \in rs} =
            {<<x.index, x.hash, truth[b][x.index].ok, Len(LogsOfTx(truth[b][x.index]))>> : x \in ts}
         /\ Cardinality(ls) = IF ts = {} THEN 0 ELSE LogsBefore(b, N + 1)
         /\ {i \in D : <<b, i>> \in vs} = {i \in D : ts # {} /\ ~truth[b][i].ok}
    <3> HIDE DEF ts, rs, ls, vs, D, N, t, r
    <3>1. CASE b \in full
      <4>1. ts = {t(i) : i \in D} /\ rs = {r(i) : i \in D} /\ ls = BlockRows(b).logs
            /\ \A i : <<b, i>> \in vs <=> <<b, i>> \in BlockRows(b).reverts
        BY <2>1, <2>6, <3>1 DEF ts, rs, ls, vs
      <4>2. {<<x.index, x.hash>> : x \in ts} = {<<i, <<b, i>>>> : i \in D}
        BY <2>3, <4>1
      <4> DEFINE item(i) == <<i, <<b, i>>, truth[b][i].ok, Len(LogsOfTx(truth[b][i]))>>
                 inReceipt(x) == <<x.index, x.txHash, x.ok, x.logsCount>>
                 inTx(x) == <<x.index, x.hash, truth[b][x.index].ok, Len(LogsOfTx(truth[b][x.index]))>>
      <4>3. {inReceipt(x) : x \in rs} = {item(i) : i \in D}
        <5>1. ASSUME NEW i \in D PROVE inReceipt(r(i)) = item(i)
          BY <2>4, <2>5, Zenon
        <5> HIDE DEF item, inReceipt
        <5> QED
          BY <4>1, <5>1
      <4>4. {inTx(x) : x \in ts} = {item(i) : i \in D}
        <5>1. ASSUME NEW i \in D PROVE inTx(t(i)) = item(i)
          BY <2>3
        <5> HIDE DEF item, inTx
        <5> QED
          BY <4>1, <5>1
      <4>5. ts = {} <=> D = {}
        BY <4>1
      <4>6. Cardinality(ls) = IF ts = {} THEN 0 ELSE LogsBefore(b, N + 1)
        BY <2>2, <2>8, <2>9, <4>1, <4>5
      <4>7. {i \in D : <<b, i>> \in vs} = {i \in D : ts # {} /\ ~truth[b][i].ok}
        <5>1. ASSUME NEW i \in D PROVE <<b, i>> \in vs <=> ts # {} /\ ~truth[b][i].ok
          BY <2>1, <4>1, <4>5
        <5> QED
          BY <5>1
      <4> QED
        BY <4>2, <4>3, <4>4, <4>6, <4>7
    <3>2. CASE b \notin full
      <4>1. ts = {} /\ rs = {} /\ ls = {} /\ \A i : <<b, i>> \notin vs
        BY <2>6, <3>2 DEF ts, rs, ls, vs
      <4> QED
        BY <2>9, <4>1
    <3> QED
      BY <3>1, <3>2
  <2> HIDE DEF of
  <2> QED
    BY <2>10
<1>2. {b.number : b \in tables.blocks} = kept
  <2>1. tables.blocks = {BlockRows(b).block : b \in kept} /\ \A b : BlockRows(b).block.number = b
    BY DEF TablesOf, BlockRows
  <2> QED
    BY <2>1
<1>3. DetailsWhole <=> \A b \in {b.number : b \in tables.blocks} : Whole(b)
  BY DEF DetailsWhole
<1> QED
  <2> HIDE DEF Whole
  <2> QED
    BY <1>1, <1>2, <1>3

\* Of all that is kept, the blocks' rows change only as blocks are read.
LEMMA RecordsStep == RecordsNext \/ Rests \/ UNCHANGED recordsVars => [ReadingNext]_readingVars
<1> SUFFICES ASSUME RecordsNext \/ Rests \/ UNCHANGED recordsVars PROVE [ReadingNext]_readingVars
  OBVIOUS
<1> USE DEF readingVars
<1>1. CASE running = "blocks" /\ ReadingNext
  BY <1>1
<1>2. CASE truth' = truth /\ tables' = tables
  BY <1>2
<1>3. ASSUME TotalsNext PROVE [ReadingNext]_readingVars
  <2>1. CASE \E n \in Asked : ReadsBlock(n, "light")
    BY <2>1 DEF ReadingNext
  <2>2. ASSUME NEW r \in Readers, TotalsStep(r) PROVE truth' = truth /\ tables' = tables
    BY <2>2 DEF TotalsStep, AsksTotals, TotalsRead, TotalsTold
  <2>3. CASE RecountReads \/ RecountEnds \/ RecountFails
    BY <2>3 DEF RecountReads, RecountEnds, RecountFails
  <2> QED
    BY <1>3, <2>1, <2>2, <2>3 DEF TotalsNext
<1>4. ASSUME SalesStep PROVE truth' = truth /\ tables' = tables
  BY <1>4 DEF SalesStep, AgentSigns, RecordsSettlement, AgentCloses
<1>5. ASSUME ClockTicks PROVE truth' = truth /\ tables' = tables
  BY <1>5 DEF ClockTicks
<1> QED
  BY <1>1, <1>2, <1>3, <1>4, <1>5 DEF RecordsNext, Rests, recordsVars, figuresVars

LEMMA RowsFitSay == ReadingInv => RowsTellTheTruth
<1> SUFFICES ASSUME ReadingInv PROVE RowsTellTheTruth
  OBVIOUS
<1>1. truth \in [Asked -> Contents]
  BY DEF ReadingInv
<1>2. PICK kept \in SUBSET Asked : \E full \in SUBSET kept : tables = TablesOf(kept, full)
  BY DEF ReadingInv, RowsFit
<1>3. PICK full \in SUBSET kept : tables = TablesOf(kept, full)
  BY <1>2
<1>4. StatsTrue /\ DeploysTrue
  BY <1>3, StatsSay, DeploysSay
<1>5. PaymentsTrue /\ DetailsWhole
  BY <1>1, <1>3, PaymentsSay, DetailsSay
<1> QED
  BY <1>4, <1>5 DEF RowsTellTheTruth

\* Whatever an endpoint mixes up, cuts or leaves out in its answers, the rows
\* kept of a block are what happened in it, whatever its transactions are:
\* its operations and their fees, each of its payments once, the contracts
\* it created, and all of its details or none (parse.ts, payments.ts, write.ts).
THEOREM RowsAreTrue == RecordsSpec => []RowsTellTheTruth
<1>1. RecordsInit => ReadingInv
  BY RowsFitFirst DEF RecordsInit, FiguresInit
<1>2. ReadingInv /\ [RecordsNext \/ Rests]_recordsVars => ReadingInv'
  BY RowsFitNext, RecordsStep
<1>3. ReadingInv => RowsTellTheTruth
  BY RowsFitSay
<1> QED
  BY <1>1, <1>2, <1>3, PTL DEF RecordsSpec

-----------------------------------------------------------------------------
(* The running price. *)

\* A list of numbers has a least and a greatest.
LEMMA ExtremesTo ==
    ASSUME NEW n \in Nat, n # 0, NEW s, \A i \in 1 .. n : s[i] \in Nat
    PROVE  /\ \E i \in 1 .. n : \A j \in 1 .. n : s[i] <= s[j]
           /\ \E i \in 1 .. n : \A j \in 1 .. n : s[j] <= s[i]
<1> DEFINE least(k) == \E i \in 1 .. k : \A j \in 1 .. k : s[i] <= s[j]
           greatest(k) == \E i \in 1 .. k : \A j \in 1 .. k : s[j] <= s[i]
           S == {k \in Nat : k = 0 \/ n < k \/ (least(k) /\ greatest(k))}
<1>1. n \in Nat /\ n # 0 /\ \A i \in 1 .. n : s[i] \in Nat
  OBVIOUS
<1>2. 0 \in S
  OBVIOUS
<1>3. ASSUME NEW k \in Nat, k \in S PROVE k + 1 \in S
  <2> DEFINE m == k + 1
  <2>1. m \in Nat /\ m # 0 /\ 1 .. m = (1 .. k) \cup {m} /\ k < m /\ m \in 1 .. m
    OBVIOUS
  <2> HIDE DEF m
  <2>2. CASE n < m
    BY <2>1, <2>2 DEF m
  <2>3. CASE m <= n /\ k = 0
    <3>1. 1 .. m = {m} /\ s[m] \in Nat
      BY <1>1, <2>1, <2>3
    <3>2. least(m) /\ greatest(m)
      BY <3>1
    <3> QED
      BY <2>1, <3>2 DEF m
  <2>4. CASE m <= n /\ k # 0
    <3>1. \A j \in 1 .. m : s[j] \in Nat
      BY <1>1, <2>1, <2>4
    <3>2. least(k) /\ greatest(k)
      BY <1>1, <1>3, <2>1, <2>4
    <3>3. PICK i \in 1 .. k : \A j \in 1 .. k : s[i] <= s[j]
      BY <3>2
    <3>4. PICK h \in 1 .. k : \A j \in 1 .. k : s[j] <= s[h]
      BY <3>2
    <3>5. s[i] \in Nat /\ s[h] \in Nat /\ s[m] \in Nat
      BY <2>1, <3>1
    <3>6. least(m)
      <4>1. CASE s[i] <= s[m]
        BY <2>1, <3>3, <4>1
      <4>2. CASE s[m] <= s[i]
        <5>1. \A j \in 1 .. m : s[m] <= s[j]
          BY <2>1, <3>1, <3>3, <3>5, <4>2
        <5> QED
          BY <2>1, <5>1
      <4> QED
        BY <3>5, <4>1, <4>2
    <3>7. greatest(m)
      <4>1. CASE s[m] <= s[h]
        BY <2>1, <3>4, <4>1
      <4>2. CASE s[h] <= s[m]
        <5>1. \A j \in 1 .. m : s[j] <= s[m]
          BY <2>1, <3>1, <3>4, <3>5, <4>2
        <5> QED
          BY <2>1, <5>1
      <4> QED
        BY <3>5, <4>1, <4>2
    <3> QED
      BY <2>1, <3>6, <3>7 DEF m
  <2> QED
    BY <1>1, <2>1, <2>2, <2>3, <2>4
<1>4. Nat \subseteq S
  <2> HIDE DEF S
  <2> QED
    BY <1>2, <1>3, CountingUp
<1>5. n \in S
  BY <1>1, <1>4
<1>6. ~(n < n)
  BY <1>1
<1> QED
  BY <1>1, <1>5, <1>6

LEMMA Extremes ==
    ASSUME NEW s \in Seq(Nat), Len(s) # 0
    PROVE  /\ \E i \in DOMAIN s : \A j \in DOMAIN s : s[i] <= s[j]
           /\ \E i \in DOMAIN s : \A j \in DOMAIN s : s[j] <= s[i]
<1>1. Len(s) \in Nat /\ DOMAIN s = 1 .. Len(s) /\ \A i \in 1 .. Len(s) : s[i] \in Nat
  OBVIOUS
<1> QED
  BY <1>1, ExtremesTo

\* The first of the rates in order is the least, the last the greatest.
LEMMA KthFirst ==
    ASSUME NEW s \in Seq(Nat), Len(s) # 0
    PROVE  Kth(s, 1) \in Nat /\ (\E i \in DOMAIN s : Kth(s, 1) = s[i]) /\ \A i \in DOMAIN s : Kth(s, 1) <= s[i]
<1> DEFINE V == {s[i] : i \in DOMAIN s}
           below(v) == {i \in DOMAIN s : s[i] < v}
           upTo(v) == {i \in DOMAIN s : s[i] <= v}
           P(v) == Cardinality(below(v)) < 1 /\ 1 <= Cardinality(upTo(v))
<1>1. /\ \A i \in DOMAIN s : s[i] \in Nat
      /\ IsFiniteSet(DOMAIN s)
  <2>1. DOMAIN s = 1 .. Len(s) /\ Len(s) \in Nat
    OBVIOUS
  <2> DEFINE one == 1
  <2>2. one \in Int /\ Len(s) \in Int
    OBVIOUS
  <2> HIDE DEF one
  <2>3. IsFiniteSet(one .. Len(s))
    BY <2>2, FS_Interval
  <2> QED
    BY <2>1, <2>3 DEF one
<1>2. ASSUME NEW v
      PROVE  /\ IsFiniteSet(below(v)) /\ IsFiniteSet(upTo(v))
             /\ Cardinality(below(v)) \in Nat /\ Cardinality(upTo(v)) \in Nat
             /\ Cardinality(below(v)) = 0 <=> below(v) = {}
             /\ Cardinality(upTo(v)) = 0 <=> upTo(v) = {}
  <2>1. below(v) \in SUBSET DOMAIN s /\ upTo(v) \in SUBSET DOMAIN s
    OBVIOUS
  <2> HIDE DEF below, upTo
  <2>2. IsFiniteSet(below(v)) /\ IsFiniteSet(upTo(v))
    BY <1>1, <2>1, FS_Subset
  <2> QED
    BY <2>2, FS_CardinalityType, FS_EmptySet
<1>3. \E v \in V : P(v)
  <2>1. PICK i \in DOMAIN s : \A j \in DOMAIN s : s[i] <= s[j]
    BY Extremes
  <2> DEFINE v == s[i]
  <2>2. below(v) = {} /\ i \in upTo(v) /\ v \in V
    BY <1>1, <2>1
  <2> HIDE DEF below, upTo, V, v
  <2> DEFINE b == Cardinality(below(v))
             u == Cardinality(upTo(v))
  <2>3. b = 0 /\ u # 0 /\ u \in Nat
    BY <1>2, <2>2
  <2>4. b < 1 /\ 1 <= u
    <3> HIDE DEF b, u
    <3> QED
      BY <2>3
  <2> QED
    BY <2>2, <2>4
<1>4. Kth(s, 1) = CHOOSE v \in V : P(v)
  BY DEF Kth
<1>5. Kth(s, 1) \in V /\ P(Kth(s, 1))
  <2> HIDE DEF V, P
  <2> QED
    BY <1>3, <1>4
<1>6. below(Kth(s, 1)) = {}
  <2> HIDE DEF below, upTo, V
  <2> QED
    BY <1>2, <1>5
<1> QED
  BY <1>1, <1>5, <1>6

LEMMA KthLast ==
    ASSUME NEW s \in Seq(Nat), Len(s) # 0
    PROVE  Kth(s, Len(s)) \in Nat /\ (\E i \in DOMAIN s : Kth(s, Len(s)) = s[i]) /\ \A i \in DOMAIN s : s[i] <= Kth(s, Len(s))
<1> DEFINE V == {s[i] : i \in DOMAIN s}
           n == Len(s)
           below(v) == {i \in DOMAIN s : s[i] < v}
           upTo(v) == {i \in DOMAIN s : s[i] <= v}
           P(v) == Cardinality(below(v)) < n /\ n <= Cardinality(upTo(v))
<1>1. /\ \A i \in DOMAIN s : s[i] \in Nat
      /\ IsFiniteSet(DOMAIN s) /\ Cardinality(DOMAIN s) = n
  <2>1. DOMAIN s = 1 .. n /\ n \in Nat
    OBVIOUS
  <2> DEFINE one == 1
  <2>2. one \in Int /\ n \in Int /\ one = 1
    OBVIOUS
  <2> HIDE DEF one
  <2>3. IsFiniteSet(one .. n) /\ Cardinality(one .. n) = IF one > n THEN 0 ELSE n - one + 1
    BY <2>2, FS_Interval
  <2> HIDE DEF n
  <2> QED
    BY <2>1, <2>2, <2>3
<1>2. ASSUME NEW v
      PROVE  /\ Cardinality(below(v)) \in Nat /\ Cardinality(upTo(v)) \in Nat
             /\ Cardinality(below(v)) <= n /\ Cardinality(upTo(v)) <= n
             /\ Cardinality(below(v)) = n => below(v) = DOMAIN s
             /\ Cardinality(upTo(v)) = n => upTo(v) = DOMAIN s
  <2>1. below(v) \in SUBSET DOMAIN s /\ upTo(v) \in SUBSET DOMAIN s
    OBVIOUS
  <2> HIDE DEF below, upTo, n
  <2>2. IsFiniteSet(below(v)) /\ IsFiniteSet(upTo(v))
    BY <1>1, <2>1, FS_Subset
  <2> QED
    BY <1>1, <2>1, <2>2, FS_CardinalityType, FS_Subset
<1>3. \E v \in V : P(v)
  <2>1. PICK i \in DOMAIN s : \A j \in DOMAIN s : s[j] <= s[i]
    BY Extremes
  <2> DEFINE v == s[i]
  <2>2. upTo(v) = DOMAIN s
    BY <2>1
  <2>3. i \notin below(v) /\ i \in DOMAIN s /\ v \in V
    BY <1>1
  <2>4. n \in Nat
    OBVIOUS
  <2> HIDE DEF below, upTo, V, n, v
  <2>5. Cardinality(below(v)) # n
    BY <1>2, <2>3
  <2>6. P(v)
    BY <1>1, <1>2, <2>2, <2>4, <2>5
  <2> QED
    BY <2>3, <2>6
<1>4. Kth(s, n) = CHOOSE v \in V : P(v)
  BY DEF Kth
<1>5. Kth(s, n) \in V /\ P(Kth(s, n))
  <2> HIDE DEF V, P
  <2> QED
    BY <1>3, <1>4
<1>6. upTo(Kth(s, n)) = DOMAIN s
  <2>1. n \in Nat
    OBVIOUS
  <2> HIDE DEF below, upTo, V, n
  <2> QED
    BY <1>2, <1>5, <2>1
<1> QED
  BY <1>1, <1>5, <1>6

\* Of rates that agree with each other, some agree.
LEMMA SomeAgree ==
    ASSUME NEW s \in Seq(Nat), Len(s) # 0, NEW p \in Seq(Nat), Len(p) # 0,
           \A i \in DOMAIN p : \E j \in DOMAIN s : p[i] = s[j],
           Agree(s)
    PROVE  Agree(p)
<1> DEFINE sLow == Kth(s, 1)
           sHigh == Kth(s, Len(s))
           pLow == Kth(p, 1)
           pHigh == Kth(p, Len(p))
<1>1. sLow \in Nat /\ \A j \in DOMAIN s : sLow <= s[j]
  BY KthFirst
<1>2. sHigh \in Nat /\ \A j \in DOMAIN s : s[j] <= sHigh
  BY KthLast
<1>3. pLow \in Nat /\ \E i \in DOMAIN p : pLow = p[i]
  BY KthFirst
<1>4. pHigh \in Nat /\ \E i \in DOMAIN p : pHigh = p[i]
  BY KthLast
<1>5. sLow <= pLow /\ pHigh <= sHigh
  <2> HIDE DEF sLow, sHigh, pLow, pHigh
  <2> QED
    BY <1>1, <1>2, <1>3, <1>4
<1>6. 100 * (sHigh - sLow) <= 3 * Deviation * sLow
  BY DEF Agree
<1>7. Deviation \in Nat
  BY ReferenceAssumption
<1> HIDE DEF sLow, sHigh, pLow, pHigh
<1> DEFINE D == 3 * Deviation
<1>8. D \in Nat
  BY <1>7
<1>9. 100 * (sHigh - sLow) <= D * sLow
  BY <1>6
<1> HIDE DEF D
<1>10. D * sLow <= D * pLow
  <2>1. pLow - sLow \in Nat /\ pLow = sLow + (pLow - sLow)
    BY <1>1, <1>3, <1>5
  <2>2. D * (pLow - sLow) \in Nat
    BY <1>8, <2>1
  <2>3. D * pLow = D * sLow + D * (pLow - sLow)
    BY <1>1, <1>3, <1>8
  <2>4. D * sLow \in Nat
    BY <1>1, <1>8
  <2> QED
    BY <2>2, <2>3, <2>4
<1>11. 100 * (pHigh - pLow) <= D * pLow
  <2>1. D * sLow \in Nat /\ D * pLow \in Nat
    BY <1>1, <1>3, <1>8
  <2>2. 100 * (pHigh - pLow) <= 100 * (sHigh - sLow)
    BY <1>1, <1>2, <1>3, <1>4, <1>5
  <2> QED
    BY <1>1, <1>2, <1>3, <1>4, <1>9, <1>10, <2>1, <2>2
<1> QED
  BY <1>11 DEF Agree, D, pHigh, pLow

\* The last n of s and one more.
LEMMA OneMoreOf ==
    ASSUME NEW T, NEW s \in Seq(T), NEW e \in T, NEW n \in Nat \ {0}, Len(s) <= n
    PROVE  LET t == LastOf(Append(s, e), n) IN
           /\ t \in Seq(T) /\ Len(t) \in Nat
           /\ Len(t) = IF Len(s) < n THEN Len(s) + 1 ELSE n
           /\ t[Len(t)] = e
           /\ \A i \in 1 .. Len(t) - 1 : t[i] = s[((Len(s) - Len(t)) + i) + 1]
<1> DEFINE a == Append(s, e)
           m == Len(s)
<1>1. m \in Nat /\ a \in Seq(T) /\ Len(a) = m + 1 /\ a[m + 1] = e /\ \A i \in 1 .. m : a[i] = s[i]
  OBVIOUS
<1> HIDE DEF a
<1>2. CASE m < n
  <2>1. LastOf(a, n) = a
    BY <1>1, <1>2 DEF LastOf
  <2>2. \A i \in 1 .. m : a[i] = s[((m - (m + 1)) + i) + 1]
    BY <1>1
  <2> QED
    BY <1>1, <1>2, <2>1, <2>2 DEF a
<1>3. CASE m = n
  <2> DEFINE t == LastOf(a, n)
  <2>1. t = SubSeq(a, ((m + 1) - n) + 1, m + 1)
    BY <1>1, <1>3 DEF LastOf
  <2>2. t = SubSeq(a, 2, m + 1)
    <3>1. ((m + 1) - n) + 1 = 2
      BY <1>1, <1>3
    <3> QED
      BY <2>1, <3>1, Zenon
  <2>3. t \in Seq(T) /\ Len(t) = n /\ \A i \in 1 .. n : t[i] = a[i + 1]
    BY <1>1, <1>3, <2>2
  <2> HIDE DEF t
  <2>4. t[n] = e
    BY <1>1, <1>3, <2>3
  <2>5. \A i \in 1 .. n - 1 : t[i] = s[((m - n) + i) + 1]
    <3> TAKE i \in 1 .. n - 1
    <3>1. i + 1 \in 1 .. m /\ i \in 1 .. n /\ ((m - n) + i) + 1 = i + 1
      BY <1>1, <1>3
    <3> QED
      BY <1>1, <2>3, <3>1
  <2> QED
    BY <1>1, <1>3, <2>3, <2>4, <2>5 DEF t, a
<1> QED
  BY <1>1, <1>2, <1>3

\* What a rate judged does to those rejected in a row.
LEMMA Outcomes ==
    ASSUME NEW r
    PROVE  LET a == Accept(r)
               p == Append(pending, r)
           IN \/ rates = <<>> /\ a.ok = FALSE /\ a.pending = pending
              \/ rates # <<>> /\ Near(r, rates) /\ a.ok = TRUE /\ a.pending = <<>>
              \/ rates # <<>> /\ ~Near(r, rates) /\ Len(p) < Warmup /\ a.ok = FALSE /\ a.pending = p /\ a.rates = rates
              \/ rates # <<>> /\ ~Near(r, rates) /\ ~(Len(p) < Warmup) /\ Agree(p) /\ a.ok = TRUE /\ a.pending = <<>>
              \/ rates # <<>> /\ ~Near(r, rates) /\ ~(Len(p) < Warmup) /\ ~Agree(p) /\ a.ok = FALSE
                 /\ a.pending = Tail(p) /\ a.rates = rates
<1>1. CASE rates = <<>>
  BY <1>1 DEF Accept, ColdStart
<1>2. CASE rates # <<>>
  BY <1>2 DEF Accept, Rejected
<1> QED
  BY <1>1, <1>2

\* The last u judged of the market, each on a warm reference and not taken, are
\* the last u rejected, some of them perhaps more than once.
Run(u) == u <= Len(market) /\ \A i \in (Len(market) - u) + 1 .. Len(market) : market[i].warm /\ ~market[i].taken
Rejections ==
    \A u \in 0 .. Warmup - 1 : Run(u) =>
        /\ u <= Len(pending)
        /\ \A k \in (Len(pending) - u) + 1 .. Len(pending) :
            \E i \in (Len(market) - u) + 1 .. Len(market) : pending[k] = market[i].rate

\* When no range was judged twice, the rejected are the last of the market.
LastRejected ==
    /\ Len(pending) <= Len(market)
    /\ \A k \in 1 .. Len(pending) : pending[k] = market[(Len(market) - Len(pending)) + k].rate

PriceInv ==
    /\ pending \in Seq(Quotes) /\ Len(pending) < Warmup
    /\ market \in Seq(Seen) /\ Len(market) <= Warmup
    /\ rereads \in Nat
    /\ rates = <<>> => pending = <<>>
    /\ Rejections /\ MarketFollowed
    /\ rereads = 0 => LastRejected /\ NoiseNeverTakesOver

LEMMA PriceFirst == ReferenceInit => PriceInv
<1> SUFFICES ASSUME ReferenceInit PROVE PriceInv
  OBVIOUS
<1>1. pending = <<>> /\ market = <<>> /\ rereads = 0
  BY DEF ReferenceInit
<1>2. Warmup \in Nat \ {0}
  BY ReferenceAssumption
<1>3. Len(<<>>) = 0 /\ DOMAIN market = {}
  BY <1>1
<1>4. Rejections /\ LastRejected
  BY <1>1, <1>2, <1>3 DEF Rejections, Run, LastRejected
<1>5. MarketFollowed /\ NoiseNeverTakesOver
  BY <1>1, <1>2, <1>3 DEF MarketFollowed, FullRow, NoiseNeverTakesOver, Overtaken
<1> QED
  BY <1>1, <1>2, <1>3, <1>4, <1>5 DEF PriceInv

\* What Judge and a judgement are.
LEMMA JudgedIs ==
    ASSUME NEW r \in Quotes
    PROVE  LET j == Judged(r) IN
           /\ j \in Seen /\ j.rate = r /\ (j.warm <=> rates # <<>>) /\ (j.taken <=> Accept(r).ok)
           /\ j.far <=> Accept(r).ok /\ ~Near(r, rates)
<1>1. Accept(r).ok \in BOOLEAN
  BY Outcomes
<1> QED
  BY <1>1 DEF Judged, Seen
\* The next trade: what was rejected so far meets it, and perhaps gives way.
LEMMA PriceTrade ==
    ASSUME PriceInv, NEW r \in Quotes, Trade(r)
    PROVE  PriceInv'
<1> DEFINE a == Accept(r)
           p == Append(pending, r)
           j == Judged(r)
           n == Len(market)
           m == Len(market')
           q == Len(pending)
<1>1. /\ pending \in Seq(Quotes) /\ q < Warmup /\ q \in Nat
      /\ market \in Seq(Seen) /\ n <= Warmup /\ n \in Nat
      /\ rereads \in Nat /\ (rates = <<>> => pending = <<>>)
      /\ Rejections /\ MarketFollowed
  BY DEF PriceInv
<1>2. /\ rates' = a.rates /\ pending' = a.pending /\ rereads' = rereads
      /\ market' = LastOf(Append(market, j), Warmup)
  BY DEF Trade, Judge
<1>3. Warmup \in Nat \ {0} /\ Quotes \subseteq Nat
  BY ReferenceAssumption
<1>4. j \in Seen /\ j.rate = r /\ (j.warm <=> rates # <<>>) /\ (j.taken <=> a.ok) /\ (j.far <=> a.ok /\ ~Near(r, rates))
  BY JudgedIs
<1>5. p \in Seq(Quotes) /\ Len(p) = q + 1 /\ p[q + 1] = r /\ \A k \in 1 .. q : p[k] = pending[k]
  BY <1>1
<1> HIDE DEF j, p, a
<1>6. /\ market' \in Seq(Seen) /\ m \in Nat
      /\ m = IF n < Warmup THEN n + 1 ELSE Warmup
      /\ market'[m] = j
      /\ \A i \in 1 .. m - 1 : market'[i] = market[((n - m) + i) + 1]
  <2> DEFINE t == LastOf(Append(market, j), Warmup)
  <2>1. /\ t \in Seq(Seen) /\ Len(t) \in Nat
        /\ Len(t) = IF Len(market) < Warmup THEN Len(market) + 1 ELSE Warmup
        /\ t[Len(t)] = j
        /\ \A i \in 1 .. Len(t) - 1 : t[i] = market[((Len(market) - Len(t)) + i) + 1]
    BY <1>1, <1>3, <1>4, OneMoreOf
  <2>2. market' = t
    BY <1>2
  <2> HIDE DEF t
  <2> QED
    BY <2>1, <2>2
<1>7. m \in 1 .. Warmup /\ n + 1 >= m
  BY <1>1, <1>3, <1>6
<1> HIDE DEF n, m, q
<1>8. CASE a.ok
  <2>1. pending' = <<>> /\ rates # <<>>
        /\ (~Near(r, rates) => ~(Len(p) < Warmup) /\ Agree(p))
    BY <1>2, <1>8, Outcomes DEF a, p
  <2>2. Len(pending') = 0 /\ pending' \in Seq(Quotes)
    BY <2>1
  <2>3. market'[m].taken
    BY <1>4, <1>6, <1>8
  <2>4. Rejections'
    <3> SUFFICES ASSUME NEW u \in 0 .. Warmup - 1, Run(u)' PROVE u = 0
      BY <1>3, <2>2 DEF Rejections, m
    <3> QED
      BY <1>3, <1>7, <2>3 DEF Run, m
  <2>5. MarketFollowed'
    BY <1>6, <1>7, <2>3 DEF MarketFollowed, m
  <2>6. ASSUME rereads' = 0 PROVE LastRejected' /\ NoiseNeverTakesOver'
    <3>1. LastRejected'
      BY <1>7, <2>2 DEF LastRejected, m
    <3>2. LastRejected
      BY <1>2, <2>6 DEF PriceInv
    <3>3. ASSUME ~Near(r, rates) PROVE m = Warmup /\ Agree(MarketRates')
      <4>1. q + 1 = Warmup /\ Agree(p) /\ Len(p) = Warmup
        BY <1>1, <1>3, <1>5, <2>1, <3>3
      <4>2. m = Warmup /\ q <= n
        BY <1>1, <1>6, <3>2, <4>1 DEF LastRejected, q, n
      <4>3. \A k \in 1 .. Warmup : p[k] = market'[k].rate
        <5> TAKE k \in 1 .. Warmup
        <5>1. CASE k = Warmup
          BY <1>4, <1>5, <1>6, <4>1, <4>2, <5>1
        <5>2. CASE k < Warmup
          <6>1. k \in 1 .. q /\ k \in 1 .. m - 1
            BY <1>1, <1>3, <4>1, <4>2, <5>2
          <6>2. p[k] = market[(n - q) + k].rate
            BY <1>5, <3>2, <6>1 DEF LastRejected, n, q
          <6>3. market'[k] = market[((n - m) + k) + 1]
            BY <1>6, <6>1
          <6>4. (n - q) + k = ((n - m) + k) + 1
            BY <1>1, <4>1, <4>2, <1>3
          <6> QED
            BY <6>2, <6>3, <6>4
        <5> QED
          BY <1>3, <5>1, <5>2
      <4>4. MarketRates' = [i \in 1 .. Warmup |-> market'[i].rate]
        BY <1>6, <4>2 DEF MarketRates, m
      <4>5. p = [i \in 1 .. Warmup |-> p[i]]
        BY <1>3, <1>5, <4>1
      <4>6. p = MarketRates'
        BY <4>3, <4>4, <4>5
      <4> QED
        BY <4>1, <4>2, <4>6
    <3>4. NoiseNeverTakesOver'
      <4>1. CASE Near(r, rates)
        <5>1. ~market'[m].far
          BY <1>4, <1>6, <4>1
        <5> QED
          BY <5>1 DEF NoiseNeverTakesOver, Overtaken, m
      <4>2. CASE ~Near(r, rates)
        <5>1. m = Warmup /\ Agree(MarketRates')
          BY <3>3, <4>2
        <5>2. Warmup' = Warmup /\ Agree(MarketRates)' = Agree(MarketRates')
          BY DEF Agree, Kth
        <5> QED
          BY <5>1, <5>2 DEF NoiseNeverTakesOver, m
      <4> QED
        BY <4>1, <4>2
    <3> QED
      BY <3>1, <3>4
  <2> QED
    BY <1>1, <1>2, <1>3, <1>6, <1>7, <2>1, <2>2, <2>4, <2>5, <2>6 DEF PriceInv, m
<1>9. CASE ~a.ok
  <2>1. ~market'[m].taken /\ ~market'[m].far /\ (market'[m].warm <=> rates # <<>>)
    BY <1>4, <1>6, <1>9
  <2>2. ASSUME NEW u \in 1 .. Warmup, Run(u)'
        PROVE  u <= m /\ rates # <<>> /\ Run(u - 1)
               /\ \A i \in (n - (u - 1)) + 1 .. n : \E h \in (m - u) + 1 .. m : market[i].rate = market'[h].rate
    <3>1. u <= m /\ \A h \in (m - u) + 1 .. m : market'[h].warm /\ ~market'[h].taken
      BY <2>2 DEF Run, m
    <3>2. rates # <<>>
      BY <1>3, <1>7, <2>1, <3>1
    <3>3. ASSUME NEW i \in (n - (u - 1)) + 1 .. n
          PROVE  \E h \in (m - u) + 1 .. m : market'[h] = market[i]
      <4> DEFINE h == (i + m) - (n + 1)
      <4>1. h \in 1 .. m - 1 /\ h \in (m - u) + 1 .. m /\ ((n - m) + h) + 1 = i
        BY <1>1, <1>3, <1>7, <3>1
      <4> HIDE DEF h
      <4> QED
        BY <1>6, <4>1
    <3>4. Run(u - 1)
      <4>1. u - 1 <= n
        BY <1>1, <1>3, <1>7, <3>1
      <4>2. ASSUME NEW i \in (n - (u - 1)) + 1 .. n PROVE market[i].warm /\ ~market[i].taken
        <5>1. PICK h \in (m - u) + 1 .. m : market'[h] = market[i]
          BY <3>3
        <5>2. market'[h].warm /\ ~market'[h].taken
          BY <3>1
        <5> QED
          BY <5>1, <5>2
      <4> QED
        BY <4>1, <4>2 DEF Run, n
    <3> QED
      BY <3>1, <3>2, <3>3, <3>4
  <2>3. CASE rates = <<>>
    <3>1. pending' = <<>>
      BY <1>1, <1>2, <1>9, <2>3, Outcomes DEF a, p
    <3>2. Len(pending') = 0 /\ pending' \in Seq(Quotes)
      BY <3>1
    <3>3. Rejections'
      <4> SUFFICES ASSUME NEW u \in 0 .. Warmup - 1, Run(u)' PROVE u = 0
        BY <1>3, <3>2 DEF Rejections, m
      <4> QED
        BY <1>3, <2>2, <2>3
    <3>4. MarketFollowed'
      BY <1>6, <1>7, <2>1, <2>3 DEF MarketFollowed, FullRow, m
    <3>5. LastRejected' /\ NoiseNeverTakesOver'
      BY <1>7, <2>1, <3>2 DEF LastRejected, NoiseNeverTakesOver, Overtaken, m
    <3> QED
      BY <1>1, <1>2, <1>3, <1>6, <1>7, <3>1, <3>2, <3>3, <3>4, <3>5 DEF PriceInv, m
  <2>4. CASE rates # <<>>
    <3> DEFINE w == Len(pending')
    <3>1. /\ rates' = rates
          /\ \/ q + 1 < Warmup /\ pending' = p
             \/ q + 1 = Warmup /\ pending' = Tail(p) /\ ~Agree(p)
      <4>1. \/ Len(p) < Warmup /\ a.pending = p /\ a.rates = rates
            \/ ~(Len(p) < Warmup) /\ ~Agree(p) /\ a.pending = Tail(p) /\ a.rates = rates
        BY <1>9, <2>4, Outcomes DEF a, p
      <4> QED
        BY <1>1, <1>2, <1>3, <1>5, <4>1
    <3>2. /\ pending' \in Seq(Quotes) /\ w \in Nat /\ w < Warmup
          /\ w = IF q + 1 < Warmup THEN q + 1 ELSE q
          /\ \A k \in 1 .. w : pending'[k] = p[((q + 1) - w) + k]
      <4>1. CASE q + 1 < Warmup
        <5>1. pending' = p
          BY <3>1, <4>1, <1>3, <1>1
        <5>2. w = q + 1
          BY <1>5, <5>1
        <5> HIDE DEF w
        <5> QED
          BY <1>1, <1>5, <4>1, <5>1, <5>2
      <4>2. CASE ~(q + 1 < Warmup)
        <5>1. pending' = Tail(p) /\ q + 1 = Warmup
          BY <3>1, <4>2, <1>3, <1>1
        <5>2. w = q /\ pending' \in Seq(Quotes) /\ \A k \in 1 .. q : pending'[k] = p[k + 1]
          BY <1>1, <1>5, <5>1
        <5> HIDE DEF w
        <5>3. \A k \in 1 .. w : pending'[k] = p[((q + 1) - w) + k]
          <6> TAKE k \in 1 .. w
          <6>1. ((q + 1) - w) + k = k + 1 /\ k \in 1 .. q
            BY <1>1, <5>2
          <6> QED
            BY <5>2, <6>1
        <5> QED
          BY <1>1, <1>3, <4>2, <5>1, <5>2, <5>3
      <4> QED
        BY <4>1, <4>2
    <3> HIDE DEF w
    <3>3. Rejections'
      <4> SUFFICES ASSUME NEW u \in 0 .. Warmup - 1, Run(u)'
                   PROVE  /\ u <= w
                          /\ \A k \in (w - u) + 1 .. w : \E i \in (m - u) + 1 .. m : pending'[k] = market'[i].rate
        BY <1>3 DEF Rejections, m, w
      <4>1. CASE u = 0
        BY <3>2, <4>1
      <4>2. CASE u # 0
        <5>1. u \in 1 .. Warmup /\ u - 1 \in 0 .. Warmup - 1
          BY <1>3, <4>2
        <5>2. /\ u <= m /\ Run(u - 1)
              /\ \A i \in (n - (u - 1)) + 1 .. n : \E h \in (m - u) + 1 .. m : market[i].rate = market'[h].rate
          BY <2>2, <5>1
        <5>3. /\ u - 1 <= q
              /\ \A k \in (q - (u - 1)) + 1 .. q :
                    \E i \in (n - (u - 1)) + 1 .. n : pending[k] = market[i].rate
          BY <1>1, <5>1, <5>2 DEF Rejections, n, q
        <5>4. u <= w
          BY <1>1, <1>3, <3>1, <3>2, <5>1, <5>3
        <5>5. ASSUME NEW k \in (w - u) + 1 .. w
              PROVE  \E i \in (m - u) + 1 .. m : pending'[k] = market'[i].rate
          <6> DEFINE g == ((q + 1) - w) + k
          <6>1. k \in 1 .. w /\ g \in Int /\ g <= q + 1 /\ g >= (q - (u - 1)) + 1
            BY <1>1, <1>3, <3>2, <5>1, <5>4
          <6>2. pending'[k] = p[g]
            BY <3>2, <6>1
          <6>3. CASE g = q + 1
            <7>1. m \in (m - u) + 1 .. m
              BY <1>3, <1>7, <5>1
            <7>2. pending'[k] = market'[m].rate
              BY <1>4, <1>5, <1>6, <6>2, <6>3
            <7> QED
              BY <7>1, <7>2
          <6>4. CASE g # q + 1
            <7>1. g \in (q - (u - 1)) + 1 .. q /\ g \in 1 .. q
              BY <1>1, <1>3, <5>1, <5>3, <6>1, <6>4
            <7> HIDE DEF g
            <7>2. PICK i \in (n - (u - 1)) + 1 .. n : pending[g] = market[i].rate
              BY <5>3, <7>1
            <7>3. PICK h \in (m - u) + 1 .. m : market[i].rate = market'[h].rate
              BY <5>2
            <7> QED
              BY <1>5, <6>2, <7>1, <7>2, <7>3
          <6> QED
            BY <6>3, <6>4
        <5> QED
          BY <5>4, <5>5
      <4> QED
        BY <4>1, <4>2
    <3>4. MarketFollowed'
      <4> SUFFICES ASSUME m = Warmup, Agree(MarketRates'),
                          \A i \in 1 .. m : market'[i].warm /\ ~market'[i].taken
                   PROVE  FALSE
        <5>1. Agree(MarketRates)' = Agree(MarketRates')
          BY DEF Agree, Kth
        <5>2. DOMAIN market' = 1 .. m
          BY <1>6 DEF m
        <5> QED
          BY <5>1, <5>2 DEF MarketFollowed, FullRow, m
      <4>1. Run(Warmup)'
        <5>1. (m - Warmup) + 1 = 1
          BY <1>3
        <5> QED
          BY <1>3, <5>1 DEF Run, m
      <4>2. /\ Run(Warmup - 1)
            /\ \A i \in (n - (Warmup - 1)) + 1 .. n : \E h \in (m - Warmup) + 1 .. m : market[i].rate = market'[h].rate
        BY <1>3, <2>2, <4>1
      <4>3. /\ Warmup - 1 <= q
            /\ \A k \in (q - (Warmup - 1)) + 1 .. q :
                  \E i \in (n - (Warmup - 1)) + 1 .. n : pending[k] = market[i].rate
        <5> DEFINE u == Warmup - 1
        <5>1. u \in 0 .. Warmup - 1 /\ Run(u)
          BY <1>3, <4>2
        <5> HIDE DEF u
        <5>2. /\ u <= q
              /\ \A k \in (q - u) + 1 .. q : \E i \in (n - u) + 1 .. n : pending[k] = market[i].rate
          BY <1>1, <5>1 DEF Rejections, n, q
        <5> QED
          BY <5>2 DEF u
      <4>4. q = Warmup - 1
        BY <1>1, <1>3, <4>3
      <4>5. ~Agree(p)
        BY <1>1, <1>3, <3>1, <4>4
      <4>6. ASSUME NEW k \in 1 .. q + 1 PROVE \E i \in 1 .. m : p[k] = market'[i].rate
        <5>1. CASE k = q + 1
          BY <1>4, <1>5, <1>6, <1>7, <5>1
        <5>2. CASE k # q + 1
          <6>1. k \in 1 .. q /\ k \in (q - (Warmup - 1)) + 1 .. q
            BY <1>1, <1>3, <4>4, <5>2
          <6>2. PICK i \in (n - (Warmup - 1)) + 1 .. n : pending[k] = market[i].rate
            BY <4>3, <6>1
          <6>3. PICK h \in (m - Warmup) + 1 .. m : market[i].rate = market'[h].rate
            BY <4>2
          <6>4. h \in 1 .. m
            BY <1>3, <1>7
          <6> QED
            BY <1>5, <6>1, <6>2, <6>3, <6>4
        <5> QED
          BY <5>1, <5>2
      <4> DEFINE s == MarketRates'
      <4>7. s = [i \in 1 .. m |-> market'[i].rate]
        BY <1>6 DEF MarketRates, m
      <4>8. s \in Seq(Nat) /\ Len(s) = m /\ DOMAIN s = 1 .. m /\ \A i \in 1 .. m : s[i] = market'[i].rate
        <5>1. \A i \in 1 .. m : market'[i].rate \in Nat
          <6> TAKE i \in 1 .. m
          <6>1. market'[i] \in Seen
            BY <1>6 DEF m
          <6>2. market'[i].rate \in Quotes
            BY <6>1 DEF Seen
          <6> QED
            BY <1>3, <6>2
        <5> HIDE DEF s
        <5> QED
          BY <1>6, <4>7, <5>1
      <4>9. p \in Seq(Nat) /\ DOMAIN p = 1 .. q + 1 /\ Len(p) # 0
        <5>1. \A k \in 1 .. Len(p) : p[k] \in Nat
          <6> TAKE k \in 1 .. Len(p)
          <6>1. p[k] \in Quotes
            BY <1>5
          <6> QED
            BY <1>3, <6>1
        <5>2. p \in Seq(Nat)
          BY <1>5, <5>1
        <5> QED
          BY <1>1, <1>5, <5>2
      <4>10. Agree(s)
        OBVIOUS
      <4> HIDE DEF s
      <4>11. Agree(p)
        <5>1. Len(s) # 0 /\ \A k \in DOMAIN p : \E i \in DOMAIN s : p[k] = s[i]
          <6>1. Len(s) # 0
            BY <1>7, <4>8
          <6>2. ASSUME NEW k \in DOMAIN p PROVE \E i \in DOMAIN s : p[k] = s[i]
            <7>1. PICK i \in 1 .. m : p[k] = market'[i].rate
              BY <4>6, <4>9
            <7>2. i \in DOMAIN s /\ s[i] = market'[i].rate
              BY <4>8
            <7> QED
              BY <7>1, <7>2
          <6> QED
            BY <6>1, <6>2
        <5> QED
          BY <4>8, <4>9, <4>10, <5>1, SomeAgree
      <4> QED
        BY <4>5, <4>11
    <3>5. ASSUME rereads' = 0 PROVE LastRejected' /\ NoiseNeverTakesOver'
      <4>1. LastRejected
        BY <1>2, <3>5 DEF PriceInv
      <4>2. q <= n /\ \A k \in 1 .. q : pending[k] = market[(n - q) + k].rate
        BY <4>1 DEF LastRejected, n, q
      <4>3. w <= m
        BY <1>1, <1>3, <1>6, <3>2, <4>2
      <4>4. ASSUME NEW k \in 1 .. w PROVE pending'[k] = market'[(m - w) + k].rate
        <5> DEFINE g == ((q + 1) - w) + k
        <5>1. g \in 1 .. q + 1 /\ pending'[k] = p[g]
          BY <1>1, <1>3, <3>2
        <5>2. CASE g = q + 1
          <6>1. (m - w) + k = m
            BY <1>1, <1>7, <3>2, <5>2
          <6> QED
            BY <1>4, <1>5, <1>6, <5>1, <5>2, <6>1
        <5>3. CASE g # q + 1
          <6>1. g \in 1 .. q
            BY <1>1, <5>1, <5>3
          <6>2. p[g] = market[(n - q) + g].rate
            BY <1>5, <4>2, <6>1
          <6>3. (m - w) + k \in 1 .. m - 1 /\ ((n - m) + ((m - w) + k)) + 1 = (n - q) + g
            BY <1>1, <1>3, <1>7, <3>2, <4>3, <5>3
          <6>4. market'[(m - w) + k] = market[(n - q) + g]
            BY <1>6, <6>3
          <6> QED
            BY <5>1, <6>2, <6>4
        <5> QED
          BY <5>2, <5>3
      <4>5. LastRejected'
        BY <4>3, <4>4 DEF LastRejected, m, w
      <4>6. NoiseNeverTakesOver'
        BY <2>1 DEF NoiseNeverTakesOver, Overtaken, m
      <4> QED
        BY <4>5, <4>6
    <3> QED
      BY <1>1, <1>2, <1>3, <1>6, <1>7, <2>4, <3>1, <3>2, <3>3, <3>4, <3>5 DEF PriceInv, m, w
  <2> QED
    BY <2>3, <2>4
<1> QED
  BY <1>8, <1>9

\* A range read again: its trade is judged again, and stays what it was.
LEMMA PriceReread ==
    ASSUME PriceInv, Reread
    PROVE  PriceInv'
<1> DEFINE n == Len(market)
           q == Len(pending)
           w == Len(pending')
           r == market[n].rate
           a == Accept(r)
           p == Append(pending, r)
           t == [market[n] EXCEPT !.taken = @ \/ a.ok, !.far = @ \/ Judged(r).far]
<1>1. /\ pending \in Seq(Quotes) /\ q < Warmup /\ q \in Nat
      /\ market \in Seq(Seen) /\ n <= Warmup /\ n \in Nat
      /\ rereads \in Nat /\ (rates = <<>> => pending = <<>>)
      /\ Rejections /\ MarketFollowed
  BY DEF PriceInv
<1>2. /\ n > 0 /\ rereads' = rereads + 1
      /\ rates' = a.rates /\ pending' = a.pending
      /\ market' = [market EXCEPT ![n] = t]
  <2>1. n > 0 /\ rereads' = rereads + 1 /\ Judge(r)
    BY DEF Reread
  <2>2. rates' = a.rates /\ pending' = a.pending
    BY <2>1 DEF Judge
  <2>3. market' = [market EXCEPT ![n] = t]
    BY Zenon DEF Reread
  <2> QED
    BY <2>1, <2>2, <2>3
<1>3. Warmup \in Nat \ {0}
  BY ReferenceAssumption
<1>4. market[n] \in Seen /\ r \in Quotes
  <2>1. market[n] \in Seen
    BY <1>1, <1>2
  <2> QED
    BY <2>1 DEF Seen
<1>5. p \in Seq(Quotes) /\ Len(p) = q + 1 /\ p[q + 1] = r /\ \A k \in 1 .. q : p[k] = pending[k]
  BY <1>1, <1>4
<1>6. /\ t \in Seen /\ t.rate = r /\ (t.warm <=> market[n].warm) /\ (~t.taken => ~market[n].taken /\ ~a.ok)
  <2> DEFINE u == market[n]
             ok == u.taken \/ a.ok
             far == u.far \/ Judged(r).far
  <2>1. u \in Seen /\ a.ok \in BOOLEAN /\ Judged(r).far \in BOOLEAN
    BY <1>4, Outcomes, JudgedIs DEF Seen
  <2>2. ok \in BOOLEAN /\ far \in BOOLEAN
    BY <2>1
  <2>3. t = [u EXCEPT !.taken = ok, !.far = far]
    OBVIOUS
  <2> HIDE DEF ok, far, u, t
  <2>4. u = [rate |-> u.rate, warm |-> u.warm, taken |-> u.taken, far |-> u.far] /\ u.rate \in Quotes /\ u.warm \in BOOLEAN
    BY <2>1 DEF Seen
  <2> DEFINE v == [u EXCEPT !.taken = ok]
  <2>5. v = [rate |-> u.rate, warm |-> u.warm, taken |-> ok, far |-> u.far]
    BY <2>4
  <2>6. t = [v EXCEPT !.far = far]
    BY <2>3, <2>4
  <2> HIDE DEF v
  <2>7. t = [rate |-> u.rate, warm |-> u.warm, taken |-> ok, far |-> far]
    BY <2>5, <2>6
  <2>8. t \in Seen /\ t.rate = u.rate /\ t.warm = u.warm /\ t.taken = ok
    BY <2>2, <2>4, <2>7 DEF Seen
  <2> QED
    BY <2>8 DEF ok, u
<1> HIDE DEF p, a, t
<1>7. /\ market' \in Seq(Seen) /\ Len(market') = n /\ market'[n] = t
      /\ \A i \in 1 .. n - 1 : market'[i] = market[i]
  BY <1>1, <1>2, <1>6
<1>8. \A i \in 1 .. n : /\ market'[i].rate = market[i].rate /\ (market'[i].warm <=> market[i].warm)
                        /\ (~market'[i].taken => ~market[i].taken)
  <2> TAKE i \in 1 .. n
  <2>1. CASE i = n
    BY <1>6, <1>7, <2>1
  <2>2. CASE i # n
    <3>1. i \in 1 .. n - 1
      BY <1>1, <2>2
    <3>2. market'[i] = market[i]
      BY <1>7, <3>1
    <3> QED
      BY <3>2, Zenon
  <2> QED
    BY <2>1, <2>2
<1> HIDE DEF n, q, w, r
<1>9. /\ pending' \in Seq(Quotes) /\ w \in Nat /\ w < Warmup
      /\ (rates' = <<>> => pending' = <<>>)
      /\ a.ok \/ /\ w >= q
                 /\ \/ pending' = pending /\ rates = <<>>
                    \/ \A k \in 1 .. w : pending'[k] = p[((q + 1) - w) + k]
  <2>1. CASE rates = <<>>
    <3>1. pending' = pending /\ pending = <<>>
      BY <1>1, <1>2, <2>1, Outcomes DEF a
    <3>2. w = q
      BY <3>1 DEF w, q
    <3> QED
      BY <1>1, <2>1, <3>1, <3>2
  <2>2. CASE rates # <<>>
    <3>1. \/ a.ok = TRUE /\ pending' = <<>>
          \/ Len(p) < Warmup /\ pending' = p /\ rates' = rates
          \/ ~(Len(p) < Warmup) /\ pending' = Tail(p) /\ rates' = rates
      BY <1>2, <2>2, Outcomes DEF a, p
    <3>2. CASE a.ok = TRUE /\ pending' = <<>>
      <4>1. w = 0 /\ pending' \in Seq(Quotes)
        BY <3>2 DEF w
      <4> QED
        BY <1>3, <3>2, <4>1
    <3>3. CASE Len(p) < Warmup /\ pending' = p /\ rates' = rates
      <4>1. w = q + 1 /\ pending' \in Seq(Quotes) /\ w < Warmup /\ w \in Nat
        BY <1>1, <1>5, <3>3 DEF w
      <4>2. \A k \in 1 .. w : pending'[k] = p[((q + 1) - w) + k]
        BY <1>1, <3>3, <4>1
      <4> QED
        BY <1>1, <2>2, <3>3, <4>1, <4>2
    <3>4. CASE ~(Len(p) < Warmup) /\ pending' = Tail(p) /\ rates' = rates
      <4>1. w = q /\ pending' \in Seq(Quotes) /\ \A k \in 1 .. q : pending'[k] = p[k + 1]
        BY <1>1, <1>5, <3>4 DEF w
      <4>2. \A k \in 1 .. w : pending'[k] = p[((q + 1) - w) + k]
        <5> TAKE k \in 1 .. w
        <5>1. ((q + 1) - w) + k = k + 1 /\ k \in 1 .. q
          BY <1>1, <4>1
        <5> QED
          BY <4>1, <5>1
      <4>3. w \in Nat /\ w < Warmup /\ w >= q /\ rates' # <<>>
        BY <1>1, <2>2, <3>4, <4>1
      <4> QED
        BY <4>1, <4>2, <4>3
    <3> QED
      BY <3>1, <3>2, <3>3, <3>4
  <2> QED
    BY <2>1, <2>2
<1>10. Rejections'
  <2> SUFFICES ASSUME NEW u \in 0 .. Warmup - 1, Run(u)'
               PROVE  /\ u <= w
                      /\ \A k \in (w - u) + 1 .. w : \E i \in (n - u) + 1 .. n : pending'[k] = market'[i].rate
    BY <1>3, <1>7 DEF Rejections, n, w
  <2>1. CASE u = 0
    BY <1>9, <2>1
  <2>2. CASE u # 0
    <3>1. u <= n /\ \A i \in (n - u) + 1 .. n : market'[i].warm /\ ~market'[i].taken
      BY <1>7 DEF Run, n
    <3>2. u \in 1 .. n /\ (n - u) + 1 \in 1 .. n /\ n \in (n - u) + 1 .. n
      BY <1>1, <1>3, <2>2, <3>1
    <3>3. Run(u)
      <4>1. ASSUME NEW i \in (n - u) + 1 .. n PROVE market[i].warm /\ ~market[i].taken
        <5>1. i \in 1 .. n
          BY <1>1, <3>2
        <5> QED
          BY <1>8, <3>1, <5>1
      <4> QED
        BY <3>1, <4>1 DEF Run, n
    <3>4. ~a.ok
      <4>1. ~market'[n].taken
        BY <3>1, <3>2
      <4> QED
        BY <1>6, <1>7, <4>1
    <3>5. /\ u <= q
          /\ \A k \in (q - u) + 1 .. q : \E i \in (n - u) + 1 .. n : pending[k] = market[i].rate
      BY <1>1, <3>3 DEF Rejections, n, q
    <3>6. ASSUME NEW g \in (q - u) + 1 .. q
          PROVE  \E i \in (n - u) + 1 .. n : pending[g] = market'[i].rate
      <4>1. PICK i \in (n - u) + 1 .. n : pending[g] = market[i].rate
        BY <3>5
      <4>2. i \in 1 .. n
        BY <1>1, <3>2
      <4> QED
        BY <1>8, <4>1, <4>2
    <3>7. CASE pending' = pending
      <4>1. w = q
        BY <3>7 DEF w, q
      <4> QED
        BY <3>5, <3>6, <3>7, <4>1
    <3>8. CASE w >= q /\ \A k \in 1 .. w : pending'[k] = p[((q + 1) - w) + k]
      <4>1. u <= w
        BY <1>1, <1>9, <3>5, <3>8
      <4>2. ASSUME NEW k \in (w - u) + 1 .. w
            PROVE  \E i \in (n - u) + 1 .. n : pending'[k] = market'[i].rate
        <5> DEFINE g == ((q + 1) - w) + k
        <5>1. k \in 1 .. w /\ g \in Int /\ g <= q + 1 /\ g >= (q - u) + 1
          BY <1>1, <1>3, <1>9, <4>1
        <5>2. pending'[k] = p[g]
          BY <3>8, <5>1
        <5> HIDE DEF g
        <5>3. CASE g = q + 1
          <6>1. pending'[k] = market'[n].rate
            BY <1>5, <1>6, <1>7, <5>2, <5>3
          <6> QED
            BY <3>2, <6>1
        <5>4. CASE g # q + 1
          <6>1. g \in (q - u) + 1 .. q /\ g \in 1 .. q
            BY <1>1, <3>5, <5>1, <5>4
          <6> QED
            BY <1>5, <3>6, <5>2, <6>1
        <5> QED
          BY <5>3, <5>4
      <4> QED
        BY <4>1, <4>2
    <3> QED
      BY <1>9, <3>4, <3>7, <3>8
  <2> QED
    BY <2>1, <2>2
<1>11. MarketFollowed'
  <2>1. MarketRates' = MarketRates
    <3>1. MarketRates' = [i \in 1 .. n |-> market'[i].rate]
      BY <1>7 DEF MarketRates
    <3>2. MarketRates = [i \in 1 .. n |-> market[i].rate]
      BY <1>1 DEF MarketRates, n
    <3> QED
      BY <1>8, <3>1, <3>2
  <2>2. Agree(MarketRates)' <=> Agree(MarketRates)
    BY <2>1 DEF Agree, Kth
  <2>3. SUFFICES ASSUME n = Warmup, Agree(MarketRates),
                        \A i \in 1 .. n : market'[i].warm /\ ~market'[i].taken
                 PROVE  FALSE
    <3>1. DOMAIN market' = 1 .. n
      BY <1>7
    <3> QED
      BY <1>7, <2>2, <3>1 DEF MarketFollowed, FullRow
  <2>4. DOMAIN market = 1 .. n
    BY <1>1 DEF n
  <2>5. \A i \in 1 .. n : market[i].warm /\ ~market[i].taken
    BY <1>8, <2>3
  <2> QED
    BY <1>1, <2>3, <2>4, <2>5 DEF MarketFollowed, FullRow, n
<1>12. rereads' \in Nat /\ rereads' # 0
  BY <1>1, <1>2
<1> QED
  BY <1>1, <1>7, <1>9, <1>10, <1>11, <1>12 DEF PriceInv, w

LEMMA PriceNext == PriceInv /\ [ReferenceNext]_referenceVars => PriceInv'
<1> SUFFICES ASSUME PriceInv, [ReferenceNext]_referenceVars PROVE PriceInv'
  OBVIOUS
<1>1. ASSUME NEW r \in Quotes, Trade(r) PROVE PriceInv'
  BY <1>1, PriceTrade
<1>2. CASE Reread
  BY <1>2, PriceReread
<1>3. CASE Reseed
  <2>1. pending' = <<>> /\ market' = <<>> /\ rereads' = rereads /\ rereads \in Nat
    BY <1>3 DEF Reseed, PriceInv
  <2>2. Warmup \in Nat \ {0}
    BY ReferenceAssumption
  <2>3. Len(<<>>) = 0 /\ DOMAIN market' = {} /\ Len(pending') = 0 /\ Len(market') = 0
    BY <2>1
  <2>4. Rejections' /\ LastRejected'
    BY <2>1, <2>2, <2>3 DEF Rejections, Run, LastRejected
  <2>5. MarketFollowed' /\ NoiseNeverTakesOver'
    BY <2>1, <2>2, <2>3 DEF MarketFollowed, FullRow, NoiseNeverTakesOver, Overtaken
  <2> QED
    BY <2>1, <2>2, <2>3, <2>4, <2>5 DEF PriceInv
<1>4. CASE UNCHANGED referenceVars
  BY <1>4 DEF referenceVars, PriceInv, Rejections, Run, LastRejected, MarketFollowed, FullRow, MarketRates,
              NoiseNeverTakesOver, Overtaken, Agree, Kth
<1> QED
  BY <1>1, <1>2, <1>3, <1>4 DEF ReferenceNext

\* Of as many trades in a row as fix a price, if they agree with each other one
\* was taken; and while no range is judged twice, a trade far from the running
\* price is taken only as the last of enough that agree (reference.ts,
\* ReferencePrice.accept): for any window, deviation and number of trades.
THEOREM PriceIsHonest == ReferenceSpec => []PriceHonest
<1>1. PriceInv => PriceHonest
  BY DEF PriceInv, PriceHonest
<1> QED
  BY <1>1, PriceFirst, PriceNext, PTL DEF ReferenceSpec

\* The same of the run of the records, of which the price is a part.
THEOREM PriceIsHonestThere == RecordsSpec => []PriceHonest
<1>1. RecordsInit => PriceInv
  BY PriceFirst DEF RecordsInit
<1>2. RecordsNext \/ Rests \/ UNCHANGED recordsVars => [ReferenceNext]_referenceVars
  BY DEF RecordsNext, Rests, recordsVars
<1>3. PriceInv /\ [RecordsNext \/ Rests]_recordsVars => PriceInv'
  BY <1>2, PriceNext
<1>4. PriceInv => PriceHonest
  BY DEF PriceInv, PriceHonest
<1> QED
  BY <1>1, <1>3, <1>4, PTL DEF RecordsSpec

-----------------------------------------------------------------------------
(* Adding up over a finite set. *)

\* The function by which SumFunctionOnSet adds up, for every part of S.
Chosen(s) == CHOOSE x \in s : TRUE
IsTotal(g, f, S) == g = [s \in SUBSET S |-> IF s = {} THEN 0 ELSE f[Chosen(s)] + g[s \ {Chosen(s)}]]
Total(f, S) == SumFunctionOnSet(f, S)

\* What holds of the empty set, and of a set with one more when it holds of the
\* set, holds of a finite set.
LEMMA OneByOne ==
    ASSUME NEW S, IsFiniteSet(S), NEW P,
           {} \in P, \A T \in SUBSET S, x \in S : T \in P /\ x \notin T => T \cup {x} \in P
    PROVE  S \in P
<1> DEFINE N == {n \in Nat : \A T \in SUBSET S : Cardinality(T) = n => T \in P}
<1>1. 0 \in N
  <2> SUFFICES ASSUME NEW T \in SUBSET S, Cardinality(T) = 0 PROVE T \in P
    OBVIOUS
  <2>1. T = {}
    BY FS_Subset, FS_EmptySet
  <2> QED
    BY <2>1
<1>2. ASSUME NEW n \in Nat, n \in N PROVE n + 1 \in N
  <2> SUFFICES ASSUME NEW T \in SUBSET S, Cardinality(T) = n + 1 PROVE T \in P
    OBVIOUS
  <2>1. IsFiniteSet(T)
    BY FS_Subset
  <2>2. T # {}
    BY <2>1, FS_EmptySet
  <2>3. PICK x \in T : TRUE
    BY <2>2
  <2>4. Cardinality(T \ {x}) = n
    <3>1. Cardinality(T \ {x}) = Cardinality(T) - 1
      BY <2>1, <2>3, FS_RemoveElement
    <3> QED
      BY <3>1
  <2>5. T \ {x} \in P
    BY <1>2, <2>4
  <2>6. T = (T \ {x}) \cup {x}
    BY <2>3
  <2> QED
    BY <2>3, <2>5, <2>6
<1> HIDE DEF N
<1>3. Nat \subseteq N
  BY <1>1, <1>2, CountingUp
<1>4. Cardinality(S) \in Nat
  BY FS_CardinalityType
<1> QED
  BY <1>3, <1>4 DEF N

\* It exists: built by the size of the parts.
LEMMA TotalExists ==
    ASSUME NEW f, NEW S, IsFiniteSet(S)
    PROVE  \E g : IsTotal(g, f, S)
<1> DEFINE parts(n) == {s \in SUBSET S : Cardinality(s) <= n}
           step(g, s) == IF s = {} THEN 0 ELSE f[Chosen(s)] + g[s \ {Chosen(s)}]
           fits(g, n) == \A s \in parts(n) : g[s] = step(g, s)
           N == {n \in Nat : \E g : fits(g, n)}
<1>1. \A s \in SUBSET S : IsFiniteSet(s) /\ Cardinality(s) \in Nat
  BY FS_Subset, FS_CardinalityType
<1>2. ASSUME NEW s \in SUBSET S, s # {}
      PROVE  /\ Chosen(s) \in s /\ s \ {Chosen(s)} \in SUBSET S
             /\ Cardinality(s \ {Chosen(s)}) = Cardinality(s) - 1
  <2>1. Chosen(s) \in s
    BY <1>2 DEF Chosen
  <2> QED
    BY <1>1, <2>1, FS_RemoveElement
<1>3. 0 \in N
  <2> DEFINE g == [s \in SUBSET S |-> 0]
  <2>1. \A s \in parts(0) : s = {}
    <3> TAKE s \in parts(0)
    <3>1. Cardinality(s) = 0
      BY <1>1
    <3> QED
      BY <1>1, <3>1, FS_EmptySet
  <2>2. fits(g, 0)
    BY <2>1
  <2> QED
    BY <2>2
<1>4. ASSUME NEW n \in Nat, n \in N PROVE n + 1 \in N
  <2>1. PICK g : fits(g, n)
    BY <1>4
  <2> DEFINE h == [s \in SUBSET S |-> step(g, s)]
  <2>2. \A s \in parts(n) : h[s] = g[s]
    BY <2>1
  <2>3. ASSUME NEW s \in parts(n + 1) PROVE h[s] = step(h, s)
    <3>1. CASE s = {}
      BY <3>1
    <3>2. CASE s # {}
      <4>1. s \ {Chosen(s)} \in parts(n)
        BY <1>1, <1>2, <3>2
      <4>2. h[s \ {Chosen(s)}] = g[s \ {Chosen(s)}]
        BY <2>2, <4>1
      <4> QED
        BY <3>2, <4>2
    <3> QED
      BY <3>1, <3>2
  <2>4. \E k : fits(k, n + 1)
    <3> HIDE DEF h
    <3>1. fits(h, n + 1)
      BY <2>3
    <3> QED
      BY <3>1
  <2> HIDE DEF fits
  <2> QED
    BY <2>4
<1> HIDE DEF N
<1>5. Cardinality(S) \in N
  <2>1. Nat \subseteq N
    BY <1>3, <1>4, CountingUp
  <2> QED
    BY <1>1, <2>1
<1>6. PICK g : fits(g, Cardinality(S))
  BY <1>5 DEF N
<1> DEFINE h == [s \in SUBSET S |-> g[s]]
<1>7. ASSUME NEW s \in SUBSET S PROVE h[s] = step(h, s)
  <2>1. s \in parts(Cardinality(S))
    BY FS_Subset
  <2>2. g[s] = step(g, s)
    BY <1>6, <2>1
  <2>3. s # {} => h[s \ {Chosen(s)}] = g[s \ {Chosen(s)}]
    BY <1>2
  <2> QED
    BY <2>2, <2>3
<1>8. h = [s \in SUBSET S |-> h[s]]
  OBVIOUS
<1>9. h = [s \in SUBSET S |-> step(h, s)]
  <2> HIDE DEF h, step
  <2> QED
    BY <1>7, <1>8
<1> QED
  BY <1>9 DEF IsTotal

\* And there is one only: it says the same of a part of two sets.
LEMMA TotalUnique ==
    ASSUME NEW f, NEW S, IsFiniteSet(S), NEW T \in SUBSET S, NEW g, NEW h, IsTotal(g, f, S), IsTotal(h, f, T)
    PROVE  \A s \in SUBSET T : g[s] = h[s]
<1> DEFINE N == {n \in Nat : \A s \in SUBSET T : Cardinality(s) <= n => g[s] = h[s]}
<1>0. \A s \in SUBSET T : IsFiniteSet(s) /\ Cardinality(s) \in Nat
  BY FS_Subset, FS_CardinalityType
<1>1. \A s \in SUBSET T : /\ g[s] = IF s = {} THEN 0 ELSE f[Chosen(s)] + g[s \ {Chosen(s)}]
                          /\ h[s] = IF s = {} THEN 0 ELSE f[Chosen(s)] + h[s \ {Chosen(s)}]
  <2> TAKE s \in SUBSET T
  <2> QED
    BY DEF IsTotal
<1>2. 0 \in N
  <2> SUFFICES ASSUME NEW s \in SUBSET T, Cardinality(s) <= 0 PROVE g[s] = h[s]
    OBVIOUS
  <2>1. Cardinality(s) = 0
    BY <1>0
  <2>2. s = {}
    BY <1>0, <2>1, FS_EmptySet
  <2> QED
    BY <1>1, <2>2
<1>3. ASSUME NEW n \in Nat, n \in N PROVE n + 1 \in N
  <2> SUFFICES ASSUME NEW s \in SUBSET T, Cardinality(s) <= n + 1 PROVE g[s] = h[s]
    OBVIOUS
  <2>1. CASE s = {}
    BY <1>1, <2>1
  <2>2. CASE s # {}
    <3>1. Chosen(s) \in s
      BY <2>2 DEF Chosen
    <3>2. s \ {Chosen(s)} \in SUBSET T /\ Cardinality(s \ {Chosen(s)}) = Cardinality(s) - 1
      BY <1>0, <3>1, FS_RemoveElement
    <3>3. Cardinality(s \ {Chosen(s)}) <= n
      BY <1>0, <3>2
    <3>4. g[s \ {Chosen(s)}] = h[s \ {Chosen(s)}]
      BY <1>3, <3>2, <3>3
    <3> QED
      BY <1>1, <2>2, <3>4
  <2> QED
    BY <2>1, <2>2
<1> HIDE DEF N
<1>4. Nat \subseteq N
  BY <1>2, <1>3, CountingUp
<1> QED
  BY <1>0, <1>4 DEF N

\* What SumFunctionOnSet computes: nothing of nothing, and else the value of
\* the member it chooses and the rest.
LEMMA TotalUnfolds ==
    ASSUME NEW f, NEW S, IsFiniteSet(S)
    PROVE  \A T \in SUBSET S : Total(f, T) = IF T = {} THEN 0 ELSE f[Chosen(T)] + Total(f, T \ {Chosen(T)})
<1>1. PICK g : IsTotal(g, f, S)
  BY TotalExists
<1>2. ASSUME NEW T \in SUBSET S PROVE Total(f, T) = g[T]
  <2> DEFINE h == CHOOSE h : IsTotal(h, f, T)
  <2>1. Total(f, T) = h[T]
    BY DEF Total, SumFunctionOnSet, FoldFunctionOnSet, MapThenFoldSet, IsTotal, Chosen
  <2>2. IsFiniteSet(T)
    BY FS_Subset
  <2>3. \E x : IsTotal(x, f, T)
    BY <2>2, TotalExists
  <2>4. IsTotal(h, f, T)
    BY <2>3
  <2> HIDE DEF h
  <2>5. \A s \in SUBSET T : g[s] = h[s]
    BY <1>1, <2>4, TotalUnique
  <2> QED
    BY <2>1, <2>5
<1> TAKE T \in SUBSET S
<1>3. g[T] = IF T = {} THEN 0 ELSE f[Chosen(T)] + g[T \ {Chosen(T)}]
  BY <1>1 DEF IsTotal
<1> QED
  BY <1>2, <1>3

\* Which member is taken first does not matter.
LEMMA TotalOneMore ==
    ASSUME NEW f, NEW S, IsFiniteSet(S), \A x \in S : f[x] \in Int
    PROVE  /\ Total(f, {}) = 0
           /\ \A T \in SUBSET S : Total(f, T) \in Int
           /\ \A T \in SUBSET S, x \in S : x \in T => Total(f, T) = f[x] + Total(f, T \ {x})
<1> DEFINE good(T) == Total(f, T) \in Int /\ \A x \in T : Total(f, T) = f[x] + Total(f, T \ {x})
           N == {n \in Nat : \A T \in SUBSET S : Cardinality(T) <= n => good(T)}
<1>0. \A T \in SUBSET S : IsFiniteSet(T) /\ Cardinality(T) \in Nat
  BY FS_Subset, FS_CardinalityType
<1>1. \A T \in SUBSET S : /\ T = {} => Total(f, T) = 0
                          /\ T # {} => Chosen(T) \in T /\ Total(f, T) = f[Chosen(T)] + Total(f, T \ {Chosen(T)})
  <2> TAKE T \in SUBSET S
  <2>1. T # {} => Chosen(T) \in T
    BY DEF Chosen
  <2>2. Total(f, T) = IF T = {} THEN 0 ELSE f[Chosen(T)] + Total(f, T \ {Chosen(T)})
    BY TotalUnfolds
  <2> QED
    BY <2>1, <2>2
<1>2. 0 \in N
  <2> SUFFICES ASSUME NEW T \in SUBSET S, Cardinality(T) <= 0 PROVE good(T)
    OBVIOUS
  <2>1. Cardinality(T) = 0
    BY <1>0
  <2>2. T = {}
    BY <1>0, <2>1, FS_EmptySet
  <2>3. Total(f, T) = 0
    BY <1>1, <2>2
  <2> QED
    BY <2>2, <2>3
<1>3. ASSUME NEW n \in Nat, n \in N PROVE n + 1 \in N
  <2> SUFFICES ASSUME NEW T \in SUBSET S, Cardinality(T) <= n + 1 PROVE good(T)
    OBVIOUS
  <2>1. CASE T = {}
    <3>1. Total(f, T) = 0
      BY <1>1, <2>1
    <3> QED
      BY <2>1, <3>1
  <2>2. CASE T # {}
    <3> DEFINE c == Chosen(T)
    <3>1. c \in T /\ f[c] \in Int /\ Total(f, T) = f[c] + Total(f, T \ {c})
      BY <1>1, <2>2
    <3> HIDE DEF c
    <3>2. ASSUME NEW x \in T PROVE T \ {x} \in SUBSET S /\ Cardinality(T \ {x}) <= n /\ good(T \ {x})
      <4>1. Cardinality(T \ {x}) = Cardinality(T) - 1
        BY <1>0, FS_RemoveElement
      <4>2. T \ {x} \in SUBSET S /\ Cardinality(T \ {x}) <= n
        BY <1>0, <4>1
      <4> QED
        BY <1>3, <4>2
    <3>3. ASSUME NEW x \in T PROVE Total(f, T) = f[x] + Total(f, T \ {x})
      <4>1. CASE x = c
        BY <3>1, <4>1
      <4>2. CASE x # c
        <5>1. x \in T \ {c} /\ c \in T \ {x} /\ (T \ {c}) \ {x} = (T \ {x}) \ {c}
          BY <3>1, <4>2
        <5>2. Total(f, T \ {c}) = f[x] + Total(f, (T \ {c}) \ {x})
          BY <3>1, <3>2, <5>1
        <5>3. Total(f, T \ {x}) = f[c] + Total(f, (T \ {x}) \ {c})
          BY <3>2, <5>1
        <5>4. f[x] \in Int /\ Total(f, (T \ {x}) \ {c}) \in Int
          <6>1. (T \ {x}) \ {c} \in SUBSET S /\ Cardinality((T \ {x}) \ {c}) <= n
            <7>1. Cardinality((T \ {x}) \ {c}) = Cardinality(T \ {x}) - 1
              BY <1>0, <3>2, <5>1, FS_RemoveElement
            <7>2. Cardinality(T \ {x}) <= n /\ (T \ {x}) \ {c} \in SUBSET S
              BY <3>2
            <7>3. Cardinality(T \ {x}) \in Nat
              BY <1>0, <3>2
            <7> QED
              BY <7>1, <7>2, <7>3
          <6>2. good((T \ {x}) \ {c})
            BY <1>3, <6>1
          <6>3. f[x] \in Int
            OBVIOUS
          <6> QED
            BY <6>2, <6>3
        <5> DEFINE rest == Total(f, (T \ {x}) \ {c})
        <5>5. Total(f, T) = f[c] + (f[x] + rest) /\ Total(f, T \ {x}) = f[c] + rest
          BY <3>1, <5>1, <5>2, <5>3
        <5>6. f[x] \in Int /\ rest \in Int /\ f[c] \in Int
          BY <3>1, <5>4
        <5> HIDE DEF rest
        <5> QED
          BY <5>5, <5>6
      <4> QED
        BY <4>1, <4>2
    <3>4. Total(f, T) \in Int
      <4>1. good(T \ {c})
        BY <3>1, <3>2
      <4> QED
        BY <3>1, <4>1
    <3> QED
      BY <3>3, <3>4
  <2> QED
    BY <2>1, <2>2
<1> HIDE DEF N
<1>4. Nat \subseteq N
  BY <1>2, <1>3, CountingUp
<1>5. \A T \in SUBSET S : good(T)
  <2> TAKE T \in SUBSET S
  <2>1. Cardinality(T) \in N
    BY <1>0, <1>4
  <2>2. Cardinality(T) <= Cardinality(T)
    BY <1>0
  <2> QED
    BY <2>1, <2>2 DEF N
<1>6. Total(f, {}) = 0
  BY <1>1
<1> QED
  BY <1>5, <1>6

\* The totals of two parts add up.
LEMMA TotalSplit ==
    ASSUME NEW f, NEW S, IsFiniteSet(S), \A x \in S : f[x] \in Int,
           NEW A \in SUBSET S, NEW B \in SUBSET S, A \cap B = {}
    PROVE  Total(f, A \cup B) = Total(f, A) + Total(f, B)
<1> DEFINE P == {T \in SUBSET B : Total(f, A \cup T) = Total(f, A) + Total(f, T)}
<1>1. IsFiniteSet(B) /\ Total(f, {}) = 0 /\ \A T \in SUBSET S : Total(f, T) \in Int
  BY FS_Subset, TotalOneMore
<1>2. {} \in P
  <2>1. A \cup {} = A /\ Total(f, A) \in Int
    BY <1>1
  <2> QED
    BY <1>1, <2>1
<1>3. ASSUME NEW T \in SUBSET B, NEW x \in B, T \in P, x \notin T PROVE T \cup {x} \in P
  <2> DEFINE U == T \cup {x}
  <2>1. /\ A \cup U \in SUBSET S /\ x \in A \cup U /\ (A \cup U) \ {x} = A \cup T
        /\ U \in SUBSET S /\ x \in U /\ U \ {x} = T /\ x \in S
    BY <1>3
  <2> HIDE DEF U
  <2>2. Total(f, A \cup U) = f[x] + Total(f, A \cup T) /\ Total(f, U) = f[x] + Total(f, T)
    BY <2>1, TotalOneMore
  <2>3. f[x] \in Int /\ Total(f, A) \in Int /\ Total(f, T) \in Int
    BY <1>1, <2>1
  <2>4. Total(f, A \cup T) = Total(f, A) + Total(f, T)
    BY <1>3
  <2>5. Total(f, A \cup U) = Total(f, A) + Total(f, U)
    BY <2>2, <2>3, <2>4
  <2> QED
    BY <2>5 DEF U
<1> HIDE DEF P
<1>4. B \in P
  BY <1>1, <1>2, <1>3, OneByOne
<1> QED
  BY <1>4 DEF P

\* Where every value is at most another, so is the total.
LEMMA TotalCompare ==
    ASSUME NEW f, NEW g, NEW S, IsFiniteSet(S), \A x \in S : f[x] \in Int /\ g[x] \in Int /\ f[x] <= g[x]
    PROVE  Total(f, S) <= Total(g, S)
<1> DEFINE P == {T \in SUBSET S : Total(f, T) <= Total(g, T)}
<1>1. /\ Total(f, {}) = 0 /\ \A T \in SUBSET S : Total(f, T) \in Int
      /\ Total(g, {}) = 0 /\ \A T \in SUBSET S : Total(g, T) \in Int
  BY TotalOneMore
<1>2. {} \in P
  BY <1>1
<1>3. ASSUME NEW T \in SUBSET S, NEW x \in S, T \in P, x \notin T PROVE T \cup {x} \in P
  <2> DEFINE U == T \cup {x}
  <2>1. U \in SUBSET S /\ x \in U /\ U \ {x} = T
    BY <1>3
  <2> HIDE DEF U
  <2>2. Total(f, U) = f[x] + Total(f, T) /\ Total(g, U) = g[x] + Total(g, T)
    BY <2>1, TotalOneMore
  <2>3. Total(f, T) \in Int /\ Total(g, T) \in Int /\ Total(f, T) <= Total(g, T)
    BY <1>1, <1>3
  <2>4. f[x] \in Int /\ g[x] \in Int /\ f[x] <= g[x]
    OBVIOUS
  <2>5. Total(f, U) <= Total(g, U)
    BY <2>2, <2>3, <2>4
  <2> QED
    BY <2>1, <2>5 DEF U
<1> HIDE DEF P
<1>4. S \in P
  BY <1>2, <1>3, OneByOne
<1> QED
  BY <1>4 DEF P

LEMMA TotalSame ==
    ASSUME NEW f, NEW g, NEW S, IsFiniteSet(S), \A x \in S : f[x] \in Int /\ f[x] = g[x]
    PROVE  Total(f, S) = Total(g, S)
<1>1. \A x \in S : f[x] \in Int /\ g[x] \in Int /\ f[x] <= g[x] /\ g[x] <= f[x]
  OBVIOUS
<1>2. Total(f, S) <= Total(g, S)
  BY <1>1, TotalCompare
<1>3. Total(g, S) <= Total(f, S)
  BY <1>1, TotalCompare
<1>4. Total(f, S) \in Int /\ Total(g, S) \in Int
  BY <1>1, TotalOneMore
<1> QED
  BY <1>2, <1>3, <1>4

\* A part of what is at least nothing is at most the whole.
LEMMA TotalPart ==
    ASSUME NEW f, NEW S, IsFiniteSet(S), \A x \in S : f[x] \in Nat, NEW T \in SUBSET S
    PROVE  Total(f, T) \in Nat /\ Total(f, S) \in Nat /\ Total(f, T) <= Total(f, S)
<1>1. ASSUME NEW A \in SUBSET S PROVE Total(f, A) \in Nat
  <2> DEFINE P == {B \in SUBSET A : Total(f, B) \in Nat}
  <2>1. IsFiniteSet(A)
    BY FS_Subset
  <2>2. {} \in P
    BY TotalOneMore
  <2>3. ASSUME NEW B \in SUBSET A, NEW x \in A, B \in P, x \notin B PROVE B \cup {x} \in P
    <3>1. B \cup {x} \in SUBSET S /\ x \in B \cup {x} /\ (B \cup {x}) \ {x} = B /\ x \in S
      BY <2>3
    <3>2. Total(f, B \cup {x}) = f[x] + Total(f, B)
      BY <3>1, TotalOneMore
    <3>3. f[x] \in Nat
      BY <3>1
    <3> QED
      BY <2>3, <3>2, <3>3
  <2> HIDE DEF P
  <2>4. A \in P
    BY <2>1, <2>2, <2>3, OneByOne
  <2> QED
    BY <2>4 DEF P
<1>2. S \ T \in SUBSET S /\ T \cap (S \ T) = {} /\ T \cup (S \ T) = S
  OBVIOUS
<1>3. Total(f, S) = Total(f, T) + Total(f, S \ T)
  <2>1. Total(f, T \cup (S \ T)) = Total(f, T) + Total(f, S \ T)
    BY <1>2, TotalSplit
  <2> QED
    BY <1>2, <2>1
<1>4. Total(f, T) \in Nat /\ Total(f, S \ T) \in Nat /\ Total(f, S) \in Nat
  BY <1>1, <1>2
<1> QED
  BY <1>3, <1>4

\* Each value so many times larger, so is the total.
LEMMA TotalScaled ==
    ASSUME NEW f, NEW g, NEW S, IsFiniteSet(S), NEW a \in Int, \A x \in S : f[x] \in Int /\ g[x] = a * f[x]
    PROVE  Total(g, S) = a * Total(f, S)
<1> DEFINE P == {T \in SUBSET S : Total(g, T) = a * Total(f, T)}
<1>0. \A x \in S : g[x] \in Int
  OBVIOUS
<1>1. /\ Total(f, {}) = 0 /\ \A T \in SUBSET S : Total(f, T) \in Int
      /\ Total(g, {}) = 0 /\ \A T \in SUBSET S : Total(g, T) \in Int
  BY <1>0, TotalOneMore
<1>2. {} \in P
  <2>1. a * 0 = 0
    OBVIOUS
  <2> QED
    BY <1>1, <2>1
<1>3. ASSUME NEW T \in SUBSET S, NEW x \in S, T \in P, x \notin T PROVE T \cup {x} \in P
  <2> DEFINE U == T \cup {x}
  <2>1. U \in SUBSET S /\ x \in U /\ U \ {x} = T
    BY <1>3
  <2> HIDE DEF U
  <2>2. Total(f, U) = f[x] + Total(f, T)
    BY <2>1, TotalOneMore
  <2>3. Total(g, U) = g[x] + Total(g, T)
    BY <1>0, <2>1, TotalOneMore
  <2>4. Total(f, T) \in Int /\ Total(g, T) = a * Total(f, T) /\ f[x] \in Int /\ g[x] = a * f[x]
    BY <1>1, <1>3
  <2>5. ASSUME NEW y \in Int, NEW z \in Int PROVE a * (y + z) = a * y + a * z
    OBVIOUS
  <2>6. Total(g, U) = a * Total(f, U)
    BY <2>2, <2>3, <2>4, <2>5
  <2> QED
    BY <2>1, <2>6 DEF U
<1> HIDE DEF P
<1>4. S \in P
  BY <1>2, <1>3, OneByOne
<1> QED
  BY <1>4 DEF P

\* Adding ones counts.
LEMMA TotalOfOnes ==
    ASSUME NEW f, NEW S, IsFiniteSet(S), \A x \in S : f[x] = 1
    PROVE  Total(f, S) = Cardinality(S)
<1> DEFINE P == {T \in SUBSET S : Total(f, T) = Cardinality(T)}
<1>1. {} \in P
  BY TotalOneMore, FS_EmptySet
<1>2. ASSUME NEW T \in SUBSET S, NEW x \in S, T \in P, x \notin T PROVE T \cup {x} \in P
  <2>1. T \cup {x} \in SUBSET S /\ x \in T \cup {x} /\ (T \cup {x}) \ {x} = T
    BY <1>2
  <2>2. Total(f, T \cup {x}) = f[x] + Total(f, T)
    BY <2>1, TotalOneMore
  <2>3. IsFiniteSet(T) /\ Cardinality(T) \in Nat
    BY FS_Subset, FS_CardinalityType
  <2>4. Cardinality(T \cup {x}) = Cardinality(T) + 1
    BY <1>2, <2>3, FS_AddElement
  <2>5. f[x] = 1 /\ Total(f, T) = Cardinality(T)
    BY <1>2
  <2> QED
    BY <2>1, <2>2, <2>3, <2>4, <2>5
<1> HIDE DEF P
<1>3. S \in P
  BY <1>1, <1>2, OneByOne
<1> QED
  BY <1>3 DEF P

LEMMA FiniteImage ==
    ASSUME NEW S, IsFiniteSet(S), NEW m
    PROVE  IsFiniteSet({m[x] : x \in S})
<1> DEFINE named(T) == {m[x] : x \in T}
           P == {T \in SUBSET S : IsFiniteSet(named(T))}
<1>1. {} \in P
  <2>1. named({}) = {}
    OBVIOUS
  <2>2. IsFiniteSet(named({}))
    BY <2>1, FS_EmptySet
  <2> QED
    BY <2>2
<1>2. ASSUME NEW T \in SUBSET S, NEW x \in S, T \in P, x \notin T PROVE T \cup {x} \in P
  <2>1. IsFiniteSet(named(T))
    BY <1>2
  <2>2. named(T \cup {x}) = named(T) \cup {m[x]}
    OBVIOUS
  <2>3. IsFiniteSet(named(T) \cup {m[x]})
    <3> HIDE DEF named
    <3> QED
      BY <2>1, FS_AddElement
  <2>4. IsFiniteSet(named(T \cup {x}))
    BY <2>2, <2>3
  <2> QED
    BY <2>4
<1>3. S \in P
  <2> HIDE DEF P
  <2> QED
    BY <1>1, <1>2, OneByOne
<1> QED
  BY <1>3

\* Adding the same values under other names.
LEMMA TotalRenamed ==
    ASSUME NEW S, IsFiniteSet(S), NEW f, NEW g, NEW m, \A x \in S : f[x] \in Int /\ f[x] = g[m[x]],
           \A x, y \in S : m[x] = m[y] => x = y, NEW R, \A x \in S : m[x] \in R, \A y \in R : \E x \in S : y = m[x]
    PROVE  Total(f, S) = Total(g, R) /\ IsFiniteSet(R)
<1>0. R = {m[x] : x \in S}
  OBVIOUS
<1> DEFINE named(T) == {m[x] : x \in T}
           P == {T \in SUBSET S : Total(f, T) = Total(g, named(T))}
<1>1. IsFiniteSet(named(S))
  BY FiniteImage
<1>2. \A y \in named(S) : g[y] \in Int
  OBVIOUS
<1>3. {} \in P
  <2>1. named({}) = {}
    OBVIOUS
  <2>2. Total(f, {}) = 0 /\ Total(g, {}) = 0
    BY <1>1, <1>2, TotalOneMore
  <2> QED
    BY <2>1, <2>2
<1>4. ASSUME NEW T \in SUBSET S, NEW x \in S, T \in P, x \notin T PROVE T \cup {x} \in P
  <2>1. /\ T \cup {x} \in SUBSET S /\ x \in T \cup {x} /\ (T \cup {x}) \ {x} = T
        /\ named(T \cup {x}) \in SUBSET named(S) /\ m[x] \in named(T \cup {x}) /\ named(T \cup {x}) \ {m[x]} = named(T)
    BY <1>4
  <2> HIDE DEF named
  <2>2. Total(f, T \cup {x}) = f[x] + Total(f, T)
    BY <2>1, TotalOneMore
  <2>3. Total(g, named(T \cup {x})) = g[m[x]] + Total(g, named(T))
    <3> DEFINE Q == named(S)
               V == named(T \cup {x})
               z == m[x]
    <3>1. V \in SUBSET Q /\ z \in V /\ z \in Q /\ V \ {z} = named(T)
      BY <2>1
    <3>2. IsFiniteSet(Q) /\ \A y \in Q : g[y] \in Int
      BY <1>1, <1>2
    <3> HIDE DEF Q, V, z
    <3>3. Total(g, V) = g[z] + Total(g, V \ {z})
      BY <3>1, <3>2, TotalOneMore
    <3> QED
      BY <3>1, <3>3 DEF V, z
  <2>4. f[x] = g[m[x]] /\ Total(f, T) = Total(g, named(T))
    BY <1>4
  <2> QED
    BY <2>1, <2>2, <2>3, <2>4
<1>5. S \in P
  <2> HIDE DEF P
  <2> QED
    BY <1>3, <1>4, OneByOne
<1> QED
  BY <1>0, <1>1, <1>5

\* The totals of the groups add up to the total.
LEMMA TotalGrouped ==
    ASSUME NEW S, IsFiniteSet(S), NEW f, \A x \in S : f[x] \in Int, NEW m, NEW K, IsFiniteSet(K), \A x \in S : m[x] \in K,
           NEW group, \A k \in K : group[k] \in SUBSET S, \A k \in K : \A x \in S : x \in group[k] <=> m[x] = k,
           NEW h, \A k \in K : h[k] = Total(f, group[k])
    PROVE  Total(h, K) = Total(f, S)
<1> DEFINE in(L) == {x \in S : m[x] \in L}
           P == {L \in SUBSET K : Total(h, L) = Total(f, in(L))}
<1>1. \A T \in SUBSET S : Total(f, T) \in Int
  BY TotalOneMore
<1>2. \A k \in K : h[k] \in Int
  <2> TAKE k \in K
  <2>1. group[k] \in SUBSET S /\ h[k] = Total(f, group[k])
    OBVIOUS
  <2> QED
    BY <1>1, <2>1
<1>3. {} \in P
  <2>1. in({}) = {}
    OBVIOUS
  <2>2. Total(h, {}) = 0 /\ Total(f, {}) = 0
    BY <1>2, TotalOneMore
  <2> QED
    BY <2>1, <2>2
<1>4. ASSUME NEW L \in SUBSET K, NEW k \in K, L \in P, k \notin L PROVE L \cup {k} \in P
  <2> DEFINE more == group[k]
  <2>1. L \cup {k} \in SUBSET K /\ k \in L \cup {k} /\ (L \cup {k}) \ {k} = L
    BY <1>4
  <2>2. more \in SUBSET S /\ \A x \in S : x \in more <=> m[x] = k
    OBVIOUS
  <2>3. h[k] = Total(f, more)
    OBVIOUS
  <2> HIDE DEF more
  <2>a. in(L \cup {k}) = more \cup in(L) /\ more \cap in(L) = {} /\ in(L) \in SUBSET S
    BY <1>4, <2>2
  <2> HIDE DEF in
  <2>4. Total(h, L \cup {k}) = h[k] + Total(h, L)
    BY <1>2, <2>1, TotalOneMore
  <2>5. Total(f, more \cup in(L)) = Total(f, more) + Total(f, in(L))
    BY <2>2, <2>a, TotalSplit
  <2>6. Total(h, L) = Total(f, in(L))
    BY <1>4
  <2> QED
    BY <2>1, <2>a, <2>3, <2>4, <2>5, <2>6
<1>5. K \in P
  <2> HIDE DEF P
  <2> QED
    BY <1>3, <1>4, OneByOne
<1>6. in(K) = S
  OBVIOUS
<1> QED
  BY <1>5, <1>6

\* SumFunction is the total over the domain.
LEMMA SumIsTotal == ASSUME NEW f PROVE SumFunction(f) = Total(f, DOMAIN f)
BY DEF SumFunction, Total

-----------------------------------------------------------------------------
(* The totals beside a recount. *)

\* The row of every block that exists, and what it adds to either total.
AllBlocks == {BlockRows(n).block : n \in Asked}
Kinds == {"blocks", "txs"}
Weights(k) == [b \in AllBlocks |-> IF k = "blocks" THEN 1 ELSE b.txCount]

LEMMA BlocksKept ==
    ASSUME ReadingInv
    PROVE  /\ IsFiniteSet(AllBlocks) /\ tables.blocks \in SUBSET AllBlocks
           /\ \A b \in AllBlocks : b.number \in Asked /\ b.number \in Nat \ {0} /\ b.txCount \in Nat
           /\ \A b, c \in AllBlocks : b.number = c.number => b = c
           /\ \A k \in Kinds : \A b \in AllBlocks : Weights(k)[b] \in Nat
<1>1. truth \in [Asked -> Contents]
  BY DEF ReadingInv
<1>2. PICK kept \in SUBSET Asked : \E full \in SUBSET kept : tables = TablesOf(kept, full)
  BY DEF ReadingInv, RowsFit
<1>3. PICK full \in SUBSET kept : tables = TablesOf(kept, full)
  BY <1>2
<1>4. \A n \in Asked : BlockRows(n).block = [number |-> n, hash |-> n, txCount |-> Len(truth[n])]
  BY DEF BlockRows
<1>5. \A n \in Asked : n \in Nat \ {0} /\ Len(truth[n]) \in Nat
  <2> TAKE n \in Asked
  <2>1. truth[n] \in Contents
    BY <1>1
  <2>2. truth[n] \in Seq(ToSet(truth[n])) /\ n \in Nat \ {0}
    BY <2>1, ReadingAssumption
  <2> QED
    BY <2>2
<1>6. IsFiniteSet(AllBlocks)
  <2> DEFINE row == [n \in Asked |-> BlockRows(n).block]
  <2>1. IsFiniteSet(Asked)
    BY ReadingAssumption
  <2>2. AllBlocks = {row[n] : n \in Asked}
    BY DEF AllBlocks
  <2> HIDE DEF row
  <2> QED
    BY <2>1, <2>2, FiniteImage
<1>7. tables.blocks = {BlockRows(n).block : n \in kept}
  BY <1>3 DEF TablesOf
<1>8. tables.blocks \in SUBSET AllBlocks
  BY <1>7 DEF AllBlocks
<1>9. \A b \in AllBlocks : b.number \in Asked /\ b.number \in Nat \ {0} /\ b.txCount \in Nat
  <2> TAKE b \in AllBlocks
  <2>1. PICK n \in Asked : b = BlockRows(n).block
    BY DEF AllBlocks
  <2>2. b = [number |-> n, hash |-> n, txCount |-> Len(truth[n])]
    BY <1>4, <2>1
  <2>3. b.number = n /\ b.txCount = Len(truth[n])
    BY <2>2
  <2> QED
    BY <1>5, <2>3
<1>10. \A b, c \in AllBlocks : b.number = c.number => b = c
  <2> SUFFICES ASSUME NEW b \in AllBlocks, NEW c \in AllBlocks, b.number = c.number PROVE b = c
    OBVIOUS
  <2>1. PICK n \in Asked : b = BlockRows(n).block
    BY DEF AllBlocks
  <2>2. PICK m \in Asked : c = BlockRows(m).block
    BY DEF AllBlocks
  <2>3. b.number = n /\ c.number = m
    <3>1. b = [number |-> n, hash |-> n, txCount |-> Len(truth[n])] /\ c = [number |-> m, hash |-> m, txCount |-> Len(truth[m])]
      BY <1>4, <2>1, <2>2
    <3> QED
      BY <3>1
  <2> QED
    BY <2>1, <2>2, <2>3
<1>11. \A k \in Kinds : \A b \in AllBlocks : Weights(k)[b] \in Nat
  BY <1>9 DEF Weights
<1> QED
  BY <1>6, <1>8, <1>9, <1>10, <1>11

\* Blocks are added, and none goes.
LEMMA BlocksGrow ==
    ASSUME ReadingInv, [ReadingNext]_readingVars
    PROVE  /\ tables.blocks \subseteq tables'.blocks
           /\ AllBlocks' = AllBlocks /\ \A k \in Kinds : Weights(k)' = Weights(k)
<1>1. truth' = truth
  BY DEF ReadingNext, ReadsBlock, readingVars
<1>2. tables.blocks \subseteq tables'.blocks
  <2>1. CASE tables' = tables
    BY <2>1
  <2>2. ASSUME NEW bundle, NEW mode, tables' = Written(tables, bundle, mode)
        PROVE  tables.blocks \subseteq tables'.blocks
    BY <2>2 DEF Written
  <2> QED
    BY <2>1, <2>2 DEF ReadingNext, ReadsBlock, readingVars
<1>3. \A n : BlockRows(n).block' = BlockRows(n).block
  BY <1>1 DEF BlockRows
<1>4. AllBlocks' = AllBlocks
  BY <1>3 DEF AllBlocks
<1>5. \A k \in Kinds : Weights(k)' = Weights(k)
  BY <1>4 DEF Weights
<1> QED
  BY <1>2, <1>4, <1>5

\* The counts of some blocks are totals of their weights.
LEMMA CountsAreTotals ==
    ASSUME ReadingInv, NEW B \in SUBSET AllBlocks
    PROVE  /\ IsFiniteSet(B) /\ Cardinality(B) \in Nat /\ TxsOf(B) \in Nat
           /\ Cardinality(B) = Total(Weights("blocks"), B) /\ TxsOf(B) = Total(Weights("txs"), B)
<1>1. IsFiniteSet(B)
  BY BlocksKept, FS_Subset
<1>2. \A b \in B : Weights("blocks")[b] = 1 /\ Weights("txs")[b] = b.txCount /\ b.txCount \in Nat
  BY BlocksKept DEF Weights
<1>3. Cardinality(B) = Total(Weights("blocks"), B)
  BY <1>1, <1>2, TotalOfOnes
<1>4. TxsOf(B) = Total(Weights("txs"), B)
  <2> DEFINE f == [b \in B |-> b.txCount]
  <2>1. TxsOf(B) = Total(f, B)
    BY SumIsTotal DEF TxsOf
  <2>2. \A b \in B : f[b] \in Int /\ f[b] = Weights("txs")[b]
    BY <1>2
  <2> HIDE DEF f
  <2> QED
    BY <1>1, <2>1, <2>2, TotalSame
<1>5. Total(Weights("txs"), B) \in Nat
  BY <1>1, <1>2, TotalPart
<1> QED
  BY <1>1, <1>3, <1>4, <1>5, FS_CardinalityType

\* What the readers have added since the last recount.
Shares(w, c) == Total([r \in Readers |-> Total(w, c[r])], Readers)

LEMMA SharesTyped ==
    ASSUME NEW A, IsFiniteSet(A), NEW w, \A b \in A : w[b] \in Nat, NEW c \in [Readers -> SUBSET A]
    PROVE  /\ \A r \in Readers : Total(w, c[r]) \in Nat
           /\ Shares(w, c) \in Nat
<1> DEFINE f == [r \in Readers |-> Total(w, c[r])]
<1>1. \A r \in Readers : Total(w, c[r]) \in Nat
  <2> TAKE r \in Readers
  <2>1. c[r] \in SUBSET A
    OBVIOUS
  <2> QED
    BY <2>1, TotalPart
<1>2. \A r \in Readers : f[r] \in Nat
  BY <1>1
<1>3. IsFiniteSet(Readers)
  BY FiguresAssumption
<1>4. Total(f, Readers) \in Nat
  <2> HIDE DEF f
  <2> QED
    BY <1>2, <1>3, TotalPart
<1> QED
  BY <1>1, <1>4 DEF Shares

\* One reader adds what it had not: the sum grows by that.
LEMMA SharesMore ==
    ASSUME ReadingInv, NEW k \in Kinds, NEW r \in Readers,
           NEW c \in [Readers -> SUBSET AllBlocks], NEW d \in [Readers -> SUBSET AllBlocks], \A q \in Readers : q # r => d[q] = c[q],
           NEW seen \in SUBSET AllBlocks, c[r] \cap seen = {}, d[r] = c[r] \cup seen
    PROVE  Shares(Weights(k), d) = Shares(Weights(k), c) + Total(Weights(k), seen)
<1> DEFINE A == AllBlocks
           w == Weights(k)
<1>0. /\ IsFiniteSet(A) /\ \A b \in A : w[b] \in Nat
      /\ c \in [Readers -> SUBSET A] /\ d \in [Readers -> SUBSET A] /\ seen \in SUBSET A
  BY BlocksKept
<1> HIDE DEF A, w
<1> DEFINE f == [q \in Readers |-> Total(w, c[q])]
           g == [q \in Readers |-> Total(w, d[q])]
           others == Readers \ {r}
<1>1. d \in [Readers -> SUBSET A] /\ d[r] = c[r] \cup seen /\ \A q \in others : d[q] = c[q]
  BY <1>0
<1>2. IsFiniteSet(Readers) /\ IsFiniteSet(others)
  BY FiguresAssumption, FS_RemoveElement
<1>3. \A q \in Readers : f[q] \in Int
  BY <1>0, SharesTyped
<1>a. \A q \in Readers : g[q] \in Int
  BY <1>0, SharesTyped
<1>4. \A q \in others : f[q] = g[q]
  BY <1>1
<1>5. f[r] = Total(w, c[r]) /\ g[r] = Total(w, d[r])
  OBVIOUS
<1> HIDE DEF f, g
<1>6. Total(f, Readers) = f[r] + Total(f, others) /\ Total(g, Readers) = g[r] + Total(g, others)
  <2>1. IsFiniteSet(Readers) /\ Readers \in SUBSET Readers
    BY <1>2
  <2>2. Total(f, Readers) = f[r] + Total(f, others)
    BY <1>3, <2>1, TotalOneMore
  <2>3. Total(g, Readers) = g[r] + Total(g, others)
    BY <1>a, <2>1, TotalOneMore
  <2> QED
    BY <2>2, <2>3
<1>7. Total(f, others) = Total(g, others)
  BY <1>2, <1>3, <1>a, <1>4, TotalSame
<1>8. Total(w, d[r]) = Total(w, c[r]) + Total(w, seen)
  <2>1. c[r] \in SUBSET A
    BY <1>0
  <2> QED
    BY <1>0, <1>1, <2>1, TotalSplit
<1>9. Total(w, c[r]) \in Int /\ Total(w, seen) \in Int /\ Total(f, others) \in Int
  <2>1. c[r] \in SUBSET A /\ others \in SUBSET Readers
    BY <1>0
  <2>2. Total(w, c[r]) \in Int /\ Total(w, seen) \in Int
    BY <1>0, <2>1, TotalOneMore
  <2>3. Total(f, others) \in Int
    BY <1>2, <1>3, <2>1, TotalOneMore
  <2> QED
    BY <2>2, <2>3
<1>10. Total(g, Readers) = Total(f, Readers) + Total(w, seen)
  BY <1>5, <1>6, <1>7, <1>8, <1>9
<1> QED
  BY <1>10 DEF Shares, f, g, w

\* None has added anything.
LEMMA SharesNone == ASSUME NEW w PROVE Shares(w, [r \in Readers |-> {}]) = 0
<1> DEFINE f == [r \in Readers |-> Total(w, [q \in Readers |-> {}][r])]
<1>1. Total(w, {}) = 0
  <2>1. IsFiniteSet({}) /\ \A x \in {} : w[x] \in Int
    BY FS_EmptySet
  <2> QED
    BY <2>1, TotalOneMore
<1>2. \A r \in Readers : f[r] \in Int /\ f[r] = 0 * f[r]
  BY <1>1
<1>3. IsFiniteSet(Readers)
  BY FiguresAssumption
<1>4. Total(f, Readers) = 0 * Total(f, Readers) /\ Total(f, Readers) \in Int
  <2> HIDE DEF f
  <2>1. 0 \in Int
    OBVIOUS
  <2> QED
    BY <1>2, <1>3, <2>1, TotalScaled, TotalOneMore
<1>5. Total(f, Readers) = 0
  BY <1>4
<1> QED
  BY <1>5 DEF Shares

\* Each adds at most the blocks newer than the recount.
LEMMA SharesBounded ==
    ASSUME NEW A, IsFiniteSet(A), NEW w, \A b \in A : w[b] \in Nat, NEW c \in [Readers -> SUBSET A],
           NEW newer \in SUBSET A, \A r \in Readers : c[r] \subseteq newer
    PROVE  Shares(w, c) <= Cardinality(Readers) * Total(w, newer)
<1> DEFINE f == [r \in Readers |-> Total(w, c[r])]
           one == [r \in Readers |-> 1]
           most == Total(w, newer)
           g == [r \in Readers |-> most * one[r]]
<1>1. IsFiniteSet(Readers) /\ Cardinality(Readers) \in Nat
  BY FiguresAssumption, FS_CardinalityType
<1>2. most \in Nat
  BY TotalPart
<1>3. \A r \in Readers : Total(w, c[r]) \in Nat /\ Total(w, c[r]) <= most
  <2> TAKE r \in Readers
  <2>1. IsFiniteSet(newer) /\ c[r] \in SUBSET newer /\ \A b \in newer : w[b] \in Nat
    BY FS_Subset
  <2> QED
    BY <2>1, TotalPart
<1> HIDE DEF most
<1>4. \A r \in Readers : f[r] \in Int /\ g[r] \in Int /\ f[r] <= g[r]
  BY <1>2, <1>3
<1>5. \A r \in Readers : one[r] \in Int /\ g[r] = most * one[r] /\ one[r] = 1
  BY <1>2
<1> HIDE DEF f, g, one
<1>6. Total(f, Readers) <= Total(g, Readers)
  BY <1>1, <1>4, TotalCompare
<1>7. Total(g, Readers) = most * Total(one, Readers)
  BY <1>1, <1>2, <1>5, TotalScaled
<1>8. Total(one, Readers) = Cardinality(Readers)
  BY <1>1, <1>5, TotalOfOnes
<1>9. most * Cardinality(Readers) = Cardinality(Readers) * most
  BY <1>1, <1>2
<1>10. Total(f, Readers) <= Cardinality(Readers) * most
  BY <1>6, <1>7, <1>8, <1>9
<1> QED
  BY <1>10 DEF Shares, f, most

\* The newest of some blocks is one of them, and none is newer.
LEMMA NewestIs ==
    ASSUME ReadingInv, NEW B \in SUBSET AllBlocks
    PROVE  /\ Newest(B, 0) \in Asked \cup {0}
           /\ \A b \in B : b.number <= Newest(B, 0)
           /\ B # {} => \E b \in B : Newest(B, 0) = b.number
<1>1. IsFiniteSet(B) /\ \A b \in B : b.number \in Asked /\ b.number \in Nat \ {0}
  BY BlocksKept, FS_Subset
<1> DEFINE top(T) == \E n \in {b.number : b \in T} : \A b \in T : b.number <= n
           P == {T \in SUBSET B : T = {} \/ top(T)}
<1>2. {} \in P
  OBVIOUS
<1>3. ASSUME NEW T \in SUBSET B, NEW x \in B, T \in P, x \notin T PROVE T \cup {x} \in P
  <2>1. CASE T = {}
    <3>1. x.number \in {b.number : b \in T \cup {x}} /\ \A b \in T \cup {x} : b.number <= x.number
      BY <1>1, <2>1
    <3> QED
      BY <3>1
  <2>2. CASE T # {}
    <3>1. PICK n \in {b.number : b \in T} : \A b \in T : b.number <= n
      BY <1>3, <2>2
    <3>2. n \in Nat /\ x.number \in Nat
      BY <1>1
    <3>3. CASE x.number <= n
      <4>1. n \in {b.number : b \in T \cup {x}} /\ \A b \in T \cup {x} : b.number <= n
        BY <3>1, <3>3
      <4> QED
        BY <4>1
    <3>4. CASE ~(x.number <= n)
      <4>1. \A b \in T : b.number \in Nat
        BY <1>1
      <4>2. x.number \in {b.number : b \in T \cup {x}} /\ \A b \in T \cup {x} : b.number <= x.number
        BY <3>1, <3>2, <3>4, <4>1
      <4> QED
        BY <4>2
    <3> QED
      BY <3>3, <3>4
  <2> QED
    BY <2>1, <2>2
<1>4. B \in P
  <2> HIDE DEF P
  <2> QED
    BY <1>1, <1>2, <1>3, OneByOne
<1>5. CASE B = {}
  BY <1>5 DEF Newest
<1>6. CASE B # {}
  <2>1. \E n \in {b.number : b \in B} : \A b \in B : b.number <= n
    BY <1>4, <1>6
  <2>2. Newest(B, 0) \in {b.number : b \in B} /\ \A b \in B : b.number <= Newest(B, 0)
    BY <1>6, <2>1 DEF Newest
  <2>3. PICK b \in B : Newest(B, 0) = b.number
    BY <2>2
  <2> QED
    BY <1>1, <2>2, <2>3
<1> QED
  BY <1>5, <1>6

WholeBlocks == {b \in tables.blocks : b.number \in totals.whole}
Numbers(B) == {b.number : b \in B}
Standing(r) == reader[r].at \in {"asked", "read"} /\ reader[r].generation = totals.generation

TotalsTyped ==
    /\ totals \in [blocks : Nat, txs : Nat, upTo : Asked \cup {0}, generation : 0 .. MaxRecounts, whole : SUBSET Asked]
    /\ recounting \in [at : {"idle", "asked", "read"}, seen : SUBSET tables.blocks]
    /\ reader \in [Readers -> [at : {"idle", "waits", "asked", "read"}, generation : 0 .. MaxRecounts,
                               above : Asked \cup {0}, seen : SUBSET tables.blocks]]

\* The last recount saw blocks that are stored, none above what is counted; a
\* request reads above all that was counted when it was made.
TotalsOrdered ==
    /\ recounting.at # "idle" => totals.generation < MaxRecounts
    /\ totals.whole \subseteq Numbers(tables.blocks)
    /\ \A n \in totals.whole : n <= totals.upTo
    /\ \A r \in Readers : /\ reader[r].generation <= totals.generation
                          /\ Standing(r) => \A n \in totals.whole : n <= reader[r].above
                          /\ reader[r].at = "read" => \A b \in reader[r].seen : b.number > reader[r].above

\* What each reader added is newer than the recount and no more than counted.
Sharing(c) ==
    /\ c \in [Readers -> SUBSET tables.blocks]
    /\ \A r \in Readers : \A b \in c[r] : /\ b.number <= totals.upTo /\ \A n \in totals.whole : b.number > n
                                          /\ Standing(r) => b.number <= reader[r].above
    /\ \A k \in Kinds : totals[k] = Total(Weights(k), WholeBlocks) + Shares(Weights(k), c)

TotalsInv == TotalsTyped /\ TotalsOrdered /\ \E c \in [Readers -> SUBSET tables.blocks] : Sharing(c)

LEMMA TotalsAreHonest == ReadingInv /\ TotalsInv => TotalsHonest
<1> SUFFICES ASSUME ReadingInv, TotalsInv PROVE TotalsHonest
  OBVIOUS
<1>1. PICK c \in [Readers -> SUBSET tables.blocks] : Sharing(c)
  BY DEF TotalsInv
<1> DEFINE newer == {b \in tables.blocks : \A n \in totals.whole : b.number > n}
           of(blocks) == [blocks |-> Cardinality(blocks), txs |-> TxsOf(blocks)]
<1>2. newer \in SUBSET AllBlocks /\ WholeBlocks \in SUBSET AllBlocks /\ c \in [Readers -> SUBSET AllBlocks]
      /\ \A r \in Readers : c[r] \subseteq newer
  <2>1. tables.blocks \in SUBSET AllBlocks
    BY BlocksKept
  <2>2. \A r \in Readers : c[r] \subseteq newer
    BY <1>1 DEF Sharing
  <2> QED
    BY <2>1, <2>2 DEF WholeBlocks
<1> HIDE DEF newer
<1>3. ASSUME NEW B \in SUBSET AllBlocks, NEW k \in Kinds PROVE of(B)[k] = Total(Weights(k), B)
  <2>1. Cardinality(B) = Total(Weights("blocks"), B) /\ TxsOf(B) = Total(Weights("txs"), B)
    BY CountsAreTotals
  <2> QED
    BY <2>1 DEF Kinds
<1> HIDE DEF of
<1>4. ASSUME NEW k \in Kinds
      PROVE  /\ of(WholeBlocks)[k] <= totals[k]
             /\ totals[k] <= of(WholeBlocks)[k] + Cardinality(Readers) * of(newer)[k]
  <2> DEFINE w == Weights(k)
  <2>1. IsFiniteSet(AllBlocks) /\ \A b \in AllBlocks : w[b] \in Nat
    BY BlocksKept
  <2>2. totals[k] = Total(w, WholeBlocks) + Shares(w, c)
    BY <1>1 DEF Sharing
  <2> HIDE DEF w
  <2>3. Total(w, WholeBlocks) \in Nat /\ Total(w, newer) \in Nat
    BY <1>2, <2>1, TotalPart
  <2>4. Shares(w, c) \in Nat /\ Shares(w, c) <= Cardinality(Readers) * Total(w, newer)
    BY <1>2, <2>1, SharesTyped, SharesBounded
  <2>5. of(WholeBlocks)[k] = Total(w, WholeBlocks) /\ of(newer)[k] = Total(w, newer)
    BY <1>2, <1>3 DEF w
  <2>6. Cardinality(Readers) \in Nat
    BY FiguresAssumption, FS_CardinalityType
  <2> DEFINE many == Cardinality(Readers) * Total(w, newer)
  <2>7. many \in Nat
    BY <2>3, <2>6
  <2>8. Shares(w, c) <= many /\ totals[k] <= Total(w, WholeBlocks) + many /\ Total(w, WholeBlocks) <= totals[k]
    <3>1. Shares(w, c) <= many
      BY <2>4
    <3> HIDE DEF many
    <3> QED
      BY <2>2, <2>3, <2>4, <2>7, <3>1
  <2> QED
    BY <2>5, <2>8
<1> QED
  BY <1>4 DEF TotalsHonest, newer, of, WholeBlocks, Kinds

LEMMA TotalsFirst == ReadingInv /\ FiguresInit => TotalsInv
<1> SUFFICES ASSUME ReadingInv, FiguresInit PROVE TotalsInv
  OBVIOUS
<1>1. /\ totals = [blocks |-> 0, txs |-> 0, upTo |-> 0, generation |-> 0, whole |-> {}]
      /\ recounting = [at |-> "idle", seen |-> {}] /\ reader = [r \in Readers |-> Nobody]
  BY DEF FiguresInit
<1>2. MaxRecounts \in Nat
  BY FiguresAssumption
<1>3. TotalsTyped
  BY <1>1, <1>2 DEF TotalsTyped, Nobody
<1>4. TotalsOrdered
  BY <1>1, <1>2 DEF TotalsOrdered, Standing, Nobody
<1> DEFINE c == [r \in Readers |-> {}]
<1>5. c \in [Readers -> SUBSET tables.blocks] /\ \A r \in Readers : c[r] = {}
  OBVIOUS
<1>6. \A k \in Kinds : Shares(Weights(k), c) = 0
  BY SharesNone
<1> HIDE DEF c
<1>7. WholeBlocks = {}
  BY <1>1 DEF WholeBlocks
<1>8. \A k \in Kinds : Total(Weights(k), {}) = 0 /\ totals[k] = 0
  <2> TAKE k \in Kinds
  <2>1. \A b \in AllBlocks : Weights(k)[b] \in Int
    BY BlocksKept
  <2>2. Total(Weights(k), {}) = 0
    BY <2>1, BlocksKept, TotalOneMore
  <2> QED
    BY <1>1, <2>2 DEF Kinds
<1>9. Sharing(c)
  BY <1>5, <1>6, <1>7, <1>8 DEF Sharing
<1> QED
  BY <1>3, <1>4, <1>5, <1>9 DEF TotalsInv

LEMMA BlocksWithin == ReadingInv => tables.blocks \in SUBSET AllBlocks
BY BlocksKept

\* A block read is no block of the recount.
LEMMA TotalsGrow ==
    ASSUME ReadingInv, TotalsInv, [ReadingNext]_readingVars, UNCHANGED totalsVars
    PROVE  TotalsInv'
<1>1. /\ tables.blocks \subseteq tables'.blocks
      /\ AllBlocks' = AllBlocks /\ \A k \in Kinds : Weights(k)' = Weights(k)
  BY BlocksGrow
<1>2. ReadingInv'
  BY RowsFitNext
<1>3. totals' = totals /\ recounting' = recounting /\ reader' = reader
  BY DEF totalsVars
<1>4. tables'.blocks \in SUBSET AllBlocks /\ \A b, d \in AllBlocks : b.number = d.number => b = d
  <2>1. (tables.blocks \in SUBSET AllBlocks)'
    BY <1>2, BlocksWithin, PTL
  <2> QED
    BY <1>1, <2>1, BlocksKept
<1>5. TotalsTyped'
  <2>1. TotalsTyped
    BY DEF TotalsInv
  <2>2. recounting.seen \subseteq tables'.blocks /\ \A r \in Readers : reader[r].seen \subseteq tables'.blocks
    BY <1>1, <2>1 DEF TotalsTyped
  <2>3. recounting \in [at : {"idle", "asked", "read"}, seen : SUBSET tables'.blocks]
    BY <2>1, <2>2 DEF TotalsTyped
  <2>4. reader \in [Readers -> [at : {"idle", "waits", "asked", "read"}, generation : 0 .. MaxRecounts,
                                above : Asked \cup {0}, seen : SUBSET tables'.blocks]]
    BY <2>1, <2>2 DEF TotalsTyped
  <2> QED
    BY <1>3, <2>1, <2>3, <2>4 DEF TotalsTyped
<1>6. totals.whole \subseteq Numbers(tables.blocks)
  BY DEF TotalsInv, TotalsOrdered
<1>7. TotalsOrdered'
  <2>1. Numbers(tables.blocks) \subseteq Numbers(tables.blocks)'
    BY <1>1 DEF Numbers
  <2>2. \A r : Standing(r)' <=> Standing(r)
    BY <1>3 DEF Standing
  <2> QED
    BY <1>3, <2>1, <2>2 DEF TotalsInv, TotalsOrdered
<1>8. WholeBlocks' = WholeBlocks
  <2>1. ASSUME NEW b \in tables'.blocks, b.number \in totals.whole PROVE b \in tables.blocks
    <3>1. PICK d \in tables.blocks : b.number = d.number
      BY <1>6, <2>1 DEF Numbers
    <3> QED
      BY <1>1, <1>4, <3>1
  <2> QED
    BY <1>1, <1>3, <2>1 DEF WholeBlocks
<1>9. PICK c \in [Readers -> SUBSET tables.blocks] : Sharing(c)
  BY DEF TotalsInv
<1>10. c \in [Readers -> SUBSET tables'.blocks]
  BY <1>1
<1>11. Sharing(c)'
  <2>1. \A r : Standing(r)' <=> Standing(r)
    BY <1>3 DEF Standing
  <2>2. \A k \in Kinds : Shares(Weights(k), c)' = Shares(Weights(k), c) /\ Total(Weights(k), WholeBlocks)' = Total(Weights(k), WholeBlocks)
    BY <1>1, <1>8 DEF Shares
  <2> QED
    BY <1>3, <1>9, <1>10, <2>1, <2>2 DEF Sharing
<1> QED
  BY <1>5, <1>7, <1>10, <1>11 DEF TotalsInv

\* Elsewhere the rows stay, and the sums over them.
LEMMA SumsStay ==
    ASSUME truth' = truth, tables' = tables
    PROVE  /\ AllBlocks' = AllBlocks /\ \A k \in Kinds : Weights(k)' = Weights(k)
           /\ \A k \in Kinds : \A B, c : Total(Weights(k), B)' = Total(Weights(k), B) /\ Shares(Weights(k), c)' = Shares(Weights(k), c)
           /\ totals' = totals => WholeBlocks' = WholeBlocks
<1>1. \A n : BlockRows(n).block' = BlockRows(n).block
  BY DEF BlockRows
<1>2. AllBlocks' = AllBlocks
  BY <1>1 DEF AllBlocks
<1>3. \A k \in Kinds : Weights(k)' = Weights(k)
  BY <1>2 DEF Weights
<1> QED
  BY <1>2, <1>3 DEF Shares, WholeBlocks

\* While the totals stay and what the readers do keeps to them, the shares stay.
LEMMA SharesStay ==
    ASSUME TotalsInv, UNCHANGED <<truth, tables, totals>>,
           \A r \in Readers : Standing(r)' => \/ Standing(r) /\ reader'[r].above = reader[r].above
                                              \/ reader'[r].above = totals.upTo
    PROVE  \E c \in [Readers -> SUBSET tables'.blocks] : Sharing(c)'
<1>1. PICK c \in [Readers -> SUBSET tables.blocks] : Sharing(c)
  BY DEF TotalsInv
<1>2. \A k \in Kinds : totals'[k] = Total(Weights(k), WholeBlocks)' + Shares(Weights(k), c)'
  <2> TAKE k \in Kinds
  <2>1. WholeBlocks' = WholeBlocks /\ Weights(k)' = Weights(k)
    BY SumsStay
  <2>2. totals[k] = Total(Weights(k), WholeBlocks) + Shares(Weights(k), c)
    BY <1>1 DEF Sharing
  <2> QED
    BY <2>1, <2>2 DEF Shares
<1>3. ASSUME NEW r \in Readers, NEW b \in c[r], Standing(r)' PROVE b.number <= reader'[r].above
  BY <1>1, <1>3 DEF Sharing
<1>4. Sharing(c)'
  BY <1>1, <1>2, <1>3 DEF Sharing
<1> QED
  BY <1>1, <1>4

LEMMA TotalsAsked ==
    ASSUME TotalsInv, NEW r \in Readers, AsksTotals(r)
    PROVE  TotalsInv'
<1>1. truth' = truth /\ tables' = tables /\ totals' = totals /\ reader[r].at = "idle"
  BY DEF AsksTotals
<1>2. TotalsTyped /\ TotalsOrdered
  BY DEF TotalsInv
<1>3. /\ totals.generation \in 0 .. MaxRecounts /\ totals.upTo \in Asked \cup {0} /\ MaxRecounts \in Nat
      /\ \A n \in totals.whole : n <= totals.upTo
  BY <1>2, FiguresAssumption DEF TotalsTyped, TotalsOrdered
<1>4. PICK new \in [at : {"waits", "asked"}, generation : 0 .. MaxRecounts, above : Asked \cup {0}, seen : {{}}] :
        /\ reader' = [reader EXCEPT ![r] = new]
        /\ new.generation <= totals.generation
        /\ new.at = "asked" => new.above = totals.upTo
  <2> DEFINE asks == [at |-> "asked", generation |-> totals.generation, above |-> totals.upTo, seen |-> {}]
             waits == [Nobody EXCEPT !.at = "waits"]
  <2>1. waits = [at |-> "waits", generation |-> 0, above |-> 0, seen |-> {}]
    BY DEF Nobody
  <2>2. reader' = [reader EXCEPT ![r] = asks] \/ reader' = [reader EXCEPT ![r] = waits]
    BY DEF AsksTotals
  <2> QED
    BY <1>3, <2>1, <2>2
<1>5. /\ recounting' = recounting \/ recounting' = [at |-> "asked", seen |-> {}]
      /\ recounting' # recounting => totals.generation < MaxRecounts
  BY DEF AsksTotals
<1>6. reader'[r] = new /\ \A q \in Readers : q # r => reader'[q] = reader[q]
  BY <1>2, <1>4 DEF TotalsTyped
<1>7. TotalsTyped'
  <2>1. recounting' \in [at : {"idle", "asked", "read"}, seen : SUBSET tables.blocks]
    BY <1>2, <1>5 DEF TotalsTyped
  <2>2. new \in [at : {"idle", "waits", "asked", "read"}, generation : 0 .. MaxRecounts,
                 above : Asked \cup {0}, seen : SUBSET tables.blocks]
    OBVIOUS
  <2>3. reader' \in [Readers -> [at : {"idle", "waits", "asked", "read"}, generation : 0 .. MaxRecounts,
                                 above : Asked \cup {0}, seen : SUBSET tables.blocks]]
    BY <1>2, <1>4, <2>2 DEF TotalsTyped
  <2> QED
    BY <1>1, <1>2, <2>1, <2>3 DEF TotalsTyped
<1>8. \A q \in Readers : Standing(q)' => \/ q # r /\ Standing(q) /\ reader'[q].above = reader[q].above
                                         \/ reader'[q].above = totals.upTo
  <2> TAKE q \in Readers
  <2>1. CASE q = r
    BY <1>4, <1>6, <2>1 DEF Standing
  <2>2. CASE q # r
    BY <1>1, <1>6, <2>2 DEF Standing
  <2> QED
    BY <2>1, <2>2
<1>9. TotalsOrdered'
  <2>1. recounting'.at # "idle" => totals.generation < MaxRecounts
    BY <1>2, <1>5 DEF TotalsOrdered
  <2>2. ASSUME NEW q \in Readers
        PROVE  /\ reader'[q].generation <= totals.generation
               /\ Standing(q)' => \A n \in totals.whole : n <= reader'[q].above
               /\ reader'[q].at = "read" => \A b \in reader'[q].seen : b.number > reader'[q].above
    <3>1. reader'[q].generation <= totals.generation
      BY <1>2, <1>4, <1>6 DEF TotalsOrdered
    <3>2. Standing(q)' => \A n \in totals.whole : n <= reader'[q].above
      BY <1>2, <1>3, <1>8 DEF TotalsOrdered
    <3>3. reader'[q].at = "read" => \A b \in reader'[q].seen : b.number > reader'[q].above
      BY <1>2, <1>4, <1>6 DEF TotalsOrdered
    <3> QED
      BY <3>1, <3>2, <3>3
  <2>3. Numbers(tables.blocks)' = Numbers(tables.blocks)
    BY <1>1 DEF Numbers
  <2> QED
    BY <1>1, <1>2, <2>1, <2>2, <2>3 DEF TotalsOrdered
<1>10. \E c \in [Readers -> SUBSET tables'.blocks] : Sharing(c)'
  BY <1>1, <1>8, SharesStay
<1> QED
  BY <1>7, <1>9, <1>10 DEF TotalsInv

\* What a step leaves alone of the order, when only one reader moves.
LEMMA TotalsReads ==
    ASSUME ReadingInv, TotalsInv, NEW r \in Readers, TotalsRead(r)
    PROVE  TotalsInv'
<1>1. /\ truth' = truth /\ tables' = tables /\ totals' = totals /\ recounting' = recounting
      /\ reader[r].at = "asked"
  BY DEF TotalsRead
<1>2. TotalsTyped /\ TotalsOrdered
  BY DEF TotalsInv
<1> DEFINE above == reader[r].above
           new == [at |-> "read", generation |-> reader[r].generation, above |-> above, seen |-> StoredAbove(above)]
<1>3. reader[r] \in [at : {"idle", "waits", "asked", "read"}, generation : 0 .. MaxRecounts,
                     above : Asked \cup {0}, seen : SUBSET tables.blocks]
  BY <1>2 DEF TotalsTyped
<1>4. StoredAbove(above) \in SUBSET tables.blocks /\ \A b \in StoredAbove(above) : b.number > above
  BY DEF StoredAbove
<1>5. reader' = [reader EXCEPT ![r] = new]
  <2> DEFINE some == StoredAbove(reader[r].above)
             half == [reader EXCEPT ![r].at = "read"]
  <2>1. reader' = [reader EXCEPT ![r].at = "read", ![r].seen = some]
    BY DEF TotalsRead
  <2> HIDE DEF some
  <2>2. DOMAIN reader = Readers
    BY <1>2 DEF TotalsTyped
  <2> DEFINE x == reader[r]
             y == [x EXCEPT !.at = "read"]
             z == [y EXCEPT !.seen = some]
  <2>3. reader' = [half EXCEPT ![r].seen = some]
    BY <2>1
  <2>4. x = [at |-> x.at, generation |-> x.generation, above |-> x.above, seen |-> x.seen]
    BY <1>3
  <2>5. half = [reader EXCEPT ![r] = y]
    OBVIOUS
  <2> HIDE DEF x
  <2>6. y = [at |-> "read", generation |-> x.generation, above |-> x.above, seen |-> x.seen]
    BY <2>4
  <2> HIDE DEF half, y
  <2>7. half[r] = y /\ reader' = [half EXCEPT ![r] = [y EXCEPT !.seen = some]]
    BY <2>2, <2>3, <2>5
  <2>8. z = [at |-> "read", generation |-> x.generation, above |-> x.above, seen |-> some]
    BY <2>6
  <2>9. reader' = [reader EXCEPT ![r] = z]
    <3> HIDE DEF z
    <3>1. reader' = [half EXCEPT ![r] = z]
      BY <2>7 DEF z
    <3> QED
      BY <2>2, <2>5, <3>1
  <2> HIDE DEF z
  <2> QED
    BY <2>8, <2>9 DEF x, some
<1> HIDE DEF above
<1>6. /\ reader'[r] = new /\ \A q \in Readers : q # r => reader'[q] = reader[q]
      /\ new \in [at : {"idle", "waits", "asked", "read"}, generation : 0 .. MaxRecounts,
                  above : Asked \cup {0}, seen : SUBSET tables.blocks]
  BY <1>2, <1>3, <1>4, <1>5 DEF TotalsTyped, above
<1>7. \A q \in Readers : Standing(q)' => Standing(q) /\ reader'[q].above = reader[q].above
  <2> TAKE q \in Readers
  <2>1. CASE q = r
    BY <1>1, <1>6, <2>1 DEF Standing, above
  <2>2. CASE q # r
    BY <1>1, <1>6, <2>2 DEF Standing
  <2> QED
    BY <2>1, <2>2
<1>8. TotalsTyped'
  BY <1>1, <1>2, <1>5, <1>6 DEF TotalsTyped
<1>9. TotalsOrdered'
  <2>1. ASSUME NEW q \in Readers
        PROVE  /\ reader'[q].generation <= totals.generation
               /\ Standing(q)' => \A n \in totals.whole : n <= reader'[q].above
               /\ reader'[q].at = "read" => \A b \in reader'[q].seen : b.number > reader'[q].above
    <3>1. reader'[q].generation = reader[q].generation
      BY <1>6
    <3>2. reader'[q].at = "read" => \A b \in reader'[q].seen : b.number > reader'[q].above
      BY <1>2, <1>4, <1>6 DEF TotalsOrdered
    <3> QED
      BY <1>2, <1>7, <3>1, <3>2 DEF TotalsOrdered
  <2>2. Numbers(tables.blocks)' = Numbers(tables.blocks)
    BY <1>1 DEF Numbers
  <2> QED
    BY <1>1, <1>2, <2>1, <2>2 DEF TotalsOrdered
<1>10. \E c \in [Readers -> SUBSET tables'.blocks] : Sharing(c)'
  BY <1>1, <1>7, SharesStay
<1> QED
  BY <1>8, <1>9, <1>10 DEF TotalsInv

\* Readers that stop waiting, and a recount that reads, fails or is idle.
LEMMA RecountMoves ==
    ASSUME TotalsInv, UNCHANGED <<truth, tables, totals>>,
           recounting' \in [at : {"idle", "asked", "read"}, seen : SUBSET tables.blocks],
           recounting'.at # "idle" => recounting.at # "idle",
           reader' \in [Readers -> [at : {"idle", "waits", "asked", "read"}, generation : 0 .. MaxRecounts,
                                    above : Asked \cup {0}, seen : SUBSET tables.blocks]],
           \A q \in Readers : reader'[q] = reader[q] \/ reader'[q] = Nobody
    PROVE  TotalsInv'
<1>1. TotalsTyped /\ TotalsOrdered
  BY DEF TotalsInv
<1>2. \A q \in Readers : Standing(q)' => Standing(q) /\ reader'[q].above = reader[q].above
  BY DEF Standing, Nobody
<1>3. TotalsTyped'
  BY <1>1 DEF TotalsTyped
<1>4. TotalsOrdered'
  <2>1. ASSUME NEW q \in Readers
        PROVE  /\ reader'[q].generation <= totals.generation
               /\ Standing(q)' => \A n \in totals.whole : n <= reader'[q].above
               /\ reader'[q].at = "read" => \A b \in reader'[q].seen : b.number > reader'[q].above
    <3>1. totals.generation \in Nat
      BY <1>1, FiguresAssumption DEF TotalsTyped
    <3>2. CASE reader'[q] = Nobody
      BY <1>2, <3>1, <3>2 DEF Nobody, Standing
    <3>3. CASE reader'[q] = reader[q]
      BY <1>1, <1>2, <3>3 DEF TotalsOrdered
    <3> QED
      BY <3>2, <3>3
  <2>2. Numbers(tables.blocks)' = Numbers(tables.blocks)
    BY DEF Numbers
  <2> QED
    BY <1>1, <2>1, <2>2 DEF TotalsOrdered
<1>5. \E c \in [Readers -> SUBSET tables'.blocks] : Sharing(c)'
  BY <1>2, SharesStay
<1> QED
  BY <1>3, <1>4, <1>5 DEF TotalsInv

LEMMA RecountStarts == ASSUME TotalsInv, RecountReads \/ RecountFails PROVE TotalsInv'
<1>1. TotalsTyped /\ truth' = truth /\ tables' = tables /\ totals' = totals
  BY DEF TotalsInv, RecountReads, RecountFails
<1>2. CASE RecountReads
  <2>1. recounting' = [at |-> "read", seen |-> tables.blocks] /\ reader' = reader /\ recounting.at = "asked"
    BY <1>2 DEF RecountReads
  <2> QED
    BY <1>1, <2>1, RecountMoves DEF TotalsTyped
<1>3. CASE RecountFails
  <2>1. /\ recounting' = [at |-> "idle", seen |-> {}] /\ recounting.at # "idle"
        /\ reader' = [q \in Readers |-> IF reader[q].at = "waits" THEN Nobody ELSE reader[q]]
    BY <1>3 DEF RecountFails
  <2>2. Nobody \in [at : {"idle", "waits", "asked", "read"}, generation : 0 .. MaxRecounts,
                    above : Asked \cup {0}, seen : SUBSET tables.blocks]
    BY FiguresAssumption DEF Nobody
  <2>3. reader' \in [Readers -> [at : {"idle", "waits", "asked", "read"}, generation : 0 .. MaxRecounts,
                                 above : Asked \cup {0}, seen : SUBSET tables.blocks]]
    BY <1>1, <2>1, <2>2 DEF TotalsTyped
  <2>4. \A q \in Readers : reader'[q] = reader[q] \/ reader'[q] = Nobody
    BY <2>1
  <2> QED
    BY <1>1, <2>1, <2>3, <2>4, RecountMoves
<1> QED
  BY <1>2, <1>3

\* The count arrives: nobody has added anything to it, and who waited reads above it.
LEMMA RecountArrives == ASSUME ReadingInv, TotalsInv, RecountEnds PROVE TotalsInv'
<1> DEFINE seen == recounting.seen
           next == totals.generation + 1
           newest == Newest(seen, 0)
<1>1. TotalsTyped /\ TotalsOrdered
  BY DEF TotalsInv
<1>2. /\ truth' = truth /\ tables' = tables /\ recounting.at = "read"
      /\ totals' = [blocks |-> Cardinality(seen), txs |-> TxsOf(seen), upTo |-> newest, generation |-> next, whole |-> Numbers(seen)]
      /\ recounting' = [at |-> "idle", seen |-> {}]
      /\ reader' = [q \in Readers |-> IF reader[q].at # "waits" THEN reader[q]
                                      ELSE [at |-> "asked", generation |-> totals'.generation, above |-> totals'.upTo, seen |-> {}]]
  BY DEF RecountEnds, Numbers
<1>3. seen \in SUBSET tables.blocks /\ seen \in SUBSET AllBlocks /\ next \in 1 .. MaxRecounts /\ totals.generation \in Nat
  BY <1>1, <1>2, BlocksKept, FiguresAssumption DEF TotalsTyped, TotalsOrdered
<1>4. /\ Cardinality(seen) = Total(Weights("blocks"), seen) /\ TxsOf(seen) = Total(Weights("txs"), seen)
      /\ Cardinality(seen) \in Nat /\ TxsOf(seen) \in Nat
  BY <1>3, CountsAreTotals
<1>5. newest \in Asked \cup {0} /\ \A b \in seen : b.number <= newest
  BY <1>3, NewestIs
<1>6. totals'.generation = next /\ totals'.upTo = newest /\ totals'.whole = Numbers(seen)
      /\ totals'["blocks"] = Cardinality(seen) /\ totals'["txs"] = TxsOf(seen)
  BY <1>2
<1> DEFINE asks == [at |-> "asked", generation |-> next, above |-> newest, seen |-> {}]
<1>7. \A q \in Readers : reader'[q] = IF reader[q].at # "waits" THEN reader[q] ELSE asks
  BY <1>2, <1>6
<1>8. \A n \in Numbers(seen) : n \in Asked /\ n <= newest
  BY <1>3, <1>5, BlocksKept DEF Numbers
<1>9. TotalsTyped'
  <2>1. totals' \in [blocks : Nat, txs : Nat, upTo : Asked \cup {0}, generation : 0 .. MaxRecounts, whole : SUBSET Asked]
    BY <1>2, <1>3, <1>4, <1>5, <1>8
  <2>2. asks \in [at : {"idle", "waits", "asked", "read"}, generation : 0 .. MaxRecounts,
                  above : Asked \cup {0}, seen : SUBSET tables.blocks]
    BY <1>3, <1>5
  <2>3. reader' \in [Readers -> [at : {"idle", "waits", "asked", "read"}, generation : 0 .. MaxRecounts,
                                 above : Asked \cup {0}, seen : SUBSET tables.blocks]]
    BY <1>1, <1>2, <1>6, <2>2 DEF TotalsTyped
  <2> QED
    BY <1>2, <2>1, <2>3 DEF TotalsTyped
<1>10. \A q \in Readers : Standing(q)' => reader'[q].above = newest
  <2> TAKE q \in Readers
  <2>1. CASE reader[q].at # "waits"
    <3>1. reader'[q].generation <= totals.generation /\ reader'[q].generation \in Nat
      BY <1>1, <1>7, <2>1, FiguresAssumption DEF TotalsOrdered, TotalsTyped
    <3> QED
      BY <1>3, <1>6, <3>1 DEF Standing
  <2>2. CASE reader[q].at = "waits"
    BY <1>7, <2>2
  <2> QED
    BY <2>1, <2>2
<1>11. TotalsOrdered'
  <2>1. ASSUME NEW q \in Readers
        PROVE  /\ reader'[q].generation <= next
               /\ Standing(q)' => \A n \in Numbers(seen) : n <= reader'[q].above
               /\ reader'[q].at = "read" => \A b \in reader'[q].seen : b.number > reader'[q].above
    <3>1. reader[q].generation <= totals.generation /\ reader[q].generation \in Nat
      BY <1>1, FiguresAssumption DEF TotalsOrdered, TotalsTyped
    <3>2. reader'[q].generation <= next
      BY <1>3, <1>7, <3>1
    <3>3. reader'[q].at = "read" => \A b \in reader'[q].seen : b.number > reader'[q].above
      BY <1>1, <1>7 DEF TotalsOrdered
    <3> QED
      BY <1>8, <1>10, <3>2, <3>3
  <2>2. Numbers(seen) \subseteq Numbers(tables.blocks)'
    BY <1>2, <1>3 DEF Numbers
  <2> HIDE DEF seen, next, newest, asks
  <2> QED
    BY <1>2, <1>6, <1>8, <2>1, <2>2 DEF TotalsOrdered
<1> DEFINE c == [r \in Readers |-> {}]
<1>12. c \in [Readers -> SUBSET tables'.blocks] /\ \A r \in Readers : c[r] = {}
  OBVIOUS
<1>13. WholeBlocks' = seen
  <2>1. ASSUME NEW b \in tables.blocks, b.number \in Numbers(seen) PROVE b \in seen
    <3>1. PICK d \in seen : b.number = d.number
      BY <2>1 DEF Numbers
    <3> QED
      BY <1>3, <3>1, BlocksKept
  <2>2. \A b \in seen : b \in tables.blocks /\ b.number \in Numbers(seen)
    BY <1>3 DEF Numbers
  <2> HIDE DEF seen
  <2> QED
    BY <1>2, <1>6, <2>1, <2>2 DEF WholeBlocks
<1>14. \A k \in Kinds : totals'[k] = Total(Weights(k), WholeBlocks)' + Shares(Weights(k), c)'
  <2> TAKE k \in Kinds
  <2>1. Weights(k)' = Weights(k)
    BY <1>2, SumsStay
  <2>2. Shares(Weights(k), c) = 0
    BY SharesNone
  <2>3. totals'[k] = Total(Weights(k), seen) /\ Total(Weights(k), seen) \in Nat
    BY <1>4, <1>6 DEF Kinds
  <2> HIDE DEF c, seen
  <2>4. Shares(Weights(k), c)' = 0 /\ Total(Weights(k), WholeBlocks)' = Total(Weights(k), seen)
    BY <1>13, <2>1, <2>2 DEF Shares
  <2> QED
    BY <2>3, <2>4
<1>15. Sharing(c)'
  <2> HIDE DEF c
  <2> QED
    BY <1>12, <1>14 DEF Sharing
<1> QED
  BY <1>9, <1>11, <1>12, <1>15 DEF TotalsInv

\* A request is answered: what it read is added, unless a recount came between.
LEMMA TotalsAnswered ==
    ASSUME ReadingInv, TotalsInv, NEW r \in Readers, TotalsTold(r)
    PROVE  TotalsInv'
<1>1. /\ truth' = truth /\ tables' = tables /\ recounting' = recounting /\ reader[r].at = "read"
      /\ totals' = Added(r) /\ reader' = [reader EXCEPT ![r] = Nobody]
  BY DEF TotalsTold
<1>2. TotalsTyped /\ TotalsOrdered
  BY DEF TotalsInv
<1>3. reader'[r] = Nobody /\ \A q \in Readers : q # r => reader'[q] = reader[q]
  BY <1>1, <1>2 DEF TotalsTyped
<1>4. reader' \in [Readers -> [at : {"idle", "waits", "asked", "read"}, generation : 0 .. MaxRecounts,
                               above : Asked \cup {0}, seen : SUBSET tables.blocks]]
  <2>1. Nobody \in [at : {"idle", "waits", "asked", "read"}, generation : 0 .. MaxRecounts,
                    above : Asked \cup {0}, seen : SUBSET tables.blocks]
    BY FiguresAssumption DEF Nobody
  <2> QED
    BY <1>1, <1>2, <2>1 DEF TotalsTyped
<1>5. CASE reader[r].generation # totals.generation
  <2>1. totals' = totals
    BY <1>1, <1>5 DEF Added
  <2>2. recounting \in [at : {"idle", "asked", "read"}, seen : SUBSET tables.blocks]
    BY <1>2 DEF TotalsTyped
  <2>3. \A q \in Readers : reader'[q] = reader[q] \/ reader'[q] = Nobody
    BY <1>3
  <2> QED
    BY <1>1, <1>4, <2>1, <2>2, <2>3, RecountMoves
<1>6. CASE reader[r].generation = totals.generation
  <2> DEFINE seen == reader[r].seen
             newest == Newest(seen, 0)
             upTo == IF newest > totals.upTo THEN newest ELSE totals.upTo
             blocks == totals.blocks + Cardinality(seen)
             txs == totals.txs + TxsOf(seen)
  <2>1. seen \in SUBSET tables.blocks /\ seen \in SUBSET AllBlocks
    BY <1>2, BlocksKept DEF TotalsTyped
  <2>2. /\ Cardinality(seen) = Total(Weights("blocks"), seen) /\ TxsOf(seen) = Total(Weights("txs"), seen)
        /\ Cardinality(seen) \in Nat /\ TxsOf(seen) \in Nat
    BY <2>1, CountsAreTotals
  <2>3. newest \in Asked \cup {0} /\ \A b \in seen : b.number <= newest
    BY <2>1, NewestIs
  <2>4. /\ totals \in [blocks : Nat, txs : Nat, upTo : Asked \cup {0}, generation : 0 .. MaxRecounts, whole : SUBSET Asked]
        /\ Asked \cup {0} \subseteq Nat
    BY <1>2, ReadingAssumption DEF TotalsTyped
  <2>5. /\ totals' = [totals EXCEPT !.blocks = blocks, !.txs = txs, !.upTo = upTo]
    BY <1>1, <1>6 DEF Added
  <2>6. upTo \in Asked \cup {0} /\ totals.upTo <= upTo /\ newest <= upTo /\ blocks \in Nat /\ txs \in Nat
    BY <2>2, <2>3, <2>4
  <2> HIDE DEF seen, newest, upTo, blocks, txs
  <2>7. totals' = [blocks |-> blocks, txs |-> txs, upTo |-> upTo, generation |-> totals.generation, whole |-> totals.whole]
    <3> DEFINE one == [totals EXCEPT !.blocks = blocks]
               two == [one EXCEPT !.txs = txs]
    <3>1. totals' = [two EXCEPT !.upTo = upTo]
      BY <2>5
    <3>2. one = [blocks |-> blocks, txs |-> totals.txs, upTo |-> totals.upTo, generation |-> totals.generation, whole |-> totals.whole]
      BY <2>4
    <3> HIDE DEF one
    <3>3. two = [blocks |-> blocks, txs |-> txs, upTo |-> totals.upTo, generation |-> totals.generation, whole |-> totals.whole]
      BY <3>2
    <3> HIDE DEF two
    <3> QED
      BY <3>1, <3>3
  <2>8. /\ totals'.upTo = upTo /\ totals'.generation = totals.generation /\ totals'.whole = totals.whole
        /\ totals'["blocks"] = blocks /\ totals'["txs"] = txs
    BY <2>7
  <2>9. TotalsTyped'
    <3>1. totals' \in [blocks : Nat, txs : Nat, upTo : Asked \cup {0}, generation : 0 .. MaxRecounts, whole : SUBSET Asked]
      BY <2>4, <2>6, <2>7
    <3> QED
      BY <1>1, <1>2, <1>4, <3>1 DEF TotalsTyped
  <2>10. \A q \in Readers : Standing(q)' => q # r /\ Standing(q) /\ reader'[q] = reader[q]
    BY <1>3, <2>8 DEF Standing, Nobody
  <2>11. TotalsOrdered'
    <3>1. ASSUME NEW q \in Readers
          PROVE  /\ reader'[q].generation <= totals.generation
                 /\ Standing(q)' => \A n \in totals.whole : n <= reader'[q].above
                 /\ reader'[q].at = "read" => \A b \in reader'[q].seen : b.number > reader'[q].above
      <4>1. totals.generation \in Nat
        BY <2>4, FiguresAssumption
      <4>2. CASE q = r
        BY <1>3, <2>10, <4>1, <4>2 DEF Nobody
      <4>3. CASE q # r
        BY <1>2, <1>3, <2>10, <4>3 DEF TotalsOrdered
      <4> QED
        BY <4>2, <4>3
    <3>2. Numbers(tables.blocks)' = Numbers(tables.blocks)
      BY <1>1 DEF Numbers
    <3>3. \A n \in totals.whole : n <= upTo
      <4>1. \A n \in totals.whole : n \in Nat /\ n <= totals.upTo
        BY <1>2, <2>4 DEF TotalsOrdered
      <4> QED
        BY <2>4, <2>6, <4>1
    <3> QED
      BY <1>1, <1>2, <2>8, <3>1, <3>2, <3>3 DEF TotalsOrdered
  <2>12. PICK c : c \in [Readers -> SUBSET tables.blocks] /\ Sharing(c)
    BY DEF TotalsInv
  <2>13. Standing(r) /\ (\A b \in c[r] : b.number <= reader[r].above)
         /\ (\A b \in seen : b.number > reader[r].above) /\ (\A n \in totals.whole : n <= reader[r].above)
    BY <1>1, <1>2, <1>6, <2>12 DEF Standing, Sharing, TotalsOrdered, seen
  <2>14. \A b \in AllBlocks : b.number \in Nat
    BY BlocksKept
  <2>15. reader[r].above \in Nat
    BY <1>2, <2>4 DEF TotalsTyped
  <2>16. c[r] \cap seen = {} /\ c \in [Readers -> SUBSET AllBlocks]
    <3>1. c \in [Readers -> SUBSET AllBlocks]
      BY <2>12, BlocksKept
    <3>2. ASSUME NEW b \in c[r], b \in seen PROVE FALSE
      BY <2>1, <2>13, <2>14, <2>15, <3>2
    <3> QED
      BY <3>1, <3>2
  <2>17. PICK d : d \in [Readers -> SUBSET tables.blocks] /\ d[r] = c[r] \cup seen /\ \A q \in Readers : q # r => d[q] = c[q]
    <3> DEFINE e == [c EXCEPT ![r] = @ \cup seen]
    <3>1. e \in [Readers -> SUBSET tables.blocks] /\ e[r] = c[r] \cup seen /\ \A q \in Readers : q # r => e[q] = c[q]
      BY <2>1, <2>12
    <3> QED
      BY <3>1
  <2>18. \A k \in Kinds : Shares(Weights(k), d) = Shares(Weights(k), c) + Total(Weights(k), seen)
    <3> TAKE k \in Kinds
    <3> DEFINE more == seen
    <3> HIDE DEF more
    <3>1. d \in [Readers -> SUBSET AllBlocks] /\ more \in SUBSET AllBlocks
      BY <2>1, <2>17, BlocksKept DEF more
    <3>2. c \in [Readers -> SUBSET AllBlocks] /\ c[r] \cap more = {} /\ d[r] = c[r] \cup more
      BY <2>16, <2>17 DEF more
    <3>3. \A q \in Readers : q # r => d[q] = c[q]
      BY <2>17
    <3>4. Shares(Weights(k), d) = Shares(Weights(k), c) + Total(Weights(k), more)
      BY <3>1, <3>2, <3>3, SharesMore
    <3> QED
      BY <3>4 DEF more
  <2>19. \A k \in Kinds : totals'[k] = Total(Weights(k), WholeBlocks)' + Shares(Weights(k), d)'
    <3> TAKE k \in Kinds
    <3>1. Weights(k)' = Weights(k)
      BY <1>1, SumsStay
    <3>2. WholeBlocks' = WholeBlocks
      BY <1>1, <2>8 DEF WholeBlocks
    <3>3. totals'[k] = totals[k] + Total(Weights(k), seen)
      BY <2>2, <2>8 DEF Kinds, blocks, txs
    <3>4. totals[k] = Total(Weights(k), WholeBlocks) + Shares(Weights(k), c)
      BY <2>12 DEF Sharing
    <3>5. Total(Weights(k), WholeBlocks) \in Nat /\ Shares(Weights(k), c) \in Nat /\ Total(Weights(k), seen) \in Nat
      <4>1. WholeBlocks \in SUBSET AllBlocks
        BY BlocksKept DEF WholeBlocks
      <4>2. IsFiniteSet(AllBlocks) /\ \A b \in AllBlocks : Weights(k)[b] \in Nat
        BY BlocksKept
      <4> QED
        BY <2>1, <2>16, <4>1, <4>2, TotalPart, SharesTyped
    <3>6. totals'[k] = Total(Weights(k), WholeBlocks) + Shares(Weights(k), d)
      <4> DEFINE t == Total(Weights(k), WholeBlocks)
                 u == Shares(Weights(k), c)
                 v == Total(Weights(k), seen)
      <4>1. totals'[k] = (t + u) + v
        BY <3>3, <3>4
      <4>2. Shares(Weights(k), d) = u + v
        BY <2>18
      <4>3. t \in Nat /\ u \in Nat /\ v \in Nat
        BY <3>5
      <4> HIDE DEF t, u, v
      <4>4. totals'[k] = t + (u + v)
        BY <4>1, <4>3
      <4> QED
        BY <4>2, <4>4 DEF t
    <3>7. Shares(Weights(k), d)' = Shares(Weights(k), d) /\ Total(Weights(k), WholeBlocks)' = Total(Weights(k), WholeBlocks)
      BY <3>1, <3>2 DEF Shares
    <3> QED
      BY <3>6, <3>7
  <2>20. ASSUME NEW q \in Readers, NEW b \in d[q]
         PROVE  /\ b.number <= upTo /\ \A n \in totals.whole : b.number > n
                /\ Standing(q)' => b.number <= reader'[q].above
    <3>1. CASE b \in c[q]
      <4>1. /\ b.number <= totals.upTo /\ \A n \in totals.whole : b.number > n
            /\ Standing(q) => b.number <= reader[q].above
        BY <2>12, <3>1 DEF Sharing
      <4>2. b.number \in Nat
        BY <2>14, <2>16, <3>1
      <4> QED
        BY <2>4, <2>6, <2>10, <4>1, <4>2
    <3>2. CASE b \notin c[q]
      <4>1. q = r /\ b \in seen
        BY <2>17, <3>2
      <4>2. b.number \in Nat /\ b.number > reader[r].above /\ b.number <= newest
        BY <2>1, <2>3, <2>13, <2>14, <4>1
      <4>3. ASSUME NEW n \in totals.whole PROVE b.number > n
        <5>1. n \in Nat /\ n <= reader[r].above
          BY <2>4, <2>13
        <5> QED
          BY <2>15, <4>2, <5>1
      <4>4. b.number <= upTo
        BY <2>3, <2>4, <2>6, <4>2
      <4> QED
        BY <2>10, <4>1, <4>3, <4>4
    <3> QED
      BY <3>1, <3>2
  <2>21. Sharing(d)'
    BY <1>1, <2>8, <2>17, <2>19, <2>20 DEF Sharing
  <2> QED
    BY <1>1, <2>9, <2>11, <2>17, <2>21 DEF TotalsInv
<1> QED
  BY <1>5, <1>6

\* The parts of a run that leave the blocks and the totals as they are.
LEMMA TotalsRest == ASSUME ReadingInv, TotalsInv, UNCHANGED <<truth, tables, totalsVars>> PROVE TotalsInv'
<1>1. [ReadingNext]_readingVars /\ UNCHANGED totalsVars
  BY DEF readingVars
<1> QED
  BY <1>1, TotalsGrow

LEMMA TotalsStepped ==
    ReadingInv /\ TotalsInv /\ [RecordsNext \/ Rests]_recordsVars => TotalsInv'
<1> SUFFICES ASSUME ReadingInv, TotalsInv, [RecordsNext \/ Rests]_recordsVars PROVE TotalsInv'
  OBVIOUS
<1>1. ASSUME ReadingNext, UNCHANGED totalsVars PROVE TotalsInv'
  BY <1>1, TotalsGrow
<1>2. ASSUME TotalsNext PROVE TotalsInv'
  <2>1. ASSUME NEW n \in Asked, ReadsBlock(n, "light"), UNCHANGED totalsVars PROVE TotalsInv'
    BY <2>1, <1>1 DEF ReadingNext
  <2>2. ASSUME NEW r \in Readers, TotalsStep(r) PROVE TotalsInv'
    BY <2>2, TotalsAsked, TotalsReads, TotalsAnswered DEF TotalsStep
  <2>3. ASSUME RecountReads \/ RecountEnds \/ RecountFails PROVE TotalsInv'
    BY <2>3, RecountStarts, RecountArrives
  <2> QED
    BY <1>2, <2>1, <2>2, <2>3 DEF TotalsNext
<1>3. ASSUME UNCHANGED <<truth, tables, totalsVars>> PROVE TotalsInv'
  BY <1>3, TotalsRest
<1>4. ASSUME SalesStep PROVE UNCHANGED <<truth, tables, totalsVars>>
  BY <1>4 DEF SalesStep, AgentSigns, RecordsSettlement, AgentCloses
<1>5. ASSUME ClockTicks PROVE UNCHANGED <<truth, tables, totalsVars>>
  BY <1>5 DEF ClockTicks
<1>6. ASSUME UNCHANGED figuresVars PROVE UNCHANGED <<truth, tables, totalsVars>>
  BY <1>6 DEF figuresVars, totalsVars
<1>7. ASSUME UNCHANGED recordsVars PROVE UNCHANGED figuresVars
  BY <1>7 DEF recordsVars
<1> QED
  BY <1>1, <1>2, <1>3, <1>4, <1>5, <1>6, <1>7 DEF RecordsNext, Rests

\* However a count of the whole table falls among the requests, the totals told
\* hold every block it saw, none twice, and each one stored since at most once
\* for each request under way (queries.ts, recount and blockTotals): for any
\* number of requests and of counts.
THEOREM TotalsAreTrue == RecordsSpec => []TotalsHonest
<1>1. RecordsInit => ReadingInv /\ TotalsInv
  BY RowsFitFirst, TotalsFirst DEF RecordsInit, FiguresInit
<1>2. ReadingInv /\ TotalsInv /\ [RecordsNext \/ Rests]_recordsVars => ReadingInv' /\ TotalsInv'
  BY RowsFitNext, RecordsStep, TotalsStepped
<1>3. ReadingInv /\ TotalsInv => TotalsHonest
  BY TotalsAreHonest
<1> QED
  BY <1>1, <1>2, <1>3, PTL DEF RecordsSpec

-----------------------------------------------------------------------------
(* The prices and what was burned and paid out. *)

MarketInv == seenRows \in Markets /\ clock \in Nat

Bases == [r \in seenRows |-> r.base]
Dollars == [r \in seenRows |-> r.usdc]

LEMMA RowsSeen ==
    ASSUME MarketInv
    PROVE  /\ IsFiniteSet(seenRows)
           /\ \A r \in seenRows : IsSighting(r) /\ r.base \in Nat /\ r.usdc \in Nat /\ r.at \in Nat
           /\ \A r \in seenRows : Bases[r] = r.base /\ Bases[r] \in Nat
           /\ \A r \in seenRows : Dollars[r] = r.usdc /\ Dollars[r] \in Nat
<1>1. seenRows \in Markets
  BY DEF MarketInv
<1>2. IsFiniteSet(seenRows) /\ \A r \in seenRows : IsSighting(r)
  BY <1>1, FiguresAssumption
<1>3. \A r \in seenRows : r.base \in Nat /\ r.usdc \in Nat /\ r.at \in Nat
  BY <1>2 DEF IsSighting
<1> QED
  BY <1>2, <1>3 DEF Bases, Dollars

\* The volumes of some rows are totals.
LEMMA VolumesAreTotals ==
    ASSUME MarketInv, NEW rows \in SUBSET seenRows
    PROVE  /\ IsFiniteSet(rows)
           /\ BaseOf(rows) = Total(Bases, rows) /\ BaseOf(rows) \in Nat
           /\ UsdcOf(rows) = Total(Dollars, rows) /\ UsdcOf(rows) \in Nat
<1>1. IsFiniteSet(rows)
  BY RowsSeen, FS_Subset
<1> DEFINE f == [r \in rows |-> r.base]
           g == [r \in rows |-> r.usdc]
<1>2. BaseOf(rows) = Total(f, rows) /\ UsdcOf(rows) = Total(g, rows)
  <2>1. SumFunction(f) = Total(f, DOMAIN f) /\ SumFunction(g) = Total(g, DOMAIN g)
    BY SumIsTotal
  <2> QED
    BY <2>1 DEF BaseOf, UsdcOf
<1>3. \A r \in rows : f[r] \in Int /\ f[r] = Bases[r]
  BY RowsSeen
<1>4. \A r \in rows : g[r] \in Int /\ g[r] = Dollars[r]
  BY RowsSeen
<1>5. \A r \in rows : Bases[r] \in Nat
  BY RowsSeen
<1>6. \A r \in rows : Dollars[r] \in Nat
  BY RowsSeen
<1> HIDE DEF f, g
<1>7. Total(f, rows) = Total(Bases, rows)
  BY <1>1, <1>3, TotalSame
<1>8. Total(g, rows) = Total(Dollars, rows)
  BY <1>1, <1>4, TotalSame
<1>9. Total(Bases, rows) \in Nat
  BY <1>1, <1>5, TotalPart
<1>10. Total(Dollars, rows) \in Nat
  BY <1>1, <1>6, TotalPart
<1> QED
  BY <1>1, <1>2, <1>7, <1>8, <1>9, <1>10

\* The groups share out the volume of the rows.
LEMMA GroupsShare ==
    ASSUME MarketInv, NEW rows \in SUBSET seenRows, NEW key
    PROVE  SumFunction([g \in Grouped(rows, key) |-> g.usdc]) = UsdcOf(rows)
<1> DEFINE K == {key[r] : r \in rows}
           with(k) == {r \in rows : key[r] = k}
           row(k) == [key |-> k, trades |-> Cardinality(with(k)), vwap |-> Vwap(with(k)), usdc |-> UsdcOf(with(k))]
           m == [k \in K |-> row(k)]
           h == [k \in K |-> UsdcOf(with(k))]
           f == [g \in Grouped(rows, key) |-> g.usdc]
<1>1. IsFiniteSet(rows) /\ UsdcOf(rows) = Total(Dollars, rows)
  BY VolumesAreTotals
<1>2. IsFiniteSet(K)
  BY <1>1, FiniteImage
<1>3. Grouped(rows, key) = {m[k] : k \in K}
  BY DEF Grouped
<1>4. \A k \in K : h[k] = Total(Dollars, with(k)) /\ h[k] \in Nat
  <2> TAKE k \in K
  <2>1. with(k) \in SUBSET seenRows
    OBVIOUS
  <2> HIDE DEF with
  <2> QED
    BY <2>1, VolumesAreTotals
<1>5. \A k \in K : m[k].usdc = h[k] /\ m[k].key = k
  OBVIOUS
<1>6. \A k \in K : f[m[k]] = h[k]
  BY <1>3, <1>5
<1>7. SumFunction(f) = Total(f, {m[k] : k \in K})
  <2>1. DOMAIN f = {m[k] : k \in K}
    BY <1>3
  <2> HIDE DEF f, m, K
  <2>2. SumFunction(f) = Total(f, DOMAIN f)
    BY SumIsTotal
  <2> QED
    BY <2>1, <2>2
<1>8. \A r \in rows : key[r] \in K
  OBVIOUS
<1>a. \A r \in rows : Dollars[r] \in Int
  <2> HIDE DEF K
  <2> QED
    BY RowsSeen
<1> HIDE DEF f, h, m
<1>9. \A k \in K : h[k] \in Int /\ h[k] = f[m[k]]
  <2> HIDE DEF K, with
  <2> QED
    BY <1>4, <1>6
<1>10. \A j, k \in K : m[j] = m[k] => j = k
  BY <1>5
<1> USE DEF h
<1> DEFINE group == [k \in K |-> with(k)]
<1>11. \A k \in K : h[k] = Total(Dollars, group[k])
  BY <1>4
<1>b. \A k \in K : group[k] \in SUBSET rows
  OBVIOUS
<1>c. \A k \in K : \A r \in rows : r \in group[k] <=> key[r] = k
  OBVIOUS
<1> HIDE DEF K, group, h
<1>12. Total(h, K) = Total(f, {m[k] : k \in K})
  <2> DEFINE R == {m[k] : k \in K}
  <2>1. \A k \in K : m[k] \in R
    OBVIOUS
  <2>2. \A r \in R : \E k \in K : r = m[k]
    OBVIOUS
  <2> HIDE DEF R
  <2>3. Total(h, K) = Total(f, R)
    BY <1>2, <1>9, <1>10, <2>1, <2>2, TotalRenamed, SMTT(40)
  <2> QED
    BY <2>3 DEF R
<1>13. Total(h, K) = Total(Dollars, rows)
  BY <1>1, <1>2, <1>8, <1>a, <1>11, <1>b, <1>c, TotalGrouped
<1> QED
  BY <1>1, <1>7, <1>12, <1>13 DEF f

\* A rate none of the trades is below, or above, bounds the rate of them all.
LEMMA RateBounded ==
    ASSUME MarketInv, NEW rows \in SUBSET seenRows, NEW t \in rows
    PROVE  /\ (\A u \in rows : t.usdc * u.base <= u.usdc * t.base) => t.usdc * BaseOf(rows) <= UsdcOf(rows) * t.base
           /\ (\A u \in rows : t.usdc * u.base >= u.usdc * t.base) => t.usdc * BaseOf(rows) >= UsdcOf(rows) * t.base
<1> DEFINE a == t.usdc
           b == t.base
           f == [u \in rows |-> a * Bases[u]]
           g == [u \in rows |-> b * Dollars[u]]
           allBase == BaseOf(rows)
           allUsdc == UsdcOf(rows)
<1>1. a \in Int /\ b \in Int
  BY RowsSeen
<1>2. /\ IsFiniteSet(rows) /\ allBase = Total(Bases, rows) /\ allUsdc = Total(Dollars, rows)
      /\ allBase \in Nat /\ allUsdc \in Nat
  BY VolumesAreTotals
<1>3. \A u \in rows : Bases[u] = u.base /\ Bases[u] \in Int
  BY RowsSeen
<1>4. \A u \in rows : Dollars[u] = u.usdc /\ Dollars[u] \in Int
  BY RowsSeen
<1> HIDE DEF a, b, allBase, allUsdc
<1>5. \A u \in rows : f[u] = a * u.base /\ f[u] \in Int
  BY <1>1, <1>3
<1>6. \A u \in rows : g[u] = u.usdc * b /\ g[u] \in Int
  BY <1>1, <1>4
<1>7. \A u \in rows : Bases[u] \in Int /\ f[u] = a * Bases[u]
  BY <1>3
<1>8. \A u \in rows : Dollars[u] \in Int /\ g[u] = b * Dollars[u]
  BY <1>4
<1> HIDE DEF f, g
<1>9. Total(f, rows) = a * allBase
  BY <1>1, <1>2, <1>7, TotalScaled
<1>10. Total(g, rows) = allUsdc * b
  <2>1. Total(g, rows) = b * allUsdc
    BY <1>1, <1>2, <1>8, TotalScaled
  <2> QED
    BY <1>1, <1>2, <2>1
<1>11. ASSUME \A u \in rows : a * u.base <= u.usdc * b PROVE a * allBase <= allUsdc * b
  <2>1. \A u \in rows : f[u] \in Int /\ g[u] \in Int /\ f[u] <= g[u]
    BY <1>5, <1>6, <1>11
  <2>2. Total(f, rows) <= Total(g, rows)
    BY <1>2, <2>1, TotalCompare
  <2> QED
    BY <1>9, <1>10, <2>2
<1>12. ASSUME \A u \in rows : a * u.base >= u.usdc * b PROVE a * allBase >= allUsdc * b
  <2>1. \A u \in rows : g[u] \in Int /\ f[u] \in Int /\ g[u] <= f[u]
    BY <1>5, <1>6, <1>12
  <2>2. Total(g, rows) <= Total(f, rows)
    BY <1>2, <2>1, TotalCompare
  <2>3. a * allBase \in Int /\ allUsdc * b \in Int
    BY <1>1, <1>2
  <2> QED
    BY <1>9, <1>10, <2>2, <2>3
<1> QED
  BY <1>11, <1>12 DEF a, b, allBase, allUsdc

\* At one rate the volumes are to each other as that rate; and no volume is no trade.
LEMMA AtOneRate ==
    ASSUME MarketInv, NEW rows \in SUBSET seenRows
    PROVE  /\ \A a \in Nat : (\A t \in rows : t.usdc = a * t.base) => UsdcOf(rows) = a * BaseOf(rows)
           /\ (\A t \in rows : t.kind = "trade") => (BaseOf(rows) = 0 <=> rows = {})
<1>1. IsFiniteSet(rows) /\ BaseOf(rows) = Total(Bases, rows) /\ UsdcOf(rows) = Total(Dollars, rows)
  BY VolumesAreTotals
<1>2. \A t \in rows : Bases[t] = t.base /\ Bases[t] \in Nat
  BY RowsSeen
<1>3. \A t \in rows : Dollars[t] = t.usdc
  BY RowsSeen
<1>4. ASSUME NEW a \in Nat, \A t \in rows : t.usdc = a * t.base PROVE UsdcOf(rows) = a * BaseOf(rows)
  <2>1. a \in Int /\ \A t \in rows : Bases[t] \in Int /\ Dollars[t] = a * Bases[t]
    BY <1>2, <1>3, <1>4
  <2> QED
    BY <1>1, <2>1, TotalScaled
<1>5. ASSUME \A t \in rows : t.kind = "trade" PROVE BaseOf(rows) = 0 <=> rows = {}
  <2>1. \A t \in rows : Bases[t] \in Int
    BY <1>2
  <2>2. CASE rows = {}
    <3>1. Total(Bases, {}) = 0
      BY <1>1, <2>1, TotalOneMore
    <3> QED
      BY <1>1, <2>2, <3>1
  <2>3. ASSUME NEW t \in rows PROVE BaseOf(rows) > 0
    <3>1. t.base > 0 /\ t.base \in Nat
      BY <1>5, RowsSeen DEF IsSighting
    <3>2. Total(Bases, rows) = Bases[t] + Total(Bases, rows \ {t})
      <4>1. rows \in SUBSET rows
        OBVIOUS
      <4> QED
        BY <1>1, <2>1, <4>1, TotalOneMore
    <3>3. Total(Bases, rows \ {t}) \in Nat
      <4>1. rows \ {t} \in SUBSET rows
        OBVIOUS
      <4> QED
        BY <1>1, <1>2, <4>1, TotalPart
    <3> DEFINE rest == Total(Bases, rows \ {t})
    <3> HIDE DEF rest
    <3>4. BaseOf(rows) = t.base + rest /\ rest \in Nat
      BY <1>1, <1>2, <3>2, <3>3 DEF rest
    <3> QED
      BY <3>1, <3>4
  <2> QED
    BY <2>2, <2>3
<1> QED
  BY <1>4, <1>5

LEMMA Cancels == \A x \in Nat \ {0} : \A y \in Int : (y * x) \div x = y
  OBVIOUS

\* The hour a day earlier at one rate.
LEMMA AtOneRateThen ==
    ASSUME MarketInv, NEW b \in {1, 2},
           \A t \in Within(Trades, clock - Day - Hour, clock - Day) : t.usdc = b * t.base
    PROVE  LET earlier == Within(Trades, clock - Day - Hour, clock - Day)
           IN  DayAgo = <<(b * b) * BaseOf(earlier), b * BaseOf(earlier)>>
<1> DEFINE earlier == Within(Trades, clock - Day - Hour, clock - Day)
           f == [t \in earlier |-> (t.usdc * t.usdc) \div t.base]
<1>1. earlier \in SUBSET seenRows /\ \A t \in earlier : t.kind = "trade" /\ t.usdc = b * t.base
  BY DEF Within, Trades, SoFar
<1>2. DayAgo = <<SumFunction(f), UsdcOf(earlier)>>
  BY DEF DayAgo
<1> HIDE DEF earlier
<1>3. b \in Nat /\ b * b \in Int
  OBVIOUS
<1>4. UsdcOf(earlier) = b * BaseOf(earlier)
  BY <1>1, <1>3, AtOneRate
<1>5. ASSUME NEW t \in earlier PROVE f[t] = (b * b) * t.base /\ t.base \in Nat
  <2>1. t.base \in Nat \ {0} /\ t.usdc = b * t.base
    BY <1>1, RowsSeen DEF IsSighting
  <2> DEFINE x == t.base
             y == (b * b) * x
  <2>2. x \in Nat \ {0} /\ y \in Int /\ t.usdc = b * x
    BY <1>3, <2>1
  <2>3. t.usdc * t.usdc = y * x
    BY <2>2, Z3
  <2>4. (y * x) \div x = y
    <3> HIDE DEF x, y
    <3> QED
      BY <2>2, Cancels
  <2> QED
    BY <2>1, <2>3, <2>4
<1>6. IsFiniteSet(earlier) /\ BaseOf(earlier) = Total(Bases, earlier)
  BY <1>1, VolumesAreTotals
<1>7. SumFunction(f) = Total(f, earlier)
  BY SumIsTotal
<1>8. \A t \in earlier : Bases[t] \in Int /\ f[t] = (b * b) * Bases[t]
  <2> TAKE t \in earlier
  <2>1. Bases[t] = t.base /\ Bases[t] \in Int
    BY <1>1, RowsSeen
  <2> HIDE DEF f
  <2> QED
    BY <1>5, <2>1
<1> HIDE DEF f
<1> DEFINE c == b * b
<1>9. Total(f, earlier) = c * Total(Bases, earlier)
  <2>1. c \in Int /\ \A t \in earlier : Bases[t] \in Int /\ f[t] = c * Bases[t]
    BY <1>3, <1>8
  <2> HIDE DEF c
  <2> QED
    BY <1>6, <2>1, TotalScaled
<1> QED
  BY <1>2, <1>4, <1>6, <1>7, <1>9 DEF earlier

\* The sign of the change of one rate to another.
LEMMA ChangeTold ==
    ASSUME MarketInv, NEW a \in {1, 2}, NEW b \in {1, 2},
           \A t \in {t \in Trades : t.at > clock - Hour} : t.usdc = a * t.base,
           \A t \in Within(Trades, clock - Day - Hour, clock - Day) : t.usdc = b * t.base
    PROVE  Change = IF {t \in Trades : t.at > clock - Hour} = {} \/ Within(Trades, clock - Day - Hour, clock - Day) = {}
                    THEN {} ELSE {a - b}
<1> DEFINE lately == {t \in Trades : t.at > clock - Hour}
           earlier == Within(Trades, clock - Day - Hour, clock - Day)
           B == BaseOf(lately)
           C == BaseOf(earlier)
<1>1. lately \in SUBSET seenRows /\ \A t \in lately : t.kind = "trade" /\ t.usdc = a * t.base
  BY DEF Trades, SoFar
<1>2. earlier \in SUBSET seenRows /\ \A t \in earlier : t.kind = "trade" /\ t.usdc = b * t.base
  BY DEF Within, Trades, SoFar
<1>3. FxSummary(Hour).vwap = <<UsdcOf(lately), B>>
  BY DEF FxSummary, Vwap
<1>4. DayAgo = <<(b * b) * C, b * C>>
  BY AtOneRateThen
<1> HIDE DEF lately, earlier
<1>5. UsdcOf(lately) = a * B /\ (B = 0 <=> lately = {}) /\ B \in Nat
  <2>1. a \in Nat
    OBVIOUS
  <2> QED
    BY <1>1, <2>1, AtOneRate, VolumesAreTotals
<1>6. (C = 0 <=> earlier = {}) /\ C \in Nat
  BY <1>2, AtOneRate, VolumesAreTotals
<1> DEFINE more == (a * B) * (b * C) - ((b * b) * C) * B
<1>7. Change = IF B = 0 \/ (b * b) * C = 0 THEN {} ELSE {IF more > 0 THEN 1 ELSE IF more < 0 THEN -1 ELSE 0}
  <2>1. FxSummary(Hour).vwap[1] = a * B /\ FxSummary(Hour).vwap[2] = B /\ DayAgo[1] = (b * b) * C /\ DayAgo[2] = b * C
    BY <1>3, <1>4, <1>5
  <2> QED
    BY <2>1 DEF Change
<1>8. (b * b) * C = 0 <=> C = 0
  BY <1>6
<1> DEFINE v == B * C
<1>9. v \in Int /\ (B # 0 /\ C # 0 => v > 0)
  BY <1>5, <1>6
<1>10. more = (a * b - b * b) * v
  BY <1>5, <1>6
<1> HIDE DEF B, C, more, v
<1>11. B # 0 /\ C # 0 => (IF more > 0 THEN 1 ELSE IF more < 0 THEN -1 ELSE 0) = a - b
  <2> HAVE B # 0 /\ C # 0
  <2>1. v > 0 /\ v \in Int
    BY <1>9
  <2>2. CASE a = b
    BY <1>10, <2>1, <2>2
  <2>3. CASE a = 1 /\ b = 2
    BY <1>10, <2>1, <2>3
  <2>4. CASE a = 2 /\ b = 1
    BY <1>10, <2>1, <2>4
  <2> QED
    BY <2>2, <2>3, <2>4
<1>12. Change = IF lately = {} \/ earlier = {} THEN {} ELSE {a - b}
  BY <1>5, <1>6, <1>7, <1>8, <1>11
<1> QED
  BY <1>12 DEF lately, earlier

\* What the token did, of one kind and in all.
OfKind(kind, rows) == {r \in rows : r.kind = kind}
Events == SoFar \ Trades

LEMMA KindsShare ==
    ASSUME MarketInv, NEW rows \in SUBSET Events
    PROVE  /\ \A kind \in {"burn", "payout"} :
                SumFunction([r \in {r \in rows : r.kind = kind} |-> r.base]) = BaseOf(OfKind(kind, rows))
           /\ BaseOf(OfKind("burn", rows)) + BaseOf(OfKind("payout", rows)) = BaseOf(rows)
<1>1. rows \in SUBSET seenRows /\ \A r \in rows : r.kind \in {"burn", "payout"}
  <2> SUFFICES ASSUME NEW r \in rows PROVE r \in seenRows /\ r.kind \in {"burn", "payout"}
    OBVIOUS
  <2>1. r \in seenRows /\ r.kind # "trade"
    BY DEF Events, Trades, SoFar
  <2> QED
    BY <2>1, RowsSeen DEF IsSighting
<1>2. \A kind \in {"burn", "payout"} :
        SumFunction([r \in {r \in rows : r.kind = kind} |-> r.base]) = BaseOf(OfKind(kind, rows))
  BY DEF BaseOf, OfKind
<1> DEFINE X == OfKind("burn", rows)
           Y == OfKind("payout", rows)
<1>3. X \in SUBSET rows /\ Y \in SUBSET rows /\ X \cap Y = {} /\ X \cup Y = rows
  BY <1>1 DEF OfKind
<1> HIDE DEF X, Y
<1>4. /\ BaseOf(X) = Total(Bases, X) /\ BaseOf(Y) = Total(Bases, Y) /\ BaseOf(rows) = Total(Bases, rows)
      /\ IsFiniteSet(rows)
  BY <1>1, <1>3, VolumesAreTotals
<1>5. \A r \in rows : Bases[r] \in Int
  BY <1>1, RowsSeen
<1>6. Total(Bases, X \cup Y) = Total(Bases, X) + Total(Bases, Y)
  BY <1>3, <1>4, <1>5, TotalSplit
<1>7. BaseOf(X) + BaseOf(Y) = BaseOf(rows)
  BY <1>3, <1>4, <1>6
<1> QED
  BY <1>2, <1>7 DEF X, Y

\* Fewer rows, no more tokens.
LEMMA FewerRows ==
    ASSUME MarketInv, NEW all \in SUBSET seenRows, NEW some \in SUBSET all
    PROVE  BaseOf(some) \in Nat /\ BaseOf(all) \in Nat /\ BaseOf(some) <= BaseOf(all)
<1>1. /\ BaseOf(some) = Total(Bases, some) /\ BaseOf(all) = Total(Bases, all) /\ IsFiniteSet(all)
  BY VolumesAreTotals
<1>2. \A r \in all : Bases[r] \in Nat
  BY RowsSeen
<1> QED
  BY <1>1, <1>2, TotalPart

LEMMA TokensTold ==
    ASSUME MarketInv
    PROVE  LET t == TokenSummary
           IN  /\ t.burnedToday <= t.burned /\ t.payoutsToday <= t.payouts
               /\ SumFunction(t.perHour) \in (t.burnedToday + t.payoutsToday) .. (t.burned + t.payouts)
<1> DEFINE day == {r \in Events : r.at > clock - Day}
           charted == {r \in Events : r.at > clock - 3 * Day}
           then(h) == {r \in charted : r.at = h}
           H == {r.at : r \in charted}
           of(kind, rows) == SumFunction([r \in {r \in rows : r.kind = kind} |-> r.base])
           perHour == [h \in H |-> of("burn", then(h)) + of("payout", then(h))]
<1>1. TokenSummary = [burned |-> of("burn", Events), burnedToday |-> of("burn", day),
                      payouts |-> of("payout", Events), payoutsToday |-> of("payout", day),
                      recipients |-> Cardinality({r.venue : r \in {r \in Events : r.kind = "payout"}}), perHour |-> perHour]
  BY DEF TokenSummary, Events
<1>2. Events \in SUBSET seenRows /\ day \in SUBSET charted /\ charted \in SUBSET Events /\ day \in SUBSET Events
  <2>1. Events \in SUBSET seenRows
    BY DEF Events, SoFar
  <2>2. ASSUME NEW r \in Events, r.at > clock - Day PROVE r.at > clock - 3 * Day
    <3>1. r.at \in Nat /\ clock \in Nat /\ Day \in Nat
      BY <2>1, RowsSeen, FiguresAssumption DEF MarketInv
    <3> QED
      BY <2>2, <3>1
  <2> QED
    BY <2>1, <2>2
<1>3. \A rows \in SUBSET Events : \A kind \in {"burn", "payout"} : of(kind, rows) = BaseOf(OfKind(kind, rows))
  BY KindsShare
<1>4. \A rows \in SUBSET Events : of("burn", rows) + of("payout", rows) = BaseOf(rows)
  <2> TAKE rows \in SUBSET Events
  <2>1. BaseOf(OfKind("burn", rows)) + BaseOf(OfKind("payout", rows)) = BaseOf(rows)
    BY KindsShare
  <2>2. of("burn", rows) = BaseOf(OfKind("burn", rows)) /\ of("payout", rows) = BaseOf(OfKind("payout", rows))
    BY <1>3
  <2> HIDE DEF of
  <2> QED
    BY <2>1, <2>2
<1>5. charted \in SUBSET seenRows
  BY <1>2
<1>6. /\ IsFiniteSet(charted) /\ BaseOf(charted) = Total(Bases, charted)
  BY <1>5, VolumesAreTotals
<1>7. \A h \in H : then(h) \in SUBSET charted
  OBVIOUS
<1> DEFINE group == [h \in H |-> then(h)]
           m == [r \in charted |-> r.at]
<1>8. \A h \in H : perHour[h] = Total(Bases, group[h])
  <2> TAKE h \in H
  <2>1. then(h) \in SUBSET Events /\ then(h) \in SUBSET seenRows
    BY <1>2
  <2>2. of("burn", then(h)) + of("payout", then(h)) = BaseOf(then(h))
    BY <1>4, <2>1
  <2>3. perHour[h] = of("burn", then(h)) + of("payout", then(h)) /\ group[h] = then(h)
    OBVIOUS
  <2> HIDE DEF then, perHour, of, group
  <2>4. BaseOf(then(h)) = Total(Bases, then(h))
    BY <2>1, VolumesAreTotals
  <2> QED
    BY <2>2, <2>3, <2>4
<1>9. \A r \in charted : m[r] \in H
  OBVIOUS
<1>10. \A h \in H : group[h] \in SUBSET charted
  OBVIOUS
<1>11. \A h \in H : \A r \in charted : r \in group[h] <=> m[r] = h
  OBVIOUS
<1>12. IsFiniteSet(H)
  <2>1. H = {m[r] : r \in charted}
    OBVIOUS
  <2> HIDE DEF m, H, charted
  <2> QED
    BY <1>6, <2>1, FiniteImage
<1>13. SumFunction(perHour) = Total(perHour, H)
  <2>1. DOMAIN perHour = H
    OBVIOUS
  <2> HIDE DEF perHour, H
  <2> QED
    BY <2>1, SumIsTotal
<1>14. \A r \in charted : Bases[r] \in Int
  <2> HIDE DEF charted
  <2> QED
    BY <1>5, RowsSeen
<1>15. Total(perHour, H) = Total(Bases, charted)
  <2> HIDE DEF perHour, H, m, group, charted
  <2> QED
    BY <1>6, <1>8, <1>9, <1>10, <1>11, <1>12, <1>14, TotalGrouped
<1> DEFINE burned == of("burn", Events)
           burnedDay == of("burn", day)
           paid == of("payout", Events)
           paidDay == of("payout", day)
           hourly == SumFunction(perHour)
<1>16. burned + paid = BaseOf(Events) /\ burnedDay + paidDay = BaseOf(day)
  <2> HIDE DEF of, day
  <2> QED
    BY <1>2, <1>4
<1>17. hourly = BaseOf(charted)
  <2> HIDE DEF charted, perHour, H
  <2> QED
    BY <1>6, <1>13, <1>15
<1>18. BaseOf(day) <= BaseOf(charted) /\ BaseOf(charted) <= BaseOf(Events)
       /\ BaseOf(day) \in Nat /\ BaseOf(charted) \in Nat /\ BaseOf(Events) \in Nat
  <2> HIDE DEF day, charted
  <2> QED
    BY <1>2, <1>5, FewerRows
<1>19. burnedDay <= burned /\ paidDay <= paid
  <2>1. /\ OfKind("burn", day) \in SUBSET OfKind("burn", Events) /\ OfKind("burn", Events) \in SUBSET seenRows
        /\ OfKind("payout", day) \in SUBSET OfKind("payout", Events) /\ OfKind("payout", Events) \in SUBSET seenRows
    BY <1>2 DEF OfKind
  <2>2. /\ BaseOf(OfKind("burn", day)) <= BaseOf(OfKind("burn", Events))
        /\ BaseOf(OfKind("payout", day)) <= BaseOf(OfKind("payout", Events))
    BY <2>1, FewerRows
  <2>3. Events \in SUBSET Events
    OBVIOUS
  <2> HIDE DEF of, day
  <2> QED
    BY <1>2, <1>3, <2>2, <2>3
<1>20. /\ TokenSummary.burned = burned /\ TokenSummary.burnedToday = burnedDay
       /\ TokenSummary.payouts = paid /\ TokenSummary.payoutsToday = paidDay /\ SumFunction(TokenSummary.perHour) = hourly
  <2> HIDE DEF of, perHour, day
  <2> QED
    BY <1>1
<1> HIDE DEF burned, burnedDay, paid, paidDay, hourly, day, charted
<1>21. hourly \in (burnedDay + paidDay) .. (burned + paid)
  BY <1>16, <1>17, <1>18
<1> QED
  BY <1>19, <1>20, <1>21

\* However the trades and the events fall among the windows.
LEMMA PricesFit == MarketInv => PricesTrue
<1> SUFFICES ASSUME MarketInv PROVE PricesTrue
  OBVIOUS
<1> DEFINE lately == {t \in Trades : t.at > clock - Hour}
           earlier == Within(Trades, clock - Day - Hour, clock - Day)
           fx == FxSummary(Hour)
<1>1. lately \in SUBSET seenRows
  BY DEF Trades, SoFar
<1>2. /\ fx.vwap = <<UsdcOf(lately), BaseOf(lately)>> /\ fx.base = BaseOf(lately) /\ fx.usdc = UsdcOf(lately)
      /\ fx.min = {t \in lately : \A u \in lately : t.usdc * u.base <= u.usdc * t.base}
      /\ fx.max = {t \in lately : \A u \in lately : t.usdc * u.base >= u.usdc * t.base}
      /\ fx.bySize = Grouped(lately, [t \in lately |-> Bucket(t)])
      /\ fx.venues = Grouped(lately, [t \in lately |-> t.venue])
      /\ fx.series = Grouped(lately, [t \in lately |-> t.at])
  BY DEF FxSummary, Vwap
<1> HIDE DEF fx, lately
<1>3. fx.vwap[1] * fx.base = fx.usdc * fx.vwap[2]
  BY <1>2
<1>4. ASSUME NEW t \in fx.min PROVE t.usdc * fx.vwap[2] <= fx.vwap[1] * t.base
  BY <1>1, <1>2, RateBounded
<1>5. ASSUME NEW t \in fx.max PROVE t.usdc * fx.vwap[2] >= fx.vwap[1] * t.base
  BY <1>1, <1>2, RateBounded
<1>6. /\ SumFunction([g \in fx.bySize |-> g.usdc]) = fx.usdc
      /\ SumFunction([g \in fx.venues |-> g.usdc]) = fx.usdc
      /\ SumFunction([g \in fx.series |-> g.usdc]) = fx.usdc
  BY <1>1, <1>2, GroupsShare
<1>7. \A a, b \in {1, 2} : (\A t \in lately : t.usdc = a * t.base) /\ (\A t \in earlier : t.usdc = b * t.base) =>
        Change = IF lately = {} \/ earlier = {} THEN {} ELSE {a - b}
  BY ChangeTold DEF lately
<1>8. LET t == TokenSummary
      IN  /\ t.burnedToday <= t.burned /\ t.payoutsToday <= t.payouts
          /\ SumFunction(t.perHour) \in (t.burnedToday + t.payoutsToday) .. (t.burned + t.payouts)
  BY TokensTold
<1> QED
  BY <1>3, <1>4, <1>5, <1>6, <1>7, <1>8 DEF PricesTrue, fx, lately

LEMMA MarketStays ==
    MarketInv /\ [RecordsNext \/ Rests]_recordsVars => MarketInv'
<1> SUFFICES ASSUME MarketInv, [RecordsNext \/ Rests]_recordsVars PROVE MarketInv'
  OBVIOUS
<1>1. UNCHANGED marketRows \/ ClockTicks
  <2>1. ASSUME ReadingNext, UNCHANGED marketRows PROVE UNCHANGED marketRows
    BY <2>1
  <2>2. ASSUME TotalsNext PROVE UNCHANGED marketRows
    BY <2>2 DEF TotalsNext, TotalsStep, AsksTotals, TotalsRead, TotalsTold, RecountReads, RecountEnds, RecountFails
  <2>3. ASSUME SalesStep PROVE UNCHANGED marketRows
    BY <2>3 DEF SalesStep, AgentSigns, RecordsSettlement, AgentCloses
  <2>4. ASSUME UNCHANGED figuresVars PROVE UNCHANGED marketRows
    BY <2>4 DEF figuresVars, marketRows
  <2>5. ASSUME UNCHANGED recordsVars PROVE UNCHANGED figuresVars
    BY <2>5 DEF recordsVars
  <2> QED
    BY <2>1, <2>2, <2>3, <2>4, <2>5 DEF RecordsNext, Rests
<1> QED
  BY <1>1 DEF MarketInv, marketRows, ClockTicks

\* The rate told lies between those of its trades, the groups share out its
\* volume whole, an hour at one rate has moved as that rate did, and what was
\* burned and paid out is told once, whatever was traded and when (queries.ts,
\* fxSummary, marketPrices, tokenSummary).
THEOREM PricesAreTrue == RecordsSpec => []PricesTrue
<1>1. RecordsInit => MarketInv
  BY DEF RecordsInit, FiguresInit, MarketInv
<1> QED
  BY <1>1, MarketStays, PricesFit, PTL DEF RecordsSpec

-----------------------------------------------------------------------------
(* The sales and who bought. *)

\* A row of the ledger and a settlement are those of a purchase.
RowFits(r, b) ==
    /\ r = [id |-> b.id, agent |-> b.agent, rail |-> b.rail, payer |-> r.payer, tx |-> r.tx, status |-> r.status]
    /\ b.agent # "none"
    /\ r.payer \in {NoWallet, b.wallet} /\ r.tx \in {"none", b.id}
    /\ b.rail = "lightning" => r.payer = NoWallet

SettlementFits(s, b) ==
    /\ s.id = b.id /\ s.rail = b.rail
    /\ s.payer = IF b.rail = "lightning" THEN NoWallet ELSE CanonicalAddress(b.wallet)
    /\ s.tx = IF b.ends = "settled" THEN b.id ELSE "none"

SalesInv ==
    /\ buys \in Buys
    /\ \A r \in ledgerRows : \E b \in buys : RowFits(r, b)
    /\ \A s \in settlements : \E b \in buys : SettlementFits(s, b)

LEMMA SalesFirst == FiguresInit => SalesInv
  BY DEF FiguresInit, SalesInv

LEMMA BookKept ==
    ASSUME SalesInv
    PROVE  /\ IsBook(buys)
           /\ \A a, b \in buys : a.id = b.id => a = b
           /\ \A b \in buys : b.id # "none" /\ b.wallet \in Wallet /\ b.ends \in {"settled", "failed", "not_charged"}
  BY FiguresAssumption DEF SalesInv, IsBook

LEMMA SalesSigned ==
    ASSUME SalesInv, NEW b \in buys, AgentSigns(b)
    PROVE  SalesInv'
<1> DEFINE row == [id |-> b.id, agent |-> b.agent, rail |-> b.rail, payer |-> NoWallet, tx |-> "none", status |-> "signed"]
<1>1. /\ b.agent # "none" /\ ledgerRows' = ledgerRows \cup {row} /\ settlements' = settlements /\ buys' = buys
  BY DEF AgentSigns
<1>2. RowFits(row, b)
  BY <1>1 DEF RowFits
<1> HIDE DEF row
<1> QED
  BY <1>1, <1>2 DEF SalesInv

LEMMA SalesRecorded ==
    ASSUME SalesInv, NEW b \in buys, RecordsSettlement(b)
    PROVE  SalesInv'
<1> DEFINE row == [id |-> b.id, rail |-> b.rail, outcome |-> b.ends, amount |-> b.amount,
                   payer |-> IF b.rail = "lightning" THEN NoWallet ELSE CanonicalAddress(b.wallet),
                   tx |-> IF b.ends = "settled" THEN b.id ELSE "none"]
<1>1. /\ ledgerRows' = ledgerRows /\ settlements' = settlements \cup {row} /\ buys' = buys
  BY DEF RecordsSettlement
<1>2. SettlementFits(row, b)
  BY DEF SettlementFits
<1> HIDE DEF row
<1> QED
  BY <1>1, <1>2 DEF SalesInv

LEMMA SalesClosed ==
    ASSUME SalesInv, NEW b \in buys, AgentCloses(b)
    PROVE  SalesInv'
<1>1. PICK r \in RowOf(b) : \E payer \in PayersNamed(b) :
             ledgerRows' = (ledgerRows \ {r}) \cup
                {[r EXCEPT !.status = IF b.ends = "not_charged" THEN "quoted" ELSE b.ends, !.payer = payer,
                           !.tx = IF b.ends = "settled" \/ b.rail = "lightning" THEN b.id ELSE @]}
  BY DEF AgentCloses
<1>2. PICK payer \in PayersNamed(b) :
        ledgerRows' = (ledgerRows \ {r}) \cup
           {[r EXCEPT !.status = IF b.ends = "not_charged" THEN "quoted" ELSE b.ends, !.payer = payer,
                      !.tx = IF b.ends = "settled" \/ b.rail = "lightning" THEN b.id ELSE @]}
  BY <1>1
<1>a. payer \in {NoWallet, b.wallet} /\ (b.rail = "lightning" => payer = NoWallet)
  BY DEF PayersNamed
<1> DEFINE state == IF b.ends = "not_charged" THEN "quoted" ELSE b.ends
           tx == IF b.ends = "settled" \/ b.rail = "lightning" THEN b.id ELSE r.tx
           row == [r EXCEPT !.status = state, !.payer = payer, !.tx = tx]
<1>3. ledgerRows' = (ledgerRows \ {r}) \cup {row}
  BY <1>2
<1>4. PICK c \in buys : RowFits(r, c)
  BY <1>1 DEF SalesInv, RowOf
<1>5. c = b
  <2>1. r.id = c.id /\ r.id = b.id
    BY <1>1, <1>4 DEF RowOf, RowFits
  <2> QED
    BY <2>1, BookKept
<1>6. tx \in {"none", b.id}
  BY <1>4, <1>5 DEF RowFits
<1> HIDE DEF state, tx
<1>7. row = [id |-> b.id, agent |-> b.agent, rail |-> b.rail, payer |-> payer, tx |-> tx, status |-> state]
  <2>1. PICK old, oldTx, oldStatus :
          r = [id |-> b.id, agent |-> b.agent, rail |-> b.rail, payer |-> old, tx |-> oldTx, status |-> oldStatus]
    BY <1>4, <1>5 DEF RowFits
  <2> DEFINE one == [r EXCEPT !.status = state]
             two == [one EXCEPT !.payer = payer]
  <2>2. row = [two EXCEPT !.tx = tx]
    OBVIOUS
  <2>3. one = [id |-> b.id, agent |-> b.agent, rail |-> b.rail, payer |-> old, tx |-> oldTx, status |-> state]
    BY <2>1
  <2> HIDE DEF one
  <2>4. two = [id |-> b.id, agent |-> b.agent, rail |-> b.rail, payer |-> payer, tx |-> oldTx, status |-> state]
    BY <2>3
  <2> HIDE DEF two, row
  <2> QED
    BY <2>2, <2>4
<1> HIDE DEF row
<1>8. RowFits(row, b)
  <2>1. row.payer = payer /\ row.tx = tx /\ row.status = state
    BY <1>7
  <2>2. b.agent # "none"
    BY <1>4, <1>5 DEF RowFits
  <2>3. row = [id |-> b.id, agent |-> b.agent, rail |-> b.rail, payer |-> row.payer, tx |-> row.tx, status |-> row.status]
    BY <1>7, <2>1
  <2> QED
    BY <1>a, <1>6, <2>1, <2>2, <2>3 DEF RowFits
<1>9. settlements' = settlements /\ buys' = buys
  BY DEF AgentCloses
<1> QED
  BY <1>3, <1>8, <1>9 DEF SalesInv

LEMMA SalesStay ==
    SalesInv /\ [RecordsNext \/ Rests]_recordsVars => SalesInv'
<1> SUFFICES ASSUME SalesInv, [RecordsNext \/ Rests]_recordsVars PROVE SalesInv'
  OBVIOUS
<1>1. SalesStep \/ UNCHANGED <<buys, salesVars>>
  <2>1. ASSUME TotalsNext PROVE UNCHANGED <<buys, salesVars>>
    BY <2>1 DEF TotalsNext, TotalsStep, AsksTotals, TotalsRead, TotalsTold, RecountReads, RecountEnds, RecountFails
  <2>2. ASSUME ClockTicks PROVE UNCHANGED <<buys, salesVars>>
    BY <2>2 DEF ClockTicks
  <2>3. ASSUME UNCHANGED figuresVars PROVE UNCHANGED <<buys, salesVars>>
    BY <2>3 DEF figuresVars, salesVars
  <2>4. ASSUME UNCHANGED recordsVars PROVE UNCHANGED figuresVars
    BY <2>4 DEF recordsVars
  <2> QED
    BY <2>1, <2>2, <2>3, <2>4 DEF RecordsNext, Rests
<1>2. ASSUME UNCHANGED <<buys, salesVars>> PROVE SalesInv'
  BY <1>2 DEF SalesInv, salesVars
<1>3. ASSUME SalesStep PROVE SalesInv'
  BY <1>3, SalesSigned, SalesRecorded, SalesClosed DEF SalesStep
<1> QED
  BY <1>1, <1>2, <1>3

\* The wallets known as ours are those of our agents or configured.
LEMMA OursKnown ==
    ASSUME SalesInv, NEW w \in Ours
    PROVE  \/ \E o \in OwnPayers : w = CanonicalAddress(o)
           \/ \E b \in buys : b.agent # "none" /\ w = Lower(b.wallet)
<1>1. CASE w \in {CanonicalAddress(o) : o \in OwnPayers}
  BY <1>1
<1>2. CASE w \in SelftestWallets
  <2>1. PICK r \in ledgerRows : w = Lower(r.payer) /\ r.payer # NoWallet
    BY <1>2 DEF SelftestWallets
  <2>2. PICK b \in buys : RowFits(r, b)
    BY DEF SalesInv
  <2>3. r.payer = b.wallet /\ b.agent # "none"
    BY <2>1, <2>2 DEF RowFits
  <2> QED
    BY <2>1, <2>3
<1> QED
  BY <1>1, <1>2 DEF Ours

\* Writing an address one way or another leaves whose it is.
LEMMA Addresses ==
    ASSUME NEW w \in Wallet
    PROVE  /\ Lower(w) \in Wallet /\ SameWallet(Lower(w), w)
           /\ CanonicalAddress(w) \in Wallet /\ SameWallet(CanonicalAddress(w), w)
<1>1. Lower(w) = [kind |-> w.kind, name |-> w.name, written |-> "lower"]
  BY DEF Lower, Wallet
<1>2. Lower(w) \in Wallet /\ SameWallet(Lower(w), w)
  BY <1>1 DEF Wallet, SameWallet
<1> QED
  BY <1>2 DEF CanonicalAddress, SameWallet

\* A settlement is one of ours exactly when it is not shown as a customer's.
LEMMA ShownAsCounted == ASSUME NEW s PROVE External(s) <=> Who(s) = "external"
  BY DEF External, Who, Ours

LEMMA CustomersApart == SalesInv => CustomersToldApart
<1> SUFFICES ASSUME SalesInv, NEW s \in settlements, NEW b \in buys, b.id = s.id
             PROVE  /\ b.customer => External(s)
                    /\ ~b.customer /\ KnownAsOurs(b) => ~External(s)
                    /\ External(s) <=> Who(s) = "external"
  BY DEF CustomersToldApart
<1>1. IsBook(buys) /\ b.id # "none" /\ b.wallet \in Wallet
  BY BookKept
<1>2. SettlementFits(s, b)
  <2>1. PICK c \in buys : SettlementFits(s, c)
    BY DEF SalesInv
  <2>2. c.id = b.id
    BY <2>1 DEF SettlementFits
  <2> QED
    BY <2>1, <2>2, BookKept
<1>3. ASSUME b.customer PROVE External(s)
  <2>1. IsCustomer(b, buys)
    BY <1>1, <1>3 DEF IsBook
  <2>2. ASSUME NEW c \in buys, c.agent # "none" PROVE ~SameWallet(b.wallet, c.wallet)
    <3>1. ~c.customer
      BY <1>1, <2>2 DEF IsBook, IsCustomer
    <3> QED
      BY <2>1, <3>1 DEF IsCustomer
  <2>3. ASSUME NEW o \in OwnPayers PROVE ~SameWallet(b.wallet, o)
    BY <2>1 DEF IsCustomer
  <2>4. ASSUME s.payer # NoWallet, s.payer \in Ours PROVE FALSE
    <3>1. s.payer = CanonicalAddress(b.wallet)
      BY <1>2, <2>4 DEF SettlementFits
    <3>2. SameWallet(s.payer, b.wallet)
      BY <1>1, <3>1, Addresses
    <3>3. ASSUME NEW o \in OwnPayers, s.payer = CanonicalAddress(o) PROVE FALSE
      <4>1. SameWallet(s.payer, o)
        BY <3>3, Addresses, FiguresAssumption
      <4> QED
        BY <2>3, <3>2, <4>1 DEF SameWallet
    <3>4. ASSUME NEW c \in buys, c.agent # "none", s.payer = Lower(c.wallet) PROVE FALSE
      <4>1. SameWallet(s.payer, c.wallet)
        BY <3>4, Addresses, BookKept
      <4> QED
        BY <2>2, <3>2, <3>4, <4>1 DEF SameWallet
    <3> QED
      BY <2>4, <3>3, <3>4, OursKnown
  <2>5. ASSUME s.tx # "none", s.tx \in OwnLightning PROVE FALSE
    <3>1. s.tx = b.id
      BY <1>2, <2>5 DEF SettlementFits
    <3>2. PICK r \in ledgerRows : r.tx = b.id /\ r.tx # "none"
      BY <2>5, <3>1 DEF OwnLightning
    <3>3. PICK c \in buys : RowFits(r, c)
      BY DEF SalesInv
    <3>4. c.id = b.id /\ c.agent # "none"
      BY <3>2, <3>3 DEF RowFits
    <3>5. c = b
      BY <3>4, BookKept
    <3> QED
      BY <2>1, <3>4, <3>5 DEF IsCustomer
  <2> QED
    BY <2>4, <2>5 DEF External
<1>4. ASSUME KnownAsOurs(b) PROVE ~External(s)
  <2>1. CASE b.rail = "lightning"
    <3>1. PICK r \in RowOf(b) : r.tx = b.id
      BY <1>4, <2>1 DEF KnownAsOurs
    <3>2. PICK c \in buys : RowFits(r, c)
      BY DEF SalesInv, RowOf
    <3>3. r \in ledgerRows /\ r.id = b.id /\ r.id = c.id /\ r.rail = c.rail
      BY <3>2 DEF RowOf, RowFits
    <3>4. c = b
      BY <3>3, BookKept
    <3>5. b.ends = "settled"
      BY <1>1, <2>1 DEF IsBook
    <3>6. s.tx = b.id
      BY <1>2, <3>5 DEF SettlementFits
    <3>7. b.id \in OwnLightning
      BY <1>1, <2>1, <3>1, <3>3, <3>4 DEF OwnLightning
    <3> QED
      BY <1>1, <3>6, <3>7 DEF External
  <2>2. CASE b.rail # "lightning"
    <3>1. s.payer = CanonicalAddress(b.wallet) /\ b.wallet.kind # "none"
      BY <1>1, <1>2, <2>2 DEF SettlementFits, IsBook
    <3>2. s.payer # NoWallet
      <4>1. SameWallet(s.payer, b.wallet)
        BY <1>1, <3>1, Addresses
      <4> QED
        BY <3>1, <4>1 DEF SameWallet, NoWallet
    <3>3. s.payer \in Ours
      <4>1. CASE \E w \in OwnPayers : CanonicalAddress(w) = CanonicalAddress(b.wallet)
        BY <3>1, <4>1 DEF Ours
      <4>2. CASE b.wallet.kind = "evm" /\ \E r \in ledgerRows : r.agent = "selftest" /\ r.payer = b.wallet
        <5>1. PICK r \in ledgerRows : r.agent = "selftest" /\ r.payer = b.wallet
          BY <4>2
        <5>2. b.wallet # NoWallet
          BY <3>1 DEF NoWallet
        <5>3. Lower(b.wallet) \in SelftestWallets
          BY <5>1, <5>2 DEF SelftestWallets
        <5> QED
          BY <3>1, <4>2, <5>3 DEF Ours, CanonicalAddress
      <4> QED
        BY <1>4, <2>2, <4>1, <4>2 DEF KnownAsOurs
    <3> QED
      BY <3>2, <3>3 DEF External
  <2> QED
    BY <2>1, <2>2
<1> QED
  BY <1>3, <1>4, ShownAsCounted

\* Whoever buys, and however its two records and the self-tests fall among the
\* others', a customer is never taken for one of us, and a purchase of ours
\* counts as a customer's only until it is known as ours (queries.ts,
\* settlementsSummary).
THEOREM CustomersAreToldApart == RecordsSpec => []CustomersToldApart
<1>1. RecordsInit => SalesInv
  BY SalesFirst DEF RecordsInit
<1> QED
  BY <1>1, SalesStay, CustomersApart, PTL DEF RecordsSpec

-----------------------------------------------------------------------------
(* The rows told of, against what happened. *)

\* The numbers of some blocks are finitely many, and so are their rows.
LEMMA FiniteRows ==
    ASSUME NEW B, IsFiniteSet(B), NEW rows, \A b \in B : IsFiniteSet(rows[b])
    PROVE  IsFiniteSet(UNION {rows[b] : b \in B})
<1>1. IsFiniteSet({rows[b] : b \in B})
  BY FiniteImage
<1>2. \A T \in {rows[b] : b \in B} : IsFiniteSet(T)
  OBVIOUS
<1> DEFINE S == {rows[b] : b \in B}
<1> HIDE DEF S
<1> QED
  BY <1>1, <1>2, FS_UNION DEF S

LEMMA FinitePlaces == ASSUME NEW n \in Nat PROVE IsFiniteSet(1 .. n)
<1> DEFINE one == 1
<1>1. one \in Int /\ n \in Int
  OBVIOUS
<1> HIDE DEF one
<1>2. IsFiniteSet(one .. n)
  BY <1>1, FS_Interval
<1> QED
  BY <1>2 DEF one

LEMMA FinitePaying ==
    ASSUME truth \in [Asked -> Contents], NEW b \in Asked
    PROVE  IsFiniteSet(Paying(b)) /\ IsFiniteSet(DOMAIN truth[b])
<1>1. /\ Len(truth[b]) \in Nat /\ DOMAIN truth[b] = 1 .. Len(truth[b])
      /\ \A i \in DOMAIN truth[b] : IsTransaction(truth[b][i])
  BY Transactions
<1>2. IsFiniteSet(DOMAIN truth[b])
  BY <1>1, FinitePlaces
<1> DEFINE pairs == [i \in DOMAIN truth[b] |-> {i} \X DOMAIN truth[b][i].deeds]
<1>3. ASSUME NEW i \in DOMAIN truth[b] PROVE IsFiniteSet(pairs[i])
  <2>1. Len(truth[b][i].deeds) \in Nat /\ DOMAIN truth[b][i].deeds = 1 .. Len(truth[b][i].deeds)
    BY <1>1, DeedShape
  <2>2. IsFiniteSet(DOMAIN truth[b][i].deeds)
    BY <2>1, FinitePlaces
  <2> DEFINE one == {i}
             many == DOMAIN truth[b][i].deeds
  <2>3. IsFiniteSet(one)
    BY FS_Singleton
  <2> HIDE DEF one, many
  <2>4. IsFiniteSet(one \X many)
    BY <2>2, <2>3, FS_Product DEF many
  <2> QED
    BY <2>4 DEF one, many
<1>4. Paying(b) \in SUBSET (UNION {pairs[i] : i \in DOMAIN truth[b]})
  <2> SUFFICES ASSUME NEW x \in Paying(b) PROVE \E i \in DOMAIN truth[b] : x \in pairs[i]
    OBVIOUS
  <2>1. x \in (DOMAIN truth[b]) \X Nat /\ x[1] \in DOMAIN truth[b] /\ x[2] \in DOMAIN truth[b][x[1]].deeds
    BY DEF Paying, IsAuth, Authorizing
  <2>2. x \in pairs[x[1]]
    BY <2>1
  <2> QED
    BY <2>1, <2>2
<1> HIDE DEF pairs
<1>5. IsFiniteSet(UNION {pairs[i] : i \in DOMAIN truth[b]})
  BY <1>2, <1>3, FiniteRows
<1>6. IsFiniteSet(Paying(b))
  <2> DEFINE all == UNION {pairs[i] : i \in DOMAIN truth[b]}
  <2> HIDE DEF all
  <2> QED
    BY <1>4, <1>5, FS_Subset DEF all
<1> QED
  BY <1>2, <1>6

\* A payment without its place among the logs.
Plain(p) == [k \in DOMAIN p \ {"logIndex"} |-> p[k]]
AllPaid == UNION {Paid(b.number) : b \in tables.blocks}

LEMMA PaymentsKept ==
    ASSUME ReadingInv
    PROVE  /\ IsFiniteSet(tables.payments)
           /\ \A p \in tables.payments : \E b \in Asked : \E x \in Paying(b) : p = TruePayment(b, x[1], x[2])
<1>1. truth \in [Asked -> Contents]
  BY DEF ReadingInv
<1>2. PICK kept \in SUBSET Asked : \E full \in SUBSET kept : tables = TablesOf(kept, full)
  BY DEF ReadingInv, RowsFit
<1>3. tables.payments = UNION {BlockRows(b).payments : b \in kept}
  BY <1>2 DEF TablesOf
<1>4. \A b : BlockRows(b).payments = {TruePayment(b, x[1], x[2]) : x \in Paying(b)}
  BY DEF BlockRows
<1> DEFINE rows == [b \in kept |-> BlockRows(b).payments]
<1>5. ASSUME NEW b \in kept PROVE IsFiniteSet(rows[b])
  <2> DEFINE m == [x \in Paying(b) |-> TruePayment(b, x[1], x[2])]
  <2>1. rows[b] = {m[x] : x \in Paying(b)}
    BY <1>4
  <2>2. IsFiniteSet(Paying(b))
    BY <1>1, FinitePaying
  <2> HIDE DEF m, rows
  <2> QED
    BY <2>1, <2>2, FiniteImage
<1>6. IsFiniteSet(kept)
  BY ReadingAssumption, FS_Subset
<1>7. tables.payments = UNION {rows[b] : b \in kept}
  BY <1>3
<1>8. IsFiniteSet(tables.payments)
  <2> HIDE DEF rows
  <2> QED
    BY <1>5, <1>6, <1>7, FiniteRows
<1>9. ASSUME NEW p \in tables.payments PROVE \E b \in Asked : \E x \in Paying(b) : p = TruePayment(b, x[1], x[2])
  <2>1. PICK b \in kept : p \in BlockRows(b).payments
    BY <1>3
  <2> QED
    BY <1>4, <2>1
<1> QED
  BY <1>8, <1>9

\* Each payment that was made is told by one row and each row tells one.
LEMMA PaymentsApart ==
    ASSUME ReadingInv
    PROVE  /\ {Plain(p) : p \in tables.payments} = AllPaid
           /\ \A p \in tables.payments : /\ p.amount \in Nat
                                         /\ Plain(p).payee = p.payee /\ Plain(p).token = p.token
           /\ \A p, q \in tables.payments : Plain(p) = Plain(q) => p = q
<1>1. {Plain(p) : p \in tables.payments} = AllPaid
  BY RowsFitSay DEF RowsTellTheTruth, PaymentsTrue, Plain, AllPaid
<1>2. truth \in [Asked -> Contents]
  BY DEF ReadingInv
<1>3. ASSUME NEW b \in Asked, NEW x \in Paying(b)
      PROVE  LET d == Deed(b, x[1], x[2])
                 p == TruePayment(b, x[1], x[2])
             IN  /\ x = <<x[1], x[2]>> /\ IsTransaction(truth[b][x[1]]) /\ IsAuth(b, x[1], x[2])
                 /\ d \in ToSet(truth[b][x[1]].deeds)
                 /\ p.payee = d.payee /\ p.token = d.token /\ p.amount = d.amount
                 /\ Plain(p) = [block |-> b, tx |-> x[1], token |-> d.token, payer |-> d.payer, payee |-> d.payee, amount |-> d.amount,
                                nonce |-> d.nonce, relayer |-> truth[b][x[1]].from, called |-> Called(truth[b][x[1]])]
  <2>1. IsTransaction(truth[b][x[1]]) /\ x[1] \in DOMAIN truth[b] /\ x[2] \in DOMAIN truth[b][x[1]].deeds
        /\ x = <<x[1], x[2]>> /\ IsAuth(b, x[1], x[2])
    BY <1>2, Transactions DEF Paying, IsAuth, Authorizing
  <2>2. Deed(b, x[1], x[2]) \in ToSet(truth[b][x[1]].deeds)
    BY <2>1 DEF Deed, ToSet
  <2>3. LET d == Deed(b, x[1], x[2])
            p == TruePayment(b, x[1], x[2])
        IN p.payee = d.payee /\ p.token = d.token /\ p.amount = d.amount
    BY DEF TruePayment
  <2> QED
    BY <2>1, <2>2, <2>3, PaymentSays DEF Plain
<1>4. ASSUME NEW p \in tables.payments
      PROVE  p.amount \in Nat /\ Plain(p).payee = p.payee /\ Plain(p).token = p.token
  <2>1. PICK b \in Asked : \E x \in Paying(b) : p = TruePayment(b, x[1], x[2])
    BY PaymentsKept
  <2>2. PICK x \in Paying(b) : p = TruePayment(b, x[1], x[2])
    BY <2>1
  <2> DEFINE d == Deed(b, x[1], x[2])
  <2>3. /\ IsTransaction(truth[b][x[1]]) /\ d \in ToSet(truth[b][x[1]].deeds)
        /\ p.payee = d.payee /\ p.token = d.token /\ p.amount = d.amount
        /\ Plain(p) = [block |-> b, tx |-> x[1], token |-> d.token, payer |-> d.payer, payee |-> d.payee, amount |-> d.amount,
                       nonce |-> d.nonce, relayer |-> truth[b][x[1]].from, called |-> Called(truth[b][x[1]])]
    BY <1>3, <2>2
  <2> HIDE DEF d
  <2>4. d.amount \in Nat
    BY <2>3 DEF IsTransaction
  <2> QED
    BY <2>3, <2>4
<1>5. ASSUME NEW p \in tables.payments, NEW q \in tables.payments, Plain(p) = Plain(q) PROVE p = q
  <2>1. PICK b \in Asked : \E x \in Paying(b) : p = TruePayment(b, x[1], x[2])
    BY PaymentsKept
  <2>2. PICK x \in Paying(b) : p = TruePayment(b, x[1], x[2])
    BY <2>1
  <2>3. PICK c \in Asked : \E y \in Paying(c) : q = TruePayment(c, y[1], y[2])
    BY PaymentsKept
  <2>4. PICK y \in Paying(c) : q = TruePayment(c, y[1], y[2])
    BY <2>3
  <2> DEFINE d == Deed(b, x[1], x[2])
             e == Deed(c, y[1], y[2])
  <2>5. /\ IsTransaction(truth[b][x[1]]) /\ IsAuth(b, x[1], x[2]) /\ x = <<x[1], x[2]>>
        /\ Plain(p) = [block |-> b, tx |-> x[1], token |-> d.token, payer |-> d.payer, payee |-> d.payee, amount |-> d.amount,
                       nonce |-> d.nonce, relayer |-> truth[b][x[1]].from, called |-> Called(truth[b][x[1]])]
    BY <1>3, <2>2
  <2>6. /\ IsAuth(c, y[1], y[2]) /\ y = <<y[1], y[2]>>
        /\ Plain(q) = [block |-> c, tx |-> y[1], token |-> e.token, payer |-> e.payer, payee |-> e.payee, amount |-> e.amount,
                       nonce |-> e.nonce, relayer |-> truth[c][y[1]].from, called |-> Called(truth[c][y[1]])]
    BY <1>3, <2>4
  <2> HIDE DEF d, e
  <2>7. b = c /\ x[1] = y[1] /\ d.token = e.token /\ d.payer = e.payer /\ d.nonce = e.nonce
    <3>1. /\ Plain(p).block = b /\ Plain(p).tx = x[1] /\ Plain(p).token = d.token /\ Plain(p).payer = d.payer /\ Plain(p).nonce = d.nonce
      BY <2>5
    <3>2. /\ Plain(q).block = c /\ Plain(q).tx = y[1] /\ Plain(q).token = e.token /\ Plain(q).payer = e.payer /\ Plain(q).nonce = e.nonce
      BY <2>6
    <3> QED
      BY <1>5, <3>1, <3>2
  <2>8. x[2] = y[2]
    <3> DEFINE deeds == truth[b][x[1]].deeds
    <3>1. NoncesSpent(deeds) /\ x[2] \in Authorizing(deeds) /\ y[2] \in Authorizing(deeds)
      BY <2>5, <2>6, <2>7 DEF IsTransaction, IsAuth
    <3>2. deeds[x[2]] = d /\ deeds[y[2]] = e
      BY <2>7 DEF d, e, Deed
    <3> HIDE DEF deeds
    <3> QED
      BY <2>7, <3>1, <3>2 DEF NoncesSpent, SamePurse
  <2> QED
    BY <2>2, <2>4, <2>7, <2>8
<1> QED
  BY <1>1, <1>4, <1>5

\* As many under other names.
LEMMA CountRenamed ==
    ASSUME NEW S, IsFiniteSet(S), NEW m, \A x, y \in S : m[x] = m[y] => x = y
    PROVE  Cardinality({m[x] : x \in S}) = Cardinality(S)
<1> DEFINE T == {m[x] : x \in S}
           f == [x \in S |-> 1]
           g == [y \in T |-> 1]
<1>1. \A x \in S : f[x] = 1
  OBVIOUS
<1>a. \A x \in S : f[x] \in Int /\ f[x] = g[m[x]]
  OBVIOUS
<1>2. \A y \in T : g[y] = 1
  OBVIOUS
<1> HIDE DEF f, g
<1>b. (\A x \in S : m[x] \in T) /\ (\A y \in T : \E x \in S : y = m[x])
  OBVIOUS
<1>3. Total(f, S) = Total(g, T) /\ IsFiniteSet(T)
  <2> HIDE DEF T
  <2> QED
    BY <1>a, <1>b, TotalRenamed
<1>4. Total(f, S) = Cardinality(S)
  BY <1>1, TotalOfOnes
<1>5. Total(g, T) = Cardinality(T)
  <2>1. IsFiniteSet(T)
    BY <1>3
  <2> HIDE DEF T
  <2> QED
    BY <1>2, <2>1, TotalOfOnes
<1> QED
  BY <1>3, <1>4, <1>5

\* The payments told of, in all, by payee, and of a service.
LEMMA DirectTold ==
    ASSUME ReadingInv
    PROVE  /\ DirectPaymentsSummary.all.payments + DirectPaymentsSummary.otherTokens = Cardinality(AllPaid)
           /\ SumFunction([s \in DirectPaymentsSummary.payees |-> s.of.usdc]) = DirectPaymentsSummary.all.usdc
           /\ \A s \in DirectServices : s.of.payments = Cardinality({p \in AllPaid : p.payee = s.address /\ p.token = "usdc"})
<1> DEFINE to(a) == {p \in InUsdc : p.payee = a}
           K == {p.payee : p \in InUsdc}
           line(a) == [address |-> a, of |-> DirectTally(to(a)), alsoPays |-> \E q \in InUsdc : q.payer = a]
           payees == {line(a) : a \in K}
           m == [p \in tables.payments |-> Plain(p)]
<1>1. /\ DirectPaymentsSummary.all = DirectTally(InUsdc) /\ DirectPaymentsSummary.payees = payees
      /\ DirectPaymentsSummary.otherTokens = Cardinality(tables.payments \ InUsdc)
  BY DEF DirectPaymentsSummary
<1>2. \A rows : DirectTally(rows).payments = Cardinality(rows) /\ DirectTally(rows).usdc = SumFunction([p \in rows |-> p.amount])
  BY DEF DirectTally
<1>3. IsFiniteSet(tables.payments) /\ InUsdc \in SUBSET tables.payments
  BY PaymentsKept DEF InUsdc
<1>4. IsFiniteSet(InUsdc)
  BY <1>3, FS_Subset
<1>5. \A p, q \in tables.payments : m[p] = m[q] => p = q
  BY PaymentsApart
<1>6. AllPaid = {m[p] : p \in tables.payments}
  BY PaymentsApart
<1>7. DirectPaymentsSummary.all.payments + DirectPaymentsSummary.otherTokens = Cardinality(AllPaid)
  <2>1. Cardinality(tables.payments \ InUsdc) = Cardinality(tables.payments) - Cardinality(tables.payments \cap InUsdc)
    BY <1>3, FS_Difference
  <2>2. tables.payments \cap InUsdc = InUsdc
    BY <1>3
  <2>3. Cardinality(tables.payments) \in Nat /\ Cardinality(InUsdc) \in Nat
    BY <1>3, <1>4, FS_CardinalityType
  <2>4. Cardinality(AllPaid) = Cardinality(tables.payments)
    <3> HIDE DEF m
    <3> QED
      BY <1>3, <1>5, <1>6, CountRenamed
  <2>5. DirectPaymentsSummary.all.payments = Cardinality(InUsdc)
    BY <1>1, <1>2
  <2> DEFINE x == Cardinality(tables.payments)
             y == Cardinality(InUsdc)
             z == Cardinality(tables.payments \ InUsdc)
  <2>6. z = x - y /\ x \in Nat /\ y \in Nat
    BY <2>1, <2>2, <2>3
  <2> HIDE DEF x, y, z
  <2>7. y + z = x
    BY <2>6
  <2> QED
    BY <1>1, <2>4, <2>5, <2>7 DEF x, y, z
<1> DEFINE amounts == [p \in tables.payments |-> p.amount]
<1>8. \A p \in InUsdc : amounts[p] \in Int
  BY <1>3, PaymentsApart
<1>9. ASSUME NEW rows \in SUBSET InUsdc PROVE DirectTally(rows).usdc = Total(amounts, rows)
  <2> DEFINE f == [p \in rows |-> p.amount]
  <2>1. SumFunction(f) = Total(f, rows)
    BY SumIsTotal
  <2>2. \A p \in rows : f[p] \in Int /\ f[p] = amounts[p]
    BY <1>3, <1>8
  <2>3. IsFiniteSet(rows)
    BY <1>4, FS_Subset
  <2>4. DirectTally(rows).usdc = SumFunction(f)
    BY <1>2
  <2> HIDE DEF f, amounts
  <2> QED
    BY <2>1, <2>2, <2>3, <2>4, TotalSame
<1> HIDE DEF amounts
<1>10. SumFunction([s \in payees |-> s.of.usdc]) = DirectTally(InUsdc).usdc
  <2> DEFINE key == [p \in InUsdc |-> p.payee]
             group == [a \in K |-> to(a)]
             h == [a \in K |-> DirectTally(to(a)).usdc]
             row == [a \in K |-> line(a)]
             f == [s \in payees |-> s.of.usdc]
  <2>1. payees = {row[a] : a \in K} /\ \A a \in K : row[a].address = a /\ row[a].of.usdc = h[a]
    OBVIOUS
  <2>2. \A a \in K : f[row[a]] = h[a]
    BY <2>1
  <2>3. \A a \in K : group[a] \in SUBSET InUsdc
    OBVIOUS
  <2>4. \A a \in K : \A p \in InUsdc : p \in group[a] <=> key[p] = a
    OBVIOUS
  <2>5. \A p \in InUsdc : key[p] \in K
    OBVIOUS
  <2>6. \A a \in K : h[a] = Total(amounts, group[a])
    <3> TAKE a \in K
    <3>1. group[a] = to(a) /\ to(a) \in SUBSET InUsdc /\ h[a] = DirectTally(to(a)).usdc
      OBVIOUS
    <3> HIDE DEF to, h, group
    <3> QED
      BY <1>9, <3>1
  <2>7. IsFiniteSet(K)
    <3>1. K = {key[p] : p \in InUsdc}
      OBVIOUS
    <3> HIDE DEF K, key
    <3> QED
      BY <1>4, <3>1, FiniteImage
  <2>8. SumFunction(f) = Total(f, payees)
    <3>1. DOMAIN f = payees
      OBVIOUS
    <3> HIDE DEF f, payees
    <3> QED
      BY <3>1, SumIsTotal
  <2>9. \A a, b \in K : row[a] = row[b] => a = b
    BY <2>1
  <2> HIDE DEF K, key, group, h, row, f, payees
  <2>10. Total(h, K) = Total(amounts, InUsdc)
    BY <1>4, <1>8, <2>3, <2>4, <2>5, <2>6, <2>7, TotalGrouped
  <2>11. \A a \in K : h[a] \in Int
    <3> TAKE a \in K
    <3>1. group[a] \in SUBSET InUsdc /\ h[a] = Total(amounts, group[a])
      BY <2>3, <2>6
    <3>2. \A T \in SUBSET InUsdc : Total(amounts, T) \in Int
      BY <1>4, <1>8, TotalOneMore
    <3> QED
      BY <3>1, <3>2
  <2>12. \A a \in K : h[a] \in Int /\ h[a] = f[row[a]]
    BY <2>2, <2>11
  <2>a. (\A a \in K : row[a] \in payees) /\ (\A s \in payees : \E a \in K : s = row[a])
    BY <2>1
  <2>13. Total(h, K) = Total(f, payees)
    BY <2>7, <2>9, <2>12, <2>a, TotalRenamed
  <2>14. InUsdc \in SUBSET InUsdc
    OBVIOUS
  <2>15. SumFunction(f) = DirectTally(InUsdc).usdc
    BY <1>9, <2>1, <2>8, <2>10, <2>13, <2>14
  <2> QED
    BY <2>15 DEF f
<1>11. ASSUME NEW a PROVE DirectTally(to(a)).payments = Cardinality({p \in AllPaid : p.payee = a /\ p.token = "usdc"})
  <2>1. to(a) \in SUBSET tables.payments /\ \A p \in tables.payments : p \in to(a) <=> p.token = "usdc" /\ p.payee = a
    BY DEF InUsdc
  <2>2. {p \in AllPaid : p.payee = a /\ p.token = "usdc"} = {m[p] : p \in to(a)}
    <3>1. \A p \in tables.payments : m[p].payee = p.payee /\ m[p].token = p.token
      BY PaymentsApart
    <3> HIDE DEF m, to
    <3> QED
      BY <1>6, <2>1, <3>1
  <2> HIDE DEF m, to
  <2>3. IsFiniteSet(to(a)) /\ \A p, q \in to(a) : m[p] = m[q] => p = q
    BY <1>3, <1>5, <2>1, FS_Subset
  <2>4. Cardinality({m[p] : p \in to(a)}) = Cardinality(to(a))
    BY <2>3, CountRenamed
  <2> QED
    BY <1>2, <2>2, <2>4
<1>12. ASSUME NEW s \in DirectServices
       PROVE  s.of.payments = Cardinality({p \in AllPaid : p.payee = s.address /\ p.token = "usdc"})
  <2>1. PICK a \in K : s = line(a)
    BY <1>1 DEF DirectServices
  <2>2. s.address = a /\ s.of = DirectTally(to(a))
    BY <2>1
  <2> HIDE DEF to
  <2> QED
    BY <1>11, <2>2
<1> QED
  BY <1>1, <1>7, <1>10, <1>12

\* The stored blocks of the window.
InTheWindow == {b \in {b.number : b \in tables.blocks} : \A c \in {c.number : c \in tables.blocks} : b > c - WindowBlocks}

\* What is told of the window is told of those blocks, and of each once.
LEMMA WindowTold ==
    ASSUME ReadingInv
    PROVE  /\ InTheWindow \in SUBSET Asked /\ IsFiniteSet(InTheWindow) /\ IsFiniteSet(InWindow)
           /\ InWindow = {TrueStats(b) : b \in InTheWindow}
<1>1. PICK kept \in SUBSET Asked : \E full \in SUBSET kept : tables = TablesOf(kept, full)
  BY DEF ReadingInv, RowsFit
<1>2. tables.blocks = {BlockRows(b).block : b \in kept} /\ tables.stats = {BlockRows(b).stats : b \in kept}
  BY <1>1 DEF TablesOf
<1>3. \A b : BlockRows(b).block.number = b /\ BlockRows(b).stats = TrueStats(b) /\ TrueStats(b).block = b
  BY DEF BlockRows, TrueStats
<1>4. {b.number : b \in tables.blocks} = kept
  BY <1>2, <1>3
<1>5. tables.stats = {TrueStats(b) : b \in kept}
  BY <1>2, <1>3
<1>6. InTheWindow = {b \in kept : \A c \in kept : b > c - WindowBlocks}
  BY <1>4 DEF InTheWindow
<1> DEFINE newest == Newest(tables.blocks, 0)
<1>7. /\ newest \in Nat /\ \A c \in kept : c <= newest
      /\ kept # {} => newest \in kept
  <2>1. tables.blocks \in SUBSET AllBlocks /\ Asked \in SUBSET Nat
    BY BlocksKept, ReadingAssumption
  <2>2. /\ newest \in Asked \cup {0} /\ \A b \in tables.blocks : b.number <= newest
        /\ tables.blocks # {} => \E b \in tables.blocks : newest = b.number
    BY <2>1, NewestIs
  <2> HIDE DEF newest
  <2>3. \A c \in kept : c <= newest
    BY <1>4, <2>2
  <2>4. kept # {} => newest \in kept
    BY <1>4, <2>2
  <2> QED
    BY <2>1, <2>2, <2>3, <2>4
<1>8. InWindow = {s \in tables.stats : s.block > newest - WindowBlocks}
  BY DEF InWindow
<1> HIDE DEF newest
<1>9. ASSUME NEW b \in kept PROVE b > newest - WindowBlocks <=> b \in InTheWindow
  <2>1. WindowBlocks \in Nat /\ kept \in SUBSET Nat /\ newest \in kept
    BY <1>7, FiguresAssumption, ReadingAssumption
  <2>2. ASSUME b > newest - WindowBlocks, NEW c \in kept PROVE b > c - WindowBlocks
    <3>1. b \in Nat /\ c \in Nat /\ newest \in Nat /\ c <= newest
      BY <1>7, <2>1
    <3> QED
      BY <2>1, <2>2, <3>1
  <2> QED
    BY <1>6, <2>1, <2>2
<1>10. InTheWindow \in SUBSET kept
  BY <1>6
<1>11. InWindow = {TrueStats(b) : b \in InTheWindow}
  <2>1. \A s : s \in InWindow <=> s \in tables.stats /\ s.block > newest - WindowBlocks
    BY <1>8
  <2>2. \A s : s \in tables.stats <=> \E b \in kept : s = TrueStats(b)
    BY <1>5
  <2>3. \A b : TrueStats(b).block = b
    BY <1>3
  <2> HIDE DEF InTheWindow
  <2>4. \A s : s \in InWindow <=> \E b \in InTheWindow : s = TrueStats(b)
    BY <1>9, <1>10, <2>1, <2>2, <2>3
  <2> QED
    BY <2>4
<1>12. IsFiniteSet(Asked)
  BY ReadingAssumption
<1>13. InTheWindow \in SUBSET Asked
  BY <1>10
<1>14. IsFiniteSet(InTheWindow)
  BY <1>12, <1>13, FS_Subset
<1> DEFINE m == [b \in InTheWindow |-> TrueStats(b)]
<1>15. InWindow = {m[b] : b \in InTheWindow}
  BY <1>11
<1> HIDE DEF m
<1>16. IsFiniteSet(InWindow)
  BY <1>14, <1>15, FiniteImage
<1> QED
  BY <1>11, <1>13, <1>14, <1>16

\* Adding up what the rows of the window say is adding up what happened.
LEMMA WindowSums ==
    ASSUME ReadingInv, NEW f, NEW g,
           DOMAIN f = InWindow, DOMAIN g = InTheWindow, \A b \in InTheWindow : g[b] \in Nat /\ f[TrueStats(b)] = g[b]
    PROVE  SumFunction(f) = SumFunction(g) /\ SumFunction(g) \in Nat
<1> DEFINE m == [b \in InTheWindow |-> TrueStats(b)]
<1>1. IsFiniteSet(InTheWindow) /\ InWindow = {m[b] : b \in InTheWindow}
  BY WindowTold
<1>2. \A b, c \in InTheWindow : m[b] = m[c] => b = c
  BY DEF TrueStats
<1>3. \A b \in InTheWindow : g[b] \in Int /\ g[b] = f[m[b]]
  OBVIOUS
<1>4. \A b \in InTheWindow : m[b] \in InWindow
  BY <1>1
<1>5. \A s \in InWindow : \E b \in InTheWindow : s = m[b]
  BY <1>1
<1> HIDE DEF m
<1>6. Total(g, InTheWindow) = Total(f, InWindow)
  BY <1>1, <1>2, <1>3, <1>4, <1>5, TotalRenamed, SMTT(40)
<1>7. SumFunction(f) = Total(f, InWindow) /\ SumFunction(g) = Total(g, InTheWindow)
  BY SumIsTotal
<1>8. \A b \in InTheWindow : g[b] \in Nat
  OBVIOUS
<1>9. Total(g, InTheWindow) \in Nat
  BY <1>1, <1>8, TotalPart
<1> QED
  BY <1>6, <1>7, <1>9

\* The operations and the transactions told of the window.
LEMMA ActivityTold ==
    ASSUME ReadingInv
    PROVE  LET did(c) == SumFunction([b \in InTheWindow |-> Cardinality(Did(b, c))])
           IN  /\ \A c \in OpClasses : {o.count : o \in {o \in ByOperation : o.op = c}} = {did(c)} \ {0}
               /\ Activity.txCount = SumFunction([b \in InTheWindow |-> Len(truth[b])])
<1> DEFINE did(c) == SumFunction([b \in InTheWindow |-> Cardinality(Did(b, c))])
           count(c) == SumFunction([s \in InWindow |-> s.counts[c]])
           fees(c) == SumFunction([s \in InWindow |-> s.fees[c]])
           failed(c) == IF c = "contract_call" THEN SumFunction([s \in InWindow |-> s.failed]) ELSE 0
           line(c) == [op |-> c, count |-> count(c), avgFee |-> fees(c) \div count(c), failed |-> failed(c)]
<1>1. truth \in [Asked -> Contents] /\ InTheWindow \in SUBSET Asked
  BY WindowTold DEF ReadingInv
<1>2. ASSUME NEW c \in OpClasses PROVE count(c) = did(c) /\ did(c) \in Nat
  <2> DEFINE f == [s \in InWindow |-> s.counts[c]]
             g == [b \in InTheWindow |-> Cardinality(Did(b, c))]
  <2>1. ASSUME NEW b \in InTheWindow PROVE g[b] \in Nat /\ f[TrueStats(b)] = g[b]
    <3>1. TrueStats(b) \in InWindow /\ TrueStats(b).counts[c] = Cardinality(Did(b, c))
      BY WindowTold DEF TrueStats
    <3>2. IsFiniteSet(DOMAIN truth[b]) /\ Did(b, c) \in SUBSET DOMAIN truth[b]
      BY <1>1, FinitePaying DEF Did
    <3>3. Cardinality(Did(b, c)) \in Nat
      BY <3>2, FS_Subset, FS_CardinalityType
    <3> QED
      BY <3>1, <3>3
  <2>2. DOMAIN f = InWindow /\ DOMAIN g = InTheWindow
    OBVIOUS
  <2> HIDE DEF f, g
  <2>3. SumFunction(f) = SumFunction(g) /\ SumFunction(g) \in Nat
    BY <2>1, <2>2, WindowSums
  <2> QED
    BY <2>3 DEF f, g
<1>3. Activity.txCount = SumFunction([b \in InTheWindow |-> Len(truth[b])])
  <2> DEFINE f == [s \in InWindow |-> s.txCount]
             g == [b \in InTheWindow |-> Len(truth[b])]
  <2>1. ASSUME NEW b \in InTheWindow PROVE g[b] \in Nat /\ f[TrueStats(b)] = g[b]
    <3>1. TrueStats(b) \in InWindow /\ TrueStats(b).txCount = Len(truth[b])
      BY WindowTold DEF TrueStats
    <3>2. Len(truth[b]) \in Nat
      BY <1>1, Transactions
    <3> QED
      BY <3>1, <3>2
  <2>2. DOMAIN f = InWindow /\ DOMAIN g = InTheWindow
    OBVIOUS
  <2>3. Activity.txCount = SumFunction(f)
    BY DEF Activity
  <2> HIDE DEF f, g
  <2>4. SumFunction(f) = SumFunction(g) /\ SumFunction(g) \in Nat
    BY <2>1, <2>2, WindowSums
  <2> QED
    BY <2>3, <2>4 DEF g
<1>4. ByOperation = {line(c) : c \in {c \in OpClasses : count(c) > 0}}
  BY DEF ByOperation
<1>5. \A c : line(c).op = c /\ line(c).count = count(c)
  OBVIOUS
<1> HIDE DEF line, count, did
<1>6. ASSUME NEW c \in OpClasses PROVE {o.count : o \in {o \in ByOperation : o.op = c}} = {did(c)} \ {0}
  <2>1. CASE did(c) = 0
    <3>1. {o \in ByOperation : o.op = c} = {}
      BY <1>2, <1>4, <1>5, <2>1
    <3> QED
      BY <2>1, <3>1
  <2>2. CASE did(c) # 0
    <3>1. count(c) > 0 /\ count(c) = did(c)
      BY <1>2, <2>2
    <3>2. {o \in ByOperation : o.op = c} = {line(c)}
      BY <1>4, <1>5, <3>1
    <3> QED
      BY <1>5, <2>2, <3>1, <3>2
  <2> QED
    BY <2>1, <2>2
<1> QED
  BY <1>3, <1>6 DEF did

LEMMA FiguresFit == ReadingInv => FiguresTrue
<1> SUFFICES ASSUME ReadingInv PROVE FiguresTrue
  OBVIOUS
<1>1. /\ \A c \in OpClasses : {o.count : o \in {o \in ByOperation : o.op = c}} =
                              {SumFunction([b \in InTheWindow |-> Cardinality(Did(b, c))])} \ {0}
      /\ Activity.txCount = SumFunction([b \in InTheWindow |-> Len(truth[b])])
  BY ActivityTold
<1> QED
  BY <1>1, DirectTold DEF FiguresTrue, InTheWindow, AllPaid

\* Each stored block in the window is told in full, by operation and in all,
\* and each stored payment once, whatever the blocks hold and in whatever order
\* they were stored (queries.ts, feeSummary and activity; direct-payments.ts).
THEOREM FiguresAreTrue == RecordsSpec => []FiguresTrue
<1>1. RecordsInit => ReadingInv
  BY RowsFitFirst DEF RecordsInit, FiguresInit
<1>2. ReadingInv /\ [RecordsNext \/ Rests]_recordsVars => ReadingInv'
  BY RowsFitNext, RecordsStep
<1> QED
  BY <1>1, <1>2, FiguresFit, PTL DEF RecordsSpec

-----------------------------------------------------------------------------
(* What is kept of prices and blocks is of the kinds it should be. *)

\* The rates that pass a test, in their order: there is such a sequence, and
\* it is of rates.
IsKept(g, s, P, n) ==
    g = [k \in 0 .. n |-> IF k = 0 THEN <<>> ELSE IF k \in P THEN Append(g[k - 1], s[k]) ELSE g[k - 1]]

LEMMA KeptExists ==
    ASSUME NEW s, NEW P, NEW m \in Nat
    PROVE  \E g : IsKept(g, s, P, m)
<1> DEFINE S == {n \in Nat : \E g : IsKept(g, s, P, n)}
<1>1. 0 \in S
  <2> DEFINE g == [k \in 0 .. 0 |-> <<>>]
  <2>1. g = [k \in 0 .. 0 |-> IF k = 0 THEN <<>> ELSE IF k \in P THEN Append(g[k - 1], s[k]) ELSE g[k - 1]]
    OBVIOUS
  <2>2. IsKept(g, s, P, 0)
    <3> HIDE DEF g
    <3> QED
      BY <2>1 DEF IsKept
  <2> QED
    BY <2>2
<1>2. ASSUME NEW n \in Nat, n \in S PROVE n + 1 \in S
  <2>1. PICK g : IsKept(g, s, P, n)
    BY <1>2
  <2> DEFINE next == IF n + 1 \in P THEN Append(g[n], s[n + 1]) ELSE g[n]
             h == [k \in 0 .. n + 1 |-> IF k = n + 1 THEN next ELSE g[k]]
  <2>2. ASSUME NEW k \in 0 .. n + 1
        PROVE  h[k] = IF k = 0 THEN <<>> ELSE IF k \in P THEN Append(h[k - 1], s[k]) ELSE h[k - 1]
    <3>1. CASE k = n + 1
      <4>1. k - 1 = n /\ n \in 0 .. n + 1 /\ n # n + 1 /\ k # 0
        BY <3>1
      <4>2. h[n] = g[n] /\ h[k] = next
        BY <3>1, <4>1
      <4> QED
        BY <3>1, <4>1, <4>2
    <3>2. CASE k # n + 1
      <4>1. k \in 0 .. n /\ h[k] = g[k] /\ (k # 0 => k - 1 \in 0 .. n /\ h[k - 1] = g[k - 1])
        BY <3>2
      <4> QED
        BY <2>1, <4>1 DEF IsKept
    <3> QED
      BY <3>1, <3>2
  <2>3. h = [k \in 0 .. n + 1 |-> IF k = 0 THEN <<>> ELSE IF k \in P THEN Append(h[k - 1], s[k]) ELSE h[k - 1]]
    <3>1. h = [k \in 0 .. n + 1 |-> h[k]]
      OBVIOUS
    <3> HIDE DEF h
    <3> QED
      BY <2>2, <3>1
  <2>4. IsKept(h, s, P, n + 1)
    <3> HIDE DEF h
    <3> QED
      BY <2>3 DEF IsKept
  <2> QED
    BY <2>4
<1> HIDE DEF S
<1>3. Nat \subseteq S
  BY <1>1, <1>2, CountingUp
<1> QED
  BY <1>3 DEF S

LEMMA InLineTyped ==
    ASSUME NEW T, NEW s \in Seq(T)
    PROVE  InLine(s) \in Seq(T)
<1> DEFINE N == Len(s)
           P == {k \in 1 .. N : Near(s[k], s)}
           Kept(g) == g = [k \in 0 .. N |-> IF k = 0 THEN <<>> ELSE IF Near(s[k], s) THEN Append(g[k - 1], s[k]) ELSE g[k - 1]]
           upTo == CHOOSE g : Kept(g)
<1>1. N \in Nat /\ \A k \in 1 .. N : s[k] \in T
  OBVIOUS
<1>2. PICK g : IsKept(g, s, P, N)
  BY <1>1, KeptExists
<1>3. g = [k \in 0 .. N |-> IF k = 0 THEN <<>> ELSE IF k \in P THEN Append(g[k - 1], s[k]) ELSE g[k - 1]]
  BY <1>2 DEF IsKept
<1>4. ASSUME NEW k \in 0 .. N PROVE g[k] = IF k = 0 THEN <<>> ELSE IF Near(s[k], s) THEN Append(g[k - 1], s[k]) ELSE g[k - 1]
  <2>1. k # 0 => (k \in P <=> Near(s[k], s))
    BY <1>1
  <2>2. g[k] = IF k = 0 THEN <<>> ELSE IF k \in P THEN Append(g[k - 1], s[k]) ELSE g[k - 1]
    <3> HIDE DEF P
    <3> QED
      BY <1>3
  <2> HIDE DEF P
  <2> QED
    BY <2>1, <2>2
<1>5. g = [k \in 0 .. N |-> g[k]]
  <2> HIDE DEF P
  <2> QED
    BY <1>3
<1>6. Kept(g)
  BY <1>4, <1>5
<1>7. Kept(upTo)
  <2> HIDE DEF Kept
  <2> QED
    BY <1>6
<1> HIDE DEF upTo, P
<1> DEFINE S == {k \in Nat : upTo[k] \in Seq(T)}
<1>8. 0 \in S
  BY <1>1, <1>7
<1>9. ASSUME NEW k \in 0 .. N, k \in S /\ k < N PROVE k + 1 \in S
  <2>1. k + 1 \in 0 .. N /\ k + 1 # 0 /\ (k + 1) - 1 = k /\ k + 1 \in 1 .. N /\ k + 1 \in Nat
    BY <1>1, <1>9
  <2>2. upTo[k + 1] \in {Append(upTo[k], s[k + 1]), upTo[k]}
    BY <1>7, <2>1
  <2> HIDE DEF N, Kept
  <2>3. upTo[k] \in Seq(T) /\ s[k + 1] \in T
    BY <1>1, <1>9, <2>1
  <2>4. Append(upTo[k], s[k + 1]) \in Seq(T)
    BY <2>3
  <2>5. upTo[k + 1] \in Seq(T)
    BY <2>2, <2>3, <2>4
  <2> QED
    BY <2>1, <2>5
<1>10. upTo[N] \in Seq(T)
  <2> HIDE DEF S, N
  <2>1. 0 .. N \subseteq S
    BY <1>1, <1>8, <1>9, CountingTo
  <2> QED
    BY <1>1, <2>1 DEF S
<1>11. InLine(s) = upTo[N]
  BY DEF InLine, upTo, Kept, N
<1> QED
  BY <1>10, <1>11

LEMMA LastTyped ==
    ASSUME NEW T, NEW s \in Seq(T), NEW n \in Nat \ {0}
    PROVE  LastOf(s, n) \in Seq(T) /\ Len(LastOf(s, n)) <= n
<1> DEFINE m == Len(s)
<1>1. m \in Nat
  OBVIOUS
<1>2. CASE m <= n
  BY <1>2 DEF LastOf
<1>3. CASE ~(m <= n)
  <2>1. LastOf(s, n) = SubSeq(s, m - n + 1, m)
    BY <1>3 DEF LastOf
  <2> DEFINE from == m - n + 1
  <2>2. from \in 1 .. m /\ (m - from) + 1 = n
    BY <1>1, <1>3
  <2> HIDE DEF from, m
  <2>3. SubSeq(s, from, m) \in Seq(T) /\ Len(SubSeq(s, from, m)) = n
    BY <1>1, <2>2 DEF m
  <2> QED
    BY <2>1, <2>3 DEF from
<1> QED
  BY <1>2, <1>3

LEMMA UpToIs ==
    ASSUME NEW s \in Seq(Quotes), NEW n \in Nat, Len(s) <= n
    PROVE  s \in UpTo(n)
<1>1. Len(s) \in 0 .. n /\ s \in [1 .. Len(s) -> Quotes]
  OBVIOUS
<1> QED
  BY <1>1 DEF UpTo

RatesTyped ==
    /\ rates \in Seq(Quotes) /\ Len(rates) <= Window
    /\ fxTrades \in Seq(Quotes) /\ Len(fxTrades) <= Window
    /\ booting \in Seq(Quotes) /\ (Len(booting) < Warmup \/ rates = <<>>)
    /\ rereads \in 0 .. MaxReread

LEMMA RatesFirst == ReferenceInit => RatesTyped
<1> SUFFICES ASSUME ReferenceInit PROVE RatesTyped
  OBVIOUS
<1>1. Len(<<>>) = 0 /\ <<>> \in Seq(Quotes)
  OBVIOUS
<1> QED
  BY <1>1, ReferenceAssumption DEF ReferenceInit, RatesTyped

\* Whatever rate is judged, what comes of it is typed.
LEMMA JudgeTyped ==
    ASSUME PriceInv, RatesTyped, NEW r \in Quotes
    PROVE  LET a == Accept(r) IN
           /\ a.rates \in Seq(Quotes) /\ Len(a.rates) <= Window
           /\ a.booting \in Seq(Quotes) /\ (Len(a.booting) < Warmup \/ a.rates = <<>>)
<1> DEFINE a == Accept(r)
           p == Append(pending, r)
           b == Append(booting, r)
<1>0. Window \in Nat \ {0} /\ Warmup \in Nat \ {0}
  BY ReferenceAssumption
<1>1. p \in Seq(Quotes) /\ b \in Seq(Quotes) /\ Append(rates, r) \in Seq(Quotes)
  <2>1. pending \in Seq(Quotes) /\ booting \in Seq(Quotes) /\ rates \in Seq(Quotes)
    BY DEF PriceInv, RatesTyped
  <2> QED
    BY <2>1
<1>2. Len(<<>>) = 0 /\ <<>> \in Seq(Quotes)
  OBVIOUS
<1>3. CASE rates = <<>>
  <2> DEFINE kept == InLine(b)
  <2>1. a = IF Len(b) < Warmup
            THEN [ok |-> FALSE, rates |-> <<>>, booting |-> b, pending |-> pending]
            ELSE [ok |-> FALSE, rates |-> LastOf(kept, Window), pending |-> pending,
                  booting |-> IF kept = <<>> THEN Tail(b) ELSE <<>>]
    BY <1>3 DEF Accept, ColdStart
  <2>2. CASE Len(b) < Warmup
    BY <2>1, <2>2, <1>0, <1>1, <1>2
  <2>3. CASE ~(Len(b) < Warmup)
    <3>1. a.rates = LastOf(kept, Window) /\ a.booting = IF kept = <<>> THEN Tail(b) ELSE <<>>
      BY <2>1, <2>3
    <3>2. kept \in Seq(Quotes)
      BY <1>1, InLineTyped
    <3>3. b # <<>> /\ Tail(b) \in Seq(Quotes)
      BY <1>1
    <3>4. kept = <<>> => LastOf(kept, Window) = <<>>
      BY <1>0, <1>2 DEF LastOf
    <3> HIDE DEF kept, b, a, p
    <3>5. LastOf(kept, Window) \in Seq(Quotes) /\ Len(LastOf(kept, Window)) <= Window
      BY <1>0, <3>2, LastTyped
    <3>6. a.rates \in Seq(Quotes) /\ Len(a.rates) <= Window
      BY <3>1, <3>5
    <3>7. a.booting \in Seq(Quotes) /\ (Len(a.booting) < Warmup \/ a.rates = <<>>)
      BY <1>0, <1>2, <3>1, <3>3, <3>4
    <3> QED
      BY <3>6, <3>7 DEF a
  <2> QED
    BY <2>2, <2>3
<1>4. CASE rates # <<>>
  <2>1. Len(booting) < Warmup /\ booting \in Seq(Quotes) /\ rates \in Seq(Quotes) /\ Len(rates) <= Window
    BY <1>4 DEF RatesTyped
  <2>2. a.booting = booting /\ a.rates \in {LastOf(Append(rates, r), Window), rates, LastOf(p, Window)}
    BY <1>4 DEF Accept, Rejected
  <2> DEFINE q == Append(rates, r)
  <2> HIDE DEF a, p, q
  <2>3. /\ LastOf(q, Window) \in Seq(Quotes) /\ Len(LastOf(q, Window)) <= Window
        /\ LastOf(p, Window) \in Seq(Quotes) /\ Len(LastOf(p, Window)) <= Window
    BY <1>0, <1>1, LastTyped DEF q
  <2> QED
    BY <2>1, <2>2, <2>3 DEF a, q
<1> QED
  BY <1>3, <1>4

LEMMA RatesNext == PriceInv /\ RatesTyped /\ [ReferenceNext]_referenceVars => RatesTyped'
<1> SUFFICES ASSUME PriceInv, RatesTyped, [ReferenceNext]_referenceVars PROVE RatesTyped'
  OBVIOUS
<1>0. Window \in Nat \ {0} /\ MaxReread \in Nat
  BY ReferenceAssumption
<1>1. ASSUME NEW r \in Quotes
      PROVE  LET t == LastOf(Append(fxTrades, r), Window) IN t \in Seq(Quotes) /\ Len(t) <= Window
  <2>1. Append(fxTrades, r) \in Seq(Quotes)
    BY DEF RatesTyped
  <2> DEFINE q == Append(fxTrades, r)
  <2> HIDE DEF q
  <2>2. q \in Seq(Quotes)
    BY <2>1 DEF q
  <2>3. LastOf(q, Window) \in Seq(Quotes) /\ Len(LastOf(q, Window)) <= Window
    BY <1>0, <2>2, LastTyped
  <2> QED
    BY <2>3 DEF q
<1>2. ASSUME NEW r \in Quotes, Judge(r), fxTrades' \in {fxTrades, LastOf(Append(fxTrades, r), Window)},
             rereads' \in 0 .. MaxReread
      PROVE  RatesTyped'
  <2>1. rates' = Accept(r).rates /\ booting' = Accept(r).booting
    BY <1>2 DEF Judge
  <2>2. fxTrades' \in Seq(Quotes) /\ Len(fxTrades') <= Window
    BY <1>1, <1>2 DEF RatesTyped
  <2>3. /\ Accept(r).rates \in Seq(Quotes) /\ Len(Accept(r).rates) <= Window
        /\ Accept(r).booting \in Seq(Quotes) /\ (Len(Accept(r).booting) < Warmup \/ Accept(r).rates = <<>>)
    BY JudgeTyped
  <2> QED
    BY <1>2, <2>1, <2>2, <2>3 DEF RatesTyped
<1>3. ASSUME NEW r \in Quotes, Trade(r) PROVE RatesTyped'
  <2>1. rereads' \in 0 .. MaxReread /\ Judge(r) /\ fxTrades' \in {fxTrades, LastOf(Append(fxTrades, r), Window)}
    BY <1>3 DEF Trade, RatesTyped
  <2> QED
    BY <1>2, <2>1
<1>4. CASE Reread
  <2> DEFINE r == market[Len(market)].rate
  <2>1. r \in Quotes
    <3>1. market \in Seq(Seen) /\ Len(market) > 0
      BY <1>4 DEF Reread, PriceInv
    <3>2. market[Len(market)] \in Seen
      BY <3>1
    <3> QED
      BY <3>2 DEF Seen
  <2>2. rereads' \in 0 .. MaxReread
    BY <1>0, <1>4 DEF Reread, RatesTyped
  <2>3. Judge(r) /\ fxTrades' \in {fxTrades, LastOf(Append(fxTrades, r), Window)}
    BY <1>4 DEF Reread
  <2> HIDE DEF r
  <2> QED
    BY <1>2, <2>1, <2>2, <2>3
<1>5. CASE Reseed
  <2>1. rates' = fxTrades /\ booting' = <<>> /\ fxTrades' = fxTrades /\ rereads' = rereads
    BY <1>5 DEF Reseed
  <2>2. Len(<<>>) = 0 /\ <<>> \in Seq(Quotes) /\ Warmup \in Nat \ {0}
    BY ReferenceAssumption
  <2> QED
    BY <2>1, <2>2 DEF RatesTyped
<1>6. CASE UNCHANGED referenceVars
  BY <1>6 DEF referenceVars, RatesTyped
<1> QED
  BY <1>3, <1>4, <1>5, <1>6 DEF ReferenceNext

LEMMA ReferenceTyped == PriceInv /\ RatesTyped => ReferenceTypeOK
<1> SUFFICES ASSUME PriceInv, RatesTyped PROVE ReferenceTypeOK
  OBVIOUS
<1>1. Window \in Nat
  BY ReferenceAssumption
<1>2. rates \in UpTo(Window) /\ fxTrades \in UpTo(Window)
  BY <1>1, UpToIs DEF RatesTyped
<1>3. market \in Seq(Seen)
  BY DEF PriceInv
<1>4. \A i \in DOMAIN market : market[i] \in Seen
  BY <1>3
<1> QED
  BY <1>2, <1>4 DEF ReferenceTypeOK, PriceInv, RatesTyped

\* The tables are those of the schema, each of finitely many rows.
LEMMA FiniteLogs ==
    ASSUME truth \in [Asked -> Contents], NEW b \in Asked
    PROVE  IsFiniteSet(ToSet(BlockLogs(b)))
<1> DEFINE L == BlockLogs(b)
<1>1. Len(L) \in Nat /\ DOMAIN L = 1 .. Len(L)
  <2>1. L \in Seq(ToSet(L))
    BY LogsOfBlock
  <2> HIDE DEF L
  <2> QED
    BY <2>1
<1> HIDE DEF L
<1>2. IsFiniteSet(DOMAIN L)
  BY <1>1, FinitePlaces
<1> DEFINE D == DOMAIN L
<1> HIDE DEF D
<1>3. IsFiniteSet({L[i] : i \in D})
  BY <1>2, FiniteImage DEF D
<1> QED
  BY <1>3 DEF ToSet, D, L

LEMMA RowsFinite ==
    ASSUME truth \in [Asked -> Contents], NEW b \in Asked
    PROVE  LET r == BlockRows(b) IN
           /\ IsFiniteSet(r.transactions) /\ IsFiniteSet(r.receipts) /\ IsFiniteSet(r.logs)
           /\ IsFiniteSet(r.deploys) /\ IsFiniteSet(r.reverts) /\ IsFiniteSet(r.payments)
<1> DEFINE D == DOMAIN truth[b]
<1>1. D = 1 .. Len(truth[b]) /\ Len(truth[b]) \in Nat
  BY Transactions
<1> HIDE DEF D
<1>2. IsFiniteSet(D)
  BY <1>1, FinitePlaces
<1>3. IsFiniteSet({i \in D : truth[b][i].did = "deploy"}) /\ IsFiniteSet({i \in D : ~truth[b][i].ok})
  BY <1>2, FS_Subset
<1> DEFINE X == {i \in D : truth[b][i].did = "deploy"}
           Y == {i \in D : ~truth[b][i].ok}
           Z == Paying(b)
<1>4. IsFiniteSet(X) /\ IsFiniteSet(Y) /\ IsFiniteSet(Z)
  BY <1>3, FinitePaying
<1>5. Did(b, "deploy") = X
  BY DEF Did, D
<1> HIDE DEF X, Z
<1> DEFINE tx == [i \in D |-> ParseTx(ServedTx(b, i), b)]
           rc == [i \in D |-> ParseReceipt(ServedReceipt(b, i), b)]
           dp == [i \in X |-> TrueDeploy(b, i)]
           rv == [i \in Y |-> <<b, i>>]
           py == [x \in Z |-> TruePayment(b, x[1], x[2])]
<1>6. /\ {ParseTx(ServedTx(b, i), b) : i \in D} = {tx[i] : i \in D}
      /\ {ParseReceipt(ServedReceipt(b, i), b) : i \in D} = {rc[i] : i \in D}
      /\ {TrueDeploy(b, i) : i \in X} = {dp[i] : i \in X}
      /\ {<<b, i>> : i \in Y} = {rv[i] : i \in Y}
      /\ {TruePayment(b, x[1], x[2]) : x \in Z} = {py[x] : x \in Z}
  OBVIOUS
<1> HIDE DEF tx, rc, dp, rv, py, Y
<1>7. /\ IsFiniteSet({tx[i] : i \in D}) /\ IsFiniteSet({rc[i] : i \in D})
      /\ IsFiniteSet({dp[i] : i \in X}) /\ IsFiniteSet({rv[i] : i \in Y}) /\ IsFiniteSet({py[x] : x \in Z})
  BY <1>2, <1>4, FiniteImage
<1>8. /\ BlockRows(b).transactions = {ParseTx(ServedTx(b, i), b) : i \in D}
      /\ BlockRows(b).receipts = {ParseReceipt(ServedReceipt(b, i), b) : i \in D}
      /\ BlockRows(b).deploys = {TrueDeploy(b, i) : i \in X}
      /\ BlockRows(b).reverts = {<<b, i>> : i \in Y}
      /\ BlockRows(b).payments = {TruePayment(b, x[1], x[2]) : x \in Z}
      /\ BlockRows(b).logs = ToSet(BlockLogs(b))
  BY <1>5 DEF BlockRows, D, Y, Z
<1> QED
  BY <1>6, <1>7, <1>8, FiniteLogs

LEMMA ReadingTyped == ReadingInv => ReadingTypeOK
<1> SUFFICES ASSUME ReadingInv PROVE ReadingTypeOK
  OBVIOUS
<1>1. truth \in [Asked -> Contents]
  BY DEF ReadingInv
<1>2. PICK kept \in SUBSET Asked : \E full \in SUBSET kept : tables = TablesOf(kept, full)
  BY DEF ReadingInv, RowsFit
<1>3. PICK full \in SUBSET kept : tables = TablesOf(kept, full)
  BY <1>2
<1>4. IsFiniteSet(kept) /\ IsFiniteSet(full)
  BY ReadingAssumption, FS_Subset
<1> DEFINE rows == [k \in {"transactions", "receipts", "logs", "deploys", "reverts", "payments"} |->
                       [b \in Asked |-> BlockRows(b)[k]]]
           blocks == [b \in Asked |-> BlockRows(b).block]
           stats == [b \in Asked |-> BlockRows(b).stats]
<1>5. /\ tables.blocks = {blocks[b] : b \in kept} /\ tables.stats = {stats[b] : b \in kept}
      /\ tables.deploys = UNION {rows["deploys"][b] : b \in kept} /\ tables.payments = UNION {rows["payments"][b] : b \in kept}
      /\ tables.transactions = UNION {rows["transactions"][b] : b \in full}
      /\ tables.receipts = UNION {rows["receipts"][b] : b \in full}
      /\ tables.logs = UNION {rows["logs"][b] : b \in full} /\ tables.reverts = UNION {rows["reverts"][b] : b \in full}
      /\ DOMAIN tables = DOMAIN NoRows
      /\ DOMAIN tables = {"blocks", "stats", "deploys", "payments", "transactions", "receipts", "logs", "reverts"}
  BY <1>3 DEF TablesOf, NoRows
<1>6. \A k \in {"transactions", "receipts", "logs", "deploys", "reverts", "payments"} : \A b \in Asked : IsFiniteSet(rows[k][b])
  BY <1>1, RowsFinite
<1> HIDE DEF rows, blocks, stats
<1>7. IsFiniteSet(tables.blocks) /\ IsFiniteSet(tables.stats)
  BY <1>4, <1>5, FiniteImage
<1>8. ASSUME NEW k \in {"transactions", "receipts", "logs", "deploys", "reverts", "payments"}, NEW B \in SUBSET Asked, IsFiniteSet(B)
      PROVE  IsFiniteSet(UNION {rows[k][b] : b \in B})
  <2> DEFINE one == rows[k]
  <2>1. \A b \in B : IsFiniteSet(one[b])
    BY <1>6
  <2> HIDE DEF one
  <2>2. IsFiniteSet(UNION {one[b] : b \in B})
    BY <1>8, <2>1, FiniteRows
  <2> QED
    BY <2>2 DEF one
<1>9. full \in SUBSET Asked
  OBVIOUS
<1>10. /\ IsFiniteSet(tables.deploys) /\ IsFiniteSet(tables.payments) /\ IsFiniteSet(tables.transactions)
       /\ IsFiniteSet(tables.receipts) /\ IsFiniteSet(tables.logs) /\ IsFiniteSet(tables.reverts)
  BY <1>4, <1>5, <1>8, <1>9
<1> QED
  BY <1>1, <1>5, <1>7, <1>10 DEF ReadingTypeOK

LEMMA FiguresTyped == TotalsInv /\ SalesInv => FiguresTypeOK
<1> SUFFICES ASSUME TotalsInv, SalesInv PROVE FiguresTypeOK
  OBVIOUS
<1>1. /\ totals \in [blocks : Nat, txs : Nat, upTo : Asked \cup {0}, generation : 0 .. MaxRecounts, whole : SUBSET Asked]
      /\ recounting \in [at : {"idle", "asked", "read"}, seen : SUBSET tables.blocks]
      /\ reader \in [Readers -> [at : {"idle", "waits", "asked", "read"}, generation : 0 .. MaxRecounts,
                                 above : Asked \cup {0}, seen : SUBSET tables.blocks]]
  BY DEF TotalsInv, TotalsTyped
<1>2. recounting.at \in {"idle", "asked", "read"} /\ recounting.seen \subseteq tables.blocks
  BY <1>1
<1>3. \A r \in Readers : reader[r].at \in {"idle", "waits", "asked", "read"} /\ reader[r].seen \subseteq tables.blocks
  BY <1>1
<1>4. {s.id : s \in settlements} \cup {r.id : r \in ledgerRows} \subseteq {b.id : b \in buys}
  <2>1. \A s \in settlements : s.id \in {b.id : b \in buys}
    BY DEF SalesInv, SettlementFits
  <2>2. \A r \in ledgerRows : \E b \in buys : r.id = b.id
    BY DEF SalesInv, RowFits
  <2> QED
    BY <2>1, <2>2
<1> QED
  BY <1>1, <1>2, <1>3, <1>4 DEF FiguresTypeOK

-----------------------------------------------------------------------------
(* All of what is told. *)

RecordsInv ==
    ReadingInv /\ TotalsInv /\ MarketInv /\ SalesInv /\ PriceInv /\ RatesTyped

LEMMA RecordsFirst == RecordsInit => RecordsInv
<1> SUFFICES ASSUME RecordsInit PROVE RecordsInv
  OBVIOUS
<1>1. ReferenceInit /\ FiguresInit /\ ReadingInit
  BY DEF RecordsInit, FiguresInit
<1>2. ReadingInv /\ TotalsInv
  BY <1>1, RowsFitFirst, TotalsFirst
<1>3. MarketInv
  BY <1>1 DEF FiguresInit, MarketInv
<1> QED
  BY <1>1, <1>2, <1>3, SalesFirst, PriceFirst, RatesFirst DEF RecordsInv

LEMMA RecordsKept == RecordsInv /\ [RecordsNext \/ Rests]_recordsVars => RecordsInv'
<1> SUFFICES ASSUME RecordsInv, [RecordsNext \/ Rests]_recordsVars PROVE RecordsInv'
  OBVIOUS
<1>1. [ReferenceNext]_referenceVars
  BY DEF RecordsNext, Rests, recordsVars
<1>2. ReadingInv'
  BY RowsFitNext, RecordsStep DEF RecordsInv
<1>3. TotalsInv' /\ MarketInv' /\ SalesInv'
  BY TotalsStepped, MarketStays, SalesStay DEF RecordsInv
<1>4. PriceInv' /\ RatesTyped'
  BY <1>1, PriceNext, RatesNext DEF RecordsInv
<1> QED
  BY <1>2, <1>3, <1>4 DEF RecordsInv

\* What a reader of the API is told holds, whatever the chain, the market and
\* the buyers do and however the requests fall: the price follows the market
\* and noise never takes it over (reference.ts); the totals, the fees and
\* activity of the window, the direct payments, who bought, and the prices and
\* token figures are those of what was kept (queries.ts, direct-payments.ts).
\* The reading of a swap weighs amounts against thresholds and is right of the
\* deals the run enumerates; it is left to the run.
THEOREM WhatIsToldHolds == RecordsSpec => [](running # "swaps" => ToldHonestly)
<1>1. RecordsInv => (running # "swaps" => ToldHonestly)
  <2> SUFFICES ASSUME RecordsInv, running # "swaps" PROVE ToldHonestly
    OBVIOUS
  <2>1. ReferenceTypeOK /\ PriceHonest
    BY ReferenceTyped DEF RecordsInv, PriceInv, PriceHonest
  <2>2. ReadingTypeOK /\ FiguresTypeOK
    BY ReadingTyped, FiguresTyped DEF RecordsInv
  <2>3. FiguresHonest
    BY TotalsAreHonest, FiguresFit, CustomersApart, PricesFit DEF RecordsInv, FiguresHonest
  <2> QED
    BY <2>1, <2>2, <2>3 DEF ToldHonestly
<1> QED
  BY <1>1, RecordsFirst, RecordsKept, PTL DEF RecordsSpec
=============================================================================
