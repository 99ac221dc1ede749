----------------------------- MODULE ListLemmas -----------------------------
(***************************************************************************)
(* What the list operations of Lists, and Concatenated, compute for every    *)
(* list.  Their definitions recurse over positions; a fact about all       *)
(* positions follows from the least position that would refute it          *)
(* (LeastNat), so no induction rule with an operator for a parameter is    *)
(* needed.                                                                 *)
(***************************************************************************)
EXTENDS Lists, TLAPS, FiniteSetTheorems

-----------------------------------------------------------------------------
(* Induction                                                                *)

\* A nonempty set of natural numbers has a least member.
LEMMA LeastNat ==
  ASSUME NEW T \in SUBSET Nat, T # {}
  PROVE  \E n \in T : \A m \in T : n <= m
<1>1. PICK n \in T : \A m \in T : ~(<<m, n>> \in OpToRel(<, Nat))
  BY NatLessThanWellFounded, WFMin
<1>2. \A m \in T : ~(m < n)
  BY <1>1 DEF OpToRel
<1> QED
  BY <1>2

\* A set that has m, and the next position with each of those below n, has all
\* positions from m to n.
LEMMA UpTo ==
  ASSUME NEW m \in Nat, NEW n \in Nat, NEW T,
         m \in T, \A i \in (m + 1)..n : i - 1 \in T => i \in T
  PROVE  m..n \subseteq T
<1> DEFINE U == {i \in m..n : i \notin T}
<1> SUFFICES ASSUME U # {} PROVE FALSE
  OBVIOUS
<1>1. U \in SUBSET Nat
  OBVIOUS
<1>2. PICK i \in U : \A k \in U : i <= k
  BY <1>1, LeastNat
<1>3. i \in (m + 1)..n /\ i - 1 \in m..n
  BY <1>2
<1>4. i - 1 \in T
  BY <1>2, <1>3
<1> QED
  BY <1>2, <1>3, <1>4

-----------------------------------------------------------------------------
(* Filtered                                                                 *)

\* The loop of the comprehension: after i elements, kept[i].
LEMMA FilteredLoop ==
  ASSUME NEW X, NEW s \in Seq(X), NEW S
  PROVE  \E F : /\ F[0] = <<>>
                /\ \A i \in 1..Len(s) :
                     F[i] = IF s[i] \in S THEN Append(F[i - 1], s[i]) ELSE F[i - 1]
                /\ Filtered(s, S) = F[Len(s)]
<1> DEFINE N == Len(s)
           D(g, i) == IF i = 0 THEN <<>>
                      ELSE IF s[i] \in S THEN Append(g[i - 1], s[i]) ELSE g[i - 1]
           Defined(n) == \E g : g = [i \in 0..n |-> D(g, i)]
           T == {n \in 0..N : Defined(n)}
           F == CHOOSE g : g = [i \in 0..N |-> D(g, i)]
<1>1. N \in Nat
  OBVIOUS
<1>2. Defined(0)
  <2>1. LET g == [i \in 0..0 |-> <<>>] IN g = [i \in 0..0 |-> D(g, i)]
    OBVIOUS
  <2> HIDE DEF D
  <2> QED
    BY <2>1
<1>3. ASSUME NEW n \in 1..N, Defined(n - 1)
      PROVE  Defined(n)
  <2>1. PICK g : g = [i \in 0..(n - 1) |-> D(g, i)]
    BY <1>3
  <2> DEFINE h == [i \in 0..n |-> IF i = n THEN D(g, n) ELSE g[i]]
  <2>2. ASSUME NEW i \in 0..n PROVE h[i] = D(h, i)
    <3>1. i # 0 => i - 1 \in 0..n /\ h[i - 1] = g[i - 1]
      OBVIOUS
    <3>2. D(g, i) = D(h, i)
      <4> HIDE DEF h
      <4> QED BY <3>1
    <3>3. i # n => i \in 0..(n - 1)
      OBVIOUS
    <3> HIDE DEF D
    <3> QED
      BY <2>1, <3>2, <3>3
  <2>3. h = [i \in 0..n |-> D(h, i)]
    <3> HIDE DEF D
    <3> QED BY <2>2
  <2> HIDE DEF h, D
  <2> QED BY <2>3
<1>4. Defined(N)
  <2> HIDE DEF Defined
  <2>1. 0 \in T /\ \A i \in (0 + 1)..N : i - 1 \in T => i \in T
    BY <1>1, <1>2, <1>3
  <2> HIDE DEF T, N
  <2>2. 0..N \subseteq T
    BY <1>1, <2>1, UpTo
  <2> QED BY <1>1, <2>2 DEF T
<1>5. F = [i \in 0..N |-> D(F, i)]
  <2> HIDE DEF D
  <2> QED BY <1>4
<1>6. Filtered(s, S) = F[N]
  BY DEF Filtered
<1> HIDE DEF F
<1>7. \A i \in 0..N : F[i] = D(F, i)
  <2> HIDE DEF D
  <2> QED BY <1>5
<1>8. /\ F[0] = <<>>
      /\ \A i \in 1..N :
           F[i] = IF s[i] \in S THEN Append(F[i - 1], s[i]) ELSE F[i - 1]
  BY <1>1, <1>7
<1> QED BY <1>6, <1>8

\* No element is listed twice.
NoRepeats(s) == \A i, j \in 1..Len(s) : s[i] = s[j] => i = j

\* g lists the elements of S among the first i of s.
Selects(g, s, S, i) ==
  /\ Len(g) <= i
  /\ \A j \in 1..Len(g) : \E k \in 1..i : g[j] = s[k] /\ s[k] \in S
  /\ \A k \in 1..i : s[k] \in S => \E j \in 1..Len(g) : g[j] = s[k]

\* One pass of the comprehension's loop.
LEMMA SelectsNext ==
  ASSUME NEW X, NEW s \in Seq(X), NEW S, NEW i \in Nat \ {0}, i <= Len(s),
         NEW g \in Seq(X), Selects(g, s, S, i - 1),
         NEW h, h = IF s[i] \in S THEN Append(g, s[i]) ELSE g
  PROVE  /\ h \in Seq(X) /\ Selects(h, s, S, i)
         /\ NoRepeats(s) /\ NoRepeats(g) => NoRepeats(h)
<1>1. 1..i = (1..(i - 1)) \cup {i}
  OBVIOUS
<1>2. CASE s[i] \notin S
  <2>1. h = g
    BY <1>2
  <2>2. Selects(g, s, S, i)
    BY <1>1, <1>2 DEF Selects
  <2> QED BY <2>1, <2>2
<1>3. CASE s[i] \in S
  <2> DEFINE m == Len(g)
  <2>1. m \in Nat /\ s[i] \in X /\ m <= i - 1
    BY DEF Selects
  <2>2. /\ h \in Seq(X) /\ Len(h) = m + 1
        /\ \A j \in 1..m : h[j] = g[j]
        /\ h[m + 1] = s[i]
    BY <1>3, <2>1
  <2>3. 1..(m + 1) = (1..m) \cup {m + 1} /\ i \in 1..i /\ m + 1 \in 1..(m + 1)
    BY <2>1
  <2> HIDE DEF m
  <2>4. \A j \in 1..m : \E k \in 1..(i - 1) : g[j] = s[k] /\ s[k] \in S
    BY DEF Selects, m
  <2>5. \A k \in 1..(i - 1) : s[k] \in S => \E j \in 1..m : g[j] = s[k]
    BY DEF Selects, m
  <2>6. \A j \in 1..(m + 1) : \E k \in 1..i : h[j] = s[k] /\ s[k] \in S
    BY <1>1, <1>3, <2>2, <2>3, <2>4
  <2>7. \A k \in 1..i : s[k] \in S => \E j \in 1..(m + 1) : h[j] = s[k]
    BY <1>1, <2>2, <2>3, <2>5
  <2>8. ASSUME NoRepeats(s), NoRepeats(g) PROVE NoRepeats(h)
    <3>1. \A j \in 1..m : g[j] # s[i]
      <4>1. \A k \in 1..(i - 1) : s[k] # s[i]
        BY <2>8 DEF NoRepeats
      <4> QED BY <2>4, <4>1
    <3>2. \A c, d \in 1..m : g[c] = g[d] => c = d
      BY <2>8 DEF NoRepeats, m
    <3>3. \A a, b \in 1..(m + 1) : h[a] = h[b] => a = b
      BY <2>2, <2>3, <3>1, <3>2
    <3> QED BY <2>2, <3>3 DEF NoRepeats
  <2>9. Selects(h, s, S, i)
    <3>1. Len(h) <= i /\ Len(h) = m + 1
      BY <2>1, <2>2
    <3> QED BY <2>6, <2>7, <3>1, Zenon DEF Selects
  <2> QED BY <2>2, <2>8, <2>9
<1> QED BY <1>2, <1>3

\* What is kept are the elements in S, each as often as s lists it: once, if s
\* lists no element twice.
LEMMA FilteredOK ==
  ASSUME NEW X, NEW s \in Seq(X), NEW S
  PROVE  /\ Filtered(s, S) \in Seq(X)
         /\ Len(Filtered(s, S)) <= Len(s)
         /\ Range(Filtered(s, S)) = Range(s) \cap S
         /\ NoRepeats(s) => NoRepeats(Filtered(s, S))
<1> DEFINE N == Len(s)
<1>1. PICK F : /\ F[0] = <<>>
               /\ \A i \in 1..N :
                    F[i] = IF s[i] \in S THEN Append(F[i - 1], s[i]) ELSE F[i - 1]
               /\ Filtered(s, S) = F[N]
  BY FilteredLoop
<1> DEFINE Good(i) == /\ F[i] \in Seq(X) /\ Selects(F[i], s, S, i)
                      /\ NoRepeats(s) => NoRepeats(F[i])
           T == {i \in 0..N : Good(i)}
<1>2. N \in Nat
  OBVIOUS
<1>3. Good(0)
  <2>1. <<>> \in Seq(X) /\ Len(<<>>) = 0
    OBVIOUS
  <2>2. Selects(<<>>, s, S, 0) /\ NoRepeats(<<>>)
    BY <2>1 DEF Selects, NoRepeats
  <2> QED BY <1>1, <2>1, <2>2
<1>4. ASSUME NEW i \in 1..N, Good(i - 1) PROVE Good(i)
  <2> DEFINE g == F[i - 1]
             h == F[i]
  <2>1. /\ g \in Seq(X) /\ Selects(g, s, S, i - 1)
        /\ h = IF s[i] \in S THEN Append(g, s[i]) ELSE g
        /\ i \in Nat \ {0} /\ i <= Len(s)
    BY <1>1, <1>4
  <2>2. NoRepeats(s) => NoRepeats(g)
    BY <1>4
  <2> HIDE DEF g, h
  <2>3. /\ h \in Seq(X) /\ Selects(h, s, S, i)
        /\ NoRepeats(s) => NoRepeats(h)
    BY <2>1, <2>2, SelectsNext
  <2> QED BY <2>3 DEF h
<1>5. Good(N)
  <2> HIDE DEF Good
  <2>1. 0 \in T /\ \A i \in (0 + 1)..N : i - 1 \in T => i \in T
    BY <1>2, <1>3, <1>4
  <2> HIDE DEF T, N
  <2>2. 0..N \subseteq T
    BY <1>2, <2>1, UpTo
  <2> QED BY <1>2, <2>2 DEF T
<1> DEFINE g == F[N]
<1>6. /\ g = Filtered(s, S) /\ g \in Seq(X) /\ Selects(g, s, S, Len(s))
      /\ NoRepeats(s) => NoRepeats(g)
  BY <1>1, <1>5
<1> HIDE DEF g
<1>7. \A x : x \in Range(g) <=> \E j \in 1..Len(g) : g[j] = x
  BY <1>6 DEF Range
<1>8. \A x : x \in Range(s) <=> \E j \in 1..Len(s) : s[j] = x
  BY DEF Range
<1>9. Range(g) = Range(s) \cap S
  <2>1. ASSUME NEW x \in Range(g) PROVE x \in Range(s) \cap S
    <3>1. PICK j \in 1..Len(g) : g[j] = x
      BY <1>7, <2>1
    <3>2. PICK k \in 1..Len(s) : g[j] = s[k] /\ s[k] \in S
      BY <1>6, Zenon DEF Selects
    <3> QED BY <1>8, <3>1, <3>2
  <2>2. ASSUME NEW x \in Range(s) \cap S PROVE x \in Range(g)
    <3>1. PICK k \in 1..Len(s) : s[k] = x
      BY <1>8, <2>2
    <3>2. PICK j \in 1..Len(g) : g[j] = s[k]
      BY <1>6, <2>2, <3>1, Zenon DEF Selects
    <3> QED BY <1>7, <3>1, <3>2
  <2> QED BY <2>1, <2>2
<1>10. Len(g) <= Len(s)
  BY <1>6 DEF Selects
<1> QED BY <1>6, <1>9, <1>10

-----------------------------------------------------------------------------
(* The elements of a list                                                   *)

\* The elements of the parts of a list.
LEMMA RangeOK ==
  ASSUME NEW X, NEW s \in Seq(X), NEW t \in Seq(X)
  PROVE  /\ \A x : x \in Range(s) <=> \E j \in 1..Len(s) : s[j] = x
         /\ Range(s) \subseteq X
         /\ Range(s \o t) = Range(s) \cup Range(t)
         /\ NoRepeats(s) /\ NoRepeats(t) /\ Range(s) \cap Range(t) = {}
              => NoRepeats(s \o t)
<1>1. \A u \in Seq(X) : \A x : x \in Range(u) <=> \E j \in 1..Len(u) : u[j] = x
  BY DEF Range
<1>2. Range(s) \subseteq X
  BY <1>1
<1> DEFINE m == Len(s)
           n == Len(t)
           c == s \o t
<1>3. /\ m \in Nat /\ n \in Nat /\ c \in Seq(X) /\ Len(c) = m + n
      /\ \A j \in 1..m : c[j] = s[j] /\ j \in 1..(m + n)
      /\ \A j \in 1..n : c[m + j] = t[j] /\ m + j \in 1..(m + n)
      /\ \A j \in 1..(m + n) : j \in 1..m \/ (j - m \in 1..n /\ j = m + (j - m))
  OBVIOUS
<1> HIDE DEF m, n, c
<1>4. Range(c) \subseteq Range(s) \cup Range(t)
  <2> SUFFICES ASSUME NEW x \in Range(c) PROVE x \in Range(s) \cup Range(t)
    OBVIOUS
  <2>1. PICK j \in 1..(m + n) : c[j] = x
    BY <1>1, <1>3
  <2>2. CASE j \in 1..m
    BY <1>1, <1>3, <2>1, <2>2 DEF m
  <2>3. CASE j - m \in 1..n /\ j = m + (j - m)
    <3>1. t[j - m] = x
      BY <1>3, <2>1, <2>3
    <3> QED BY <1>1, <2>3, <3>1 DEF n
  <2> QED BY <1>3, <2>2, <2>3
<1>5. Range(s) \cup Range(t) \subseteq Range(c)
  <2>1. ASSUME NEW x \in Range(s) PROVE x \in Range(c)
    <3>1. PICK j \in 1..m : s[j] = x
      BY <1>1, <2>1 DEF m
    <3> QED BY <1>1, <1>3, <3>1
  <2>2. ASSUME NEW x \in Range(t) PROVE x \in Range(c)
    <3>1. PICK j \in 1..n : t[j] = x
      BY <1>1, <2>2 DEF n
    <3> QED BY <1>1, <1>3, <3>1
  <2> QED BY <2>1, <2>2
<1>6. ASSUME NoRepeats(s), NoRepeats(t), Range(s) \cap Range(t) = {}
      PROVE  NoRepeats(c)
  <2>1. \A a, b \in 1..m : s[a] = s[b] => a = b
    BY <1>6 DEF NoRepeats, m
  <2>2. \A a, b \in 1..n : t[a] = t[b] => a = b
    BY <1>6 DEF NoRepeats, n
  <2>3. \A a \in 1..m, b \in 1..n : s[a] # t[b]
    <3>1. \A a \in 1..m : s[a] \in Range(s)
      BY <1>1 DEF m
    <3>2. \A b \in 1..n : t[b] \in Range(t)
      BY <1>1 DEF n
    <3> QED BY <1>6, <3>1, <3>2
  <2>4. ASSUME NEW a \in 1..(m + n), NEW b \in 1..(m + n), c[a] = c[b] PROVE a = b
    <3>1. CASE a \in 1..m /\ b \in 1..m
      BY <1>3, <2>1, <2>4, <3>1
    <3>2. CASE a \in 1..m /\ b - m \in 1..n /\ b = m + (b - m)
      <4>1. c[b] = t[b - m] /\ c[a] = s[a]
        BY <1>3, <3>2
      <4> QED BY <2>3, <2>4, <3>2, <4>1
    <3>3. CASE b \in 1..m /\ a - m \in 1..n /\ a = m + (a - m)
      <4>1. c[a] = t[a - m] /\ c[b] = s[b]
        BY <1>3, <3>3
      <4> QED BY <2>3, <2>4, <3>3, <4>1
    <3>4. CASE a - m \in 1..n /\ a = m + (a - m) /\ b - m \in 1..n /\ b = m + (b - m)
      <4>1. t[a - m] = t[b - m]
        BY <1>3, <2>4, <3>4
      <4> QED BY <1>3, <2>2, <3>4, <4>1
    <3> QED BY <1>3, <3>1, <3>2, <3>3, <3>4
  <2> QED BY <1>3, <2>4 DEF NoRepeats
<1> QED BY <1>1, <1>2, <1>4, <1>5, <1>6 DEF c

\* A slice of a list.
LEMMA SubSeqOK ==
  ASSUME NEW X, NEW s \in Seq(X), NEW a \in Nat \ {0}, NEW b \in Nat, b <= Len(s)
  PROVE  /\ SubSeq(s, a, b) \in Seq(X)
         /\ Len(SubSeq(s, a, b)) = IF a <= b THEN b - a + 1 ELSE 0
         /\ \A j \in 1..Len(SubSeq(s, a, b)) : SubSeq(s, a, b)[j] = s[a + j - 1]
         /\ Range(SubSeq(s, a, b)) = {s[i] : i \in a..b}
         /\ NoRepeats(s) => NoRepeats(SubSeq(s, a, b))
<1> DEFINE t == SubSeq(s, a, b)
<1>1. CASE a > b
  <2>1. t = <<>> /\ a..b = {} /\ Len(t) = 0
    BY <1>1
  <2> QED BY <1>1, <2>1 DEF NoRepeats, Range
<1>2. CASE a <= b
  <2>1. /\ t \in Seq(X) /\ Len(t) = b - a + 1
        /\ \A j \in 1..(b - a + 1) : t[j] = s[a + j - 1]
    BY <1>2
  <2> HIDE DEF t
  <2>2. \A x : x \in Range(t) <=> \E j \in 1..Len(t) : t[j] = x
    BY <2>1 DEF Range
  <2>3. ASSUME NEW x \in Range(t) PROVE x \in {s[i] : i \in a..b}
    <3>1. PICK j \in 1..(b - a + 1) : t[j] = x
      BY <2>1, <2>2, <2>3
    <3>2. a + j - 1 \in a..b /\ x = s[a + j - 1]
      BY <2>1, <3>1
    <3> QED BY <3>2
  <2>4. ASSUME NEW i \in a..b PROVE s[i] \in Range(t)
    <3>1. i - a + 1 \in 1..(b - a + 1) /\ a + (i - a + 1) - 1 = i
      OBVIOUS
    <3>2. t[i - a + 1] = s[i]
      BY <2>1, <3>1
    <3> QED BY <2>1, <2>2, <3>1, <3>2
  <2>5. ASSUME NoRepeats(s) PROVE NoRepeats(t)
    <3>1. \A j \in 1..(b - a + 1) : a + j - 1 \in 1..Len(s)
      OBVIOUS
    <3>2. ASSUME NEW i \in 1..Len(t), NEW j \in 1..Len(t), t[i] = t[j] PROVE i = j
      <4>1. s[a + i - 1] = s[a + j - 1]
        BY <2>1, <3>2
      <4>2. a + i - 1 \in 1..Len(s) /\ a + j - 1 \in 1..Len(s)
        BY <2>1, <3>1
      <4>3. a + i - 1 = a + j - 1
        BY <2>5, <4>1, <4>2 DEF NoRepeats
      <4> QED BY <2>1, <4>3
    <3> QED BY <3>2 DEF NoRepeats
  <2>6. Range(t) = {s[i] : i \in a..b}
    BY <2>3, <2>4
  <2> QED BY <1>2, <2>1, <2>5, <2>6 DEF t
<1> QED BY <1>1, <1>2

\* A list without repetitions has as many elements as positions.
LEMMA NoRepeatsCardinality ==
  ASSUME NEW X, NEW s \in Seq(X)
  PROVE  /\ IsFiniteSet(Range(s)) /\ Cardinality(Range(s)) \in Nat
         /\ Cardinality(Range(s)) <= Len(s)
         /\ NoRepeats(s) <=> Cardinality(Range(s)) = Len(s)
<1> DEFINE D == 1..Len(s)
<1>1. IsFiniteSet(D) /\ Cardinality(D) = Len(s)
  <2>1. 1 \in Int /\ Len(s) \in Int /\ Len(s) >= 0
    OBVIOUS
  <2>2. /\ IsFiniteSet(D)
        /\ Cardinality(D) = IF 1 > Len(s) THEN 0 ELSE Len(s) - 1 + 1
    BY <2>1, FS_Interval
  <2> QED BY <2>1, <2>2
<1>2. s \in [D -> Range(s)]
  BY DEF Range
<1>3. s \in Surjection(D, Range(s))
  BY <1>2 DEF Surjection, Range
<1>4. s \in Injection(D, Range(s)) <=> NoRepeats(s)
  BY <1>2 DEF Injection, IsInjective, NoRepeats
<1> HIDE DEF D
<1> QED BY <1>1, <1>3, <1>4, FS_Surjection, FS_CardinalityType

-----------------------------------------------------------------------------
(* Offsets into a flat list                                                 *)

\* The loop of the running offset.
LEMMA OffsetLoop ==
  ASSUME NEW lens \in Seq(Nat)
  PROVE  /\ OffsetAfter(lens, 0) = 0
         /\ \A k \in 1..Len(lens) :
              OffsetAfter(lens, k) = OffsetAfter(lens, k - 1) + lens[k]
<1> DEFINE N == Len(lens)
           D(g, i) == IF i = 0 THEN 0 ELSE g[i - 1] + lens[i]
           Defined(n) == \E g : g = [i \in 0..n |-> D(g, i)]
           T == {n \in 0..N : Defined(n)}
           F == CHOOSE g : g = [i \in 0..N |-> D(g, i)]
<1>1. N \in Nat
  OBVIOUS
<1>2. Defined(0)
  <2>1. LET g == [i \in 0..0 |-> 0] IN g = [i \in 0..0 |-> D(g, i)]
    OBVIOUS
  <2> HIDE DEF D
  <2> QED
    BY <2>1
<1>3. ASSUME NEW n \in 1..N, Defined(n - 1)
      PROVE  Defined(n)
  <2>1. PICK g : g = [i \in 0..(n - 1) |-> D(g, i)]
    BY <1>3
  <2> DEFINE h == [i \in 0..n |-> IF i = n THEN D(g, n) ELSE g[i]]
  <2>2. ASSUME NEW i \in 0..n PROVE h[i] = D(h, i)
    <3>1. i # 0 => i - 1 \in 0..n /\ h[i - 1] = g[i - 1]
      OBVIOUS
    <3>2. D(g, i) = D(h, i)
      <4> HIDE DEF h
      <4> QED BY <3>1
    <3>3. i # n => i \in 0..(n - 1)
      OBVIOUS
    <3> HIDE DEF D
    <3> QED
      BY <2>1, <3>2, <3>3
  <2>3. h = [i \in 0..n |-> D(h, i)]
    <3> HIDE DEF D
    <3> QED BY <2>2
  <2> HIDE DEF h, D
  <2> QED BY <2>3
<1>4. Defined(N)
  <2> HIDE DEF Defined
  <2>1. 0 \in T /\ \A i \in (0 + 1)..N : i - 1 \in T => i \in T
    BY <1>1, <1>2, <1>3
  <2> HIDE DEF T, N
  <2>2. 0..N \subseteq T
    BY <1>1, <2>1, UpTo
  <2> QED BY <1>1, <2>2 DEF T
<1>5. F = [i \in 0..N |-> D(F, i)]
  <2> HIDE DEF D
  <2> QED BY <1>4
<1>6. \A k : OffsetAfter(lens, k) = F[k]
  BY DEF OffsetAfter
<1> HIDE DEF F
<1>7. \A i \in 0..N : F[i] = D(F, i)
  <2> HIDE DEF D
  <2> QED BY <1>5
<1>8. F[0] = 0 /\ \A i \in 1..N : F[i] = F[i - 1] + lens[i]
  BY <1>1, <1>7
<1> QED BY <1>6, <1>8

\* Offsets are natural numbers that never decrease.
LEMMA OffsetOK ==
  ASSUME NEW lens \in Seq(Nat)
  PROVE  /\ \A k \in 0..Len(lens) : OffsetAfter(lens, k) \in Nat
         /\ \A k \in 0..Len(lens) : \A j \in 0..k :
              OffsetAfter(lens, j) <= OffsetAfter(lens, k)
<1> DEFINE O(k) == OffsetAfter(lens, k)
           N == Len(lens)
           T == {k \in 0..N : O(k) \in Nat}
<1>1. N \in Nat /\ O(0) = 0 /\ \A k \in 1..N : O(k) = O(k - 1) + lens[k] /\ lens[k] \in Nat
  BY OffsetLoop
<1> HIDE DEF O
<1>2. 0 \in T /\ \A i \in (0 + 1)..N : i - 1 \in T => i \in T
  BY <1>1
<1>3. 0..N \subseteq T
  <2> HIDE DEF T, N
  <2> QED BY <1>1, <1>2, UpTo
<1>4. \A k \in 0..N : O(k) \in Nat
  BY <1>3
<1>5. ASSUME NEW j \in 0..N PROVE \A k \in j..N : O(j) <= O(k)
  <2> DEFINE U == {k \in j..N : O(j) <= O(k)}
  <2>1. j \in U
    BY <1>1, <1>4
  <2>3. ASSUME NEW i \in (j + 1)..N, i - 1 \in U PROVE i \in U
    <3>1. i \in 1..N /\ i \in j..N /\ i - 1 \in 0..N
      BY <1>1
    <3>2. O(i) = O(i - 1) + lens[i] /\ lens[i] \in Nat /\ O(i - 1) \in Nat /\ O(j) \in Nat
      BY <1>1, <1>4, <3>1
    <3>3. O(j) <= O(i - 1)
      BY <2>3
    <3> QED BY <3>1, <3>2, <3>3
  <2>2. j..N \subseteq U
    <3>1. j \in Nat
      BY <1>1
    <3> HIDE DEF U, N
    <3> QED BY <1>1, <2>1, <2>3, <3>1, UpTo
  <2> QED BY <2>2
<1>6. \A k \in 0..N : \A j \in 0..k : j \in 0..N /\ k \in j..N
  BY <1>1
<1>7. \A k \in 0..N : \A j \in 0..k : O(j) <= O(k)
  BY <1>5, <1>6
<1> QED BY <1>4, <1>7 DEF O

\* Every position of the flat list is one position of one part.
LEMMA OffsetSplits ==
  ASSUME NEW lens \in Seq(Nat)
  PROVE  /\ \A k \in 1..Len(lens) : \A j \in 1..lens[k] :
              OffsetAfter(lens, k - 1) + j \in 1..OffsetAfter(lens, Len(lens))
         /\ \A x \in 1..OffsetAfter(lens, Len(lens)) :
              \E k \in 1..Len(lens) : \E j \in 1..lens[k] :
                x = OffsetAfter(lens, k - 1) + j
         /\ \A k, l \in 1..Len(lens) : \A i \in 1..lens[k], j \in 1..lens[l] :
              OffsetAfter(lens, k - 1) + i = OffsetAfter(lens, l - 1) + j
                => k = l /\ i = j
<1> DEFINE O(k) == OffsetAfter(lens, k)
           N == Len(lens)
<1>1. N \in Nat /\ O(0) = 0 /\ \A k \in 1..N : O(k) = O(k - 1) + lens[k] /\ lens[k] \in Nat
  BY OffsetLoop
<1>2. /\ \A k \in 0..N : O(k) \in Nat
      /\ \A k \in 0..N : \A j \in 0..k : O(j) <= O(k)
  BY OffsetOK
<1> HIDE DEF O, N
<1>3. \A k \in 1..N : k \in 0..N /\ k - 1 \in 0..N /\ k \in 0..N /\ k \in 0..N /\ N \in 0..N
  BY <1>1
<1>4. ASSUME NEW k \in 1..N, NEW j \in 1..lens[k]
      PROVE  O(k - 1) + j \in 1..O(N) /\ O(k - 1) < O(k - 1) + j /\ O(k - 1) + j <= O(k)
  <2>1. O(k) <= O(N) /\ O(k) \in Nat /\ O(k - 1) \in Nat /\ O(N) \in Nat
    BY <1>1, <1>2, <1>3
  <2>2. O(k) = O(k - 1) + lens[k] /\ lens[k] \in Nat
    BY <1>1
  <2>3. \A p, q, n \in Nat : \A i \in 1..q :
          p + q <= n => p + i \in 1..n /\ p < p + i /\ p + i <= p + q
    OBVIOUS
  <2> QED BY <2>1, <2>2, <2>3
<1>5. ASSUME NEW x \in 1..O(N)
      PROVE  \E k \in 1..N : \E j \in 1..lens[k] : x = O(k - 1) + j
  <2> DEFINE U == {k \in 0..N : x <= O(k)}
  <2>1. N \in U /\ U \in SUBSET Nat
    BY <1>1, <1>2
  <2>2. PICK k \in U : \A m \in U : k <= m
    <3> HIDE DEF U
    <3> QED BY <2>1, LeastNat
  <2>3. k \in 1..N
    BY <1>1, <2>2
  <2>4. ~(x <= O(k - 1))
    <3>1. k - 1 \in 0..N /\ ~(k <= k - 1)
      BY <1>1, <2>3
    <3> QED BY <2>2, <3>1
  <2>5. O(k) = O(k - 1) + lens[k] /\ lens[k] \in Nat /\ O(k - 1) \in Nat /\ x <= O(k)
    BY <1>1, <1>2, <1>3, <2>2, <2>3
  <2>6. x \in Nat
    BY <1>1, <1>2
  <2>7. x - O(k - 1) \in 1..lens[k] /\ x = O(k - 1) + (x - O(k - 1))
    BY <2>4, <2>5, <2>6
  <2> QED BY <2>3, <2>7
<1>6. ASSUME NEW k \in 1..N, NEW l \in 1..N, NEW i \in 1..lens[k], NEW j \in 1..lens[l],
             O(k - 1) + i = O(l - 1) + j
      PROVE  k = l /\ i = j
  <2>1. /\ O(k - 1) < O(k - 1) + i /\ O(k - 1) + i <= O(k)
        /\ O(l - 1) < O(l - 1) + j /\ O(l - 1) + j <= O(l)
    BY <1>4
  <2>2. /\ O(k) \in Nat /\ O(l) \in Nat /\ O(k - 1) \in Nat /\ O(l - 1) \in Nat
        /\ i \in Int /\ j \in Int /\ k \in Int /\ l \in Int
    BY <1>1, <1>2, <1>3
  <2>3. k < l => O(k) <= O(l - 1)
    <3>1. k < l => k \in 0..(l - 1) /\ l - 1 \in 0..N
      BY <1>1
    <3> QED BY <1>2, <3>1
  <2>4. l < k => O(l) <= O(k - 1)
    <3>1. l < k => l \in 0..(k - 1) /\ k - 1 \in 0..N
      BY <1>1
    <3> QED BY <1>2, <3>1
  <2>5. k = l
    <3>1. ~(O(k) <= O(l - 1))
      BY <1>6, <2>1, <2>2
    <3>2. ~(O(l) <= O(k - 1))
      BY <1>6, <2>1, <2>2
    <3>3. ~(k < l) /\ ~(l < k)
      BY <2>3, <2>4, <3>1, <3>2
    <3> QED
      BY <2>2, <3>3
  <2> QED BY <1>6, <2>2, <2>5
<1> QED BY <1>4, <1>5, <1>6 DEF O, N

-----------------------------------------------------------------------------
(* Concatenated                                                            *)

\* The loop that appends one part after the other.
LEMMA ConcatenatedLoop ==
  ASSUME NEW X, NEW segs \in Seq(Seq(X))
  PROVE  \E F : /\ F[0] = <<>>
                /\ \A i \in 1..Len(segs) : F[i] = F[i - 1] \o segs[i]
                /\ Concatenated(segs) = F[Len(segs)]
<1> DEFINE N == Len(segs)
           D(g, i) == IF i = 0 THEN <<>> ELSE g[i - 1] \o segs[i]
           Defined(n) == \E g : g = [i \in 0..n |-> D(g, i)]
           T == {n \in 0..N : Defined(n)}
           F == CHOOSE g : g = [i \in 0..N |-> D(g, i)]
<1>1. N \in Nat
  OBVIOUS
<1>2. Defined(0)
  <2>1. LET g == [i \in 0..0 |-> <<>>] IN g = [i \in 0..0 |-> D(g, i)]
    OBVIOUS
  <2> HIDE DEF D
  <2> QED
    BY <2>1
<1>3. ASSUME NEW n \in 1..N, Defined(n - 1)
      PROVE  Defined(n)
  <2>1. PICK g : g = [i \in 0..(n - 1) |-> D(g, i)]
    BY <1>3
  <2> DEFINE h == [i \in 0..n |-> IF i = n THEN D(g, n) ELSE g[i]]
  <2>2. ASSUME NEW i \in 0..n PROVE h[i] = D(h, i)
    <3>1. i # 0 => i - 1 \in 0..n /\ h[i - 1] = g[i - 1]
      OBVIOUS
    <3>2. D(g, i) = D(h, i)
      <4> HIDE DEF h
      <4> QED BY <3>1
    <3>3. i # n => i \in 0..(n - 1)
      OBVIOUS
    <3> HIDE DEF D
    <3> QED
      BY <2>1, <3>2, <3>3
  <2>3. h = [i \in 0..n |-> D(h, i)]
    <3> HIDE DEF D
    <3> QED BY <2>2
  <2> HIDE DEF h, D
  <2> QED BY <2>3
<1>4. Defined(N)
  <2> HIDE DEF Defined
  <2>1. 0 \in T /\ \A i \in (0 + 1)..N : i - 1 \in T => i \in T
    BY <1>1, <1>2, <1>3
  <2> HIDE DEF T, N
  <2>2. 0..N \subseteq T
    BY <1>1, <2>1, UpTo
  <2> QED BY <1>1, <2>2 DEF T
<1>5. F = [i \in 0..N |-> D(F, i)]
  <2> HIDE DEF D
  <2> QED BY <1>4
<1>6. Concatenated(segs) = F[N]
  BY DEF Concatenated
<1> HIDE DEF F
<1>7. \A i \in 0..N : F[i] = D(F, i)
  <2> HIDE DEF D
  <2> QED BY <1>5
<1>8. F[0] = <<>>
  BY <1>1, <1>7
<1>9. ASSUME NEW i \in 1..N PROVE F[i] = F[i - 1] \o segs[i]
  <2>1. i \in 0..N /\ i # 0
    BY <1>1
  <2>2. F[i] = D(F, i)
    BY <1>7, <2>1
  <2> QED BY <2>1, <2>2
<1> QED BY <1>6, <1>8, <1>9

\* The elements of a concatenation.
LEMMA ConcatOK ==
  ASSUME NEW X, NEW s \in Seq(X), NEW t \in Seq(X), NEW m, m = Len(s), NEW n, n = Len(t),
         NEW c, c = s \o t
  PROVE  /\ c \in Seq(X) /\ Len(c) = m + n
         /\ \A j \in 1..m : c[j] = s[j]
         /\ \A j \in 1..n : c[m + j] = t[j]
  OBVIOUS

LEMMA ConcatSeq ==
  ASSUME NEW X, NEW s \in Seq(X), NEW t \in Seq(X)
  PROVE  /\ s \o t \in Seq(X) /\ Len(s \o t) = Len(s) + Len(t)
         /\ \A j \in 1..Len(s) : (s \o t)[j] = s[j]
         /\ \A j \in 1..Len(t) : (s \o t)[Len(s) + j] = t[j]
  OBVIOUS

\* The flat list holds the first n parts, each behind the ones before it.
Laid(flat, segs, lens, n) ==
  /\ Len(flat) = OffsetAfter(lens, n)
  /\ \A k \in 1..n : \A j \in 1..lens[k] :
       flat[OffsetAfter(lens, k - 1) + j] = segs[k][j]

\* Where Concatenated puts the elements of the parts.
LEMMA ConcatenatedOK ==
  ASSUME NEW X, NEW segs \in Seq(Seq(X)),
         NEW lens, lens = [k \in 1..Len(segs) |-> Len(segs[k])]
  PROVE  /\ Concatenated(segs) \in Seq(X)
         /\ Laid(Concatenated(segs), segs, lens, Len(segs))
<1> DEFINE O(k) == OffsetAfter(lens, k)
           N == Len(segs)
<1>1. N \in Nat /\ \A k \in 1..N : segs[k] \in Seq(X) /\ lens[k] = Len(segs[k]) /\ lens[k] \in Nat
  OBVIOUS
<1>2. lens \in Seq(Nat) /\ Len(lens) = N
  BY <1>1
<1>3. O(0) = 0 /\ \A k \in 1..N : O(k) = O(k - 1) + lens[k]
  BY <1>2, OffsetLoop
<1>4. /\ \A k \in 0..N : O(k) \in Nat
      /\ \A k \in 0..N : \A j \in 0..k : O(j) <= O(k)
  BY <1>2, OffsetOK
<1>5. PICK F : /\ F[0] = <<>>
               /\ \A i \in 1..N : F[i] = F[i - 1] \o segs[i]
               /\ Concatenated(segs) = F[N]
  BY ConcatenatedLoop
<1> HIDE DEF O, N
<1> DEFINE Good(i) == F[i] \in Seq(X) /\ Laid(F[i], segs, lens, i)
           T == {i \in 0..N : Good(i)}
<1>7. Good(0)
  <2>1. F[0] \in Seq(X) /\ Len(F[0]) = 0
    BY <1>5
  <2> QED
    BY <1>3, <2>1 DEF Laid, O
<1>8. ASSUME NEW i \in 1..N, Good(i - 1) PROVE Good(i)
  <2> DEFINE g == F[i - 1]
             h == F[i]
             t == segs[i]
             n == lens[i]
             m == O(i - 1)
  <2>1. /\ g \in Seq(X) /\ t \in Seq(X) /\ h = g \o t
        /\ Len(g) = m /\ Len(t) = n /\ m \in Nat /\ n \in Nat
        /\ O(i) = m + n
    <3>1. i \in 1..N /\ i - 1 \in 0..N
      BY <1>1
    <3>2. g \in Seq(X) /\ Len(g) = m
      BY <1>8 DEF Laid, O
    <3>3. h = g \o t
      BY <1>5
    <3>4. t \in Seq(X) /\ Len(t) = n /\ n \in Nat
      BY <1>1, <3>1
    <3>5. m \in Nat
      BY <1>4, <3>1
    <3>6. O(i) = m + n
      BY <1>3, <3>1
    <3> QED BY <3>2, <3>3, <3>4, <3>5, <3>6
  <2>2. \A k \in 1..(i - 1) : \A j \in 1..lens[k] : g[O(k - 1) + j] = segs[k][j]
    BY <1>8 DEF Laid, O
  <2> HIDE DEF g, h, t, n, m
  <2>3. /\ h \in Seq(X) /\ Len(h) = m + n
        /\ \A j \in 1..m : h[j] = g[j]
        /\ \A j \in 1..n : h[m + j] = t[j]
    <3>1. g \in Seq(X) /\ t \in Seq(X) /\ m = Len(g) /\ n = Len(t) /\ h = g \o t
      BY <2>1
    <3> QED BY <3>1, ConcatOK
  <2>4. ASSUME NEW k \in 1..(i - 1), NEW j \in 1..lens[k]
        PROVE  O(k - 1) + j \in 1..m
    <3>1. k \in 1..N /\ k \in 0..(i - 1) /\ i - 1 \in 0..N /\ k - 1 \in 0..N
      BY <1>1
    <3>2. O(k) <= m /\ O(k) = O(k - 1) + lens[k] /\ lens[k] \in Nat /\ O(k - 1) \in Nat
      BY <1>1, <1>3, <1>4, <3>1 DEF m
    <3>3. \A a, b, c \in Nat : \A d \in 1..b : a + b <= c => a + d \in 1..c
      OBVIOUS
    <3> QED BY <2>1, <3>2, <3>3
  <2>5. ASSUME NEW k \in 1..i, NEW j \in 1..lens[k]
        PROVE  h[O(k - 1) + j] = segs[k][j]
    <3>1. CASE k = i
      <4>1. j \in 1..n /\ O(k - 1) = m /\ segs[k] = t
        BY <3>1 DEF n, m, t
      <4> QED BY <2>3, <4>1
    <3>2. CASE k # i
      <4>1. k \in 1..(i - 1)
        BY <3>2
      <4> QED BY <2>2, <2>3, <2>4, <4>1
    <3> QED BY <3>1, <3>2
  <2> QED BY <2>1, <2>3, <2>5 DEF Laid, O, h
<1>9. Good(N)
  <2> HIDE DEF Good
  <2>1. 0 \in T /\ \A i \in (0 + 1)..N : i - 1 \in T => i \in T
    BY <1>1, <1>7, <1>8
  <2> HIDE DEF T
  <2>2. 0..N \subseteq T
    BY <1>1, <2>1, UpTo
  <2> QED BY <1>1, <2>2 DEF T
<1> QED BY <1>5, <1>9 DEF N

\* A function on 1..n is a list.
LEMMA TupleOK ==
  ASSUME NEW Y, NEW n \in Nat, NEW f \in [1..n -> Y]
  PROVE  f \in Seq(Y) /\ Len(f) = n
  OBVIOUS

\* Lists of the same length with the same elements are equal.
LEMMA SameList ==
  ASSUME NEW X, NEW s \in Seq(X), NEW t \in Seq(X), Len(s) = Len(t),
         \A j \in 1..Len(s) : s[j] = t[j]
  PROVE  s = t
  OBVIOUS

\* Concatenated for parts of known lengths.
LEMMA ConcatenatedParts ==
  ASSUME NEW X, NEW n \in Nat, NEW segs \in [1..n -> Seq(X)],
         NEW lens \in [1..n -> Nat], \A k \in 1..n : Len(segs[k]) = lens[k]
  PROVE  Concatenated(segs) \in Seq(X) /\ Laid(Concatenated(segs), segs, lens, n)
<1>1. segs \in Seq(Seq(X)) /\ Len(segs) = n
  BY TupleOK
<1>2. lens = [k \in 1..n |-> Len(segs[k])]
  OBVIOUS
<1>3. lens = [k \in 1..Len(segs) |-> Len(segs[k])]
  BY <1>1, <1>2
<1> QED
  BY <1>1, <1>3, ConcatenatedOK

\* The offset of a part depends on the parts before it.
LEMMA OffsetSame ==
  ASSUME NEW a \in Seq(Nat), NEW b \in Seq(Nat), NEW n \in Nat,
         n <= Len(a), n <= Len(b), \A k \in 1..n : a[k] = b[k]
  PROVE  \A k \in 0..n : OffsetAfter(a, k) = OffsetAfter(b, k)
<1> DEFINE T == {k \in 0..n : OffsetAfter(a, k) = OffsetAfter(b, k)}
<1>1. /\ OffsetAfter(a, 0) = 0 /\ OffsetAfter(b, 0) = 0
      /\ \A k \in 1..Len(a) : OffsetAfter(a, k) = OffsetAfter(a, k - 1) + a[k]
      /\ \A k \in 1..Len(b) : OffsetAfter(b, k) = OffsetAfter(b, k - 1) + b[k]
  BY OffsetLoop
<1>2. Len(a) \in Nat /\ Len(b) \in Nat
  OBVIOUS
<1>3. 0 \in T
  BY <1>1
<1>4. ASSUME NEW k \in 1..n, k - 1 \in T PROVE k \in T
  <2>1. k \in 1..Len(a) /\ k \in 1..Len(b) /\ k \in 0..n
    BY <1>2
  <2>2. OffsetAfter(a, k - 1) = OffsetAfter(b, k - 1) /\ a[k] = b[k]
    BY <1>4
  <2> QED
    BY <1>1, <2>1, <2>2
<1> HIDE DEF T
<1>5. 0..n \subseteq T
  <2>1. 0 \in Nat /\ 0 + 1 = 1
    OBVIOUS
  <2> QED
    BY <1>3, <1>4, <2>1, UpTo
<1> QED
  BY <1>5 DEF T

\* Longer parts make a longer list, unless they are as long.
LEMMA OffsetCompare ==
  ASSUME NEW n \in Nat, NEW a \in [1..n -> Nat], NEW b \in [1..n -> Nat],
         \A k \in 1..n : a[k] <= b[k]
  PROVE  /\ OffsetAfter(a, n) <= OffsetAfter(b, n)
         /\ OffsetAfter(a, n) = OffsetAfter(b, n) => \A k \in 1..n : a[k] = b[k]
<1> DEFINE A(k) == OffsetAfter(a, k)
           B(k) == OffsetAfter(b, k)
           T == {k \in 0..n : /\ A(k) <= B(k)
                              /\ A(k) = B(k) => \A i \in 1..k : a[i] = b[i]}
<1>1. a \in Seq(Nat) /\ Len(a) = n /\ b \in Seq(Nat) /\ Len(b) = n
  BY TupleOK
<1>2. /\ A(0) = 0 /\ B(0) = 0
      /\ \A k \in 1..n : A(k) = A(k - 1) + a[k] /\ B(k) = B(k - 1) + b[k]
  BY <1>1, OffsetLoop
<1>3. \A k \in 0..n : A(k) \in Nat /\ B(k) \in Nat
  BY <1>1, OffsetOK
<1> HIDE DEF A, B
<1>4. 0 \in T
  BY <1>2
<1>5. ASSUME NEW k \in 1..n, k - 1 \in T PROVE k \in T
  <2>1. /\ A(k) = A(k - 1) + a[k] /\ B(k) = B(k - 1) + b[k] /\ A(k - 1) <= B(k - 1)
        /\ A(k - 1) = B(k - 1) => \A i \in 1..(k - 1) : a[i] = b[i]
    BY <1>2, <1>5
  <2>2. /\ A(k - 1) \in Nat /\ B(k - 1) \in Nat /\ a[k] \in Nat /\ b[k] \in Nat
        /\ a[k] <= b[k] /\ k \in 0..n
    BY <1>3
  <2>3. /\ A(k) <= B(k)
        /\ A(k) = B(k) => A(k - 1) = B(k - 1) /\ a[k] = b[k]
    BY <2>1, <2>2
  <2>4. A(k) = B(k) => \A i \in 1..k : a[i] = b[i]
    <3> SUFFICES ASSUME A(k) = B(k), NEW i \in 1..k PROVE a[i] = b[i]
      OBVIOUS
    <3>1. i = k \/ i \in 1..(k - 1)
      OBVIOUS
    <3> QED
      BY <2>1, <2>3, <3>1
  <2> QED
    BY <2>2, <2>3, <2>4
<1> HIDE DEF T
<1>6. 0..n \subseteq T
  <2>1. 0 \in Nat /\ 0 + 1 = 1
    OBVIOUS
  <2> QED
    BY <1>4, <1>5, <2>1, UpTo
<1> QED
  BY <1>6 DEF T, A, B

\* Parts of one length.
LEMMA OffsetOfEqual ==
  ASSUME NEW n \in Nat, NEW w \in Nat, NEW a \in [1..n -> Nat], \A k \in 1..n : a[k] = w
  PROVE  OffsetAfter(a, n) = n * w
<1> DEFINE T == {k \in 0..n : OffsetAfter(a, k) = k * w}
<1>1. a \in Seq(Nat) /\ Len(a) = n
  BY TupleOK
<1>2. /\ OffsetAfter(a, 0) = 0
      /\ \A k \in 1..n : OffsetAfter(a, k) = OffsetAfter(a, k - 1) + w
  BY <1>1, OffsetLoop
<1>3. 0 \in T
  BY <1>2
<1>4. ASSUME NEW k \in 1..n, k - 1 \in T PROVE k \in T
  <2>1. OffsetAfter(a, k) = (k - 1) * w + w /\ k \in 0..n
    BY <1>2, <1>4
  <2>2. \A x, y \in Int : (x - 1) * y + y = x * y
    OBVIOUS
  <2>3. (k - 1) * w + w = k * w
    BY <2>2
  <2> QED
    BY <2>1, <2>3
<1> HIDE DEF T
<1>5. 0..n \subseteq T
  <2>1. 0 \in Nat /\ 0 + 1 = 1
    OBVIOUS
  <2> QED
    BY <1>3, <1>4, <2>1, UpTo
<1> QED
  BY <1>5 DEF T
=============================================================================
