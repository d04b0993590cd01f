------------------------------- MODULE Lemmas -------------------------------
(***************************************************************************)
(* General facts the proofs of this project share.  Induction over the     *)
(* natural numbers is stated for a set, which needs no operator parameter. *)
(***************************************************************************)
EXTENDS Integers, FiniteSets, FiniteSetTheorems, SequencesExt, SequenceTheorems,
        WellFoundedInduction, TLAPS

\* A set that holds 0 and with every number the next one holds all numbers.
THEOREM SetInduction ==
  ASSUME NEW S, 0 \in S, \A n \in Nat : n \in S => n + 1 \in S
  PROVE  Nat \subseteq S
<1> DEFINE R == StrictSubsetOrdering(Nat)
           F == {Y \in FiniteSubsetsOf(Nat) : \E n \in Nat : Y = 0..n /\ n \notin S}
<1>1. SUFFICES ASSUME NEW m \in Nat, m \notin S PROVE FALSE
  OBVIOUS
<1>2. \A n \in Nat : 0..n \in FiniteSubsetsOf(Nat)
  BY FS_Interval DEF FiniteSubsetsOf
<1>3. F # {} /\ F \subseteq FiniteSubsetsOf(Nat)
  BY <1>1, <1>2
<1>4. IsWellFoundedOn(R, FiniteSubsetsOf(Nat))
  BY FS_StrictSubsetOrderingWellFounded
<1>5. \E X \in F : \A Y \in F : ~(<<Y, X>> \in R)
  <2> HIDE DEF R, F
  <2> QED BY <1>3, <1>4, WFMin
<1>6. PICK X \in F : \A Y \in F : ~(<<Y, X>> \in R)
  BY <1>5
<1>7. PICK x \in Nat : X = 0..x /\ x \notin S
  BY <1>6
<1>8. x - 1 \in Nat /\ x - 1 \notin S
  <2>1. x - 1 \in Nat /\ (x - 1) + 1 = x
    BY <1>7
  <2>2. QED BY <2>1, <1>7
<1>9. <<0..(x - 1), 0..x>> \in R
  <2>1. 0..(x - 1) \in SUBSET Nat /\ 0..x \in SUBSET Nat /\ 0..(x - 1) \subseteq 0..x
    OBVIOUS
  <2>2. x \in 0..x /\ x \notin 0..(x - 1)
    OBVIOUS
  <2>3. QED BY <2>1, <2>2 DEF StrictSubsetOrdering
<1>10. 0..(x - 1) \in F
  BY <1>2, <1>8
<1>11. QED BY <1>6, <1>7, <1>9, <1>10

\* A set of numbers that is not empty has a least one.
LEMMA MinOf ==
  ASSUME NEW S, S \subseteq Nat, S # {}
  PROVE  Min(S) \in S /\ \A y \in S : Min(S) <= y
<1>1. \E x \in S : \A y \in S : x <= y
  <2> DEFINE A == {n \in Nat : \A y \in S : n <= y}
  <2>1. SUFFICES ASSUME ~\E x \in S : \A y \in S : x <= y PROVE FALSE
    OBVIOUS
  <2>2. 0 \in A
    OBVIOUS
  <2>3. ASSUME NEW n \in Nat, n \in A PROVE n + 1 \in A
    <3>1. n \notin S
      BY <2>1, <2>3
    <3>2. QED BY <2>3, <3>1
  <2>4. A \subseteq Nat
    OBVIOUS
  <2>5. PICK y \in S : TRUE
    OBVIOUS
  <2>6. y + 1 \in A => y + 1 <= y
    OBVIOUS
  <2> HIDE DEF A
  <2>7. Nat \subseteq A
    BY <2>2, <2>3, SetInduction
  <2>8. QED BY <2>5, <2>6, <2>7
<1>2. QED BY <1>1 DEF Min

-----------------------------------------------------------------------------
(* Sequences *)

\* What Append adds.
LEMMA Appended ==
  ASSUME NEW S, NEW q \in Seq(S), NEW e \in S
  PROVE  /\ Append(q, e) \in Seq(S)
         /\ Len(q) \in Nat /\ Len(Append(q, e)) = Len(q) + 1
         /\ DOMAIN q = 1..Len(q) /\ DOMAIN Append(q, e) = 1..(Len(q) + 1)
         /\ \A i \in 1..Len(q) : Append(q, e)[i] = q[i]
         /\ Append(q, e)[Len(q) + 1] = e
         /\ ToSet(Append(q, e)) = ToSet(q) \cup {e}
<1>1. /\ Append(q, e) \in Seq(S) /\ Len(Append(q, e)) = Len(q) + 1
      /\ \A i \in 1..Len(q) : Append(q, e)[i] = q[i]
      /\ Append(q, e)[Len(q) + 1] = e
  BY AppendProperties
<1>2. Len(q) \in Nat /\ DOMAIN q = 1..Len(q) /\ DOMAIN Append(q, e) = 1..(Len(q) + 1)
  BY <1>1, LenProperties
<1>3. 1..(Len(q) + 1) = 1..Len(q) \cup {Len(q) + 1}
  BY <1>2
<1>4. ToSet(Append(q, e)) = ToSet(q) \cup {e}
  BY <1>1, <1>2, <1>3 DEF ToSet
<1>5. QED BY <1>1, <1>2, <1>4

\* Without its element at k a sequence holds what it held before and after k.
LEMMA RemovedAt ==
  ASSUME NEW S, NEW q \in Seq(S), NEW k \in DOMAIN q
  PROVE  /\ RemoveAt(q, k) \in Seq(S)
         /\ Len(q) \in Nat /\ k \in 1..Len(q) /\ Len(RemoveAt(q, k)) = Len(q) - 1
         /\ DOMAIN RemoveAt(q, k) = 1..(Len(q) - 1)
         /\ \A i \in 1..(Len(q) - 1) : RemoveAt(q, k)[i] = IF i < k THEN q[i] ELSE q[i + 1]
<1> DEFINE a == SubSeq(q, 1, k - 1)
           b == SubSeq(q, k + 1, Len(q))
<1>1. Len(q) \in Nat /\ k \in 1..Len(q) /\ \A i \in 1..Len(q) : q[i] \in S
  BY LenProperties
<1>2. /\ a \in Seq(S) /\ Len(a) = k - 1
      /\ \A i \in 1..(k - 1) : a[i] = q[i]
  <2>1. 1 \in Int /\ k - 1 \in Int /\ \A i \in 1..(k - 1) : q[i] \in S
    BY <1>1
  <2>2. /\ a \in Seq(S)
        /\ Len(a) = IF 1 <= k - 1 THEN k - 1 - 1 + 1 ELSE 0
        /\ \A i \in 1..(k - 1 - 1 + 1) : a[i] = q[1 + i - 1]
    BY <2>1, SubSeqProperties
  <2>3. QED BY <1>1, <2>2
<1>3. /\ b \in Seq(S) /\ Len(b) = Len(q) - k
      /\ \A i \in 1..(Len(q) - k) : b[i] = q[k + i]
  <2>1. k + 1 \in Int /\ Len(q) \in Int /\ \A i \in (k + 1)..Len(q) : q[i] \in S
    BY <1>1
  <2>2. /\ b \in Seq(S)
        /\ Len(b) = IF k + 1 <= Len(q) THEN Len(q) - (k + 1) + 1 ELSE 0
        /\ \A i \in 1..(Len(q) - (k + 1) + 1) : b[i] = q[(k + 1) + i - 1]
    BY <2>1, SubSeqProperties
  <2>3. QED BY <1>1, <2>2
<1>4. RemoveAt(q, k) = a \o b
  BY DEF RemoveAt
<1> HIDE DEF a, b
<1>5. /\ a \o b \in Seq(S) /\ Len(a \o b) = Len(a) + Len(b)
      /\ \A i \in 1..(Len(a) + Len(b)) : (a \o b)[i] = IF i <= Len(a) THEN a[i] ELSE b[i - Len(a)]
  BY <1>2, <1>3, ConcatProperties
<1>6. Len(a) + Len(b) = Len(q) - 1
  BY <1>1, <1>2, <1>3
<1>7. DOMAIN RemoveAt(q, k) = 1..(Len(q) - 1)
  BY <1>4, <1>5, <1>6, LenProperties
<1>8. ASSUME NEW i \in 1..(Len(q) - 1)
      PROVE  RemoveAt(q, k)[i] = IF i < k THEN q[i] ELSE q[i + 1]
  <2>1. CASE i < k
    <3>1. i \in 1..(k - 1) /\ i <= Len(a)
      BY <1>1, <1>2, <2>1
    <3>2. QED BY <1>2, <1>4, <1>5, <1>6, <2>1, <3>1
  <2>2. CASE ~(i < k)
    <3>1. i - (k - 1) \in 1..(Len(q) - k) /\ ~(i <= Len(a)) /\ k + (i - (k - 1)) = i + 1
      BY <1>1, <1>2, <2>2
    <3>2. (a \o b)[i] = b[i - (k - 1)]
      BY <1>2, <1>5, <1>6, <3>1
    <3>3. QED BY <1>3, <1>4, <2>2, <3>1, <3>2
  <2>3. QED BY <2>1, <2>2
<1>9. QED BY <1>1, <1>4, <1>5, <1>6, <1>7, <1>8

\* What a concatenation holds; it repeats nothing if the two do not and share nothing.
LEMMA Concatenated ==
  ASSUME NEW S, NEW s \in Seq(S), NEW t \in Seq(S)
  PROVE  /\ s \o t \in Seq(S) /\ ToSet(s \o t) = ToSet(s) \cup ToSet(t)
         /\ Len(s) \in Nat /\ Len(t) \in Nat /\ DOMAIN (s \o t) = 1..(Len(s) + Len(t))
         /\ \A i \in 1..Len(s) : (s \o t)[i] = s[i]
         /\ \A i \in 1..Len(t) : (s \o t)[Len(s) + i] = t[i]
         /\ IsInjective(s) /\ IsInjective(t) /\ ToSet(s) \cap ToSet(t) = {} => IsInjective(s \o t)
<1> DEFINE c == s \o t
<1>1. /\ c \in Seq(S) /\ Len(c) = Len(s) + Len(t)
      /\ \A i \in 1..(Len(s) + Len(t)) : c[i] = IF i <= Len(s) THEN s[i] ELSE t[i - Len(s)]
  BY ConcatProperties
<1>2. /\ Len(s) \in Nat /\ Len(t) \in Nat
      /\ DOMAIN s = 1..Len(s) /\ DOMAIN t = 1..Len(t) /\ DOMAIN c = 1..(Len(s) + Len(t))
  BY <1>1, LenProperties
<1> HIDE DEF c
<1>3. \A i \in 1..Len(s) : i \in DOMAIN c /\ c[i] = s[i]
  BY <1>1, <1>2
<1>4. \A i \in 1..Len(t) : Len(s) + i \in DOMAIN c /\ c[Len(s) + i] = t[i]
  <2>1. ASSUME NEW i \in 1..Len(t) PROVE Len(s) + i \in DOMAIN c /\ c[Len(s) + i] = t[i]
    <3>1. Len(s) + i \in 1..(Len(s) + Len(t)) /\ ~(Len(s) + i <= Len(s)) /\ (Len(s) + i) - Len(s) = i
      BY <1>2
    <3>2. QED BY <1>1, <1>2, <3>1
  <2>2. QED BY <2>1
<1>5. \A i \in DOMAIN c : \/ i \in 1..Len(s)
                          \/ i - Len(s) \in 1..Len(t) /\ Len(s) + (i - Len(s)) = i
  BY <1>2
<1>6. ToSet(c) = ToSet(s) \cup ToSet(t)
  <2>1. ASSUME NEW i \in DOMAIN c PROVE c[i] \in ToSet(s) \cup ToSet(t)
    <3>1. CASE i \in 1..Len(s)
      BY <1>2, <1>3, <3>1 DEF ToSet
    <3>2. CASE i - Len(s) \in 1..Len(t) /\ Len(s) + (i - Len(s)) = i
      <4>1. c[i] = t[i - Len(s)]
        BY <1>4, <3>2
      <4>2. QED BY <1>2, <3>2, <4>1 DEF ToSet
    <3>3. QED BY <1>5, <3>1, <3>2
  <2>2. ToSet(s) \subseteq ToSet(c)
    BY <1>2, <1>3 DEF ToSet
  <2>3. ToSet(t) \subseteq ToSet(c)
    BY <1>2, <1>4 DEF ToSet
  <2>4. QED BY <2>1, <2>2, <2>3 DEF ToSet
<1>7. ASSUME IsInjective(s), IsInjective(t), ToSet(s) \cap ToSet(t) = {} PROVE IsInjective(c)
  <2> SUFFICES ASSUME NEW i \in DOMAIN c, NEW j \in DOMAIN c, c[i] = c[j] PROVE i = j
    BY DEF IsInjective
  <2>1. CASE i \in 1..Len(s) /\ j \in 1..Len(s)
    BY <1>2, <1>3, <1>7, <2>1 DEF IsInjective
  <2>2. ASSUME NEW a \in 1..Len(s), NEW b \in 1..Len(t) PROVE c[a] # c[Len(s) + b]
    <3>1. s[a] \in ToSet(s) /\ t[b] \in ToSet(t)
      BY <1>2 DEF ToSet
    <3>2. QED BY <1>3, <1>4, <1>7, <3>1
  <2>3. CASE i - Len(s) \in 1..Len(t) /\ Len(s) + (i - Len(s)) = i
             /\ j - Len(s) \in 1..Len(t) /\ Len(s) + (j - Len(s)) = j
    <3>1. t[i - Len(s)] = t[j - Len(s)]
      BY <1>4, <2>3
    <3>2. i - Len(s) = j - Len(s)
      BY <1>2, <1>7, <2>3, <3>1 DEF IsInjective
    <3>3. QED BY <2>3, <3>2
  <2>4. QED BY <1>5, <2>1, <2>2, <2>3
<1>8. QED BY <1>1, <1>2, <1>3, <1>4, <1>6, <1>7 DEF c

\* The first element of a sequence and the others
LEMMA HeadAndTail ==
  ASSUME NEW S, NEW s \in Seq(S), s # <<>>
  PROVE  /\ Tail(s) \in Seq(S) /\ Head(s) = s[1] /\ Head(s) \in S /\ Len(s) \in Nat \ {0}
         /\ DOMAIN s = 1..Len(s) /\ Len(Tail(s)) = Len(s) - 1 /\ DOMAIN Tail(s) = 1..(Len(s) - 1)
         /\ \A i \in 1..(Len(s) - 1) : Tail(s)[i] = s[i + 1]
         /\ ToSet(s) = ToSet(Tail(s)) \cup {Head(s)}
<1>1. Tail(s) \in Seq(S) /\ Len(Tail(s)) = Len(s) - 1 /\ Len(s) \in Nat \ {0}
  BY HeadTailProperties, EmptySeq
<1>2. DOMAIN s = 1..Len(s) /\ DOMAIN Tail(s) = 1..(Len(s) - 1)
  BY <1>1, LenProperties
<1>3. Head(s) = s[1] /\ Head(s) \in S
  BY HeadTailProperties
<1>4. \A i \in 1..(Len(s) - 1) : Tail(s)[i] = s[i + 1]
  BY <1>1, HeadTailProperties
<1>5. ToSet(s) = ToSet(Tail(s)) \cup {Head(s)}
  <2>1. \A i \in 1..Len(s) : i = 1 \/ (i - 1 \in 1..(Len(s) - 1) /\ (i - 1) + 1 = i)
    BY <1>1
  <2>2. \A i \in 1..(Len(s) - 1) : i + 1 \in 1..Len(s)
    BY <1>1
  <2>3. 1 \in 1..Len(s)
    BY <1>1
  <2>4. \A i \in 1..Len(s) : s[i] \in ToSet(Tail(s)) \cup {Head(s)}
    <3>1. ASSUME NEW j \in 1..(Len(s) - 1) PROVE s[j + 1] \in ToSet(Tail(s))
      BY <1>2, <1>4 DEF ToSet
    <3>2. ASSUME NEW i \in 1..Len(s), i # 1 PROVE s[i] \in ToSet(Tail(s))
      BY <2>1, <3>1, <3>2
    <3>3. QED BY <1>3, <3>2
  <2>5. \A i \in 1..(Len(s) - 1) : Tail(s)[i] \in ToSet(s)
    BY <1>2, <1>4, <2>2 DEF ToSet
  <2>6. QED BY <1>2, <1>3, <2>3, <2>4, <2>5 DEF ToSet
<1>6. QED BY <1>1, <1>2, <1>3, <1>4, <1>5

\* Where a function leads from a when it is applied again and again
Orbit(step, a) ==
  CHOOSE f : f = [n \in Nat |-> f[n]] /\ f[0] = a /\ \A n \in Nat : f[n + 1] = step[f[n]]

\* A function on a set can be applied to one of its elements again and again.
LEMMA OrbitIs ==
  ASSUME NEW S, NEW step, NEW a \in S, \A x \in S : step[x] \in S
  PROVE  /\ Orbit(step, a) = [n \in Nat |-> Orbit(step, a)[n]] /\ Orbit(step, a)[0] = a
         /\ \A n \in Nat : Orbit(step, a)[n] \in S /\ Orbit(step, a)[n + 1] = step[Orbit(step, a)[n]]
<1> DEFINE P(g, n) == g[0] = a /\ \A i \in 0..(n - 1) : g[i + 1] = step[g[i]]
           G(n) == CHOOSE g \in [0..n -> S] : P(g, n)
           A == {n \in Nat : \E g \in [0..n -> S] : P(g, n)}
           f == [n \in Nat |-> G(n)[n]]
<1>1. 0 \in A
  <2> DEFINE g == [i \in 0..0 |-> a]
  <2>1. g \in [0..0 -> S] /\ P(g, 0)
    OBVIOUS
  <2>2. QED BY <2>1
<1>2. ASSUME NEW n \in Nat, n \in A PROVE n + 1 \in A
  <2>1. PICK g \in [0..n -> S] : P(g, n)
    BY <1>2
  <2> DEFINE e == [i \in 0..(n + 1) |-> IF i <= n THEN g[i] ELSE step[g[n]]]
  <2>2. e \in [0..(n + 1) -> S]
    <3>1. \A i \in 0..(n + 1) : i <= n => i \in 0..n
      OBVIOUS
    <3>2. n \in 0..n
      OBVIOUS
    <3>3. QED BY <3>1, <3>2
  <2>3. e[0] = a
    BY <2>1
  <2>4. ASSUME NEW i \in 0..((n + 1) - 1) PROVE e[i + 1] = step[e[i]]
    <3>1. i \in 0..n /\ i + 1 \in 0..(n + 1) /\ e[i] = g[i]
      OBVIOUS
    <3>2. CASE i = n
      BY <3>1, <3>2
    <3>3. CASE i # n
      <4>1. i \in 0..(n - 1) /\ i + 1 <= n
        BY <3>3
      <4>2. QED BY <2>1, <3>1, <4>1
    <3>4. QED BY <3>2, <3>3
  <2>5. P(e, n + 1)
    BY <2>3, <2>4
  <2> HIDE DEF e, P
  <2>6. QED BY <2>2, <2>5
<1>3. A \subseteq Nat
  OBVIOUS
<1>4. \A n \in Nat : n \in A
  <2> HIDE DEF A
  <2>1. Nat \subseteq A
    BY <1>1, <1>2, SetInduction
  <2>2. QED BY <2>1
<1>5. \A n \in Nat : G(n) \in [0..n -> S] /\ P(G(n), n)
  BY <1>4
<1> HIDE DEF G
<1>6. ASSUME NEW n \in Nat PROVE G(n)[n] = G(n + 1)[n]
  <2> DEFINE U == {i \in Nat : i <= n => G(n)[i] = G(n + 1)[i]}
  <2>1. P(G(n), n) /\ P(G(n + 1), n + 1)
    BY <1>5
  <2>2. 0 \in U
    BY <2>1
  <2>3. ASSUME NEW i \in Nat, i \in U PROVE i + 1 \in U
    <3>1. CASE i + 1 <= n
      <4>1. i \in 0..(n - 1) /\ i \in 0..((n + 1) - 1) /\ i <= n
        BY <3>1
      <4>2. G(n)[i + 1] = step[G(n)[i]] /\ G(n + 1)[i + 1] = step[G(n + 1)[i]]
        BY <2>1, <4>1
      <4>3. QED BY <2>3, <4>1, <4>2
    <3>2. QED BY <3>1
  <2>4. U \subseteq Nat /\ (n \in U => G(n)[n] = G(n + 1)[n])
    OBVIOUS
  <2> HIDE DEF U
  <2>5. Nat \subseteq U
    BY <2>2, <2>3, SetInduction
  <2>6. QED BY <2>4, <2>5
<1>7. f \in [Nat -> S]
  <2>1. \A n \in Nat : n \in 0..n
    OBVIOUS
  <2>2. QED BY <1>5, <2>1
<1>8. f[0] = a
  BY <1>5
<1>9. ASSUME NEW n \in Nat PROVE f[n + 1] = step[f[n]]
  <2>1. P(G(n + 1), n + 1) /\ n \in 0..((n + 1) - 1) /\ n + 1 \in Nat
    BY <1>5
  <2>2. G(n + 1)[n + 1] = step[G(n + 1)[n]]
    BY <2>1
  <2>3. QED BY <1>6, <2>1, <2>2
<1>10. \E g : g = [n \in Nat |-> g[n]] /\ g[0] = a /\ \A n \in Nat : g[n + 1] = step[g[n]]
  <2> HIDE DEF f
  <2>1. f = [n \in Nat |-> f[n]]
    BY <1>7
  <2>2. QED BY <1>8, <1>9, <2>1
<1> HIDE DEF f
<1> DEFINE o == Orbit(step, a)
<1>11. o = [n \in Nat |-> o[n]] /\ o[0] = a /\ \A n \in Nat : o[n + 1] = step[o[n]]
  BY <1>10 DEF Orbit
<1> HIDE DEF o
<1> DEFINE V == {n \in Nat : o[n] \in S}
<1>12. 0 \in V /\ \A n \in Nat : n \in V => n + 1 \in V
  BY <1>11
<1>13. \A n \in V : o[n] \in S
  OBVIOUS
<1> HIDE DEF V
<1>14. Nat \subseteq V
  BY <1>12, SetInduction
<1>15. QED BY <1>11, <1>13, <1>14 DEF o

\* Without one of its elements a sequence that repeats nothing holds the others.
LEMMA RemovedFrom ==
  ASSUME NEW S, NEW q \in Seq(S), IsInjective(q), NEW k \in DOMAIN q
  PROVE  /\ RemoveAt(q, k) \in Seq(S) /\ IsInjective(RemoveAt(q, k))
         /\ ToSet(RemoveAt(q, k)) = ToSet(q) \ {q[k]}
<1> DEFINE p == RemoveAt(q, k)
<1>1. /\ p \in Seq(S) /\ Len(q) \in Nat /\ k \in 1..Len(q) /\ DOMAIN p = 1..(Len(q) - 1)
      /\ \A i \in 1..(Len(q) - 1) : p[i] = IF i < k THEN q[i] ELSE q[i + 1]
  BY RemovedAt
<1>2. DOMAIN q = 1..Len(q)
  BY LenProperties
<1> HIDE DEF p
<1>3. \A i, j \in 1..Len(q) : q[i] = q[j] => i = j
  BY <1>2 DEF IsInjective
<1>4. IsInjective(p)
  <2> SUFFICES ASSUME NEW i \in 1..(Len(q) - 1), NEW j \in 1..(Len(q) - 1), p[i] = p[j] PROVE i = j
    BY <1>1 DEF IsInjective
  <2>1. /\ i \in 1..Len(q) /\ i + 1 \in 1..Len(q) /\ j \in 1..Len(q) /\ j + 1 \in 1..Len(q)
    BY <1>1
  <2>2. (p[i] = q[i] /\ i < k) \/ (p[i] = q[i + 1] /\ i >= k)
    BY <1>1
  <2>3. (p[j] = q[j] /\ j < k) \/ (p[j] = q[j + 1] /\ j >= k)
    BY <1>1
  <2>4. i = j \/ (i = j + 1 /\ i < k /\ j >= k) \/ (i + 1 = j /\ i >= k /\ j < k) \/ i + 1 = j + 1
    BY <1>3, <2>1, <2>2, <2>3
  <2>5. QED BY <2>1, <2>4
<1>5. ASSUME NEW i \in DOMAIN p PROVE p[i] \in ToSet(q) \ {q[k]}
  <2>1. i \in 1..(Len(q) - 1) /\ i \in 1..Len(q) /\ i + 1 \in 1..Len(q) /\ (i < k => i # k) /\ (~(i < k) => i + 1 # k)
    BY <1>1
  <2>2. QED BY <1>1, <1>2, <1>3, <2>1 DEF ToSet
<1>6. ASSUME NEW i \in DOMAIN q, i # k PROVE q[i] \in ToSet(p)
  <2>1. CASE i < k
    <3>1. i \in 1..(Len(q) - 1)
      BY <1>1, <1>2, <2>1
    <3>2. p[i] = q[i]
      BY <1>1, <2>1, <3>1
    <3>3. QED BY <1>1, <3>1, <3>2 DEF ToSet
  <2>2. CASE ~(i < k)
    <3>1. i - 1 \in 1..(Len(q) - 1) /\ ~(i - 1 < k) /\ (i - 1) + 1 = i
      BY <1>1, <1>2, <1>6, <2>2
    <3>2. p[i - 1] = q[i]
      BY <1>1, <3>1
    <3>3. QED BY <1>1, <3>1, <3>2 DEF ToSet
  <2>3. QED BY <2>1, <2>2
<1>7. ToSet(p) = ToSet(q) \ {q[k]}
  BY <1>5, <1>6 DEF ToSet
<1>8. QED BY <1>1, <1>4, <1>7 DEF p

\* A sequence without repetitions is as long as it has elements.
LEMMA EachOnce ==
  ASSUME NEW S, NEW q \in Seq(S), IsInjective(q)
  PROVE  Len(q) = Cardinality(ToSet(q))
<1>1. Len(q) \in Nat /\ DOMAIN q = 1..Len(q) /\ q = [i \in 1..Len(q) |-> q[i]]
  OBVIOUS
<1> DEFINE n == Len(q)
           T == ToSet(q)
<1>2. T = {q[i] : i \in 1..n}
  BY <1>1 DEF ToSet
<1> HIDE DEF n, T
<1>3. q \in [1..n -> T]
  BY <1>1, <1>2 DEF n
<1>4. \A t \in T : \E i \in 1..n : q[i] = t
  BY <1>2
<1>5. q \in Bijection(1..n, T)
  BY <1>3, <1>4 DEF Bijection, Injection, Surjection
<1>6. ExistsBijection(1..n, T)
  BY <1>5 DEF ExistsBijection
<1>7. QED BY <1>1, <1>6, FS_CountingElements DEF n, T
=============================================================================
