---------------------------- MODULE StorageProofs ----------------------------
(***************************************************************************)
(* Proofs about Memory and Storage: the pool a program allocates from stays *)
(* a kept list of blocks with sound books, every block has one owner, no   *)
(* call aborts without a cause, and the variables kept in the pool are the *)
(* map of Store.  The chain of a list comes first, then the pool, then the *)
(* list of the variables and the array of the tables, and at last the      *)
(* steps of the specification.                                             *)
(***************************************************************************)
EXTENDS Storage, Layout, Lemmas

(* The links of a list *)

\* struct list: the pointers of every node
LinksType == [prev : [Slots -> Slots \cup {NIL}], next : [Slots -> Slots \cup {NIL}]]

\* c holds, in their order, the nodes of a list of h.
IsChain(h, c) ==
  /\ h \in LinksType
  /\ c \in Seq(Slots)
  /\ \A i, j \in 1..Len(c) : c[i] = c[j] => i = j
  /\ \A i \in 1..Len(c) : h.next[c[i]] = IF i = Len(c) THEN NIL ELSE c[i + 1]
  /\ \A i \in 1..Len(c) : h.prev[c[i]] = IF i = 1 THEN NIL ELSE c[i - 1]

\* The nodes a walk through f meets, Members for a walk from the first node.
MetBy(f, p) ==
  LET at == Chase(f, p)
  IN {at[i] : i \in DOMAIN at} \ {NIL}

\* A function on 1..m is a sequence of length m.
LEMMA FunctionIsSequence ==
  ASSUME NEW S, NEW m \in Nat, NEW d \in [1..m -> S]
  PROVE  d \in Seq(S) /\ Len(d) = m
<1>1. d \in Seq(S)
  <2>1. \E n \in Nat : d \in [1..n -> S]
    OBVIOUS
  <2>2. d \in UNION {[1..n -> S] : n \in Nat}
    BY ONLY <2>1
  <2>3. QED BY ONLY <2>2, SeqDef
<1>2. 1..Len(d) = 1..m /\ Len(d) \in Nat
  BY <1>1, LenProperties
<1>3. (Len(d) > m => Len(d) \in 1..Len(d)) /\ (m > Len(d) => m \in 1..m)
  BY <1>2
<1>4. QED
  <2>1. ~(Len(d) > m)
    BY <1>2, <1>3
  <2>2. ~(m > Len(d))
    BY <1>2, <1>3
  <2>3. QED BY <1>1, <1>2, <2>1, <2>2

\* A chain is no longer than there are nodes.
LEMMA ChainLength ==
  ASSUME NEW c \in Seq(Slots), \A i, j \in 1..Len(c) : c[i] = c[j] => i = j
  PROVE  Len(c) \in Nat /\ Cardinality(Slots) \in Nat /\ Len(c) <= Cardinality(Slots)
<1>1. Len(c) \in Nat /\ c \in [1..Len(c) -> Slots]
  BY LenProperties
<1>2. c \in Injection(1..Len(c), Slots)
  BY <1>1 DEF Injection, IsInjective
<1>3. IsFiniteSet(Slots) /\ Cardinality(Slots) \in Nat
  BY SlotsAssumption, FS_CardinalityType
<1>4. Cardinality(1..Len(c)) <= Cardinality(Slots)
  BY <1>2, <1>3, FS_Injection
<1>5. Cardinality(1..Len(c)) = Len(c)
  <2>1. Cardinality(1..Len(c)) = IF 1 > Len(c) THEN 0 ELSE Len(c) - 1 + 1
    BY <1>1, FS_Interval
  <2>2. QED BY <1>1, <2>1
<1>6. QED BY <1>1, <1>3, <1>4, <1>5

\* A walk through f that follows d: it is at d[i] until d ends, and NIL from there on.
LEMMA Chased ==
  ASSUME NEW f, NEW d \in Seq(Slots), Len(d) >= 1,
         \A i \in 1..Len(d) : f[d[i]] = IF i = Len(d) THEN NIL ELSE d[i + 1]
  PROVE  Chase(f, d[1]) = [i \in 0..Cardinality(Slots) |-> IF i < Len(d) THEN d[i + 1] ELSE NIL]
<1> DEFINE N == Cardinality(Slots)
           walk == [i \in 0..N |-> IF i < Len(d) THEN d[i + 1] ELSE NIL]
           step(g) == [i \in 0..N |-> IF i = 0 THEN d[1] ELSE IF g[i - 1] = NIL THEN NIL ELSE f[g[i - 1]]]
<1>1. N \in Nat /\ Len(d) \in Nat /\ \A i \in 1..Len(d) : d[i] \in Slots /\ d[i] # NIL
  BY SlotsAssumption, FS_CardinalityType, LenProperties
<1>2. Chase(f, d[1]) = CHOOSE g : g = step(g)
  BY DEF Chase
<1>3. walk = step(walk)
  <2> SUFFICES ASSUME NEW i \in 0..N
               PROVE  walk[i] = (IF i = 0 THEN d[1] ELSE IF walk[i - 1] = NIL THEN NIL ELSE f[walk[i - 1]])
    OBVIOUS
  <2>1. CASE i = 0
    BY <1>1, <2>1
  <2>2. CASE i # 0 /\ i - 1 < Len(d)
    <3>1. i - 1 \in 0..N /\ i \in 1..Len(d) /\ walk[i - 1] = d[i]
      BY <1>1, <2>2
    <3>2. f[d[i]] = walk[i]
      BY <1>1, <3>1
    <3>3. QED BY <1>1, <2>2, <3>1, <3>2
  <2>3. CASE i # 0 /\ ~(i - 1 < Len(d))
    <3>1. i - 1 \in 0..N /\ ~(i < Len(d)) /\ walk[i - 1] = NIL
      BY <1>1, <2>3
    <3>2. QED BY <2>3, <3>1
  <2>4. QED BY <2>1, <2>2, <2>3
<1>4. ASSUME NEW g, g = step(g) PROVE g = walk
  <2> DEFINE S == {i \in Nat : i \in 0..N => g[i] = walk[i]}
  <2> HIDE DEF walk
  <2>1. \A i \in 0..N : g[i] = (IF i = 0 THEN d[1] ELSE IF g[i - 1] = NIL THEN NIL ELSE f[g[i - 1]])
    BY <1>4
  <2>2. \A i \in 0..N : walk[i] = (IF i = 0 THEN d[1] ELSE IF walk[i - 1] = NIL THEN NIL ELSE f[walk[i - 1]])
    BY <1>3
  <2>3. 0 \in S
    BY <1>1, <2>1, <2>2
  <2>4. ASSUME NEW i \in Nat, i \in S PROVE i + 1 \in S
    <3>1. SUFFICES ASSUME i + 1 \in 0..N PROVE g[i + 1] = walk[i + 1]
      OBVIOUS
    <3>2. i \in 0..N /\ (i + 1) - 1 = i /\ i + 1 # 0
      BY <1>1, <3>1
    <3>3. g[i] = walk[i]
      BY <2>4, <3>2
    <3>4. QED BY <2>1, <2>2, <3>1, <3>2, <3>3
  <2>5. Nat \subseteq S
    <3> HIDE DEF S
    <3> QED BY <2>3, <2>4, SetInduction
  <2>6. \A i \in 0..N : g[i] = walk[i]
    BY <2>5
  <2>7. g = [i \in 0..N |-> g[i]]
    BY <1>4
  <2>8. walk = [i \in 0..N |-> walk[i]]
    BY DEF walk
  <2>9. QED BY <2>6, <2>7, <2>8
<1>5. QED
  <2> HIDE DEF step, walk
  <2>1. (CHOOSE g : g = step(g)) = step(CHOOSE g : g = step(g))
    BY <1>3
  <2>2. (CHOOSE g : g = step(g)) = walk
    BY <1>4, <2>1
  <2>3. QED BY <1>2, <2>2 DEF walk

\* Such a walk ends at the last node of d and meets no other node.
LEMMA WalkEnds ==
  ASSUME NEW f, NEW d \in Seq(Slots), Len(d) >= 1, Len(d) <= Cardinality(Slots),
         \A i \in 1..Len(d) : f[d[i]] = IF i = Len(d) THEN NIL ELSE d[i + 1]
  PROVE  /\ EndOf(f, d[1]) = d[Len(d)]
         /\ MetBy(f, d[1]) = {d[i] : i \in 1..Len(d)}
<1> DEFINE N == Cardinality(Slots)
           at == Chase(f, d[1])
<1>1. N \in Nat /\ Len(d) \in Nat /\ \A i \in 1..Len(d) : d[i] \in Slots /\ d[i] # NIL
  BY SlotsAssumption, FS_CardinalityType, LenProperties
<1>2. at = [i \in 0..N |-> IF i < Len(d) THEN d[i + 1] ELSE NIL]
  BY Chased
<1> HIDE DEF at
<1>3. {at[i] : i \in DOMAIN at} \ {NIL} = {d[i] : i \in 1..Len(d)}
  <2>1. DOMAIN at = 0..N
    BY <1>2
  <2>2. ASSUME NEW i \in 0..N, at[i] # NIL PROVE at[i] \in {d[j] : j \in 1..Len(d)}
    <3>1. i < Len(d) /\ at[i] = d[i + 1] /\ i + 1 \in 1..Len(d)
      BY <1>1, <1>2, <2>2
    <3>2. QED BY <3>1
  <2>3. ASSUME NEW j \in 1..Len(d) PROVE d[j] \in {at[i] : i \in 0..N} /\ d[j] # NIL
    <3>1. j - 1 \in 0..N /\ (j - 1) + 1 = j /\ j - 1 < Len(d)
      BY <1>1
    <3>2. at[j - 1] = d[j]
      BY <1>2, <3>1
    <3>3. QED BY <1>1, <3>1, <3>2
  <2>4. {at[i] : i \in DOMAIN at} \ {NIL} \subseteq {d[i] : i \in 1..Len(d)}
    BY <2>1, <2>2
  <2>5. {d[i] : i \in 1..Len(d)} \subseteq {at[i] : i \in DOMAIN at} \ {NIL}
    BY <2>1, <2>3
  <2>6. QED BY <2>4, <2>5
<1>4. {n \in {at[i] : i \in DOMAIN at} \ {NIL} : f[n] = NIL} = {d[Len(d)]}
  <2>1. \A i \in 1..Len(d) : f[d[i]] = NIL <=> i = Len(d)
    <3>1. \A i \in 1..Len(d) : i # Len(d) => i + 1 \in 1..Len(d)
      BY <1>1
    <3>2. QED BY <1>1, <3>1
  <2>2. Len(d) \in 1..Len(d)
    BY <1>1
  <2>3. QED BY <1>3, <2>1, <2>2, ZenonT(60)
<1>5. d[1] # NIL
  BY <1>1
<1>6. EndOf(f, d[1]) = d[Len(d)]
  BY <1>4, <1>5 DEF EndOf, at
<1>7. QED BY <1>3, <1>6 DEF at, MetBy

\* From every node of a chain the ends of the chain are found, and all its nodes.
LEMMA ChainWalked ==
  ASSUME NEW h, NEW c, IsChain(h, c), NEW k \in 1..Len(c)
  PROVE  /\ Len(c) \in Nat /\ Len(c) >= 1 /\ c[1] \in Slots /\ c[1] # NIL
         /\ LastOf(h, c[k]) = c[Len(c)]
         /\ FirstOf(h, c[k]) = c[1]
         /\ Members(h, c[k]) = {c[i] : i \in 1..Len(c)}
<1>1. /\ Len(c) \in Nat /\ Len(c) <= Cardinality(Slots) /\ Len(c) >= 1 /\ 1 \in 1..Len(c)
      /\ \A i \in 1..Len(c) : c[i] \in Slots /\ c[i] # NIL
  BY ChainLength, SlotsAssumption, LenProperties DEF IsChain
<1>2. LastOf(h, c[k]) = c[Len(c)]
  <2> DEFINE m == Len(c) - k + 1
             d == [i \in 1..m |-> c[k + i - 1]]
  <2>1. m \in Nat /\ m >= 1 /\ m <= Len(c) /\ \A i \in 1..m : k + i - 1 \in 1..Len(c)
    BY <1>1
  <2>2. d \in Seq(Slots) /\ Len(d) = m
    <3>1. \A i \in 1..m : c[k + i - 1] \in Slots
      BY <1>1, <2>1
    <3>2. d \in [1..m -> Slots]
      BY <3>1
    <3> HIDE DEF d, m
    <3>3. QED BY <2>1, <3>2, FunctionIsSequence
  <2>3. ASSUME NEW i \in 1..m PROVE h.next[d[i]] = IF i = m THEN NIL ELSE d[i + 1]
    <3>1. k + i - 1 \in 1..Len(c) /\ (k + i - 1 = Len(c) <=> i = m) /\ k + i - 1 + 1 = k + (i + 1) - 1
      BY <1>1
    <3>2. i # m => i + 1 \in 1..m
      BY <2>1
    <3>3. h.next[c[k + i - 1]] = IF k + i - 1 = Len(c) THEN NIL ELSE c[k + i - 1 + 1]
      BY <3>1 DEF IsChain
    <3>4. d[i] = c[k + i - 1] /\ (i # m => d[i + 1] = c[k + (i + 1) - 1])
      BY <3>2
    <3> HIDE DEF m, d
    <3>5. QED BY <3>1, <3>3, <3>4
  <2>4. d[1] = c[k] /\ d[m] = c[Len(c)]
    <3>1. k + 1 - 1 = k /\ k + m - 1 = Len(c) /\ 1 \in 1..m /\ m \in 1..m
      BY <1>1
    <3>2. d[1] = c[k + 1 - 1] /\ d[m] = c[k + m - 1]
      BY <3>1
    <3>3. QED BY <3>1, <3>2
  <2> HIDE DEF d, m
  <2>5. Len(d) >= 1 /\ Len(d) <= Cardinality(Slots)
    <3>1. Cardinality(Slots) \in Nat
      BY SlotsAssumption, FS_CardinalityType
    <3>2. QED BY <1>1, <2>1, <2>2, <3>1
  <2>6. EndOf(h.next, d[1]) = d[Len(d)]
    BY <2>2, <2>3, <2>5, WalkEnds
  <2>7. QED BY <2>2, <2>4, <2>6 DEF LastOf
<1>3. FirstOf(h, c[k]) = c[1]
  <2> DEFINE d == [i \in 1..k |-> c[k + 1 - i]]
  <2>1. k \in Nat /\ k >= 1 /\ k <= Len(c) /\ \A i \in 1..k : k + 1 - i \in 1..Len(c)
    BY <1>1
  <2>2. d \in Seq(Slots) /\ Len(d) = k
    <3>1. \A i \in 1..k : c[k + 1 - i] \in Slots
      BY <1>1, <2>1
    <3>2. d \in [1..k -> Slots]
      BY <3>1
    <3> HIDE DEF d
    <3>3. QED BY <2>1, <3>2, FunctionIsSequence
  <2>3. ASSUME NEW i \in 1..k PROVE h.prev[d[i]] = IF i = k THEN NIL ELSE d[i + 1]
    <3>1. k + 1 - i \in 1..Len(c) /\ (k + 1 - i = 1 <=> i = k) /\ k + 1 - i - 1 = k + 1 - (i + 1)
      BY <1>1
    <3>2. i # k => i + 1 \in 1..k
      BY <2>1
    <3>3. h.prev[c[k + 1 - i]] = IF k + 1 - i = 1 THEN NIL ELSE c[k + 1 - i - 1]
      BY <3>1 DEF IsChain
    <3>4. d[i] = c[k + 1 - i] /\ (i # k => d[i + 1] = c[k + 1 - (i + 1)])
      BY <3>2
    <3> HIDE DEF d
    <3>5. QED BY <3>1, <3>3, <3>4
  <2>4. d[1] = c[k] /\ d[k] = c[1]
    <3>1. k + 1 - 1 = k /\ k + 1 - k = 1 /\ 1 \in 1..k /\ k \in 1..k
      BY <2>1
    <3>2. d[1] = c[k + 1 - 1] /\ d[k] = c[k + 1 - k]
      BY <3>1
    <3>3. QED BY <3>1, <3>2
  <2> HIDE DEF d
  <2>5. Len(d) >= 1 /\ Len(d) <= Cardinality(Slots)
    <3>1. Cardinality(Slots) \in Nat
      BY SlotsAssumption, FS_CardinalityType
    <3>2. QED BY <1>1, <2>1, <2>2, <3>1
  <2>6. EndOf(h.prev, d[1]) = d[Len(d)]
    BY <2>2, <2>3, <2>5, WalkEnds
  <2>7. QED BY <2>2, <2>4, <2>6 DEF FirstOf
<1>4. Members(h, c[k]) = {c[i] : i \in 1..Len(c)}
  <2>1. MetBy(h.next, c[1]) = {c[i] : i \in 1..Len(c)}
    <3>1. c \in Seq(Slots) /\ \A i \in 1..Len(c) : h.next[c[i]] = IF i = Len(c) THEN NIL ELSE c[i + 1]
      BY DEF IsChain
    <3>2. QED BY <1>1, <3>1, WalkEnds
  <2>2. c[k] # NIL
    BY <1>1
  <2>3. QED BY <1>3, <2>1, <2>2 DEF Members, MetBy
<1>5. QED BY <1>1, <1>2, <1>3, <1>4

\* The first node of a chain, as a list** holds it.
HeadOf(c) == IF Len(c) = 0 THEN NIL ELSE c[1]

\* Links changed, of two nodes that become neighbours, of one, and of one cut off.
Behind(h, a) == [h EXCEPT !.next[a] = NIL]
Off(h, x) == [h EXCEPT !.prev[x] = NIL, !.next[x] = NIL]

\* list_link changes the next of its first node and the prev of its second.
LEMMA BothLinked ==
  ASSUME NEW h, h \in LinksType, NEW a \in Slots, NEW b \in Slots
  PROVE  /\ Link(h, a, b) \in LinksType
         /\ \A s \in Slots : Link(h, a, b).next[s] = IF s = a THEN b ELSE h.next[s]
         /\ \A s \in Slots : Link(h, a, b).prev[s] = IF s = b THEN a ELSE h.prev[s]
<1>1. h = [prev |-> h.prev, next |-> h.next]
  BY DEF LinksType
<1>2. ASSUME NEW g, g = Link(h, a, b)
      PROVE  g = [prev |-> [h.prev EXCEPT ![b] = a], next |-> [h.next EXCEPT ![a] = b]]
  BY <1>1, <1>2 DEF Link
<1>4. Link(h, a, b) = [prev |-> [h.prev EXCEPT ![b] = a], next |-> [h.next EXCEPT ![a] = b]]
  BY <1>2
<1>5. h.prev \in [Slots -> Slots \cup {NIL}] /\ h.next \in [Slots -> Slots \cup {NIL}]
  BY DEF LinksType
<1>6. QED BY <1>4, <1>5 DEF LinksType

\* The last node of a list is told that none follows it.
LEMMA CutBehind ==
  ASSUME NEW h, h \in LinksType, NEW a \in Slots
  PROVE  /\ Behind(h, a) \in LinksType /\ Behind(h, a).prev = h.prev
         /\ \A s \in Slots : Behind(h, a).next[s] = IF s = a THEN NIL ELSE h.next[s]
<1>1. h = [prev |-> h.prev, next |-> h.next]
  BY DEF LinksType
<1>2. Behind(h, a) = [prev |-> h.prev, next |-> [h.next EXCEPT ![a] = NIL]]
  BY <1>1 DEF Behind
<1>3. h.prev \in [Slots -> Slots \cup {NIL}] /\ h.next \in [Slots -> Slots \cup {NIL}]
  BY DEF LinksType
<1>4. QED BY <1>2, <1>3 DEF LinksType

\* A node that is taken out points nowhere, and no other node changes.
LEMMA CutOff ==
  ASSUME NEW h, h \in LinksType, NEW x \in Slots
  PROVE  /\ Off(h, x) \in LinksType
         /\ \A s \in Slots : Off(h, x).next[s] = IF s = x THEN NIL ELSE h.next[s]
         /\ \A s \in Slots : Off(h, x).prev[s] = IF s = x THEN NIL ELSE h.prev[s]
<1>1. h = [prev |-> h.prev, next |-> h.next]
  BY DEF LinksType
<1>2. ASSUME NEW g, g = Off(h, x)
      PROVE  g = [prev |-> [h.prev EXCEPT ![x] = NIL], next |-> [h.next EXCEPT ![x] = NIL]]
  BY <1>1, <1>2 DEF Off
<1>4. Off(h, x) = [prev |-> [h.prev EXCEPT ![x] = NIL], next |-> [h.next EXCEPT ![x] = NIL]]
  BY <1>2
<1>5. h.prev \in [Slots -> Slots \cup {NIL}] /\ h.next \in [Slots -> Slots \cup {NIL}]
  BY DEF LinksType
<1>6. QED BY <1>4, <1>5 DEF LinksType

\* list_obj_add of a node that is in no list puts it behind the last one.
LEMMA ChainAdded ==
  ASSUME NEW h, NEW c, IsChain(h, c), NEW b \in Slots, \A i \in 1..Len(c) : c[i] # b,
         h.prev[b] = NIL, h.next[b] = NIL,
         NEW g, g = ObjAdd(h, HeadOf(c), b)
  PROVE  /\ IsChain(g, Append(c, b)) /\ g.next[b] = NIL
         /\ ObjAddTo(HeadOf(c), b) = HeadOf(Append(c, b))
         /\ \A s \in Slots \ {b, g.prev[b]} : g.prev[s] = h.prev[s] /\ g.next[s] = h.next[s]
<1> DEFINE n == Len(c)
           d == Append(c, b)
<1>1. /\ n \in Nat /\ \A i \in 1..n : c[i] \in Slots /\ c[i] # NIL
      /\ h \in LinksType
      /\ c \in Seq(Slots)
      /\ \A i \in 1..n : c[i] # b
      /\ b # NIL
  BY SlotsAssumption, LenProperties DEF IsChain
<1>2. /\ d \in Seq(Slots) /\ Len(d) = n + 1
      /\ \A i \in 1..n : d[i] = c[i]
      /\ d[n + 1] = b
  BY <1>1, Appended
<1> HIDE DEF d
<1>3. \A i, j \in 1..Len(d) : d[i] = d[j] => i = j
  <2>1. \A i \in 1..Len(d) : i \in 1..n \/ i = n + 1
    BY <1>1, <1>2
  <2>2. \A i, j \in 1..n : c[i] = c[j] => i = j
    BY DEF IsChain
  <2>3. QED BY <1>1, <1>2, <2>1, <2>2
<1>4. CASE n = 0
  <2>1. HeadOf(c) = NIL /\ g = h
    BY <1>4 DEF HeadOf, ObjAdd
  <2>2. HeadOf(d) = b /\ ObjAddTo(HeadOf(c), b) = b
    BY <1>2, <1>4, <2>1 DEF HeadOf, ObjAddTo
  <2>3. 1..Len(d) = {1} /\ d[1] = b /\ Len(d) = 1
    BY <1>2, <1>4
  <2>4. IsChain(g, d)
    BY <1>1, <1>2, <1>3, <2>1, <2>3 DEF IsChain
  <2>5. QED BY <2>1, <2>2, <2>4 DEF d
<1>5. CASE n # 0
  <2>1. 1 \in 1..n /\ n \in 1..n /\ HeadOf(c) = c[1] /\ HeadOf(c) # NIL
    BY <1>1, <1>5 DEF HeadOf
  <2>2. LastOf(h, c[1]) = c[n]
    BY <2>1, ChainWalked
  <2>3. h.next[c[n]] = NIL
    BY <2>1 DEF IsChain
  <2>4. g = Link(h, c[n], b)
    BY <1>1, <2>1, <2>2, <2>3 DEF ObjAdd, AddTo
  <2>5. /\ g \in LinksType
        /\ \A s \in Slots : g.next[s] = IF s = c[n] THEN b ELSE h.next[s]
        /\ \A s \in Slots : g.prev[s] = IF s = b THEN c[n] ELSE h.prev[s]
    <3>1. c[n] \in Slots /\ h \in LinksType
      BY <1>1, <2>1
    <3>2. /\ Link(h, c[n], b) \in LinksType
          /\ \A s \in Slots : Link(h, c[n], b).next[s] = IF s = c[n] THEN b ELSE h.next[s]
          /\ \A s \in Slots : Link(h, c[n], b).prev[s] = IF s = b THEN c[n] ELSE h.prev[s]
      BY <3>1, BothLinked, SMTT(60)
    <3>3. QED BY <2>4, <3>2
  <2>6. /\ \A s \in Slots : g.next[s] = IF s = c[n] THEN b ELSE h.next[s]
        /\ \A s \in Slots : g.prev[s] = IF s = b THEN c[n] ELSE h.prev[s]
    BY <2>5
  <2>7. ASSUME NEW i \in 1..Len(d) PROVE g.next[d[i]] = IF i = Len(d) THEN NIL ELSE d[i + 1]
    <3>1. CASE i = n + 1
      BY <1>1, <1>2, <2>1, <2>6, <3>1
    <3>2. CASE i = n
      <4>1. i # Len(d) /\ i + 1 = n + 1 /\ d[i] = c[n]
        BY <1>1, <1>2, <2>1, <3>2
      <4>2. QED BY <1>1, <1>2, <2>1, <2>6, <4>1
    <3>3. CASE i \in 1..n /\ i # n
      <4>1. i + 1 \in 1..n /\ n \in 1..n /\ i # Len(d)
        BY <1>1, <1>2, <3>3
      <4>2. c[i] # c[n] /\ h.next[c[i]] = c[i + 1]
        BY <3>3, <4>1 DEF IsChain
      <4>3. QED BY <1>1, <1>2, <2>6, <3>3, <4>1, <4>2
    <3>4. i = n + 1 \/ i = n \/ (i \in 1..n /\ i # n)
      BY <1>1, <1>2
    <3>5. QED BY <3>1, <3>2, <3>3, <3>4
  <2>8. ASSUME NEW i \in 1..Len(d) PROVE g.prev[d[i]] = IF i = 1 THEN NIL ELSE d[i - 1]
    <3>1. CASE i = n + 1
      <4>1. i - 1 = n /\ i # 1 /\ d[i] = b
        BY <1>1, <1>2, <1>5, <3>1
      <4>2. QED BY <1>2, <2>1, <2>6, <4>1
    <3>2. CASE i \in 1..n
      <4>1. c[i] # b /\ h.prev[c[i]] = (IF i = 1 THEN NIL ELSE c[i - 1]) /\ d[i] = c[i]
        BY <1>1, <1>2, <3>2 DEF IsChain
      <4>2. i # 1 => i - 1 \in 1..n
        BY <1>1, <3>2
      <4>3. QED BY <1>1, <1>2, <2>6, <3>2, <4>1, <4>2
    <3>3. i = n + 1 \/ i \in 1..n
      BY <1>1, <1>2
    <3>4. QED BY <3>1, <3>2, <3>3
  <2>9. IsChain(g, d)
    BY <1>2, <1>3, <2>5, <2>7, <2>8 DEF IsChain
  <2>10. g.next[b] = NIL /\ g.prev[b] = c[n]
    BY <1>1, <2>1, <2>6
  <2>11. ObjAddTo(HeadOf(c), b) = HeadOf(d)
    <3>1. HeadOf(d) = d[1] /\ d[1] = c[1]
      BY <1>1, <1>2, <2>1 DEF HeadOf
    <3>2. QED BY <2>1, <3>1 DEF ObjAddTo
  <2>12. QED BY <2>6, <2>9, <2>10, <2>11 DEF d
<1>6. QED BY <1>4, <1>5

\* list_obj_strip of a node that is not the first one closes the list behind it.
LEMMA ChainRemoved ==
  ASSUME NEW h, NEW c, IsChain(h, c), NEW k \in 1..Len(c), k # 1,
         NEW g, g = ObjStrip(h, HeadOf(c), c[k])
  PROVE  /\ IsChain(g, RemoveAt(c, k)) /\ g.prev[c[k]] = NIL /\ g.next[c[k]] = NIL
         /\ ObjStripTo(h, HeadOf(c), c[k]) = HeadOf(RemoveAt(c, k))
         /\ \A s \in Slots \ {c[k], h.prev[c[k]], h.next[c[k]]} :
              g.prev[s] = h.prev[s] /\ g.next[s] = h.next[s]
<1> DEFINE n == Len(c)
           d == RemoveAt(c, k)
           x == c[k]
           p == h.prev[x]
           q == h.next[x]
<1>1. /\ n \in Nat /\ \A i \in 1..n : c[i] \in Slots /\ c[i] # NIL
      /\ h \in LinksType
      /\ c \in Seq(Slots) /\ DOMAIN c = 1..n
      /\ \A i, j \in 1..n : c[i] = c[j] => i = j
      /\ NIL \notin Slots
  BY SlotsAssumption, LenProperties DEF IsChain
<1>0. n \in Nat /\ k \in Nat /\ 1 < k /\ k <= n /\ k \in 1..n
  BY <1>1
<1> HIDE DEF n
<1>2. 1 \in 1..n /\ k - 1 \in 1..n /\ k \in 2..n /\ (k # n => k + 1 \in 1..n)
  BY <1>0
<1>3. /\ d \in Seq(Slots) /\ Len(d) = n - 1
      /\ \A i \in 1..(n - 1) : d[i] = IF i < k THEN c[i] ELSE c[i + 1]
  BY <1>0, <1>1, RemovedAt DEF n
<1>4. p = c[k - 1] /\ q = (IF k = n THEN NIL ELSE c[k + 1])
  BY <1>0 DEF IsChain, n
<1>5. HeadOf(c) = c[1] /\ c[1] # x /\ c[1] # NIL
  <2>1. n # 0 /\ k # 1
    BY <1>0
  <2>2. QED BY <1>0, <1>1, <1>2, <2>1 DEF HeadOf, n
<1>6. g = RemoveFrom(h, x)
  <2>1. ~IsAlone(h, c[1])
    <3>1. n # 1
      BY <1>0
    <3>2. h.next[c[1]] = c[1 + 1]
      BY <1>2, <3>1 DEF IsChain, n
    <3>3. 1 + 1 \in 1..n
      BY <1>0
    <3>4. QED BY <1>1, <3>2, <3>3 DEF IsAlone
  <2>2. QED BY <1>5, <2>1 DEF ObjStrip
<1>7. x \in Slots /\ p \in Slots /\ p # NIL /\ p # x /\ (q # NIL => q \in Slots /\ q # x /\ q # p)
  <2>1. k - 1 # k /\ (k # n => k + 1 # k /\ k + 1 # k - 1)
    BY <1>0
  <2>2. QED BY <1>0, <1>1, <1>2, <1>4, <2>1
<1> HIDE DEF d, p, q, x
<1>8. /\ g \in LinksType
      /\ \A s \in Slots : g.next[s] = IF s = x THEN NIL ELSE IF s = p THEN q ELSE h.next[s]
      /\ \A s \in Slots : g.prev[s] = IF s = x THEN NIL ELSE IF s = q THEN p ELSE h.prev[s]
  <2>1. CASE q # NIL
    <3> DEFINE j == Link(h, p, q)
    <3>1. g = Off(j, x)
      BY <1>6, <1>7, <2>1 DEF RemoveFrom, Off, Behind, p, q
    <3>2. /\ j \in LinksType
          /\ \A s \in Slots : j.next[s] = IF s = p THEN q ELSE h.next[s]
          /\ \A s \in Slots : j.prev[s] = IF s = q THEN p ELSE h.prev[s]
      
      <4>1. p \in Slots /\ q \in Slots /\ h \in LinksType
        BY <1>1, <1>7, <2>1
      <4>2. QED BY <4>1, BothLinked
    <3> HIDE DEF j
    <3>3. QED
      <4>1. /\ \A s \in Slots : g.next[s] = IF s = x THEN NIL ELSE j.next[s]
            /\ \A s \in Slots : g.prev[s] = IF s = x THEN NIL ELSE j.prev[s]
            /\ g \in LinksType
        BY <1>7, <3>1, <3>2, CutOff
      <4>2. QED BY <3>2, <4>1
  <2>2. CASE q = NIL
    <3> DEFINE j == Behind(h, p)
    <3>1. g = Off(j, x)
      BY <1>6, <1>7, <2>2 DEF RemoveFrom, Off, Behind, p, q
    <3>2. /\ j \in LinksType /\ j.prev = h.prev
          /\ \A s \in Slots : j.next[s] = IF s = p THEN NIL ELSE h.next[s]
      BY <1>1, <1>7, CutBehind
    <3>3. \A s \in Slots : s # q
      BY <1>1, <2>2
    <3> HIDE DEF j
    <3>4. QED 
      <4>1. /\ \A s \in Slots : g.next[s] = IF s = x THEN NIL ELSE j.next[s]
            /\ \A s \in Slots : g.prev[s] = IF s = x THEN NIL ELSE j.prev[s]
            /\ g \in LinksType
        BY <1>7, <3>1, <3>2, CutOff
      <4>2. QED BY <2>2, <3>2, <3>3, <4>1
  <2>3. QED BY <2>1, <2>2
<1>9. \A i, j \in 1..Len(d) : d[i] = d[j] => i = j
  <2> SUFFICES ASSUME NEW i \in 1..Len(d), NEW j \in 1..Len(d), d[i] = d[j] PROVE i = j
    OBVIOUS
  <2> DEFINE u == IF i < k THEN i ELSE i + 1
             v == IF j < k THEN j ELSE j + 1
  <2>0. i \in 1..(n - 1) /\ j \in 1..(n - 1)
    BY <1>3
  <2>1. u \in 1..n /\ v \in 1..n /\ (u = v => i = j)
    BY <1>0, <2>0
  <2>2. d[i] = c[u] /\ d[j] = c[v]
    BY <1>3, <2>0
  <2> HIDE DEF u, v
  <2>3. QED BY <1>1, <2>1, <2>2
<1>10. ASSUME NEW i \in 1..Len(d)
       PROVE  /\ g.next[d[i]] = IF i = Len(d) THEN NIL ELSE d[i + 1]
              /\ g.prev[d[i]] = IF i = 1 THEN NIL ELSE d[i - 1]
  <2>1. /\ i \in 1..(n - 1)
        /\ i # Len(d) => i + 1 \in 1..(n - 1)
        /\ i # 1 => i - 1 \in 1..(n - 1)
    BY <1>0, <1>3
  <2> DEFINE u == IF i < k THEN i ELSE i + 1
  <2>0. i \in Nat /\ u \in 1..n /\ u # k /\ (u # n => u + 1 \in 1..n) /\ (u # 1 => u - 1 \in 1..n)
    BY <1>0, <2>1
  <2>2. u \in 1..n /\ u # k /\ d[i] = c[u] /\ (u # n => u + 1 \in 1..n) /\ (u # 1 => u - 1 \in 1..n)
    BY <1>3, <2>0, <2>1
  <2>3. /\ h.next[c[u]] = IF u = n THEN NIL ELSE c[u + 1]
        /\ h.prev[c[u]] = IF u = 1 THEN NIL ELSE c[u - 1]
        /\ c[u] \in Slots /\ c[u] # x
    BY <1>1, <2>2 DEF IsChain, n, x
  <2>4. (c[u] = p <=> u = k - 1) /\ (c[u] = q <=> (k # n /\ u = k + 1))
    <3> HIDE DEF u
    <3>1. QED BY <1>1, <1>2, <1>4, <2>2
  <2>5. g.next[d[i]] = IF u = k - 1 THEN q ELSE IF u = n THEN NIL ELSE c[u + 1]
    <3> HIDE DEF u
    <3>1. QED BY <1>8, <2>2, <2>3, <2>4
  <2>6. g.prev[d[i]] = IF k # n /\ u = k + 1 THEN p ELSE IF u = 1 THEN NIL ELSE c[u - 1]
    <3> HIDE DEF u
    <3>1. QED BY <1>8, <2>2, <2>3, <2>4
  <2>7. g.next[d[i]] = IF i = Len(d) THEN NIL ELSE d[i + 1]
    <3>1. CASE i + 1 < k
      <4>1. u = i /\ u # k - 1 /\ u # n /\ i # Len(d)
        BY <1>0, <1>3, <2>0, <2>1, <3>1
      <4>2. d[i + 1] = c[u + 1]
        BY <1>3, <2>1, <3>1, <4>1
      <4>3. QED BY <2>5, <4>1, <4>2
    <3>2. CASE i + 1 = k
      <4>1. u = k - 1 /\ i + 1 + 1 = k + 1 /\ (i = Len(d) <=> k = n) /\ ~(i + 1 < k)
        BY <1>0, <1>3, <2>0, <2>1, <3>2
      <4>2. k # n => d[i + 1] = c[k + 1]
        BY <1>3, <2>1, <4>1
      <4>3. QED BY <1>4, <2>5, <4>1, <4>2
    <3>3. CASE i >= k
      <4>1. u = i + 1 /\ u # k - 1 /\ (u = n <=> i = Len(d)) /\ ~(i + 1 < k)
        BY <1>0, <1>3, <2>0, <2>1, <3>3
      <4>2. i # Len(d) => d[i + 1] = c[u + 1]
        BY <1>3, <2>1, <4>1
      <4>3. QED BY <2>5, <4>1, <4>2
    <3>4. i + 1 < k \/ i + 1 = k \/ i >= k
      BY <1>0, <2>0
    <3>5. QED BY <3>1, <3>2, <3>3, <3>4
  <2>8. g.prev[d[i]] = IF i = 1 THEN NIL ELSE d[i - 1]
    <3>1. CASE i < k
      <4>1. u = i /\ u # k + 1 /\ i - 1 < k
        BY <1>0, <2>0, <3>1
      <4>2. i # 1 => d[i - 1] = c[u - 1]
        BY <1>3, <2>1, <4>1
      <4>3. QED BY <2>6, <4>1, <4>2
    <3>2. CASE i = k
      <4>1. u = k + 1 /\ i # 1 /\ i - 1 < k /\ k # n
        BY <1>0, <1>3, <2>0, <2>1, <3>2
      <4>2. d[i - 1] = c[k - 1]
        BY <1>3, <2>1, <3>2, <4>1
      <4>3. QED BY <1>4, <2>6, <4>1, <4>2
    <3>3. CASE i > k
      <4>1. u = i + 1 /\ u # k + 1 /\ u # 1 /\ u - 1 = i - 1 + 1 /\ ~(i - 1 < k) /\ i # 1
        BY <1>0, <2>0, <3>3
      <4>2. d[i - 1] = c[u - 1]
        BY <1>3, <2>1, <4>1
      <4>3. QED BY <2>6, <4>1, <4>2
    <3>4. i < k \/ i = k \/ i > k
      BY <1>0, <2>0
    <3>5. QED BY <3>1, <3>2, <3>3, <3>4
  <2>9. QED BY <2>7, <2>8
<1>11. IsChain(g, d)
  BY <1>3, <1>8, <1>9, <1>10 DEF IsChain
<1>12. g.prev[x] = NIL /\ g.next[x] = NIL
  BY <1>7, <1>8
<1>13. ObjStripTo(h, HeadOf(c), x) = HeadOf(d)
  <2>1. HeadOf(d) = d[1] /\ d[1] = c[1]
    <3>1. 1 \in 1..(n - 1) /\ 1 < k /\ Len(d) # 0
      BY <1>0, <1>3
    <3>2. QED BY <1>3, <3>1 DEF HeadOf
  <2>2. QED BY <1>5, <2>1 DEF ObjStripTo
<1>14. \A s \in Slots \ {x, p, q} : g.prev[s] = h.prev[s] /\ g.next[s] = h.next[s]
  BY <1>8
<1>15. QED BY <1>11, <1>12, <1>13, <1>14 DEF d, x, p, q

\* The links of h with y in the place of x, as mem_reallocate sets them.
InPlaceOf(h, x, y) ==
  [prev |-> [n \in Slots |-> IF n = y THEN h.prev[x]
                             ELSE IF n = h.next[x] THEN y
                             ELSE IF n = x THEN NIL ELSE h.prev[n]],
   next |-> [n \in Slots |-> IF n = y THEN h.next[x]
                             ELSE IF n = h.prev[x] THEN y
                             ELSE IF n = x THEN NIL ELSE h.next[n]]]

\* The list** first holds a list of the nodes all.
ListOf(h, first, all) ==
  \E c : IsChain(h, c) /\ first = HeadOf(c) /\ {c[i] : i \in 1..Len(c)} = all

\* A node of a chain that is not the first one replaced by one that is in no list.
LEMMA ChainReplaced ==
  ASSUME NEW h, NEW c, IsChain(h, c), NEW k \in 1..Len(c), k # 1,
         NEW y \in Slots, y = c[k] \/ y \notin {c[i] : i \in 1..Len(c)},
         NEW g, g = InPlaceOf(h, c[k], y)
  PROVE  ListOf(g, HeadOf(c), ({c[i] : i \in 1..Len(c)} \ {c[k]}) \cup {y})
<1> DEFINE n == Len(c)
           d == [c EXCEPT ![k] = y]
           x == c[k]
           p == h.prev[x]
           q == h.next[x]
<1>1. /\ n \in Nat /\ \A i \in 1..n : c[i] \in Slots /\ c[i] # NIL
      /\ h \in LinksType
      /\ c \in Seq(Slots) /\ c \in [1..n -> Slots]
      /\ \A i, j \in 1..n : c[i] = c[j] => i = j
      /\ NIL \notin Slots
  BY SlotsAssumption, LenProperties DEF IsChain
<1>0. n \in Nat /\ k \in Nat /\ 1 < k /\ k <= n /\ k \in 1..n
  BY <1>1
<1> HIDE DEF n
<1>2. 1 \in 1..n /\ k - 1 \in 1..n /\ (k # n => k + 1 \in 1..n)
  BY <1>0
<1>3. /\ d \in [1..n -> Slots]
      /\ \A i \in 1..n : d[i] = IF i = k THEN y ELSE c[i]
  BY <1>0, <1>1
<1>4. d \in Seq(Slots) /\ Len(d) = n
  BY <1>0, <1>3, FunctionIsSequence
<1>5. p = c[k - 1] /\ q = (IF k = n THEN NIL ELSE c[k + 1])
  BY <1>0 DEF IsChain, n
<1>6. p \in Slots /\ p # NIL /\ p # x /\ p # y /\ (q # NIL => q \in Slots /\ q # x /\ q # y /\ q # p)
  <2>1. k - 1 # k /\ (k # n => k + 1 # k /\ k + 1 # k - 1)
    BY <1>0
  <2>2. \A i \in 1..n : i # k => c[i] # y
    BY <1>1, <1>0 DEF n
  <2>3. QED BY <1>0, <1>1, <1>2, <1>5, <2>1, <2>2
<1>7. x \in Slots /\ y # NIL /\ \A i \in 1..n : i # k => c[i] # x /\ c[i] # y
  <2>1. \A i \in 1..n : i # k => c[i] # y
    BY <1>1, <1>0 DEF n
  <2>2. QED BY <1>0, <1>1, <2>1
<1> HIDE DEF d, p, q, x
<1>8. /\ g \in LinksType
      /\ \A s \in Slots : g.next[s] = IF s = y THEN q ELSE IF s = p THEN y ELSE IF s = x THEN NIL ELSE h.next[s]
      /\ \A s \in Slots : g.prev[s] = IF s = y THEN p ELSE IF s = q THEN y ELSE IF s = x THEN NIL ELSE h.prev[s]
  <2>1. g = [prev |-> [s \in Slots |-> IF s = y THEN p ELSE IF s = q THEN y ELSE IF s = x THEN NIL ELSE h.prev[s]],
             next |-> [s \in Slots |-> IF s = y THEN q ELSE IF s = p THEN y ELSE IF s = x THEN NIL ELSE h.next[s]]]
    BY DEF InPlaceOf, p, q, x
  <2>2. \A s \in Slots : h.prev[s] \in Slots \cup {NIL} /\ h.next[s] \in Slots \cup {NIL}
    BY <1>1 DEF LinksType
  <2>3. p \in Slots \cup {NIL} /\ q \in Slots \cup {NIL}
    BY <1>6
  <2>4. QED BY <2>1, <2>2, <2>3 DEF LinksType
<1>9. \A i, j \in 1..Len(d) : d[i] = d[j] => i = j
  BY <1>1, <1>3, <1>4, <1>7
<1>10. ASSUME NEW i \in 1..n
       PROVE  /\ g.next[d[i]] = IF i = n THEN NIL ELSE d[i + 1]
              /\ g.prev[d[i]] = IF i = 1 THEN NIL ELSE d[i - 1]
  <2>0. i \in Nat /\ (i # n => i + 1 \in 1..n) /\ (i # 1 => i - 1 \in 1..n)
    BY <1>0
  <2>1. CASE i = k
    <3>1. d[i] = y /\ i # 1 /\ i - 1 # k /\ i + 1 # k
      BY <1>0, <1>3, <2>0, <2>1
    <3>2. g.next[y] = q /\ g.prev[y] = p
      BY <1>8
    <3>3. i # n => d[i + 1] = c[k + 1]
      BY <1>3, <2>0, <2>1, <3>1
    <3>4. d[i - 1] = c[k - 1]
      BY <1>3, <2>0, <2>1, <3>1
    <3>5. QED BY <1>5, <2>1, <3>1, <3>2, <3>3, <3>4
  <2>2. CASE i # k
    <3>1. d[i] = c[i] /\ c[i] \in Slots /\ c[i] # x /\ c[i] # y
      BY <1>1, <1>3, <1>7, <2>2
    <3>2. (c[i] = p <=> i = k - 1) /\ (c[i] = q <=> (k # n /\ i = k + 1))
      BY <1>0, <1>1, <1>2, <1>5
    <3>3. /\ g.next[c[i]] = IF i = k - 1 THEN y ELSE h.next[c[i]]
          /\ g.prev[c[i]] = IF k # n /\ i = k + 1 THEN y ELSE h.prev[c[i]]
      BY <1>8, <3>1, <3>2
    <3>4. /\ h.next[c[i]] = IF i = n THEN NIL ELSE c[i + 1]
          /\ h.prev[c[i]] = IF i = 1 THEN NIL ELSE c[i - 1]
      BY DEF IsChain, n
    <3>5. g.next[d[i]] = IF i = n THEN NIL ELSE d[i + 1]
      <4>1. CASE i = k - 1
        <5>1. i # n /\ i + 1 = k
          BY <1>0, <2>0, <4>1
        <5>2. d[k] = y
          BY <1>0, <1>3
        <5>3. QED BY <3>1, <3>3, <4>1, <5>1, <5>2
      <4>2. CASE i # k - 1
        <5>1. i + 1 # k
          BY <1>0, <2>0, <4>2
        <5>2. i # n => d[i + 1] = c[i + 1]
          BY <1>3, <2>0, <5>1
        <5>3. QED BY <3>1, <3>3, <3>4, <4>2, <5>2
      <4>3. QED BY <4>1, <4>2
    <3>6. g.prev[d[i]] = IF i = 1 THEN NIL ELSE d[i - 1]
      <4>1. CASE i = k + 1
        <5>1. k # n /\ i - 1 = k /\ i # 1
          BY <1>0, <2>0, <4>1
        <5>2. d[k] = y
          BY <1>0, <1>3
        <5>3. QED BY <3>1, <3>3, <4>1, <5>1, <5>2
      <4>2. CASE i # k + 1
        <5>1. i - 1 # k
          BY <1>0, <2>0, <4>2
        <5>2. i # 1 => d[i - 1] = c[i - 1]
          BY <1>3, <2>0, <5>1
        <5>3. QED BY <3>1, <3>3, <3>4, <4>2, <5>2
      <4>3. QED BY <4>1, <4>2
    <3>7. QED BY <3>5, <3>6
  <2>3. QED BY <2>1, <2>2
<1>11. IsChain(g, d)
  BY <1>4, <1>8, <1>9, <1>10 DEF IsChain
<1>13. HeadOf(c) = HeadOf(d)
  <2>1. n # 0 /\ 1 # k
    BY <1>0
  <2>2. d[1] = c[1]
    BY <1>2, <1>3, <2>1
  <2>3. QED BY <1>4, <2>1, <2>2 DEF HeadOf, n
<1>14. {d[i] : i \in 1..Len(d)} = ({c[i] : i \in 1..n} \ {x}) \cup {y}
  <2>1. \A i \in 1..n : d[i] = (IF i = k THEN y ELSE c[i]) /\ (i = k <=> c[i] = x)
    BY <1>0, <1>3, <1>7 DEF x
  <2>2. QED BY <1>0, <1>4, <2>1
<1>17. ListOf(g, HeadOf(c), ({c[i] : i \in 1..n} \ {x}) \cup {y})
  BY <1>11, <1>13, <1>14 DEF ListOf
<1>16. QED BY <1>17 DEF x, n

\* A node that is not the first one has one before it, and its neighbours are in the list.
LEMMA ListNeighbours ==
  ASSUME NEW h, NEW first, NEW all, ListOf(h, first, all), NEW x \in all, x # first
  PROVE  h \in LinksType /\ h.prev[x] \in all \ {x} /\ h.next[x] \in (all \ {x}) \cup {NIL}
<1>1. PICK c : IsChain(h, c) /\ first = HeadOf(c) /\ {c[i] : i \in 1..Len(c)} = all
  BY DEF ListOf
<1>2. Len(c) \in Nat
  BY <1>1, LenProperties DEF IsChain
<1>3. PICK k \in 1..Len(c) : c[k] = x /\ k # 1
  <2>1. PICK k \in 1..Len(c) : c[k] = x
    BY <1>1
  <2>2. k # 1
    BY <1>1, <1>2, <2>1 DEF HeadOf
  <2>3. QED BY <2>1, <2>2
<1>4. (k # Len(c) => k + 1 \in 1..Len(c)) /\ k - 1 \in 1..Len(c) /\ k - 1 # k /\ k + 1 # k
  BY <1>2, <1>3
<1>5. h.prev[x] = c[k - 1] /\ h.next[x] = IF k = Len(c) THEN NIL ELSE c[k + 1]
  BY <1>1, <1>3 DEF IsChain
<1>6. \A i \in 1..Len(c) : c[i] = x => i = k
  BY <1>1, <1>3 DEF IsChain
<1>7. QED BY <1>1, <1>4, <1>5, <1>6 DEF IsChain

\* A node put in the place of another one takes over its neighbours and its place.
LEMMA ListReplaced ==
  ASSUME NEW h, NEW first, NEW all, ListOf(h, first, all), NEW x \in all, x # first,
         NEW y \in Slots, y = x \/ y \notin all
  PROVE  ListOf(InPlaceOf(h, x, y), first, (all \ {x}) \cup {y})
<1>1. PICK c : IsChain(h, c) /\ first = HeadOf(c) /\ {c[i] : i \in 1..Len(c)} = all
  BY DEF ListOf
<1>2. Len(c) \in Nat
  BY <1>1, LenProperties DEF IsChain
<1>3. PICK k \in 1..Len(c) : c[k] = x /\ k # 1
  <2>1. PICK k \in 1..Len(c) : c[k] = x
    BY <1>1
  <2>2. k # 1
    BY <1>1, <1>2, <2>1 DEF HeadOf
  <2>3. QED BY <2>1, <2>2
<1>4. y = c[k] \/ y \notin {c[i] : i \in 1..Len(c)}
  BY <1>1, <1>3
<1>5. ListOf(InPlaceOf(h, c[k], y), HeadOf(c), ({c[i] : i \in 1..Len(c)} \ {c[k]}) \cup {y})
  BY <1>1, <1>3, <1>4, ChainReplaced
<1>6. QED BY <1>1, <1>3, <1>5

-----------------------------------------------------------------------------
(* The books of a pool *)

\* The bytes of blocks grow by the size of a block that is added.
LEMMA BytesOfOneMore ==
  ASSUME NEW L, NEW b, b \notin L, NEW f, DOMAIN f = L, NEW g, DOMAIN g = L \cup {b},
         \A s \in L : g[s] = f[s], NEW n \in Nat, g[b] = n,
         IsFiniteSet(BytesOf(f)) \/ IsFiniteSet(BytesOf(g))
  PROVE  /\ IsFiniteSet(BytesOf(f)) /\ IsFiniteSet(BytesOf(g))
         /\ Cardinality(BytesOf(f)) \in Nat
         /\ Cardinality(BytesOf(g)) = Cardinality(BytesOf(f)) + n
<1> DEFINE new == {b} \X (1..g[b])
<1>1. BytesOf(g) = BytesOf(f) \cup new
  BY DEF BytesOf
<1>2. BytesOf(f) \cap new = {}
  BY DEF BytesOf
<1>3. IsFiniteSet(new) /\ Cardinality(new) = g[b]
  <2>1. IsFiniteSet(1..g[b]) /\ Cardinality(1..g[b]) = g[b]
    <3>1. IsFiniteSet(1..g[b]) /\ Cardinality(1..g[b]) = IF 1 > g[b] THEN 0 ELSE g[b] - 1 + 1
      BY FS_Interval
    <3>2. QED BY <3>1
  <2>2. IsFiniteSet({b}) /\ Cardinality({b}) = 1
    BY FS_Singleton
  <2>3. IsFiniteSet(new) /\ Cardinality(new) = Cardinality({b}) * Cardinality(1..g[b])
    BY <2>1, <2>2, FS_Product
  <2>4. QED BY <2>1, <2>2, <2>3
<1>4. IsFiniteSet(BytesOf(f))
  <2>1. BytesOf(f) \in SUBSET BytesOf(g)
    BY <1>1
  <2>2. QED BY <2>1, FS_Subset
<1> HIDE DEF new
<1>5. /\ IsFiniteSet(BytesOf(g))
      /\ Cardinality(BytesOf(g)) = Cardinality(BytesOf(f)) + Cardinality(new) - Cardinality(BytesOf(f) \cap new)
  BY <1>1, <1>3, <1>4, FS_Union
<1>6. Cardinality(BytesOf(f) \cap new) = 0
  BY <1>2, FS_EmptySet
<1>7. Cardinality(BytesOf(f)) \in Nat
  BY <1>4, FS_CardinalityType
<1>8. QED BY <1>3, <1>4, <1>5, <1>6, <1>7

\* The head of a block, what its checksum was taken of, and a pool
HeadType == [magic : BOOLEAN, size : Nat, real : Nat, align : BOOLEAN]
SumType == [head : HeadType, prev : Slots \cup {NIL}, next : Slots \cup {NIL}]
PoolType ==
  [links : LinksType, first : Slots \cup {NIL}, head : [Slots -> HeadType],
   crc : [Slots -> SumType], feet : SUBSET Slots, live : SUBSET Slots,
   used : Nat, asked : Nat, count : Nat]

\* A struct list*, which may be NULL
Pointers == Slots \cup {NIL}

\* A checksum that is renewed is the only thing that changes.
LEMMA SumUpdated ==
  ASSUME NEW p \in PoolType, NEW b \in Pointers
  PROVE  /\ UpdateSum(p, b) \in PoolType
         /\ UpdateSum(p, b).links = p.links /\ UpdateSum(p, b).first = p.first
         /\ UpdateSum(p, b).head = p.head /\ UpdateSum(p, b).feet = p.feet
         /\ UpdateSum(p, b).live = p.live /\ UpdateSum(p, b).used = p.used
         /\ UpdateSum(p, b).asked = p.asked /\ UpdateSum(p, b).count = p.count
         /\ \A s \in Slots : UpdateSum(p, b).crc[s] = IF s = b THEN SumOf(p, s) ELSE p.crc[s]
<1>1. CASE b = NIL
  BY <1>1, SlotsAssumption DEF UpdateSum
<1>2. CASE b # NIL
  <2>1. b \in Slots /\ UpdateSum(p, b) = [p EXCEPT !.crc[b] = SumOf(p, b)]
    BY <1>2 DEF UpdateSum, Pointers
  <2>2. SumOf(p, b) \in SumType
    BY <2>1 DEF SumOf, SumType, PoolType, LinksType
  <2>3. p.crc \in [Slots -> SumType]
    BY DEF PoolType
  <2>4. [p.crc EXCEPT ![b] = SumOf(p, b)] \in [Slots -> SumType]
    BY <2>1, <2>2, <2>3
  <2>5. UpdateSum(p, b) = [p EXCEPT !.crc = [p.crc EXCEPT ![b] = SumOf(p, b)]]
    BY <2>1 DEF PoolType
  <2> HIDE DEF SumOf
  <2>6. QED BY <2>1, <2>3, <2>4, <2>5 DEF PoolType
<1>3. QED BY <1>1, <1>2

\* The checksums of three blocks renewed, some of which may be missing.
Summed(p, a, b, c) == UpdateSum(UpdateSum(UpdateSum(p, a), b), c)

\* The checksums that are renewed agree with the heads, the others are what they were.
LEMMA SumsUpdated ==
  ASSUME NEW p \in PoolType, NEW a \in Pointers, NEW b \in Pointers, NEW c \in Pointers
  PROVE  LET r == Summed(p, a, b, c) IN
         /\ r \in PoolType
         /\ r.links = p.links /\ r.first = p.first /\ r.head = p.head /\ r.feet = p.feet
         /\ r.live = p.live /\ r.used = p.used /\ r.asked = p.asked /\ r.count = p.count
         /\ \A s \in Slots : s = a \/ s = b \/ s = c => r.crc[s] = SumOf(p, s)
         /\ \A s \in Slots : s # a /\ s # b /\ s # c => r.crc[s] = p.crc[s]
<1> DEFINE u == UpdateSum(p, a)
           v == UpdateSum(u, b)
           r == Summed(p, a, b, c)
<1>1. /\ u \in PoolType
      /\ u.links = p.links /\ u.first = p.first /\ u.head = p.head /\ u.feet = p.feet
      /\ u.live = p.live /\ u.used = p.used /\ u.asked = p.asked /\ u.count = p.count
      /\ \A s \in Slots : u.crc[s] = IF s = a THEN SumOf(p, s) ELSE p.crc[s]
  BY SumUpdated
<1>2. \A s \in Slots : SumOf(u, s) = SumOf(p, s)
  BY <1>1 DEF SumOf
<1> HIDE DEF u
<1>3. /\ v \in PoolType
      /\ v.links = u.links /\ v.first = u.first /\ v.head = u.head /\ v.feet = u.feet
      /\ v.live = u.live /\ v.used = u.used /\ v.asked = u.asked /\ v.count = u.count
      /\ \A s \in Slots : v.crc[s] = IF s = b THEN SumOf(u, s) ELSE u.crc[s]
  BY <1>1, SumUpdated
<1>4. \A s \in Slots : SumOf(v, s) = SumOf(u, s)
  BY <1>3 DEF SumOf
<1> HIDE DEF v
<1>5. r = UpdateSum(v, c)
  BY DEF Summed, u, v
<1> HIDE DEF r
<1>6. /\ r \in PoolType
      /\ r.links = v.links /\ r.first = v.first /\ r.head = v.head /\ r.feet = v.feet
      /\ r.live = v.live /\ r.used = v.used /\ r.asked = v.asked /\ r.count = v.count
      /\ \A s \in Slots : r.crc[s] = IF s = c THEN SumOf(v, s) ELSE v.crc[s]
  <2>1. LET w == UpdateSum(v, c) IN
          /\ w \in PoolType
          /\ w.links = v.links /\ w.first = v.first /\ w.head = v.head /\ w.feet = v.feet
          /\ w.live = v.live /\ w.used = v.used /\ w.asked = v.asked /\ w.count = v.count
          /\ \A s \in Slots : w.crc[s] = IF s = c THEN SumOf(v, s) ELSE v.crc[s]
    BY <1>3, SumUpdated
  <2>2. QED BY <1>5, <2>1
<1>7. QED BY <1>1, <1>2, <1>3, <1>4, <1>6 DEF r

-----------------------------------------------------------------------------
(* What every operation of a pool keeps *)

\* The blocks that are given out form the chain of the pool.
Chained(p) == ListOf(p.links, p.first, p.live)

\* A place that holds no block is bare, one that does has the mark of a head.
Marked(p) ==
  /\ \A s \in Slots \ p.live :
       p.head[s] = EmptyHead /\ p.links.prev[s] = NIL /\ p.links.next[s] = NIL
  /\ \A s \in p.live : p.head[s].magic

\* Blocks that are not damaged have a foot and the checksum of what is in their head.
Undamaged(p, damaged) ==
  /\ p.feet \subseteq p.live /\ p.live \ damaged \subseteq p.feet
  /\ \A s \in p.live \ damaged : p.crc[s] = SumOf(p, s)

\* By block: the size asked for and the size with head and foot
AskedOf(p) == [b \in p.live |-> p.head[b].size]
RealOf(p) == [b \in p.live |-> p.head[b].real]

\* The counters are those of the blocks; used may be more, once a head was damaged.
Counted(p, exact) ==
  /\ p.count = Cardinality(p.live)
  /\ IsFiniteSet(BytesOf(AskedOf(p))) /\ p.asked = Cardinality(BytesOf(AskedOf(p)))
  /\ IsFiniteSet(BytesOf(RealOf(p))) /\ p.used >= Cardinality(BytesOf(RealOf(p)))
  /\ exact => p.used = Cardinality(BytesOf(RealOf(p)))

\* A pool that is kept, but for the damaged blocks; its counter of memory used is exact
\* as long as no damaged head was read.
PoolOK(p, damaged, exact) ==
  p \in PoolType /\ Chained(p) /\ Marked(p) /\ Undamaged(p, damaged) /\ Counted(p, exact)

\* What mem_allocate has set before it renews the checksums
Entered(p, b, size, align) ==
  [p EXCEPT !.links = ObjAdd(p.links, p.first, b), !.first = ObjAddTo(@, b),
     !.feet = @ \cup {b},
     !.head[b] = [magic |-> TRUE, size |-> size, real |-> size + 1, align |-> align],
     !.live = @ \cup {b}, !.used = @ + (size + 1), !.asked = @ + size, !.count = @ + 1]

\* An allocation in a free place keeps the pool.
LEMMA Allocated ==
  ASSUME NEW p, NEW damaged, NEW exact, PoolOK(p, damaged, exact),
         NEW b \in Slots \ p.live, NEW size \in Nat, NEW align \in BOOLEAN,
         NEW r, r = Allocate(p, b, size, align), b \notin damaged
  PROVE  /\ PoolOK(r, damaged, exact)
         /\ r.live = p.live \cup {b} /\ r.feet = p.feet \cup {b}
         /\ p.first # NIL => r.first = p.first
         /\ p.first = NIL => r.first = b
<1> DEFINE q == Entered(p, b, size, align)
           g == ObjAdd(p.links, p.first, b)
           hd == [magic |-> TRUE, size |-> size, real |-> size + 1, align |-> align]
<1>1. PICK c : IsChain(p.links, c) /\ p.first = HeadOf(c) /\ {c[i] : i \in 1..Len(c)} = p.live
  BY DEF PoolOK, Chained, ListOf
<1>2. /\ p \in PoolType /\ p.live \subseteq Slots /\ p.feet \subseteq Slots
      /\ p.links.prev[b] = NIL /\ p.links.next[b] = NIL /\ b # NIL
      /\ p.used \in Nat /\ p.asked \in Nat /\ p.count \in Nat
      /\ p.head \in [Slots -> HeadType] /\ p.crc \in [Slots -> SumType]
  BY SlotsAssumption DEF PoolOK, PoolType, Marked
<1>3. /\ IsChain(g, Append(c, b)) /\ g.next[b] = NIL
      /\ ObjAddTo(p.first, b) = HeadOf(Append(c, b))
      /\ \A s \in Slots \ {b, g.prev[b]} : g.prev[s] = p.links.prev[s] /\ g.next[s] = p.links.next[s]
  <2>1. \A i \in 1..Len(c) : c[i] # b
    BY <1>1
  <2> HIDE DEF g
  <2>2. g = ObjAdd(p.links, HeadOf(c), b)
    BY <1>1 DEF g
  <2>3. QED BY <1>1, <1>2, <2>1, <2>2, ChainAdded
<1>4. {Append(c, b)[i] : i \in 1..Len(Append(c, b))} = p.live \cup {b}
  <2>1. c \in Seq(Slots)
    BY <1>1 DEF IsChain
  <2>2. /\ Len(c) \in Nat /\ Len(Append(c, b)) = Len(c) + 1
        /\ \A i \in 1..Len(c) : Append(c, b)[i] = c[i]
        /\ Append(c, b)[Len(c) + 1] = b
    BY <2>1, Appended
  <2>3. 1..(Len(c) + 1) = 1..Len(c) \cup {Len(c) + 1}
    BY <2>2
  <2>4. QED BY <1>1, <2>2, <2>3
<1>5. g \in LinksType
  BY <1>3 DEF IsChain
<1>6. ObjAddTo(p.first, b) \in Slots \cup {NIL}
  BY <1>2 DEF ObjAddTo, PoolType
<1> HIDE DEF g
<1>7. hd \in HeadType
  BY DEF HeadType
<1>8. /\ q \in PoolType /\ q.links = g /\ q.first = ObjAddTo(p.first, b)
      /\ q.head = [p.head EXCEPT ![b] = hd] /\ q.crc = p.crc /\ q.feet = p.feet \cup {b}
      /\ q.live = p.live \cup {b} /\ q.used = p.used + (size + 1) /\ q.asked = p.asked + size
      /\ q.count = p.count + 1
  <2>1. [p.head EXCEPT ![b] = hd] \in [Slots -> HeadType]
    BY <1>2, <1>7
  <2>2. q = [links |-> g, first |-> ObjAddTo(p.first, b), head |-> [p.head EXCEPT ![b] = hd],
             crc |-> p.crc, feet |-> p.feet \cup {b}, live |-> p.live \cup {b},
             used |-> p.used + (size + 1), asked |-> p.asked + size, count |-> p.count + 1]
    <3>1. p = [links |-> p.links, first |-> p.first, head |-> p.head, crc |-> p.crc,
               feet |-> p.feet, live |-> p.live, used |-> p.used, asked |-> p.asked, count |-> p.count]
      BY <1>2 DEF PoolType
    <3>2. ASSUME NEW v, v = Entered(p, b, size, align)
          PROVE  v = [links |-> g, first |-> ObjAddTo(p.first, b), head |-> [p.head EXCEPT ![b] = hd],
                      crc |-> p.crc, feet |-> p.feet \cup {b}, live |-> p.live \cup {b},
                      used |-> p.used + (size + 1), asked |-> p.asked + size, count |-> p.count + 1]
      BY <3>1, <3>2 DEF Entered, g
    <3>3. QED BY <3>2
  <2>3. p.used + (size + 1) \in Nat /\ p.asked + size \in Nat /\ p.count + 1 \in Nat
    BY <1>2
  <2> HIDE DEF q, hd
  <2>4. QED BY <1>2, <1>5, <1>6, <2>1, <2>2, <2>3 DEF PoolType
<1>9. r = Summed(q, g.prev[b], g.next[b], b)
  BY DEF Allocate, Entered, Summed, g
<1>10. g.prev[b] \in Slots \cup {NIL} /\ g.next[b] \in Slots \cup {NIL}
  BY <1>5 DEF LinksType
<1> HIDE DEF q
<1>11. /\ r \in PoolType
       /\ r.links = q.links /\ r.first = q.first /\ r.head = q.head /\ r.feet = q.feet
       /\ r.live = q.live /\ r.used = q.used /\ r.asked = q.asked /\ r.count = q.count
       /\ \A s \in Slots : s = g.prev[b] \/ s = g.next[b] \/ s = b => r.crc[s] = SumOf(q, s)
       /\ \A s \in Slots : s # g.prev[b] /\ s # g.next[b] /\ s # b => r.crc[s] = q.crc[s]
  <2> DEFINE x == g.prev[b]
             y == g.next[b]
             z == b
             w == Summed(q, x, y, z)
  <2>1. q \in PoolType /\ x \in Pointers /\ y \in Pointers /\ z \in Pointers
    BY <1>8, <1>10 DEF Pointers
  <2>2. r = w
    BY <1>9
  <2> HIDE DEF x, y, z
  <2>3. /\ w \in PoolType
        /\ w.links = q.links /\ w.first = q.first /\ w.head = q.head /\ w.feet = q.feet
        /\ w.live = q.live /\ w.used = q.used /\ w.asked = q.asked /\ w.count = q.count
        /\ \A s \in Slots : s = x \/ s = y \/ s = z => w.crc[s] = SumOf(q, s)
        /\ \A s \in Slots : s # x /\ s # y /\ s # z => w.crc[s] = q.crc[s]
    <3>1. w \in PoolType
      BY <2>1, SumsUpdated
    <3>2. w.links = q.links /\ w.first = q.first /\ w.head = q.head /\ w.feet = q.feet
      BY <2>1, SumsUpdated
    <3>3. w.live = q.live /\ w.used = q.used /\ w.asked = q.asked /\ w.count = q.count
      BY <2>1, SumsUpdated
    <3>4. \A s \in Slots : s = x \/ s = y \/ s = z => w.crc[s] = SumOf(q, s)
      BY <2>1, SumsUpdated
    <3>5. \A s \in Slots : s # x /\ s # y /\ s # z => w.crc[s] = q.crc[s]
      BY <2>1, SumsUpdated
    <3>6. QED BY <3>1, <3>2, <3>3, <3>4, <3>5
  <2>4. QED BY <2>2, <2>3 DEF x, y, z
<1>12. Chained(r)
  <2> DEFINE d == Append(c, b)
  <2>1. IsChain(r.links, d) /\ r.first = HeadOf(d) /\ {d[i] : i \in 1..Len(d)} = r.live
    BY <1>3, <1>4, <1>8, <1>11
  <2> HIDE DEF d
  <2>2. QED BY <2>1 DEF Chained, ListOf
<1>13. Marked(r)
  <2>1. ASSUME NEW s \in Slots \ r.live
        PROVE  r.head[s] = EmptyHead /\ r.links.prev[s] = NIL /\ r.links.next[s] = NIL
    <3>1. s \in Slots \ p.live /\ s # b
      BY <1>8, <1>11
    <3>2. s # g.prev[b]
      <4>1. PICK i \in 1..Len(Append(c, b)) : Append(c, b)[i] = b
        BY <1>4
      <4>2. i # 1 => i - 1 \in 1..Len(Append(c, b))
        <5>1. Len(Append(c, b)) \in Nat
          BY <1>3, LenProperties DEF IsChain
        <5>2. QED BY <5>1
      <4>3. g.prev[b] = NIL \/ g.prev[b] \in p.live \cup {b}
        BY <1>3, <1>4, <4>1, <4>2 DEF IsChain
      <4>4. QED BY <3>1, <4>3, SlotsAssumption
    <3>3. p.head[s] = EmptyHead /\ p.links.prev[s] = NIL /\ p.links.next[s] = NIL
      BY <3>1 DEF PoolOK, Marked
    <3>4. g.prev[s] = NIL /\ g.next[s] = NIL
      BY <1>3, <3>1, <3>2, <3>3
    <3>5. r.head[s] = EmptyHead
      BY <1>2, <1>8, <1>11, <3>1, <3>3
    <3>6. QED BY <1>8, <1>11, <3>4, <3>5
  <2>2. ASSUME NEW s \in r.live PROVE r.head[s].magic
    <3>1. s = b \/ (s # b /\ s \in p.live)
      BY <1>8, <1>11
    <3>2. CASE s = b
      BY <1>2, <1>8, <1>11, <3>2
    <3>3. CASE s # b /\ s \in p.live
      <4>1. p.head[s].magic /\ s \in Slots
        BY <1>2, <3>3 DEF PoolOK, Marked
      <4>2. r.head[s] = p.head[s]
        BY <1>2, <1>8, <1>11, <3>3, <4>1
      <4>3. QED BY <4>1, <4>2
    <3>4. QED BY <3>1, <3>2, <3>3
  <2>3. QED BY <2>1, <2>2 DEF Marked
<1>14. Undamaged(r, damaged)
  <2>1. r.feet \subseteq r.live /\ r.live \ damaged \subseteq r.feet
    BY <1>8, <1>11 DEF PoolOK, Undamaged
  <2>2. ASSUME NEW s \in r.live \ damaged PROVE r.crc[s] = SumOf(r, s)
    <3>1. SumOf(r, s) = SumOf(q, s) /\ s \in Slots
      BY <1>8, <1>11 DEF SumOf, PoolType
    <3>2. CASE s \in {g.prev[b], g.next[b], b}
      BY <1>11, <3>1, <3>2
    <3>3. CASE s \notin {g.prev[b], g.next[b], b}
      <4>1. s \in p.live \ damaged /\ s \in Slots \ {b, g.prev[b]}
        BY <1>8, <1>11, <3>1, <3>3
      <4>2. p.crc[s] = SumOf(p, s)
        BY <4>1 DEF PoolOK, Undamaged
      <4>3. q.head[s] = p.head[s]
        BY <1>2, <1>8, <3>1, <4>1
      <4>4. SumOf(q, s) = SumOf(p, s)
        BY <1>3, <1>8, <4>1, <4>3 DEF SumOf
      <4>5. QED BY <1>8, <1>11, <3>1, <3>3, <4>2, <4>4
    <3>4. QED BY <3>2, <3>3
  <2>3. QED BY <2>1, <2>2 DEF Undamaged
<1>15. Counted(r, exact)
  <2>1. IsFiniteSet(p.live) /\ b \notin p.live
    BY <1>2, SlotsAssumption, FS_Subset
  <2>2. r.count = Cardinality(r.live)
    <3>1. Cardinality(p.live \cup {b}) = Cardinality(p.live) + 1
      BY <2>1, FS_AddElement
    <3>2. p.count = Cardinality(p.live)
      BY DEF PoolOK, Counted
    <3>3. QED BY <1>8, <1>11, <3>1, <3>2
  <2>3. \A s \in p.live : r.head[s] = p.head[s]
    BY <1>2, <1>8, <1>11
  <2>4. r.head[b] = hd /\ r.live = p.live \cup {b}
    BY <1>2, <1>8, <1>11
  <2>5. /\ IsFiniteSet(BytesOf(AskedOf(r)))
        /\ Cardinality(BytesOf(AskedOf(r))) = Cardinality(BytesOf(AskedOf(p))) + size
        /\ Cardinality(BytesOf(AskedOf(p))) \in Nat
    <3> DEFINE f == AskedOf(p)
               e == AskedOf(r)
    <3>1. DOMAIN f = p.live /\ DOMAIN e = p.live \cup {b} /\ e[b] = size /\ \A s \in p.live : e[s] = f[s]
      BY <2>3, <2>4 DEF AskedOf
    <3>2. IsFiniteSet(BytesOf(f))
      BY DEF PoolOK, Counted
    <3> HIDE DEF e, f
    <3>3. IsFiniteSet(BytesOf(e)) /\ Cardinality(BytesOf(e)) = Cardinality(BytesOf(f)) + size /\ Cardinality(BytesOf(f)) \in Nat
      BY <2>1, <3>1, <3>2, BytesOfOneMore
    <3>4. QED BY <3>1, <3>3 DEF e, f
  <2>6. /\ IsFiniteSet(BytesOf(RealOf(r)))
        /\ Cardinality(BytesOf(RealOf(r))) = Cardinality(BytesOf(RealOf(p))) + (size + 1)
        /\ Cardinality(BytesOf(RealOf(p))) \in Nat
    <3> DEFINE f == RealOf(p)
               e == RealOf(r)
               n == size + 1
    <3>1. DOMAIN f = p.live /\ DOMAIN e = p.live \cup {b} /\ n \in Nat /\ e[b] = n /\ \A s \in p.live : e[s] = f[s]
      BY <2>3, <2>4 DEF RealOf
    <3>2. IsFiniteSet(BytesOf(f))
      BY DEF PoolOK, Counted
    <3> HIDE DEF e, f, n
    <3>3. IsFiniteSet(BytesOf(e)) /\ Cardinality(BytesOf(e)) = Cardinality(BytesOf(f)) + n /\ Cardinality(BytesOf(f)) \in Nat
      BY <2>1, <3>1, <3>2, BytesOfOneMore
    <3>4. QED BY <3>1, <3>3 DEF e, f, n
  <2>7. /\ p.asked = Cardinality(BytesOf(AskedOf(p)))
        /\ p.used >= Cardinality(BytesOf(RealOf(p)))
        /\ exact => p.used = Cardinality(BytesOf(RealOf(p)))
    BY DEF PoolOK, Counted
  <2>8. r.asked = p.asked + size /\ r.used = p.used + (size + 1)
    BY <1>8, <1>11
  <2>9. r.asked = Cardinality(BytesOf(AskedOf(r)))
    BY <2>5, <2>7, <2>8
  <2>10. r.used >= Cardinality(BytesOf(RealOf(r)))
    BY <1>2, <2>6, <2>7, <2>8
  <2>11. exact => r.used = Cardinality(BytesOf(RealOf(r)))
    BY <2>6, <2>7, <2>8
  <2>12. QED BY <2>2, <2>5, <2>6, <2>9, <2>10, <2>11 DEF Counted
<1>16. p.first # NIL => r.first = p.first
  BY <1>8, <1>11 DEF ObjAddTo
<1>17. p.first = NIL => r.first = b
  BY <1>8, <1>11 DEF ObjAddTo
<1>18. QED BY <1>8, <1>11, <1>12, <1>13, <1>14, <1>15, <1>16, <1>17 DEF PoolOK

\* What mem_free has set before it renews the checksums of the neighbours
TakenOut(p, b) ==
  [p EXCEPT !.links = ObjStrip(@, p.first, b), !.first = ObjStripTo(p.links, @, b),
     !.used = @ - p.head[b].real, !.asked = @ - p.head[b].size, !.count = @ - 1,
     !.live = @ \ {b}, !.feet = @ \ {b}]

\* A block that is not the first one is released, and the pool is kept.
LEMMA ReleasedKeeps ==
  ASSUME NEW p, NEW damaged, NEW exact, PoolOK(p, damaged, exact),
         NEW b \in p.live, b # p.first, p.head[b].real <= p.used, p.head[b].size <= p.asked,
         NEW r, r = Released(p, b)
  PROVE  /\ PoolOK(r, damaged \ {b}, exact)
         /\ r.live = p.live \ {b} /\ r.feet = p.feet \ {b} /\ r.first = p.first
<1> DEFINE q == TakenOut(p, b)
           g == ObjStrip(p.links, p.first, b)
           before == p.links.prev[b]
           after == p.links.next[b]
           u == UpdateSum(q, before)
           v == UpdateSum(u, after)
<1>1. PICK c : IsChain(p.links, c) /\ p.first = HeadOf(c) /\ {c[i] : i \in 1..Len(c)} = p.live
  BY DEF PoolOK, Chained, ListOf
<1>2. /\ p \in PoolType /\ p.live \subseteq Slots /\ p.feet \subseteq Slots /\ b \in Slots /\ b # NIL
      /\ p.used \in Nat /\ p.asked \in Nat /\ p.count \in Nat
      /\ p.head \in [Slots -> HeadType] /\ p.crc \in [Slots -> SumType]
      /\ p.head[b].real \in Nat /\ p.head[b].size \in Nat
      /\ p.links \in LinksType /\ p.first \in Slots \cup {NIL}
  BY SlotsAssumption DEF PoolOK, PoolType, HeadType
<1>3. PICK k \in 1..Len(c) : c[k] = b /\ k # 1
  <2>1. PICK k \in 1..Len(c) : c[k] = b
    BY <1>1
  <2>2. k # 1
    <3>1. Len(c) \in Nat /\ (Len(c) = 0 => 1..Len(c) = {})
      BY <1>1, LenProperties DEF IsChain
    <3>2. QED BY <1>1, <2>1, <3>1 DEF HeadOf
  <2>3. QED BY <2>1, <2>2
<1> DEFINE d == RemoveAt(c, k)
<1>4. /\ IsChain(g, d) /\ g.prev[b] = NIL /\ g.next[b] = NIL
      /\ ObjStripTo(p.links, p.first, b) = HeadOf(d)
      /\ \A s \in Slots \ {b, before, after} : g.prev[s] = p.links.prev[s] /\ g.next[s] = p.links.next[s]
  <2>1. g = ObjStrip(p.links, HeadOf(c), c[k])
    BY <1>1, <1>3
  <2> HIDE DEF g
  <2>2. /\ IsChain(g, RemoveAt(c, k)) /\ g.prev[c[k]] = NIL /\ g.next[c[k]] = NIL
        /\ ObjStripTo(p.links, HeadOf(c), c[k]) = HeadOf(RemoveAt(c, k))
        /\ \A s \in Slots \ {c[k], p.links.prev[c[k]], p.links.next[c[k]]} :
             g.prev[s] = p.links.prev[s] /\ g.next[s] = p.links.next[s]
    BY <1>1, <1>3, <2>1, ChainRemoved
  <2>3. QED BY <1>1, <1>3, <2>2
<1>5. ObjStripTo(p.links, p.first, b) = p.first
  BY DEF ObjStripTo
<1>6. {d[i] : i \in 1..Len(d)} = p.live \ {b}
  <2>1. /\ c \in Seq(Slots) /\ k \in DOMAIN c
        /\ \A i, j \in 1..Len(c) : c[i] = c[j] => i = j
    BY <1>1, LenProperties DEF IsChain
  <2>2. /\ Len(c) \in Nat /\ Len(d) = Len(c) - 1
        /\ \A i \in 1..(Len(c) - 1) : d[i] = IF i < k THEN c[i] ELSE c[i + 1]
    BY <2>1, RemovedAt
  <2> HIDE DEF d
  <2>3. ASSUME NEW i \in 1..Len(d) PROVE d[i] \in p.live \ {b}
    <3> DEFINE j == IF i < k THEN i ELSE i + 1
    <3>1. j \in 1..Len(c) /\ j # k /\ d[i] = c[j]
      BY <2>2
    <3> HIDE DEF j
    <3>2. QED BY <1>1, <1>3, <2>1, <3>1
  <2>4. ASSUME NEW s \in p.live \ {b} PROVE \E i \in 1..Len(d) : d[i] = s
    <3>1. PICK j \in 1..Len(c) : c[j] = s
      BY <1>1
    <3>2. j # k
      BY <1>3, <3>1
    <3>3. CASE j < k
      <4>1. j \in 1..(Len(c) - 1)
        BY <2>2, <3>3
      <4>2. d[j] = s
        BY <2>2, <3>1, <3>3, <4>1
      <4>3. QED BY <2>2, <4>1, <4>2
    <3>4. CASE j > k
      <4>1. j - 1 \in 1..(Len(c) - 1) /\ ~(j - 1 < k) /\ j - 1 + 1 = j
        BY <2>2, <3>4
      <4>2. d[j - 1] = s
        BY <2>2, <3>1, <4>1
      <4>3. QED BY <2>2, <4>1, <4>2
    <3>5. QED BY <3>2, <3>3, <3>4
  <2>5. QED BY <2>3, <2>4
<1>7. g \in LinksType /\ before \in Pointers /\ after \in Pointers
  BY <1>2, <1>4 DEF IsChain, LinksType, Pointers
<1> HIDE DEF g, d
<1>8. /\ q \in PoolType /\ q.links = g /\ q.first = p.first
      /\ q.head = p.head /\ q.crc = p.crc /\ q.feet = p.feet \ {b}
      /\ q.live = p.live \ {b} /\ q.used = p.used - p.head[b].real
      /\ q.asked = p.asked - p.head[b].size /\ q.count = p.count - 1
  <2>1. p = [links |-> p.links, first |-> p.first, head |-> p.head, crc |-> p.crc,
             feet |-> p.feet, live |-> p.live, used |-> p.used, asked |-> p.asked, count |-> p.count]
    BY <1>2 DEF PoolType
  <2>2. ASSUME NEW w, w = TakenOut(p, b)
        PROVE  w = [links |-> g, first |-> ObjStripTo(p.links, p.first, b), head |-> p.head,
                    crc |-> p.crc, feet |-> p.feet \ {b}, live |-> p.live \ {b},
                    used |-> p.used - p.head[b].real, asked |-> p.asked - p.head[b].size,
                    count |-> p.count - 1]
    BY <2>1, <2>2 DEF TakenOut, g
  <2>3. q = [links |-> g, first |-> p.first, head |-> p.head,
             crc |-> p.crc, feet |-> p.feet \ {b}, live |-> p.live \ {b},
             used |-> p.used - p.head[b].real, asked |-> p.asked - p.head[b].size,
             count |-> p.count - 1]
    BY <1>5, <2>2
  <2>4. p.used - p.head[b].real \in Nat /\ p.asked - p.head[b].size \in Nat
    BY <1>2
  <2>5. p.count - 1 \in Nat
    <3>1. IsFiniteSet(p.live) /\ p.count = Cardinality(p.live)
      BY <1>2, SlotsAssumption, FS_Subset DEF PoolOK, Counted
    <3>2. p.count # 0
      BY <3>1, FS_EmptySet
    <3>3. QED BY <1>2, <3>2
  <2> HIDE DEF q
  <2>6. QED BY <1>2, <1>7, <2>3, <2>4, <2>5 DEF PoolType
<1> HIDE DEF q
<1>9. u \in PoolType
  BY <1>7, <1>8, SumUpdated
<1>10. /\ u.links = q.links /\ u.first = q.first /\ u.head = q.head /\ u.feet = q.feet
       /\ u.live = q.live /\ u.used = q.used /\ u.asked = q.asked /\ u.count = q.count
  BY <1>7, <1>8, SumUpdated
<1>11. \A s \in Slots : u.crc[s] = IF s = before THEN SumOf(q, s) ELSE q.crc[s]
  BY <1>7, <1>8, SumUpdated
<1> HIDE DEF u
<1>12. v \in PoolType
  BY <1>7, <1>9, SumUpdated
<1>13. /\ v.links = q.links /\ v.first = q.first /\ v.head = q.head /\ v.feet = q.feet
       /\ v.live = q.live /\ v.used = q.used /\ v.asked = q.asked /\ v.count = q.count
  <2>1. /\ v.links = u.links /\ v.first = u.first /\ v.head = u.head /\ v.feet = u.feet
        /\ v.live = u.live /\ v.used = u.used /\ v.asked = u.asked /\ v.count = u.count
    BY <1>7, <1>9, SumUpdated
  <2>2. QED BY <1>10, <2>1
<1>14. \A s \in Slots : v.crc[s] = IF s = before \/ s = after THEN SumOf(q, s) ELSE q.crc[s]
  <2>1. \A s \in Slots : v.crc[s] = IF s = after THEN SumOf(u, s) ELSE u.crc[s]
    BY <1>7, <1>9, SumUpdated
  <2>2. \A s \in Slots : SumOf(u, s) = SumOf(q, s)
    BY <1>10 DEF SumOf
  <2>3. QED BY <1>11, <2>1, <2>2
<1>15. r = [v EXCEPT !.head[b] = EmptyHead, !.crc[b] = NoSum]
  BY DEF Released, TakenOut, q, u, v, before, after
<1> HIDE DEF v
<1>16. /\ r \in PoolType /\ r.links = g /\ r.first = p.first /\ r.feet = p.feet \ {b}
       /\ r.live = p.live \ {b} /\ r.used = q.used /\ r.asked = q.asked /\ r.count = q.count
       /\ r.head = [p.head EXCEPT ![b] = EmptyHead] /\ r.crc = [v.crc EXCEPT ![b] = NoSum]
  <2>1. v = [links |-> v.links, first |-> v.first, head |-> v.head, crc |-> v.crc,
             feet |-> v.feet, live |-> v.live, used |-> v.used, asked |-> v.asked, count |-> v.count]
    BY <1>12 DEF PoolType
  <2>2. r = [links |-> v.links, first |-> v.first, head |-> [v.head EXCEPT ![b] = EmptyHead],
             crc |-> [v.crc EXCEPT ![b] = NoSum],
             feet |-> v.feet, live |-> v.live, used |-> v.used, asked |-> v.asked, count |-> v.count]
    BY <1>15, <2>1
  <2>3. EmptyHead \in HeadType /\ NoSum \in SumType
    BY DEF EmptyHead, NoSum, HeadType, SumType
  <2>4. v.head \in [Slots -> HeadType] /\ v.crc \in [Slots -> SumType]
    BY <1>12 DEF PoolType
  <2>5. [v.head EXCEPT ![b] = EmptyHead] \in [Slots -> HeadType] /\ [v.crc EXCEPT ![b] = NoSum] \in [Slots -> SumType]
    BY <2>3, <2>4
  <2>6. r \in PoolType
    BY <1>12, <2>2, <2>5 DEF PoolType
  <2>7. QED BY <1>8, <1>13, <2>2, <2>6
<1>17. Chained(r)
  <2>1. IsChain(r.links, d) /\ r.first = HeadOf(d) /\ {d[i] : i \in 1..Len(d)} = r.live
    BY <1>4, <1>5, <1>6, <1>16
  <2>2. QED BY <2>1 DEF Chained, ListOf
<1>18. \A s \in Slots \ {b} : r.head[s] = p.head[s] /\ r.crc[s] = v.crc[s]
  <2>1. v.crc \in [Slots -> SumType]
    BY <1>12 DEF PoolType
  <2>2. QED BY <1>2, <1>16, <2>1
<1>19. r.head[b] = EmptyHead
  BY <1>2, <1>16
<1>20. (before # NIL => before \in p.live) /\ (after # NIL => after \in p.live)
  <2>1. Len(c) \in Nat
    BY <1>1, LenProperties DEF IsChain
  <2>2. (k # Len(c) => k + 1 \in 1..Len(c)) /\ k - 1 \in 1..Len(c)
    BY <1>3, <2>1
  <2>3. before = c[k - 1] /\ after = IF k = Len(c) THEN NIL ELSE c[k + 1]
    BY <1>1, <1>3 DEF IsChain
  <2>4. QED BY <1>1, <2>2, <2>3
<1>21. Marked(r)
  <2>1. ASSUME NEW s \in Slots \ r.live
        PROVE  r.head[s] = EmptyHead /\ r.links.prev[s] = NIL /\ r.links.next[s] = NIL
    <3>1. CASE s = b
      BY <1>4, <1>16, <1>19, <3>1
    <3>2. CASE s # b
      <4>1. s \in Slots \ p.live
        BY <1>16, <3>2
      <4>2. s # before /\ s # after
        BY <1>20, <4>1, SlotsAssumption
      <4>3. p.head[s] = EmptyHead /\ p.links.prev[s] = NIL /\ p.links.next[s] = NIL
        BY <4>1 DEF PoolOK, Marked
      <4>4. QED BY <1>4, <1>16, <1>18, <3>2, <4>2, <4>3
    <3>3. QED BY <3>1, <3>2
  <2>2. ASSUME NEW s \in r.live PROVE r.head[s].magic
    <3>1. s \in p.live /\ s \in Slots \ {b} /\ p.head[s].magic
      BY <1>2, <1>16 DEF PoolOK, Marked
    <3>2. r.head[s] = p.head[s]
      BY <1>18, <3>1
    <3>3. QED BY <3>1, <3>2
  <2>3. QED BY <2>1, <2>2 DEF Marked
<1>22. Undamaged(r, damaged \ {b})
  <2>1. r.feet \subseteq r.live /\ r.live \ (damaged \ {b}) \subseteq r.feet
    BY <1>16 DEF PoolOK, Undamaged
  <2>2. ASSUME NEW s \in r.live \ (damaged \ {b}) PROVE r.crc[s] = SumOf(r, s)
    <3>1. s \in p.live \ damaged /\ s \in Slots \ {b}
      BY <1>2, <1>16
    <3>2. r.crc[s] = v.crc[s] /\ SumOf(r, s) = SumOf(q, s)
      BY <1>8, <1>16, <1>18, <3>1 DEF SumOf
    <3>3. CASE s = before \/ s = after
      BY <1>14, <3>1, <3>2, <3>3
    <3>4. CASE s # before /\ s # after
      <4>1. p.crc[s] = SumOf(p, s)
        BY <3>1 DEF PoolOK, Undamaged
      <4>2. g.prev[s] = p.links.prev[s] /\ g.next[s] = p.links.next[s]
        BY <1>4, <3>1, <3>4
      <4>3. SumOf(q, s) = SumOf(p, s)
        BY <1>8, <4>2 DEF SumOf
      <4>4. QED BY <1>8, <1>14, <3>1, <3>2, <3>4, <4>1, <4>3
    <3>5. QED BY <3>3, <3>4
  <2>3. QED BY <2>1, <2>2 DEF Undamaged
<1>23. Counted(r, exact)
  <2> DEFINE L == p.live \ {b}
  <2>1. IsFiniteSet(p.live) /\ b \notin L /\ L \cup {b} = p.live
    BY <1>2, SlotsAssumption, FS_Subset
  <2>2. r.count = Cardinality(r.live)
    <3>1. Cardinality(L) = Cardinality(p.live) - 1
      BY <2>1, FS_RemoveElement
    <3>2. p.count = Cardinality(p.live)
      BY DEF PoolOK, Counted
    <3>3. QED BY <1>8, <1>16, <3>1, <3>2
  <2>3. \A s \in L : r.head[s] = p.head[s]
    BY <1>2, <1>18
  <2>4. r.live = L
    BY <1>16
  <2>5. /\ IsFiniteSet(BytesOf(AskedOf(r)))
        /\ Cardinality(BytesOf(AskedOf(r))) \in Nat
        /\ Cardinality(BytesOf(AskedOf(p))) = Cardinality(BytesOf(AskedOf(r))) + p.head[b].size
    <3> DEFINE f == AskedOf(r)
               e == AskedOf(p)
               n == p.head[b].size
    <3>1. DOMAIN f = L /\ DOMAIN e = L \cup {b} /\ e[b] = n /\ \A s \in L : e[s] = f[s]
      BY <2>1, <2>3, <2>4 DEF AskedOf
    <3>2. IsFiniteSet(BytesOf(e)) /\ n \in Nat
      BY <1>2, <3>1 DEF PoolOK, Counted
    <3> HIDE DEF e, f, n, L
    <3>3. IsFiniteSet(BytesOf(f)) /\ Cardinality(BytesOf(f)) \in Nat
      BY <2>1, <3>1, <3>2, BytesOfOneMore, ZenonT(60)
    <3>4. Cardinality(BytesOf(e)) = Cardinality(BytesOf(f)) + n
      BY <2>1, <3>1, <3>2, BytesOfOneMore
    <3>5. QED BY <3>1, <3>3, <3>4 DEF e, f, n
  <2>6. /\ IsFiniteSet(BytesOf(RealOf(r)))
        /\ Cardinality(BytesOf(RealOf(r))) \in Nat
        /\ Cardinality(BytesOf(RealOf(p))) = Cardinality(BytesOf(RealOf(r))) + p.head[b].real
    <3> DEFINE f == RealOf(r)
               e == RealOf(p)
               n == p.head[b].real
    <3>1. DOMAIN f = L /\ DOMAIN e = L \cup {b} /\ e[b] = n /\ \A s \in L : e[s] = f[s]
      BY <2>1, <2>3, <2>4 DEF RealOf
    <3>2. IsFiniteSet(BytesOf(e)) /\ n \in Nat
      BY <1>2, <3>1 DEF PoolOK, Counted
    <3> HIDE DEF e, f, n, L
    <3>3. IsFiniteSet(BytesOf(f)) /\ Cardinality(BytesOf(f)) \in Nat
      BY <2>1, <3>1, <3>2, BytesOfOneMore, ZenonT(60)
    <3>4. Cardinality(BytesOf(e)) = Cardinality(BytesOf(f)) + n
      BY <2>1, <3>1, <3>2, BytesOfOneMore
    <3>5. QED BY <3>1, <3>3, <3>4 DEF e, f, n
  <2>7. /\ p.asked = Cardinality(BytesOf(AskedOf(p)))
        /\ p.used >= Cardinality(BytesOf(RealOf(p)))
        /\ exact => p.used = Cardinality(BytesOf(RealOf(p)))
    BY DEF PoolOK, Counted
  <2>8. r.asked = p.asked - p.head[b].size /\ r.used = p.used - p.head[b].real
    BY <1>8, <1>16
  <2>9. r.asked = Cardinality(BytesOf(AskedOf(r)))
    BY <1>2, <2>5, <2>7, <2>8
  <2>10. r.used >= Cardinality(BytesOf(RealOf(r)))
    BY <1>2, <2>6, <2>7, <2>8
  <2>11. exact => r.used = Cardinality(BytesOf(RealOf(r)))
    BY <1>2, <2>6, <2>7, <2>8
  <2>12. QED BY <2>2, <2>5, <2>6, <2>9, <2>10, <2>11 DEF Counted
<1>24. QED BY <1>16, <1>17, <1>21, <1>22, <1>23 DEF PoolOK

\* What mem_reallocate has set before it renews the checksums
Moved(p, b, x, size) ==
  [p EXCEPT !.links = InPlaceOf(p.links, b, x),
     !.head = [p.head EXCEPT ![b] = EmptyHead,
                 ![x] = [magic |-> TRUE, size |-> size, real |-> size + 1, align |-> FALSE]],
     !.crc[b] = NoSum, !.feet = (@ \ {b}) \cup {x}, !.live = (@ \ {b}) \cup {x},
     !.used = @ - p.head[b].real + (size + 1), !.asked = @ - p.head[b].size + size]

\* A block that is not the first one is moved or resized where it is, and the pool is kept.
LEMMA ReallocatedKeeps ==
  ASSUME NEW p, NEW damaged, NEW exact, PoolOK(p, damaged, exact),
         NEW b \in p.live, b # p.first, p.head[b].real <= p.used, p.head[b].size <= p.asked,
         NEW x \in Slots, x = b \/ x \notin p.live, x \notin damaged, b \notin damaged,
         NEW size \in Nat, NEW r, r = Reallocated(p, b, x, size)
  PROVE  /\ PoolOK(r, damaged, exact)
         /\ r.live = (p.live \ {b}) \cup {x} /\ r.feet = (p.feet \ {b}) \cup {x} /\ r.first = p.first
<1> DEFINE q == Moved(p, b, x, size)
           g == InPlaceOf(p.links, b, x)
           before == p.links.prev[b]
           after == p.links.next[b]
           hd == [magic |-> TRUE, size |-> size, real |-> size + 1, align |-> FALSE]
           heads == [p.head EXCEPT ![b] = EmptyHead, ![x] = hd]
           L == p.live \ {b}
           w == Summed(q, before, after, x)
<1>2. /\ p \in PoolType /\ p.live \subseteq Slots /\ p.feet \subseteq Slots /\ b \in Slots /\ b # NIL
      /\ p.used \in Nat /\ p.asked \in Nat /\ p.count \in Nat
      /\ p.head \in [Slots -> HeadType] /\ p.crc \in [Slots -> SumType]
      /\ p.head[b].real \in Nat /\ p.head[b].size \in Nat
      /\ p.links \in LinksType /\ p.first \in Slots \cup {NIL}
  BY SlotsAssumption DEF PoolOK, PoolType, HeadType
<1>3. ListOf(p.links, p.first, p.live)
  BY DEF PoolOK, Chained
<1>4. /\ ListOf(g, p.first, L \cup {x})
      /\ x # b => g.prev[b] = NIL /\ g.next[b] = NIL
      /\ \A s \in Slots \ {b, x, before, after} :
           g.prev[s] = p.links.prev[s] /\ g.next[s] = p.links.next[s]
      /\ g \in LinksType
      /\ (before # NIL => before \in p.live) /\ (after # NIL => after \in p.live)
  <2>1. /\ before \in p.live \ {b} /\ after \in (p.live \ {b}) \cup {NIL}
        /\ p.links \in LinksType
    BY <1>3, ListNeighbours
  <2>2. ListOf(g, p.first, L \cup {x})
    BY <1>3, ListReplaced
  <2>3. /\ \A s \in Slots : g.prev[s] = IF s = x THEN before ELSE IF s = after THEN x
                                       ELSE IF s = b THEN NIL ELSE p.links.prev[s]
        /\ \A s \in Slots : g.next[s] = IF s = x THEN after ELSE IF s = before THEN x
                                       ELSE IF s = b THEN NIL ELSE p.links.next[s]
    BY DEF InPlaceOf
  <2> HIDE DEF g, before, after
  <2>4. x # b => g.prev[b] = NIL /\ g.next[b] = NIL
    BY <1>2, <2>1, <2>3
  <2>5. \A s \in Slots \ {b, x, before, after} :
          g.prev[s] = p.links.prev[s] /\ g.next[s] = p.links.next[s]
    BY <2>3
  <2>6. g \in LinksType
    BY <2>2 DEF ListOf, IsChain
  <2>7. QED BY <2>1, <2>2, <2>4, <2>5, <2>6
<1>5. g \in LinksType /\ before \in Pointers /\ after \in Pointers /\ x \in Pointers
  BY <1>2, <1>4 DEF LinksType, Pointers
<1>6. hd \in HeadType /\ EmptyHead \in HeadType /\ NoSum \in SumType
  BY DEF EmptyHead, NoSum, HeadType, SumType
<1> HIDE DEF g, hd
<1>7. /\ heads \in [Slots -> HeadType]
      /\ heads[x] = hd /\ (x # b => heads[b] = EmptyHead)
      /\ \A s \in Slots \ {b, x} : heads[s] = p.head[s]
  BY <1>2, <1>6
<1> HIDE DEF heads
<1>8. /\ q \in PoolType /\ q.links = g /\ q.first = p.first
      /\ q.head = heads /\ q.crc = [p.crc EXCEPT ![b] = NoSum] /\ q.feet = (p.feet \ {b}) \cup {x}
      /\ q.live = L \cup {x} /\ q.used = p.used - p.head[b].real + (size + 1)
      /\ q.asked = p.asked - p.head[b].size + size /\ q.count = p.count
  <2>1. p = [links |-> p.links, first |-> p.first, head |-> p.head, crc |-> p.crc,
             feet |-> p.feet, live |-> p.live, used |-> p.used, asked |-> p.asked, count |-> p.count]
    BY <1>2 DEF PoolType
  <2>2. ASSUME NEW z, z = Moved(p, b, x, size)
        PROVE  z = [links |-> g, first |-> p.first, head |-> heads,
                    crc |-> [p.crc EXCEPT ![b] = NoSum], feet |-> (p.feet \ {b}) \cup {x},
                    live |-> L \cup {x}, used |-> p.used - p.head[b].real + (size + 1),
                    asked |-> p.asked - p.head[b].size + size, count |-> p.count]
    BY <2>1, <2>2 DEF Moved, g, heads, hd
  <2>3. q = [links |-> g, first |-> p.first, head |-> heads,
             crc |-> [p.crc EXCEPT ![b] = NoSum], feet |-> (p.feet \ {b}) \cup {x},
             live |-> L \cup {x}, used |-> p.used - p.head[b].real + (size + 1),
             asked |-> p.asked - p.head[b].size + size, count |-> p.count]
    BY <2>2
  <2>4. p.used - p.head[b].real + (size + 1) \in Nat /\ p.asked - p.head[b].size + size \in Nat
    BY <1>2
  <2>5. [p.crc EXCEPT ![b] = NoSum] \in [Slots -> SumType]
    BY <1>2, <1>6
  <2> HIDE DEF q
  <2>6. QED BY <1>2, <1>5, <1>7, <2>3, <2>4, <2>5 DEF PoolType
<1> HIDE DEF q
<1>9. r = w
  BY DEF Reallocated, Moved, InPlaceOf, Summed, q, before, after
<1>10. /\ w \in PoolType
       /\ w.links = q.links /\ w.first = q.first /\ w.head = q.head /\ w.feet = q.feet
       /\ w.live = q.live /\ w.used = q.used /\ w.asked = q.asked /\ w.count = q.count
       /\ \A s \in Slots : s = before \/ s = after \/ s = x => w.crc[s] = SumOf(q, s)
       /\ \A s \in Slots : s # before /\ s # after /\ s # x => w.crc[s] = q.crc[s]
  <2>0. q \in PoolType /\ before \in Pointers /\ after \in Pointers /\ x \in Pointers
    BY <1>5, <1>8
  <2> HIDE DEF before, after
  <2>1. w \in PoolType
    BY <2>0, SumsUpdated
  <2>2. w.links = q.links /\ w.first = q.first /\ w.head = q.head /\ w.feet = q.feet
    BY <2>0, SumsUpdated
  <2>3. w.live = q.live /\ w.used = q.used /\ w.asked = q.asked /\ w.count = q.count
    BY <2>0, SumsUpdated
  <2>4. \A s \in Slots : s = before \/ s = after \/ s = x => w.crc[s] = SumOf(q, s)
    BY <2>0, SumsUpdated
  <2>5. \A s \in Slots : s # before /\ s # after /\ s # x => w.crc[s] = q.crc[s]
    BY <2>0, SumsUpdated
  <2>6. QED BY <2>1, <2>2, <2>3, <2>4, <2>5
<1> HIDE DEF w
<1>15. Chained(r)
  BY <1>4, <1>8, <1>9, <1>10 DEF Chained
<1>17. Marked(r)
  <2>1. ASSUME NEW s \in Slots \ r.live
        PROVE  r.head[s] = EmptyHead /\ r.links.prev[s] = NIL /\ r.links.next[s] = NIL
    <3>0. s # x /\ s \in Slots
      BY <1>8, <1>9, <1>10
    <3>1. CASE s = b
      BY <1>4, <1>7, <1>8, <1>9, <1>10, <3>0, <3>1
    <3>2. CASE s # b
      <4>1. s \in Slots \ p.live
        BY <1>8, <1>9, <1>10, <3>0, <3>2
      <4>2. s # before /\ s # after
        BY <1>4, <4>1, SlotsAssumption
      <4>3. p.head[s] = EmptyHead /\ p.links.prev[s] = NIL /\ p.links.next[s] = NIL
        BY <4>1 DEF PoolOK, Marked
      <4>4. QED BY <1>4, <1>7, <1>8, <1>9, <1>10, <3>0, <3>2, <4>2, <4>3
    <3>3. QED BY <3>1, <3>2
  <2>2. ASSUME NEW s \in r.live PROVE r.head[s].magic
    <3>1. CASE s = x
      BY <1>7, <1>8, <1>9, <1>10, <3>1 DEF hd
    <3>2. CASE s # x
      <4>1. s \in p.live /\ s \in Slots \ {b, x}
        BY <1>2, <1>8, <1>9, <1>10, <3>2
      <4>2. p.head[s].magic
        BY <4>1 DEF PoolOK, Marked
      <4>3. QED BY <1>7, <1>8, <1>9, <1>10, <4>1, <4>2
    <3>3. QED BY <3>1, <3>2
  <2>3. QED BY <2>1, <2>2 DEF Marked
<1>18. Undamaged(r, damaged)
  <2>1. r.feet \subseteq r.live /\ r.live \ damaged \subseteq r.feet
    BY <1>8, <1>9, <1>10 DEF PoolOK, Undamaged
  <2>2. ASSUME NEW s \in r.live \ damaged PROVE r.crc[s] = SumOf(r, s)
    <3>1. s \in Slots /\ SumOf(r, s) = SumOf(q, s)
      BY <1>2, <1>8, <1>9, <1>10 DEF SumOf
    <3>2. CASE s = before \/ s = after \/ s = x
      BY <1>9, <1>10, <3>1, <3>2
    <3>3. CASE s # before /\ s # after /\ s # x
      <4>1. s \in p.live \ damaged /\ s \in Slots \ {b, x}
        BY <1>8, <1>9, <1>10, <3>1, <3>3
      <4>2. p.crc[s] = SumOf(p, s)
        BY <4>1 DEF PoolOK, Undamaged
      <4>3. g.prev[s] = p.links.prev[s] /\ g.next[s] = p.links.next[s]
        BY <1>4, <3>3, <4>1
      <4>4. SumOf(q, s) = SumOf(p, s)
        BY <1>7, <1>8, <4>1, <4>3 DEF SumOf
      <4>5. q.crc[s] = p.crc[s]
        BY <1>2, <1>8, <4>1
      <4>6. QED BY <1>9, <1>10, <3>1, <3>3, <4>2, <4>4, <4>5
    <3>4. QED BY <3>2, <3>3
  <2>3. QED BY <2>1, <2>2 DEF Undamaged
<1>19. Counted(r, exact)
  <2>1. IsFiniteSet(p.live) /\ IsFiniteSet(L) /\ b \notin L /\ x \notin L /\ L \cup {b} = p.live
    BY <1>2, SlotsAssumption, FS_Subset
  <2>2. r.count = Cardinality(r.live)
    <3>1. Cardinality(L) = Cardinality(p.live) - 1 /\ Cardinality(p.live) \in Nat
      BY <2>1, FS_RemoveElement, FS_CardinalityType
    <3>2. Cardinality(L \cup {x}) = Cardinality(L) + 1
      BY <2>1, FS_AddElement
    <3>3. p.count = Cardinality(p.live)
      BY DEF PoolOK, Counted
    <3>4. r.count = p.count /\ r.live = L \cup {x}
      BY <1>8, <1>9, <1>10
    <3> HIDE DEF L
    <3>5. QED BY <3>1, <3>2, <3>3, <3>4
  <2>3. \A s \in L : r.head[s] = p.head[s]
    BY <1>2, <1>7, <1>8, <1>9, <1>10, <2>1
  <2>4. r.live = L \cup {x} /\ r.head[x] = hd
    BY <1>7, <1>8, <1>9, <1>10
  <2>5. /\ IsFiniteSet(BytesOf(AskedOf(r)))
        /\ \E rest \in Nat : /\ Cardinality(BytesOf(AskedOf(p))) = rest + p.head[b].size
                             /\ Cardinality(BytesOf(AskedOf(r))) = rest + size
    <3> DEFINE f == [s \in L |-> p.head[s].size]
               e == AskedOf(p)
               a == AskedOf(r)
               n == p.head[b].size
               m == size
    <3>0. x \notin L /\ b \notin L
      BY <2>1
    <3>1. DOMAIN f = L /\ DOMAIN e = L \cup {b} /\ n \in Nat /\ e[b] = n /\ \A s \in L : e[s] = f[s]
      BY <1>2, <2>1, <2>3, <2>4 DEF AskedOf, hd
    <3>7. DOMAIN a = L \cup {x} /\ m \in Nat /\ a[x] = m /\ \A s \in L : a[s] = f[s]
      BY <2>3, <2>4 DEF AskedOf, hd
    <3>2. IsFiniteSet(BytesOf(e))
      BY DEF PoolOK, Counted
    <3> HIDE DEF e, f, n, L, a, m
    <3>3. IsFiniteSet(BytesOf(f)) /\ Cardinality(BytesOf(f)) \in Nat
      BY <3>0, <3>1, <3>2, BytesOfOneMore
    <3>4. Cardinality(BytesOf(e)) = Cardinality(BytesOf(f)) + n
      BY <3>0, <3>1, <3>2, BytesOfOneMore
    <3>10. DOMAIN f = L
      BY <3>1
    <3>9. m \in Nat /\ a[x] = m
      BY <3>7
    <3>8. IsFiniteSet(BytesOf(a))
      BY <3>0, <3>3, <3>7, <3>9, <3>10, BytesOfOneMore
    <3>5. Cardinality(BytesOf(a)) = Cardinality(BytesOf(f)) + m
      BY <3>0, <3>3, <3>7, <3>9, <3>10, BytesOfOneMore
    <3>6. QED BY <3>3, <3>4, <3>5, <3>8 DEF e, a, n, m
  <2>6. /\ IsFiniteSet(BytesOf(RealOf(r)))
        /\ \E rest \in Nat : /\ Cardinality(BytesOf(RealOf(p))) = rest + p.head[b].real
                             /\ Cardinality(BytesOf(RealOf(r))) = rest + (size + 1)
    <3> DEFINE f == [s \in L |-> p.head[s].real]
               e == RealOf(p)
               a == RealOf(r)
               n == p.head[b].real
               m == size + 1
    <3>0. x \notin L /\ b \notin L
      BY <2>1
    <3>1. DOMAIN f = L /\ DOMAIN e = L \cup {b} /\ n \in Nat /\ e[b] = n /\ \A s \in L : e[s] = f[s]
      BY <1>2, <2>1, <2>3, <2>4 DEF RealOf, hd
    <3>7. DOMAIN a = L \cup {x} /\ m \in Nat /\ a[x] = m /\ \A s \in L : a[s] = f[s]
      BY <2>3, <2>4 DEF RealOf, hd
    <3>2. IsFiniteSet(BytesOf(e))
      BY DEF PoolOK, Counted
    <3> HIDE DEF e, f, n, L, a, m
    <3>3. IsFiniteSet(BytesOf(f)) /\ Cardinality(BytesOf(f)) \in Nat
      BY <3>0, <3>1, <3>2, BytesOfOneMore
    <3>4. Cardinality(BytesOf(e)) = Cardinality(BytesOf(f)) + n
      BY <3>0, <3>1, <3>2, BytesOfOneMore
    <3>10. DOMAIN f = L
      BY <3>1
    <3>9. m \in Nat /\ a[x] = m
      BY <3>7
    <3>8. IsFiniteSet(BytesOf(a))
      BY <3>0, <3>3, <3>7, <3>9, <3>10, BytesOfOneMore
    <3>5. Cardinality(BytesOf(a)) = Cardinality(BytesOf(f)) + m
      BY <3>0, <3>3, <3>7, <3>9, <3>10, BytesOfOneMore
    <3>6. QED BY <3>3, <3>4, <3>5, <3>8 DEF e, a, n, m
  <2>7. /\ p.asked = Cardinality(BytesOf(AskedOf(p)))
        /\ p.used >= Cardinality(BytesOf(RealOf(p)))
        /\ exact => p.used = Cardinality(BytesOf(RealOf(p)))
    BY DEF PoolOK, Counted
  <2>8. r.asked = p.asked - p.head[b].size + size /\ r.used = p.used - p.head[b].real + (size + 1)
    BY <1>8, <1>9, <1>10
  <2>9. r.asked = Cardinality(BytesOf(AskedOf(r)))
    BY <1>2, <2>5, <2>7, <2>8
  <2>10. r.used >= Cardinality(BytesOf(RealOf(r)))
    BY <1>2, <2>6, <2>7, <2>8
  <2>11. exact => r.used = Cardinality(BytesOf(RealOf(r)))
    BY <1>2, <2>6, <2>7, <2>8
  <2>12. QED BY <2>2, <2>5, <2>6, <2>9, <2>10, <2>11 DEF Counted
<1>20. QED BY <1>8, <1>9, <1>10, <1>15, <1>17, <1>18, <1>19 DEF PoolOK

-----------------------------------------------------------------------------
(* Blocks that may be freed *)

\* The list of a pool that is kept holds the blocks given out.
LEMMA MembersAreLive ==
  ASSUME NEW p, NEW damaged, NEW exact, PoolOK(p, damaged, exact), p.first # NIL
  PROVE  Members(p.links, p.first) = p.live
<1>1. PICK c : IsChain(p.links, c) /\ p.first = HeadOf(c) /\ {c[i] : i \in 1..Len(c)} = p.live
  BY DEF PoolOK, Chained, ListOf
<1>2. c \in Seq(Slots)
  BY <1>1 DEF IsChain
<1>3. Len(c) \in Nat /\ c # <<>>
  BY <1>1, <1>2 DEF HeadOf
<1>4. 1 \in 1..Len(c)
  BY <1>2, <1>3, EmptySeq
<1>5. p.first = c[1]
  BY <1>1, <1>3 DEF HeadOf
<1> DEFINE h == p.links
<1>6. IsChain(h, c)
  BY <1>1
<1> HIDE DEF h
<1>7. Members(h, c[1]) = {c[i] : i \in 1..Len(c)}
  BY <1>4, <1>6, ChainWalked
<1>8. QED BY <1>1, <1>5, <1>7 DEF h

\* A block that passes the checks of mem_free is given out and counted.
LEMMA SoundIsLive ==
  ASSUME NEW p, NEW damaged, NEW exact, PoolOK(p, damaged, exact), NEW b, Sound(p, b)
  PROVE  b \in p.live /\ b \in p.feet /\ p.head[b].real <= p.used /\ p.head[b].size <= p.asked
BY DEF PoolOK, Undamaged, Sound, CheckBuffer

\* A size is one of those that are counted.
LEMMA SizeCounted ==
  ASSUME NEW L, NEW b \in L, NEW f, DOMAIN f = L, f[b] \in Nat, IsFiniteSet(BytesOf(f))
  PROVE  f[b] <= Cardinality(BytesOf(f)) /\ Cardinality(BytesOf(f)) \in Nat
<1> DEFINE e == [s \in L \ {b} |-> f[s]]
<1>0. DOMAIN e = L \ {b} /\ \A s \in L \ {b} : f[s] = e[s]
  OBVIOUS
<1>00. b \notin L \ {b} /\ DOMAIN f = (L \ {b}) \cup {b}
  OBVIOUS
<1> DEFINE n == f[b]
           M == L \ {b}
<1>1. /\ b \notin M /\ DOMAIN e = M /\ DOMAIN f = M \cup {b}
      /\ (\A s \in M : f[s] = e[s]) /\ n \in Nat /\ f[b] = n
  BY <1>0, <1>00
<1> HIDE DEF e, n, M
<1>2. /\ Cardinality(BytesOf(e)) \in Nat /\ Cardinality(BytesOf(f)) = Cardinality(BytesOf(e)) + n
  BY <1>1, BytesOfOneMore
<1>3. QED BY <1>1, <1>2

\* A block that is not damaged passes the checks.
LEMMA UndamagedIsSound ==
  ASSUME NEW p, NEW damaged, NEW exact, PoolOK(p, damaged, exact), p.first # NIL,
         NEW b \in p.live \ damaged
  PROVE  Sound(p, b)
<1>1. b \in Members(p.links, p.first)
  BY MembersAreLive
<1>2. b \in p.feet /\ p.crc[b] = SumOf(p, b) /\ p.head[b].magic
  BY DEF PoolOK, Undamaged, Marked
<1>3. b \in Slots /\ p.head[b].real \in Nat /\ p.head[b].size \in Nat /\ p.used \in Nat
  BY DEF PoolOK, PoolType, HeadType
<1>4. p.head[b].real <= p.used
  <2> DEFINE f == RealOf(p)
  <2>1. DOMAIN f = p.live /\ f[b] = p.head[b].real /\ IsFiniteSet(BytesOf(f)) /\ f[b] \in Nat
    BY <1>3 DEF RealOf, PoolOK, Counted
  <2>2. p.used >= Cardinality(BytesOf(f))
    BY DEF PoolOK, Counted
  <2> HIDE DEF f
  <2>3. f[b] <= Cardinality(BytesOf(f)) /\ Cardinality(BytesOf(f)) \in Nat
    BY <2>1, SizeCounted
  <2>4. QED BY <1>3, <2>1, <2>2, <2>3
<1>5. p.head[b].size <= p.asked
  <2> DEFINE f == AskedOf(p)
  <2>1. DOMAIN f = p.live /\ f[b] = p.head[b].size /\ IsFiniteSet(BytesOf(f)) /\ f[b] \in Nat
    BY <1>3 DEF AskedOf, PoolOK, Counted
  <2>2. p.asked = Cardinality(BytesOf(f))
    BY DEF PoolOK, Counted
  <2> HIDE DEF f
  <2>3. f[b] <= Cardinality(BytesOf(f))
    BY <2>1, SizeCounted
  <2>4. QED BY <2>1, <2>2, <2>3
<1>6. QED BY <1>1, <1>2, <1>4, <1>5 DEF Sound, CheckBuffer

\* To check a block leaves a pool as it was kept; a place that holds none is refused.
LEMMA CheckedKeeps ==
  ASSUME NEW p, NEW damaged, NEW exact, PoolOK(p, damaged, exact), NEW b \in Slots,
         NEW r, r = Checked(p, b)
  PROVE  /\ PoolOK(r, damaged, exact)
         /\ r.live = p.live /\ r.feet = p.feet /\ r.first = p.first
         /\ b \notin p.live => r = p /\ ~CheckBuffer(p, b)
<1>1. CASE ~p.head[b].magic
  BY <1>1 DEF Checked, CheckBuffer
<1>2. CASE p.head[b].magic
  <2>1. p \in PoolType /\ b \in Pointers /\ r = UpdateSum(p, b)
    BY <1>2 DEF PoolOK, Pointers, Checked
  <2>2. /\ UpdateSum(p, b) \in PoolType
        /\ UpdateSum(p, b).links = p.links /\ UpdateSum(p, b).first = p.first
        /\ UpdateSum(p, b).head = p.head /\ UpdateSum(p, b).feet = p.feet
        /\ UpdateSum(p, b).live = p.live /\ UpdateSum(p, b).used = p.used
        /\ UpdateSum(p, b).asked = p.asked /\ UpdateSum(p, b).count = p.count
        /\ \A s \in Slots : UpdateSum(p, b).crc[s] = IF s = b THEN SumOf(p, s) ELSE p.crc[s]
    BY <2>1, SumUpdated
  <2>3. /\ r \in PoolType /\ r.links = p.links /\ r.first = p.first /\ r.head = p.head
        /\ r.feet = p.feet /\ r.live = p.live /\ r.used = p.used /\ r.asked = p.asked
        /\ r.count = p.count
    BY <2>1, <2>2
  <2>4. \A s \in Slots : r.crc[s] = IF s = b THEN SumOf(p, s) ELSE p.crc[s]
    BY <2>1, <2>2
  <2>5. Chained(r) /\ Marked(r)
    BY <2>3 DEF PoolOK, Chained, Marked
  <2>6. Undamaged(r, damaged)
    <3>1. r.feet \subseteq r.live /\ r.live \ damaged \subseteq r.feet
      BY <2>3 DEF PoolOK, Undamaged
    <3>2. ASSUME NEW s \in r.live \ damaged PROVE r.crc[s] = SumOf(r, s)
      <4>1. s \in Slots /\ s \in p.live \ damaged
        BY <2>3 DEF PoolType
      <4>2. p.crc[s] = SumOf(p, s) /\ SumOf(r, s) = SumOf(p, s)
        BY <2>3, <4>1 DEF PoolOK, Undamaged, SumOf
      <4>3. QED BY <2>4, <4>1, <4>2
    <3>3. QED BY <3>1, <3>2 DEF Undamaged
  <2>7. Counted(r, exact)
    BY <2>3 DEF PoolOK, Counted, AskedOf, RealOf
  <2>8. b \in p.live
    BY <1>2 DEF PoolOK, Marked, EmptyHead
  <2>9. QED BY <2>3, <2>5, <2>6, <2>7, <2>8 DEF PoolOK
<1>3. QED BY <1>1, <1>2

\* A pool in which the foot of a block, or its head, has been written over
FootLost(p, b) == [p EXCEPT !.feet = @ \ {b}]
\* The head of b overwritten
HeadHit(p, b) == [p EXCEPT !.head[b].real = 0]

\* What is written past the end of a block damages this block.
LEMMA OverrunKeeps ==
  ASSUME NEW p, NEW damaged, NEW exact, PoolOK(p, damaged, exact), NEW b,
         NEW r, r = FootLost(p, b)
  PROVE  PoolOK(r, damaged \cup {b}, exact) /\ r.live = p.live /\ r.first = p.first
<1>1. p \in PoolType
  BY DEF PoolOK
<1>2. /\ r \in PoolType /\ r.links = p.links /\ r.first = p.first /\ r.head = p.head
      /\ r.feet = p.feet \ {b} /\ r.live = p.live /\ r.used = p.used /\ r.asked = p.asked
      /\ r.count = p.count /\ r.crc = p.crc
  BY <1>1 DEF PoolType, FootLost
<1>3. Chained(r) /\ Marked(r)
  BY <1>2 DEF PoolOK, Chained, Marked
<1>4. Undamaged(r, damaged \cup {b})
  <2>1. r.feet \subseteq r.live /\ r.live \ (damaged \cup {b}) \subseteq r.feet
    BY <1>2 DEF PoolOK, Undamaged
  <2>2. \A s \in r.live \ (damaged \cup {b}) : r.crc[s] = SumOf(r, s)
    BY <1>2 DEF PoolOK, Undamaged, SumOf
  <2>3. QED BY <2>1, <2>2 DEF Undamaged
<1>5. Counted(r, exact)
  BY <1>2 DEF PoolOK, Counted, AskedOf, RealOf
<1>6. QED BY <1>2, <1>3, <1>4, <1>5 DEF PoolOK

\* What is written in front of it damages its head; the counters are no longer exact.
LEMMA UnderrunKeeps ==
  ASSUME NEW p, NEW damaged, NEW exact, PoolOK(p, damaged, exact), NEW b \in p.live,
         NEW r, r = HeadHit(p, b)
  PROVE  /\ PoolOK(r, damaged \cup {b}, FALSE)
         /\ r.live = p.live /\ r.feet = p.feet /\ r.first = p.first
<1> DEFINE heads == [p.head EXCEPT ![b].real = 0]
<1>1. p \in PoolType /\ b \in Slots /\ p.head \in [Slots -> HeadType] /\ p.head[b] \in HeadType
  BY DEF PoolOK, PoolType
<1>2. /\ heads \in [Slots -> HeadType]
      /\ \A s \in Slots : heads[s] = IF s = b THEN [p.head[b] EXCEPT !.real = 0] ELSE p.head[s]
  <2>1. [p.head[b] EXCEPT !.real = 0] \in HeadType
    BY <1>1 DEF HeadType
  <2>2. heads = [s \in Slots |-> IF s = b THEN [p.head[b] EXCEPT !.real = 0] ELSE p.head[s]]
    BY <1>1
  <2> HIDE DEF heads
  <2>3. QED BY <1>1, <2>1, <2>2
<1>20. /\ \A s \in Slots : heads[s].size = p.head[s].size /\ heads[s].magic = p.head[s].magic
       /\ heads[b].real = 0 /\ \A s \in Slots \ {b} : heads[s] = p.head[s]
  <2>1. LET h == [p.head[b] EXCEPT !.real = 0]
        IN h.size = p.head[b].size /\ h.magic = p.head[b].magic /\ h.real = 0
    BY <1>1 DEF HeadType
  <2> HIDE DEF heads
  <2>2. QED BY <1>1, <1>2, <2>1
<1>3. r = [p EXCEPT !.head = heads]
  BY <1>1 DEF PoolType, HeadHit
<1> HIDE DEF heads
<1>4. /\ r \in PoolType /\ r.links = p.links /\ r.first = p.first /\ r.head = heads
      /\ r.feet = p.feet /\ r.live = p.live /\ r.used = p.used /\ r.asked = p.asked
      /\ r.count = p.count /\ r.crc = p.crc
  BY <1>1, <1>2, <1>3 DEF PoolType
<1>5. Chained(r)
  BY <1>4 DEF PoolOK, Chained
<1>6. Marked(r)
  <2>1. \A s \in Slots \ p.live :
          p.head[s] = EmptyHead /\ p.links.prev[s] = NIL /\ p.links.next[s] = NIL
    BY DEF PoolOK, Marked
  <2>2. \A s \in p.live : s \in Slots /\ p.head[s].magic
    BY <1>1 DEF PoolOK, Marked, PoolType
  <2>3. QED BY <1>4, <1>20, <2>1, <2>2 DEF Marked
<1>7. Undamaged(r, damaged \cup {b})
  <2>1. r.feet \subseteq r.live /\ r.live \ (damaged \cup {b}) \subseteq r.feet
    BY <1>4 DEF PoolOK, Undamaged
  <2>2. \A s \in r.live \ (damaged \cup {b}) : r.crc[s] = SumOf(r, s)
    <3>1. ASSUME NEW s \in p.live \ (damaged \cup {b}) PROVE r.crc[s] = SumOf(r, s)
      <4>1. s \in Slots \ {b} /\ p.crc[s] = SumOf(p, s)
        BY <1>1 DEF PoolOK, Undamaged, PoolType
      <4>2. QED BY <1>4, <1>20, <4>1 DEF SumOf
    <3>2. QED BY <1>4, <3>1
  <2>3. QED BY <2>1, <2>2 DEF Undamaged
<1>8. Counted(r, FALSE)
  <2>1. AskedOf(r) = AskedOf(p)
    BY <1>4, <1>20 DEF AskedOf, PoolOK, PoolType
  <2>2. BytesOf(RealOf(r)) \in SUBSET BytesOf(RealOf(p))
    <3>1. DOMAIN RealOf(r) = p.live /\ DOMAIN RealOf(p) = p.live
      BY <1>4 DEF RealOf
    <3>2. ASSUME NEW s \in p.live PROVE 1..(RealOf(r)[s]) \subseteq 1..(RealOf(p)[s])
      <4>1. CASE s = b
        BY <1>4, <1>20, <4>1 DEF RealOf
      <4>2. CASE s # b
        <5>1. s \in Slots \ {b}
          BY <1>1, <4>2 DEF PoolType
        <5>2. QED BY <1>4, <1>20, <5>1 DEF RealOf
      <4>3. QED BY <4>1, <4>2
    <3>3. QED BY <3>1, <3>2 DEF BytesOf
  <2>3. /\ IsFiniteSet(BytesOf(RealOf(p))) /\ p.used >= Cardinality(BytesOf(RealOf(p)))
        /\ p.count = Cardinality(p.live)
        /\ IsFiniteSet(BytesOf(AskedOf(p))) /\ p.asked = Cardinality(BytesOf(AskedOf(p)))
    BY DEF PoolOK, Counted
  <2>4. /\ IsFiniteSet(BytesOf(RealOf(r)))
        /\ Cardinality(BytesOf(RealOf(r))) <= Cardinality(BytesOf(RealOf(p)))
    BY <2>2, <2>3, FS_Subset
  <2>5. /\ Cardinality(BytesOf(RealOf(r))) \in Nat /\ Cardinality(BytesOf(RealOf(p))) \in Nat
        /\ p.used \in Nat
    BY <1>1, <2>3, <2>4, FS_CardinalityType DEF PoolType
  <2>6. p.used >= Cardinality(BytesOf(RealOf(r)))
    BY <2>3, <2>4, <2>5
  <2>7. QED BY <1>4, <2>1, <2>3, <2>4, <2>6 DEF Counted
<1>9. QED BY <1>4, <1>5, <1>6, <1>7, <1>8 DEF PoolOK

-----------------------------------------------------------------------------
(* Places *)

\* TLSF finds a free place whenever there is one.
LEMMA PlacedIsFree ==
  ASSUME NEW p
  PROVE  /\ Slots \subseteq p.live => Placed(p) = NIL
         /\ ~(Slots \subseteq p.live) => Placed(p) \in Slots \ p.live /\ Placed(p) # NIL
<1>1. CASE Slots \subseteq p.live
  BY <1>1 DEF Placed
<1>2. CASE ~(Slots \subseteq p.live)
  <2>1. Slots \ p.live \subseteq Nat /\ Slots \ p.live # {}
    BY <1>2, SlotsAssumption
  <2>2. Min(Slots \ p.live) \in Slots \ p.live
    BY <2>1, MinOf
  <2>3. QED BY <1>2, <2>2, SlotsAssumption DEF Placed
<1>3. QED BY <1>1, <1>2

\* A pool without blocks is kept.
LEMMA NewPoolKept == PoolOK(NewPool, {}, TRUE) /\ NewPool.live = {} /\ NewPool.first = NIL
<1>1. NewPool \in PoolType
  BY DEF NewPool, PoolType, LinksType, Unlinked, EmptyHead, NoSum, HeadType, SumType
<1>2. IsChain(NewPool.links, <<>>)
  <2>1. Unlinked \in LinksType
    BY DEF Unlinked, LinksType
  <2>2. QED BY <2>1 DEF NewPool, IsChain
<1>3. Chained(NewPool)
  <2>1. NIL = HeadOf(<<>>) /\ {<<>>[i] : i \in 1..Len(<<>>)} = {}
    BY DEF HeadOf
  <2>2. NewPool.first = NIL /\ NewPool.live = {}
    BY DEF NewPool
  <2>3. QED BY <1>2, <2>1, <2>2 DEF Chained, ListOf
<1>4. Marked(NewPool)
  BY DEF NewPool, Marked, Unlinked
<1>5. Undamaged(NewPool, {})
  BY DEF NewPool, Undamaged
<1>6. Counted(NewPool, TRUE)
  <2>1. BytesOf(AskedOf(NewPool)) = {} /\ BytesOf(RealOf(NewPool)) = {}
    BY DEF NewPool, BytesOf, AskedOf, RealOf
  <2>2. IsFiniteSet({}) /\ Cardinality({}) = 0
    BY FS_EmptySet
  <2>3. NewPool.count = 0 /\ NewPool.asked = 0 /\ NewPool.used = 0 /\ NewPool.live = {}
    BY DEF NewPool
  <2>4. QED BY <2>1, <2>2, <2>3 DEF Counted
<1>7. QED BY <1>1, <1>3, <1>4, <1>5, <1>6 DEF PoolOK, NewPool

\* The block that mem_allocate adds to a pool with i - 1 of them
Another(p, i) == Allocate(p, i, 1, FALSE)

\* The pools with 0, 1, .. n blocks
Steps(f, n) == [i \in 0..n |-> IF i = 0 THEN NewPool ELSE Another(f[i - 1], i)]

\* A pool that is kept and has the blocks 1, .. i
Filled(p, i) ==
  PoolOK(p, {}, TRUE) /\ p.live = 1..i /\ p.first = IF i = 0 THEN NIL ELSE 1

\* Each block the program starts with keeps the pool.
LEMMA FilledMore ==
  ASSUME NEW p, NEW m \in Nat, Filled(p, m), m + 1 \in Slots
  PROVE  Filled(Another(p, m + 1), m + 1)
<1> DEFINE b == m + 1
           r == Another(p, b)
<1>1. /\ PoolOK(p, {}, TRUE) /\ p.live = 1..m /\ p.first = IF m = 0 THEN NIL ELSE 1
      /\ b \notin 1..m /\ 1..b = 1..m \cup {b} /\ b \in Slots /\ (m = 0 => b = 1)
      /\ b # 0 /\ 1 # NIL /\ 1 \in Nat
  <2>1. b \notin 1..m /\ 1..b = 1..m \cup {b} /\ b # 0 /\ (m = 0 => b = 1) /\ 1 \in Nat
    OBVIOUS
  <2>2. PoolOK(p, {}, TRUE) /\ p.live = 1..m /\ p.first = IF m = 0 THEN NIL ELSE 1
    BY DEF Filled
  <2>3. 1 \in 1..b
    OBVIOUS
  <2>4. m = 0 \/ p.first # NIL
    <3>1. CASE m = 0
      BY <3>1
    <3>2. CASE m # 0
      <4>1. 1 \in p.live
        BY <2>2, <3>2
      <4>2. p.live \subseteq Slots
        BY <2>2 DEF PoolOK, PoolType
      <4>3. QED BY <2>2, <3>2, <4>1, <4>2, SlotsAssumption
    <3>3. QED BY <3>1, <3>2
  <2>5. 1 # NIL
    <3>1. CASE m = 0
      BY <2>1, <3>1, SlotsAssumption
    <3>2. CASE m # 0
      BY <2>2, <2>4, <3>2
    <3>3. QED BY <3>1, <3>2
  <2>6. QED BY <2>1, <2>2, <2>5
<1>2. r = Allocate(p, b, 1, FALSE)
  BY DEF Another
<1> DEFINE none == {}
           exact == TRUE
           align == FALSE
           size == 1
<1>3. /\ b \in Slots \ p.live /\ b \notin none /\ align \in BOOLEAN /\ size \in Nat
      /\ PoolOK(p, none, exact) /\ r = Allocate(p, b, size, align)
  BY <1>1, <1>2
<1> HIDE DEF b, r, none, exact, align, size
<1>4. /\ PoolOK(r, none, exact) /\ r.live = p.live \cup {b}
      /\ p.first # NIL => r.first = p.first
      /\ p.first = NIL => r.first = b
  BY <1>3, Allocated
<1>5. r.live = 1..b
  BY <1>1, <1>4
<1>6. r.first = 1
  <2>1. CASE m = 0
    BY <1>1, <1>4, <2>1
  <2>2. CASE m # 0
    BY <1>1, <1>4, <2>2
  <2>3. QED BY <2>1, <2>2
<1>7. Filled(r, b)
  BY <1>1, <1>4, <1>5, <1>6 DEF Filled, none, exact
<1>8. QED BY <1>7 DEF r, b

\* The recursive function that gives the pool the program starts with exists.
LEMMA StepsExist ==
  ASSUME NEW n \in Nat
  PROVE  \E f : f = Steps(f, n)
<1> DEFINE A == {m \in Nat : \E f : f = Steps(f, m)}
<1>1. 0 \in A
  <2> DEFINE f == [i \in 0..0 |-> NewPool]
  <2>1. f = Steps(f, 0)
    BY DEF Steps
  <2>2. QED BY <2>1
<1>2. ASSUME NEW m \in Nat, m \in A PROVE m + 1 \in A
  <2>1. PICK f : f = Steps(f, m)
    BY <1>2
  <2> DEFINE g == [i \in 0..(m + 1) |-> IF i <= m THEN f[i] ELSE Another(f[m], m + 1)]
  <2>2. ASSUME NEW i \in 0..(m + 1)
        PROVE  g[i] = IF i = 0 THEN NewPool ELSE Another(g[i - 1], i)
    <3>1. CASE i = 0
      <4>1. f[0] = NewPool
        BY <2>1 DEF Steps
      <4>2. QED BY <3>1, <4>1
    <3>2. CASE i # 0 /\ i <= m
      <4>1. i \in 0..m /\ i - 1 \in 0..m
        BY <3>2
      <4>2. f[i] = Another(f[i - 1], i)
        BY <2>1, <3>2, <4>1 DEF Steps
      <4>3. g[i] = f[i] /\ g[i - 1] = f[i - 1]
        BY <4>1
      <4>4. QED BY <3>2, <4>2, <4>3
    <3>3. CASE i = m + 1
      <4>1. g[i] = Another(f[m], m + 1) /\ g[i - 1] = f[m] /\ i # 0
        BY <3>3
      <4>2. QED BY <3>3, <4>1
    <3>4. QED BY <3>1, <3>2, <3>3
  <2>3. DOMAIN g = 0..(m + 1) /\ g = [i \in 0..(m + 1) |-> g[i]]
    OBVIOUS
  <2> HIDE DEF g
  <2>4. g = Steps(g, m + 1)
    BY <2>2, <2>3 DEF Steps
  <2>5. QED BY <2>4
<1> HIDE DEF A
<1>3. Nat \subseteq A
  BY <1>1, <1>2, SetInduction
<1>4. QED BY <1>3 DEF A

\* The first n blocks are those of the context and the services.
LEMMA PoolWithKept ==
  ASSUME NEW n \in Nat \ {0}, 1..n \subseteq Slots
  PROVE  PoolOK(PoolWith(n), {}, TRUE) /\ PoolWith(n).live = 1..n /\ PoolWith(n).first = 1
<1> DEFINE f == CHOOSE f : f = Steps(f, n)
<1>1. PoolWith(n) = f[n]
  BY DEF PoolWith, Steps, Another
<1>2. f = Steps(f, n)
  BY StepsExist
<1> HIDE DEF f
<1> DEFINE A == {i \in Nat : i <= n => Filled(f[i], i)}
<1>3. 0 \in A
  <2>1. f[0] = NewPool /\ 1..0 = {}
    BY <1>2 DEF Steps
  <2>2. Filled(NewPool, 0)
    BY <2>1, NewPoolKept DEF Filled
  <2>3. QED BY <2>1, <2>2
<1>4. ASSUME NEW m \in Nat, m \in A PROVE m + 1 \in A
  <2>1. SUFFICES ASSUME m + 1 <= n PROVE Filled(f[m + 1], m + 1)
    OBVIOUS
  <2>2. /\ m + 1 \in Slots /\ m + 1 \in 0..n /\ m + 1 # 0 /\ (m + 1) - 1 = m /\ m <= n
        /\ m + 1 \in 1..n
    BY <2>1
  <2>3. Filled(f[m], m)
    BY <1>4, <2>2
  <2>4. f[m + 1] = Another(f[m], m + 1)
    BY <1>2, <2>2 DEF Steps
  <2>5. QED BY <2>2, <2>3, <2>4, FilledMore
<1>5. n \in A => Filled(f[n], n)
  OBVIOUS
<1> HIDE DEF A
<1>6. Nat \subseteq A
  BY <1>3, <1>4, SetInduction
<1>7. Filled(f[n], n)
  BY <1>5, <1>6
<1>8. QED BY <1>1, <1>7 DEF Filled

\* The state of a sequence of mem_free in which none has failed
Intact(p) == [pool |-> p, ok |-> TRUE]

\* A block that passes the checks is released, and the pool is kept.
LEMMA ReleasedSound ==
  ASSUME NEW p, NEW damaged, NEW exact, PoolOK(p, damaged, exact), NEW b, b # p.first, Sound(p, b)
  PROVE  /\ PoolOK(Released(p, b), damaged \ {b}, exact)
         /\ Released(p, b).live = p.live \ {b} /\ Released(p, b).feet = p.feet \ {b}
         /\ Released(p, b).first = p.first
<1> DEFINE r == Released(p, b)
<1>1. b \in p.live /\ p.head[b].real <= p.used /\ p.head[b].size <= p.asked
  BY SoundIsLive
<1>2. r = Released(p, b)
  OBVIOUS
<1> HIDE DEF r
<1>3. /\ PoolOK(r, damaged \ {b}, exact)
      /\ r.live = p.live \ {b} /\ r.feet = p.feet \ {b} /\ r.first = p.first
  BY <1>1, <1>2, ReleasedKeeps, SMTT(30)
<1>4. QED BY <1>3 DEF r

\* mem_free of a block that is not damaged is carried out.
LEMMA ReleaseKeeps ==
  ASSUME NEW p, NEW damaged, NEW exact, PoolOK(p, damaged, exact), p.first # NIL,
         NEW b \in p.live \ damaged, b # p.first
  PROVE  \E r : /\ Release(Intact(p), b) = Intact(r)
                /\ PoolOK(r, damaged, exact)
                /\ r.live = p.live \ {b} /\ r.feet = p.feet \ {b} /\ r.first = p.first
<1> DEFINE r == Released(p, b)
           s == Intact(p)
<1>1. Sound(p, b)
  BY UndamagedIsSound
<1>2. p.head[b].real <= p.used /\ p.head[b].size <= p.asked
  BY <1>1, SoundIsLive
<1>3. damaged \ {b} = damaged
  OBVIOUS
<1>4. Release(s, b) = Intact(r)
  <2>1. s.ok /\ s.pool = p
    BY DEF Intact
  <2>2. Release(s, b) = [s EXCEPT !.pool = r]
    <3> HIDE DEF s
    <3> QED BY <1>1, <2>1 DEF Release
  <2> DEFINE t == TRUE
  <2>3. s = [pool |-> p, ok |-> t] /\ Intact(r) = [pool |-> r, ok |-> t]
    BY DEF Intact
  <2> HIDE DEF r, s, t
  <2>4. [s EXCEPT !.pool = r] = [pool |-> r, ok |-> t]
    BY <2>3
  <2>5. QED BY <2>2, <2>3, <2>4
<1> HIDE DEF r, s
<1>6. /\ PoolOK(r, damaged \ {b}, exact)
      /\ r.live = p.live \ {b} /\ r.feet = p.feet \ {b} /\ r.first = p.first
  BY <1>1, ReleasedSound DEF r
<1>7. QED BY <1>3, <1>4, <1>6 DEF s

-----------------------------------------------------------------------------
(* The list of the variables *)

\* A variable with its blocks
VarType ==
  [key : Keys, value : Values, data : Slots, name : Slots, item : Slots, node : Slots]

\* A variable is in four blocks.
FourBlocks(v) ==
  /\ v.data # v.name /\ v.data # v.item /\ v.data # v.node
  /\ v.name # v.item /\ v.name # v.node /\ v.item # v.node

\* The blocks of all variables
VarBlocks(list) == UNION {BlocksOf(list[i]) : i \in DOMAIN list}

\* Every key is there once, and no two variables share a block.
ListKept(list) ==
  /\ list \in Seq(VarType)
  /\ \A i \in DOMAIN list : FourBlocks(list[i])
  /\ \A i, j \in DOMAIN list : list[i].key = list[j].key => i = j
  /\ \A i, j \in DOMAIN list : BlocksOf(list[i]) \cap BlocksOf(list[j]) # {} => i = j

\* What freeing the blocks of a variable gives, in a pool that has them all
LEMMA FreedKeeps ==
  ASSUME NEW damaged, NEW exact, PoolOK(pool, damaged, exact), pool.first # NIL,
         NEW v \in VarType, FourBlocks(v), BlocksOf(v) \subseteq pool.live \ (damaged \cup {pool.first})
  PROVE  \E r : /\ Freed(v) = Intact(r)
                /\ PoolOK(r, damaged, exact)
                /\ r.live = pool.live \ BlocksOf(v) /\ r.feet = pool.feet \ BlocksOf(v)
                /\ r.first = pool.first
<1>0. /\ v.data \in pool.live \ damaged /\ v.name \in pool.live \ damaged
      /\ v.item \in pool.live \ damaged /\ v.node \in pool.live \ damaged
      /\ v.data # pool.first /\ v.name # pool.first /\ v.item # pool.first /\ v.node # pool.first
  BY DEF BlocksOf
<1>1. PICK p1 : /\ Release(Intact(pool), v.data) = Intact(p1)
                /\ PoolOK(p1, damaged, exact)
                /\ p1.live = pool.live \ {v.data} /\ p1.feet = pool.feet \ {v.data}
                /\ p1.first = pool.first
  BY <1>0, ReleaseKeeps
<1>2. v.name \in p1.live \ damaged /\ v.name # p1.first /\ p1.first # NIL
  BY <1>0, <1>1 DEF FourBlocks
<1>3. PICK p2 : /\ Release(Intact(p1), v.name) = Intact(p2)
                /\ PoolOK(p2, damaged, exact)
                /\ p2.live = p1.live \ {v.name} /\ p2.feet = p1.feet \ {v.name}
                /\ p2.first = p1.first
  BY <1>1, <1>2, ReleaseKeeps
<1>4. v.item \in p2.live \ damaged /\ v.item # p2.first /\ p2.first # NIL
  BY <1>0, <1>1, <1>3 DEF FourBlocks
<1>5. PICK p3 : /\ Release(Intact(p2), v.item) = Intact(p3)
                /\ PoolOK(p3, damaged, exact)
                /\ p3.live = p2.live \ {v.item} /\ p3.feet = p2.feet \ {v.item}
                /\ p3.first = p2.first
  BY <1>3, <1>4, ReleaseKeeps
<1>6. v.node \in p3.live \ damaged /\ v.node # p3.first /\ p3.first # NIL
  BY <1>0, <1>1, <1>3, <1>5 DEF FourBlocks
<1>7. PICK p4 : /\ Release(Intact(p3), v.node) = Intact(p4)
                /\ PoolOK(p4, damaged, exact)
                /\ p4.live = p3.live \ {v.node} /\ p4.feet = p3.feet \ {v.node}
                /\ p4.first = p3.first
  BY <1>5, <1>6, ReleaseKeeps
<1>8. Freed(v) = Intact(p4)
  BY <1>1, <1>3, <1>5, <1>7 DEF Freed, Intact
<1>9. p4.live = pool.live \ BlocksOf(v) /\ p4.feet = pool.feet \ BlocksOf(v) /\ p4.first = pool.first
  BY <1>1, <1>3, <1>5, <1>7 DEF BlocksOf
<1>10. QED BY <1>7, <1>8, <1>9

\* var_cmp finds the one variable of a key.
At(list, k) ==
  LET at == {i \in DOMAIN list : list[i].key = k}
  IN IF at = {} THEN 0 ELSE Min(at)

\* The item of a key is found if and only if there is one.
LEMMA AtIs ==
  ASSUME NEW list, ListKept(list), NEW k
  PROVE  /\ \A i \in DOMAIN list : list[i].key = k => At(list, k) = i
         /\ At(list, k) # 0 => At(list, k) \in DOMAIN list /\ list[At(list, k)].key = k
         /\ 0 \notin DOMAIN list
<1> DEFINE at == {i \in DOMAIN list : list[i].key = k}
<1>1. DOMAIN list = 1..Len(list) /\ Len(list) \in Nat
  BY LenProperties DEF ListKept
<1>2. at \subseteq Nat /\ 0 \notin DOMAIN list
  BY <1>1
<1>3. at # {} => Min(at) \in at
  <2> HIDE DEF at
  <2> QED BY <1>2, MinOf
<1>4. At(list, k) = IF at = {} THEN 0 ELSE Min(at)
  BY DEF At
<1>5. \A i, j \in DOMAIN list : list[i].key = list[j].key => i = j
  BY DEF ListKept
<1>6. QED BY <1>2, <1>3, <1>4, <1>5

\* What GetVariable gives for a list
Got(list, k) == IF At(list, k) = 0 THEN NONE ELSE list[At(list, k)].value

\* GetVariable gives the contents of the one item with the key.
LEMMA GotIs ==
  ASSUME NEW list, ListKept(list), NEW k
  PROVE  /\ \A i \in DOMAIN list : list[i].key = k => Got(list, k) = list[i].value
         /\ (\A i \in DOMAIN list : list[i].key # k) => Got(list, k) = NONE
         /\ Got(list, k) = NONE <=> At(list, k) = 0
<1>1. \A i \in DOMAIN list : list[i].value \in Values /\ list[i].value # NONE
  <2>1. \A i \in DOMAIN list : list[i] \in VarType
    BY ElementOfSeq, LenProperties DEF ListKept
  <2>2. QED BY <2>1, NoneAssumption DEF VarType
<1>2. /\ \A i \in DOMAIN list : list[i].key = k => At(list, k) = i
      /\ At(list, k) # 0 => At(list, k) \in DOMAIN list /\ list[At(list, k)].key = k
      /\ 0 \notin DOMAIN list
  BY AtIs
<1>3. QED BY <1>1, <1>2 DEF Got

\* A variable taken out
LEMMA ListDeleted ==
  ASSUME NEW list, ListKept(list), NEW n \in DOMAIN list
  PROVE  /\ ListKept(RemoveAt(list, n))
         /\ VarBlocks(RemoveAt(list, n)) = VarBlocks(list) \ BlocksOf(list[n])
         /\ \A k : Got(RemoveAt(list, n), k) = IF k = list[n].key THEN NONE ELSE Got(list, k)
<1> DEFINE d == RemoveAt(list, n)
           m(i) == IF i < n THEN i ELSE i + 1
<1>1. /\ d \in Seq(VarType) /\ Len(list) \in Nat /\ n \in 1..Len(list)
      /\ DOMAIN d = 1..(Len(list) - 1) /\ DOMAIN list = 1..Len(list)
      /\ \A i \in 1..(Len(list) - 1) : d[i] = IF i < n THEN list[i] ELSE list[i + 1]
  BY RemovedAt, LenProperties DEF ListKept
<1> HIDE DEF d
<1>2. \A i \in DOMAIN d : m(i) \in DOMAIN list \ {n} /\ d[i] = list[m(i)]
  BY <1>1
<1>3. \A i, j \in DOMAIN d : m(i) = m(j) => i = j
  BY <1>1
<1>4. \A j \in DOMAIN list \ {n} : \E i \in DOMAIN d : m(i) = j
  <2> SUFFICES ASSUME NEW j \in DOMAIN list \ {n} PROVE \E i \in DOMAIN d : m(i) = j
    OBVIOUS
  <2>1. CASE j < n
    <3>1. j \in DOMAIN d /\ m(j) = j
      BY <1>1, <2>1
    <3>2. QED BY <3>1
  <2>2. CASE ~(j < n)
    <3>1. j - 1 \in DOMAIN d /\ m(j - 1) = j
      BY <1>1, <2>2
    <3>2. QED BY <3>1
  <2>3. QED BY <2>1, <2>2
<1> HIDE DEF m
<1>5. ListKept(d)
  <2>1. \A i \in DOMAIN d : FourBlocks(d[i])
    BY <1>2 DEF ListKept
  <2>2. \A i, j \in DOMAIN d : d[i].key = d[j].key => i = j
    BY <1>2, <1>3 DEF ListKept
  <2>3. \A i, j \in DOMAIN d : BlocksOf(d[i]) \cap BlocksOf(d[j]) # {} => i = j
    BY <1>2, <1>3 DEF ListKept
  <2>4. QED BY <1>1, <2>1, <2>2, <2>3 DEF ListKept
<1>6. VarBlocks(d) = VarBlocks(list) \ BlocksOf(list[n])
  <2>1. ASSUME NEW b \in VarBlocks(d) PROVE b \in VarBlocks(list) \ BlocksOf(list[n])
    <3>1. PICK i \in DOMAIN d : b \in BlocksOf(d[i])
      BY DEF VarBlocks
    <3>2. m(i) \in DOMAIN list /\ b \in BlocksOf(list[m(i)]) /\ m(i) # n
      BY <1>2, <3>1
    <3>3. b \notin BlocksOf(list[n])
      BY <3>2 DEF ListKept
    <3>4. QED BY <3>2, <3>3 DEF VarBlocks
  <2>2. ASSUME NEW b \in VarBlocks(list), b \notin BlocksOf(list[n]) PROVE b \in VarBlocks(d)
    <3>1. PICK j \in DOMAIN list : b \in BlocksOf(list[j])
      BY DEF VarBlocks
    <3>2. PICK i \in DOMAIN d : m(i) = j
      BY <1>4, <2>2, <3>1
    <3>3. b \in BlocksOf(d[i])
      BY <1>2, <3>1, <3>2
    <3>4. QED BY <3>2, <3>3 DEF VarBlocks
  <2>3. QED BY <2>1, <2>2
<1>7. ASSUME NEW k PROVE Got(d, k) = IF k = list[n].key THEN NONE ELSE Got(list, k)
  <2>1. CASE k = list[n].key
    <3>1. \A i \in DOMAIN d : d[i].key # k
      BY <1>2, <2>1 DEF ListKept
    <3>2. QED BY <1>5, <2>1, <3>1, GotIs
  <2>2. CASE k # list[n].key
    <3>1. CASE \E j \in DOMAIN list : list[j].key = k
      <4>1. PICK j \in DOMAIN list : list[j].key = k
        BY <3>1
      <4>2. PICK i \in DOMAIN d : m(i) = j
        BY <1>4, <2>2, <4>1
      <4>3. d[i] = list[j]
        BY <1>2, <4>2
      <4>4. Got(d, k) = d[i].value /\ Got(list, k) = list[j].value
        BY <1>5, <4>1, <4>2, <4>3, GotIs
      <4>5. QED BY <2>2, <4>3, <4>4
    <3>2. CASE \A j \in DOMAIN list : list[j].key # k
      <4>1. \A i \in DOMAIN d : d[i].key # k
        BY <1>2, <3>2
      <4>2. QED BY <1>5, <2>2, <3>2, <4>1, GotIs
    <3>3. QED BY <3>1, <3>2
  <2>3. QED BY <2>1, <2>2
<1>8. QED BY <1>5, <1>6, <1>7 DEF d

\* The contents of a variable in another block
Renewed(list, n, d, x) == [list EXCEPT ![n].data = d, ![n].value = x]

\* New contents in a free block change what one key gives and nothing else.
LEMMA ListChanged ==
  ASSUME NEW list, ListKept(list), NEW n \in DOMAIN list,
         NEW b \in Slots \ VarBlocks(list), NEW x \in Values
  PROVE  /\ ListKept(Renewed(list, n, b, x))
         /\ VarBlocks(Renewed(list, n, b, x)) = (VarBlocks(list) \cup {b}) \ {list[n].data}
         /\ list[n].data \in VarBlocks(list)
         /\ \A k : Got(Renewed(list, n, b, x), k) = IF k = list[n].key THEN x ELSE Got(list, k)
<1> DEFINE d == Renewed(list, n, b, x)
           v == list[n]
           w == [list[n] EXCEPT !.data = b, !.value = x]
<1>1. /\ DOMAIN list = 1..Len(list) /\ Len(list) \in Nat
      /\ \A i \in DOMAIN list : list[i] \in VarType
      /\ list \in [1..Len(list) -> VarType]
  <2>1. DOMAIN list = 1..Len(list) /\ Len(list) \in Nat /\ list \in [1..Len(list) -> VarType]
    BY LenProperties DEF ListKept
  <2>2. QED BY <2>1
<1>2. /\ w \in VarType /\ w.key = v.key /\ w.value = x /\ w.data = b
      /\ w.name = v.name /\ w.item = v.item /\ w.node = v.node
  BY <1>1 DEF VarType
<1>3. /\ DOMAIN d = DOMAIN list /\ d[n] = w /\ \A i \in DOMAIN list \ {n} : d[i] = list[i]
  <2>1. d = [list EXCEPT ![n] = w]
    BY <1>1 DEF Renewed, VarType
  <2> HIDE DEF d, w
  <2>2. QED BY <2>1
<1> HIDE DEF d, w
<1>4. \A i \in DOMAIN list : BlocksOf(list[i]) \subseteq VarBlocks(list)
  BY DEF VarBlocks
<1>5. BlocksOf(w) = (BlocksOf(v) \ {v.data}) \cup {b}
  <2>1. FourBlocks(v)
    BY DEF ListKept
  <2>2. QED BY <1>2, <2>1 DEF BlocksOf, FourBlocks
<1>6. FourBlocks(w)
  <2>1. FourBlocks(v)
    BY DEF ListKept
  <2>2. b \notin BlocksOf(v)
    BY <1>4
  <2>3. QED BY <1>2, <2>1, <2>2 DEF BlocksOf, FourBlocks
<1>7. ListKept(d)
  <2>1. d \in Seq(VarType)
    <3>1. d \in [1..Len(list) -> VarType]
      <4>1. d = [i \in 1..Len(list) |-> d[i]]
        <5>1. d = [list EXCEPT ![n] = w]
          BY <1>1 DEF Renewed, VarType, d, w
        <5>2. QED BY <1>1, <5>1
      <4>2. \A i \in 1..Len(list) : d[i] \in VarType
        BY <1>1, <1>2, <1>3
      <4>3. QED BY <4>1, <4>2
    <3>2. QED BY <1>1, <3>1
  <2>2. \A i \in DOMAIN d : FourBlocks(d[i])
    BY <1>3, <1>6 DEF ListKept
  <2>3. \A i \in DOMAIN d : d[i].key = list[i].key
    BY <1>2, <1>3
  <2>4. \A i, j \in DOMAIN d : d[i].key = d[j].key => i = j
    BY <1>3, <2>3 DEF ListKept
  <2>5. \A i \in DOMAIN list \ {n} : BlocksOf(d[i]) \cap BlocksOf(w) = {}
    BY <1>3, <1>4, <1>5 DEF ListKept
  <2>6. ASSUME NEW i \in DOMAIN d, NEW j \in DOMAIN d, BlocksOf(d[i]) \cap BlocksOf(d[j]) # {}
        PROVE  i = j
    <3>1. CASE i = n \/ j = n
      BY <1>3, <2>5, <2>6, <3>1
    <3>2. CASE i # n /\ j # n
      BY <1>3, <2>6, <3>2 DEF ListKept
    <3>3. QED BY <3>1, <3>2
  <2>7. QED BY <2>1, <2>2, <2>4, <2>6 DEF ListKept
<1>8. v.data \in BlocksOf(v) /\ v.data \in VarBlocks(list)
  <2>1. v.data \in BlocksOf(v)
    BY DEF BlocksOf
  <2>2. QED BY <1>4, <2>1
<1>9. VarBlocks(d) = (VarBlocks(list) \cup {b}) \ {v.data}
  <2>1. ASSUME NEW c \in VarBlocks(d) PROVE c \in (VarBlocks(list) \cup {b}) \ {v.data}
    <3>1. PICK i \in DOMAIN d : c \in BlocksOf(d[i])
      BY DEF VarBlocks
    <3>2. CASE i = n
      <4>1. c \in BlocksOf(w)
        BY <1>3, <3>1, <3>2
      <4>2. b # v.data
        BY <1>8
      <4>3. QED BY <1>4, <1>5, <4>1, <4>2
    <3>3. CASE i # n
      <4>1. i \in DOMAIN list /\ c \in BlocksOf(list[i])
        BY <1>3, <3>1, <3>3
      <4>2. c \notin BlocksOf(v)
        BY <3>3, <4>1 DEF ListKept
      <4>3. QED BY <1>4, <1>8, <4>1, <4>2
    <3>4. QED BY <3>2, <3>3
  <2>2. ASSUME NEW c \in (VarBlocks(list) \cup {b}) \ {v.data} PROVE c \in VarBlocks(d)
    <3>0. n \in DOMAIN d
      BY <1>3
    <3>1. CASE c = b
      <4>1. c \in BlocksOf(d[n])
        BY <1>3, <1>5, <3>1
      <4>2. QED BY <3>0, <4>1 DEF VarBlocks
    <3>2. CASE c # b
      <4>1. PICK i \in DOMAIN list : c \in BlocksOf(list[i])
        BY <2>2, <3>2 DEF VarBlocks
      <4>2. c \in BlocksOf(d[i]) /\ i \in DOMAIN d
        BY <1>3, <1>5, <2>2, <4>1
      <4>3. QED BY <4>2 DEF VarBlocks
    <3>3. QED BY <3>1, <3>2
  <2>3. QED BY <2>1, <2>2
<1>10. ASSUME NEW k PROVE Got(d, k) = IF k = v.key THEN x ELSE Got(list, k)
  <2>0. \A i \in DOMAIN d : d[i].key = list[i].key
    BY <1>2, <1>3
  <2>1. CASE k = v.key
    <3>1. n \in DOMAIN d /\ d[n].key = k /\ d[n].value = x
      BY <1>2, <1>3, <2>1
    <3>2. QED BY <1>7, <2>1, <3>1, GotIs
  <2>2. CASE k # v.key
    <3>1. CASE \E j \in DOMAIN list : list[j].key = k
      <4>1. PICK j \in DOMAIN list : list[j].key = k
        BY <3>1
      <4>2. d[j] = list[j] /\ j \in DOMAIN d
        BY <1>3, <2>2, <4>1
      <4>3. Got(d, k) = d[j].value /\ Got(list, k) = list[j].value
        BY <1>7, <4>1, <4>2, GotIs
      <4>4. QED BY <2>2, <4>2, <4>3
    <3>2. CASE \A j \in DOMAIN list : list[j].key # k
      <4>1. \A i \in DOMAIN d : d[i].key # k
        BY <1>3, <2>0, <3>2
      <4>2. QED BY <1>7, <2>2, <3>2, <4>1, GotIs
    <3>3. QED BY <3>1, <3>2
  <2>3. QED BY <2>1, <2>2
<1>11. QED BY <1>7, <1>8, <1>9, <1>10 DEF d

\* A variable added
LEMMA ListGrown ==
  ASSUME NEW list, ListKept(list), NEW v \in VarType, FourBlocks(v),
         BlocksOf(v) \cap VarBlocks(list) = {}, \A i \in DOMAIN list : list[i].key # v.key
  PROVE  /\ ListKept(Append(list, v))
         /\ VarBlocks(Append(list, v)) = VarBlocks(list) \cup BlocksOf(v)
         /\ \A k : Got(Append(list, v), k) = IF k = v.key THEN v.value ELSE Got(list, k)
<1> DEFINE d == Append(list, v)
           m == Len(list) + 1
<1>1. /\ d \in Seq(VarType) /\ DOMAIN d = DOMAIN list \cup {m} /\ m \notin DOMAIN list
      /\ d[m] = v /\ \A i \in DOMAIN list : d[i] = list[i]
  <2>1. /\ d \in Seq(VarType) /\ Len(list) \in Nat
        /\ DOMAIN list = 1..Len(list) /\ DOMAIN d = 1..(Len(list) + 1)
        /\ \A i \in 1..Len(list) : d[i] = list[i]
        /\ d[Len(list) + 1] = v
    BY Appended DEF ListKept
  <2>2. QED BY <2>1
<1> HIDE DEF d, m
<1>2. \A i \in DOMAIN list : BlocksOf(list[i]) \subseteq VarBlocks(list)
  BY DEF VarBlocks
<1>3. ListKept(d)
  <2>1. \A i \in DOMAIN d : FourBlocks(d[i])
    BY <1>1 DEF ListKept
  <2>2. \A i, j \in DOMAIN d : d[i].key = d[j].key => i = j
    BY <1>1 DEF ListKept
  <2>3. \A i, j \in DOMAIN d : BlocksOf(d[i]) \cap BlocksOf(d[j]) # {} => i = j
    BY <1>1, <1>2 DEF ListKept
  <2>4. QED BY <1>1, <2>1, <2>2, <2>3 DEF ListKept
<1>4. VarBlocks(d) = VarBlocks(list) \cup BlocksOf(v)
  BY <1>1 DEF VarBlocks
<1>5. ASSUME NEW k PROVE Got(d, k) = IF k = v.key THEN v.value ELSE Got(list, k)
  <2>1. CASE k = v.key
    BY <1>1, <1>3, <2>1, GotIs
  <2>2. CASE k # v.key
    <3>1. CASE \E j \in DOMAIN list : list[j].key = k
      <4>1. PICK j \in DOMAIN list : list[j].key = k
        BY <3>1
      <4>2. d[j] = list[j] /\ j \in DOMAIN d
        BY <1>1, <4>1
      <4>3. Got(d, k) = d[j].value /\ Got(list, k) = list[j].value
        BY <1>3, <4>1, <4>2, GotIs
      <4>4. QED BY <2>2, <4>2, <4>3
    <3>2. CASE \A j \in DOMAIN list : list[j].key # k
      <4>1. \A i \in DOMAIN d : d[i].key # k
        BY <1>1, <2>2, <3>2
      <4>2. QED BY <1>3, <2>2, <3>2, <4>1, GotIs
    <3>3. QED BY <3>1, <3>2
  <2>3. QED BY <2>1, <2>2
<1>6. QED BY <1>3, <1>4, <1>5 DEF d

-----------------------------------------------------------------------------
(* The inductive invariant *)

\* The blocks of others than the variables
Rest == others \cup held \cup ({cfgBlock} \ {NIL})

\* The pool is kept, only blocks of the program are damaged, and the first block is
\* the one of the context.
PoolInv ==
  /\ PoolOK(pool, hurt, ~smashed)
  /\ aborted \in BOOLEAN /\ smashed \in BOOLEAN /\ short \in BOOLEAN
  /\ pool.first \in others
  /\ hurt \subseteq held
  /\ aborted => hurt # {} \/ short

\* Every block belongs to one owner, and to one at least if no room was ever missing.
Apart ==
  /\ others \cap held = {}
  /\ cfgBlock \notin others \cup held
  /\ VarBlocks(vars) \cap Rest = {}
  /\ Rest \cup VarBlocks(vars) \subseteq pool.live
  /\ short \/ pool.live \subseteq Rest \cup VarBlocks(vars)

\* The pool, its owners and the list of the variables
OwnersInv == PoolInv /\ Apart /\ ListKept(vars)

\* A block that has no foot any more stays where it is.
DamagedStay == pool.live \ pool.feet \subseteq pool'.live

\* What OwnersInv says of blocks
LEMMA Owners ==
  ASSUME OwnersInv
  PROVE  /\ pool.live \subseteq Slots /\ pool.first \in pool.live /\ pool.first # NIL
         /\ pool.first \notin VarBlocks(vars) /\ pool.first \notin held
         /\ pool.first # cfgBlock /\ hurt \subseteq pool.live /\ cfgBlock \notin hurt
         /\ VarBlocks(vars) \cap hurt = {} /\ NIL \notin VarBlocks(vars) /\ NIL \notin pool.live
         /\ pool.live \ hurt \subseteq pool.feet
         /\ \A i \in DOMAIN vars : vars[i] \in VarType /\ BlocksOf(vars[i]) \subseteq VarBlocks(vars)
<1>1. pool.live \subseteq Slots /\ pool.live \ hurt \subseteq pool.feet
  BY DEF OwnersInv, PoolInv, PoolOK, PoolType, Undamaged
<1>2. NIL \notin pool.live
  BY <1>1, SlotsAssumption
<1>3. /\ pool.first \in others /\ hurt \subseteq held /\ others \subseteq Rest /\ held \subseteq Rest
      /\ Rest \cup VarBlocks(vars) \subseteq pool.live /\ VarBlocks(vars) \cap Rest = {}
      /\ others \cap held = {} /\ cfgBlock \notin others \cup held
  BY DEF OwnersInv, PoolInv, Apart, Rest
<1>4. \A i \in DOMAIN vars : BlocksOf(vars[i]) \subseteq VarBlocks(vars)
  BY DEF VarBlocks
<1>5. \A i \in DOMAIN vars : vars[i] \in VarType
  BY LenProperties, ElementOfSeq DEF OwnersInv, ListKept
<1>6. QED BY <1>1, <1>2, <1>3, <1>4, <1>5

-----------------------------------------------------------------------------
(* Steps of SetVariable *)

\* A call of SetVariable that leaves the pool kept keeps the invariant.
LEMMA OutcomeKeeps ==
  ASSUME OwnersInv, NEW s, NEW isShort \in BOOLEAN, NEW list, NEW answer,
         Outcome(s, isShort, list, answer),
         PoolOK(s.pool, hurt, ~smashed), s.ok \in BOOLEAN, s.ok \/ isShort,
         s.pool.first = pool.first, pool.live \ pool.feet \subseteq s.pool.live,
         ListKept(list), VarBlocks(list) \cap Rest = {},
         Rest \cup VarBlocks(list) \subseteq s.pool.live,
         short \/ isShort \/ s.pool.live \subseteq Rest \cup VarBlocks(list)
  PROVE  OwnersInv' /\ DamagedStay /\ aborted' = ~s.ok /\ vars' = list /\ said' = answer
<1>1. /\ pool' = s.pool /\ aborted' = ~s.ok /\ short' = (short \/ isShort) /\ vars' = list
      /\ said' = answer /\ others' = others /\ held' = held /\ hurt' = hurt /\ smashed' = smashed
      /\ cfgBlock' = cfgBlock
  BY DEF Outcome, tableVars
<1>2. PoolInv'
  <2>1. aborted' \in BOOLEAN /\ short' \in BOOLEAN /\ smashed' \in BOOLEAN
    BY <1>1 DEF OwnersInv, PoolInv
  <2>2. PoolOK(pool', hurt', ~smashed')
    BY <1>1
  <2>3. pool'.first \in others' /\ hurt' \subseteq held'
    BY <1>1 DEF OwnersInv, PoolInv
  <2>4. aborted' => hurt' # {} \/ short'
    BY <1>1
  <2>5. QED BY <2>1, <2>2, <2>3, <2>4 DEF PoolInv
<1>3. Apart'
  <2>1. Rest' = Rest
    BY <1>1 DEF Rest
  <2>2. others' \cap held' = {} /\ cfgBlock' \notin others' \cup held'
    BY <1>1 DEF OwnersInv, Apart
  <2>3. /\ VarBlocks(vars') \cap Rest' = {} /\ Rest' \cup VarBlocks(vars') \subseteq pool'.live
        /\ short' \/ pool'.live \subseteq Rest' \cup VarBlocks(vars')
    BY <1>1, <2>1
  <2>4. QED BY <2>2, <2>3 DEF Apart
<1>4. ListKept(vars')
  BY <1>1
<1>5. DamagedStay
  BY <1>1 DEF DamagedStay
<1>6. QED BY <1>1, <1>2, <1>3, <1>4, <1>5 DEF OwnersInv

\* An allocation in the place that TLSF finds
LEMMA TakenKeeps ==
  ASSUME NEW p, NEW damaged, NEW exact, PoolOK(p, damaged, exact), p.first # NIL,
         damaged \subseteq p.live, NEW b, b = Placed(p)
  PROVE  /\ PoolOK(Taken(p, b), damaged, exact) /\ Taken(p, b).first = p.first
         /\ b = NIL => Slots \subseteq p.live /\ Taken(p, b) = p
         /\ b # NIL => /\ b \in Slots \ p.live
                       /\ Taken(p, b).live = p.live \cup {b} /\ Taken(p, b).feet = p.feet \cup {b}
<1>1. CASE b = NIL
  <2>1. Slots \subseteq p.live /\ Taken(p, b) = p
    BY <1>1, PlacedIsFree DEF Taken
  <2>2. QED BY <1>1, <2>1
<1>2. CASE b # NIL
  <2> DEFINE r == Taken(p, b)
             size == 1
             align == FALSE
  <2>1. b \in Slots \ p.live /\ b \notin damaged
    BY <1>2, PlacedIsFree
  <2>2. r = Allocate(p, b, size, align) /\ size \in Nat /\ align \in BOOLEAN
    BY <1>2 DEF Taken
  <2> HIDE DEF r, size, align
  <2>3. /\ PoolOK(r, damaged, exact)
        /\ r.live = p.live \cup {b} /\ r.feet = p.feet \cup {b}
        /\ p.first # NIL => r.first = p.first
    BY <2>1, <2>2, Allocated
  <2>4. QED BY <1>2, <2>1, <2>3 DEF r
<1>3. QED BY <1>1, <1>2

\* SetVariable without contents
LEMMA DeleteKeeps ==
  ASSUME OwnersInv, NEW k, DeleteVariable(k)
  PROVE  /\ OwnersInv' /\ DamagedStay /\ aborted' = FALSE
         /\ At(vars, k) = 0 => vars' = vars /\ said' = "not_found"
         /\ At(vars, k) # 0 => vars' = RemoveAt(vars, At(vars, k)) /\ said' = "success"
<1> DEFINE i == At(vars, k)
           exact == ~smashed
           none == FALSE
<1>0. Found(k) = i /\ none \in BOOLEAN
  BY DEF Found, At
<1>1. PoolOK(pool, hurt, exact) /\ ListKept(vars)
  BY DEF OwnersInv, PoolInv
<1>2. CASE i = 0
  <2> DEFINE s == [pool |-> pool, ok |-> TRUE]
             answer == "not_found"
  <2>1. Outcome(s, none, vars, answer)
    BY <1>0, <1>2 DEF DeleteVariable
  <2>2. s.pool = pool /\ s.ok = TRUE
    OBVIOUS
  <2> HIDE DEF s, exact, none, answer
  <2>3. /\ VarBlocks(vars) \cap Rest = {} /\ Rest \cup VarBlocks(vars) \subseteq s.pool.live
        /\ short \/ none \/ s.pool.live \subseteq Rest \cup VarBlocks(vars)
        /\ s.pool.first = pool.first /\ pool.live \ pool.feet \subseteq s.pool.live
    BY <2>2 DEF OwnersInv, Apart
  <2>4. PoolOK(s.pool, hurt, ~smashed)
    BY <1>1, <2>2 DEF exact
  <2>5. OwnersInv' /\ DamagedStay /\ aborted' = ~s.ok /\ vars' = vars /\ said' = answer
    BY <1>0, <1>1, <2>1, <2>2, <2>3, <2>4, OutcomeKeeps
  <2>6. QED BY <1>2, <2>2, <2>5 DEF answer
<1>3. CASE i # 0
  <2> DEFINE v == vars[i]
             s == Freed(v)
             list == RemoveAt(vars, i)
             answer == "success"
  <2>1. Outcome(s, none, list, answer)
    BY <1>0, <1>3 DEF DeleteVariable
  <2>2. i \in DOMAIN vars
    BY <1>1, <1>3, AtIs
  <2>3. /\ v \in VarType /\ FourBlocks(v) /\ BlocksOf(v) \subseteq VarBlocks(vars)
    BY <1>1, <2>2, Owners DEF ListKept
  <2>4. BlocksOf(v) \subseteq pool.live \ (hurt \cup {pool.first}) /\ pool.first # NIL
    BY <2>3, Owners DEF OwnersInv, Apart
  <2> HIDE DEF v, exact, none
  <2>5. PICK r : /\ s = Intact(r)
                 /\ PoolOK(r, hurt, exact)
                 /\ r.live = pool.live \ BlocksOf(v) /\ r.feet = pool.feet \ BlocksOf(v)
                 /\ r.first = pool.first
    BY <1>1, <2>3, <2>4, FreedKeeps
  <2>6. s.pool = r /\ s.ok = TRUE
    BY <2>5 DEF Intact
  <2>7. ListKept(list) /\ VarBlocks(list) = VarBlocks(vars) \ BlocksOf(v)
    BY <1>1, <2>2, ListDeleted DEF v
  <2> HIDE DEF s, list, answer
  <2>8. /\ VarBlocks(list) \cap Rest = {} /\ Rest \cup VarBlocks(list) \subseteq r.live
        /\ short \/ r.live \subseteq Rest \cup VarBlocks(list)
    BY <2>3, <2>5, <2>7 DEF OwnersInv, Apart
  <2>9. pool.live \ pool.feet \subseteq r.live
    BY <2>4, <2>5, Owners
  <2>10. PoolOK(s.pool, hurt, ~smashed)
    BY <2>5, <2>6 DEF exact
  <2>11. /\ VarBlocks(list) \cap Rest = {} /\ Rest \cup VarBlocks(list) \subseteq s.pool.live
         /\ short \/ none \/ s.pool.live \subseteq Rest \cup VarBlocks(list)
         /\ s.pool.first = pool.first /\ pool.live \ pool.feet \subseteq s.pool.live
    BY <2>5, <2>6, <2>8, <2>9
  <2>12. OwnersInv' /\ DamagedStay /\ aborted' = ~s.ok /\ vars' = list /\ said' = answer
    BY <1>0, <2>1, <2>6, <2>7, <2>10, <2>11, OutcomeKeeps
  <2>13. QED BY <1>3, <2>6, <2>12 DEF list, answer
<1>4. QED BY <1>2, <1>3

\* The pool has three places left at most.
NoRoom == \E a, b, c : Slots \ pool.live \subseteq {a, b, c}

\* What GetVariable gives after the contents of k have been set
NowHas(list, k, x) == \A other : Got(list, other) = IF other = k THEN x ELSE Got(vars, other)

\* A call of SetVariable that has changed nothing but the pool keeps the invariant if
\* the pool has only blocks that are owned, or it was short of room.
LEMMA NothingSetKeeps ==
  ASSUME OwnersInv, NEW s, NEW answer, Outcome(s, TRUE, vars, answer),
         PoolOK(s.pool, hurt, ~smashed), s.ok \in BOOLEAN,
         s.pool.first = pool.first, pool.live \subseteq s.pool.live
  PROVE  OwnersInv' /\ DamagedStay /\ aborted' = ~s.ok /\ vars' = vars /\ said' = answer
<1> DEFINE isShort == TRUE
<1>1. Outcome(s, isShort, vars, answer) /\ isShort \in BOOLEAN /\ isShort
  OBVIOUS
<1>2. ListKept(vars) /\ VarBlocks(vars) \cap Rest = {} /\ Rest \cup VarBlocks(vars) \subseteq s.pool.live
  BY DEF OwnersInv, Apart
<1>3. pool.live \ pool.feet \subseteq s.pool.live
  OBVIOUS
<1> HIDE DEF isShort
<1>4. QED BY <1>1, <1>2, <1>3, OutcomeKeeps

\* New contents of a variable that exists are stored, or refused for want of room.
LEMMA ReplaceKeeps ==
  ASSUME OwnersInv, NEW k, NEW x \in Values, ReplaceVariable(k, x)
  PROVE  /\ OwnersInv' /\ DamagedStay /\ aborted' = FALSE
         /\ \/ NoRoom /\ vars' = vars /\ said' = "out_of_resources"
            \/ NowHas(vars', k, x) /\ said' = "success"
<1> DEFINE i == At(vars, k)
           d == Placed(pool)
           v == vars[i]
           p1 == Taken(pool, d)
           exact == ~smashed
<1>1. PoolOK(pool, hurt, exact) /\ ListKept(vars) /\ Found(k) = i /\ i # 0
  BY DEF OwnersInv, PoolInv, Found, At, ReplaceVariable
<1>2. /\ i \in DOMAIN vars /\ v.key = k /\ v \in VarType /\ BlocksOf(v) \subseteq VarBlocks(vars)
      /\ v.data \in VarBlocks(vars)
  <2>1. i \in DOMAIN vars /\ v.key = k
    BY <1>1, AtIs
  <2>2. v \in VarType /\ BlocksOf(v) \subseteq VarBlocks(vars)
    BY <2>1, Owners
  <2>3. v.data \in BlocksOf(v)
    BY DEF BlocksOf
  <2>4. QED BY <2>1, <2>2, <2>3
<1>3. CASE d = NIL
  <2> DEFINE s == Intact(pool)
             answer == "out_of_resources"
  <2>1. Outcome(s, TRUE, vars, answer)
    BY <1>1, <1>3 DEF ReplaceVariable, Intact
  <2>2. s.pool = pool /\ s.ok = TRUE
    BY DEF Intact
  <2>3. PoolOK(pool, hurt, ~smashed)
    BY <1>1
  <2> HIDE DEF s, answer
  <2>4. OwnersInv' /\ DamagedStay /\ aborted' = ~s.ok /\ vars' = vars /\ said' = answer
    BY <2>1, <2>2, <2>3, NothingSetKeeps
  <2>5. NoRoom
    BY <1>3, PlacedIsFree DEF NoRoom
  <2>6. QED BY <2>2, <2>4, <2>5 DEF answer
<1>4. CASE d # NIL
  <2> DEFINE s == Release(Intact(p1), v.data)
             list == Renewed(vars, i, d, x)
             none == FALSE
             answer == "success"
  <2>1. Outcome(s, none, list, answer)
    BY <1>1, <1>4 DEF ReplaceVariable, Intact, Renewed
  <2>2. pool.first # NIL /\ hurt \subseteq pool.live /\ pool.first \notin VarBlocks(vars)
    BY Owners
  <2>3. /\ d \in Slots \ pool.live
        /\ PoolOK(p1, hurt, exact) /\ p1.first = pool.first
        /\ p1.live = pool.live \cup {d} /\ p1.feet = pool.feet \cup {d}
    <3>1. d = Placed(pool)
      OBVIOUS
    <3> HIDE DEF d, exact
    <3>2. QED BY <1>1, <1>4, <2>2, <3>1, TakenKeeps
  <2>4. v.data \in p1.live \ hurt /\ v.data # p1.first /\ p1.first # NIL
    BY <1>2, <2>2, <2>3, Owners DEF OwnersInv, Apart
  <2> HIDE DEF p1, v, d, exact, none, answer
  <2>5. PICK r : /\ s = Intact(r)
                 /\ PoolOK(r, hurt, exact)
                 /\ r.live = p1.live \ {v.data} /\ r.feet = p1.feet \ {v.data}
                 /\ r.first = p1.first
    BY <2>3, <2>4, ReleaseKeeps
  <2>6. s.pool = r /\ s.ok = TRUE
    BY <2>5 DEF Intact
  <2>7. d \in Slots \ VarBlocks(vars)
    BY <2>3 DEF OwnersInv, Apart
  <2>8. /\ ListKept(list)
        /\ VarBlocks(list) = (VarBlocks(vars) \cup {d}) \ {v.data}
        /\ \A other : Got(list, other) = IF other = k THEN x ELSE Got(vars, other)
    BY <1>1, <1>2, <2>7, ListChanged DEF v
  <2> HIDE DEF s, list
  <2>9. /\ VarBlocks(list) \cap Rest = {} /\ Rest \cup VarBlocks(list) \subseteq r.live
        /\ short \/ r.live \subseteq Rest \cup VarBlocks(list)
    <3>1. /\ VarBlocks(vars) \cap Rest = {} /\ Rest \cup VarBlocks(vars) \subseteq pool.live
          /\ short \/ pool.live \subseteq Rest \cup VarBlocks(vars)
      BY DEF OwnersInv, Apart
    <3>2. v.data \notin Rest /\ d \notin Rest
      BY <1>2, <2>3, <3>1
    <3>3. r.live = (pool.live \cup {d}) \ {v.data}
      BY <2>3, <2>5
    <3>4. QED BY <2>8, <3>1, <3>2, <3>3
  <2>10. pool.live \ pool.feet \subseteq r.live
    <3>1. v.data \in pool.feet
      BY <1>2, Owners DEF OwnersInv, Apart
    <3>2. QED BY <2>3, <2>5, <3>1
  <2>11. PoolOK(s.pool, hurt, ~smashed)
    BY <2>5, <2>6 DEF exact
  <2>12. /\ VarBlocks(list) \cap Rest = {} /\ Rest \cup VarBlocks(list) \subseteq s.pool.live
         /\ short \/ none \/ s.pool.live \subseteq Rest \cup VarBlocks(list)
         /\ s.pool.first = pool.first /\ pool.live \ pool.feet \subseteq s.pool.live
    BY <2>3, <2>5, <2>6, <2>9, <2>10
  <2>13. none \in BOOLEAN
    BY DEF none
  <2>14. OwnersInv' /\ DamagedStay /\ aborted' = ~s.ok /\ vars' = list /\ said' = answer
    BY <2>1, <2>6, <2>8, <2>11, <2>12, <2>13, OutcomeKeeps
  <2>15. NowHas(vars', k, x)
    BY <2>8, <2>14 DEF NowHas
  <2>16. QED BY <2>6, <2>14, <2>15 DEF answer
<1>5. QED BY <1>3, <1>4

\* A new variable, for which room may be missing at four places
LEMMA CreateKeeps ==
  ASSUME OwnersInv, NEW k \in Keys, NEW x \in Values, CreateVariable(k, x)
  PROVE  /\ OwnersInv' /\ DamagedStay /\ At(vars, k) = 0
         /\ \/ NoRoom /\ vars' = vars /\ said' = "out_of_resources" /\ aborted' = FALSE
            \/ NoRoom /\ vars' = vars /\ said' = "success" /\ aborted' = FALSE
            \/ vars' = vars /\ said' = said
            \/ NowHas(vars', k, x) /\ said' = "success" /\ aborted' = FALSE
<1> DEFINE data == Placed(pool)
           p1 == Taken(pool, data)
           name == Placed(p1)
           p2 == Taken(p1, name)
           item == Placed(p2)
           p3 == Taken(p2, item)
           node == Placed(p3)
           p4 == Taken(p3, node)
           v == [key |-> k, value |-> x, data |-> data, name |-> name, item |-> item, node |-> node]
           exact == ~smashed
<1>1. /\ PoolOK(pool, hurt, exact) /\ ListKept(vars) /\ At(vars, k) = 0
      /\ pool.first # NIL /\ hurt \subseteq pool.live
  BY Owners DEF OwnersInv, PoolInv, Found, At, CreateVariable
<1>2. \/ data = NIL /\ Outcome(Intact(pool), TRUE, vars, "out_of_resources")
      \/ data # NIL /\ name = NIL /\ Outcome(Release(Intact(p1), data), TRUE, vars, "out_of_resources")
      \/ name # NIL /\ item = NIL /\ Outcome(Intact(p2), TRUE, vars, "success")
      \/ item # NIL /\ node = NIL /\ Outcome([pool |-> p3, ok |-> FALSE], TRUE, vars, said)
      \/ node # NIL /\ Outcome(Intact(p4), FALSE, Append(vars, v), "success")
  BY DEF CreateVariable, Intact
<1> HIDE DEF exact
<1>3. /\ PoolOK(p1, hurt, exact) /\ p1.first = pool.first
      /\ data = NIL => Slots \subseteq pool.live /\ p1 = pool
      /\ data # NIL => /\ data \in Slots \ pool.live
                       /\ p1.live = pool.live \cup {data} /\ p1.feet = pool.feet \cup {data}
  <2>1. data = Placed(pool)
    OBVIOUS
  <2> HIDE DEF data
  <2>2. QED BY <1>1, <2>1, TakenKeeps
<1> HIDE DEF p1
<1>4. pool.live \subseteq p1.live /\ hurt \subseteq p1.live /\ p1.first # NIL
  BY <1>1, <1>3
<1>5. /\ PoolOK(p2, hurt, exact) /\ p2.first = pool.first
      /\ name = NIL => Slots \subseteq p1.live /\ p2 = p1
      /\ name # NIL => name \in Slots \ p1.live /\ p2.live = p1.live \cup {name}
  <2>1. name = Placed(p1)
    OBVIOUS
  <2> HIDE DEF name
  <2>2. QED BY <1>3, <1>4, <2>1, TakenKeeps
<1> HIDE DEF p2
<1>6. p1.live \subseteq p2.live /\ hurt \subseteq p2.live /\ p2.first # NIL
  BY <1>1, <1>4, <1>5
<1>7. /\ PoolOK(p3, hurt, exact) /\ p3.first = pool.first
      /\ item = NIL => Slots \subseteq p2.live /\ p3 = p2
      /\ item # NIL => item \in Slots \ p2.live /\ p3.live = p2.live \cup {item}
  <2>1. item = Placed(p2)
    OBVIOUS
  <2> HIDE DEF item
  <2>2. QED BY <1>5, <1>6, <2>1, TakenKeeps
<1> HIDE DEF p3
<1>8. p2.live \subseteq p3.live /\ hurt \subseteq p3.live /\ p3.first # NIL
  BY <1>1, <1>6, <1>7
<1>9. /\ PoolOK(p4, hurt, exact) /\ p4.first = pool.first
      /\ node # NIL => node \in Slots \ p3.live /\ p4.live = p3.live \cup {node}
  <2>1. node = Placed(p3)
    OBVIOUS
  <2> HIDE DEF node
  <2>2. QED BY <1>7, <1>8, <2>1, TakenKeeps
<1> HIDE DEF p4
<1>10. (name # NIL => data # NIL) /\ (item # NIL => name # NIL) /\ (node # NIL => item # NIL)
  <2>1. data = NIL => name = NIL
    BY <1>3
  <2>2. name = NIL => item = NIL
    BY <1>5, PlacedIsFree
  <2>3. item = NIL => node = NIL
    BY <1>7, PlacedIsFree
  <2>4. QED BY <2>1, <2>2, <2>3
<1> HIDE DEF data, name, item, node
<1>11. ASSUME data = NIL, Outcome(Intact(pool), TRUE, vars, "out_of_resources")
       PROVE  /\ OwnersInv' /\ DamagedStay
              /\ NoRoom /\ vars' = vars /\ said' = "out_of_resources" /\ aborted' = FALSE
  <2> DEFINE s == Intact(pool)
             answer == "out_of_resources"
  <2>1. Outcome(s, TRUE, vars, answer) /\ s.pool = pool /\ s.ok = TRUE
    BY <1>11 DEF Intact
  <2>2. PoolOK(pool, hurt, ~smashed)
    BY <1>1 DEF exact
  <2> HIDE DEF s, answer
  <2>3. OwnersInv' /\ DamagedStay /\ aborted' = ~s.ok /\ vars' = vars /\ said' = answer
    BY <2>1, <2>2, NothingSetKeeps
  <2>4. NoRoom
    BY <1>3, <1>11 DEF NoRoom
  <2>5. QED BY <2>1, <2>3, <2>4 DEF answer
<1>12. ASSUME data # NIL, name = NIL,
              Outcome(Release(Intact(p1), data), TRUE, vars, "out_of_resources")
       PROVE  /\ OwnersInv' /\ DamagedStay
              /\ NoRoom /\ vars' = vars /\ said' = "out_of_resources" /\ aborted' = FALSE
  <2> DEFINE s == Release(Intact(p1), data)
             answer == "out_of_resources"
  <2>1. Outcome(s, TRUE, vars, answer)
    BY <1>12
  <2>2. data \in p1.live \ hurt /\ data # p1.first
    BY <1>1, <1>3, <1>12, Owners
  <2>3. PICK r : /\ s = Intact(r) /\ PoolOK(r, hurt, exact)
                 /\ r.live = p1.live \ {data} /\ r.first = p1.first
    BY <1>3, <1>4, <2>2, ReleaseKeeps
  <2> HIDE DEF s, answer
  <2>4. /\ s.pool = r /\ s.ok = TRUE /\ PoolOK(s.pool, hurt, ~smashed)
        /\ s.pool.first = pool.first /\ pool.live \subseteq s.pool.live
    BY <1>3, <1>12, <2>3 DEF Intact, exact
  <2>5. OwnersInv' /\ DamagedStay /\ aborted' = ~s.ok /\ vars' = vars /\ said' = answer
    BY <2>1, <2>4, NothingSetKeeps
  <2>6. NoRoom
    BY <1>3, <1>5, <1>12 DEF NoRoom
  <2>7. QED BY <2>4, <2>5, <2>6 DEF answer
<1>13. ASSUME name # NIL, item = NIL, Outcome(Intact(p2), TRUE, vars, "success")
       PROVE  /\ OwnersInv' /\ DamagedStay
              /\ NoRoom /\ vars' = vars /\ said' = "success" /\ aborted' = FALSE
  <2> DEFINE s == Intact(p2)
             answer == "success"
  <2>1. /\ Outcome(s, TRUE, vars, answer) /\ s.pool = p2 /\ s.ok = TRUE
        /\ PoolOK(s.pool, hurt, ~smashed)
    BY <1>5, <1>13 DEF Intact, exact
  <2> HIDE DEF s, answer
  <2>2. OwnersInv' /\ DamagedStay /\ aborted' = ~s.ok /\ vars' = vars /\ said' = answer
    BY <1>4, <1>5, <1>6, <2>1, NothingSetKeeps
  <2>3. NoRoom
    BY <1>3, <1>5, <1>7, <1>10, <1>13 DEF NoRoom
  <2>4. QED BY <2>1, <2>2, <2>3 DEF answer
<1>14. ASSUME item # NIL, node = NIL, Outcome([pool |-> p3, ok |-> FALSE], TRUE, vars, said)
       PROVE  OwnersInv' /\ DamagedStay /\ vars' = vars /\ said' = said
  <2> DEFINE s == [pool |-> p3, ok |-> FALSE]
  <2>1. s.pool = p3 /\ s.ok = FALSE
    OBVIOUS
  <2>2. Outcome(s, TRUE, vars, said)
    BY <1>14
  <2> HIDE DEF s
  <2>3. PoolOK(s.pool, hurt, ~smashed) /\ s.ok \in BOOLEAN
    BY <1>7, <2>1 DEF exact
  <2>4. QED BY <1>4, <1>6, <1>7, <1>8, <2>1, <2>2, <2>3, NothingSetKeeps
<1>15. ASSUME node # NIL, Outcome(Intact(p4), FALSE, Append(vars, v), "success")
       PROVE  /\ OwnersInv' /\ DamagedStay
              /\ NowHas(vars', k, x) /\ said' = "success" /\ aborted' = FALSE
  <2> DEFINE s == Intact(p4)
             answer == "success"
             none == FALSE
             list == Append(vars, v)
  <2>1. /\ Outcome(s, none, list, answer) /\ s.pool = p4 /\ s.ok = TRUE /\ none \in BOOLEAN
        /\ PoolOK(s.pool, hurt, ~smashed)
    BY <1>9, <1>15 DEF Intact, exact
  <2>2. data \in Slots /\ name \in Slots /\ item \in Slots /\ node \in Slots
    BY <1>3, <1>5, <1>7, <1>9, <1>10, <1>15
  <2>3. v \in VarType /\ v.key = k /\ v.value = x
    BY <2>2 DEF VarType
  <2>4. FourBlocks(v) /\ BlocksOf(v) = {data, name, item, node}
    <3>1. /\ name # data /\ item # data /\ node # data
          /\ item # name /\ node # name /\ node # item
      BY <1>3, <1>4, <1>5, <1>6, <1>7, <1>8, <1>9, <1>10, <1>15
    <3>2. QED BY <3>1 DEF FourBlocks, BlocksOf
  <2>5. /\ p4.live = pool.live \cup {data, name, item, node}
        /\ {data, name, item, node} \cap pool.live = {}
    BY <1>3, <1>4, <1>5, <1>6, <1>7, <1>8, <1>9, <1>10, <1>15
  <2>6. BlocksOf(v) \cap VarBlocks(vars) = {}
    BY <2>4, <2>5 DEF OwnersInv, Apart
  <2>7. \A i \in DOMAIN vars : vars[i].key # v.key
    BY <1>1, <2>3, AtIs
  <2> HIDE DEF v
  <2>8. /\ ListKept(list) /\ VarBlocks(list) = VarBlocks(vars) \cup BlocksOf(v)
        /\ \A other : Got(list, other) = IF other = v.key THEN v.value ELSE Got(vars, other)
    BY <1>1, <2>3, <2>4, <2>6, <2>7, ListGrown
  <2> HIDE DEF s, answer, none, list
  <2>9. /\ VarBlocks(list) \cap Rest = {} /\ Rest \cup VarBlocks(list) \subseteq s.pool.live
        /\ short \/ none \/ s.pool.live \subseteq Rest \cup VarBlocks(list)
        /\ s.pool.first = pool.first /\ pool.live \ pool.feet \subseteq s.pool.live
    <3>1. /\ VarBlocks(vars) \cap Rest = {} /\ Rest \cup VarBlocks(vars) \subseteq pool.live
          /\ short \/ pool.live \subseteq Rest \cup VarBlocks(vars)
      BY DEF OwnersInv, Apart
    <3>2. VarBlocks(list) = VarBlocks(vars) \cup {data, name, item, node}
      BY <2>4, <2>8
    <3>3. s.pool.live = pool.live \cup {data, name, item, node} /\ s.pool.first = pool.first
      BY <1>9, <2>1, <2>5
    <3>4. QED BY <2>5, <3>1, <3>2, <3>3
  <2>10. OwnersInv' /\ DamagedStay /\ aborted' = ~s.ok /\ vars' = list /\ said' = answer
    BY <2>1, <2>8, <2>9, OutcomeKeeps, ZenonT(60)
  <2>11. NowHas(vars', k, x)
    BY <2>3, <2>8, <2>10 DEF NowHas
  <2>12. QED BY <2>1, <2>10, <2>11 DEF answer
<1>16. QED BY <1>1, <1>2, <1>11, <1>12, <1>13, <1>14, <1>15

-----------------------------------------------------------------------------
(* Steps of the program and the services of tables/memory.c *)

\* What the invariant needs when variables and the array stay as they are
LEMMA BlocksChanged ==
  ASSUME OwnersInv, UNCHANGED <<vars, cfgBlock, others, aborted>>, aborted = FALSE,
         PoolOK(pool', hurt', ~smashed'), smashed' \in BOOLEAN, short' \in BOOLEAN,
         pool'.first = pool.first, hurt' \subseteq held',
         NEW gone, NEW new, held' = (held \ gone) \cup new, gone \subseteq held,
         pool'.live = (pool.live \ gone) \cup new, new \cap pool.live = {}, short => short',
         gone \subseteq pool.feet
  PROVE  OwnersInv' /\ DamagedStay
<1>1. PoolInv'
  <2>1. pool'.first \in others'
    BY DEF OwnersInv, PoolInv
  <2>2. aborted' = FALSE
    OBVIOUS
  <2>3. QED BY <2>1, <2>2 DEF PoolInv
<1>2. Apart'
  <2>1. NIL \notin pool.live
    BY Owners
  <2>2. /\ others \cap held = {} /\ cfgBlock \notin others \cup held
        /\ VarBlocks(vars) \cap Rest = {} /\ Rest \cup VarBlocks(vars) \subseteq pool.live
        /\ short \/ pool.live \subseteq Rest \cup VarBlocks(vars)
    BY DEF OwnersInv, Apart
  <2>3. Rest' = (Rest \ gone) \cup new
    BY <2>2 DEF Rest
  <2>4. VarBlocks(vars') = VarBlocks(vars) /\ gone \subseteq Rest
    BY DEF Rest
  <2>5. others' \cap held' = {} /\ cfgBlock' \notin others' \cup held'
    <3>1. others \subseteq pool.live /\ (cfgBlock = NIL \/ cfgBlock \in pool.live) /\ NIL \notin new
      <4>1. NIL \notin new
        BY SlotsAssumption DEF PoolOK, PoolType
      <4>2. QED BY <2>2, <4>1 DEF Rest
    <3>2. QED BY <2>2, <3>1
  <2>6. /\ VarBlocks(vars') \cap Rest' = {} /\ Rest' \cup VarBlocks(vars') \subseteq pool'.live
        /\ short' \/ pool'.live \subseteq Rest' \cup VarBlocks(vars')
    BY <2>2, <2>3, <2>4
  <2>7. QED BY <2>5, <2>6 DEF Apart
<1>3. ListKept(vars')
  BY DEF OwnersInv
<1>4. DamagedStay
  BY DEF DamagedStay
<1>5. QED BY <1>1, <1>2, <1>3, <1>4 DEF OwnersInv

\* AllocatePool and AllocatePages keep the pool and its owners.
LEMMA AllocateKeeps ==
  ASSUME OwnersInv, aborted = FALSE, NEW size \in Nat, NEW align \in BOOLEAN,
         AllocatePool(size, align), UNCHANGED <<vars, cfgBlock>>
  PROVE  OwnersInv' /\ DamagedStay
<1> DEFINE b == Placed(pool)
           exact == ~smashed
<1>1. /\ PoolOK(pool, hurt, exact) /\ pool.first # NIL /\ hurt \subseteq pool.live
      /\ smashed \in BOOLEAN /\ short \in BOOLEAN /\ hurt \subseteq held
  BY Owners DEF OwnersInv, PoolInv
<1>2. UNCHANGED <<vars, cfgBlock, others, aborted, hurt, smashed>>
  BY DEF AllocatePool
<1>3. CASE b = NIL
  <2> DEFINE gone == {}
             new == {}
  <2>1. short' = TRUE /\ pool' = pool /\ held' = held
    BY <1>3 DEF AllocatePool
  <2>2. PoolOK(pool', hurt', ~smashed')
    BY <1>1, <1>2, <2>1
  <2>3. /\ smashed' \in BOOLEAN /\ short' \in BOOLEAN /\ pool'.first = pool.first
        /\ hurt' \subseteq held' /\ held' = (held \ gone) \cup new /\ gone \subseteq held
        /\ pool'.live = (pool.live \ gone) \cup new /\ new \cap pool.live = {} /\ (short => short')
        /\ gone \subseteq pool.feet
    BY <1>1, <1>2, <2>1
  <2> HIDE DEF gone, new, b, exact
  <2>4. QED BY <1>2, <2>2, <2>3, BlocksChanged
<1>4. CASE b # NIL
  <2> DEFINE gone == {}
             new == {b}
  <2>1. pool' = Allocate(pool, b, size, align) /\ held' = held \cup {b} /\ short' = short
    BY <1>4 DEF AllocatePool
  <2>2. b \in Slots \ pool.live /\ b \notin hurt
    BY <1>1, <1>4, PlacedIsFree
  <2> HIDE DEF b, exact
  <2>3. /\ PoolOK(pool', hurt, exact)
        /\ pool'.live = pool.live \cup {b} /\ pool'.feet = pool.feet \cup {b}
        /\ pool'.first = pool.first
    BY <1>1, <2>1, <2>2, Allocated
  <2>4. PoolOK(pool', hurt', ~smashed')
    BY <1>2, <2>3 DEF exact
  <2>5. /\ smashed' \in BOOLEAN /\ short' \in BOOLEAN /\ pool'.first = pool.first
        /\ hurt' \subseteq held' /\ held' = (held \ gone) \cup new /\ gone \subseteq held
        /\ pool'.live = (pool.live \ gone) \cup new /\ new \cap pool.live = {} /\ (short => short')
        /\ gone \subseteq pool.feet
    BY <1>1, <1>2, <2>1, <2>2, <2>3
  <2> HIDE DEF gone, new
  <2>6. QED BY <1>2, <2>4, <2>5, BlocksChanged
<1>5. QED BY <1>3, <1>4

\* mem_free of a block that does not pass the checks fails.
LEMMA ReleaseRefused ==
  ASSUME NEW p, NEW b, ~Sound(p, b)
  PROVE  Release(Intact(p), b).pool = p /\ Release(Intact(p), b).ok = FALSE
<1> DEFINE s == Intact(p)
           t == TRUE
           f == FALSE
<1>0. s = [pool |-> p, ok |-> t]
  BY DEF Intact
<1>1. s.ok /\ s.pool = p
  BY DEF Intact
<1>2. Release(s, b) = [s EXCEPT !.ok = f]
  <2> HIDE DEF s
  <2> QED BY <1>1 DEF Release
<1> HIDE DEF s, t, f
<1>3. [s EXCEPT !.ok = f] = [pool |-> p, ok |-> f]
  BY <1>0
<1>4. Release(s, b).pool = p /\ Release(s, b).ok = f
  BY <1>2, <1>3
<1>5. QED BY <1>4 DEF s, f

\* mem_free of a block that passes them is carried out.
LEMMA ReleaseDone ==
  ASSUME NEW p, NEW b, Sound(p, b)
  PROVE  Release(Intact(p), b).pool = Released(p, b) /\ Release(Intact(p), b).ok = TRUE
<1> DEFINE s == Intact(p)
           t == TRUE
           r == Released(p, b)
<1>0. s = [pool |-> p, ok |-> t]
  BY DEF Intact
<1>1. s.ok /\ s.pool = p
  BY DEF Intact
<1>2. Release(s, b) = [s EXCEPT !.pool = r]
  <2> HIDE DEF s
  <2> QED BY <1>1 DEF Release
<1> HIDE DEF s, t, r
<1>3. [s EXCEPT !.pool = r] = [pool |-> r, ok |-> t]
  BY <1>0
<1>4. Release(s, b).pool = r /\ Release(s, b).ok = t
  BY <1>2, <1>3
<1>5. QED BY <1>4 DEF s, t, r

\* Of what the program may free, a block given out is its own.
LEMMA GivenIsHeld ==
  ASSUME OwnersInv, NEW b \in Given
  PROVE  b \in Slots /\ (b \in pool.live => b \in held)
<1>1. held \subseteq pool.live /\ pool.live \subseteq Slots
  BY Owners DEF OwnersInv, Apart, Rest
<1>2. CASE b \in held
  BY <1>1, <1>2
<1>3. CASE b \notin held
  <2>1. Free # {} /\ b = Min(Free)
    BY <1>3 DEF Given
  <2>2. Free \subseteq Nat
    BY SlotsAssumption DEF Free
  <2>3. b \in Free
    BY <2>1, <2>2, MinOf
  <2>4. QED BY <2>3 DEF Free
<1>4. QED BY <1>2, <1>3

\* So does FreePool, of whatever pointer, ending the program where it has to.
LEMMA FreeKeeps ==
  ASSUME OwnersInv, aborted = FALSE, NEW b \in Given, FreePool(b), UNCHANGED <<vars, cfgBlock>>
  PROVE  OwnersInv' /\ DamagedStay
<1> DEFINE exact == ~smashed
<1>1. /\ PoolOK(pool, hurt, exact) /\ pool.first # NIL /\ hurt \subseteq pool.live
      /\ smashed \in BOOLEAN /\ short \in BOOLEAN /\ hurt \subseteq held
      /\ pool.first \notin held /\ held \subseteq pool.live
  BY Owners DEF OwnersInv, PoolInv, Apart, Rest
<1>2. b \in Slots /\ (b \in pool.live => b \in held)
  BY GivenIsHeld
<1>3. UNCHANGED <<vars, cfgBlock, smashed, short>>
  BY DEF FreePool
<1>4. CASE ~CheckBuffer(pool, b)
  <2> DEFINE gone == {}
             new == {}
  <2>1. pool' = Checked(pool, b) /\ UNCHANGED <<others, held, aborted, hurt>>
    BY <1>4 DEF FreePool
  <2> HIDE DEF exact
  <2>2. /\ PoolOK(pool', hurt, exact)
        /\ pool'.live = pool.live /\ pool'.feet = pool.feet /\ pool'.first = pool.first
    BY <1>1, <1>2, <2>1, CheckedKeeps
  <2>3. PoolOK(pool', hurt', ~smashed')
    BY <1>3, <2>1, <2>2 DEF exact
  <2>4. /\ smashed' \in BOOLEAN /\ short' \in BOOLEAN /\ pool'.first = pool.first
        /\ hurt' \subseteq held' /\ held' = (held \ gone) \cup new /\ gone \subseteq held
        /\ pool'.live = (pool.live \ gone) \cup new /\ new \cap pool.live = {} /\ (short => short')
        /\ gone \subseteq pool.feet
    BY <1>1, <1>3, <2>1, <2>2
  <2> HIDE DEF gone, new
  <2>5. QED BY <1>3, <2>1, <2>3, <2>4, BlocksChanged
<1>5. CASE CheckBuffer(pool, b)
  <2> DEFINE s == Release(Intact(pool), b)
  <2>1. b \in pool.live /\ b \in held
    <3>1. b \in pool.live
      <4> DEFINE r == Checked(pool, b)
      <4>1. r = Checked(pool, b)
        OBVIOUS
      <4> HIDE DEF r, exact
      <4>2. QED BY <1>1, <1>2, <1>5, <4>1, CheckedKeeps
    <3>2. QED BY <1>2, <3>1
  <2>2. /\ pool' = s.pool /\ aborted' = ~s.ok
        /\ held' = (IF s.ok THEN held \ {b} ELSE held)
        /\ hurt' = (IF s.ok THEN hurt \ {b} ELSE hurt)
    BY <1>5 DEF FreePool, Intact
  <2>3. others' = others
    <3>1. CASE Sound(pool, b)
      BY <1>5 DEF FreePool
    <3>2. QED BY <1>5 DEF FreePool
  <2> HIDE DEF s
  <2>4. CASE Sound(pool, b)
    <3> DEFINE gone == {b}
               new == {}
    <3>1. s.pool = Released(pool, b) /\ s.ok = TRUE
      BY <2>4, ReleaseDone DEF s
    <3>2. /\ PoolOK(Released(pool, b), hurt \ {b}, exact)
          /\ Released(pool, b).live = pool.live \ {b} /\ Released(pool, b).feet = pool.feet \ {b}
          /\ Released(pool, b).first = pool.first
      <4> HIDE DEF exact
      <4> QED BY <1>1, <2>1, <2>4, ReleasedSound
    <3>3. PoolOK(pool', hurt', ~smashed')
      BY <1>3, <2>2, <3>1, <3>2
    <3>4. b \in pool.feet
      BY <1>1, <2>4, SoundIsLive
    <3>5. /\ smashed' \in BOOLEAN /\ short' \in BOOLEAN /\ pool'.first = pool.first
          /\ hurt' \subseteq held' /\ held' = (held \ gone) \cup new /\ gone \subseteq held
          /\ pool'.live = (pool.live \ gone) \cup new /\ new \cap pool.live = {} /\ (short => short')
          /\ gone \subseteq pool.feet
      BY <1>1, <1>3, <2>1, <2>2, <3>1, <3>2, <3>4
    <3>6. UNCHANGED <<vars, cfgBlock, others, aborted>>
      BY <1>3, <2>2, <2>3, <3>1
    <3> HIDE DEF gone, new, exact
    <3>7. QED BY <3>3, <3>5, <3>6, BlocksChanged
  <2>5. CASE ~Sound(pool, b)
    <3>1. s.pool = pool /\ s.ok = FALSE
      BY <2>5, ReleaseRefused DEF s
    <3>2. b \in hurt
      BY <1>1, <2>1, <2>5, UndamagedIsSound
    <3>3. /\ pool' = pool /\ aborted' = TRUE /\ held' = held /\ hurt' = hurt /\ others' = others
          /\ smashed' = smashed /\ short' = short /\ vars' = vars /\ cfgBlock' = cfgBlock
      BY <1>3, <2>2, <2>3, <3>1
    <3>4. PoolInv'
      <4>1. PoolOK(pool', hurt', ~smashed') /\ pool'.first \in others' /\ hurt' \subseteq held'
        BY <3>3 DEF OwnersInv, PoolInv
      <4>2. /\ aborted' \in BOOLEAN /\ smashed' \in BOOLEAN /\ short' \in BOOLEAN
            /\ aborted' => hurt' # {} \/ short'
        BY <1>1, <3>2, <3>3
      <4>3. QED BY <4>1, <4>2 DEF PoolInv
    <3>5. Apart'
      BY <3>3 DEF OwnersInv, Apart, Rest
    <3>6. ListKept(vars')
      BY <3>3 DEF OwnersInv
    <3>7. QED BY <3>3, <3>4, <3>5, <3>6 DEF OwnersInv, DamagedStay
  <2>6. QED BY <2>4, <2>5
<1>6. QED BY <1>4, <1>5

\* A program that writes outside its block damages that block only.
LEMMA HurtKeeps ==
  ASSUME OwnersInv, aborted = FALSE, NEW b \in held, Overrun(b) \/ Underrun(b),
         UNCHANGED <<vars, cfgBlock>>
  PROVE  OwnersInv' /\ DamagedStay
<1> DEFINE exact == ~smashed
           gone == {}
           new == {}
<1>1. /\ PoolOK(pool, hurt, exact) /\ smashed \in BOOLEAN /\ short \in BOOLEAN
      /\ hurt \subseteq held /\ held \subseteq pool.live
  BY DEF OwnersInv, PoolInv, Apart, Rest
<1>2. UNCHANGED <<vars, cfgBlock, others, aborted, held, short>> /\ hurt' = hurt \cup {b}
  BY DEF Overrun, Underrun
<1>3. CASE Overrun(b)
  <2>1. pool' = FootLost(pool, b) /\ smashed' = smashed
    BY <1>3 DEF Overrun, FootLost
  <2> HIDE DEF exact
  <2>2. PoolOK(pool', hurt \cup {b}, exact) /\ pool'.live = pool.live /\ pool'.first = pool.first
    BY <1>1, <2>1, OverrunKeeps
  <2>3. PoolOK(pool', hurt', ~smashed')
    BY <1>2, <2>1, <2>2 DEF exact
  <2>4. /\ smashed' \in BOOLEAN /\ short' \in BOOLEAN /\ pool'.first = pool.first
        /\ hurt' \subseteq held' /\ held' = (held \ gone) \cup new /\ gone \subseteq held
        /\ pool'.live = (pool.live \ gone) \cup new /\ new \cap pool.live = {} /\ (short => short')
        /\ gone \subseteq pool.feet
    BY <1>1, <1>2, <2>1, <2>2
  <2> HIDE DEF gone, new
  <2>5. QED BY <1>2, <2>3, <2>4, BlocksChanged
<1>4. CASE Underrun(b)
  <2>1. pool' = HeadHit(pool, b) /\ smashed' = TRUE
    BY <1>4 DEF Underrun, HeadHit
  <2> DEFINE no == FALSE
  <2>2. PoolOK(pool', hurt \cup {b}, no) /\ pool'.live = pool.live /\ pool'.first = pool.first
    <3> HIDE DEF exact
    <3>1. b \in pool.live
      BY <1>1
    <3>2. PoolOK(pool', hurt \cup {b}, FALSE) /\ pool'.live = pool.live /\ pool'.first = pool.first
      BY <1>1, <2>1, <3>1, UnderrunKeeps, ZenonT(60)
    <3>3. QED BY <3>2
  <2>3. PoolOK(pool', hurt', ~smashed')
    <3>1. no = ~smashed'
      BY <2>1
    <3>2. hurt' = hurt \cup {b}
      BY <1>2
    <3> HIDE DEF no
    <3>3. QED BY <2>2, <3>1, <3>2
  <2>4. /\ smashed' \in BOOLEAN /\ short' \in BOOLEAN /\ pool'.first = pool.first
        /\ hurt' \subseteq held' /\ held' = (held \ gone) \cup new /\ gone \subseteq held
        /\ pool'.live = (pool.live \ gone) \cup new /\ new \cap pool.live = {} /\ (short => short')
        /\ gone \subseteq pool.feet
    BY <1>1, <1>2, <2>1, <2>2
  <2> HIDE DEF gone, new
  <2>5. QED BY <1>2, <2>3, <2>4, BlocksChanged
<1>5. QED BY <1>3, <1>4

-----------------------------------------------------------------------------
(* Configuration tables *)

\* An EFI_CONFIGURATION_TABLE
TableType == [guid : Guids, table : Tables]

\* The array and what is in it: TablesKept, and that the array has no entry to spare
\* until one is removed.
TablesInv ==
  /\ cfg \in Seq(TableType)
  /\ (cfg = <<>>) <=> (cfgBlock = NIL)
  /\ entries \in 0..Len(cfg)
  /\ installed \in [Guids -> Tables \cup {NONE}]
  /\ removed \in BOOLEAN
  /\ \A i \in 1..entries : cfg[i].table = installed[cfg[i].guid]
  /\ \A i, j \in 1..entries : cfg[i].guid = cfg[j].guid => i = j
  /\ ~removed => /\ entries = Len(cfg)
                 /\ \A g \in Guids : installed[g] # NONE => \E i \in 1..entries : cfg[i].guid = g

\* What TablesInv says of the array
LEMMA ArrayFacts ==
  ASSUME TablesInv
  PROVE  /\ Len(cfg) \in Nat /\ DOMAIN cfg = 1..Len(cfg) /\ entries \in Nat /\ entries <= Len(cfg)
         /\ cfg \in [1..Len(cfg) -> TableType]
         /\ \A i \in 1..Len(cfg) : /\ cfg[i] \in TableType /\ cfg[i].guid \in Guids
                                   /\ cfg[i].table \in Tables
<1>1. Len(cfg) \in Nat /\ DOMAIN cfg = 1..Len(cfg) /\ cfg \in [1..Len(cfg) -> TableType]
  BY LenProperties DEF TablesInv
<1>2. \A i \in 1..Len(cfg) : cfg[i] \in TableType
  BY <1>1
<1>3. entries \in Nat /\ entries <= Len(cfg)
  <2>1. entries \in 0..Len(cfg)
    BY DEF TablesInv
  <2>2. QED BY <1>1, <2>1
<1>4. \A i \in 1..Len(cfg) : cfg[i].guid \in Guids /\ cfg[i].table \in Tables
  BY <1>2 DEF TableType
<1>5. QED BY <1>1, <1>2, <1>3, <1>4

\* An entry is found if and only if it is there.
LEMMA EntryFound ==
  ASSUME entries \in Nat, NEW g
  PROVE  /\ EntryOf(g) # 0 => EntryOf(g) \in 1..entries /\ cfg[EntryOf(g)].guid = g
         /\ \A i \in 1..entries : cfg[i].guid = g => EntryOf(g) # 0
<1> DEFINE at == {i \in 1..entries : cfg[i].guid = g}
<1>1. at \subseteq Nat /\ 0 \notin at
  OBVIOUS
<1>2. at # {} => Min(at) \in at
  <2> HIDE DEF at
  <2> QED BY <1>1, MinOf
<1>3. EntryOf(g) = IF at = {} THEN 0 ELSE Min(at)
  BY DEF EntryOf
<1>4. QED BY <1>1, <1>2, <1>3

\* An array written at n, one of its places
LEMMA EntryWritten ==
  ASSUME NEW c, NEW m \in Nat, c \in [1..m -> TableType], NEW n \in 1..m, NEW e \in TableType,
         NEW d, d = [c EXCEPT ![n] = e]
  PROVE  /\ d \in Seq(TableType) /\ Len(d) = m
         /\ d[n] = e /\ \A i \in 1..m : i # n => d[i] = c[i]
<1>1. d \in [1..m -> TableType] /\ d[n] = e /\ \A i \in 1..m : i # n => d[i] = c[i]
  OBVIOUS
<1>2. d \in Seq(TableType) /\ Len(d) = m
  BY <1>1, LenProperties
<1>3. QED BY <1>1, <1>2

\* A table that is new is listed, in a place to spare or in a new one.
LEMMA InsertKeepsTables ==
  ASSUME TablesInv, NEW g \in Guids, NEW t \in Tables, InsertTable(g, t)
  PROVE  TablesInv'
<1> DEFINE n == entries
           m == Len(cfg)
           e == Entry(g, t)
<1>1. /\ m \in Nat /\ n \in 0..m /\ DOMAIN cfg = 1..m /\ cfg \in [1..m -> TableType]
      /\ \A i \in 1..n : cfg[i].guid \in Guids /\ cfg[i].guid # g
  <2>1. \A i \in 1..n : cfg[i].guid # g
    BY ArrayFacts, EntryFound DEF InsertTable
  <2>2. \A i \in 1..n : i \in 1..m
    BY ArrayFacts
  <2>3. QED BY <2>1, <2>2, ArrayFacts DEF TablesInv
<1>2. e \in TableType /\ e.guid = g /\ e.table = t
  BY DEF Entry, TableType
<1>3. /\ installed' \in [Guids -> Tables \cup {NONE}] /\ installed'[g] = t
      /\ \A h \in Guids : h # g => installed'[h] = installed[h]
      /\ removed' = removed
  BY DEF InsertTable, TablesInv
<1>4. CASE n < m
  <2>1. cfg' = [cfg EXCEPT ![n + 1] = e] /\ entries' = n /\ cfgBlock' = cfgBlock
    BY <1>4 DEF InsertTable
  <2>2. n + 1 \in 1..m /\ n + 1 \notin 1..n
    BY <1>1, <1>4
  <2> HIDE DEF m, e
  <2> DEFINE d == cfg'
             w == n + 1
  <2>3. /\ cfg' \in Seq(TableType) /\ Len(cfg') = m
        /\ \A i \in 1..m : i # w => cfg'[i] = cfg[i]
    <3>1. w \in 1..m /\ d = [cfg EXCEPT ![w] = e]
      BY <2>1, <2>2
    <3> HIDE DEF w, d
    <3>2. /\ d \in Seq(TableType) /\ Len(d) = m
          /\ \A i \in 1..m : i # w => d[i] = cfg[i]
      BY <1>1, <1>2, <3>1, EntryWritten
    <3>3. QED BY <3>2 DEF d
  <2>4. \A i \in 1..n : cfg'[i] = cfg[i]
    BY <1>1, <2>3
  <2>5. removed
    BY <1>4 DEF TablesInv, m
  <2>6. cfg' # <<>> /\ cfgBlock' # NIL
    <3>1. Len(cfg') # 0 /\ m # 0
      BY <1>1, <1>4, <2>3
    <3>2. cfg # <<>>
      BY <3>1 DEF m
    <3>3. QED BY <2>1, <3>1, <3>2 DEF TablesInv
  <2>7. \A i \in 1..entries' : cfg'[i].table = installed'[cfg'[i].guid]
    BY <1>1, <1>3, <2>1, <2>4 DEF TablesInv
  <2>8. \A i, j \in 1..entries' : cfg'[i].guid = cfg'[j].guid => i = j
    BY <2>1, <2>4 DEF TablesInv
  <2>9. entries' \in 0..Len(cfg')
    BY <1>1, <2>1, <2>3
  <2>10. QED BY <1>3, <2>3, <2>5, <2>6, <2>7, <2>8, <2>9 DEF TablesInv
<1>5. CASE ~(n < m)
  <2>1. cfg' = Append(cfg, e) /\ entries' = n + 1 /\ cfgBlock' # NIL /\ n = m
    <3>1. ~(entries < Len(cfg))
      BY <1>5
    <3>2. cfg' = Append(cfg, Entry(g, t)) /\ entries' = entries + 1 /\ cfgBlock' \in Room \ {NIL}
      BY <3>1 DEF InsertTable
    <3>3. n = m
      <4>1. m \in Nat /\ n \in 0..m
        BY <1>1
      <4> HIDE DEF m
      <4>2. QED BY <1>5, <4>1
    <3>4. QED BY <3>2, <3>3
  <2> HIDE DEF m, e
  <2>2. cfg \in Seq(TableType)
    BY DEF TablesInv
  <2>3. /\ cfg' \in Seq(TableType) /\ Len(cfg') = m + 1
        /\ \A i \in 1..m : cfg'[i] = cfg[i]
        /\ cfg'[m + 1] = e
    BY <1>2, <2>1, <2>2, AppendProperties DEF m
  <2>4. /\ entries' \in 0..Len(cfg') /\ entries' = Len(cfg') /\ Len(cfg') # 0
        /\ 1..entries' = 1..n \cup {n + 1} /\ n + 1 \notin 1..n
    BY <1>1, <2>1, <2>3
  <2>5. /\ \A i \in 1..n : cfg'[i] = cfg[i]
        /\ cfg'[n + 1] = e
    BY <2>1, <2>3
  <2>6. \A i \in 1..n : cfg[i].table = installed[cfg[i].guid]
    BY DEF TablesInv
  <2>7. \A i \in 1..entries' : cfg'[i].table = installed'[cfg'[i].guid]
    BY <1>1, <1>2, <1>3, <2>4, <2>5, <2>6
  <2>8. \A i, j \in 1..entries' : cfg'[i].guid = cfg'[j].guid => i = j
    <3>1. \A i, j \in 1..n : cfg[i].guid = cfg[j].guid => i = j
      BY DEF TablesInv
    <3>2. QED BY <1>1, <1>2, <2>4, <2>5, <3>1
  <2>9. ~removed' => \A h \in Guids : installed'[h] # NONE => \E i \in 1..entries' : cfg'[i].guid = h
    <3> SUFFICES ASSUME ~removed, NEW h \in Guids, installed'[h] # NONE
                 PROVE  \E i \in 1..entries' : cfg'[i].guid = h
      BY <1>3
    <3>1. CASE h = g
      BY <1>2, <2>4, <2>5, <3>1
    <3>2. CASE h # g
      <4>1. PICK i \in 1..n : cfg[i].guid = h
        BY <1>3, <3>2 DEF TablesInv
      <4>2. QED BY <2>4, <2>5, <4>1
    <3>3. QED BY <3>1, <3>2
  <2>10. cfg' # <<>>
    BY <2>4
  <2>11. removed' \in BOOLEAN
    BY <1>3 DEF TablesInv
  <2>12. QED BY <1>3, <2>1, <2>3, <2>4, <2>7, <2>8, <2>9, <2>10, <2>11 DEF TablesInv
<1>6. QED BY <1>4, <1>5

\* A table that is given again takes the place it had.
LEMMA ReplaceKeepsTables ==
  ASSUME TablesInv, NEW g \in Guids, NEW t \in Tables, ReplaceTable(g, t)
  PROVE  TablesInv'
<1> DEFINE n == entries
           m == Len(cfg)
           k == EntryOf(g)
           e == [cfg[k] EXCEPT !.table = t]
           d == cfg'
<1>1. /\ m \in Nat /\ n \in 0..m /\ DOMAIN cfg = 1..m /\ cfg \in [1..m -> TableType]
      /\ k \in 1..n /\ k \in 1..m /\ cfg[k].guid = g /\ cfg[k] \in TableType
      /\ \A i \in 1..n : cfg[i].guid \in Guids
  <2>1. k \in 1..n /\ cfg[k].guid = g
    BY ArrayFacts, EntryFound DEF ReplaceTable
  <2>2. \A i \in 1..n : i \in 1..m
    BY ArrayFacts
  <2>3. QED BY <2>1, <2>2, ArrayFacts DEF TablesInv
<1>2. e \in TableType /\ e.guid = g /\ e.table = t
  BY <1>1 DEF TableType
<1>3. /\ installed' \in [Guids -> Tables \cup {NONE}] /\ installed'[g] = t
      /\ \A h \in Guids : h # g => installed'[h] = installed[h]
      /\ removed' = removed /\ cfgBlock' = cfgBlock /\ entries' = n
  BY DEF ReplaceTable, TablesInv
<1>4. d = [cfg EXCEPT ![k] = e]
  BY <1>1 DEF ReplaceTable, TableType
<1> HIDE DEF m, e, k, d
<1>5. /\ d \in Seq(TableType) /\ Len(d) = m
      /\ d[k] = e /\ \A i \in 1..m : i # k => d[i] = cfg[i]
  BY <1>1, <1>2, <1>4, EntryWritten
<1>6. \A i \in 1..n : d[i].guid = cfg[i].guid
  BY <1>1, <1>2, <1>5
<1>7. \A i \in 1..n : d[i].table = installed'[d[i].guid]
  <2> SUFFICES ASSUME NEW i \in 1..n PROVE d[i].table = installed'[d[i].guid]
    OBVIOUS
  <2>1. CASE i = k
    BY <1>1, <1>2, <1>3, <1>5, <2>1
  <2>2. CASE i # k
    <3>1. cfg[i].guid # g /\ d[i] = cfg[i] /\ cfg[i].table = installed[cfg[i].guid]
      BY <1>1, <1>5, <2>2 DEF TablesInv
    <3>2. QED BY <1>1, <1>3, <3>1
  <2>3. QED BY <2>1, <2>2
<1>8. (d = <<>>) <=> (cfgBlock' = NIL)
  <2>1. m # 0 /\ Len(d) # 0
    BY <1>1, <1>5
  <2>2. d # <<>> /\ cfg # <<>>
    BY <2>1 DEF m
  <2>3. QED BY <1>3, <2>2 DEF TablesInv
<1>9. \A i, j \in 1..n : d[i].guid = d[j].guid => i = j
  BY <1>6 DEF TablesInv
<1>10. ~removed' => /\ n = Len(d)
                    /\ \A h \in Guids : installed'[h] # NONE => \E i \in 1..n : d[i].guid = h
  <2> SUFFICES ASSUME ~removed
               PROVE  /\ n = Len(d)
                      /\ \A h \in Guids : installed'[h] # NONE => \E i \in 1..n : d[i].guid = h
    BY <1>3
  <2>1. n = m
    BY DEF TablesInv, m
  <2>2. ASSUME NEW h \in Guids, installed'[h] # NONE PROVE \E i \in 1..n : d[i].guid = h
    <3>1. CASE h = g
      BY <1>1, <1>6, <3>1
    <3>2. CASE h # g
      <4>1. PICK i \in 1..n : cfg[i].guid = h
        BY <1>3, <2>2, <3>2 DEF TablesInv
      <4>2. QED BY <1>6, <4>1
    <3>3. QED BY <3>1, <3>2
  <2>3. QED BY <1>5, <2>1, <2>2
<1>11. removed' \in BOOLEAN
  BY <1>3 DEF TablesInv
<1>12. entries' \in 0..Len(d)
  BY <1>1, <1>3, <1>5
<1>13. QED BY <1>3, <1>5, <1>7, <1>8, <1>9, <1>10, <1>11, <1>12 DEF TablesInv, d

\* The tables behind one that is removed move up.
LEMMA RemoveKeepsTables ==
  ASSUME TablesInv, NEW g \in Guids, RemoveTable(g)
  PROVE  TablesInv'
<1> DEFINE n == entries
           m == Len(cfg)
           k == EntryOf(g)
           from(i) == IF i \in k..(n - 1) THEN i + 1 ELSE i
           d == cfg'
<1>1. /\ m \in Nat /\ n \in 0..m /\ DOMAIN cfg = 1..m /\ cfg \in [1..m -> TableType]
      /\ k \in 1..n /\ cfg[k].guid = g /\ n \in 1..m
      /\ \A i \in 1..n : cfg[i].guid \in Guids
  <2>1. k \in 1..n /\ cfg[k].guid = g
    BY ArrayFacts, EntryFound DEF RemoveTable
  <2>2. \A i \in 1..n : i \in 1..m
    BY ArrayFacts
  <2>3. n \in 1..m
    BY <2>1, ArrayFacts
  <2>4. QED BY <2>1, <2>2, <2>3, ArrayFacts DEF TablesInv
<1>2. /\ installed' \in [Guids -> Tables \cup {NONE}]
      /\ \A h \in Guids : h # g => installed'[h] = installed[h]
      /\ removed' = TRUE /\ cfgBlock' = cfgBlock /\ entries' = n - 1
  BY DEF RemoveTable, TablesInv
<1>3. d = [i \in 1..m |-> IF i \in k..(n - 1) THEN cfg[i + 1] ELSE cfg[i]]
  BY <1>1 DEF RemoveTable
<1> HIDE DEF m, k, d
<1>4. \A i \in 1..m : from(i) \in 1..m /\ d[i] = cfg[from(i)]
  BY <1>1, <1>3
<1>5. \A i \in 1..(n - 1) : from(i) \in 1..n /\ from(i) # k /\ d[i] = cfg[from(i)]
  BY <1>1, <1>4
<1>6. \A i, j \in 1..(n - 1) : from(i) = from(j) => i = j
  BY <1>1
<1> HIDE DEF from
<1>7. d \in Seq(TableType) /\ Len(d) = m
  <2>1. d \in [1..m -> TableType]
    <3>1. d = [i \in 1..m |-> d[i]]
      BY <1>3
    <3>2. \A i \in 1..m : d[i] \in TableType
      BY <1>1, <1>4
    <3>3. QED BY <3>1, <3>2
  <2>2. QED BY <1>1, <2>1, LenProperties
<1>8. ASSUME NEW i \in 1..(n - 1) PROVE d[i].table = installed'[d[i].guid]
  <2>1. from(i) \in 1..n /\ from(i) # k /\ d[i] = cfg[from(i)]
    BY <1>5
  <2>2. cfg[from(i)].guid # g /\ cfg[from(i)].guid \in Guids
    BY <1>1, <2>1 DEF TablesInv
  <2>3. cfg[from(i)].table = installed[cfg[from(i)].guid]
    BY <2>1 DEF TablesInv
  <2>4. QED BY <1>2, <2>1, <2>2, <2>3
<1>9. \A i, j \in 1..(n - 1) : d[i].guid = d[j].guid => i = j
  BY <1>5, <1>6 DEF TablesInv
<1>10. (d = <<>>) <=> (cfgBlock' = NIL)
  <2>1. m # 0 /\ Len(d) # 0
    BY <1>1, <1>7
  <2>2. d # <<>> /\ cfg # <<>>
    BY <2>1 DEF m
  <2>3. QED BY <1>2, <2>2 DEF TablesInv
<1>11. entries' \in 0..Len(d)
  BY <1>1, <1>2, <1>7
<1>12. QED BY <1>2, <1>7, <1>8, <1>9, <1>10, <1>11 DEF TablesInv, d

\* What a call of InstallConfigurationTable does to the blocks: the array is put in a
\* free place, or is moved, or stays.
LEMMA ArrayMoved ==
  ASSUME OwnersInv, aborted = FALSE, UNCHANGED <<vars, others, held, hurt, smashed, aborted, short>>,
         NEW b \in Slots, cfgBlock' = b, cfgBlock \in Slots \cup {NIL},
         b = cfgBlock \/ b \notin pool.live,
         PoolOK(pool', hurt, ~smashed), pool'.first = pool.first,
         pool'.live = (pool.live \ ({cfgBlock} \ {NIL})) \cup {b}, cfgBlock \in pool.feet \cup {NIL}
  PROVE  OwnersInv' /\ DamagedStay
<1>1. b # NIL
  BY SlotsAssumption
<1>2. /\ others \cap held = {} /\ cfgBlock \notin others \cup held
      /\ VarBlocks(vars) \cap Rest = {} /\ Rest \cup VarBlocks(vars) \subseteq pool.live
      /\ short \/ pool.live \subseteq Rest \cup VarBlocks(vars)
  BY DEF OwnersInv, Apart
<1>3. NIL \notin pool.live
  BY Owners
<1>4. PoolInv'
  BY DEF OwnersInv, PoolInv
<1>5. Apart'
  <2>1. Rest' = (Rest \ ({cfgBlock} \ {NIL})) \cup {b}
    BY <1>1, <1>2 DEF Rest
  <2>2. b \notin others \cup held /\ b \notin VarBlocks(vars)
    BY <1>1, <1>2 DEF Rest
  <2>3. ({cfgBlock} \ {NIL}) \subseteq Rest
    BY DEF Rest
  <2>4. VarBlocks(vars') = VarBlocks(vars)
    OBVIOUS
  <2>5. others' \cap held' = {} /\ cfgBlock' \notin others' \cup held'
    BY <1>2, <2>2
  <2>6. VarBlocks(vars') \cap Rest' = {} /\ Rest' \cup VarBlocks(vars') \subseteq pool'.live
    BY <1>2, <2>1, <2>2, <2>3, <2>4
  <2>7. short' \/ pool'.live \subseteq Rest' \cup VarBlocks(vars')
    <3>1. short' = short
      OBVIOUS
    <3>2. CASE short
      BY <3>1, <3>2
    <3>3. CASE ~short
      <4>1. pool.live \subseteq Rest \cup VarBlocks(vars)
        BY <1>2, <3>3
      <4>2. QED BY <2>1, <2>4, <4>1
    <3>4. QED BY <3>2, <3>3
  <2>8. QED BY <2>5, <2>6, <2>7 DEF Apart
<1>6. ListKept(vars')
  BY DEF OwnersInv
<1>7. DamagedStay
  <2>1. pool.live \ pool.feet \subseteq pool'.live
    BY <1>3
  <2>2. QED BY <2>1 DEF DamagedStay
<1>8. QED BY <1>4, <1>5, <1>6, <1>7 DEF OwnersInv

\* The array that grows keeps the pool and its owners.
LEMMA InsertKeeps ==
  ASSUME OwnersInv, TablesInv, aborted = FALSE, NEW g \in Guids, NEW t \in Tables, InsertTable(g, t),
         UNCHANGED <<others, held, hurt, smashed, vars>>
  PROVE  OwnersInv' /\ DamagedStay
<1> DEFINE exact == ~smashed
<1>1. UNCHANGED <<aborted, short>>
  BY DEF InsertTable
<1>2. PoolOK(pool, hurt, exact) /\ pool.first # NIL /\ hurt \subseteq pool.live
  BY Owners DEF OwnersInv, PoolInv
<1>3. CASE entries < Len(cfg)
  <2>1. pool' = pool /\ cfgBlock' = cfgBlock
    BY <1>3 DEF InsertTable
  <2>2. PoolInv' /\ Apart' /\ ListKept(vars')
    BY <1>1, <2>1 DEF OwnersInv, PoolInv, Apart, Rest
  <2>3. QED BY <2>1, <2>2 DEF OwnersInv, DamagedStay
<1>4. CASE ~(entries < Len(cfg))
  <2> DEFINE b == cfgBlock'
  <2>1. /\ b \in Room \ {NIL}
        /\ pool' = IF cfg = <<>> THEN Allocate(pool, b, 1, FALSE)
                   ELSE Reallocated(pool, cfgBlock, b, Len(cfg) + 1)
    BY <1>4 DEF InsertTable
  <2>2. CASE cfg = <<>>
    <3>1. b = Placed(pool) /\ b # NIL /\ cfgBlock = NIL
      BY <2>1, <2>2 DEF Room, TablesInv
    <3>2. pool' = Taken(pool, b)
      BY <2>1, <2>2, <3>1 DEF Taken
    <3> HIDE DEF b, exact
    <3>3. /\ PoolOK(Taken(pool, b), hurt, exact) /\ Taken(pool, b).first = pool.first
          /\ b \in Slots \ pool.live /\ Taken(pool, b).live = pool.live \cup {b}
      BY <1>2, <3>1, TakenKeeps
    <3>4. /\ b \in Slots /\ cfgBlock' = b /\ cfgBlock \in Slots \cup {NIL}
          /\ b = cfgBlock \/ b \notin pool.live
          /\ PoolOK(pool', hurt, ~smashed) /\ pool'.first = pool.first
          /\ pool'.live = (pool.live \ ({cfgBlock} \ {NIL})) \cup {b}
          /\ cfgBlock \in pool.feet \cup {NIL}
      BY <3>1, <3>2, <3>3 DEF b, exact
    <3>5. QED BY <1>1, <3>4, ArrayMoved
  <2>3. CASE cfg # <<>>
    <3> DEFINE c == cfgBlock
               size == Len(cfg) + 1
    <3>1. c # NIL /\ c \in Rest
      BY <2>3 DEF TablesInv, Rest
    <3>2. c \in pool.live \ hurt /\ c \in Slots /\ c # pool.first /\ c \in pool.feet
      BY <3>1, Owners DEF OwnersInv, Apart
    <3>3. Sound(pool, c)
      <4> HIDE DEF exact
      <4> QED BY <1>2, <3>2, UndamagedIsSound
    <3>4. b \in ReallocatedTo(pool, c) /\ b # NIL
      BY <2>1, <2>3, <3>3 DEF Room
    <3>5. b = c \/ (b = Placed(pool) /\ b # NIL)
      BY <3>4 DEF ReallocatedTo
    <3>6. b \in Slots /\ (b = c \/ b \notin pool.live) /\ b \notin hurt
      BY <1>2, <3>2, <3>5, PlacedIsFree
    <3>7. pool' = Reallocated(pool, c, b, size) /\ size \in Nat
      BY <2>1, <2>3, ArrayFacts
    <3>8. pool.head[c].real <= pool.used /\ pool.head[c].size <= pool.asked
      <4> HIDE DEF exact
      <4> QED BY <1>2, <3>3, SoundIsLive
    <3> HIDE DEF b, exact, size
    <3>9. /\ PoolOK(pool', hurt, exact)
          /\ pool'.live = (pool.live \ {c}) \cup {b} /\ pool'.feet = (pool.feet \ {c}) \cup {b}
          /\ pool'.first = pool.first
      <4>1. c \in pool.live /\ c # pool.first /\ c \notin hurt
        BY <3>2
      <4> HIDE DEF c
      <4>2. QED BY <1>2, <3>6, <3>7, <3>8, <4>1, ReallocatedKeeps
    <3>10. /\ b \in Slots /\ cfgBlock' = b /\ cfgBlock \in Slots \cup {NIL}
           /\ b = cfgBlock \/ b \notin pool.live
           /\ PoolOK(pool', hurt, ~smashed) /\ pool'.first = pool.first
           /\ pool'.live = (pool.live \ ({cfgBlock} \ {NIL})) \cup {b}
           /\ cfgBlock \in pool.feet \cup {NIL}
      BY <3>1, <3>2, <3>6, <3>9 DEF b, exact
    <3>11. QED BY <1>1, <3>10, ArrayMoved
  <2>4. QED BY <2>2, <2>3
<1>5. QED BY <1>3, <1>4

\* Without room the first table is refused and the growth of the array aborts, which
\* it does for no other reason.
LEMMA CannotInsertKeeps ==
  ASSUME OwnersInv, TablesInv, aborted = FALSE, NEW g \in Guids, CannotInsert(g),
         UNCHANGED <<others, held, hurt, smashed, vars>>
  PROVE  OwnersInv' /\ DamagedStay /\ TablesInv'
<1> DEFINE exact == ~smashed
<1>1. /\ pool' = pool /\ UNCHANGED <<cfg, cfgBlock, entries, removed, installed>>
      /\ NIL \in Room /\ aborted' = (cfg # <<>>) /\ short' = (short \/ Placed(pool) = NIL)
  BY DEF CannotInsert, tableVars
<1>2. PoolOK(pool, hurt, exact) /\ pool.first # NIL /\ hurt \subseteq pool.live
  BY Owners DEF OwnersInv, PoolInv
<1>3. aborted' => short'
  <2> SUFFICES ASSUME cfg # <<>> PROVE Placed(pool) = NIL
    BY <1>1
  <2>1. cfgBlock # NIL /\ cfgBlock \in Rest
    BY DEF TablesInv, Rest
  <2>2. cfgBlock \in pool.live \ hurt
    BY <2>1, Owners DEF OwnersInv, Apart
  <2>3. Sound(pool, cfgBlock)
    <3> HIDE DEF exact
    <3> QED BY <1>2, <2>2, UndamagedIsSound
  <2>4. NIL \in ReallocatedTo(pool, cfgBlock)
    BY <1>1, <2>3 DEF Room
  <2>5. QED BY <2>1, <2>4 DEF ReallocatedTo
<1>4. aborted' \in BOOLEAN /\ short' \in BOOLEAN /\ (short => short')
  BY <1>1
<1>5. PoolInv'
  <2>1. PoolOK(pool', hurt', ~smashed')
    BY <1>1, <1>2
  <2>2. pool'.first \in others' /\ hurt' \subseteq held' /\ smashed' \in BOOLEAN
    BY <1>1 DEF OwnersInv, PoolInv
  <2>3. QED BY <1>3, <1>4, <2>1, <2>2 DEF PoolInv
<1>6. Apart'
  <2>1. Rest' = Rest /\ VarBlocks(vars') = VarBlocks(vars)
    BY <1>1 DEF Rest
  <2>2. QED BY <1>1, <1>4, <2>1 DEF OwnersInv, Apart
<1>7. TablesInv'
  BY <1>1 DEF TablesInv
<1>8. QED BY <1>1, <1>5, <1>6, <1>7 DEF OwnersInv, DamagedStay

\* InstallConfigurationTable keeps the invariant.
LEMMA TablesStep ==
  ASSUME OwnersInv, TablesInv, aborted = FALSE,
         NEW g \in Guids, NEW t \in Tables \cup {NONE}, InstallConfigurationTable(g, t)
  PROVE  OwnersInv' /\ TablesInv' /\ DamagedStay /\ vars' = vars /\ said' = said
<1>1. UNCHANGED <<others, held, hurt, smashed, vars, said>>
  BY DEF InstallConfigurationTable, variableVars
<1>2. CASE RemoveTable(g) \/ ReplaceTable(g, t)
  <2>1. UNCHANGED <<pool, aborted, short, cfgBlock>>
    BY <1>2 DEF RemoveTable, ReplaceTable
  <2>2. PoolInv' /\ Apart' /\ ListKept(vars') /\ DamagedStay
    BY <1>1, <2>1 DEF OwnersInv, PoolInv, Apart, Rest, DamagedStay
  <2>3. OwnersInv' /\ DamagedStay
    BY <2>2 DEF OwnersInv
  <2>4. CASE RemoveTable(g)
    BY <1>1, <2>3, <2>4, RemoveKeepsTables
  <2>5. CASE ReplaceTable(g, t) /\ t \in Tables
    BY <1>1, <2>3, <2>5, ReplaceKeepsTables
  <2>6. CASE ReplaceTable(g, t) /\ t = NONE
    <3>1. RemoveTable(g)
      BY <2>6 DEF InstallConfigurationTable
    <3>2. QED BY <2>4, <3>1
  <2>7. QED BY <1>2, <2>4, <2>5, <2>6
<1>3. CASE t # NONE /\ InsertTable(g, t)
  BY <1>1, <1>3, InsertKeeps, InsertKeepsTables
<1>4. CASE CannotInsert(g)
  BY <1>1, <1>4, CannotInsertKeeps
<1>5. QED BY <1>2, <1>3, <1>4 DEF InstallConfigurationTable

\* The program and the services of tables/memory.c keep the invariant.
LEMMA MemoryStep ==
  ASSUME OwnersInv, aborted = FALSE, MemoryNext, UNCHANGED <<vars, cfgBlock>>
  PROVE  OwnersInv' /\ DamagedStay
<1>1. ASSUME NEW size \in Sizes, NEW align \in BOOLEAN, AllocatePool(size, align)
      PROVE  OwnersInv' /\ DamagedStay
  <2>1. size \in Nat
    BY SizesAssumption
  <2>2. QED BY <1>1, <2>1, AllocateKeeps
<1>2. ASSUME NEW b \in Given, FreePool(b) PROVE OwnersInv' /\ DamagedStay
  BY <1>2, FreeKeeps
<1>3. ASSUME NEW b \in Given, NEW size \in Sizes, FreePages(b, size) PROVE OwnersInv' /\ DamagedStay
  BY <1>3, FreeKeeps DEF FreePages
<1>4. ASSUME NEW b \in held, Overrun(b) \/ Underrun(b) PROVE OwnersInv' /\ DamagedStay
  BY <1>4, HurtKeeps
<1>5. QED BY <1>1, <1>2, <1>3, <1>4 DEF MemoryNext

\* SetVariable keeps the invariant.
LEMMA VariableStep ==
  ASSUME OwnersInv, NEW k \in Keys, NEW x \in Values \cup {NONE}, SetVariable(k, x)
  PROVE  OwnersInv' /\ DamagedStay /\ UNCHANGED tableVars
<1>1. UNCHANGED tableVars
  BY DEF SetVariable, DeleteVariable, ReplaceVariable, CreateVariable, Outcome
<1>2. CASE x = NONE
  BY <1>1, <1>2, DeleteKeeps DEF SetVariable
<1>3. CASE x # NONE
  BY <1>1, <1>3, ReplaceKeeps, CreateKeeps DEF SetVariable
<1>4. QED BY <1>2, <1>3

-----------------------------------------------------------------------------

\* What every reachable state has
StorageInv == OwnersInv /\ TablesInv

\* The states the program starts in have it: blocks of others, and nothing stored.
LEMMA StorageInitially == StorageInit => StorageInv
<1> SUFFICES ASSUME StorageInit PROVE StorageInv
  OBVIOUS
<1>1. PICK n \in Others : pool = PoolWith(n)
  BY DEF StorageInit, MemoryInit
<1>2. n \in Nat \ {0} /\ 1..n \subseteq Slots
  BY OthersAssumption
<1>3. PoolOK(pool, {}, TRUE) /\ pool.live = 1..n /\ pool.first = 1
  BY <1>1, <1>2, PoolWithKept
<1>4. /\ others = pool.live /\ held = {} /\ aborted = FALSE /\ hurt = {} /\ smashed = FALSE
      /\ short = FALSE /\ vars = <<>> /\ cfg = <<>> /\ cfgBlock = NIL /\ entries = 0
      /\ removed = FALSE /\ installed = [g \in Guids |-> NONE]
  BY DEF StorageInit, MemoryInit
<1>5. 1 \in 1..n /\ NIL \notin pool.live
  BY <1>2, <1>3, SlotsAssumption
<1>6. PoolInv
  <2> DEFINE yes == TRUE
  <2>1. yes = ~smashed /\ PoolOK(pool, {}, yes)
    BY <1>3, <1>4
  <2> HIDE DEF yes
  <2>2. PoolOK(pool, hurt, ~smashed)
    BY <1>4, <2>1
  <2>3. pool.first \in others /\ hurt \subseteq held
    BY <1>3, <1>4, <1>5
  <2>4. /\ aborted \in BOOLEAN /\ smashed \in BOOLEAN /\ short \in BOOLEAN
        /\ aborted => hurt # {} \/ short
    BY <1>4
  <2>5. QED BY <2>2, <2>3, <2>4 DEF PoolInv
<1>7. VarBlocks(vars) = {}
  BY <1>4 DEF VarBlocks
<1>8. Apart
  <2>1. Rest = pool.live
    BY <1>4 DEF Rest
  <2>2. QED BY <1>4, <1>5, <1>7, <2>1 DEF Apart
<1>9. ListKept(vars)
  BY <1>4 DEF ListKept
<1>10. TablesInv
  <2>1. cfg \in Seq(TableType) /\ Len(cfg) = 0
    BY <1>4
  <2>2. entries \in 0..Len(cfg) /\ 1..entries = {}
    BY <1>4, <2>1
  <2>3. installed \in [Guids -> Tables \cup {NONE}] /\ \A g \in Guids : installed[g] = NONE
    BY <1>4
  <2>4. QED BY <1>4, <2>1, <2>2, <2>3 DEF TablesInv
<1>11. QED BY <1>6, <1>8, <1>9, <1>10 DEF StorageInv, OwnersInv

\* Every step keeps it, and leaves a block without a foot where it is.
LEMMA StorageStep ==
  ASSUME StorageInv, [StorageNext]_storageVars
  PROVE  StorageInv' /\ DamagedStay
<1>1. OwnersInv /\ TablesInv
  BY DEF StorageInv
<1>2. CASE UNCHANGED storageVars
  <2>1. /\ UNCHANGED <<pool, others, held, aborted, hurt, smashed, short>>
        /\ UNCHANGED <<vars, said>> /\ UNCHANGED <<cfg, cfgBlock, entries, removed, installed>>
    BY <1>2 DEF storageVars, memoryVars, variableVars, tableVars
  <2>2. OwnersInv' /\ DamagedStay
    BY <1>1, <2>1 DEF OwnersInv, PoolInv, Apart, Rest, DamagedStay
  <2>3. TablesInv'
    BY <1>1, <2>1 DEF TablesInv
  <2>4. QED BY <2>2, <2>3 DEF StorageInv
<1>3. CASE StorageNext
  <2>1. aborted = FALSE
    BY <1>1, <1>3 DEF StorageNext, OwnersInv, PoolInv
  <2>2. CASE MemoryNext /\ UNCHANGED <<variableVars, tableVars>>
    <3>1. UNCHANGED <<vars, said>> /\ UNCHANGED <<cfg, cfgBlock, entries, removed, installed>>
      BY <2>2 DEF variableVars, tableVars
    <3>2. OwnersInv' /\ DamagedStay
      BY <1>1, <2>1, <2>2, <3>1, MemoryStep
    <3>3. TablesInv'
      BY <1>1, <3>1 DEF TablesInv
    <3>4. QED BY <3>2, <3>3 DEF StorageInv
  <2>3. ASSUME NEW k \in Keys, NEW x \in Values \cup {NONE}, SetVariable(k, x)
        PROVE  StorageInv' /\ DamagedStay
    <3>1. OwnersInv' /\ DamagedStay /\ UNCHANGED tableVars
      BY <1>1, <2>3, VariableStep
    <3>2. TablesInv'
      BY <1>1, <3>1 DEF TablesInv, tableVars
    <3>3. QED BY <3>1, <3>2 DEF StorageInv
  <2>4. ASSUME NEW g \in Guids, NEW t \in Tables \cup {NONE}, InstallConfigurationTable(g, t)
        PROVE  StorageInv' /\ DamagedStay
    BY <1>1, <2>1, <2>4, TablesStep DEF StorageInv
  <2>5. QED BY <1>3, <2>2, <2>3, <2>4 DEF StorageNext
<1>4. QED BY <1>2, <1>3

\* The pool stays kept, its blocks stay apart, and the variables and tables stay what
\* they have to be, whatever is called in whatever order and wherever room runs out.
THEOREM StorageInvariant == StorageSpec => []StorageInv
<1>1. StorageInit => StorageInv
  BY StorageInitially
<1>2. StorageInv /\ [StorageNext]_storageVars => StorageInv'
  BY StorageStep
<1>3. QED BY <1>1, <1>2, PTL DEF StorageSpec

\* No call ends the program unless a block was damaged or there was no room.
THEOREM NoCallAborts == StorageSpec => []NoFalseAbort
<1>1. StorageInv => NoFalseAbort
  BY DEF StorageInv, OwnersInv, PoolInv, NoFalseAbort
<1>2. QED BY <1>1, StorageInvariant, PTL

\* A block whose guard was overwritten is neither freed nor moved: the check of
\* mem_free and mem_reallocate ends the program instead.
THEOREM DamagedBlocksStay == StorageSpec => DamageStops
<1>1. StorageInv /\ [StorageNext]_storageVars =>
        [\A b \in pool.live \ pool.feet : b \in pool'.live]_memoryVars
  BY StorageStep DEF DamagedStay
<1>2. QED BY <1>1, StorageInvariant, PTL DEF StorageSpec, DamageStops

\* The configuration tables that count are those installed last, each once, and none
\* is missing until one is removed.
THEOREM TablesAreKept == StorageSpec => []TablesKept
<1>1. StorageInv => TablesKept
  <2> SUFFICES ASSUME StorageInv PROVE TablesKept
    OBVIOUS
  <2>1. TablesInv
    BY DEF StorageInv
  <2>2. entries \in Nat
    BY <2>1, ArrayFacts
  <2>3. /\ \A i \in 1..entries : cfg[i].table = installed[cfg[i].guid]
        /\ \A i, j \in 1..entries : cfg[i].guid = cfg[j].guid => i = j
        /\ ~removed => \A g \in Guids : installed[g] # NONE => \E i \in 1..entries : cfg[i].guid = g
    BY <2>1 DEF TablesInv
  <2>4. ~removed => \A g \in Guids : installed[g] # NONE => EntryOf(g) # 0
    BY <2>2, <2>3, EntryFound
  <2>5. QED BY <2>3, <2>4 DEF TablesKept
<1>2. QED BY <1>1, StorageInvariant, PTL

-----------------------------------------------------------------------------
(* Every block has one owner *)

\* The owners' blocks one after the other, as OwnedOnce lists them
OwnersList ==
  <<others, held, IF cfgBlock = NIL THEN {} ELSE {cfgBlock}>>
    \o [i \in DOMAIN vars |-> BlocksOf(vars[i])]

\* That list has three owners and the variables behind them.
LEMMA OwnersListed ==
  ASSUME StorageInv
  PROVE  /\ Len(vars) \in Nat /\ DOMAIN vars = 1..Len(vars)
         /\ DOMAIN OwnersList = 1..(3 + Len(vars))
         /\ OwnersList[1] = others /\ OwnersList[2] = held /\ OwnersList[3] = {cfgBlock} \ {NIL}
         /\ \A i \in 1..Len(vars) : OwnersList[3 + i] = BlocksOf(vars[i])
<1> DEFINE S == SUBSET (Slots \cup {NIL})
           a == <<others, held, IF cfgBlock = NIL THEN {} ELSE {cfgBlock}>>
           b == [i \in DOMAIN vars |-> BlocksOf(vars[i])]
           m == Len(vars)
<1>1. m \in Nat /\ DOMAIN vars = 1..m
  BY LenProperties DEF StorageInv, OwnersInv, ListKept
<1>2. /\ pool.live \subseteq Slots /\ Rest \cup VarBlocks(vars) \subseteq pool.live
      /\ \A i \in DOMAIN vars : BlocksOf(vars[i]) \subseteq VarBlocks(vars)
  BY Owners DEF StorageInv, OwnersInv, Apart
<1>3. a \in Seq(S) /\ Len(a) = 3 /\ a[1] = others /\ a[2] = held /\ a[3] = {cfgBlock} \ {NIL}
  <2>1. /\ others \in S /\ held \in S /\ (IF cfgBlock = NIL THEN {} ELSE {cfgBlock}) \in S
        /\ (IF cfgBlock = NIL THEN {} ELSE {cfgBlock}) = {cfgBlock} \ {NIL}
    BY <1>2 DEF Rest
  <2> HIDE DEF S
  <2>2. QED BY <2>1
<1>4. b \in [1..m -> S]
  BY <1>1, <1>2
<1>5. b \in Seq(S) /\ Len(b) = m
  <2> HIDE DEF b, S, m
  <2> QED BY <1>1, <1>4, FunctionIsSequence
<1>6. \A i \in 1..m : b[i] = BlocksOf(vars[i])
  BY <1>1
<1>7. OwnersList = a \o b
  BY DEF OwnersList
<1> HIDE DEF a, b, S, m
<1>8. /\ a \o b \in Seq(S) /\ Len(a \o b) = 3 + m
      /\ \A i \in 1..(3 + m) : (a \o b)[i] = IF i <= 3 THEN a[i] ELSE b[i - 3]
  <2>1. /\ a \o b \in Seq(S) /\ Len(a \o b) = Len(a) + Len(b)
        /\ \A i \in 1..(Len(a) + Len(b)) :
             (a \o b)[i] = IF i <= Len(a) THEN a[i] ELSE b[i - Len(a)]
    <3>1. a \in Seq(S) /\ b \in Seq(S)
      BY <1>3, <1>5
    <3>2. QED BY ONLY <3>1, ConcatProperties
  <2>2. Len(a) = 3 /\ Len(b) = m
    BY <1>3, <1>5
  <2>3. QED BY <2>1, <2>2
<1>9. DOMAIN (a \o b) = 1..(3 + m)
  BY <1>8, LenProperties
<1>10. \A i \in 1..m : (a \o b)[3 + i] = b[i]
  <2> SUFFICES ASSUME NEW i \in 1..m PROVE (a \o b)[3 + i] = b[i]
    OBVIOUS
  <2>1. 3 + i \in 1..(3 + m) /\ ~(3 + i <= 3) /\ (3 + i) - 3 = i
    BY <1>1
  <2>2. QED BY <1>8, <2>1
<1>11. (a \o b)[1] = a[1] /\ (a \o b)[2] = a[2] /\ (a \o b)[3] = a[3]
  BY <1>1, <1>8
<1>12. QED BY <1>1, <1>3, <1>6, <1>7, <1>9, <1>10, <1>11 DEF m

\* No two owners share a block, and together they have those of the pool.
LEMMA OwnersDisjoint ==
  ASSUME StorageInv
  PROVE  /\ \A i, j \in DOMAIN OwnersList : i # j => OwnersList[i] \cap OwnersList[j] = {}
         /\ UNION ToSet(OwnersList) = Rest \cup VarBlocks(vars)
<1> DEFINE m == Len(vars)
           o == OwnersList
<1>1. /\ m \in Nat /\ DOMAIN vars = 1..m /\ DOMAIN o = 1..(3 + m)
      /\ o[1] = others /\ o[2] = held /\ o[3] = {cfgBlock} \ {NIL}
      /\ \A i \in 1..m : o[3 + i] = BlocksOf(vars[i])
  BY OwnersListed
<1>2. /\ others \cap held = {} /\ cfgBlock \notin others \cup held
      /\ VarBlocks(vars) \cap Rest = {}
      /\ \A i \in 1..m : BlocksOf(vars[i]) \subseteq VarBlocks(vars)
      /\ \A i, j \in 1..m : BlocksOf(vars[i]) \cap BlocksOf(vars[j]) # {} => i = j
  BY <1>1, Owners DEF StorageInv, OwnersInv, Apart, ListKept
<1> HIDE DEF m, o
<1>3. \A i \in DOMAIN o : i = 1 \/ i = 2 \/ i = 3 \/ (i - 3 \in 1..m /\ i = 3 + (i - 3))
  BY <1>1
<1>4. \A i \in DOMAIN o : i - 3 \in 1..m => o[i] = BlocksOf(vars[i - 3])
  BY <1>1, <1>3
<1>5. \A i \in DOMAIN o : \/ i = 1 /\ o[i] = others
                          \/ i = 2 /\ o[i] = held
                          \/ i = 3 /\ o[i] = {cfgBlock} \ {NIL}
                          \/ i - 3 \in 1..m /\ o[i] = BlocksOf(vars[i - 3])
  BY <1>1, <1>3, <1>4
<1>6. ASSUME NEW i \in DOMAIN o, NEW j \in DOMAIN o, i # j PROVE o[i] \cap o[j] = {}
  <2>1. CASE i - 3 \in 1..m /\ j - 3 \in 1..m
    <3>1. i - 3 # j - 3
      BY <1>3, <1>6, <2>1
    <3>2. QED BY <1>2, <1>4, <2>1, <3>1
  <2>2. CASE i - 3 \in 1..m /\ ~(j - 3 \in 1..m)
    <3>1. o[i] \subseteq VarBlocks(vars) /\ o[j] \subseteq Rest
      BY <1>2, <1>4, <1>5, <2>2 DEF Rest
    <3>2. QED BY <1>2, <3>1
  <2>3. CASE ~(i - 3 \in 1..m) /\ j - 3 \in 1..m
    <3>1. o[j] \subseteq VarBlocks(vars) /\ o[i] \subseteq Rest
      BY <1>2, <1>4, <1>5, <2>3 DEF Rest
    <3>2. QED BY <1>2, <3>1
  <2>4. CASE ~(i - 3 \in 1..m) /\ ~(j - 3 \in 1..m)
    BY <1>2, <1>5, <1>6, <2>4
  <2>5. QED BY <2>1, <2>2, <2>3, <2>4
<1>7. UNION ToSet(o) = Rest \cup VarBlocks(vars)
  <2>1. ASSUME NEW i \in DOMAIN o PROVE o[i] \subseteq Rest \cup VarBlocks(vars)
    BY <1>2, <1>5 DEF Rest
  <2>2. 1 \in DOMAIN o /\ 2 \in DOMAIN o /\ 3 \in DOMAIN o
    BY <1>1
  <2>3. Rest \subseteq UNION ToSet(o)
    BY <1>1, <2>2 DEF Rest, ToSet
  <2>4. ASSUME NEW b \in VarBlocks(vars) PROVE b \in UNION ToSet(o)
    <3>1. PICK i \in 1..m : b \in BlocksOf(vars[i])
      BY <1>1 DEF VarBlocks
    <3>2. 3 + i \in DOMAIN o /\ b \in o[3 + i]
      BY <1>1, <3>1
    <3>3. QED BY <3>2 DEF ToSet
  <2>5. QED BY <2>1, <2>3, <2>4 DEF ToSet
<1>8. QED BY <1>6, <1>7 DEF o

\* The books of the pool agree with its blocks, none has two owners, and without a lack
\* of room none is left without an owner: nothing a variable or the array gives up leaks.
THEOREM BlocksOwnedOnce == StorageSpec => []OwnedOnce
<1>1. StorageInv => OwnedOnce
  <2> SUFFICES ASSUME StorageInv PROVE OwnedOnce
    OBVIOUS
  <2>1. OwnersInv /\ TablesInv /\ PoolOK(pool, hurt, ~smashed)
    BY DEF StorageInv, OwnersInv, PoolInv
  <2>2. /\ pool.live \subseteq Slots /\ pool.first \in pool.live /\ pool.first # NIL
        /\ hurt \subseteq pool.live
        /\ \A i \in DOMAIN vars : vars[i] \in VarType
    BY <2>1, Owners
  <2>3. TypeOK
    <3>1. pool.feet \subseteq Slots /\ pool.used \in Nat /\ pool.asked \in Nat
      BY <2>1 DEF PoolOK, PoolType
    <3>2. {aborted, smashed, short, removed} \subseteq BOOLEAN
      BY <2>1 DEF OwnersInv, PoolInv, TablesInv
    <3>3. \A i \in DOMAIN vars : vars[i].key \in Keys /\ vars[i].value \in Values
      BY <2>2 DEF VarType
    <3>4. cfgBlock \in Slots \cup {NIL}
      BY <2>1, <2>2 DEF OwnersInv, Apart, Rest
    <3>5. entries \in 0..Len(cfg) /\ installed \in [Guids -> Tables \cup {NONE}]
      BY <2>1 DEF TablesInv
    <3>6. pool.first \in pool.live \cup {NIL} /\ pool.live \subseteq Slots /\ hurt \subseteq Slots
      BY <2>2
    <3>7. QED BY <3>1, <3>2, <3>3, <3>4, <3>5, <3>6 DEF TypeOK
  <2>4. BlocksAccounted
    <3> DEFINE exact == ~smashed
    <3>1. PoolOK(pool, hurt, exact)
      BY <2>1
    <3>2. Members(pool.links, pool.first) = pool.live
      <4> HIDE DEF exact
      <4> QED BY <2>2, <3>1, MembersAreLive
    <3>3. /\ pool.count = Cardinality(pool.live)
          /\ pool.asked = Cardinality(BytesOf(AskedOf(pool)))
          /\ exact => pool.used = Cardinality(BytesOf(RealOf(pool)))
      BY <3>1 DEF PoolOK, Counted
    <3>4. QED BY <3>2, <3>3 DEF BlocksAccounted, AskedOf, RealOf
  <2>5. /\ \A i, j \in DOMAIN OwnersList : i # j => OwnersList[i] \cap OwnersList[j] = {}
        /\ UNION ToSet(OwnersList) = Rest \cup VarBlocks(vars)
    BY OwnersDisjoint
  <2>6. UNION ToSet(OwnersList) \subseteq pool.live /\ (~short => UNION ToSet(OwnersList) = pool.live)
    BY <2>1, <2>5 DEF OwnersInv, Apart
  <2>7. QED BY <2>3, <2>4, <2>5, <2>6 DEF OwnedOnce, OwnersList
<1>2. QED BY <1>1, StorageInvariant, PTL

-----------------------------------------------------------------------------
(* The variables are the map of Store *)

\* Three places are not enough for a variable.
LEMMA NoRoomIsShort ==
  ASSUME NoRoom
  PROVE  Cardinality(Free) < Variables!Needed
<1>1. PICK a, b, c : Slots \ pool.live \subseteq {a, b, c}
  BY DEF NoRoom
<1>2. IsFiniteSet({a}) /\ Cardinality({a}) = 1
  BY FS_Singleton
<1>3. /\ IsFiniteSet({a} \cup {b})
      /\ Cardinality({a} \cup {b}) = IF b \in {a} THEN Cardinality({a}) ELSE Cardinality({a}) + 1
  BY <1>2, FS_AddElement
<1>4. /\ IsFiniteSet(({a} \cup {b}) \cup {c})
      /\ Cardinality(({a} \cup {b}) \cup {c})
           = IF c \in {a} \cup {b} THEN Cardinality({a} \cup {b}) ELSE Cardinality({a} \cup {b}) + 1
  BY <1>3, FS_AddElement
<1>5. Cardinality(({a} \cup {b}) \cup {c}) <= 3
  BY <1>2, <1>3, <1>4
<1>6. Free \in SUBSET (({a} \cup {b}) \cup {c})
  BY <1>1 DEF Free
<1>7. Cardinality(Free) <= Cardinality(({a} \cup {b}) \cup {c}) /\ IsFiniteSet(Free)
  BY <1>4, <1>6, FS_Subset
<1>8. Cardinality(Free) \in Nat /\ Cardinality(({a} \cup {b}) \cup {c}) \in Nat
  BY <1>4, <1>7, FS_CardinalityType
<1>9. QED BY <1>5, <1>7, <1>8 DEF Variables!Needed

\* The map as the refinement mapping gives it
Map == [k \in Keys |-> GetVariable(k)]

\* The map has for every key what GetVariable gives.
LEMMA MapIs ==
  /\ Map = [k \in Keys |-> Got(vars, k)]
  /\ Map' = [k \in Keys |-> Got(vars', k)]
  /\ \A k : Found(k) = At(vars, k)
BY DEF Map, GetVariable, Found, At, Got

\* A call of SetVariable is one of Store, or ends the program.
LEMMA VariableStored ==
  ASSUME StorageInv, NEW k \in Keys, NEW x \in Values \cup {NONE}, SetVariable(k, x)
  PROVE  Variables!Next
<1>1. OwnersInv /\ ListKept(vars)
  BY DEF StorageInv, OwnersInv
<1>2. /\ Map = [h \in Keys |-> Got(vars, h)] /\ Map' = [h \in Keys |-> Got(vars', h)]
  BY MapIs
<1>3. Map[k] = NONE <=> At(vars, k) = 0
  BY <1>1, <1>2, GotIs
<1>4. NowHas(vars', k, x) => Map' = [Map EXCEPT ![k] = x]
  BY <1>2 DEF NowHas
<1>5. vars' = vars => Map' = Map
  BY <1>2
<1>6. CASE x = NONE
  <2>1. /\ aborted' = FALSE
        /\ At(vars, k) = 0 => vars' = vars /\ said' = "not_found"
        /\ At(vars, k) # 0 => vars' = RemoveAt(vars, At(vars, k)) /\ said' = "success"
    BY <1>1, <1>6, DeleteKeeps DEF SetVariable
  <2>2. CASE At(vars, k) = 0
    <3>1. Map' = Map /\ Map[k] = NONE /\ said' = "not_found"
      BY <1>3, <1>5, <2>1, <2>2
    <3>2. Variables!Set(k, x)
      BY <1>6, <3>1 DEF Map, Variables!Set, Variables!Possible
    <3>3. QED BY <2>1, <3>2 DEF Variables!Next
  <2>3. CASE At(vars, k) # 0
    <3>1. At(vars, k) \in DOMAIN vars /\ vars[At(vars, k)].key = k
      BY <1>1, <2>3, AtIs
    <3>2. \A h : Got(vars', h) = IF h = k THEN NONE ELSE Got(vars, h)
      BY <1>1, <2>1, <2>3, <3>1, ListDeleted
    <3>3. Map' = [Map EXCEPT ![k] = x] /\ Map[k] # NONE /\ said' = "success"
      BY <1>3, <1>4, <1>6, <2>1, <2>3, <3>2 DEF NowHas
    <3>4. Variables!Set(k, x)
      BY <3>3 DEF Map, Variables!Set, Variables!Possible, Variables!Effect
    <3>5. QED BY <2>1, <3>4 DEF Variables!Next
  <2>4. QED BY <2>2, <2>3
<1>7. CASE x # NONE /\ ReplaceVariable(k, x)
  <2>1. /\ aborted' = FALSE
        /\ \/ NoRoom /\ vars' = vars /\ said' = "out_of_resources"
           \/ NowHas(vars', k, x) /\ said' = "success"
    BY <1>1, <1>7, ReplaceKeeps
  <2>2. CASE NoRoom /\ vars' = vars /\ said' = "out_of_resources"
    <3>1. Map' = Map /\ Cardinality(Free) < Variables!Needed
      BY <1>5, <2>2, NoRoomIsShort
    <3>2. Variables!Set(k, x)
      BY <1>7, <2>2, <3>1 DEF Map, Variables!Set
    <3>3. QED BY <2>1, <3>2 DEF Variables!Next
  <2>3. CASE NowHas(vars', k, x) /\ said' = "success"
    <3>1. Variables!Set(k, x)
      BY <1>4, <1>7, <2>3 DEF Map, Variables!Set, Variables!Possible, Variables!Effect
    <3>2. QED BY <2>1, <3>1 DEF Variables!Next
  <2>4. QED BY <2>1, <2>2, <2>3
<1>8. CASE x # NONE /\ CreateVariable(k, x)
  <2>1. /\ At(vars, k) = 0
        /\ \/ NoRoom /\ vars' = vars /\ said' = "out_of_resources" /\ aborted' = FALSE
           \/ NoRoom /\ vars' = vars /\ said' = "success" /\ aborted' = FALSE
           \/ vars' = vars /\ said' = said
           \/ NowHas(vars', k, x) /\ said' = "success" /\ aborted' = FALSE
    BY <1>1, <1>8, CreateKeeps
  <2>2. CASE NoRoom /\ vars' = vars /\ said' = "out_of_resources" /\ aborted' = FALSE
    <3>1. Map' = Map /\ Cardinality(Free) < Variables!Needed
      BY <1>5, <2>2, NoRoomIsShort
    <3>2. Variables!Set(k, x)
      BY <1>8, <2>2, <3>1 DEF Map, Variables!Set
    <3>3. QED BY <2>2, <3>2 DEF Variables!Next
  <2>3. CASE NoRoom /\ vars' = vars /\ said' = "success" /\ aborted' = FALSE
    <3>1. Map' = Map /\ Cardinality(Free) < Variables!Needed /\ Map[k] = NONE
      BY <1>3, <1>5, <2>1, <2>3, NoRoomIsShort
    <3>2. Variables!Set(k, x)
      BY <1>8, <2>3, <3>1 DEF Map, Variables!Set
    <3>3. QED BY <2>3, <3>2 DEF Variables!Next
  <2>4. CASE vars' = vars /\ said' = said
    BY <1>5, <2>4 DEF Map, Variables!Next
  <2>5. CASE NowHas(vars', k, x) /\ said' = "success" /\ aborted' = FALSE
    <3>1. Variables!Set(k, x)
      BY <1>4, <1>8, <2>5 DEF Map, Variables!Set, Variables!Possible, Variables!Effect
    <3>2. QED BY <2>5, <3>1 DEF Variables!Next
  <2>6. QED BY <2>1, <2>2, <2>3, <2>4, <2>5
<1>9. QED BY <1>6, <1>7, <1>8 DEF SetVariable

\* SetVariable and GetVariable implement the map of Store, whatever happens to the
\* pool the variables are kept in.
THEOREM VariablesRefineStore == StorageSpec => VariablesAreStored
<1>1. StorageInit => Variables!Init
  <2> SUFFICES ASSUME StorageInit PROVE Variables!Init
    OBVIOUS
  <2>1. vars = <<>> /\ said = "none" /\ aborted = FALSE
    BY DEF StorageInit, MemoryInit
  <2>2. \A k : GetVariable(k) = NONE
    BY <2>1 DEF GetVariable, Found
  <2>3. QED BY <2>1, <2>2 DEF Variables!Init
<1>2. StorageInv /\ [StorageNext]_storageVars => [Variables!Next]_(Variables!vars)
  <2> SUFFICES ASSUME StorageInv, [StorageNext]_storageVars
               PROVE  [Variables!Next]_(Variables!vars)
    OBVIOUS
  <2>1. vars' = vars /\ said' = said => Variables!Next
    BY MapIs DEF Map, Variables!Next
  <2>2. CASE UNCHANGED storageVars
    <3>1. vars' = vars /\ said' = said
      BY <2>2 DEF storageVars, variableVars
    <3>2. QED BY <2>1, <3>1
  <2>3. CASE MemoryNext /\ UNCHANGED <<variableVars, tableVars>>
    <3>1. vars' = vars /\ said' = said
      BY <2>3 DEF variableVars
    <3>2. QED BY <2>1, <3>1
  <2>4. ASSUME NEW k \in Keys, NEW x \in Values \cup {NONE}, SetVariable(k, x)
        PROVE  Variables!Next
    BY <2>4, VariableStored
  <2>5. ASSUME NEW g \in Guids, NEW t \in Tables \cup {NONE}, InstallConfigurationTable(g, t)
        PROVE  Variables!Next
    <3>1. vars' = vars /\ said' = said
      BY <2>5 DEF InstallConfigurationTable, variableVars
    <3>2. QED BY <2>1, <3>1
  <2>6. QED BY <2>2, <2>3, <2>4, <2>5 DEF StorageNext
<1>3. QED BY <1>1, <1>2, StorageInvariant, PTL DEF StorageSpec, VariablesAreStored, Variables!Spec

-----------------------------------------------------------------------------
(* The place of an aligned block *)

\* A factor is not greater than the product.
LEMMA FactorBelow ==
  ASSUME NEW k \in Nat, NEW a \in Nat \ {0}
  PROVE  k <= k * a
<1>1. k * a = k + k * (a - 1)
  OBVIOUS
<1>2. k * (a - 1) \in Nat
  OBVIOUS
<1>3. QED BY <1>1, <1>2

\* A number rounded up is the multiple less than one alignment above it.
LEMMA RoundUpFacts ==
  ASSUME NEW v \in Nat, NEW a \in Nat \ {0}
  PROVE  /\ RoundUp(v, a) \in Nat
         /\ v <= RoundUp(v, a) /\ RoundUp(v, a) < v + a
         /\ \E k \in Nat : RoundUp(v, a) = k * a
<1> DEFINE n == v + a - 1
           q == n \div a
<1>1. n \in Nat /\ q \in Nat
  OBVIOUS
<1>2. n = q * a + (n % a) /\ (n % a) \in 0 .. a - 1
  OBVIOUS
<1>3. RoundUp(v, a) = q * a
  BY DEF RoundUp
<1>4. q * a \in Nat
  BY <1>1
<1> HIDE DEF q
<1>5. v <= q * a /\ q * a < v + a
  BY <1>1, <1>2, <1>4
<1>6. QED BY <1>1, <1>3, <1>4, <1>5

\* Head, block and foot of an aligned allocation lie in the memory taken for it,
\* whatever its alignment and wherever that memory is.
THEOREM AlignedBlocksFit ==
  ASSUME NEW align \in Nat \ {0}, NEW size \in Nat, NEW data \in Nat,
         NEW head \in Nat, NEW foot \in Nat
  PROVE  BlockFits(align, size, data, head, foot)
<1> DEFINE first == RoundUp(data, align)
           room == first - data
           more == RoundUp(head - room, align)
           rs == RoundUp(size, align)
           buff == Buffer(align, data, head)
<1>1. /\ first \in Nat /\ data <= first /\ first < data + align
      /\ \E k \in Nat : first = k * align
  BY RoundUpFacts
<1>2. rs \in Nat
  BY RoundUpFacts
<1>3. rs + 2 * align + head + foot <= RealSize(align, size, head, foot)
  <2>1. rs + 2 * align + head + foot \in Nat
    BY <1>2
  <2> HIDE DEF rs
  <2>2. rs + 2 * align + head + foot <= RoundUp(rs + 2 * align + head + foot, align)
    BY <2>1, RoundUpFacts
  <2>3. QED BY <2>2 DEF RealSize, rs
<1>4. RealSize(align, size, head, foot) \in Nat
  <2>1. rs + 2 * align + head + foot \in Nat
    BY <1>2
  <2>2. QED BY <2>1, RoundUpFacts DEF RealSize
<1>5. CASE room >= head
  <2>1. buff = first
    BY <1>5 DEF Buffer
  <2>0. \E k \in 0..first : first = k * align
    BY <1>1, FactorBelow
  <2> HIDE DEF first, rs, buff
  <2>2. /\ data <= buff - head
        /\ buff + rs + foot <= data + RealSize(align, size, head, foot)
    BY <1>1, <1>2, <1>3, <1>4, <1>5, <2>1
  <2>3. QED BY <2>0, <2>1, <2>2 DEF BlockFits, buff, rs
<1>6. CASE room < head
  <2>1. head - room \in Nat
    <3> HIDE DEF first
    <3> QED BY <1>1, <1>6
  <2>2. /\ more \in Nat /\ head - room <= more /\ more < head - room + align
        /\ \E k \in Nat : more = k * align
    BY <2>1, RoundUpFacts
  <2>3. buff = first + more
    <3>1. ~(room >= head)
      <4> HIDE DEF first
      <4> QED BY <1>1, <1>6
    <3>2. QED BY <3>1 DEF Buffer
  <2> HIDE DEF first, more, rs, buff
  <2>4. /\ data <= buff - head
        /\ buff + rs + foot <= data + RealSize(align, size, head, foot)
    BY <1>1, <1>2, <1>3, <1>4, <1>6, <2>2, <2>3
  <2>5. \E k \in 0..buff : buff = k * align
    <3>1. PICK i \in Nat : first = i * align
      BY <1>1
    <3>2. PICK j \in Nat : more = j * align
      BY <2>2
    <3>3. i * align + j * align = (i + j) * align /\ i + j \in Nat
      OBVIOUS
    <3>4. i + j <= (i + j) * align
      BY FactorBelow
    <3>5. QED BY <2>3, <3>1, <3>2, <3>3, <3>4
  <2>6. QED BY <2>4, <2>5 DEF BlockFits, buff, rs
<1>7. QED
  <2> HIDE DEF first
  <2>1. room >= head \/ room < head
    BY <1>1
  <2>2. QED BY <1>5, <1>6, <2>1
=============================================================================
