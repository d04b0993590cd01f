---------------------------- MODULE EventsProofs ----------------------------
(***************************************************************************)
(* Proofs about Events, for every value of its constants.                  *)
(*                                                                         *)
(* The safety argument is an inductive invariant whose heart is StackOK:   *)
(* the nodes a dispatcher frame holds are queued, each frame runs above    *)
(* the level it interrupted, and that level is at least the level of the   *)
(* frames below it.  A nested dispatch only calls functions above the      *)
(* current level, hence above every level on the stack, so it can neither  *)
(* re-enter a function nor unlink a node another frame holds.              *)
(*                                                                         *)
(* On top of it, SignalInv says what the loops in progress have left to do *)
(* with the signals: none is lost.  The order of events of one level is a  *)
(* property of every single step and needs no more than the ordered list.  *)
(***************************************************************************)
EXTENDS Events, TLAPS, SequenceTheorems

-----------------------------------------------------------------------------
(* Sequences *)

\* Where the elements of a sequence are after an insertion
LEMMA InsertAtFacts ==
  ASSUME NEW S, NEW q \in Seq(S), NEW i \in 1 .. Len(q) + 1, NEW e \in S
  PROVE  /\ InsertAt(q, i, e) \in Seq(S)
         /\ Len(InsertAt(q, i, e)) = Len(q) + 1
         /\ \A j \in 1 .. Len(q) + 1 :
              InsertAt(q, i, e)[j] = IF j < i THEN q[j]
                                     ELSE IF j = i THEN e ELSE q[j - 1]
<1> DEFINE a == SubSeq(q, 1, i - 1)
           b == SubSeq(q, i, Len(q))
<1>1. Len(q) \in Nat /\ \A j \in 1 .. Len(q) : q[j] \in S
  BY LenProperties
<1>2. /\ a \in Seq(S) /\ Len(a) = i - 1
      /\ \A j \in 1 .. i - 1 : a[j] = q[j]
  BY <1>1, SubSeqProperties, Z3
<1>3. /\ b \in Seq(S) /\ Len(b) = Len(q) - i + 1
      /\ \A j \in 1 .. Len(q) - i + 1 : b[j] = q[i + j - 1]
  BY <1>1, SubSeqProperties, Z3
<1>4. <<e>> \in Seq(S) /\ Len(<<e>>) = 1 /\ <<e>>[1] = e
  OBVIOUS
<1> HIDE DEF a, b
<1>5. /\ a \o <<e>> \in Seq(S) /\ Len(a \o <<e>>) = i
      /\ \A j \in 1 .. i : (a \o <<e>>)[j] = IF j < i THEN q[j] ELSE e
  BY <1>1, <1>2, <1>4, ConcatProperties, Z3
<1>6. InsertAt(q, i, e) = (a \o <<e>>) \o b
  BY DEF InsertAt, a, b
<1> DEFINE c == a \o <<e>>
<1>7. /\ c \in Seq(S) /\ Len(c) = i
      /\ \A j \in 1 .. i : c[j] = IF j < i THEN q[j] ELSE e
  BY <1>5
<1> HIDE DEF c
<1>8. /\ c \o b \in Seq(S) /\ Len(c \o b) = Len(c) + Len(b)
      /\ \A j \in 1 .. Len(c) + Len(b) :
           (c \o b)[j] = IF j <= Len(c) THEN c[j] ELSE b[j - Len(c)]
  BY <1>3, <1>7, ConcatProperties
<1>9. /\ c \o b \in Seq(S) /\ Len(c \o b) = Len(q) + 1
      /\ \A j \in 1 .. Len(q) + 1 :
           (c \o b)[j] = IF j < i THEN q[j] ELSE IF j = i THEN e ELSE q[j - 1]
  BY <1>1, <1>3, <1>7, <1>8
<1>10. QED BY <1>6, <1>9 DEF c

\* and after a removal
LEMMA RemoveAtFacts ==
  ASSUME NEW S, NEW q \in Seq(S), NEW i \in 1 .. Len(q)
  PROVE  /\ RemoveAt(q, i) \in Seq(S)
         /\ Len(RemoveAt(q, i)) = Len(q) - 1
         /\ \A j \in 1 .. Len(q) - 1 :
              RemoveAt(q, i)[j] = IF j < i THEN q[j] ELSE q[j + 1]
<1> DEFINE a == SubSeq(q, 1, i - 1)
           b == SubSeq(q, i + 1, Len(q))
<1>1. Len(q) \in Nat /\ \A j \in 1 .. Len(q) : q[j] \in S
  BY LenProperties
<1>2. /\ a \in Seq(S) /\ Len(a) = i - 1
      /\ \A j \in 1 .. i - 1 : a[j] = q[j]
  BY <1>1, SubSeqProperties, Z3
<1>3. /\ b \in Seq(S) /\ Len(b) = Len(q) - i
      /\ \A j \in 1 .. Len(q) - i : b[j] = q[i + j]
  BY <1>1, SubSeqProperties, Z3
<1> HIDE DEF a, b
<1>4. RemoveAt(q, i) = a \o b
  BY DEF RemoveAt, a, b
<1>5. /\ a \o b \in Seq(S)
      /\ Len(a \o b) = Len(a) + Len(b)
      /\ \A j \in 1 .. Len(a) + Len(b) :
           (a \o b)[j] = IF j <= Len(a) THEN a[j] ELSE b[j - Len(a)]
  BY <1>2, <1>3, ConcatProperties
<1> DEFINE c == a \o b
<1> HIDE DEF c
<1>6. /\ c \in Seq(S) /\ Len(c) = Len(q) - 1
      /\ \A j \in 1 .. Len(q) - 1 :
           c[j] = IF j <= i - 1 THEN a[j] ELSE b[j - (i - 1)]
  BY <1>1, <1>2, <1>3, <1>5, SMT DEF c
<1>7. ASSUME NEW j \in 1 .. Len(q) - 1
      PROVE  c[j] = IF j < i THEN q[j] ELSE q[j + 1]
  <2>1. CASE j < i
    BY <1>1, <1>2, <1>6, <2>1, SMT
  <2>2. CASE ~(j < i)
    <3>1. j - (i - 1) \in 1 .. Len(q) - i /\ i + (j - (i - 1)) = j + 1
      BY <1>1, <2>2, SMT
    <3>2. b[j - (i - 1)] = q[i + (j - (i - 1))]
      BY <1>3, <3>1
    <3>3. c[j] = b[j - (i - 1)]
      BY <1>1, <1>6, <2>2, SMT
    <3>4. QED BY <2>2, <3>1, <3>2, <3>3
  <2>3. QED BY <2>1, <2>2
<1>8. QED BY <1>4, <1>6, <1>7 DEF c

\* A sequence without its last element
LEMMA FrontFacts ==
  ASSUME NEW S, NEW s \in Seq(S), s # <<>>
  PROVE  /\ Front(s) \in Seq(S)
         /\ Len(Front(s)) = Len(s) - 1
         /\ \A j \in 1 .. Len(s) - 1 : Front(s)[j] = s[j]
         /\ s[Len(s)] \in S
<1>1. Len(s) \in Nat \ {0} /\ \A j \in 1 .. Len(s) : s[j] \in S
  BY LenProperties, EmptySeq
<1> DEFINE n == Len(s) - 1
<1>2. n \in Nat /\ \A j \in 1 .. n : s[j] \in S
  BY <1>1
<1> HIDE DEF n
<1>3. /\ SubSeq(s, 1, n) \in Seq(S) /\ Len(SubSeq(s, 1, n)) = n
      /\ \A j \in 1 .. n : SubSeq(s, 1, n)[j] = s[j]
  BY <1>2, SubSeqProperties, Z3
<1>4. Front(s) = SubSeq(s, 1, n)
  BY DEF Front, n
<1>5. s[Len(s)] \in S
  BY <1>1
<1>6. QED BY <1>3, <1>4, <1>5 DEF n

\* The first n elements of a sequence
LEMMA PrefixFacts ==
  ASSUME NEW S, NEW s \in Seq(S), NEW n \in 0 .. Len(s)
  PROVE  /\ SubSeq(s, 1, n) \in Seq(S)
         /\ Len(SubSeq(s, 1, n)) = n
         /\ \A j \in 1 .. n : SubSeq(s, 1, n)[j] = s[j]
<1>1. Len(s) \in Nat /\ \A j \in 1 .. Len(s) : s[j] \in S
  BY LenProperties
<1>2. n \in Nat /\ \A j \in 1 .. n : s[j] \in S
  BY <1>1
<1>3. QED BY <1>2, SubSeqProperties, Z3

\* The members of a sequence are its elements.
LEMMA MembersOfSeq ==
  ASSUME NEW S, NEW q \in Seq(S)
  PROVE  /\ ToSet(q) \subseteq S
         /\ \A e : e \in ToSet(q) <=> \E i \in 1 .. Len(q) : q[i] = e
  BY DEF ToSet

\* Index finds a member.
LEMMA IndexFacts ==
  ASSUME NEW S, NEW q \in Seq(S), NEW e \in ToSet(q)
  PROVE  Index(q, e) \in 1 .. Len(q) /\ q[Index(q, e)] = e
<1>1. PICK i \in DOMAIN q : q[i] = e
  BY MembersOfSeq, LenProperties
<1>2. Index(q, e) \in DOMAIN q /\ q[Index(q, e)] = e
  BY <1>1, Zenon DEF Index
<1>3. QED BY <1>2, LenProperties

\* An insertion adds one member.
LEMMA InsertedMembers ==
  ASSUME NEW S, NEW q \in Seq(S), NEW i \in 1 .. Len(q) + 1, NEW e \in S
  PROVE  ToSet(InsertAt(q, i, e)) = ToSet(q) \cup {e}
<1> DEFINE r == InsertAt(q, i, e)
<1> HIDE DEF r
<1>0. r = InsertAt(q, i, e)
  BY DEF r
<1>1. /\ r \in Seq(S) /\ Len(r) = Len(q) + 1
      /\ \A j \in 1 .. Len(q) + 1 :
           r[j] = IF j < i THEN q[j] ELSE IF j = i THEN e ELSE q[j - 1]
  BY <1>0, InsertAtFacts, SMTT(60)
<1>2. ASSUME NEW x \in ToSet(r) PROVE x \in ToSet(q) \cup {e}
  <2>1. PICK j \in 1 .. Len(q) + 1 : r[j] = x
    BY <1>1, <1>2, MembersOfSeq
  <2>2. CASE j < i
    BY <2>1, <2>2, <1>1, MembersOfSeq
  <2>3. CASE j = i
    BY <2>1, <2>3, <1>1
  <2>4. CASE j > i
    <3>1. j - 1 \in 1 .. Len(q) /\ q[j - 1] = x
      BY <2>1, <2>4, <1>1
    <3>2. QED BY <3>1, MembersOfSeq
  <2>5. QED BY <2>2, <2>3, <2>4
<1>3. ASSUME NEW x \in ToSet(q) PROVE x \in ToSet(r)
  <2>1. PICK j \in 1 .. Len(q) : q[j] = x
    BY <1>3, MembersOfSeq
  <2>2. CASE j < i
    <3>1. j \in 1 .. Len(r) /\ r[j] = x
      BY <2>1, <2>2, <1>1
    <3>2. QED BY <3>1, <1>1, MembersOfSeq
  <2>3. CASE j >= i
    <3>1. j + 1 \in 1 .. Len(r) /\ r[j + 1] = x
      BY <2>1, <2>3, <1>1
    <3>2. QED BY <3>1, <1>1, MembersOfSeq
  <2>4. QED BY <2>2, <2>3
<1>4. e \in ToSet(r)
  <2>1. i \in 1 .. Len(r) /\ r[i] = e
    BY <1>1
  <2>2. QED BY <2>1, <1>1, MembersOfSeq
<1>5. QED BY <1>2, <1>3, <1>4 DEF r

\* A removal leaves the other members.
LEMMA RemovedMembers ==
  ASSUME NEW S, NEW q \in Seq(S), NEW i \in 1 .. Len(q), NEW x \in ToSet(q), x # q[i]
  PROVE  x \in ToSet(RemoveAt(q, i))
<1> DEFINE r == RemoveAt(q, i)
<1>1. /\ r \in Seq(S) /\ Len(r) = Len(q) - 1
      /\ \A j \in 1 .. Len(q) - 1 : r[j] = IF j < i THEN q[j] ELSE q[j + 1]
  BY RemoveAtFacts
<1> HIDE DEF r
<1>2. PICK k \in 1 .. Len(q) : q[k] = x
  BY MembersOfSeq
<1>3. DEFINE m == IF k < i THEN k ELSE k - 1
<1>4. m \in 1 .. Len(r) /\ r[m] = x
  BY <1>1, <1>2
<1> HIDE DEF m
<1>5. QED BY <1>1, <1>4, MembersOfSeq DEF r

-----------------------------------------------------------------------------
(* The inductive invariant *)

\* The queue part: what QueueOrdered says of a list q.
QueueOK(q) ==
  /\ \A i, j \in 1 .. Len(q) :
       i < j => q[i] # q[j] /\ Level(q[i]) >= Level(q[j])
  /\ \A e \in ToSet(q) : e \in Created /\ shape[e].func

\* One dispatcher frame f over list q.
RunFrameOK(f, q) ==
  /\ f.cur \in ToSet(q)
  /\ f.old < Level(f.cur)
  /\ f.next # Nil => /\ f.next \in ToSet(q) /\ f.next # f.cur
                     /\ Level(f.next) <= Level(f.cur)

\* A call stack st over list q at level t.
StackOK(st, q, t) ==
  \A i \in 1 .. Len(st) : st[i].kind = "run" =>
    /\ RunFrameOK(st[i], q)
    /\ Level(st[i].cur) <= t
    /\ \A j \in 1 .. Len(st) : i < j =>
         /\ st[j].kind = "run" => Level(st[i].cur) < Level(st[j].cur)
         /\ st[j].kind \in {"run", "image"} => Level(st[i].cur) <= st[j].old

\* The inductive invariant of the dispatcher
DispatchInv ==
  /\ TypeOK
  /\ QueueOK(queue)
  /\ StackOK(stack, queue, tpl)
  /\ ToSet(notifies) \subseteq Created

\* An event has one of the 32 levels.
LEMMA LevelType ==
  ASSUME TypeOK, NEW e \in Event
  PROVE  Level(e) \in TplRange /\ Level(e) \in Nat
<1>1. shape[e] \in Shape
  BY DEF TypeOK
<1>2. Level(e) \in TplRange
  BY <1>1 DEF Shape, Level
<1>3. QED BY <1>2 DEF TplRange, HIGH_LEVEL

\* The node after l in an ordered list is another node of no higher level.
LEMMA SuccessorFacts ==
  ASSUME NEW q \in Seq(Event), QueueOK(q), NEW l \in ToSet(q), Successor(q, l) # Nil
  PROVE  /\ Successor(q, l) \in ToSet(q) /\ Successor(q, l) # l
         /\ Level(Successor(q, l)) <= Level(l)
<1>1. Index(q, l) \in 1 .. Len(q) /\ q[Index(q, l)] = l
  BY IndexFacts
<1>2. Len(q) \in Nat /\ Index(q, l) + 1 \in 1 .. Len(q)
      /\ Successor(q, l) = q[Index(q, l) + 1]
  BY <1>1, LenProperties DEF Successor
<1>3. Successor(q, l) \in ToSet(q)
  BY <1>2, MembersOfSeq
<1>4. QED BY <1>1, <1>2, <1>3 DEF QueueOK

\* One turn of the dispatcher loop from a good stack s, list q and level t
\* reaches a good stack and level.
LEMMA RunQueueKeeps ==
  ASSUME TypeOK, NEW q \in Seq(Event), QueueOK(q), NEW s \in Seq(Frame),
         NEW t \in TplRange, StackOK(s, q, t), NEW l \in ToSet(q) \cup {Nil},
         NEW st, NEW u,
         IF l # Nil /\ t < Level(l)
         THEN u = Level(l) /\ st = Append(s, RunFrame(l, Successor(q, l), t))
         ELSE u = t /\ st = s
  PROVE  st \in Seq(Frame) /\ u \in TplRange /\ StackOK(st, q, u)
<1>1. CASE ~(l # Nil /\ t < Level(l))
  BY <1>1
<1>2. CASE l # Nil /\ t < Level(l)
  <2> DEFINE f == RunFrame(l, Successor(q, l), t)
  <2>1. l \in Event /\ l \in ToSet(q) /\ Level(l) \in TplRange /\ Level(l) \in Nat
    BY <1>2, MembersOfSeq, LevelType
  <2>2. Successor(q, l) \in Event \cup {Nil}
    BY <2>1, SuccessorFacts, MembersOfSeq
  <2>3. f \in Frame /\ f.kind = "run" /\ f.cur = l /\ f.old = t
        /\ f.next = Successor(q, l)
    BY <2>1, <2>2 DEF Frame, RunFrame
  <2>4. RunFrameOK(f, q)
    BY <1>2, <2>1, <2>3, SuccessorFacts DEF RunFrameOK
  <2> HIDE DEF f
  <2>5. st = Append(s, f) /\ u = Level(l)
    BY <1>2 DEF f
  <2>6. /\ st \in Seq(Frame) /\ Len(s) \in Nat /\ Len(st) = Len(s) + 1
        /\ \A i \in 1 .. Len(s) : st[i] = s[i]
        /\ st[Len(s) + 1] = f
    BY <2>3, <2>5, LenProperties
  <2>7. \A i \in 1 .. Len(s) : s[i].kind = "run" => Level(s[i].cur) <= t
    BY DEF StackOK
  <2>8. \A i \in 1 .. Len(s) : s[i].kind = "run" => Level(s[i].cur) \in Nat
    <3> SUFFICES ASSUME NEW i \in 1 .. Len(s), s[i].kind = "run"
                 PROVE  Level(s[i].cur) \in Nat
      OBVIOUS
    <3>1. s[i].cur \in Event
      BY MembersOfSeq DEF StackOK, RunFrameOK
    <3>2. QED BY <3>1, LevelType
  <2>9. t \in Nat
    BY RequestAssumption DEF TplRange, HIGH_LEVEL
  <2>10. StackOK(st, q, u)
    <3> SUFFICES ASSUME NEW i \in 1 .. Len(st), st[i].kind = "run"
                 PROVE  /\ RunFrameOK(st[i], q)
                        /\ Level(st[i].cur) <= u
                        /\ \A j \in 1 .. Len(st) : i < j =>
                             /\ st[j].kind = "run" => Level(st[i].cur) < Level(st[j].cur)
                             /\ st[j].kind \in {"run", "image"}
                                  => Level(st[i].cur) <= st[j].old
      BY DEF StackOK
    <3>1. CASE i = Len(s) + 1
      BY <3>1, <2>1, <2>3, <2>4, <2>5, <2>6
    <3>2. CASE i \in 1 .. Len(s)
      <4>1. s[i].kind = "run" /\ st[i] = s[i]
        BY <3>2, <2>6
      <4>2. RunFrameOK(st[i], q) /\ Level(s[i].cur) <= t
        BY <3>2, <4>1 DEF StackOK
      <4>3. Level(st[i].cur) <= u /\ Level(s[i].cur) < Level(l)
        BY <3>2, <4>1, <4>2, <1>2, <2>1, <2>5, <2>8, <2>9
      <4>4. ASSUME NEW j \in 1 .. Len(st), i < j
            PROVE  /\ st[j].kind = "run" => Level(st[i].cur) < Level(st[j].cur)
                   /\ st[j].kind \in {"run", "image"} => Level(st[i].cur) <= st[j].old
        <5>1. CASE j = Len(s) + 1
          BY <5>1, <4>1, <4>2, <4>3, <2>3, <2>6
        <5>2. CASE j \in 1 .. Len(s)
          BY <5>2, <3>2, <4>1, <4>4, <2>6 DEF StackOK
        <5>3. QED BY <5>1, <5>2, <2>6
      <4>5. QED BY <4>2, <4>3, <4>4
    <3>3. QED BY <3>1, <3>2, <2>6
  <2>11. QED BY <2>1, <2>5, <2>6, <2>10
<1>3. QED BY <1>1, <1>2

\* A good stack is good over a list with more nodes.
LEMMA StackOKGrows ==
  ASSUME NEW s, NEW q, NEW r, NEW t, ToSet(q) \subseteq ToSet(r), StackOK(s, q, t)
  PROVE  StackOK(s, r, t)
  BY DEF StackOK, RunFrameOK

\* Any initial part of a good stack is good, also over a list that only lost
\* nodes of a level above it and at any level at least that of its frames.
LEMMA StackOKFront ==
  ASSUME NEW s \in Seq(Frame), s # <<>>, NEW q, NEW t, StackOK(s, q, t)
  PROVE  Front(s) \in Seq(Frame) /\ StackOK(Front(s), q, t)
<1>1. /\ Front(s) \in Seq(Frame) /\ Len(Front(s)) = Len(s) - 1
      /\ \A j \in 1 .. Len(s) - 1 : Front(s)[j] = s[j]
  BY FrontFacts
<1>2. Len(s) \in Nat
  BY LenProperties
<1>3. \A j \in 1 .. Len(Front(s)) : j \in 1 .. Len(s) /\ Front(s)[j] = s[j]
  BY <1>1, <1>2
<1>4. StackOK(Front(s), q, t)
  BY <1>3 DEF StackOK
<1>5. QED BY <1>1, <1>4

\* The frames an Exit leaves
LEMMA StackOKPrefix ==
  ASSUME NEW s \in Seq(Frame), NEW n \in 0 .. Len(s), NEW q, NEW t, StackOK(s, q, t)
  PROVE  SubSeq(s, 1, n) \in Seq(Frame) /\ StackOK(SubSeq(s, 1, n), q, t)
<1>1. /\ SubSeq(s, 1, n) \in Seq(Frame) /\ Len(SubSeq(s, 1, n)) = n
      /\ \A j \in 1 .. n : SubSeq(s, 1, n)[j] = s[j]
  BY PrefixFacts
<1> DEFINE r == SubSeq(s, 1, n)
<1> HIDE DEF r
<1>2. \A j \in 1 .. Len(r) : j \in 1 .. Len(s) /\ r[j] = s[j]
  BY <1>1, LenProperties DEF r
<1>3. StackOK(r, q, t)
  BY <1>2 DEF StackOK
<1>4. QED BY <1>1, <1>3 DEF r

\* A loop's next turn leaves the stack good.
LEMMA AdvancedKeeps ==
  ASSUME TypeOK, stack # <<>>, NEW q, NEW t, StackOK(stack, q, t)
  PROVE  Advanced \in Seq(Frame) /\ StackOK(Advanced, q, t)
<1> DEFINE n == Len(stack)
           f == [Top EXCEPT !.pos = @ + 1]
<1>1. stack \in Seq(Frame) /\ n \in 1 .. Len(stack) /\ Top = stack[n] /\ Top \in Frame
  BY EmptySeq, LenProperties, ElementOfSeq DEF TypeOK, Top
<1>2. f \in Frame /\ f.kind = Top.kind /\ f.cur = Top.cur /\ f.next = Top.next
      /\ f.old = Top.old
  <2> SUFFICES ASSUME NEW g \in Frame
               PROVE  LET h == [g EXCEPT !.pos = @ + 1]
                      IN /\ h \in Frame /\ h.kind = g.kind /\ h.cur = g.cur
                         /\ h.next = g.next /\ h.old = g.old
    BY <1>1
  <2> QED BY DEF Frame
<1>3. Advanced = [stack EXCEPT ![n] = f]
  BY <1>1 DEF Advanced, Top
<1> HIDE DEF f
<1>4. /\ Advanced \in Seq(Frame) /\ Len(Advanced) = Len(stack)
      /\ \A j \in 1 .. Len(stack) : Advanced[j] = IF j = n THEN f ELSE stack[j]
  BY <1>1, <1>2, <1>3, ExceptSeq
<1>5. \A j \in 1 .. Len(stack) :
        /\ Advanced[j].kind = stack[j].kind /\ Advanced[j].cur = stack[j].cur
        /\ Advanced[j].next = stack[j].next /\ Advanced[j].old = stack[j].old
  BY <1>1, <1>2, <1>4
<1>6. StackOK(Advanced, q, t)
  BY <1>4, <1>5 DEF StackOK, RunFrameOK
<1>7. QED BY <1>4, <1>6

\* An event inserted at its place leaves the list ordered and complete.
LEMMA InsertKeepsOrder ==
  ASSUME TypeOK, QueueOK(queue), NEW e \in Created, shape[e].func, e \notin Queued,
         NEW i \in 1 .. Len(queue) + 1, InsertPos(queue, e, i)
  PROVE  /\ InsertAt(queue, i, e) \in Seq(Event) /\ QueueOK(InsertAt(queue, i, e))
         /\ Queued \subseteq ToSet(InsertAt(queue, i, e))
<1> DEFINE r == InsertAt(queue, i, e)
<1>1. queue \in Seq(Event) /\ Len(queue) \in Nat /\ e \in Event
  BY LenProperties, MembersOfSeq DEF TypeOK, Created
<1>2. /\ r \in Seq(Event) /\ Len(r) = Len(queue) + 1
      /\ \A j \in 1 .. Len(queue) + 1 :
           r[j] = IF j < i THEN queue[j] ELSE IF j = i THEN e ELSE queue[j - 1]
  BY <1>1, InsertAtFacts
<1>3. ToSet(r) = Queued \cup {e}
  BY <1>1, InsertedMembers DEF Queued
<1> HIDE DEF r
<1>4. \A j \in 1 .. Len(queue) : queue[j] # e /\ Level(queue[j]) \in Nat
  BY <1>1, MembersOfSeq, ElementOfSeq, LevelType DEF Queued
<1>5. Level(e) \in Nat
  BY <1>1, LevelType
<1>6. ASSUME NEW j \in 1 .. Len(r), NEW k \in 1 .. Len(r), j < k
      PROVE  r[j] # r[k] /\ Level(r[j]) >= Level(r[k])
  <2>1. CASE k < i
    BY <2>1, <1>1, <1>2, <1>6 DEF QueueOK
  <2>2. CASE k = i
    <3>1. j \in 1 .. Len(queue) /\ j \in 1 .. i - 1 /\ r[j] = queue[j] /\ r[k] = e
      BY <2>2, <1>1, <1>2, <1>6
    <3>2. QED BY <3>1, <1>4 DEF InsertPos
  <2>3. CASE j = i
    <3>1. k - 1 \in 1 .. Len(queue) /\ r[k] = queue[k - 1] /\ r[j] = e
          /\ i \in 1 .. Len(queue)
      BY <2>3, <1>1, <1>2, <1>6
    <3>2. Level(queue[i]) < Level(e)
      BY <3>1, <1>1 DEF InsertPos
    <3>3. Level(queue[i]) >= Level(queue[k - 1])
      <4>1. CASE k - 1 = i
        BY <4>1, <3>1, <1>4
      <4>2. CASE i < k - 1
        BY <4>2, <3>1 DEF QueueOK
      <4>3. QED BY <4>1, <4>2, <2>3, <1>6, <1>1, <1>2
    <3>4. QED BY <3>1, <3>2, <3>3, <1>4, <1>5
  <2>4. CASE j < i /\ i < k
    <3>1. j \in 1 .. Len(queue) /\ k - 1 \in 1 .. Len(queue) /\ j < k - 1
          /\ r[j] = queue[j] /\ r[k] = queue[k - 1]
      BY <2>4, <1>1, <1>2
    <3>2. QED BY <3>1 DEF QueueOK
  <2>5. CASE i < j
    <3>1. j - 1 \in 1 .. Len(queue) /\ k - 1 \in 1 .. Len(queue) /\ j - 1 < k - 1
          /\ r[j] = queue[j - 1] /\ r[k] = queue[k - 1]
      BY <2>5, <1>1, <1>2, <1>6
    <3>2. QED BY <3>1 DEF QueueOK
  <2>6. QED BY <2>1, <2>2, <2>3, <2>4, <2>5, <1>1, <1>2
<1>7. QED BY <1>2, <1>3, <1>6 DEF QueueOK, Queued, r

\* So does a deletion, but for the deleted node.
LEMMA DeleteKeepsOrder ==
  ASSUME TypeOK, QueueOK(queue), NEW e \in Queued
  PROVE  /\ Deleted(queue, e) \in Seq(Event) /\ QueueOK(Deleted(queue, e))
         /\ \A x \in Queued : x # e => x \in ToSet(Deleted(queue, e))
<1> DEFINE i == Index(queue, e)
           r == Deleted(queue, e)
<1>1. queue \in Seq(Event) /\ Len(queue) \in Nat
  BY LenProperties DEF TypeOK
<1>2. i \in 1 .. Len(queue) /\ queue[i] = e
  BY <1>1, IndexFacts DEF Queued
<1> HIDE DEF i
<1>3. r = RemoveAt(queue, i)
  BY DEF Deleted, i
<1> HIDE DEF r
<1>4. /\ r \in Seq(Event) /\ Len(r) = Len(queue) - 1
      /\ \A j \in 1 .. Len(queue) - 1 : r[j] = IF j < i THEN queue[j] ELSE queue[j + 1]
  BY <1>1, <1>2, <1>3, RemoveAtFacts
<1>5. \A x \in Queued : x # e => x \in ToSet(r)
  BY <1>1, <1>2, <1>3, RemovedMembers DEF Queued
<1>6. ASSUME NEW j \in 1 .. Len(r)
      PROVE  \E k \in 1 .. Len(queue) : r[j] = queue[k] /\ k = IF j < i THEN j ELSE j + 1
  BY <1>1, <1>4
<1>7. \A x \in ToSet(r) : x \in Queued
  BY <1>1, <1>4, <1>6, MembersOfSeq DEF Queued
<1>8. ASSUME NEW j \in 1 .. Len(r), NEW k \in 1 .. Len(r), j < k
      PROVE  r[j] # r[k] /\ Level(r[j]) >= Level(r[k])
  <2>1. PICK a \in 1 .. Len(queue) : r[j] = queue[a] /\ a = IF j < i THEN j ELSE j + 1
    BY <1>6
  <2>2. PICK b \in 1 .. Len(queue) : r[k] = queue[b] /\ b = IF k < i THEN k ELSE k + 1
    BY <1>6
  <2>3. a < b
    BY <1>2, <1>8, <2>1, <2>2
  <2>4. QED BY <2>1, <2>2, <2>3 DEF QueueOK
<1>9. QED BY <1>4, <1>5, <1>7, <1>8 DEF QueueOK, Queued, r

-----------------------------------------------------------------------------
(* The pieces of service calls keep the invariant *)

\* What a piece of a service call leaves behind, in the terms of the state it
\* started from.
Kept == /\ queue' \in Seq(Event) /\ QueueOK(queue')
        /\ stack' \in Seq(Frame) /\ tpl' \in TplRange
        /\ StackOK(stack', queue', tpl')

\* The dispatcher begins at a node of the list or at none.
LEMMA FirstFacts ==
  ASSUME NEW q \in Seq(Event)
  PROVE  First(q) \in ToSet(q) \cup {Nil}
<1>1. CASE q = <<>>
  BY <1>1 DEF First
<1>2. CASE q # <<>>
  <2>1. Len(q) \in Nat \ {0} /\ Head(q) = q[1]
    BY <1>2, EmptySeq
  <2>2. QED BY <1>2, <2>1, MembersOfSeq DEF First
<1>3. QED BY <1>1, <1>2

\* Running the queue keeps it.
LEMMA TimerRunKeeps ==
  ASSUME TypeOK, QueueOK(queue), NEW s \in Seq(Frame), NEW t \in TplRange,
         StackOK(s, queue, t), TimerRun(t, s), queue' = queue
  PROVE  Kept
<1>1. queue \in Seq(Event) /\ First(queue) \in ToSet(queue) \cup {Nil}
  BY FirstFacts DEF TypeOK
<1>2. stack' \in Seq(Frame) /\ tpl' \in TplRange /\ StackOK(stack', queue, tpl')
  BY <1>1, RunQueueKeeps DEF TimerRun, RunQueue
<1>3. QED BY <1>1, <1>2 DEF Kept

\* So does queueing an event and running the queue.
LEMMA AddToQueueKeeps ==
  ASSUME TypeOK, QueueOK(queue), NEW s \in Seq(Frame), StackOK(s, queue, tpl),
         NEW e \in Created, AddToQueue(e, s)
  PROVE  Kept
<1>1. CASE stack' = s /\ UNCHANGED <<queue, tpl>>
  BY <1>1 DEF Kept, TypeOK
<1>2. ASSUME shape[e].func, e \notin Queued,
             NEW i \in 1 .. Len(queue) + 1, InsertPos(queue, e, i),
             queue' = InsertAt(queue, i, e), RunQueue(queue', First(queue'), tpl, s)
      PROVE  Kept
  <2> DEFINE r == InsertAt(queue, i, e)
  <2>1. r \in Seq(Event) /\ QueueOK(r) /\ Queued \subseteq ToSet(r)
    BY <1>2, InsertKeepsOrder
  <2>2. RunQueue(r, First(r), tpl, s)
    BY <1>2
  <2>3. queue' = r
    BY <1>2
  <2> HIDE DEF r
  <2>4. StackOK(s, r, tpl) /\ First(r) \in ToSet(r) \cup {Nil} /\ tpl \in TplRange
    BY <2>1, StackOKGrows, FirstFacts DEF Queued, TypeOK
  <2>5. stack' \in Seq(Frame) /\ tpl' \in TplRange /\ StackOK(stack', r, tpl')
    BY <2>1, <2>2, <2>4, RunQueueKeeps DEF RunQueue
  <2>6. QED BY <2>1, <2>3, <2>5 DEF Kept
<1>3. QED BY <1>1, <1>2 DEF AddToQueue

\* A frame that runs no function leaves the stack good.
LEMMA PushKeeps ==
  ASSUME NEW s \in Seq(Frame), NEW q, NEW t, StackOK(s, q, t),
         NEW f \in Frame, f.kind # "run", f.kind = "image" => f.old = t
  PROVE  Append(s, f) \in Seq(Frame) /\ StackOK(Append(s, f), q, t)
<1> DEFINE st == Append(s, f)
<1>1. /\ st \in Seq(Frame) /\ Len(s) \in Nat /\ Len(st) = Len(s) + 1
      /\ \A i \in 1 .. Len(s) : st[i] = s[i]
      /\ st[Len(s) + 1] = f
  BY LenProperties
<1> HIDE DEF st
<1>2. \A i \in 1 .. Len(st) : st[i].kind = "run" => i \in 1 .. Len(s) /\ st[i] = s[i]
  BY <1>1
<1>3. StackOK(st, q, t)
  <2> SUFFICES ASSUME NEW i \in 1 .. Len(st), st[i].kind = "run"
               PROVE  /\ RunFrameOK(st[i], q)
                      /\ Level(st[i].cur) <= t
                      /\ \A j \in 1 .. Len(st) : i < j =>
                           /\ st[j].kind = "run" => Level(st[i].cur) < Level(st[j].cur)
                           /\ st[j].kind \in {"run", "image"} => Level(st[i].cur) <= st[j].old
    BY DEF StackOK
  <2>1. i \in 1 .. Len(s) /\ st[i] = s[i] /\ s[i].kind = "run"
    BY <1>2
  <2>2. RunFrameOK(st[i], q) /\ Level(st[i].cur) <= t
    BY <2>1 DEF StackOK
  <2>3. ASSUME NEW j \in 1 .. Len(st), i < j
        PROVE  /\ st[j].kind = "run" => Level(st[i].cur) < Level(st[j].cur)
               /\ st[j].kind \in {"run", "image"} => Level(st[i].cur) <= st[j].old
    <3>1. CASE j = Len(s) + 1
      BY <1>1, <2>2, <3>1
    <3>2. CASE j \in 1 .. Len(s)
      BY <1>1, <2>1, <2>3, <3>2 DEF StackOK
    <3>3. QED BY <1>1, <3>1, <3>2
  <2>4. QED BY <2>2, <2>3
<1>4. QED BY <1>1, <1>3 DEF st

\* SignalEvent keeps it, from whatever signals.
LEMMA SignalFromKeeps ==
  ASSUME TypeOK, QueueOK(queue), NEW s \in Seq(Frame), StackOK(s, queue, tpl),
         NEW sig \in [Event -> BOOLEAN], NEW e \in Created, SignalFrom(sig, e, s)
  PROVE  Kept /\ signaled' \in [Event -> BOOLEAN] /\ stranded' \subseteq stranded
<1>1. e \in Event
  BY MembersOfSeq DEF Created, TypeOK
<1>2. CASE signaled' = sig /\ stack' = s /\ UNCHANGED <<queue, tpl, stranded>>
  BY <1>2 DEF Kept, TypeOK
<1>3. CASE /\ signaled' = [f \in Event |-> sig[f] \/ (f \in Created /\ SameGroup(e, f))]
           /\ stack' = Append(s, GroupFrame(e))
           /\ stranded' = {f \in stranded : ~SameGroup(e, f)}
           /\ UNCHANGED <<queue, tpl>>
  <2>1. signaled' \in [Event -> BOOLEAN]
    BY <1>3
  <2>2. GroupFrame(e) \in Frame /\ GroupFrame(e).kind = "group"
    BY <1>1 DEF GroupFrame, Frame, TplRange, HIGH_LEVEL
  <2>3. stack' \in Seq(Frame) /\ StackOK(stack', queue, tpl)
    BY <1>3, <2>2, PushKeeps
  <2>4. QED BY <1>3, <2>1, <2>3 DEF Kept, TypeOK
<1>4. CASE /\ signaled' = [sig EXCEPT ![e] = TRUE] /\ stranded' = stranded \ {e}
           /\ AddToQueue(e, s)
  BY <1>1, <1>4, AddToQueueKeeps
<1>5. QED BY <1>2, <1>3, <1>4 DEF SignalFrom

\* A piece that keeps the objects, their shapes and the notifications keeps the
\* whole invariant.
LEMMA KeptSuffices ==
  ASSUME DispatchInv, Kept, signaled' \in [Event -> BOOLEAN],
         UNCHANGED <<events, shape, notifies>>, stranded' \subseteq stranded
  PROVE  DispatchInv'
<1>1. TypeOK'
  BY DEF TypeOK, DispatchInv, Kept
<1>2. QueueOK(queue)'
  BY DEF Kept, QueueOK, Level, Created
<1>3. StackOK(stack, queue, tpl)'
  BY DEF Kept, StackOK, RunFrameOK, Level
<1>4. (ToSet(notifies) \subseteq Created)'
  BY DEF DispatchInv, Created
<1>5. QED BY <1>1, <1>2, <1>3, <1>4 DEF DispatchInv

\* The innermost frame is the last of the stack.
LEMMA TopFacts ==
  ASSUME TypeOK, stack # <<>>
  PROVE  /\ stack \in Seq(Frame) /\ Len(stack) \in Nat \ {0}
         /\ Top = stack[Len(stack)] /\ Top \in Frame
  BY EmptySeq, ElementOfSeq DEF TypeOK, Top

\* Append adds one member.
LEMMA AppendMembers ==
  ASSUME NEW S, NEW q \in Seq(S), NEW e \in S
  PROVE  ToSet(Append(q, e)) = ToSet(q) \cup {e}
<1> DEFINE r == Append(q, e)
<1>1. /\ r \in Seq(S) /\ Len(q) \in Nat /\ Len(r) = Len(q) + 1
      /\ \A i \in 1 .. Len(q) : r[i] = q[i]
      /\ r[Len(q) + 1] = e
  BY LenProperties
<1> HIDE DEF r
<1>2. \A x : x \in ToSet(r) <=> \E i \in 1 .. Len(r) : r[i] = x
  BY <1>1, MembersOfSeq
<1>3. \A x : x \in ToSet(q) <=> \E i \in 1 .. Len(q) : q[i] = x
  BY MembersOfSeq
<1>4. ASSUME NEW x \in ToSet(r) PROVE x \in ToSet(q) \cup {e}
  <2>1. PICK i \in 1 .. Len(r) : r[i] = x
    BY <1>2, <1>4
  <2>2. QED BY <1>1, <1>3, <2>1
<1>5. ASSUME NEW x \in ToSet(q) PROVE x \in ToSet(r)
  <2>1. PICK i \in 1 .. Len(q) : q[i] = x
    BY <1>3, <1>5
  <2>2. QED BY <1>1, <1>2, <2>1
<1>6. e \in ToSet(r)
  BY <1>1, <1>2
<1>7. ToSet(r) = ToSet(q) \cup {e}
  BY <1>4, <1>5, <1>6
<1>8. QED BY <1>7 DEF r

\* Returning from a notification function unlinks a node no other frame holds,
\* and restores a level no lower than that of any other frame.
LEMMA CallbackReturnKeeps ==
  ASSUME DispatchInv, CallbackReturn
  PROVE  DispatchInv'
<1> DEFINE n == Len(stack)
           c == Top.cur
           s == Front(stack)
           q == Unlinked(c)
           t == IF tpl = Level(c) THEN Top.old ELSE tpl
<1>1. /\ TypeOK /\ QueueOK(queue) /\ StackOK(stack, queue, tpl)
      /\ stack # <<>> /\ Top.kind = "run"
  BY DEF DispatchInv, CallbackReturn, TopIs
<1>2. /\ stack \in Seq(Frame) /\ n \in 1 .. Len(stack)
      /\ Top = stack[n] /\ Top \in Frame
  BY <1>1, TopFacts
<1>3. RunFrameOK(Top, queue) /\ Level(c) <= tpl
  BY <1>1, <1>2 DEF StackOK
<1>4. /\ c \in Queued /\ c \in Event /\ Top.old < Level(c)
      /\ Top.next # Nil => Top.next \in Queued /\ Top.next # c
  BY <1>1, <1>2, <1>3, MembersOfSeq DEF RunFrameOK, Queued, TypeOK
<1>5. t \in TplRange
  BY <1>1, <1>2 DEF TypeOK, Frame
<1>6. /\ q \in Seq(Event) /\ QueueOK(q)
      /\ \A x \in Queued : x # c => x \in ToSet(q)
  BY <1>1, <1>4, DeleteKeepsOrder DEF Unlinked, TypeOK, Queued
<1>7. Top.next \in ToSet(q) \cup {Nil}
  BY <1>4, <1>6
<1>8. /\ s \in Seq(Frame) /\ Len(s) = Len(stack) - 1
      /\ \A i \in 1 .. Len(stack) - 1 : s[i] = stack[i]
  BY <1>1, <1>2, FrontFacts
<1>9. StackOK(s, q, t)
  <2> SUFFICES ASSUME NEW i \in 1 .. Len(s), s[i].kind = "run"
               PROVE  /\ RunFrameOK(s[i], q)
                      /\ Level(s[i].cur) <= t
                      /\ \A j \in 1 .. Len(s) : i < j =>
                           /\ s[j].kind = "run" => Level(s[i].cur) < Level(s[j].cur)
                           /\ s[j].kind \in {"run", "image"} => Level(s[i].cur) <= s[j].old
    BY DEF StackOK
  <2>1. i \in 1 .. Len(stack) /\ i < n /\ s[i] = stack[i] /\ stack[i].kind = "run"
    BY <1>2, <1>8
  <2>2. /\ RunFrameOK(s[i], queue) /\ Level(s[i].cur) <= tpl
        /\ Level(s[i].cur) < Level(c) /\ Level(s[i].cur) <= Top.old
    BY <1>1, <1>2, <2>1 DEF StackOK
  <2>3. s[i].cur \in Queued /\ s[i].cur \in Event
    BY <1>1, <2>2, MembersOfSeq DEF RunFrameOK, Queued, TypeOK
  <2>4. Level(s[i].cur) \in Nat /\ Level(c) \in Nat
    BY <1>1, <1>4, <2>3, LevelType
  <2>5. s[i].cur # c
    BY <2>2, <2>4
  <2>6. ASSUME s[i].next # Nil PROVE s[i].next \in Queued /\ s[i].next # c
    <3>1. s[i].next \in Queued /\ Level(s[i].next) <= Level(s[i].cur)
      BY <2>2, <2>6 DEF RunFrameOK, Queued
    <3>2. s[i].next \in Event
      BY <1>1, <3>1, MembersOfSeq DEF Queued, TypeOK
    <3>3. Level(s[i].next) \in Nat
      BY <1>1, <3>2, LevelType
    <3>4. QED BY <2>2, <2>4, <3>1, <3>3
  <2>7. RunFrameOK(s[i], q)
    BY <1>6, <2>2, <2>3, <2>5, <2>6 DEF RunFrameOK
  <2>8. Level(s[i].cur) <= t
    BY <2>2
  <2>9. ASSUME NEW j \in 1 .. Len(s), i < j
        PROVE  /\ s[j].kind = "run" => Level(s[i].cur) < Level(s[j].cur)
               /\ s[j].kind \in {"run", "image"} => Level(s[i].cur) <= s[j].old
    <3>1. j \in 1 .. Len(stack) /\ s[j] = stack[j]
      BY <1>2, <1>8
    <3>2. QED BY <1>1, <2>1, <2>9, <3>1 DEF StackOK
  <2>10. QED BY <2>7, <2>8, <2>9
<1>10. /\ queue' = q /\ signaled' = Reset(c)
       /\ RunQueue(queue', Top.next, t, s)
       /\ UNCHANGED <<events, shape, notifies, stranded>>
  BY DEF CallbackReturn
<1>11. signaled' \in [Event -> BOOLEAN]
  BY <1>1, <1>10 DEF Reset, TypeOK
<1>12. RunQueue(q, Top.next, t, s)
  BY <1>10
<1> HIDE DEF q, t, s
<1>13. stack' \in Seq(Frame) /\ tpl' \in TplRange /\ StackOK(stack', q, tpl')
  BY <1>1, <1>5, <1>6, <1>7, <1>8, <1>9, <1>12, RunQueueKeeps DEF RunQueue
<1>14. Kept
  BY <1>6, <1>10, <1>13 DEF Kept
<1>15. UNCHANGED <<events, shape, notifies, stranded>>
  BY <1>10
<1>16. QED BY <1>11, <1>14, <1>15, KeptSuffices

\* A new event changes the shape of no event there is.
LEMMA CreateEventKeeps ==
  ASSUME DispatchInv, NEW e \in Event, NEW r \in Request, CreateEvent(e, r)
  PROVE  DispatchInv'
<1>1. TypeOK /\ QueueOK(queue) /\ StackOK(stack, queue, tpl) /\ ToSet(notifies) \subseteq Created
  BY DEF DispatchInv
<1>2. /\ e \notin Created /\ shape' = [shape EXCEPT ![e] = ShapeOf(r)]
      /\ events' = Append(events, e)
      /\ UNCHANGED <<signaled, queue, tpl, stack, notifies, stranded>>
  BY DEF CreateEvent
<1>3. ShapeOf(r) \in Shape
  <2>1. r.type \in SUBSET Flag /\ r.func \in BOOLEAN /\ r.group \in Group \cup {NoGroup}
        /\ r.tpl \in TplRange
        /\ r \in [type : SUBSET Flag, tpl : TplRange, func : BOOLEAN, group : Group \cup {NoGroup}]
    BY RequestAssumption DEF TplRange
  <2>2. GroupOf(r) \in Group \cup {NoGroup}
    BY <2>1, GroupAssumption DEF GroupOf
  <2>3. QED BY <2>1, <2>2 DEF ShapeOf, Shape
<1>4. TypeOK'
  <2>1. events' \in Seq(Event)
    BY <1>1, <1>2 DEF TypeOK
  <2>2. shape' \in [Event -> Shape]
    BY <1>1, <1>2, <1>3 DEF TypeOK
  <2>3. QED BY <1>1, <1>2, <2>1, <2>2 DEF TypeOK
<1>5. Created' = Created \cup {e}
  BY <1>1, <1>2, AppendMembers DEF TypeOK, Created
<1>6. \A x \in Created : x \in Event /\ shape'[x] = shape[x]
  BY <1>1, <1>2, MembersOfSeq DEF TypeOK, Created
<1>7. \A x \in ToSet(queue) : x \in Created /\ shape'[x] = shape[x]
  BY <1>1, <1>6 DEF QueueOK
<1>8. QueueOK(queue)'
  <2>1. \A i \in 1 .. Len(queue) : queue[i] \in ToSet(queue)
    BY <1>1, MembersOfSeq DEF TypeOK
  <2>2. QED BY <1>1, <1>2, <1>5, <1>7, <2>1 DEF QueueOK, Level
<1>9. StackOK(stack, queue, tpl)'
  <2>1. \A i \in 1 .. Len(stack) : stack[i].kind = "run" =>
          /\ shape'[stack[i].cur] = shape[stack[i].cur]
          /\ stack[i].next # Nil => shape'[stack[i].next] = shape[stack[i].next]
    BY <1>1, <1>7 DEF StackOK, RunFrameOK
  <2>2. QED BY <1>1, <1>2, <2>1 DEF StackOK, RunFrameOK, Level
<1>10. QED BY <1>1, <1>2, <1>4, <1>5, <1>8, <1>9 DEF DispatchInv

\* A step that only answers keeps everything.
LEMMA AnswerKeeps ==
  ASSUME DispatchInv, UNCHANGED vars
  PROVE  DispatchInv'
<1>1. Kept /\ signaled' \in [Event -> BOOLEAN]
  BY DEF Kept, DispatchInv, TypeOK, vars
<1>2. QED BY <1>1, KeptSuffices DEF vars

\* The services that only answer
LEMMA AnswersKeep ==
  ASSUME DispatchInv,
         \/ \E r \in Request : CreateEventExhausted(r) \/ RefuseCreateEvent(r)
         \/ \E e \in Event : RefuseEvent(e) \/ RegisterExhausted(e)
         \/ CloseEvent
         \/ CheckEvent
         \/ SetTimer
  PROVE  DispatchInv'
<1>1. UNCHANGED vars
  BY DEF CreateEventExhausted, RefuseCreateEvent, RefuseEvent, RegisterExhausted, CloseEvent,
         CheckEvent, SetTimer, NotReady
<1>2. QED BY <1>1, AnswerKeeps

\* SignalEvent, from the signals there are
LEMMA SignalEventKeeps ==
  ASSUME DispatchInv, NEW e \in Event, SignalEvent(e)
  PROVE  DispatchInv'
<1>1. /\ TypeOK /\ QueueOK(queue) /\ StackOK(stack, queue, tpl)
      /\ stack \in Seq(Frame) /\ signaled \in [Event -> BOOLEAN]
  BY DEF DispatchInv, TypeOK
<1>2. e \in Created /\ SignalFrom(signaled, e, stack)
      /\ UNCHANGED <<events, shape, notifies>>
  BY DEF SignalEvent
<1>3. Kept /\ signaled' \in [Event -> BOOLEAN] /\ stranded' \subseteq stranded
  BY <1>1, <1>2, SignalFromKeeps
<1>4. QED BY <1>2, <1>3, KeptSuffices

\* WaitForEvent begins its loop or answers.
LEMMA WaitForEventKeeps ==
  ASSUME DispatchInv, NEW es \in WaitList, WaitForEvent(es)
  PROVE  DispatchInv'
<1>1. /\ TypeOK /\ QueueOK(queue) /\ StackOK(stack, queue, tpl)
      /\ stack \in Seq(Frame) /\ signaled \in [Event -> BOOLEAN]
  BY DEF DispatchInv, TypeOK
<1>2. CASE es = <<>> \/ tpl # APPLICATION
  <2>1. UNCHANGED vars
    BY <1>2 DEF WaitForEvent, vars
  <2>2. QED BY <2>1, AnswerKeeps
<1>3. CASE ~(es = <<>> \/ tpl # APPLICATION)
  <2> stack' = Append(stack, WaitFrame(es))
    BY <1>3 DEF WaitForEvent
  <2>1. WaitFrame(es) \in Frame /\ WaitFrame(es).kind = "wait"
    BY WaitAssumption DEF WaitFrame, Frame, TplRange, HIGH_LEVEL
  <2>2. stack' \in Seq(Frame) /\ StackOK(stack', queue, tpl)
    BY <1>1, <1>3, <2>1, PushKeeps
  <2>3. UNCHANGED <<events, shape, signaled, queue, tpl, notifies, stranded>>
    BY DEF WaitForEvent
  <2>4. Kept
    BY <1>1, <2>2, <2>3 DEF Kept, TypeOK
  <2>5. QED BY <1>1, <1>3, <2>3, <2>4, KeptSuffices
<1>4. QED BY <1>2, <1>3

\* The level of a client is that of its frame, and no frame is above it.
LEMMA EntryFacts ==
  ASSUME DispatchInv, ClientRuns, NEW t \in TplRange, t >= EntryTpl
  PROVE  StackOK(stack, queue, t)
<1>1. TypeOK /\ StackOK(stack, queue, tpl)
  BY DEF DispatchInv
<1>2. CASE stack = <<>>
  BY <1>2, EmptySeq DEF StackOK
<1>3. CASE stack # <<>> /\ Top.kind = "run"
  <2> DEFINE n == Len(stack)
  <2>1. /\ stack \in Seq(Frame) /\ n \in 1 .. Len(stack) /\ Top = stack[n]
        /\ stack[n].kind = "run" /\ EntryTpl = Level(stack[n].cur)
    BY <1>1, <1>3, TopFacts DEF EntryTpl
  <2>2. \A i \in 1 .. Len(stack) : stack[i].kind = "run" => Level(stack[i].cur) \in Nat
    <3> SUFFICES ASSUME NEW i \in 1 .. Len(stack), stack[i].kind = "run"
                 PROVE  Level(stack[i].cur) \in Nat
      OBVIOUS
    <3>1. stack[i].cur \in Event
      BY <1>1, MembersOfSeq DEF StackOK, RunFrameOK, TypeOK
    <3>2. QED BY <1>1, <3>1, LevelType
  <2>3. \A i \in 1 .. Len(stack) : stack[i].kind = "run" =>
          i = n \/ Level(stack[i].cur) < Level(stack[n].cur)
    BY <1>1, <2>1 DEF StackOK
  <2>4. t \in Nat
    BY RequestAssumption DEF TplRange, HIGH_LEVEL
  <2>5. \A i \in 1 .. Len(stack) : stack[i].kind = "run" => Level(stack[i].cur) <= t
    BY <2>1, <2>2, <2>3, <2>4
  <2>6. QED BY <1>1, <2>5 DEF StackOK
<1>4. CASE stack # <<>> /\ Top.kind = "image"
  <2> DEFINE n == Len(stack)
  <2>1. /\ stack \in Seq(Frame) /\ n \in 1 .. Len(stack) /\ Top = stack[n]
        /\ Top \in Frame /\ stack[n].kind = "image" /\ EntryTpl = stack[n].old
    BY <1>1, <1>4, TopFacts DEF EntryTpl
  <2>2. stack[n].old \in Nat /\ t \in Nat
    <3>1. \A g \in Frame : g.old \in TplRange
      BY DEF Frame
    <3>2. stack[n].old \in TplRange
      BY <2>1, <3>1
    <3>3. \A x \in TplRange : x \in Nat
      BY DEF TplRange, HIGH_LEVEL
    <3>4. QED BY <3>2, <3>3
  <2>3. \A i \in 1 .. Len(stack) : stack[i].kind = "run" =>
          Level(stack[i].cur) \in Nat /\ Level(stack[i].cur) <= stack[n].old
    <3> SUFFICES ASSUME NEW i \in 1 .. Len(stack), stack[i].kind = "run"
                 PROVE  Level(stack[i].cur) \in Nat /\ Level(stack[i].cur) <= stack[n].old
      OBVIOUS
    <3>1. i < n
      <4>1. i # n
        BY <2>1
      <4>2. QED BY <2>1, <4>1, LenProperties
    <3>2. stack[i].cur \in Event
      BY <1>1, MembersOfSeq DEF StackOK, RunFrameOK, TypeOK
    <3>3. QED BY <1>1, <2>1, <3>1, <3>2, LevelType DEF StackOK
  <2> HIDE DEF n
  <2>4. \A i \in 1 .. Len(stack) : stack[i].kind = "run" => Level(stack[i].cur) <= t
    BY <2>1, <2>2, <2>3
  <2>5. QED BY <1>1, <2>4 DEF StackOK
<1>5. QED BY <1>2, <1>3, <1>4 DEF ClientRuns, TopIs

\* The levels a client may set are not below that of its own frame.
LEMMA TplKeeps ==
  ASSUME DispatchInv,
         \/ \E t \in TplArg : RaiseTPL(t) \/ RestoreTPL(t)
         \/ Stall
  PROVE  DispatchInv'
<1>1. /\ TypeOK /\ QueueOK(queue) /\ StackOK(stack, queue, tpl)
      /\ stack \in Seq(Frame) /\ tpl \in TplRange /\ signaled \in [Event -> BOOLEAN]
  BY DEF DispatchInv, TypeOK
<1>2. UNCHANGED <<events, shape, signaled, queue, notifies, stranded>> /\ ClientRuns
  BY DEF RaiseTPL, RestoreTPL, Stall
<1>3. \A t \in TplArg : t \in Nat /\ Clamped(t) \in 0 .. HIGH_LEVEL /\ Clamped(t) \in TplRange
  BY TplAssumption DEF Clamped, HIGH_LEVEL, TplRange
<1>4. \A t \in TplArg : /\ t >= tpl => Clamped(t) >= tpl
                        /\ t >= EntryTpl => Clamped(t) >= EntryTpl
  <2>1. tpl \in 0 .. HIGH_LEVEL
    BY <1>1 DEF TplRange
  <2>2. EntryTpl \in 0 .. HIGH_LEVEL
    <3>1. CASE stack = <<>>
      BY <3>1 DEF EntryTpl, APPLICATION, HIGH_LEVEL
    <3>2. CASE stack # <<>> /\ Top.kind = "run"
      <4>1. Len(stack) \in 1 .. Len(stack) /\ Top = stack[Len(stack)]
        BY <1>1, <3>2, TopFacts
      <4>2. Top.cur \in Event
        BY <1>1, <3>2, <4>1, MembersOfSeq DEF StackOK, RunFrameOK, TypeOK
      <4>3. QED BY <1>1, <3>2, <4>2, LevelType DEF EntryTpl, TplRange
    <3>3. CASE stack # <<>> /\ Top.kind = "image"
      BY <1>1, <3>3, TopFacts DEF EntryTpl, Frame, TplRange
    <3>4. QED BY <1>2, <3>1, <3>2, <3>3 DEF ClientRuns, TopIs
  <2>3. QED BY <1>3, <2>1, <2>2 DEF Clamped, HIGH_LEVEL
<1>5. ASSUME NEW t \in TplArg, RaiseTPL(t) PROVE Kept
  <2>1. t >= tpl /\ tpl' = Clamped(t) /\ UNCHANGED <<queue, stack>>
    BY <1>5 DEF RaiseTPL
  <2>2. StackOK(stack, queue, Clamped(t))
    <3>1. \A i \in 1 .. Len(stack) : stack[i].kind = "run" =>
            Level(stack[i].cur) \in Nat /\ Level(stack[i].cur) <= tpl
      <4> SUFFICES ASSUME NEW i \in 1 .. Len(stack), stack[i].kind = "run"
                   PROVE  Level(stack[i].cur) \in Nat /\ Level(stack[i].cur) <= tpl
        OBVIOUS
      <4>1. stack[i].cur \in Event
        BY <1>1, MembersOfSeq DEF StackOK, RunFrameOK, TypeOK
      <4>2. QED BY <1>1, <4>1, LevelType DEF StackOK
    <3>2. tpl \in Nat /\ Clamped(t) \in Nat
      <4>1. tpl \in TplRange /\ Clamped(t) \in TplRange
        BY <1>1, <1>3
      <4>2. QED BY <4>1 DEF TplRange, HIGH_LEVEL
    <3>3. \A i \in 1 .. Len(stack) : stack[i].kind = "run" =>
            Level(stack[i].cur) <= Clamped(t)
      BY <1>4, <2>1, <3>1, <3>2
    <3>4. QED BY <1>1, <3>3 DEF StackOK
  <2>3. QED BY <1>1, <1>3, <2>1, <2>2 DEF Kept, TypeOK
<1>6. ASSUME NEW t \in TplArg, RestoreTPL(t) PROVE Kept
  <2>1. t >= EntryTpl /\ TimerRun(Clamped(t), stack) /\ queue' = queue
    BY <1>6 DEF RestoreTPL
  <2>2. StackOK(stack, queue, Clamped(t))
    BY <1>2, <1>3, <1>4, <2>1, EntryFacts
  <2>3. QED BY <1>1, <1>3, <2>1, <2>2, TimerRunKeeps
<1>7. ASSUME Stall PROVE Kept
  <2>1. TimerRun(tpl, stack) /\ queue' = queue
    BY <1>7 DEF Stall
  <2>2. QED BY <1>1, <2>1, TimerRunKeeps
<1>8. QED BY <1>1, <1>2, <1>5, <1>6, <1>7, KeptSuffices

\* The device readers reset a signal.
LEMMA ReadDeviceKeeps ==
  ASSUME DispatchInv, NEW e \in Event, ReadDevice(e)
  PROVE  DispatchInv'
<1>1. Kept /\ signaled' \in [Event -> BOOLEAN]
  BY DEF Kept, DispatchInv, TypeOK, ReadDevice
<1>2. UNCHANGED <<events, shape, notifies, stranded>>
  BY DEF ReadDevice
<1>3. QED BY <1>1, <1>2, KeptSuffices

\* A registration names an event there is.
LEMMA RegisterKeeps ==
  ASSUME DispatchInv, NEW e \in Event, RegisterProtocolNotify(e)
  PROVE  DispatchInv'
<1>1. /\ e \in Created /\ notifies' = Append(notifies, e)
      /\ UNCHANGED <<events, shape, signaled, queue, tpl, stack, stranded>>
  BY DEF RegisterProtocolNotify
<1>2. TypeOK /\ QueueOK(queue) /\ StackOK(stack, queue, tpl) /\ ToSet(notifies) \subseteq Created
  BY DEF DispatchInv
<1>3. notifies \in Seq(Event)
  BY <1>2 DEF TypeOK
<1>4. ToSet(notifies') = ToSet(notifies) \cup {e}
  BY <1>1, <1>3, AppendMembers
<1>5. TypeOK'
  BY <1>1, <1>2 DEF TypeOK
<1>6. (ToSet(notifies) \subseteq Created)'
  BY <1>1, <1>2, <1>4 DEF Created
<1>7. QueueOK(queue)' /\ StackOK(stack, queue, tpl)'
  BY <1>1, <1>2 DEF QueueOK, StackOK, RunFrameOK, Level, Created
<1>8. QED BY <1>5, <1>6, <1>7 DEF DispatchInv

\* An installation begins its loop, and StartImage its program.
LEMMA BeginKeeps ==
  ASSUME DispatchInv, InstallProtocol \/ StartImage
  PROVE  DispatchInv'
<1>1. /\ TypeOK /\ QueueOK(queue) /\ StackOK(stack, queue, tpl)
      /\ stack \in Seq(Frame) /\ signaled \in [Event -> BOOLEAN]
  BY DEF DispatchInv, TypeOK
<1>2. /\ UNCHANGED <<events, shape, signaled, queue, tpl, notifies, stranded>>
      /\ \E f \in {InstallFrame, ImageFrame(tpl)} : stack' = Append(stack, f)
  BY DEF InstallProtocol, StartImage
<1>3. PICK f \in {InstallFrame, ImageFrame(tpl)} : stack' = Append(stack, f)
  BY <1>2
<1>4. f \in Frame /\ f.kind # "run" /\ (f.kind = "image" => f.old = tpl)
  <2>1. InstallFrame \in Frame /\ InstallFrame.kind = "install"
    BY DEF InstallFrame, Frame, TplRange, HIGH_LEVEL
  <2>2. /\ ImageFrame(tpl) \in Frame /\ ImageFrame(tpl).kind = "image"
        /\ ImageFrame(tpl).old = tpl
    BY <1>1 DEF ImageFrame, Frame, TypeOK
  <2>3. QED BY <2>1, <2>2
<1>5. stack' \in Seq(Frame) /\ StackOK(stack', queue, tpl)
  BY <1>1, <1>3, <1>4, PushKeeps
<1>6. Kept
  BY <1>1, <1>2, <1>5 DEF Kept, TypeOK
<1>7. QED BY <1>1, <1>2, <1>6, KeptSuffices

\* A turn of the loop over a group
LEMMA GroupNextKeeps ==
  ASSUME DispatchInv, GroupNext
  PROVE  DispatchInv'
<1>1. /\ TypeOK /\ QueueOK(queue) /\ StackOK(stack, queue, tpl)
      /\ signaled \in [Event -> BOOLEAN] /\ events \in Seq(Event) /\ stack # <<>>
  BY DEF DispatchInv, TypeOK, GroupNext, TopIs
<1>2. Advanced \in Seq(Frame) /\ StackOK(Advanced, queue, tpl)
  BY <1>1, AdvancedKeeps
<1>3. events[Top.pos] \in Created
  <2>1. Top.pos \in 1 .. Len(events)
    BY <1>1, TopFacts, LenProperties DEF GroupNext, Frame
  <2>2. QED BY <1>1, <2>1, MembersOfSeq DEF Created
<1> DEFINE e == events[Top.pos]
<1> HIDE DEF e
<1>4. ASSUME AddToQueue(e, Advanced) PROVE Kept
  BY <1>1, <1>2, <1>3, <1>4, AddToQueueKeeps DEF e
<1>5. ASSUME stack' = Advanced, UNCHANGED <<queue, tpl>> PROVE Kept
  BY <1>1, <1>2, <1>5 DEF Kept, TypeOK
<1>6. UNCHANGED <<events, shape, signaled, notifies, stranded>>
  BY DEF GroupNext
<1>7. Kept
  BY <1>4, <1>5 DEF GroupNext, e
<1>8. QED BY <1>1, <1>6, <1>7, KeptSuffices

\* A turn of the loop over the registrations
LEMMA InstallNextKeeps ==
  ASSUME DispatchInv, InstallNext
  PROVE  DispatchInv'
<1>1. /\ TypeOK /\ QueueOK(queue) /\ StackOK(stack, queue, tpl)
      /\ notifies \in Seq(Event) /\ ToSet(notifies) \subseteq Created /\ stack # <<>>
      /\ signaled \in [Event -> BOOLEAN]
  BY DEF DispatchInv, TypeOK, InstallNext, TopIs
<1>2. Advanced \in Seq(Frame) /\ StackOK(Advanced, queue, tpl)
  BY <1>1, AdvancedKeeps
<1> DEFINE e == notifies[Top.pos]
           sig == [signaled EXCEPT ![e] = FALSE]
<1>3. e \in Created
  <2>1. Top.pos \in 1 .. Len(notifies)
    BY <1>1, TopFacts, LenProperties DEF InstallNext, Frame
  <2>2. QED BY <1>1, <2>1, MembersOfSeq
<1>4. sig \in [Event -> BOOLEAN]
  BY <1>1
<1>5. SignalFrom(sig, e, Advanced) /\ UNCHANGED <<events, shape, notifies>>
  BY DEF InstallNext
<1> HIDE DEF e, sig
<1>6. Kept /\ signaled' \in [Event -> BOOLEAN] /\ stranded' \subseteq stranded
  BY <1>1, <1>2, <1>3, <1>4, <1>5, SignalFromKeeps
<1>7. QED BY <1>5, <1>6, KeptSuffices

\* Returning from a service leaves the calls below it as they were.
LEMMA ReturnKeeps ==
  ASSUME DispatchInv, stack # <<>>, stack' = Front(stack),
         signaled' \in [Event -> BOOLEAN],
         UNCHANGED <<events, shape, queue, tpl, notifies, stranded>>
  PROVE  DispatchInv'
<1>1. TypeOK /\ QueueOK(queue) /\ StackOK(stack, queue, tpl) /\ stack \in Seq(Frame)
  BY DEF DispatchInv, TypeOK
<1>2. stack' \in Seq(Frame) /\ StackOK(stack', queue, tpl)
  BY <1>1, StackOKFront
<1>3. Kept
  BY <1>1, <1>2 DEF Kept, TypeOK
<1>4. QED BY <1>3, KeptSuffices

\* The end of either loop, or of a program
LEMMA LoopEndKeeps ==
  ASSUME DispatchInv, LoopEnd \/ ImageReturns
  PROVE  DispatchInv'
<1>1. /\ stack # <<>> /\ stack' = Front(stack)
      /\ UNCHANGED <<events, shape, signaled, queue, tpl, notifies, stranded>>
  BY DEF LoopEnd, ImageReturns, TopIs
<1>2. signaled' \in [Event -> BOOLEAN]
  BY <1>1 DEF DispatchInv, TypeOK
<1>3. QED BY <1>1, <1>2, ReturnKeeps

\* Exit leaves a part of the stack, which holds good at the level it finds.
LEMMA ExitKeeps ==
  ASSUME DispatchInv, Exit
  PROVE  DispatchInv'
<1>1. /\ TypeOK /\ QueueOK(queue) /\ StackOK(stack, queue, tpl)
      /\ stack \in Seq(Frame) /\ ToSet(notifies) \subseteq Created
  BY DEF DispatchInv, TypeOK
<1>2. UNCHANGED <<events, shape, signaled, queue, tpl, notifies>>
  BY DEF Exit
<1>3. PICK n \in 0 .. Len(stack) - 1 : stack' = SubSeq(stack, 1, n)
  BY DEF Exit
<1>4. n \in 0 .. Len(stack)
  BY <1>1, LenProperties
<1>5. stack' \in Seq(Frame) /\ StackOK(stack', queue, tpl)
  BY <1>1, <1>3, <1>4, StackOKPrefix
<1>6. Created \subseteq Event
  BY <1>1, MembersOfSeq DEF TypeOK, Created
<1>7. stranded' \in SUBSET Event
  BY <1>1, <1>6 DEF Exit, TypeOK
<1>8. TypeOK'
  BY <1>1, <1>2, <1>5, <1>7 DEF TypeOK
<1>9. QueueOK(queue)' /\ (ToSet(notifies) \subseteq Created)'
  BY <1>1, <1>2 DEF QueueOK, Level, Created
<1>10. StackOK(stack, queue, tpl)'
  BY <1>2, <1>5 DEF StackOK, RunFrameOK, Level
<1>11. QED BY <1>8, <1>9, <1>10 DEF DispatchInv

\* A turn of the first loop of WaitForEvent
LEMMA WaitEnqueueKeeps ==
  ASSUME DispatchInv, WaitEnqueue
  PROVE  DispatchInv'
<1>1. /\ TypeOK /\ QueueOK(queue) /\ StackOK(stack, queue, tpl)
      /\ stack # <<>> /\ signaled \in [Event -> BOOLEAN]
  BY DEF DispatchInv, TypeOK, WaitEnqueue, TopIs
<1>2. Advanced \in Seq(Frame) /\ StackOK(Advanced, queue, tpl)
  BY <1>1, AdvancedKeeps
<1> DEFINE e == Top.evs[Top.pos]
<1>3. UNCHANGED <<events, shape, signaled, notifies, stranded>>
  BY DEF WaitEnqueue
<1>4. CASE ~Waitable(e)
  <2>1. stack' = Front(stack) /\ UNCHANGED <<queue, tpl>>
    BY <1>4 DEF WaitEnqueue
  <2>2. QED BY <1>1, <1>3, <2>1, ReturnKeeps
<1>5. CASE Waitable(e)
  <2>1. IF signaled[e] THEN stack' = Advanced /\ UNCHANGED <<queue, tpl>>
                       ELSE AddToQueue(e, Advanced)
    BY <1>5 DEF WaitEnqueue
  <2>2. e \in Created
    BY <1>5 DEF Waitable
  <2> HIDE DEF e
  <2>3. ASSUME signaled[e] PROVE Kept
    BY <1>1, <1>2, <2>1, <2>3 DEF Kept, TypeOK
  <2>4. ASSUME ~signaled[e] PROVE Kept
    BY <1>1, <1>2, <2>1, <2>2, <2>4, AddToQueueKeeps
  <2>5. QED BY <1>1, <1>3, <2>1, <2>3, <2>4, KeptSuffices
<1>6. QED BY <1>4, <1>5

\* WaitForEvent returns for an event.
LEMMA WaitReturnKeeps ==
  ASSUME DispatchInv, WaitReturn
  PROVE  DispatchInv'
<1>1. /\ stack # <<>> /\ stack' = Front(stack)
      /\ UNCHANGED <<events, shape, queue, tpl, notifies, stranded>>
  BY DEF WaitReturn, Polling, TopIs
<1>2. signaled' \in [Event -> BOOLEAN]
  BY DEF WaitReturn, DispatchInv, TypeOK
<1>3. QED BY <1>1, <1>2, ReturnKeeps

\* WaitForEvent sleeps and runs the queue.
LEMMA WaitPollKeeps ==
  ASSUME DispatchInv, WaitPoll
  PROVE  DispatchInv'
<1>1. /\ TypeOK /\ QueueOK(queue) /\ StackOK(stack, queue, tpl)
      /\ stack \in Seq(Frame) /\ tpl \in TplRange /\ signaled \in [Event -> BOOLEAN]
  BY DEF DispatchInv, TypeOK
<1>2. /\ TimerRun(tpl, stack)
      /\ UNCHANGED <<events, shape, signaled, queue, notifies, stranded>>
  BY DEF WaitPoll
<1>3. Kept
  BY <1>1, <1>2, TimerRunKeeps
<1>4. QED BY <1>1, <1>2, <1>3, KeptSuffices

-----------------------------------------------------------------------------
(* The theorems *)

\* There are no events, calls and nodes at first.
LEMMA InitDispatchInv ==
  ASSUME Init
  PROVE  DispatchInv
<1>1. TypeOK
  BY GroupAssumption
  DEF Init, TypeOK, Unshaped, Shape, TplRange, APPLICATION, HIGH_LEVEL, Flag
<1>2. QueueOK(queue) /\ StackOK(stack, queue, tpl) /\ ToSet(notifies) = {}
  BY DEF Init, QueueOK, StackOK, ToSet
<1>3. QED BY <1>1, <1>2 DEF DispatchInv

\* Every step keeps the invariant.
LEMMA NextDispatchInv ==
  ASSUME DispatchInv, [Next]_vars
  PROVE  DispatchInv'
<1>1. CASE Client
  <2>1. ASSUME NEW e \in Event, NEW r \in Request, CreateEvent(e, r) PROVE DispatchInv'
    BY <2>1, CreateEventKeeps
  <2>2. ASSUME NEW r \in Request, CreateEventExhausted(r) \/ RefuseCreateEvent(r)
        PROVE  DispatchInv'
    BY <2>2, AnswersKeep
  <2>3. ASSUME NEW e \in Event, SignalEvent(e) PROVE DispatchInv'
    BY <2>3, SignalEventKeeps
  <2>4. ASSUME NEW e \in Event, RefuseEvent(e) \/ RegisterExhausted(e) PROVE DispatchInv'
    BY <2>4, AnswersKeep
  <2>5. ASSUME NEW es \in WaitList, WaitForEvent(es) PROVE DispatchInv'
    BY <2>5, WaitForEventKeeps
  <2>6. ASSUME CloseEvent \/ CheckEvent \/ SetTimer PROVE DispatchInv'
    BY <2>6, AnswersKeep
  <2>7. ASSUME NEW t \in TplArg, RaiseTPL(t) \/ RestoreTPL(t) PROVE DispatchInv'
    BY <2>7, TplKeeps
  <2>8. ASSUME Stall PROVE DispatchInv'
    BY <2>8, TplKeeps
  <2>9. ASSUME NEW e \in Event, ReadDevice(e) PROVE DispatchInv'
    BY <2>9, ReadDeviceKeeps
  <2>10. ASSUME NEW e \in Event, RegisterProtocolNotify(e) PROVE DispatchInv'
    BY <2>10, RegisterKeeps
  <2>11. ASSUME InstallProtocol \/ StartImage PROVE DispatchInv'
    BY <2>11, BeginKeeps
  <2>12. ASSUME ImageReturns PROVE DispatchInv'
    BY <2>12, LoopEndKeeps
  <2>13. ASSUME Exit PROVE DispatchInv'
    BY <2>13, ExitKeeps
  <2>14. QED
    BY <1>1, <2>1, <2>2, <2>3, <2>4, <2>5, <2>6, <2>7, <2>8, <2>9, <2>10, <2>11, <2>12, <2>13
    DEF Client
<1>2. CASE CallbackReturn
  BY <1>2, CallbackReturnKeeps
<1>3. CASE Internal
  BY <1>3, GroupNextKeeps, InstallNextKeeps, LoopEndKeeps, WaitEnqueueKeeps,
     WaitReturnKeeps, WaitPollKeeps DEF Internal
<1>4. CASE UNCHANGED vars
  BY <1>4, AnswerKeeps
<1>5. QED BY <1>1, <1>2, <1>3, <1>4 DEF Next

\* The inductive invariant holds in every state.
THEOREM DispatchInvariant == Spec => []DispatchInv
  BY InitDispatchInv, NextDispatchInv, PTL DEF Spec

\* Every variable keeps its type, and ctx->tpl stays one of the 32 levels.
THEOREM TypeCorrect == Spec => []TypeOK
<1>1. DispatchInv => TypeOK
  BY DEF DispatchInv
<1>2. QED BY <1>1, DispatchInvariant, PTL

\* The queue of notifications is sorted by level and holds each event once.
THEOREM QueueIsOrdered == Spec => []QueueOrdered
<1>1. DispatchInv => QueueOrdered
  <2> SUFFICES ASSUME DispatchInv PROVE QueueOrdered
    OBVIOUS
  <2>1. queue \in Seq(Event) /\ QueueOK(queue) /\ DOMAIN queue = 1 .. Len(queue)
    BY LenProperties DEF DispatchInv, TypeOK
  <2>2. \A i \in 1 .. Len(queue) : queue[i] \in ToSet(queue)
    BY <2>1, MembersOfSeq
  <2>3. QED BY <2>1, <2>2 DEF QueueOK, QueueOrdered
<1>2. QED BY <1>1, DispatchInvariant, PTL

\* Whatever the functions do to the level, no function is entered again before
\* it returned, and every function runs above the level it interrupted.
THEOREM NeverReentered == Spec => []NoReentry
<1>1. DispatchInv => NoReentry
  <2> SUFFICES ASSUME DispatchInv PROVE NoReentry
    OBVIOUS
  <2>1. stack \in Seq(Frame) /\ StackOK(stack, queue, tpl) /\ DOMAIN stack = 1 .. Len(stack)
    BY LenProperties DEF DispatchInv, TypeOK
  <2>2. QED BY <2>1 DEF StackOK, RunFrameOK, NoReentry, Running, LevelAt
<1>2. QED BY <1>1, DispatchInvariant, PTL

\* The two list nodes the dispatcher keeps across the call of a function are
\* still linked when it returns: the list is never walked through a freed node.
THEOREM DispatcherNodesAlive == Spec => []NodesAlive
<1>1. DispatchInv => NodesAlive
  <2> SUFFICES ASSUME DispatchInv PROVE NodesAlive
    OBVIOUS
  <2>1. stack \in Seq(Frame) /\ StackOK(stack, queue, tpl) /\ DOMAIN stack = 1 .. Len(stack)
    BY LenProperties DEF DispatchInv, TypeOK
  <2>2. QED BY <2>1 DEF StackOK, RunFrameOK, NodesAlive, Running, LevelAt, Queued
<1>2. QED BY <1>1, DispatchInvariant, PTL
-----------------------------------------------------------------------------
(* No signal is lost *)

\* What the frame of a loop holds: a group's event exists, and no event a wait has
\* passed is a pure signal.
LoopOK(f) ==
  /\ f.kind = "group" => f.cur \in Created
  /\ f.kind = "wait" => \A j \in DOMAIN f.evs : j < f.pos =>
                          f.evs[j] \in Created /\ ~PureSignal(f.evs[j])

\* and of all frames
LoopsOK(st) == \A i \in 1 .. Len(st) : LoopOK(st[i])

\* What NoLostSignal says of signals sig, list q, call stack st and the events lost
SignalsOK(sig, q, st, lost) ==
  \A e \in Created : PureSignal(e) =>
    /\ sig[e] => e \in ToSet(q) \/ ComingOn(st, e) \/ e \in lost
    /\ e \in ToSet(q) /\ shape[e].group = NoGroup => sig[e]

\* An event is lost for as long as it is signalled, and neither queued nor reached.
StrandedOK(sig, q, st, lost) ==
  \A e \in lost : /\ e \in Created /\ PureSignal(e) /\ sig[e]
                  /\ e \notin ToSet(q) /\ ~ComingOn(st, e)

\* Only events that exist are signalled, and those that notify have a function.
EventsOK(sig) ==
  /\ \A e \in Event : sig[e] => e \in Created
  /\ \A e \in Created : Notifies(e) => shape[e].func

\* The inductive invariant of the signals
SignalInv ==
  /\ DispatchInv
  /\ EventsOK(signaled)
  /\ LoopsOK(stack)
  /\ ~MayExhaust => SignalsOK(signaled, queue, stack, stranded)
  /\ StrandedOK(signaled, queue, stack, stranded)

\* What an operation must do to keep the invariant when it keeps the events
LEMMA SignalsSuffice ==
  ASSUME SignalInv, DispatchInv', UNCHANGED <<events, shape>>,
         \A e \in Event : signaled'[e] => e \in Created,
         LoopsOK(stack'), ~MayExhaust => SignalsOK(signaled', queue', stack', stranded'),
         StrandedOK(signaled', queue', stack', stranded')
  PROVE  SignalInv'
<1>1. EventsOK(signaled)'
  BY DEF SignalInv, EventsOK, Created, Notifies
<1>2. LoopsOK(stack)'
  BY DEF LoopsOK, LoopOK, Created, PureSignal
<1>3. (~MayExhaust => SignalsOK(signaled, queue, stack, stranded))'
  BY DEF SignalsOK, ComingOn, Reaches, Created, PureSignal, SameGroup
<1>4. StrandedOK(signaled, queue, stack, stranded)'
  BY DEF StrandedOK, ComingOn, Reaches, Created, PureSignal, SameGroup
<1>5. QED BY <1>1, <1>2, <1>3, <1>4 DEF SignalInv

\* An added frame takes no loop away.
LEMMA PushedLoop ==
  ASSUME NEW s \in Seq(Frame), NEW f
  PROVE  /\ \A e : ComingOn(s, e) \/ Reaches(f, e) <=> ComingOn(Append(s, f), e)
         /\ LoopsOK(s) /\ LoopOK(f) => LoopsOK(Append(s, f))
<1> DEFINE S == Frame \cup {f}
           st == Append(s, f)
<1>1. s \in Seq(S) /\ f \in S
  OBVIOUS
<1> HIDE DEF S
<1>2. /\ Len(st) = Len(s) + 1 /\ Len(s) \in Nat
      /\ \A i \in 1 .. Len(s) : st[i] = s[i]
      /\ st[Len(s) + 1] = f
  BY <1>1, AppendProperties, LenProperties
<1> HIDE DEF st
<1>3. ASSUME NEW e, ComingOn(s, e) \/ Reaches(f, e) PROVE ComingOn(st, e)
  <2>1. CASE ComingOn(s, e)
    <3>1. PICK i \in 1 .. Len(s) : Reaches(s[i], e)
      BY <2>1 DEF ComingOn
    <3>2. i \in 1 .. Len(st) /\ st[i] = s[i]
      BY <1>2
    <3>3. QED BY <3>1, <3>2 DEF ComingOn
  <2>2. CASE Reaches(f, e)
    <3>1. Len(s) + 1 \in 1 .. Len(st)
      BY <1>2
    <3>2. QED BY <1>2, <2>2, <3>1 DEF ComingOn
  <2>3. QED BY <1>3, <2>1, <2>2
<1>4. ASSUME NEW e, ComingOn(st, e) PROVE ComingOn(s, e) \/ Reaches(f, e)
  <2>1. PICK i \in 1 .. Len(st) : Reaches(st[i], e)
    BY <1>4 DEF ComingOn
  <2>2. i \in 1 .. Len(s) \/ i = Len(s) + 1
    BY <1>2
  <2>3. QED BY <1>2, <2>1, <2>2 DEF ComingOn
<1>5. ASSUME LoopsOK(s), LoopOK(f), NEW i \in 1 .. Len(st) PROVE LoopOK(st[i])
  <2>1. CASE i \in 1 .. Len(s)
    BY <1>2, <1>5, <2>1 DEF LoopsOK
  <2>2. CASE i = Len(s) + 1
    BY <1>2, <1>5, <2>2
  <2>3. QED BY <1>2, <2>1, <2>2
<1>6. QED BY <1>3, <1>4, <1>5 DEF LoopsOK, st

\* Returning loses no loop but the innermost.
LEMMA PoppedLoop ==
  ASSUME NEW s \in Seq(Frame), s # <<>>, LoopsOK(s)
  PROVE  /\ LoopsOK(Front(s))
         /\ \A e : ComingOn(s, e) => ComingOn(Front(s), e) \/ Reaches(s[Len(s)], e)
         /\ \A e : ComingOn(Front(s), e) => ComingOn(s, e)
<1>1. /\ Len(Front(s)) = Len(s) - 1 /\ Len(s) \in Nat
      /\ \A j \in 1 .. Len(s) - 1 : Front(s)[j] = s[j]
  BY FrontFacts, LenProperties
<1>2. \A j \in 1 .. Len(Front(s)) : j \in 1 .. Len(s) /\ Front(s)[j] = s[j]
  BY <1>1
<1>3. LoopsOK(Front(s))
  BY <1>2 DEF LoopsOK
<1>4. ASSUME NEW e, ComingOn(s, e), ~Reaches(s[Len(s)], e) PROVE ComingOn(Front(s), e)
  <2>1. PICK i \in 1 .. Len(s) : Reaches(s[i], e)
    BY <1>4 DEF ComingOn
  <2>2. i \in 1 .. Len(Front(s)) /\ Front(s)[i] = s[i]
    BY <1>1, <1>4, <2>1
  <2>3. QED BY <2>1, <2>2 DEF ComingOn
<1>5. \A e : ComingOn(Front(s), e) => ComingOn(s, e)
  BY <1>2 DEF ComingOn
<1>6. QED BY <1>3, <1>4, <1>5

\* Exit keeps some of the loops.
LEMMA PrefixLoops ==
  ASSUME NEW s \in Seq(Frame), NEW n \in 0 .. Len(s), LoopsOK(s)
  PROVE  /\ LoopsOK(SubSeq(s, 1, n))
         /\ \A e : ComingOn(SubSeq(s, 1, n), e) => ComingOn(s, e)
<1> DEFINE r == SubSeq(s, 1, n)
<1>1. \A j \in 1 .. Len(r) : j \in 1 .. Len(s) /\ r[j] = s[j]
  BY PrefixFacts, LenProperties
<1> HIDE DEF r
<1>2. LoopsOK(r) /\ \A e : ComingOn(r, e) => ComingOn(s, e)
  BY <1>1 DEF LoopsOK, ComingOn
<1>3. QED BY <1>2 DEF r

\* The stack s of a caller, with the function the dispatcher called if any
Dispatched(s) == stack' = s \/ \E e, n, t : stack' = Append(s, RunFrame(e, n, t))

\* The dispatcher has no part in the loops.
LEMMA DispatchedLoops ==
  ASSUME NEW s \in Seq(Frame), LoopsOK(s), Dispatched(s)
  PROVE  LoopsOK(stack') /\ \A e : ComingOn(s, e) <=> ComingOn(stack', e)
<1>1. CASE stack' = s
  BY <1>1
<1>2. ASSUME NEW e, NEW n, NEW t, stack' = Append(s, RunFrame(e, n, t))
      PROVE  LoopsOK(stack') /\ \A x : ComingOn(s, x) <=> ComingOn(stack', x)
  <2>1. LoopOK(RunFrame(e, n, t))
    BY DEF LoopOK, RunFrame
  <2>2. \A x : ~Reaches(RunFrame(e, n, t), x)
    BY DEF Reaches, RunFrame
  <2>3. QED BY <1>2, <2>1, <2>2, PushedLoop
<1>3. QED BY <1>1, <1>2 DEF Dispatched

\* One turn of the dispatcher calls one function at most.
LEMMA RunQueueDispatches ==
  ASSUME NEW q, NEW l, NEW t, NEW s, RunQueue(q, l, t, s)
  PROVE  Dispatched(s)
  BY DEF RunQueue, Dispatched

\* Queueing e queues no other event and unlinks none; without a failed allocation
\* an event with a function is queued.
LEMMA AddToQueueAdds ==
  ASSUME DispatchInv, NEW e \in Created, NEW s, AddToQueue(e, s)
  PROVE  /\ Dispatched(s)
         /\ Queued \subseteq ToSet(queue') /\ ToSet(queue') \subseteq Queued \cup {e}
         /\ shape[e].func /\ ~MayExhaust => e \in ToSet(queue')
<1>1. queue \in Seq(Event) /\ e \in Event
  BY MembersOfSeq DEF DispatchInv, TypeOK, Created
<1>2. CASE /\ shape[e].func /\ e \notin Queued
           /\ \E i \in 1 .. Len(queue) + 1 :
                InsertPos(queue, e, i) /\ queue' = InsertAt(queue, i, e)
           /\ RunQueue(queue', First(queue'), tpl, s)
  <2>1. PICK i \in 1 .. Len(queue) + 1 : queue' = InsertAt(queue, i, e)
    BY <1>2
  <2>2. ToSet(queue') = Queued \cup {e}
    BY <1>1, <2>1, InsertedMembers DEF Queued
  <2>3. QED BY <1>2, <2>2, RunQueueDispatches
<1>3. CASE /\ ~shape[e].func \/ e \in Queued \/ MayExhaust
           /\ stack' = s /\ UNCHANGED <<queue, tpl>>
  BY <1>3 DEF Dispatched, Queued
<1>4. QED BY <1>2, <1>3 DEF AddToQueue

\* A step that changes neither signals nor queue and only dispatches
LEMMA DispatchSignals ==
  ASSUME SignalInv, DispatchInv', UNCHANGED <<events, shape, signaled, queue, stranded>>,
         Dispatched(stack)
  PROVE  SignalInv'
<1>1. stack \in Seq(Frame) /\ LoopsOK(stack)
  BY DEF SignalInv, DispatchInv, TypeOK
<1>2. LoopsOK(stack') /\ \A e : ComingOn(stack, e) <=> ComingOn(stack', e)
  BY <1>1, DispatchedLoops
<1>3. ~MayExhaust => SignalsOK(signaled', queue', stack', stranded')
  BY <1>2 DEF SignalInv, SignalsOK
<1>4. \A e \in Event : signaled'[e] => e \in Created
  BY DEF SignalInv, EventsOK
<1>5. StrandedOK(signaled', queue', stack', stranded')
  BY <1>2 DEF SignalInv, StrandedOK
<1>6. QED BY <1>2, <1>3, <1>4, <1>5, SignalsSuffice

\* SignalEvent from signals that differ from the present ones at e at most, where
\* they are lower: e is queued, or the loop over its group will come to it.
LEMMA SignalFromSignals ==
  ASSUME SignalInv, NEW e \in Created, NEW s \in Seq(Frame), LoopsOK(s),
         \A x : ComingOn(stack, x) <=> ComingOn(s, x),
         NEW sig \in [Event -> BOOLEAN], \A x \in Event : x # e => sig[x] = signaled[x],
         sig[e] => signaled[e], SignalFrom(sig, e, s)
  PROVE  /\ \A x \in Event : signaled'[x] => x \in Created
         /\ LoopsOK(stack')
         /\ ~MayExhaust => SignalsOK(signaled', queue', stack', stranded')
         /\ StrandedOK(signaled', queue', stack', stranded')
<1>1. /\ DispatchInv /\ EventsOK(signaled) /\ events \in Seq(Event) /\ e \in Event
      /\ Created \subseteq Event
  BY MembersOfSeq DEF SignalInv, DispatchInv, TypeOK, Created
<1>2. \A x \in Event : sig[x] => x \in Created
  BY <1>1 DEF EventsOK
<1>3. CASE /\ sig[e] /\ signaled' = sig /\ stack' = s
           /\ UNCHANGED <<queue, tpl, stranded>>
  <2>1. \A x \in Created : sig[x] = signaled[x]
    BY <1>1, <1>3
  <2>2. ~MayExhaust => SignalsOK(signaled', queue', stack', stranded')
    BY <1>3, <2>1 DEF SignalInv, SignalsOK
  <2>3. StrandedOK(signaled', queue', stack', stranded')
    BY <1>3, <2>1 DEF SignalInv, StrandedOK
  <2>4. QED BY <1>2, <1>3, <2>2, <2>3
<1>4. CASE /\ ~sig[e] /\ shape[e].group # NoGroup
           /\ signaled' = [f \in Event |-> sig[f] \/ (f \in Created /\ SameGroup(e, f))]
           /\ stack' = Append(s, GroupFrame(e)) /\ UNCHANGED <<queue, tpl>>
           /\ stranded' = {f \in stranded : ~SameGroup(e, f)}
  <2>1. \A x \in Event : signaled'[x] <=> sig[x] \/ (x \in Created /\ SameGroup(e, x))
    BY <1>4
  <2>2. LoopOK(GroupFrame(e)) /\ GroupFrame(e).kind = "group" /\ GroupFrame(e).cur = e
        /\ GroupFrame(e).pos = 1
    BY DEF LoopOK, GroupFrame
  <2>3. /\ LoopsOK(stack')
        /\ \A x : ComingOn(s, x) \/ Reaches(GroupFrame(e), x) <=> ComingOn(stack', x)
    BY <1>4, <2>2, PushedLoop
  <2>4. \A x \in Created : SameGroup(e, x) => Reaches(GroupFrame(e), x)
    <3>1. \A x \in Created : \E k \in 1 .. Len(events) : events[k] = x
      BY <1>1, MembersOfSeq DEF Created
    <3>2. DOMAIN events = 1 .. Len(events) /\ Len(events) \in Nat
      BY <1>1, LenProperties
    <3>3. QED BY <2>2, <3>1, <3>2 DEF Reaches
  <2>5. ASSUME ~MayExhaust, NEW x \in Created, PureSignal(x)
        PROVE  /\ signaled'[x] => x \in Queued \/ ComingOn(stack', x) \/ x \in stranded'
               /\ x \in Queued /\ shape[x].group = NoGroup => signaled'[x]
    <3>1. /\ signaled[x] => x \in Queued \/ ComingOn(stack, x) \/ x \in stranded
          /\ x \in Queued /\ shape[x].group = NoGroup => signaled[x]
      BY <2>5 DEF SignalInv, SignalsOK, Queued
    <3>2. CASE x = e
      <4>1. SameGroup(e, e)
        BY <1>4 DEF SameGroup
      <4>2. QED BY <1>4, <2>3, <2>4, <3>2, <4>1
    <3>3. CASE x # e
      <4>1. x \in Event /\ (sig[x] <=> signaled[x])
        BY <1>1, <3>3
      <4>2. x \in stranded => x \in stranded' \/ ComingOn(stack', x)
        BY <1>4, <2>3, <2>4, <2>5
      <4>3. QED BY <2>1, <2>3, <2>4, <3>1, <4>1, <4>2
    <3>4. QED BY <3>2, <3>3
  <2>6. ~MayExhaust => SignalsOK(signaled', queue', stack', stranded')
    BY <1>4, <2>5 DEF SignalsOK, Queued
  <2>7. ASSUME NEW x \in stranded' PROVE signaled'[x] /\ ~ComingOn(stack', x)
    <3>1. x \in stranded /\ ~SameGroup(e, x) /\ SameGroup(e, e)
      BY <1>4, <2>7 DEF SameGroup
    <3>2. x \in Created /\ signaled[x] /\ ~ComingOn(stack, x)
      BY <3>1 DEF SignalInv, StrandedOK
    <3>3. ~Reaches(GroupFrame(e), x)
      BY <2>2, <3>1 DEF Reaches
    <3>4. QED BY <1>1, <2>1, <2>3, <3>1, <3>2, <3>3
  <2>8. StrandedOK(signaled', queue', stack', stranded')
    BY <1>4, <2>7 DEF SignalInv, StrandedOK
  <2>9. QED BY <1>2, <2>1, <2>3, <2>6, <2>8
<1>5. CASE /\ ~sig[e] /\ shape[e].group = NoGroup /\ signaled' = [sig EXCEPT ![e] = TRUE]
           /\ stranded' = stranded \ {e} /\ AddToQueue(e, s)
  <2>1. /\ Dispatched(s)
        /\ Queued \subseteq ToSet(queue') /\ ToSet(queue') \subseteq Queued \cup {e}
        /\ shape[e].func /\ ~MayExhaust => e \in ToSet(queue')
    BY <1>1, <1>5, AddToQueueAdds
  <2>2. LoopsOK(stack') /\ \A x : ComingOn(s, x) <=> ComingOn(stack', x)
    BY <2>1, DispatchedLoops
  <2>3. \A x \in Event : signaled'[x] <=> sig[x] \/ x = e
    BY <1>1, <1>5
  <2>4. ASSUME ~MayExhaust, NEW x \in Created, PureSignal(x)
        PROVE  /\ signaled'[x] => x \in ToSet(queue') \/ ComingOn(stack', x) \/ x \in stranded'
               /\ x \in ToSet(queue') /\ shape[x].group = NoGroup => signaled'[x]
    <3>1. /\ signaled[x] => x \in Queued \/ ComingOn(stack, x) \/ x \in stranded
          /\ x \in Queued /\ shape[x].group = NoGroup => signaled[x]
      BY <2>4 DEF SignalInv, SignalsOK, Queued
    <3>2. CASE x = e
      <4>1. shape[e].func
        BY <1>1, <2>4, <3>2 DEF EventsOK, PureSignal, Notifies
      <4>2. QED BY <1>1, <2>1, <2>3, <2>4, <3>2, <4>1
    <3>3. CASE x # e
      <4>1. x \in Event /\ (sig[x] <=> signaled[x])
        BY <1>1, <3>3
      <4>2. QED BY <1>5, <2>1, <2>2, <2>3, <3>1, <3>3, <4>1
    <3>4. QED BY <3>2, <3>3
  <2>5. ~MayExhaust => SignalsOK(signaled', queue', stack', stranded')
    BY <2>4 DEF SignalsOK
  <2>6. ASSUME NEW x \in stranded'
        PROVE  signaled'[x] /\ x \notin ToSet(queue') /\ ~ComingOn(stack', x)
    <3>1. x \in stranded /\ x # e
      BY <1>5, <2>6
    <3>2. x \in Created /\ signaled[x] /\ x \notin Queued /\ ~ComingOn(stack, x)
      BY <3>1 DEF SignalInv, StrandedOK, Queued
    <3>3. QED BY <1>1, <2>1, <2>2, <2>3, <3>1, <3>2
  <2>7. StrandedOK(signaled', queue', stack', stranded')
    BY <1>5, <2>6 DEF SignalInv, StrandedOK
  <2>8. QED BY <1>1, <1>2, <2>2, <2>3, <2>5, <2>7
<1>6. QED BY <1>3, <1>4, <1>5 DEF SignalFrom

\* A turn of a loop that is not a group's changes no group's loop.
LEMMA AdvancedLoops ==
  ASSUME TypeOK, stack # <<>>, LoopsOK(stack)
  PROVE  /\ Advanced \in Seq(Frame)
         /\ \A x : ComingOn(Advanced, x) => ComingOn(stack, x)
         /\ Top.kind # "group" => \A x : ComingOn(stack, x) => ComingOn(Advanced, x)
         /\ Top.kind = "wait" /\ Top.pos \in DOMAIN Top.evs
              /\ Top.evs[Top.pos] \in Created /\ ~PureSignal(Top.evs[Top.pos])
            => LoopsOK(Advanced)
         /\ Top.kind # "wait" => LoopsOK(Advanced)
         /\ Top.kind = "group" => \A x : ComingOn(stack, x) =>
              \/ ComingOn(Advanced, x)
              \/ /\ Top.pos \in DOMAIN events /\ x = events[Top.pos]
                 /\ SameGroup(Top.cur, x)
<1> DEFINE n == Len(stack)
           f == [Top EXCEPT !.pos = @ + 1]
<1>1. stack \in Seq(Frame) /\ n \in 1 .. Len(stack) /\ Top = stack[n] /\ Top \in Frame
  BY TopFacts, LenProperties
<1>2. /\ f \in Frame /\ f.kind = Top.kind /\ f.cur = Top.cur /\ f.next = Top.next
      /\ f.evs = Top.evs /\ f.pos = Top.pos + 1
  <2> SUFFICES ASSUME NEW g \in Frame
               PROVE  LET h == [g EXCEPT !.pos = @ + 1]
                      IN /\ h \in Frame /\ h.kind = g.kind /\ h.cur = g.cur
                         /\ h.next = g.next /\ h.evs = g.evs /\ h.pos = g.pos + 1
    BY <1>1
  <2> QED BY DEF Frame
<1>3. Advanced = [stack EXCEPT ![n] = f]
  BY <1>1 DEF Advanced, Top
<1> HIDE DEF f
<1>4. /\ Advanced \in Seq(Frame) /\ Len(Advanced) = Len(stack)
      /\ \A j \in 1 .. Len(stack) : Advanced[j] = IF j = n THEN f ELSE stack[j]
  BY <1>1, <1>2, <1>3, ExceptSeq
<1>5. Top.pos \in Nat /\ Top.evs \in Seq(Event) /\ LoopOK(Top)
  BY <1>1 DEF Frame, LoopsOK
<1> HIDE DEF n
<1>6. \A x : ComingOn(stack, x) => ComingOn(Advanced, x) \/ (Reaches(Top, x) /\ ~Reaches(f, x))
  <2>1. ASSUME NEW x, ComingOn(stack, x), ~ComingOn(Advanced, x)
        PROVE  Reaches(Top, x) /\ ~Reaches(f, x)
    <3>1. PICK i \in 1 .. Len(stack) : Reaches(stack[i], x)
      BY <2>1 DEF ComingOn
    <3>2. i = n
      BY <1>4, <2>1, <3>1 DEF ComingOn
    <3>3. QED BY <1>1, <1>4, <2>1, <3>1, <3>2 DEF ComingOn
  <2>2. QED BY <2>1
<1>7. Top.kind # "group" => \A x : ~Reaches(Top, x)
  BY DEF Reaches
<1>8. ASSUME Top.kind = "group", NEW x, Reaches(Top, x), ~Reaches(f, x)
      PROVE  /\ Top.pos \in DOMAIN events /\ x = events[Top.pos]
             /\ SameGroup(Top.cur, x)
  <2>1. SameGroup(Top.cur, x)
    BY <1>8 DEF Reaches
  <2>2. PICK k \in DOMAIN events : k >= Top.pos /\ events[k] = x
    BY <1>8 DEF Reaches
  <2>3. ~(k >= f.pos)
    BY <1>2, <1>8, <2>1, <2>2 DEF Reaches
  <2>4. k \in Nat
    BY LenProperties, <2>2 DEF TypeOK
  <2>5. k = Top.pos
    BY <1>2, <1>5, <2>2, <2>3, <2>4
  <2>6. QED BY <2>1, <2>2, <2>5
<1>9. LoopOK(f) => LoopsOK(Advanced)
  BY <1>4 DEF LoopsOK
<1>10. Top.kind # "wait" => LoopOK(f)
  BY <1>2, <1>5 DEF LoopOK
<1>11. ASSUME Top.kind = "wait", Top.pos \in DOMAIN Top.evs,
              Top.evs[Top.pos] \in Created, ~PureSignal(Top.evs[Top.pos])
       PROVE  LoopOK(f)
  <2>1. ASSUME NEW j \in DOMAIN f.evs, j < f.pos
        PROVE  f.evs[j] \in Created /\ ~PureSignal(f.evs[j])
    <3>1. j \in Nat /\ j \in DOMAIN Top.evs
      BY <1>2, <1>5, <2>1, LenProperties
    <3>2. j = Top.pos \/ j < Top.pos
      BY <1>2, <1>5, <2>1, <3>1
    <3>3. QED BY <1>2, <1>5, <1>11, <3>1, <3>2 DEF LoopOK
  <2>2. f.kind = "wait"
    BY <1>2, <1>11
  <2>3. QED BY <2>1, <2>2 DEF LoopOK
<1>12. ASSUME NEW x, ComingOn(Advanced, x) PROVE ComingOn(stack, x)
  <2>1. PICK i \in 1 .. Len(stack) : Reaches(Advanced[i], x)
    BY <1>4, <1>12 DEF ComingOn
  <2>2. CASE i = n
    <3>1. /\ f.kind = "group" /\ SameGroup(f.cur, x)
          /\ \E k \in DOMAIN events : k >= f.pos /\ events[k] = x
      BY <1>4, <2>1, <2>2 DEF Reaches
    <3>2. \A k \in DOMAIN events : k >= f.pos => k >= Top.pos
      BY <1>2, <1>5, LenProperties DEF TypeOK
    <3>3. Reaches(Top, x)
      BY <1>2, <3>1, <3>2 DEF Reaches
    <3>4. QED BY <1>1, <3>3 DEF ComingOn
  <2>3. QED BY <1>4, <2>1, <2>2 DEF ComingOn
<1>13. QED BY <1>12, <1>4, <1>6, <1>7, <1>8, <1>9, <1>10, <1>11

\* A new event is neither signalled nor queued, and has a function if it notifies.
LEMMA CreateEventSignals ==
  ASSUME SignalInv, DispatchInv', NEW e \in Event, NEW r \in Request, CreateEvent(e, r)
  PROVE  SignalInv'
<1>1. /\ TypeOK /\ QueueOK(queue) /\ e \notin Created /\ ValidRequest(r)
      /\ shape' = [shape EXCEPT ![e] = ShapeOf(r)] /\ events' = Append(events, e)
      /\ UNCHANGED <<signaled, queue, tpl, stack, notifies, stranded>>
  BY DEF CreateEvent, SignalInv, DispatchInv
<1>2. /\ events \in Seq(Event) /\ stack \in Seq(Frame) /\ shape \in [Event -> Shape]
      /\ signaled \in [Event -> BOOLEAN]
  BY <1>1 DEF TypeOK
<1>3. /\ Created' = Created \cup {e} /\ Created \subseteq Event
      /\ Len(events) \in Nat /\ DOMAIN events = 1 .. Len(events)
      /\ DOMAIN events' = 1 .. Len(events) + 1
      /\ \A k \in DOMAIN events : events'[k] = events[k]
  <2>1. Created' = Created \cup {e}
    BY <1>1, <1>2, AppendMembers DEF Created
  <2>2. Created \subseteq Event
    BY <1>2, MembersOfSeq DEF Created
  <2>3. /\ events' \in Seq(Event) /\ Len(events') = Len(events) + 1
        /\ \A k \in 1 .. Len(events) : events'[k] = events[k]
    BY <1>1, <1>2, AppendProperties
  <2>4. QED BY <1>2, <2>1, <2>2, <2>3, LenProperties
<1>4. \A x \in Created : shape'[x] = shape[x] /\ x # e
  BY <1>1, <1>2, <1>3
<1>5. shape'[e] = ShapeOf(r) /\ ShapeOf(r).type = r.type /\ ShapeOf(r).func = r.func
  <2>1. r \in [type : SUBSET Flag, tpl : 0 .. HIGH_LEVEL, func : BOOLEAN, group : Group \cup {NoGroup}]
    BY RequestAssumption
  <2>2. QED BY <1>1, <1>2, <2>1 DEF ShapeOf
<1>6. EventsOK(signaled)'
  <2>1. \A x \in Event : signaled'[x] => x \in Created'
    BY <1>1, <1>3 DEF SignalInv, EventsOK
  <2>2. \A x \in Created : "signal" \in shape'[x].type => shape'[x].func
    BY <1>4 DEF SignalInv, EventsOK, Notifies
  <2>3. "signal" \in shape'[e].type => shape'[e].func
    BY <1>1, <1>5 DEF ValidRequest
  <2>4. QED BY <1>3, <2>1, <2>2, <2>3 DEF EventsOK, Notifies
<1>7. LoopsOK(stack)'
  <2>1. \A i \in 1 .. Len(stack) : LoopOK(stack[i])
    BY DEF SignalInv, LoopsOK
  <2>2. ASSUME NEW f, LoopOK(f) PROVE LoopOK(f)'
    <3>1. \A x \in Created : PureSignal(x)' = PureSignal(x)
      BY <1>4 DEF PureSignal
    <3>2. QED BY <1>3, <2>2, <3>1 DEF LoopOK, PureSignal
  <2>3. QED BY <1>1, <2>1, <2>2 DEF LoopsOK
<1>8. ~signaled[e] /\ e \notin ToSet(queue)
  BY <1>1 DEF SignalInv, EventsOK, QueueOK
<1>9. ASSUME NEW f, LoopOK(f), NEW x \in Created, Reaches(f, x) PROVE Reaches(f, x)'
  <2>1. f.kind = "group" /\ f.cur \in Created
    BY <1>9 DEF Reaches, LoopOK
  <2>2. shape'[f.cur] = shape[f.cur] /\ shape'[x] = shape[x]
    BY <1>4, <2>1
  <2>3. PICK k \in DOMAIN events : k >= f.pos /\ events[k] = x
    BY <1>9 DEF Reaches
  <2>4. k \in DOMAIN events' /\ events'[k] = x
    BY <1>3, <2>3
  <2>5. QED BY <1>9, <2>1, <2>2, <2>3, <2>4 DEF Reaches, SameGroup
<1>10. \A x \in Created : ComingOn(stack, x) => ComingOn(stack, x)'
  BY <1>1, <1>9 DEF ComingOn, SignalInv, LoopsOK
<1>11. ASSUME ~MayExhaust PROVE SignalsOK(signaled, queue, stack, stranded)'
  <2>1. SignalsOK(signaled, queue, stack, stranded)
    BY <1>11 DEF SignalInv
  <2>2. ASSUME NEW x \in Created', PureSignal(x)'
        PROVE  /\ signaled[x] => x \in ToSet(queue) \/ ComingOn(stack, x)' \/ x \in stranded
               /\ x \in ToSet(queue) /\ shape'[x].group = NoGroup => signaled[x]
    <3>1. CASE x = e
      BY <1>8, <3>1
    <3>2. CASE x \in Created
      <4>1. PureSignal(x) /\ shape'[x] = shape[x]
        BY <1>4, <2>2, <3>2 DEF PureSignal
      <4>2. QED BY <1>10, <2>1, <3>2, <4>1 DEF SignalsOK
    <3>3. QED BY <1>3, <3>1, <3>2
  <2>3. QED BY <1>1, <2>2 DEF SignalsOK
<1>12. ASSUME NEW f, LoopOK(f), NEW x \in Created, Reaches(f, x)' PROVE Reaches(f, x)
  <2>1. f.kind = "group" /\ f.cur \in Created
    BY <1>12 DEF Reaches, LoopOK
  <2>2. shape'[f.cur] = shape[f.cur] /\ shape'[x] = shape[x] /\ x # e
    BY <1>4, <2>1
  <2>3. PICK k \in DOMAIN events' : k >= f.pos /\ events'[k] = x
    BY <1>12 DEF Reaches
  <2>4. events'[Len(events) + 1] = e
    BY <1>1, <1>2, AppendProperties
  <2>5. k \in DOMAIN events /\ events[k] = x
    BY <1>3, <2>2, <2>3, <2>4
  <2>6. QED BY <1>12, <2>1, <2>2, <2>3, <2>5 DEF Reaches, SameGroup
<1>13. \A x \in Created : ComingOn(stack, x)' => ComingOn(stack, x)
  BY <1>1, <1>12 DEF ComingOn, SignalInv, LoopsOK
<1>14. StrandedOK(signaled, queue, stack, stranded)'
  <2>1. ASSUME NEW x \in stranded
        PROVE  /\ x \in Created' /\ PureSignal(x)' /\ signaled[x]
               /\ x \notin ToSet(queue) /\ ~ComingOn(stack, x)'
    <3>1. /\ x \in Created /\ PureSignal(x) /\ signaled[x]
          /\ x \notin ToSet(queue) /\ ~ComingOn(stack, x)
      BY DEF SignalInv, StrandedOK
    <3>2. QED BY <1>3, <1>4, <1>13, <3>1 DEF PureSignal
  <2>2. QED BY <1>1, <2>1 DEF StrandedOK
<1>15. QED BY <1>6, <1>7, <1>11, <1>14 DEF SignalInv

\* Steps that change neither signals, queue nor loops
LEMMA QuietSignals ==
  ASSUME SignalInv, DispatchInv', UNCHANGED <<events, shape, signaled, queue, stack, stranded>>
  PROVE  SignalInv'
  BY DispatchSignals DEF Dispatched

\* SignalEvent, from the signals there are
LEMMA SignalEventSignals ==
  ASSUME SignalInv, DispatchInv', NEW e \in Event, SignalEvent(e)
  PROVE  SignalInv'
<1>1. /\ e \in Created /\ SignalFrom(signaled, e, stack) /\ UNCHANGED <<events, shape>>
      /\ stack \in Seq(Frame) /\ LoopsOK(stack) /\ signaled \in [Event -> BOOLEAN]
  BY DEF SignalEvent, SignalInv, DispatchInv, TypeOK
<1>2. /\ \A x \in Event : signaled'[x] => x \in Created
      /\ LoopsOK(stack')
      /\ ~MayExhaust => SignalsOK(signaled', queue', stack', stranded')
      /\ StrandedOK(signaled', queue', stack', stranded')
  BY <1>1, SignalFromSignals
<1>3. QED BY <1>1, <1>2, SignalsSuffice

\* A service that begins a loop reaches no event before its first turn.
LEMMA PushSignals ==
  ASSUME SignalInv, DispatchInv', UNCHANGED <<events, shape, signaled, queue, stranded>>,
         NEW f, LoopOK(f), \A x : ~Reaches(f, x), stack' = Append(stack, f)
  PROVE  SignalInv'
<1>1. stack \in Seq(Frame) /\ LoopsOK(stack)
  BY DEF SignalInv, DispatchInv, TypeOK
<1>2. LoopsOK(stack') /\ \A e : ComingOn(stack, e) <=> ComingOn(stack', e)
  BY <1>1, PushedLoop
<1>3. ~MayExhaust => SignalsOK(signaled', queue', stack', stranded')
  BY <1>2 DEF SignalInv, SignalsOK
<1>4. \A e \in Event : signaled'[e] => e \in Created
  BY DEF SignalInv, EventsOK
<1>5. StrandedOK(signaled', queue', stack', stranded')
  BY <1>2 DEF SignalInv, StrandedOK
<1>6. QED BY <1>2, <1>3, <1>4, <1>5, SignalsSuffice

\* WaitForEvent has let no event pass when it begins.
LEMMA WaitForEventSignals ==
  ASSUME SignalInv, DispatchInv', NEW es \in WaitList, WaitForEvent(es)
  PROVE  SignalInv'
<1>1. UNCHANGED <<events, shape, signaled, queue, stranded>>
  BY DEF WaitForEvent
<1>2. CASE stack' = stack
  BY <1>1, <1>2, QuietSignals
<1>3. CASE stack' = Append(stack, WaitFrame(es))
  <2>1. es \in Seq(Event)
    BY WaitAssumption
  <2>2. \A j \in DOMAIN es : ~(j < 1)
    BY <2>1, LenProperties
  <2>3. LoopOK(WaitFrame(es)) /\ \A x : ~Reaches(WaitFrame(es), x)
    BY <2>2 DEF LoopOK, Reaches, WaitFrame
  <2>4. QED BY <1>1, <1>3, <2>3, PushSignals
<1>4. QED BY <1>2, <1>3 DEF WaitForEvent

\* Nor do an installation and a program reach any.
LEMMA BeginSignals ==
  ASSUME SignalInv, DispatchInv', InstallProtocol \/ StartImage
  PROVE  SignalInv'
<1>1. /\ LoopOK(InstallFrame) /\ LoopOK(ImageFrame(tpl))
      /\ \A x : ~Reaches(InstallFrame, x) /\ ~Reaches(ImageFrame(tpl), x)
  BY DEF LoopOK, Reaches, InstallFrame, ImageFrame
<1>2. /\ UNCHANGED <<events, shape, signaled, queue, stranded>>
      /\ \/ stack' = Append(stack, InstallFrame)
         \/ stack' = Append(stack, ImageFrame(tpl))
  BY DEF InstallProtocol, StartImage
<1>3. QED BY <1>1, <1>2, PushSignals

\* Only a device's event is reset, and such an event is never a pure signal.
LEMMA ReadDeviceSignals ==
  ASSUME SignalInv, DispatchInv', NEW e \in Event, ReadDevice(e)
  PROVE  SignalInv'
<1>1. /\ signaled' = [signaled EXCEPT ![e] = FALSE] /\ ~PureSignal(e)
      /\ UNCHANGED <<events, shape, queue, stack, stranded>>
      /\ signaled \in [Event -> BOOLEAN] /\ Created \subseteq Event
  BY MembersOfSeq DEF ReadDevice, PureSignal, SignalInv, DispatchInv, TypeOK, Created
<1>2. \A x \in Event : (signaled'[x] => signaled[x]) /\ (PureSignal(x) => signaled'[x] = signaled[x])
  BY <1>1
<1>3. \A x \in Event : signaled'[x] => x \in Created
  BY <1>2 DEF SignalInv, EventsOK
<1>4. ~MayExhaust => SignalsOK(signaled', queue', stack', stranded')
  BY <1>1, <1>2 DEF SignalInv, SignalsOK
<1>5. LoopsOK(stack')
  BY <1>1 DEF SignalInv
<1>6. StrandedOK(signaled', queue', stack', stranded')
  BY <1>1, <1>2 DEF SignalInv, StrandedOK
<1>7. QED BY <1>1, <1>3, <1>4, <1>5, <1>6, SignalsSuffice

\* Without e the queue holds the events it held but e.
LEMMA DeletedMembers ==
  ASSUME TypeOK, QueueOK(queue), NEW e \in Queued
  PROVE  ToSet(Deleted(queue, e)) = Queued \ {e}
<1> DEFINE i == Index(queue, e)
           r == Deleted(queue, e)
<1>1. queue \in Seq(Event) /\ Len(queue) \in Nat
  BY LenProperties DEF TypeOK
<1>2. i \in 1 .. Len(queue) /\ queue[i] = e
  BY <1>1, IndexFacts DEF Queued
<1> HIDE DEF i
<1>3. r = RemoveAt(queue, i)
  BY DEF Deleted, i
<1> HIDE DEF r
<1>4. /\ r \in Seq(Event) /\ Len(r) = Len(queue) - 1
      /\ \A j \in 1 .. Len(queue) - 1 : r[j] = IF j < i THEN queue[j] ELSE queue[j + 1]
  BY <1>1, <1>2, <1>3, RemoveAtFacts
<1>5. \A x \in Queued : x # e => x \in ToSet(r)
  BY <1>1, <1>2, <1>3, RemovedMembers DEF Queued
<1>6. ASSUME NEW x \in ToSet(r) PROVE x \in Queued /\ x # e
  <2>1. PICK j \in 1 .. Len(queue) - 1 : r[j] = x
    BY <1>4, <1>6, MembersOfSeq
  <2>2. PICK k \in 1 .. Len(queue) : x = queue[k] /\ k # i
    BY <1>1, <1>2, <1>4, <2>1
  <2>3. k < i \/ i < k
    BY <1>2, <2>2
  <2>4. x # e
    BY <1>2, <2>2, <2>3 DEF QueueOK
  <2>5. QED BY <1>1, <2>2, <2>4, MembersOfSeq DEF Queued
<1>7. QED BY <1>5, <1>6 DEF r

\* A pure signal is reset when its node is unlinked, and only then.
LEMMA CallbackReturnSignals ==
  ASSUME SignalInv, DispatchInv', CallbackReturn
  PROVE  SignalInv'
<1> DEFINE c == Top.cur
           s == Front(stack)
<1>1. /\ TypeOK /\ QueueOK(queue) /\ StackOK(stack, queue, tpl) /\ LoopsOK(stack)
      /\ stack # <<>> /\ Top.kind = "run"
  BY DEF SignalInv, DispatchInv, CallbackReturn, TopIs
<1>2. /\ stack \in Seq(Frame) /\ Len(stack) \in 1 .. Len(stack)
      /\ Top = stack[Len(stack)] /\ queue \in Seq(Event) /\ signaled \in [Event -> BOOLEAN]
  BY <1>1, TopFacts DEF TypeOK
<1>3. c \in Queued /\ c \in Event
  BY <1>1, <1>2, MembersOfSeq DEF StackOK, RunFrameOK, Queued
<1>4. /\ queue' = Unlinked(c) /\ signaled' = Reset(c) /\ UNCHANGED <<events, shape, stranded>>
      /\ Dispatched(s)
  BY RunQueueDispatches DEF CallbackReturn
<1>5. \A x : ~Reaches(Top, x)
  BY <1>1 DEF Reaches
<1>6. s \in Seq(Frame) /\ LoopsOK(s) /\ \A x : ComingOn(stack, x) <=> ComingOn(s, x)
  BY <1>1, <1>2, <1>5, PoppedLoop, FrontFacts
<1> HIDE DEF s
<1>7. LoopsOK(stack') /\ \A x : ComingOn(stack, x) <=> ComingOn(stack', x)
  BY <1>4, <1>6, DispatchedLoops
<1>8. \A x \in Event : signaled'[x] <=> signaled[x] /\ ~(x = c /\ PureSignal(c))
  BY <1>2, <1>3, <1>4 DEF Reset
<1>9. ToSet(queue') = IF signaled[c] THEN Queued \ {c} ELSE Queued
  BY <1>1, <1>3, <1>4, DeletedMembers DEF Unlinked, Queued
<1> HIDE DEF c
<1>10. Created \subseteq Event
  BY <1>1, MembersOfSeq DEF TypeOK, Created
<1>11. ASSUME ~MayExhaust, NEW x \in Created, PureSignal(x)
       PROVE  /\ signaled'[x] => x \in ToSet(queue') \/ ComingOn(stack', x) \/ x \in stranded'
              /\ x \in ToSet(queue') /\ shape[x].group = NoGroup => signaled'[x]
  <2>1. /\ signaled[x] => x \in Queued \/ ComingOn(stack, x) \/ x \in stranded
        /\ x \in Queued /\ shape[x].group = NoGroup => signaled[x]
    BY <1>11 DEF SignalInv, SignalsOK, Queued
  <2>2. x \in Event
    BY <1>10
  <2>3. CASE x = c
    BY <1>4, <1>7, <1>8, <1>9, <1>11, <2>1, <2>2, <2>3
  <2>4. CASE x # c
    <3>1. (signaled'[x] <=> signaled[x]) /\ (x \in ToSet(queue') <=> x \in Queued)
      BY <1>8, <1>9, <2>2, <2>4
    <3>2. QED BY <1>4, <1>7, <2>1, <3>1
  <2>5. QED BY <2>3, <2>4
<1>12. ~MayExhaust => SignalsOK(signaled', queue', stack', stranded')
  BY <1>11 DEF SignalsOK
<1>13. \A x \in Event : signaled'[x] => x \in Created
  BY <1>8 DEF SignalInv, EventsOK
<1>14. ASSUME NEW x \in stranded'
       PROVE  signaled'[x] /\ x \notin ToSet(queue') /\ ~ComingOn(stack', x)
  <2>1. x \in Created /\ signaled[x] /\ x \notin Queued /\ ~ComingOn(stack, x)
    BY <1>4, <1>14 DEF SignalInv, StrandedOK, Queued
  <2>2. x \in Event /\ x # c
    BY <1>3, <1>10, <2>1
  <2>3. QED BY <1>7, <1>8, <1>9, <2>1, <2>2
<1>15. StrandedOK(signaled', queue', stack', stranded')
  BY <1>4, <1>14 DEF SignalInv, StrandedOK
<1>16. QED BY <1>4, <1>7, <1>12, <1>13, <1>15, SignalsSuffice

\* The group loop queues the event it leaves behind.
LEMMA GroupNextSignals ==
  ASSUME SignalInv, DispatchInv', GroupNext
  PROVE  SignalInv'
<1> DEFINE e == events[Top.pos]
<1>1. /\ DispatchInv /\ TypeOK /\ LoopsOK(stack) /\ stack # <<>> /\ Top.kind = "group"
      /\ UNCHANGED <<events, shape, signaled, stranded>> /\ events \in Seq(Event)
      /\ EventsOK(signaled)
  BY DEF SignalInv, DispatchInv, GroupNext, TopIs, TypeOK
<1>2. /\ Advanced \in Seq(Frame) /\ LoopsOK(Advanced)
      /\ \A x : ComingOn(stack, x) =>
           ComingOn(Advanced, x) \/ (x = e /\ SameGroup(Top.cur, e))
      /\ \A x : ComingOn(Advanced, x) => ComingOn(stack, x)
  BY <1>1, AdvancedLoops
<1>3. e \in Created
  <2>1. Top.pos \in 1 .. Len(events)
    BY <1>1, TopFacts, LenProperties DEF GroupNext, Frame
  <2>2. QED BY <1>1, <2>1, MembersOfSeq DEF Created
<1>7. SameGroup(Top.cur, e) => ComingOn(stack, e)
  <2>1. /\ Top.pos \in DOMAIN events /\ Top.pos >= Top.pos
        /\ Len(stack) \in 1 .. Len(stack) /\ Top = stack[Len(stack)]
    BY <1>1, TopFacts, LenProperties DEF GroupNext, TypeOK, Frame
  <2>2. SameGroup(Top.cur, e) => Reaches(Top, e)
    BY <1>1, <2>1 DEF Reaches
  <2>3. QED BY <2>1, <2>2 DEF ComingOn
<1> HIDE DEF e
<1>4. CASE SameGroup(Top.cur, e)
  <2>1. AddToQueue(e, Advanced)
    BY <1>4 DEF GroupNext, e
  <2>2. /\ Dispatched(Advanced)
        /\ Queued \subseteq ToSet(queue') /\ ToSet(queue') \subseteq Queued \cup {e}
        /\ shape[e].func /\ ~MayExhaust => e \in ToSet(queue')
    BY <1>1, <1>3, <2>1, AddToQueueAdds
  <2>3. LoopsOK(stack') /\ \A x : ComingOn(Advanced, x) <=> ComingOn(stack', x)
    BY <1>2, <2>2, DispatchedLoops
  <2>4. shape[e].group # NoGroup
    BY <1>4 DEF SameGroup
  <2>5. ASSUME ~MayExhaust, NEW x \in Created, PureSignal(x)
        PROVE  /\ signaled[x] => x \in ToSet(queue') \/ ComingOn(stack', x) \/ x \in stranded'
               /\ x \in ToSet(queue') /\ shape[x].group = NoGroup => signaled[x]
    <3>1. /\ signaled[x] => x \in Queued \/ ComingOn(stack, x) \/ x \in stranded
          /\ x \in Queued /\ shape[x].group = NoGroup => signaled[x]
      BY <2>5 DEF SignalInv, SignalsOK, Queued
    <3>2. shape[x].func
      BY <1>1, <2>5 DEF EventsOK, PureSignal, Notifies
    <3>3. QED BY <1>1, <1>2, <2>2, <2>3, <2>4, <2>5, <3>1, <3>2
  <2>6. ~MayExhaust => SignalsOK(signaled', queue', stack', stranded')
    BY <1>1, <2>5 DEF SignalsOK
  <2>7. \A x \in Event : signaled'[x] => x \in Created
    BY <1>1 DEF EventsOK
  <2>8. ASSUME NEW x \in stranded' PROVE x \notin ToSet(queue') /\ ~ComingOn(stack', x)
    <3>1. x \notin Queued /\ ~ComingOn(stack, x)
      BY <1>1, <2>8 DEF SignalInv, StrandedOK, Queued
    <3>2. x # e
      BY <1>4, <1>7, <3>1
    <3>3. QED BY <1>2, <2>2, <2>3, <3>1, <3>2
  <2>9. StrandedOK(signaled', queue', stack', stranded')
    BY <1>1, <2>8 DEF SignalInv, StrandedOK
  <2>10. QED BY <1>1, <2>3, <2>6, <2>7, <2>9, SignalsSuffice
<1>5. CASE ~SameGroup(Top.cur, e)
  <2>1. stack' = Advanced /\ UNCHANGED queue
    BY <1>5 DEF GroupNext, e
  <2>2. ~MayExhaust => SignalsOK(signaled', queue', stack', stranded')
    BY <1>1, <1>2, <1>5, <2>1 DEF SignalInv, SignalsOK
  <2>3. \A x \in Event : signaled'[x] => x \in Created
    BY <1>1 DEF EventsOK
  <2>4. StrandedOK(signaled', queue', stack', stranded')
    BY <1>1, <1>2, <2>1 DEF SignalInv, StrandedOK
  <2>5. QED BY <1>1, <1>2, <2>1, <2>2, <2>3, <2>4, SignalsSuffice
<1>6. QED BY <1>4, <1>5

\* An installation resets the signal and signals again.
LEMMA InstallNextSignals ==
  ASSUME SignalInv, DispatchInv', InstallNext
  PROVE  SignalInv'
<1> DEFINE e == notifies[Top.pos]
           sig == [signaled EXCEPT ![e] = FALSE]
<1>1. /\ DispatchInv /\ TypeOK /\ LoopsOK(stack) /\ stack # <<>> /\ Top.kind = "install"
      /\ UNCHANGED <<events, shape>> /\ signaled \in [Event -> BOOLEAN]
      /\ notifies \in Seq(Event) /\ ToSet(notifies) \subseteq Created
  BY DEF SignalInv, DispatchInv, InstallNext, TopIs, TypeOK
<1>2. /\ Advanced \in Seq(Frame) /\ LoopsOK(Advanced)
      /\ \A x : ComingOn(stack, x) <=> ComingOn(Advanced, x)
  BY <1>1, AdvancedLoops
<1>3. e \in Created
  <2>1. Top.pos \in 1 .. Len(notifies)
    BY <1>1, TopFacts, LenProperties DEF InstallNext, Frame
  <2>2. QED BY <1>1, <2>1, MembersOfSeq
<1>4. SignalFrom(sig, e, Advanced)
  BY DEF InstallNext
<1> HIDE DEF e
<1>5. /\ sig \in [Event -> BOOLEAN] /\ ~sig[e]
      /\ \A x \in Event : x # e => sig[x] = signaled[x]
  <2>1. e \in Event
    BY <1>1, <1>3, MembersOfSeq DEF Created, TypeOK
  <2>2. QED BY <1>1, <2>1
<1> HIDE DEF sig
<1>6. /\ \A x \in Event : signaled'[x] => x \in Created
      /\ LoopsOK(stack')
      /\ ~MayExhaust => SignalsOK(signaled', queue', stack', stranded')
      /\ StrandedOK(signaled', queue', stack', stranded')
  BY <1>2, <1>3, <1>4, <1>5, SignalFromSignals
<1>7. QED BY <1>1, <1>6, SignalsSuffice

\* A service returns when its loop has nothing left to reach.
LEMMA ReturnSignals ==
  ASSUME SignalInv, DispatchInv', stack # <<>>, stack' = Front(stack),
         \A x : ~Reaches(Top, x), UNCHANGED <<events, shape, queue, stranded>>,
         \A x \in Event : (signaled'[x] => signaled[x])
                          /\ (PureSignal(x) => signaled'[x] = signaled[x])
  PROVE  SignalInv'
<1>1. stack \in Seq(Frame) /\ LoopsOK(stack) /\ Top = stack[Len(stack)]
  BY DEF SignalInv, DispatchInv, TypeOK, Top
<1>2. LoopsOK(stack') /\ \A x : ComingOn(stack, x) <=> ComingOn(stack', x)
  BY <1>1, PoppedLoop
<1>3. Created \subseteq Event
  BY MembersOfSeq DEF SignalInv, DispatchInv, TypeOK, Created
<1>4. ~MayExhaust => SignalsOK(signaled', queue', stack', stranded')
  BY <1>2, <1>3 DEF SignalInv, SignalsOK
<1>5. \A x \in Event : signaled'[x] => x \in Created
  BY DEF SignalInv, EventsOK
<1>6. StrandedOK(signaled', queue', stack', stranded')
  BY <1>2, <1>3 DEF SignalInv, StrandedOK
<1>7. QED BY <1>2, <1>4, <1>5, <1>6, SignalsSuffice

\* A group loop ends when it has passed every event; a program is no loop.
LEMMA LoopEndSignals ==
  ASSUME SignalInv, DispatchInv', LoopEnd \/ ImageReturns
  PROVE  SignalInv'
<1>1. /\ TypeOK /\ stack # <<>> /\ stack' = Front(stack)
      /\ UNCHANGED <<events, shape, signaled, queue, stranded>>
      /\ Top.kind = "group" => Top.pos > Len(events)
  BY DEF SignalInv, DispatchInv, LoopEnd, ImageReturns, TopIs
<1>2. \A k \in DOMAIN events : Top.kind = "group" => ~(k >= Top.pos)
  <2>1. DOMAIN events = 1 .. Len(events) /\ Len(events) \in Nat /\ Top.pos \in Nat
    BY <1>1, TopFacts, LenProperties DEF TypeOK, Frame
  <2>2. QED BY <1>1, <2>1
<1>3. \A x : ~Reaches(Top, x)
  BY <1>2 DEF Reaches
<1>4. QED BY <1>1, <1>3, ReturnSignals

\* What a loop that Exit cuts was still to reach is lost, and nothing else.
LEMMA ExitSignals ==
  ASSUME SignalInv, DispatchInv', Exit
  PROVE  SignalInv'
<1>1. /\ stack \in Seq(Frame) /\ LoopsOK(stack)
      /\ UNCHANGED <<events, shape, signaled, queue>>
  BY DEF SignalInv, DispatchInv, TypeOK, Exit
<1>2. PICK n \in 0 .. Len(stack) - 1 : stack' = SubSeq(stack, 1, n)
  BY DEF Exit
<1>3. n \in 0 .. Len(stack)
  BY <1>1, LenProperties
<1>4. LoopsOK(stack') /\ \A x : ComingOn(stack', x) => ComingOn(stack, x)
  BY <1>1, <1>2, <1>3, PrefixLoops
<1>5. stranded' = stranded \cup
        {x \in Created : /\ PureSignal(x) /\ signaled[x] /\ x \notin Queued
                         /\ ComingOn(stack, x) /\ ~ComingOn(stack', x)}
  BY DEF Exit, Coming
<1>6. ~MayExhaust => SignalsOK(signaled', queue', stack', stranded')
  BY <1>1, <1>5 DEF SignalInv, SignalsOK, Queued
<1>7. StrandedOK(signaled', queue', stack', stranded')
  BY <1>1, <1>4, <1>5 DEF SignalInv, StrandedOK, Queued
<1>8. \A x \in Event : signaled'[x] => x \in Created
  BY <1>1 DEF SignalInv, EventsOK
<1>9. QED BY <1>1, <1>4, <1>6, <1>7, <1>8, SignalsSuffice

\* What is waited for is not a pure signal.
LEMMA WaitEnqueueSignals ==
  ASSUME SignalInv, DispatchInv', WaitEnqueue
  PROVE  SignalInv'
<1> DEFINE e == Top.evs[Top.pos]
<1>1. /\ DispatchInv /\ TypeOK /\ LoopsOK(stack) /\ stack # <<>> /\ Top.kind = "wait"
      /\ UNCHANGED <<events, shape, signaled, stranded>> /\ EventsOK(signaled)
  BY DEF SignalInv, DispatchInv, WaitEnqueue, TopIs
<1>2. \A x : ~Reaches(Top, x)
  BY <1>1 DEF Reaches
<1>3. CASE ~Waitable(e)
  <2>1. stack' = Front(stack) /\ UNCHANGED queue
    BY <1>3 DEF WaitEnqueue
  <2>2. QED BY <1>1, <1>2, <2>1, ReturnSignals
<1>4. CASE Waitable(e)
  <2>1. e \in Created /\ ~PureSignal(e)
    BY <1>4 DEF Waitable, PureSignal, Notifies
  <2>2. Top.pos \in DOMAIN Top.evs
    BY <1>1, TopFacts, LenProperties DEF WaitEnqueue, Frame
  <2>3. /\ Advanced \in Seq(Frame) /\ LoopsOK(Advanced)
        /\ \A x : ComingOn(stack, x) <=> ComingOn(Advanced, x)
    BY <1>1, <2>1, <2>2, AdvancedLoops
  <2>4. \/ stack' = Advanced /\ UNCHANGED queue
        \/ AddToQueue(e, Advanced)
    BY <1>4 DEF WaitEnqueue
  <2> HIDE DEF e
  <2>5. /\ Dispatched(Advanced)
        /\ Queued \subseteq ToSet(queue') /\ ToSet(queue') \subseteq Queued \cup {e}
    BY <1>1, <2>1, <2>4, AddToQueueAdds DEF Dispatched, Queued
  <2>6. LoopsOK(stack') /\ \A x : ComingOn(Advanced, x) <=> ComingOn(stack', x)
    BY <2>3, <2>5, DispatchedLoops
  <2>7. ASSUME ~MayExhaust, NEW x \in Created, PureSignal(x)
        PROVE  /\ signaled[x] => x \in ToSet(queue') \/ ComingOn(stack', x) \/ x \in stranded'
               /\ x \in ToSet(queue') /\ shape[x].group = NoGroup => signaled[x]
    <3>1. /\ signaled[x] => x \in Queued \/ ComingOn(stack, x) \/ x \in stranded
          /\ x \in Queued /\ shape[x].group = NoGroup => signaled[x]
      BY <2>7 DEF SignalInv, SignalsOK, Queued
    <3>2. x # e
      BY <2>1, <2>7
    <3>3. QED BY <1>1, <2>3, <2>5, <2>6, <3>1, <3>2
  <2>8. ~MayExhaust => SignalsOK(signaled', queue', stack', stranded')
    BY <1>1, <2>7 DEF SignalsOK
  <2>9. \A x \in Event : signaled'[x] => x \in Created
    BY <1>1 DEF EventsOK
  <2>10. ASSUME NEW x \in stranded' PROVE x \notin ToSet(queue') /\ ~ComingOn(stack', x)
    <3>1. PureSignal(x) /\ x \notin Queued /\ ~ComingOn(stack, x)
      BY <1>1, <2>10 DEF SignalInv, StrandedOK, Queued
    <3>2. x # e
      BY <2>1, <3>1
    <3>3. QED BY <2>3, <2>5, <2>6, <3>1, <3>2
  <2>11. StrandedOK(signaled', queue', stack', stranded')
    BY <1>1, <2>10 DEF SignalInv, StrandedOK
  <2>12. QED BY <1>1, <2>6, <2>8, <2>9, <2>11, SignalsSuffice
<1>5. QED BY <1>3, <1>4

\* WaitForEvent resets the event it returns for, which it has let pass before.
LEMMA WaitReturnSignals ==
  ASSUME SignalInv, DispatchInv', WaitReturn
  PROVE  SignalInv'
<1>1. /\ TypeOK /\ LoopsOK(stack) /\ stack # <<>> /\ stack' = Front(stack)
      /\ UNCHANGED <<events, shape, queue, stranded>> /\ Top.kind = "wait" /\ Top.pos > Len(Top.evs)
  BY DEF SignalInv, DispatchInv, WaitReturn, Polling, TopIs
<1>2. PICK i \in DOMAIN Top.evs : signaled' = [signaled EXCEPT ![Top.evs[i]] = FALSE]
  BY DEF WaitReturn
<1>3. i < Top.pos /\ LoopOK(Top)
  <2>1. /\ Top \in Frame /\ Top.pos \in Nat /\ DOMAIN Top.evs = 1 .. Len(Top.evs)
        /\ Len(Top.evs) \in Nat /\ Len(stack) \in 1 .. Len(stack) /\ Top = stack[Len(stack)]
    BY <1>1, TopFacts, LenProperties DEF Frame
  <2>2. QED BY <1>1, <1>2, <2>1 DEF LoopsOK
<1>4. Top.evs[i] \in Created /\ ~PureSignal(Top.evs[i])
  BY <1>1, <1>2, <1>3 DEF LoopOK
<1>5. signaled \in [Event -> BOOLEAN]
  BY <1>1 DEF TypeOK
<1>6. \A x \in Event : (signaled'[x] => signaled[x])
                       /\ (PureSignal(x) => signaled'[x] = signaled[x])
  BY <1>2, <1>4, <1>5
<1>7. \A x : ~Reaches(Top, x)
  BY <1>1 DEF Reaches
<1>8. QED BY <1>1, <1>6, <1>7, ReturnSignals

\* Nothing is signalled at first.
LEMMA InitSignalInv ==
  ASSUME Init
  PROVE  SignalInv
<1>1. DispatchInv
  BY InitDispatchInv
<1>2. Created = {} /\ Len(stack) = 0 /\ stranded = {} /\ \A e \in Event : ~signaled[e]
  BY DEF Init, Created, ToSet
<1>3. QED BY <1>1, <1>2 DEF SignalInv, EventsOK, LoopsOK, SignalsOK, StrandedOK

\* Every step keeps the invariant.
LEMMA NextSignalInv ==
  ASSUME SignalInv, [Next]_vars
  PROVE  SignalInv'
<1>1. DispatchInv'
  BY NextDispatchInv DEF SignalInv
<1>2. CASE Client
  <2>1. ASSUME NEW e \in Event, NEW r \in Request, CreateEvent(e, r) PROVE SignalInv'
    BY <1>1, <2>1, CreateEventSignals
  <2>2. ASSUME \/ \E r \in Request : CreateEventExhausted(r) \/ RefuseCreateEvent(r)
               \/ \E e \in Event : RefuseEvent(e) \/ RegisterExhausted(e)
                                   \/ RegisterProtocolNotify(e)
               \/ CloseEvent \/ CheckEvent \/ SetTimer
               \/ \E t \in TplArg : RaiseTPL(t)
        PROVE  SignalInv'
    <3>1. UNCHANGED <<events, shape, signaled, queue, stack, stranded>>
      BY <2>2 DEF CreateEventExhausted, RefuseCreateEvent, RefuseEvent, RegisterExhausted,
        RegisterProtocolNotify, CloseEvent, CheckEvent, SetTimer, NotReady, RaiseTPL, vars
    <3>2. QED BY <1>1, <3>1, QuietSignals
  <2>3. ASSUME NEW e \in Event, SignalEvent(e) PROVE SignalInv'
    BY <1>1, <2>3, SignalEventSignals
  <2>4. ASSUME NEW es \in WaitList, WaitForEvent(es) PROVE SignalInv'
    BY <1>1, <2>4, WaitForEventSignals
  <2>5. ASSUME (\E t \in TplArg : RestoreTPL(t)) \/ Stall PROVE SignalInv'
    <3>1. UNCHANGED <<events, shape, signaled, queue, stranded>> /\ Dispatched(stack)
      BY <2>5, RunQueueDispatches DEF RestoreTPL, Stall, TimerRun
    <3>2. QED BY <1>1, <3>1, DispatchSignals
  <2>6. ASSUME NEW e \in Event, ReadDevice(e) PROVE SignalInv'
    BY <1>1, <2>6, ReadDeviceSignals
  <2>7. ASSUME InstallProtocol \/ StartImage PROVE SignalInv'
    BY <1>1, <2>7, BeginSignals
  <2>8. ASSUME ImageReturns \/ Exit PROVE SignalInv'
    BY <1>1, <2>8, LoopEndSignals, ExitSignals
  <2>9. QED BY <1>2, <2>1, <2>2, <2>3, <2>4, <2>5, <2>6, <2>7, <2>8 DEF Client
<1>3. CASE CallbackReturn
  BY <1>1, <1>3, CallbackReturnSignals
<1>4. CASE Internal
  <2>1. ASSUME WaitPoll PROVE SignalInv'
    <3>1. UNCHANGED <<events, shape, signaled, queue, stranded>> /\ Dispatched(stack)
      BY <2>1, RunQueueDispatches DEF WaitPoll, TimerRun
    <3>2. QED BY <1>1, <3>1, DispatchSignals
  <2>2. QED BY <1>1, <1>4, <2>1, GroupNextSignals, InstallNextSignals, LoopEndSignals,
               WaitEnqueueSignals, WaitReturnSignals DEF Internal
<1>5. CASE UNCHANGED vars
  BY <1>1, <1>5, QuietSignals DEF vars
<1>6. QED BY <1>2, <1>3, <1>4, <1>5 DEF Next

\* What the loops hold and the signals mean, in every state
THEOREM SignalInvariant == Spec => []SignalInv
  BY InitSignalInv, NextSignalInv, PTL DEF Spec

\* However calls nest and wherever a program exits, a signalled EVT_NOTIFY_SIGNAL
\* event is queued, or a loop over its group is still to reach it, so that
\* SignalEvent may ignore it; else Exit cut that loop, and it is not queued until
\* its group is signalled again.
THEOREM NoSignalIsLost == Spec => []NoLostSignal
<1>1. SignalInv => NoLostSignal
  BY DEF SignalInv, SignalsOK, StrandedOK, NoLostSignal, Queued, Coming
<1>2. QED BY <1>1, SignalInvariant, PTL

-----------------------------------------------------------------------------
(* The order of events of one level *)

\* What FirstComeFirstServed asks of a step from list q to list r
OrderKept(q, r) ==
  \A e \in ToSet(q), f \in ToSet(r) :
    /\ e \in ToSet(r) /\ f \in ToSet(q) /\ Index(q, e) < Index(q, f)
         => Index(r, e) < Index(r, f)
    /\ e \in ToSet(r) /\ f \notin ToSet(q) /\ Level(e) >= Level(f)
         => Index(r, e) < Index(r, f)

\* A step that adds no event and keeps the positions in order keeps the order.
LEMMA PositionsKeepOrder ==
  ASSUME NEW q \in Seq(Event), NEW r \in Seq(Event), ToSet(r) \subseteq ToSet(q),
         \A i, j \in 1 .. Len(q) : q[i] = q[j] => i = j,
         NEW from, \A i \in 1 .. Len(r) : from[i] \in 1 .. Len(q) /\ r[i] = q[from[i]],
         \A i, j \in 1 .. Len(r) : from[i] < from[j] => i < j
  PROVE  OrderKept(q, r)
<1> SUFFICES ASSUME NEW e \in ToSet(r), NEW f \in ToSet(r), Index(q, e) < Index(q, f)
             PROVE  Index(r, e) < Index(r, f)
  BY DEF OrderKept
<1>1. /\ Index(r, e) \in 1 .. Len(r) /\ r[Index(r, e)] = e
      /\ Index(r, f) \in 1 .. Len(r) /\ r[Index(r, f)] = f
  BY IndexFacts
<1>2. /\ Index(q, e) \in 1 .. Len(q) /\ q[Index(q, e)] = e
      /\ Index(q, f) \in 1 .. Len(q) /\ q[Index(q, f)] = f
  BY IndexFacts
<1>3. from[Index(r, e)] = Index(q, e) /\ from[Index(r, f)] = Index(q, f)
  BY <1>1, <1>2
<1>4. QED BY <1>1, <1>3

\* An ordered list repeats nothing.
LEMMA ListInjective ==
  ASSUME NEW q \in Seq(Event), QueueOK(q)
  PROVE  \A i, j \in 1 .. Len(q) : q[i] = q[j] => i = j
<1>1. ASSUME NEW i \in 1 .. Len(q), NEW j \in 1 .. Len(q), q[i] = q[j] PROVE i = j
  <2>1. ~(i < j) /\ ~(j < i)
    BY <1>1 DEF QueueOK
  <2>2. i \in Nat /\ j \in Nat
    BY LenProperties
  <2>3. QED BY <2>1, <2>2
<1>2. QED BY <1>1

\* A new node is put behind all nodes of its level and higher ones.
LEMMA InsertOrder ==
  ASSUME TypeOK, QueueOK(queue), NEW e \in Created, e \notin Queued,
         NEW i \in 1 .. Len(queue) + 1, InsertPos(queue, e, i)
  PROVE  OrderKept(queue, InsertAt(queue, i, e))
<1> DEFINE r == InsertAt(queue, i, e)
<1>1. queue \in Seq(Event) /\ Len(queue) \in Nat /\ e \in Event
  BY LenProperties, MembersOfSeq DEF TypeOK, Created
<1>2. /\ r \in Seq(Event) /\ Len(r) = Len(queue) + 1
      /\ \A j \in 1 .. Len(queue) + 1 :
           r[j] = IF j < i THEN queue[j] ELSE IF j = i THEN e ELSE queue[j - 1]
  BY ONLY <1>1, i \in 1 .. Len(queue) + 1, InsertAtFacts
<1>3. ToSet(r) = Queued \cup {e}
  BY <1>1, InsertedMembers DEF Queued
<1> HIDE DEF r
<1>4. \A a, b \in 1 .. Len(queue) : queue[a] = queue[b] => a = b
  BY <1>1, ListInjective
\* Where the node of x of the old list is in the new one
<1>5. ASSUME NEW x \in Queued
      PROVE  Index(r, x) = IF Index(queue, x) < i THEN Index(queue, x) ELSE Index(queue, x) + 1
  <2>1. /\ Index(queue, x) \in 1 .. Len(queue) /\ queue[Index(queue, x)] = x
        /\ Index(r, x) \in 1 .. Len(r) /\ r[Index(r, x)] = x /\ x # e
    BY <1>1, <1>2, <1>3, IndexFacts DEF Queued
  <2>2. CASE Index(r, x) < i
    <3>1. Index(r, x) \in 1 .. Len(queue) /\ queue[Index(r, x)] = x
      BY <1>1, <1>2, <2>1, <2>2
    <3>2. Index(r, x) = Index(queue, x)
      BY <1>4, <2>1, <3>1
    <3>3. QED BY <2>2, <3>2
  <2>3. CASE Index(r, x) > i
    <3>1. Index(r, x) - 1 \in 1 .. Len(queue) /\ queue[Index(r, x) - 1] = x
      BY <1>1, <1>2, <2>1, <2>3
    <3>2. Index(r, x) - 1 = Index(queue, x)
      BY <1>4, <2>1, <3>1
    <3>3. QED BY <1>1, <2>1, <2>3, <3>2
  <2>4. Index(r, x) # i
    BY <1>1, <1>2, <2>1
  <2>5. QED BY <1>1, <1>2, <2>1, <2>2, <2>3, <2>4
<1>6. Index(r, e) = i
  <2>1. Index(r, e) \in 1 .. Len(r) /\ r[Index(r, e)] = e
    BY <1>2, <1>3, IndexFacts
  <2>2. CASE Index(r, e) < i
    <3>1. Index(r, e) \in 1 .. Len(queue) /\ queue[Index(r, e)] = e
      BY <1>1, <1>2, <2>1, <2>2
    <3>2. QED BY <1>1, <3>1, MembersOfSeq DEF Queued
  <2>3. CASE Index(r, e) > i
    <3>1. Index(r, e) - 1 \in 1 .. Len(queue) /\ queue[Index(r, e) - 1] = e
      BY <1>1, <1>2, <2>1, <2>3
    <3>2. QED BY <1>1, <3>1, MembersOfSeq DEF Queued
  <2>4. QED BY <1>1, <1>2, <2>1, <2>2, <2>3
<1>7. ASSUME NEW x \in Queued, NEW y \in Queued, Index(queue, x) < Index(queue, y)
      PROVE  Index(r, x) < Index(r, y)
  <2>1. Index(queue, x) \in 1 .. Len(queue) /\ Index(queue, y) \in 1 .. Len(queue)
    BY <1>1, IndexFacts DEF Queued
  <2>2. Index(queue, x) \in Nat /\ Index(queue, y) \in Nat /\ i \in Nat
    BY <1>1, <2>1
  <2> DEFINE a == Index(queue, x)
             b == Index(queue, y)
             c == Index(r, x)
             d == Index(r, y)
  <2>3. c = (IF a < i THEN a ELSE a + 1) /\ d = (IF b < i THEN b ELSE b + 1) /\ a < b
    BY <1>5, <1>7
  <2> HIDE DEF a, b, c, d
  <2>4. c < d
    BY <2>2, <2>3 DEF a, b
  <2>5. QED BY <2>4 DEF c, d
<1>8. ASSUME NEW x \in Queued, Level(x) >= Level(e) PROVE Index(r, x) < i
  <2>1. Index(queue, x) \in 1 .. Len(queue) /\ queue[Index(queue, x)] = x
    BY <1>1, IndexFacts DEF Queued
  <2>2. Level(x) \in Nat /\ Level(e) \in Nat
    BY <1>1, MembersOfSeq, LevelType DEF Queued
  <2>3. SUFFICES ASSUME ~(Index(queue, x) < i) PROVE FALSE
    BY <1>5
  <2>4. i \in 1 .. Len(queue) /\ Level(queue[i]) < Level(e)
    BY <1>1, <2>1, <2>3 DEF InsertPos
  <2>5. Level(queue[i]) \in Nat
    BY <1>1, <2>4, MembersOfSeq, LevelType
  <2>6. Level(queue[i]) >= Level(x)
    <3>1. CASE i = Index(queue, x)
      BY <2>1, <2>2, <3>1
    <3>2. CASE i < Index(queue, x)
      BY <2>1, <2>4, <3>2 DEF QueueOK
    <3>3. QED BY <2>1, <2>3, <2>4, <3>1, <3>2
  <2>7. QED BY <1>8, <2>2, <2>4, <2>5, <2>6
<1>9. ASSUME NEW x \in Queued, NEW y \in ToSet(r)
      PROVE  /\ x \in ToSet(r) /\ y \in Queued /\ Index(queue, x) < Index(queue, y)
                  => Index(r, x) < Index(r, y)
             /\ x \in ToSet(r) /\ y \notin Queued /\ Level(x) >= Level(y)
                  => Index(r, x) < Index(r, y)
  <2>1. y \notin Queued => y = e
    BY <1>3
  <2>2. QED BY <1>6, <1>7, <1>8, <2>1
<1>10. QED BY <1>9 DEF OrderKept, Queued, r

\* A deletion moves the nodes behind it up.
LEMMA DeleteOrder ==
  ASSUME TypeOK, QueueOK(queue), NEW e \in Queued
  PROVE  OrderKept(queue, Deleted(queue, e))
<1> DEFINE i == Index(queue, e)
           r == Deleted(queue, e)
<1>1. queue \in Seq(Event) /\ Len(queue) \in Nat
  BY LenProperties DEF TypeOK
<1>2. i \in 1 .. Len(queue)
  BY <1>1, IndexFacts DEF Queued
<1> HIDE DEF i
<1>3. r = RemoveAt(queue, i)
  BY DEF Deleted, i
<1>4. ToSet(r) \subseteq ToSet(queue)
  BY DeletedMembers DEF Queued
<1> HIDE DEF r
<1>5. /\ r \in Seq(Event) /\ Len(r) = Len(queue) - 1
      /\ \A j \in 1 .. Len(queue) - 1 : r[j] = IF j < i THEN queue[j] ELSE queue[j + 1]
  BY <1>1, <1>2, <1>3, RemoveAtFacts
<1> DEFINE from == [j \in 1 .. Len(r) |-> IF j < i THEN j ELSE j + 1]
<1>6. \A j \in 1 .. Len(r) : from[j] = IF j < i THEN j ELSE j + 1
  OBVIOUS
<1> HIDE DEF from
<1>7. \A j \in 1 .. Len(r) : from[j] \in 1 .. Len(queue) /\ r[j] = queue[from[j]]
  BY <1>1, <1>2, <1>5, <1>6
<1>8. \A j, k \in 1 .. Len(r) : from[j] < from[k] => j < k
  BY <1>1, <1>2, <1>5, <1>6
<1>9. \A a, b \in 1 .. Len(queue) : queue[a] = queue[b] => a = b
  BY <1>1, ListInjective
<1>10. QED BY <1>1, <1>4, <1>5, <1>7, <1>8, <1>9, PositionsKeepOrder DEF r

\* A step that leaves the list alone
LEMMA SameOrder ==
  ASSUME NEW q \in Seq(Event), QueueOK(q)
  PROVE  OrderKept(q, q)
  BY DEF OrderKept

\* No step but the insertion of efi_add_event_queue and the deletion after a
\* function returned changes the queue.
LEMMA AddToQueueOrder ==
  ASSUME DispatchInv, NEW e \in Created, NEW s, AddToQueue(e, s)
  PROVE  OrderKept(queue, queue')
<1>1. TypeOK /\ QueueOK(queue) /\ queue \in Seq(Event)
  BY DEF DispatchInv, TypeOK
<1>2. CASE /\ shape[e].func /\ e \notin Queued
           /\ \E i \in 1 .. Len(queue) + 1 :
                InsertPos(queue, e, i) /\ queue' = InsertAt(queue, i, e)
           /\ RunQueue(queue', First(queue'), tpl, s)
  <2>1. PICK i \in 1 .. Len(queue) + 1 :
          InsertPos(queue, e, i) /\ queue' = InsertAt(queue, i, e)
    BY <1>2
  <2>2. QED BY <1>1, <1>2, <2>1, InsertOrder
<1>3. CASE UNCHANGED queue
  BY <1>1, <1>3, SameOrder
<1>4. QED BY <1>2, <1>3 DEF AddToQueue

\* SignalEvent queues one event at most itself.
LEMMA SignalFromOrder ==
  ASSUME DispatchInv, NEW e \in Created, NEW sig, NEW s, SignalFrom(sig, e, s)
  PROVE  OrderKept(queue, queue')
<1>1. QueueOK(queue) /\ queue \in Seq(Event)
  BY DEF DispatchInv, TypeOK
<1>2. UNCHANGED queue \/ AddToQueue(e, s)
  BY DEF SignalFrom
<1>3. QED BY <1>1, <1>2, SameOrder, AddToQueueOrder

\* Every step keeps the order.
LEMMA NextOrder ==
  ASSUME DispatchInv, [Next]_vars
  PROVE  OrderKept(queue, queue')
<1>1. TypeOK /\ QueueOK(queue) /\ queue \in Seq(Event) /\ events \in Seq(Event)
      /\ notifies \in Seq(Event) /\ ToSet(notifies) \subseteq Created
  BY DEF DispatchInv, TypeOK
<1>2. CASE UNCHANGED queue
  BY <1>1, <1>2, SameOrder
<1>3. ASSUME NEW e \in Event, SignalEvent(e) PROVE OrderKept(queue, queue')
  BY <1>3, SignalFromOrder DEF SignalEvent
<1>4. CASE CallbackReturn
  <2>1. Top.cur \in Queued
    BY <1>1, <1>4, TopFacts DEF DispatchInv, CallbackReturn, TopIs, StackOK, RunFrameOK, Queued
  <2>2. queue' = queue \/ queue' = Deleted(queue, Top.cur)
    BY <1>4 DEF CallbackReturn, Unlinked
  <2>3. QED BY <1>1, <1>2, <2>1, <2>2, DeleteOrder
<1>5. CASE GroupNext
  <2>1. Top.pos \in 1 .. Len(events)
    BY <1>1, <1>5, TopFacts, LenProperties DEF GroupNext, TopIs, Frame
  <2>2. events[Top.pos] \in Created
    BY <1>1, <2>1, MembersOfSeq DEF Created
  <2>3. UNCHANGED queue \/ AddToQueue(events[Top.pos], Advanced)
    BY <1>5 DEF GroupNext
  <2>4. QED BY <1>2, <2>2, <2>3, AddToQueueOrder
<1>6. CASE InstallNext
  <2>1. Top.pos \in 1 .. Len(notifies)
    BY <1>1, <1>6, TopFacts, LenProperties DEF InstallNext, TopIs, Frame
  <2>2. notifies[Top.pos] \in Created
    BY <1>1, <2>1, MembersOfSeq
  <2>3. QED BY <1>6, <2>2, SignalFromOrder DEF InstallNext
<1>7. CASE WaitEnqueue
  <2>1. \/ UNCHANGED queue
        \/ Waitable(Top.evs[Top.pos]) /\ AddToQueue(Top.evs[Top.pos], Advanced)
    BY <1>7 DEF WaitEnqueue
  <2>2. QED BY <1>2, <2>1, AddToQueueOrder DEF Waitable
<1>8. CASE Client
  <2>1. UNCHANGED queue \/ \E e \in Event : SignalEvent(e)
    BY <1>8 DEF Client, CreateEvent, CreateEventExhausted, RefuseCreateEvent, RefuseEvent,
      WaitForEvent, CloseEvent, CheckEvent, SetTimer, NotReady, RaiseTPL, RestoreTPL, Stall,
      ReadDevice, RegisterProtocolNotify, RegisterExhausted, InstallProtocol,
      StartImage, ImageReturns, Exit, vars
  <2>2. QED BY <1>2, <1>3, <2>1
<1>9. CASE LoopEnd \/ WaitReturn \/ WaitPoll
  BY <1>2, <1>9 DEF LoopEnd, WaitReturn, WaitPoll
<1>10. QED BY <1>2, <1>4, <1>5, <1>6, <1>7, <1>8, <1>9 DEF Next, Internal, vars

\* No step of any call lets an event pass another of its level that was queued
\* before it, and a new one is put behind all of its level.
THEOREM ServedInOrder == Spec => FirstComeFirstServed
<1>1. DispatchInv /\ [Next]_vars =>
        \A e \in Queued, f \in Queued' :
          /\ e \in Queued' /\ f \in Queued /\ Index(queue, e) < Index(queue, f)
               => Index(queue', e) < Index(queue', f)
          /\ e \in Queued' /\ f \notin Queued /\ Level(e) >= Level(f)
               => Index(queue', e) < Index(queue', f)
  BY NextOrder DEF OrderKept, Queued
<1>2. QED BY <1>1, DispatchInvariant, PTL DEF Spec, FirstComeFirstServed

=============================================================================
