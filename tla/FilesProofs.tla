---------------------------- MODULE FilesProofs ----------------------------
(***************************************************************************)
(* Proofs that file objects and descriptors live exactly as long as        *)
(* somebody holds them and that listings are complete, for every number of *)
(* objects and descriptors, every tree and every depth of opened objects.  *)
(*                                                                         *)
(* The invariant counts who keeps an object while a close is under way     *)
(* too: the program, the objects opened through it and the object whose    *)
(* close goes on with it.  Every step of a close before the last one frees *)
(* an object, so it ends within as many steps as there are objects.        *)
(*                                                                         *)
(* At the end come positions and contents of open files (FileData).        *)
(***************************************************************************)
EXTENDS Files, FileData, Lemmas

(* What the calls keep *)

\* A file object is a record with these fields.
IsFile(x) ==
  x = [live |-> x.live, leaked |-> x.leaked, path |-> x.path, folder |-> x.folder, parent |-> x.parent,
       refcnt |-> x.refcnt, fd |-> x.fd, top |-> x.top, read |-> x.read,
       buffer |-> x.buffer, due |-> x.due]

\* A state on which the calls work has these.
IsCall(s) == s = [objs |-> s.objs, fds |-> s.fds, got |-> s.got, at |-> s.at]

\* All objects are such records.
AreFiles(o) ==
  /\ o = [h \in Objects |-> o[h]]
  /\ \A h \in Objects : IsFile(o[h]) /\ o[h].live \in BOOLEAN /\ o[h].refcnt \in Nat

\* The objects that are in use
LiveIn(o) == {h \in Objects : o[h].live}

\* The objects opened through h
Children(o, h) == {g \in LiveIn(o) : o[g].parent = h}

\* What counts once
One(b) == IF b THEN 1 ELSE 0

\* Every object counts those opened through it, whoever holds it of hold, and the
\* one that closes it right now, at.
Counts(o, hold, at) ==
  /\ hold \subseteq LiveIn(o) /\ at \in LiveIn(o) \cup {NIL}
  /\ \A h \in LiveIn(o) :
       /\ o[h].refcnt = Cardinality(Children(o, h)) + One(h \in hold) + One(h = at)
       /\ o[h].refcnt > 0
       /\ o[h].parent \in LiveIn(o) \cup {NIL}

\* Objects and descriptors belong together, but for those in forgot.
Descriptors(o, f, forgot) ==
  /\ DOMAIN f \subseteq Fds /\ forgot \subseteq DOMAIN f
  /\ \A h \in LiveIn(o) : o[h].fd \in DOMAIN f \ forgot /\ f[o[h].fd] = o[h].path
  /\ \A g, h \in LiveIn(o) : o[g].fd = o[h].fd => g = h
  /\ DOMAIN f = forgot \cup {o[h].fd : h \in LiveIn(o)}

\* Both: hold are the objects the program holds, at the one whose close is under way.
Kept(o, f, hold, forgot, at) ==
  AreFiles(o) /\ Counts(o, hold, at) /\ Descriptors(o, f, forgot)

\* The objects of p are objects of o, the same but for their counts.
SameFiles(o, p) ==
  /\ LiveIn(p) \subseteq LiveIn(o)
  /\ \A h \in LiveIn(p) :
       /\ p[h].path = o[h].path /\ p[h].folder = o[h].folder /\ p[h].parent = o[h].parent
       /\ p[h].fd = o[h].fd /\ p[h].top = o[h].top
       /\ p[h].read = o[h].read /\ p[h].buffer = o[h].buffer /\ p[h].due = o[h].due

-----------------------------------------------------------------------------
(* Closing *)

\* Sets of objects can be counted.
LEMMA Countable ==
  ASSUME NEW S, S \subseteq Objects
  PROVE  IsFiniteSet(S) /\ Cardinality(S) \in Nat /\ Cardinality(S) <= Cardinality(Objects)
         /\ Cardinality(Objects) \in Nat /\ (Cardinality(S) = 0 <=> S = {})
<1>1. IsFiniteSet(Objects)
  BY ObjectsAssumption
<1>2. IsFiniteSet(S) /\ Cardinality(S) <= Cardinality(Objects)
  BY <1>1, FS_Subset
<1>3. QED BY <1>1, <1>2, FS_CardinalityType, FS_EmptySet

\* A set of objects without one of them has one less.
LEMMA OneLess ==
  ASSUME NEW S, S \subseteq Objects, NEW x \in S
  PROVE  Cardinality(S \ {x}) = Cardinality(S) - 1
  BY Countable, FS_RemoveElement

\* And with another one it has one more.
LEMMA OneMore ==
  ASSUME NEW S, S \subseteq Objects, NEW x, x \notin S
  PROVE  Cardinality(S \cup {x}) = Cardinality(S) + 1
  BY Countable, FS_AddElement

\* The object x is counted down.
Lower(o, x) == [o EXCEPT ![x].refcnt = @ - 1]

\* Nothing but its count changes.
LEMMA LowerIs ==
  ASSUME NEW o, AreFiles(o), NEW x \in Objects, o[x].refcnt > 0
  PROVE  /\ AreFiles(Lower(o, x)) /\ SameFiles(o, Lower(o, x)) /\ LiveIn(Lower(o, x)) = LiveIn(o)
         /\ \A h \in Objects : Lower(o, x)[h].refcnt = IF h = x THEN o[h].refcnt - 1 ELSE o[h].refcnt
         /\ \A h \in Objects : Lower(o, x)[h].parent = o[h].parent
<1> DEFINE p == Lower(o, x)
           w == [o[x] EXCEPT !.refcnt = @ - 1]
           n == o[x].refcnt - 1
<1>1. n \in Nat
  BY DEF AreFiles
<1>2. /\ w.live = o[x].live /\ w.path = o[x].path /\ w.folder = o[x].folder
      /\ w.parent = o[x].parent /\ w.refcnt = n /\ w.fd = o[x].fd /\ w.top = o[x].top
      /\ w.read = o[x].read /\ w.buffer = o[x].buffer /\ w.due = o[x].due
      /\ IsFile(w)
  <2>1. IsFile(o[x])
    BY DEF AreFiles
  <2> HIDE DEF n
  <2>2. QED BY <2>1 DEF IsFile, n
<1>3. p = [h \in Objects |-> IF h = x THEN w ELSE o[h]]
  BY DEF Lower, AreFiles
<1> HIDE DEF w, n, p
<1>4. p[x] = w /\ \A h \in Objects : h # x => p[h] = o[h]
  BY <1>3
<1>5. AreFiles(p)
  <2>1. p = [h \in Objects |-> p[h]]
    BY <1>3
  <2>2. \A h \in Objects : IsFile(p[h])
    BY <1>2, <1>4 DEF AreFiles
  <2>3. \A h \in Objects : p[h].live \in BOOLEAN
    BY <1>2, <1>4 DEF AreFiles
  <2>4. \A h \in Objects : p[h].refcnt \in Nat
    BY <1>1, <1>2, <1>4 DEF AreFiles
  <2>5. QED BY <2>1, <2>2, <2>3, <2>4 DEF AreFiles
<1>6. LiveIn(p) = LiveIn(o)
  BY <1>2, <1>4 DEF LiveIn
<1>7. SameFiles(o, p)
  <2>1. \A h \in Objects : /\ p[h].path = o[h].path /\ p[h].folder = o[h].folder /\ p[h].parent = o[h].parent
       /\ p[h].fd = o[h].fd /\ p[h].top = o[h].top
       /\ p[h].read = o[h].read /\ p[h].buffer = o[h].buffer /\ p[h].due = o[h].due
    BY <1>2, <1>4
  <2>2. QED BY <1>6, <2>1 DEF SameFiles, LiveIn
<1>8. \A h \in Objects : p[h].refcnt = IF h = x THEN o[h].refcnt - 1 ELSE o[h].refcnt
  BY <1>2, <1>4 DEF n
<1>9. \A h \in Objects : p[h].parent = o[h].parent
  BY <1>2, <1>4
<1>10. QED BY <1>5, <1>6, <1>7, <1>8, <1>9 DEF p

\* The object x is given back.
Gone(o, x) == [o EXCEPT ![x] = Free]

\* It is the only one that goes.
LEMMA GoneIs ==
  ASSUME NEW o, AreFiles(o), NEW x \in LiveIn(o)
  PROVE  /\ AreFiles(Gone(o, x)) /\ SameFiles(o, Gone(o, x)) /\ LiveIn(Gone(o, x)) = LiveIn(o) \ {x}
         /\ \A h \in LiveIn(o) \ {x} : Gone(o, x)[h] = o[h]
<1> DEFINE p == Gone(o, x)
<1>1. x \in Objects
  BY DEF LiveIn
<1>2. p = [h \in Objects |-> IF h = x THEN Free ELSE o[h]]
  BY <1>1 DEF Gone, AreFiles
<1> HIDE DEF p
<1>3. p[x] = Free /\ \A h \in Objects : h # x => p[h] = o[h]
  BY <1>1, <1>2
<1>4. IsFile(Free) /\ Free.live = FALSE /\ Free.refcnt = 0
  BY DEF Free, IsFile
<1>5. AreFiles(p)
  <2>1. p = [h \in Objects |-> p[h]]
    BY <1>2
  <2>2. \A h \in Objects : IsFile(p[h])
    BY <1>3, <1>4 DEF AreFiles
  <2>3. \A h \in Objects : p[h].live \in BOOLEAN
    BY <1>3, <1>4 DEF AreFiles
  <2>4. \A h \in Objects : p[h].refcnt \in Nat
    BY <1>3, <1>4 DEF AreFiles
  <2>5. QED BY <2>1, <2>2, <2>3, <2>4 DEF AreFiles
<1>6. LiveIn(p) = LiveIn(o) \ {x}
  BY <1>3, <1>4 DEF LiveIn
<1>7. \A h \in LiveIn(o) \ {x} : p[h] = o[h]
  BY <1>3 DEF LiveIn
<1>8. SameFiles(o, p)
  BY <1>6, <1>7 DEF SameFiles
<1>9. QED BY <1>5, <1>6, <1>7, <1>8 DEF p

\* An object that counts more than the one that closes it lives on.
LEMMA LowerKeeps ==
  ASSUME NEW o, NEW f, NEW hold, NEW forgot, NEW x, x # NIL,
         Kept(o, f, hold, forgot, x), o[x].refcnt > 1
  PROVE  Kept(Lower(o, x), f, hold, forgot, NIL)
<1> DEFINE p == Lower(o, x)
<1>1. AreFiles(o) /\ x \in LiveIn(o) /\ x \in Objects /\ o[x].refcnt > 0 /\ NIL \notin Objects
  BY ObjectsAssumption DEF Kept, Counts, LiveIn, AreFiles
<1>2. /\ AreFiles(p) /\ SameFiles(o, p) /\ LiveIn(p) = LiveIn(o)
      /\ \A h \in Objects : p[h].refcnt = IF h = x THEN o[h].refcnt - 1 ELSE o[h].refcnt
      /\ \A h \in Objects : p[h].parent = o[h].parent
  BY <1>1, LowerIs
<1> HIDE DEF p
<1>3. \A h \in Objects : Children(p, h) = Children(o, h)
  BY <1>2 DEF Children, LiveIn
<1>4. Counts(p, hold, NIL)
  <2>1. hold \subseteq LiveIn(p)
    BY <1>2 DEF Kept, Counts
  <2>2. ASSUME NEW h \in LiveIn(p)
        PROVE  /\ p[h].refcnt = Cardinality(Children(p, h)) + One(h \in hold) + One(h = NIL)
               /\ p[h].refcnt > 0
               /\ p[h].parent \in LiveIn(p) \cup {NIL}
    <3>1. h \in Objects /\ h \in LiveIn(o) /\ h # NIL
      BY <1>1, <1>2, <2>2 DEF LiveIn
    <3>2. /\ o[h].refcnt = Cardinality(Children(o, h)) + One(h \in hold) + One(h = x)
          /\ o[h].refcnt > 0 /\ o[h].parent \in LiveIn(o) \cup {NIL}
      BY <3>1 DEF Kept, Counts
    <3>3. Children(o, h) \subseteq Objects
      BY DEF Children, LiveIn
    <3>4. Cardinality(Children(o, h)) \in Nat
      BY <3>3, Countable
    <3>5. One(h = NIL) = 0 /\ One(h = x) = (IF h = x THEN 1 ELSE 0) /\ One(h \in hold) \in Nat
      BY <3>1 DEF One
    <3>6. p[h].refcnt = Cardinality(Children(o, h)) + One(h \in hold) + One(h = NIL)
      BY <1>2, <3>1, <3>2, <3>4, <3>5
    <3>7. p[h].refcnt > 0
      BY <1>2, <3>1, <3>2, <3>4, <3>5
    <3>8. QED BY <1>2, <1>3, <3>1, <3>2, <3>6, <3>7
  <2>3. QED BY <2>1, <2>2 DEF Counts
<1>5. Descriptors(p, f, forgot)
  BY <1>2 DEF Kept, Descriptors, SameFiles
<1>6. QED BY <1>2, <1>4, <1>5 DEF Kept, p

\* Without the descriptor d
Less(f, d) == [c \in DOMAIN f \ {d} |-> f[c]]

\* The last one that closes an object frees it with its descriptor and closes the
\* object it was opened through.
LEMMA GoneKeeps ==
  ASSUME NEW o, NEW f, NEW hold, NEW forgot, NEW x, x # NIL,
         Kept(o, f, hold, forgot, x), ~(o[x].refcnt > 1)
  PROVE  Kept(Gone(o, x), Less(f, o[x].fd), hold, forgot, o[x].parent)
<1> DEFINE p == Gone(o, x)
           y == o[x].parent
<1>1. AreFiles(o) /\ x \in LiveIn(o) /\ x \in Objects /\ NIL \notin Objects
  BY ObjectsAssumption DEF Kept, Counts, LiveIn, AreFiles
<1>2. /\ AreFiles(p) /\ SameFiles(o, p) /\ LiveIn(p) = LiveIn(o) \ {x}
      /\ \A h \in LiveIn(o) \ {x} : p[h] = o[h]
  BY <1>1, GoneIs
<1> HIDE DEF p
<1>3. Children(o, x) = {} /\ x \notin hold
  <2>1. Children(o, x) \subseteq Objects
    BY DEF Children, LiveIn
  <2>2. Cardinality(Children(o, x)) \in Nat /\ (Cardinality(Children(o, x)) = 0 <=> Children(o, x) = {})
    BY <2>1, Countable
  <2>3. o[x].refcnt = Cardinality(Children(o, x)) + One(x \in hold) + One(x = x) /\ o[x].refcnt \in Nat
    BY <1>1 DEF Kept, Counts, AreFiles
  <2>4. One(x = x) = 1 /\ One(x \in hold) = (IF x \in hold THEN 1 ELSE 0)
    BY DEF One
  <2>5. QED BY <2>2, <2>3, <2>4
<1>4. y \in LiveIn(p) \cup {NIL}
  <2>1. y \in LiveIn(o) \cup {NIL}
    BY <1>1 DEF Kept, Counts
  <2>2. y # x
    BY <1>1, <1>3 DEF Children
  <2>3. QED BY <1>2, <2>1, <2>2
<1>5. Counts(p, hold, y)
  <2>1. hold \subseteq LiveIn(p)
    BY <1>2, <1>3 DEF Kept, Counts
  <2>2. ASSUME NEW h \in LiveIn(p)
        PROVE  /\ p[h].refcnt = Cardinality(Children(p, h)) + One(h \in hold) + One(h = y)
               /\ p[h].refcnt > 0
               /\ p[h].parent \in LiveIn(p) \cup {NIL}
    <3>1. h \in LiveIn(o) /\ h # x /\ p[h] = o[h]
      BY <1>2, <2>2
    <3>2. /\ o[h].refcnt = Cardinality(Children(o, h)) + One(h \in hold) + One(h = x)
          /\ o[h].refcnt > 0 /\ o[h].parent \in LiveIn(o) \cup {NIL}
      BY <3>1 DEF Kept, Counts
    <3>3. o[h].parent # x
      BY <1>3, <3>1 DEF Children
    <3>4. Children(p, h) = Children(o, h) \ {x}
      BY <1>2 DEF Children
    <3>5. Children(o, h) \subseteq Objects
      BY DEF Children, LiveIn
    <3>6. Cardinality(Children(o, h)) \in Nat
      BY <3>5, Countable
    <3>7. One(h = x) = 0 /\ One(h \in hold) \in Nat
      BY <3>1 DEF One
    <3>8. Cardinality(Children(p, h)) + One(h = y) = Cardinality(Children(o, h))
      <4>1. CASE h = y
        <5>1. x \in Children(o, h)
          BY <1>1, <4>1 DEF Children
        <5>2. Cardinality(Children(p, h)) = Cardinality(Children(o, h)) - 1
          BY <3>4, <3>5, <5>1, OneLess
        <5>3. One(h = y) = 1
          BY <4>1 DEF One
        <5>4. QED BY <3>6, <5>2, <5>3
      <4>2. CASE h # y
        <5>1. Children(p, h) = Children(o, h)
          BY <3>4, <4>2 DEF Children
        <5>2. One(h = y) = 0
          BY <4>2 DEF One
        <5>3. QED BY <3>6, <5>1, <5>2
      <4>3. QED BY <4>1, <4>2
    <3>9. Cardinality(Children(p, h)) \in Nat /\ One(h = y) \in Nat
      <4>1. Children(p, h) \subseteq Objects
        BY DEF Children, LiveIn
      <4>2. QED BY <4>1, Countable DEF One
    <3>10. p[h].refcnt = Cardinality(Children(p, h)) + One(h \in hold) + One(h = y)
      BY <3>1, <3>2, <3>6, <3>7, <3>8, <3>9
    <3>11. QED BY <1>2, <3>1, <3>2, <3>3, <3>10
  <2>3. QED BY <1>4, <2>1, <2>2 DEF Counts
<1>6. Descriptors(p, Less(f, o[x].fd), forgot)
  BY <1>1, <1>2 DEF Kept, Descriptors, Less
<1>7. QED BY <1>2, <1>5, <1>6 DEF Kept, p

\* Files that are the same as those that are the same
LEMMA SameOfSame ==
  ASSUME NEW o, NEW p, NEW q, SameFiles(o, p), SameFiles(p, q)
  PROVE  SameFiles(o, q)
  BY DEF SameFiles

\* One step of a close; where it does not end an object is gone.
LEMMA CloseStepKeeps ==
  ASSUME NEW s, IsCall(s), NEW hold, NEW forgot, Kept(s.objs, s.fds, hold, forgot, s.at)
  PROVE  LET t == CloseStep(s) IN
         /\ IsCall(t) /\ Kept(t.objs, t.fds, hold, forgot, t.at) /\ t.got = s.got
         /\ SameFiles(s.objs, t.objs)
         /\ s.at = NIL => t = s
         /\ t.at # NIL => Cardinality(LiveIn(t.objs)) < Cardinality(LiveIn(s.objs))
<1> DEFINE t == CloseStep(s)
           o == s.objs
           x == o[s.at]
<1>1. CASE s.at = NIL
  <2>1. t = s
    BY <1>1 DEF CloseStep
  <2>2. SameFiles(o, o)
    BY DEF SameFiles
  <2>3. QED BY <1>1, <2>1, <2>2
<1>2. CASE s.at # NIL /\ x.refcnt > 1
  <2>1. t = [objs |-> Lower(o, s.at), fds |-> s.fds, got |-> s.got, at |-> NIL]
    BY <1>2 DEF CloseStep, IsCall, Lower
  <2>2. Kept(Lower(o, s.at), s.fds, hold, forgot, NIL)
    BY <1>2, LowerKeeps
  <2>3. SameFiles(o, Lower(o, s.at))
    <3>1. AreFiles(o) /\ s.at \in Objects /\ o[s.at].refcnt > 0
      BY <1>2 DEF Kept, Counts, LiveIn, AreFiles
    <3>2. QED BY <3>1, LowerIs
  <2> HIDE DEF t
  <2>4. t.objs = Lower(o, s.at) /\ t.fds = s.fds /\ t.got = s.got /\ t.at = NIL /\ IsCall(t)
    BY <2>1 DEF IsCall
  <2>5. QED BY <1>2, <2>2, <2>3, <2>4 DEF t
<1>3. CASE s.at # NIL /\ ~(x.refcnt > 1)
  <2>1. t = [objs |-> Gone(o, s.at), fds |-> Less(s.fds, x.fd), got |-> s.got, at |-> x.parent]
    BY <1>3 DEF CloseStep, WithoutFd, IsCall, Gone, Less
  <2>2. Kept(Gone(o, s.at), Less(s.fds, x.fd), hold, forgot, x.parent)
    BY <1>3, GoneKeeps
  <2>3. AreFiles(o) /\ s.at \in LiveIn(o)
    BY <1>3 DEF Kept, Counts
  <2>4. SameFiles(o, Gone(o, s.at)) /\ LiveIn(Gone(o, s.at)) = LiveIn(o) \ {s.at}
    BY <2>3, GoneIs
  <2>5. Cardinality(LiveIn(Gone(o, s.at))) < Cardinality(LiveIn(o))
    <3>1. LiveIn(o) \subseteq Objects
      BY DEF LiveIn
    <3>2. Cardinality(LiveIn(o)) \in Nat
      BY <3>1, Countable
    <3>3. Cardinality(LiveIn(o) \ {s.at}) = Cardinality(LiveIn(o)) - 1
      BY <2>3, <3>1, OneLess
    <3>4. QED BY <2>4, <3>2, <3>3
  <2> HIDE DEF t
  <2>6. /\ t.objs = Gone(o, s.at) /\ t.fds = Less(s.fds, x.fd) /\ t.got = s.got
        /\ t.at = x.parent /\ IsCall(t)
    BY <2>1 DEF IsCall
  <2>7. QED BY <1>3, <2>2, <2>4, <2>5, <2>6 DEF t
<1>4. QED BY <1>1, <1>2, <1>3

\* The states a close goes through
Closing(f, s, h) ==
  [i \in 0..Cardinality(Objects) |-> IF i = 0 THEN [s EXCEPT !.at = h] ELSE CloseStep(f[i - 1])]

\* The same for the first n steps
ClosingTo(f, s, h, n) ==
  [i \in 0..n |-> IF i = 0 THEN [s EXCEPT !.at = h] ELSE CloseStep(f[i - 1])]

\* The recursive function of Closed exists.
LEMMA ClosingExists ==
  ASSUME NEW s, NEW h, NEW n \in Nat
  PROVE  \E f : f = ClosingTo(f, s, h, n)
<1> DEFINE A == {m \in Nat : \E f : f = ClosingTo(f, s, h, m)}
           first == [s EXCEPT !.at = h]
<1>1. 0 \in A
  <2> DEFINE f == [i \in 0..0 |-> first]
  <2>1. f = ClosingTo(f, s, h, 0)
    BY DEF ClosingTo
  <2>2. QED BY <2>1
<1>2. ASSUME NEW m \in Nat, m \in A PROVE m + 1 \in A
  <2>1. PICK f : f = ClosingTo(f, s, h, m)
    BY <1>2
  <2> DEFINE g == [i \in 0..(m + 1) |-> IF i <= m THEN f[i] ELSE CloseStep(f[m])]
  <2> HIDE DEF first
  <2>2. ASSUME NEW i \in 0..(m + 1)
        PROVE  g[i] = IF i = 0 THEN first ELSE CloseStep(g[i - 1])
    <3>1. CASE i = 0
      <4>1. f[0] = first
        BY <2>1 DEF ClosingTo, first
      <4>2. QED BY <3>1, <4>1
    <3>2. CASE i # 0 /\ i <= m
      <4>1. i \in 0..m /\ i - 1 \in 0..m
        BY <3>2
      <4>2. f[i] = CloseStep(f[i - 1])
        BY <2>1, <3>2, <4>1 DEF ClosingTo
      <4>3. g[i] = f[i] /\ g[i - 1] = f[i - 1]
        BY <4>1
      <4>4. QED BY <3>2, <4>2, <4>3
    <3>3. CASE i = m + 1
      <4>1. g[i] = CloseStep(f[m]) /\ g[i - 1] = f[m] /\ i # 0
        BY <3>3
      <4>2. QED BY <3>3, <4>1
    <3>4. QED BY <3>1, <3>2, <3>3
  <2>3. DOMAIN g = 0..(m + 1) /\ g = [i \in 0..(m + 1) |-> g[i]]
    OBVIOUS
  <2> HIDE DEF g
  <2>4. g = ClosingTo(g, s, h, m + 1)
    BY <2>2, <2>3 DEF ClosingTo, first
  <2>5. QED BY <2>4
<1> HIDE DEF A
<1>3. Nat \subseteq A
  BY <1>1, <1>2, SetInduction
<1>4. QED BY <1>3 DEF A

\* A close ends: every step before the last one frees an object.  It leaves the
\* objects that somebody else holds.
LEMMA ClosedKeeps ==
  ASSUME NEW s, IsCall(s), NEW h, NEW hold, NEW forgot, Kept(s.objs, s.fds, hold, forgot, h)
  PROVE  LET t == Closed(s, h) IN
         /\ IsCall(t) /\ Kept(t.objs, t.fds, hold, forgot, NIL) /\ t.got = s.got
         /\ SameFiles(s.objs, t.objs)
<1> DEFINE n == Cardinality(Objects)
           f == CHOOSE f : f = Closing(f, s, h)
           Good(i) == /\ IsCall(f[i]) /\ Kept(f[i].objs, f[i].fds, hold, forgot, f[i].at)
                      /\ f[i].got = s.got /\ SameFiles(s.objs, f[i].objs)
                      /\ f[i].at = NIL \/ Cardinality(LiveIn(f[i].objs)) + i <= n
<1>1. n \in Nat
  <2>1. {} \subseteq Objects
    OBVIOUS
  <2>2. QED BY <2>1, Countable
<1>2. Closed(s, h) = f[n]
  BY DEF Closed, Closing
<1>3. f = Closing(f, s, h)
  <2>1. \E g : g = Closing(g, s, h)
    <3>1. \E g : g = ClosingTo(g, s, h, n)
      BY <1>1, ClosingExists
    <3>2. QED BY <3>1 DEF ClosingTo, Closing
  <2>2. QED BY <2>1
<1> HIDE DEF f
<1> DEFINE A == {i \in Nat : i <= n => Good(i)}
<1>4. 0 \in A
  <2>1. f[0] = [s EXCEPT !.at = h]
    BY <1>1, <1>3 DEF Closing
  <2>2. f[0].objs = s.objs /\ f[0].fds = s.fds /\ f[0].got = s.got /\ f[0].at = h /\ IsCall(f[0])
    BY <2>1 DEF IsCall
  <2>3. SameFiles(s.objs, f[0].objs)
    BY <2>2 DEF SameFiles
  <2>4. LiveIn(f[0].objs) \subseteq Objects
    BY DEF LiveIn
  <2>5. Cardinality(LiveIn(f[0].objs)) \in Nat /\ Cardinality(LiveIn(f[0].objs)) <= n
    BY <2>4, Countable
  <2>6. Cardinality(LiveIn(f[0].objs)) + 0 <= n
    BY <1>1, <2>5
  <2>7. Good(0)
    BY <2>2, <2>3, <2>6
  <2>8. QED BY <2>7
<1>5. ASSUME NEW m \in Nat, m \in A PROVE m + 1 \in A
  <2>1. SUFFICES ASSUME m + 1 <= n PROVE Good(m + 1)
    OBVIOUS
  <2>2. m <= n /\ m + 1 \in 0..n /\ m + 1 # 0 /\ (m + 1) - 1 = m
    BY <1>1, <2>1
  <2>3. Good(m)
    BY <1>5, <2>2
  <2>4. f[m + 1] = CloseStep(f[m])
    BY <1>3, <2>2 DEF Closing
  <2> DEFINE t == CloseStep(f[m])
  <2>5. /\ IsCall(t) /\ Kept(t.objs, t.fds, hold, forgot, t.at) /\ t.got = f[m].got
        /\ SameFiles(f[m].objs, t.objs)
        /\ f[m].at = NIL => t = f[m]
        /\ t.at # NIL => Cardinality(LiveIn(t.objs)) < Cardinality(LiveIn(f[m].objs))
    BY <2>3, CloseStepKeeps
  <2>6. SameFiles(s.objs, t.objs)
    BY <2>3, <2>5, SameOfSame
  <2>7. t.at = NIL \/ Cardinality(LiveIn(t.objs)) + (m + 1) <= n
    <3>1. SUFFICES ASSUME t.at # NIL PROVE Cardinality(LiveIn(t.objs)) + (m + 1) <= n
      OBVIOUS
    <3>2. f[m].at # NIL
      BY <2>5, <3>1
    <3>3. LiveIn(t.objs) \subseteq Objects /\ LiveIn(f[m].objs) \subseteq Objects
      BY DEF LiveIn
    <3>4. Cardinality(LiveIn(t.objs)) \in Nat /\ Cardinality(LiveIn(f[m].objs)) \in Nat
      BY <3>3, Countable
    <3>5. Cardinality(LiveIn(f[m].objs)) + m <= n
      BY <2>3, <3>2
    <3>6. Cardinality(LiveIn(t.objs)) < Cardinality(LiveIn(f[m].objs))
      BY <2>5, <3>1
    <3> HIDE DEF t, n
    <3>7. QED BY <1>1, <3>4, <3>5, <3>6
  <2>8. QED BY <2>3, <2>4, <2>5, <2>6, <2>7
<1>6. n \in A => Good(n)
  OBVIOUS
<1> HIDE DEF A
<1>7. Nat \subseteq A
  BY <1>4, <1>5, SetInduction
<1>8. Good(n)
  BY <1>1, <1>6, <1>7
<1>9. f[n].at = NIL
  <2>1. SUFFICES ASSUME f[n].at # NIL PROVE FALSE
    OBVIOUS
  <2>2. LiveIn(f[n].objs) \subseteq Objects
    BY DEF LiveIn
  <2>3. /\ Cardinality(LiveIn(f[n].objs)) \in Nat
        /\ (Cardinality(LiveIn(f[n].objs)) = 0 <=> LiveIn(f[n].objs) = {})
    BY <2>2, Countable
  <2>4. Cardinality(LiveIn(f[n].objs)) + n <= n
    BY <1>8, <2>1
  <2>5. f[n].at \in LiveIn(f[n].objs)
    BY <1>8, <2>1 DEF Kept, Counts
  <2> HIDE DEF n
  <2>6. QED BY <1>1, <2>3, <2>4, <2>5
<1>10. QED BY <1>2, <1>8, <1>9

-----------------------------------------------------------------------------
(* Opening *)

\* What t has become of s: a new object with a new descriptor, which is held now
OpenedAs(s, t, parent, path, folder, hold, forgot) ==
  /\ IsCall(t) /\ t.got \in Objects \ LiveIn(s.objs)
  /\ Kept(t.objs, t.fds, hold \cup {t.got}, forgot, NIL)
  /\ LiveIn(t.objs) = LiveIn(s.objs) \cup {t.got}
  /\ \A g \in LiveIn(s.objs) :
       /\ t.objs[g].path = s.objs[g].path /\ t.objs[g].folder = s.objs[g].folder
       /\ t.objs[g].top = s.objs[g].top /\ t.objs[g].read = s.objs[g].read
       /\ t.objs[g].parent = s.objs[g].parent
       /\ t.objs[g].buffer = s.objs[g].buffer /\ t.objs[g].due = s.objs[g].due
  /\ LET x == t.objs[t.got] IN
       /\ x.path = path /\ x.folder = folder /\ x.top = (parent = NIL) /\ x.read = FALSE
       /\ x.parent = parent
       /\ x.buffer = {} /\ x.due = IF folder /\ parent # NIL THEN Entries(path) ELSE {}

\* The new object counts for the one it is opened through.
LEMMA OpenedKeeps ==
  ASSUME NEW s, IsCall(s), NEW hold, NEW forgot, Kept(s.objs, s.fds, hold, forgot, NIL),
         NEW parent \in LiveIn(s.objs) \cup {NIL}, NEW path, NEW folder \in BOOLEAN,
         NewFds(s) # {}, NewObjects(s) # {}
  PROVE  OpenedAs(s, Opened(s, parent, path, folder), parent, path, folder, hold, forgot)
<1> DEFINE o == s.objs
           h == CHOOSE x \in NewObjects(s) : TRUE
           d == Min(NewFds(s))
           due == IF folder /\ parent # NIL THEN Entries(path) ELSE {}
           top == (parent = NIL)
           new == [Free EXCEPT !.live = TRUE, !.path = path, !.folder = folder, !.parent = parent,
                     !.refcnt = 1, !.fd = d, !.top = top, !.due = due]
           raised == IF parent = NIL THEN o ELSE [o EXCEPT ![parent].refcnt = @ + 1]
           p == [raised EXCEPT ![h] = new]
           e == [c \in DOMAIN s.fds \cup {d} |-> IF c = d THEN path ELSE s.fds[c]]
           t == Opened(s, parent, path, folder)
<1>1. h \in Objects \ LiveIn(o)
  BY DEF NewObjects, LiveIn
<1>2. d \in Fds \ DOMAIN s.fds
  <2>1. NewFds(s) \subseteq Nat
    BY FdsAssumption DEF NewFds
  <2>2. d \in NewFds(s)
    BY <2>1, MinOf
  <2>3. QED BY <2>2 DEF NewFds
<1>3. t = [objs |-> p, fds |-> e, got |-> h, at |-> s.at]
  <2>1. t = [WithFd(s, d, path) EXCEPT !.objs = p, !.got = h]
    BY DEF Opened
  <2>2. WithFd(s, d, path) = [s EXCEPT !.fds = e]
    BY DEF WithFd
  <2> HIDE DEF t, p, e, h, d
  <2>3. QED BY <2>1, <2>2 DEF IsCall
<1>4. /\ IsFile(new) /\ new.live = TRUE /\ new.path = path /\ new.folder = folder /\ new.parent = parent
      /\ new.refcnt = 1 /\ new.fd = d /\ new.top = top /\ new.read = FALSE /\ new.buffer = {} /\ new.due = due
  <2> DEFINE yes == TRUE
             no == FALSE
             bare == [live |-> no, leaked |-> no, path |-> Root, folder |-> no, parent |-> NIL,
                      refcnt |-> 0, fd |-> 0, top |-> no, read |-> no, buffer |-> {}, due |-> {}]
  <2>1. new = [bare EXCEPT !.live = yes, !.path = path, !.folder = folder, !.parent = parent,
                 !.refcnt = 1, !.fd = d, !.top = top, !.due = due]
    BY DEF Free
  <2> HIDE DEF yes, no, d, due, top, new
  <2>2. new = [live |-> yes, leaked |-> no, path |-> path, folder |-> folder, parent |-> parent,
               refcnt |-> 1, fd |-> d, top |-> top, read |-> no, buffer |-> {}, due |-> due]
    BY <2>1
  <2>3. QED BY <2>2 DEF IsFile, yes, no
<1> HIDE DEF t, e, new, due, h, d, top
<1>5. /\ t.objs = p /\ t.fds = e /\ t.got = h /\ t.at = s.at /\ IsCall(t)
  BY <1>3 DEF IsCall
<1>6. AreFiles(o) /\ NIL \notin Objects /\ NIL \notin LiveIn(o)
  BY ObjectsAssumption DEF Kept, LiveIn
<1>7. /\ raised = [g \in Objects |-> raised[g]]
      /\ \A g \in Objects : /\ IsFile(raised[g]) /\ raised[g].live = o[g].live
                            /\ raised[g].path = o[g].path /\ raised[g].folder = o[g].folder
                            /\ raised[g].parent = o[g].parent /\ raised[g].fd = o[g].fd
                            /\ raised[g].top = o[g].top /\ raised[g].read = o[g].read
                            /\ raised[g].buffer = o[g].buffer /\ raised[g].due = o[g].due
                            /\ raised[g].refcnt = IF g = parent THEN o[g].refcnt + 1 ELSE o[g].refcnt
  <2>1. CASE parent = NIL
    BY <1>6, <2>1 DEF AreFiles
  <2>2. CASE parent # NIL
    <3> DEFINE w == [o[parent] EXCEPT !.refcnt = @ + 1]
               m == o[parent].refcnt + 1
    <3>1. parent \in Objects /\ IsFile(o[parent])
      BY <1>6, <2>2 DEF AreFiles, LiveIn
    <3>2. raised = [g \in Objects |-> IF g = parent THEN w ELSE o[g]]
      BY <1>6, <2>2, <3>1 DEF AreFiles
    <3>3. w.refcnt = m
      BY <3>1 DEF IsFile
    <3>4. /\ w.live = o[parent].live /\ w.path = o[parent].path /\ w.folder = o[parent].folder
          /\ w.parent = o[parent].parent /\ w.fd = o[parent].fd /\ w.top = o[parent].top
          /\ w.read = o[parent].read /\ w.buffer = o[parent].buffer /\ w.due = o[parent].due
          /\ IsFile(w)
      <4> HIDE DEF m
      <4>1. w = [o[parent] EXCEPT !.refcnt = m]
        BY DEF m
      <4>2. QED BY <3>1, <4>1 DEF IsFile
    <3> HIDE DEF w, raised
    <3>5. raised[parent] = w /\ \A g \in Objects : g # parent => raised[g] = o[g]
      BY <3>1, <3>2
    <3>6. raised = [g \in Objects |-> raised[g]]
      BY <3>2
    <3>7. QED BY <1>6, <3>3, <3>4, <3>5, <3>6 DEF AreFiles, m
  <2>3. QED BY <2>1, <2>2
<1> HIDE DEF raised
<1>8. p[h] = new /\ \A g \in Objects : g # h => p[g] = raised[g]
  BY <1>1, <1>7
<1>9. AreFiles(p)
  <2>1. p = [g \in Objects |-> p[g]]
    BY <1>7
  <2> HIDE DEF p
  <2>2. \A g \in Objects : IsFile(p[g])
    BY <1>4, <1>7, <1>8
  <2>3. \A g \in Objects : p[g].live \in BOOLEAN
    <3>1. new.live \in BOOLEAN
      BY <1>4
    <3>2. \A g \in Objects : raised[g].live \in BOOLEAN
      BY <1>6, <1>7 DEF AreFiles
    <3>3. QED BY <1>8, <3>1, <3>2
  <2>4. \A g \in Objects : p[g].refcnt \in Nat
    <3>1. \A g \in Objects : raised[g].refcnt \in Nat
      BY <1>6, <1>7 DEF AreFiles
    <3>2. QED BY <1>4, <1>8, <3>1
  <2>5. QED BY <2>1, <2>2, <2>3, <2>4 DEF AreFiles
<1> HIDE DEF p
<1>10. LiveIn(p) = LiveIn(o) \cup {h}
  BY <1>1, <1>4, <1>7, <1>8 DEF LiveIn
<1>11. \A g \in LiveIn(o) : /\ g \in Objects /\ g # h
                            /\ p[g].path = o[g].path /\ p[g].folder = o[g].folder
                            /\ p[g].parent = o[g].parent /\ p[g].fd = o[g].fd
                            /\ p[g].top = o[g].top /\ p[g].read = o[g].read
                            /\ p[g].buffer = o[g].buffer /\ p[g].due = o[g].due
                            /\ p[g].refcnt = IF g = parent THEN o[g].refcnt + 1 ELSE o[g].refcnt
  <2>1. ASSUME NEW g \in LiveIn(o)
        PROVE  g \in Objects /\ g # h /\ p[g] = raised[g]
    BY <1>1, <1>8 DEF LiveIn
  <2> DEFINE same(g) ==
               /\ raised[g].path = o[g].path /\ raised[g].folder = o[g].folder
               /\ raised[g].parent = o[g].parent /\ raised[g].fd = o[g].fd
               /\ raised[g].top = o[g].top /\ raised[g].read = o[g].read
               /\ raised[g].buffer = o[g].buffer /\ raised[g].due = o[g].due
               /\ raised[g].refcnt = IF g = parent THEN o[g].refcnt + 1 ELSE o[g].refcnt
  <2>2. ASSUME NEW g \in Objects PROVE same(g)
    BY <1>7
  <2>3. QED BY <2>1, <2>2
<1>12. Counts(p, hold \cup {h}, NIL)
  <2>1. hold \cup {h} \subseteq LiveIn(p)
    BY <1>10 DEF Kept, Counts
  <2>2. ASSUME NEW g \in LiveIn(o)
        PROVE  /\ p[g].refcnt = Cardinality(Children(p, g)) + One(g \in hold \cup {h}) + One(g = NIL)
               /\ p[g].refcnt > 0
               /\ p[g].parent \in LiveIn(p) \cup {NIL}
    <3>1. g \in Objects /\ g # h /\ g # NIL /\ p[g].parent = o[g].parent
          /\ p[g].refcnt = IF g = parent THEN o[g].refcnt + 1 ELSE o[g].refcnt
      BY <1>6, <1>11
    <3>2. /\ o[g].refcnt = Cardinality(Children(o, g)) + One(g \in hold) + One(g = NIL)
          /\ o[g].refcnt > 0 /\ o[g].parent \in LiveIn(o) \cup {NIL}
      BY DEF Kept, Counts
    <3>3. Children(p, g) = IF g = parent THEN Children(o, g) \cup {h} ELSE Children(o, g)
      BY <1>4, <1>8, <1>10, <1>11 DEF Children
    <3>4. Children(o, g) \subseteq Objects /\ h \notin Children(o, g)
      BY <1>1 DEF Children, LiveIn
    <3>5. Cardinality(Children(o, g)) \in Nat
      BY <3>4, Countable
    <3>6. Cardinality(Children(p, g))
            = IF g = parent THEN Cardinality(Children(o, g)) + 1 ELSE Cardinality(Children(o, g))
      <4>1. Cardinality(Children(o, g) \cup {h}) = Cardinality(Children(o, g)) + 1
        BY <3>4, OneMore
      <4>2. QED BY <3>3, <4>1
    <3>7. One(g \in hold \cup {h}) = One(g \in hold) /\ One(g \in hold) \in Nat /\ One(g = NIL) = 0
      BY <3>1 DEF One
    <3>8. p[g].refcnt = Cardinality(Children(p, g)) + One(g \in hold \cup {h}) + One(g = NIL)
      BY <3>1, <3>2, <3>5, <3>6, <3>7
    <3>9. p[g].refcnt > 0
      BY <3>1, <3>2, <3>5, <3>7
    <3>10. QED BY <1>10, <3>1, <3>2, <3>8, <3>9
  <2>3. /\ p[h].refcnt = Cardinality(Children(p, h)) + One(h \in hold \cup {h}) + One(h = NIL)
        /\ p[h].refcnt > 0
        /\ p[h].parent \in LiveIn(p) \cup {NIL}
    <3>1. p[h].refcnt = 1 /\ p[h].parent = parent
      BY <1>4, <1>8
    <3>2. Children(p, h) = {}
      <4>1. \A g \in LiveIn(o) : p[g].parent # h
        BY <1>1, <1>6, <1>11 DEF Kept, Counts
      <4>2. parent # h
        BY <1>1, <1>6
      <4>3. QED BY <1>10, <3>1, <4>1, <4>2 DEF Children
    <3>3. Cardinality(Children(p, h)) = 0
      BY <3>2, FS_EmptySet
    <3>4. One(h \in hold \cup {h}) = 1 /\ One(h = NIL) = 0
      BY <1>1, <1>6 DEF One
    <3>5. QED BY <1>10, <3>1, <3>3, <3>4
  <2>4. QED BY <1>10, <2>1, <2>2, <2>3 DEF Counts
<1>13. Descriptors(p, e, forgot)
  <2>1. Descriptors(o, s.fds, forgot)
    BY DEF Kept
  <2>2. /\ DOMAIN e = DOMAIN s.fds \cup {d} /\ e[d] = path /\ d \notin DOMAIN s.fds /\ d \in Fds
        /\ \A c \in DOMAIN s.fds : e[c] = s.fds[c]
    BY <1>2 DEF e
  <2>3. p[h].fd = d /\ p[h].path = path
    BY <1>4, <1>8
  <2>4. QED BY <1>10, <1>11, <2>1, <2>2, <2>3 DEF Descriptors
<1>14. p[h].path = path /\ p[h].folder = folder /\ p[h].top = (parent = NIL) /\ p[h].read = FALSE
       /\ p[h].parent = parent
       /\ p[h].buffer = {} /\ p[h].due = IF folder /\ parent # NIL THEN Entries(path) ELSE {}
  BY <1>4, <1>8 DEF due, top
<1>15. QED BY <1>1, <1>5, <1>9, <1>10, <1>11, <1>12, <1>13, <1>14 DEF OpenedAs, Kept, t

\* Nothing is opened through the new object yet.
LEMMA NewHasNone ==
  ASSUME NEW s, NEW t, NEW hold, NEW forgot, Kept(s.objs, s.fds, hold, forgot, NIL),
         NEW parent \in LiveIn(s.objs) \cup {NIL}, NEW path, NEW folder,
         OpenedAs(s, t, parent, path, folder, hold, forgot)
  PROVE  Children(t.objs, t.got) = {}
<1>1. t.got \in Objects \ LiveIn(s.objs) /\ t.got # NIL
  BY ObjectsAssumption DEF OpenedAs
<1>2. /\ LiveIn(t.objs) = LiveIn(s.objs) \cup {t.got} /\ t.objs[t.got].parent = parent
      /\ \A g \in LiveIn(s.objs) : t.objs[g].parent = s.objs[g].parent
  BY DEF OpenedAs
<1>3. \A g \in LiveIn(s.objs) : s.objs[g].parent \in LiveIn(s.objs) \cup {NIL}
  BY DEF Kept, Counts
<1>4. QED BY <1>1, <1>2, <1>3 DEF Children

\* What a directory has of the entries in the tree tr
EntriesIn(tr, path) == {p \in DOMAIN tr : Len(p) = Len(path) + 1 /\ Front(p) = path}

\* An object is a root if it was not opened through another one.  What a directory that
\* was opened by name must still give is in the tree, and in the buffer of its stream
\* as soon as that was filled from the descriptor.
Lists(o, tr) ==
  \A h \in LiveIn(o) :
    /\ o[h].top = (o[h].parent = NIL)
    /\ o[h].folder \/ o[h].due = {}
    /\ o[h].folder /\ ~o[h].top =>
         /\ o[h].due \subseteq EntriesIn(tr, o[h].path)
         /\ o[h].read \/ o[h].buffer # {} => o[h].due \subseteq o[h].buffer

\* The objects that stay the same keep their lists.
LEMMA SameLists ==
  ASSUME NEW o, NEW p, NEW tr, SameFiles(o, p), Lists(o, tr)
  PROVE  Lists(p, tr)
<1> SUFFICES ASSUME NEW h \in LiveIn(p)
             PROVE  /\ p[h].top = (p[h].parent = NIL)
                    /\ p[h].folder \/ p[h].due = {}
                    /\ p[h].folder /\ ~p[h].top =>
                         /\ p[h].due \subseteq EntriesIn(tr, p[h].path)
                         /\ p[h].read \/ p[h].buffer # {} => p[h].due \subseteq p[h].buffer
  BY DEF Lists
<1>1. /\ h \in LiveIn(o)
      /\ p[h].path = o[h].path /\ p[h].folder = o[h].folder /\ p[h].parent = o[h].parent
      /\ p[h].top = o[h].top
      /\ p[h].read = o[h].read /\ p[h].buffer = o[h].buffer /\ p[h].due = o[h].due
  BY DEF SameFiles
<1>2. QED BY <1>1 DEF Lists

\* A new object has given nothing and must give what is there.
LEMMA OpenedLists ==
  ASSUME NEW s, IsCall(s), NEW hold, NEW forgot, Kept(s.objs, s.fds, hold, forgot, NIL),
         NEW parent \in LiveIn(s.objs) \cup {NIL}, NEW path, NEW folder \in BOOLEAN,
         NewFds(s) # {}, NewObjects(s) # {},
         NEW tr, Lists(s.objs, tr), Entries(path) \subseteq EntriesIn(tr, path)
  PROVE  Lists(Opened(s, parent, path, folder).objs, tr)
<1> DEFINE t == Opened(s, parent, path, folder)
           o == s.objs
           p == t.objs
           x == t.objs[t.got]
<1>1. /\ LiveIn(p) = LiveIn(o) \cup {t.got}
      /\ \A g \in LiveIn(o) :
           /\ p[g].path = o[g].path /\ p[g].folder = o[g].folder
           /\ p[g].top = o[g].top /\ p[g].read = o[g].read /\ p[g].parent = o[g].parent
           /\ p[g].buffer = o[g].buffer /\ p[g].due = o[g].due
      /\ x.path = path /\ x.folder = folder /\ x.top = (parent = NIL) /\ x.read = FALSE
      /\ x.parent = parent
      /\ x.buffer = {} /\ x.due = IF folder /\ parent # NIL THEN Entries(path) ELSE {}
  <2>1. OpenedAs(s, t, parent, path, folder, hold, forgot)
    BY OpenedKeeps
  <2> HIDE DEF t
  <2>2. QED BY <2>1 DEF OpenedAs
<1> HIDE DEF t
<1>2. ASSUME NEW h \in LiveIn(o)
      PROVE  /\ p[h].top = (p[h].parent = NIL)
             /\ p[h].folder \/ p[h].due = {}
             /\ p[h].folder /\ ~p[h].top =>
                  /\ p[h].due \subseteq EntriesIn(tr, p[h].path)
                  /\ p[h].read \/ p[h].buffer # {} => p[h].due \subseteq p[h].buffer
  <2>1. /\ p[h].path = o[h].path /\ p[h].folder = o[h].folder
        /\ p[h].top = o[h].top /\ p[h].read = o[h].read /\ p[h].parent = o[h].parent
        /\ p[h].buffer = o[h].buffer /\ p[h].due = o[h].due
    BY <1>1
  <2> HIDE DEF p
  <2>2. QED BY <2>1 DEF Lists
<1>3. /\ x.top = (x.parent = NIL)
      /\ x.folder \/ x.due = {}
      /\ x.folder /\ ~x.top => /\ x.due \subseteq EntriesIn(tr, x.path)
                               /\ x.read \/ x.buffer # {} => x.due \subseteq x.buffer
  BY <1>1
<1>4. QED BY <1>1, <1>2, <1>3 DEF Lists, t

\* The hold on an object is given up: it is closed.
LEMMA HandOver ==
  ASSUME NEW o, NEW f, NEW hold, NEW forgot, NEW h, h # NIL,
         Kept(o, f, hold, forgot, NIL), h \in hold
  PROVE  Kept(o, f, hold \ {h}, forgot, h)
<1>1. NIL \notin LiveIn(o) /\ hold \subseteq LiveIn(o) /\ AreFiles(o)
  BY ObjectsAssumption DEF Kept, Counts, LiveIn
<1>2. ASSUME NEW g \in LiveIn(o)
      PROVE  /\ o[g].refcnt = Cardinality(Children(o, g)) + One(g \in hold \ {h}) + One(g = h)
             /\ o[g].refcnt > 0
             /\ o[g].parent \in LiveIn(o) \cup {NIL}
  <2>1. /\ o[g].refcnt = Cardinality(Children(o, g)) + One(g \in hold) + One(g = NIL)
        /\ o[g].refcnt > 0 /\ o[g].parent \in LiveIn(o) \cup {NIL}
    BY DEF Kept, Counts
  <2>2. Children(o, g) \subseteq Objects
    BY DEF Children, LiveIn
  <2>3. Cardinality(Children(o, g)) \in Nat
    BY <2>2, Countable
  <2>4. One(g = NIL) = 0
    BY <1>1 DEF One
  <2>5. One(g \in hold) = One(g \in hold \ {h}) + One(g = h)
    BY DEF One
  <2>6. One(g \in hold \ {h}) \in Nat /\ One(g = h) \in Nat
    BY DEF One
  <2>7. QED BY <2>1, <2>3, <2>4, <2>5, <2>6
<1>3. Counts(o, hold \ {h}, h)
  BY <1>1, <1>2 DEF Counts
<1>4. QED BY <1>1, <1>3 DEF Kept

\* An object that exists is opened, or the call fails and leaves all as it was.
LEMMA OpenExistingKeeps ==
  ASSUME NEW s, IsCall(s), NEW hold, NEW forgot, Kept(s.objs, s.fds, hold, forgot, NIL),
         Lists(s.objs, tree), NEW p \in LiveIn(s.objs), NEW path, NEW w, NEW d
  PROVE  LET t == OpenExisting(s, p, path, w, d) IN
         /\ IsCall(t) /\ t.got \in (Objects \ LiveIn(s.objs)) \cup {NIL}
         /\ Kept(t.objs, t.fds, hold \cup ({t.got} \ {NIL}), forgot, NIL)
         /\ LiveIn(t.objs) = LiveIn(s.objs) \cup ({t.got} \ {NIL})
         /\ Lists(t.objs, tree)
         /\ t.got # NIL => Children(t.objs, t.got) = {}
<1> DEFINE t == OpenExisting(s, p, path, w, d)
           folder == (Kind(path) = "folder")
<1>1. CASE t = Failed(s)
  <2>1. t.objs = s.objs /\ t.fds = s.fds /\ t.got = NIL /\ IsCall(t)
    BY <1>1 DEF Failed, IsCall
  <2>2. {t.got} \ {NIL} = {}
    BY <2>1
  <2> HIDE DEF t
  <2>3. hold \cup ({t.got} \ {NIL}) = hold /\ LiveIn(s.objs) \cup ({t.got} \ {NIL}) = LiveIn(s.objs)
    BY <2>2
  <2>4. QED BY <2>1, <2>3 DEF t
<1>2. CASE t # Failed(s)
  <2>1. t = Opened(s, p, path, folder) /\ NewFds(s) # {} /\ NewObjects(s) # {}
    BY <1>2 DEF OpenExisting
  <2>2. folder \in BOOLEAN /\ p \in LiveIn(s.objs) \cup {NIL}
    OBVIOUS
  <2>3. Entries(path) \subseteq EntriesIn(tree, path)
    BY DEF Entries, EntriesIn
  <2> HIDE DEF folder
  <2>4. OpenedAs(s, Opened(s, p, path, folder), p, path, folder, hold, forgot)
    BY <2>1, <2>2, OpenedKeeps
  <2>5. Lists(Opened(s, p, path, folder).objs, tree)
    BY <2>1, <2>2, <2>3, OpenedLists
  <2> HIDE DEF t
  <2>6. /\ IsCall(t) /\ t.got \in Objects \ LiveIn(s.objs)
        /\ Kept(t.objs, t.fds, hold \cup {t.got}, forgot, NIL)
        /\ LiveIn(t.objs) = LiveIn(s.objs) \cup {t.got}
    BY <2>1, <2>4 DEF OpenedAs
  <2>7. {t.got} \ {NIL} = {t.got}
    BY <2>6, ObjectsAssumption
  <2>8. Children(t.objs, t.got) = {}
    BY <2>1, <2>2, <2>4, NewHasNone
  <2>9. QED BY <2>1, <2>5, <2>6, <2>7, <2>8 DEF t
<1>3. QED BY <1>1, <1>2

-----------------------------------------------------------------------------
(* The walk over the nodes of a device path *)

\* What holds between its steps: the object it has come to is held by the walk, and
\* nothing is opened through it yet.
Walking(s) ==
  /\ IsCall(s) /\ s.got \in (LiveIn(s.objs) \ held) \cup {NIL}
  /\ Kept(s.objs, s.fds, held \cup ({s.got} \ {NIL}), lost, NIL)
  /\ Lists(s.objs, tree)
  /\ s.got # NIL => Children(s.objs, s.got) = {}

\* The object a node leads to takes the place of the one it was opened through.
LEMMA NodeKeeps ==
  ASSUME NEW s, Walking(s), held \subseteq LiveIn(s.objs), NEW name
  PROVE  Walking(OpenNode(s, name)) /\ held \subseteq LiveIn(OpenNode(s, name).objs)
<1>1. CASE s.got = NIL
  BY <1>1 DEF OpenNode
<1>2. CASE s.got # NIL
  <2> DEFINE g == s.got
             path == NamesOf(Merge2(s.objs[g].path, name))
             no == FALSE
             t == IF s.objs[g].folder THEN OpenExisting(s, g, path, no, no) ELSE Failed(s)
             u == Closed(t, g)
             e == {t.got} \ {NIL}
             r == OpenNode(s, name)
  <2>1. r = [u EXCEPT !.got = t.got]
    BY <1>2 DEF OpenNode
  <2>2. /\ g \in LiveIn(s.objs) /\ g \notin held /\ IsCall(s) /\ {s.got} \ {NIL} = {g}
        /\ Kept(s.objs, s.fds, held \cup {g}, lost, NIL) /\ Lists(s.objs, tree)
    <3>1. g \in LiveIn(s.objs) /\ g \notin held /\ {s.got} \ {NIL} = {g}
      BY <1>2 DEF Walking
    <3>2. QED BY <3>1 DEF Walking
  <2> HIDE DEF g, path, no
  <2>3. /\ IsCall(t) /\ t.got \in (Objects \ LiveIn(s.objs)) \cup {NIL}
        /\ Kept(t.objs, t.fds, (held \cup {g}) \cup e, lost, NIL)
        /\ LiveIn(t.objs) = LiveIn(s.objs) \cup e
        /\ Lists(t.objs, tree)
        /\ t.got # NIL => Children(t.objs, t.got) = {}
    <3>1. CASE s.objs[g].folder
      <4>1. t = OpenExisting(s, g, path, no, no)
        BY <3>1
      <4>2. LET v == OpenExisting(s, g, path, no, no) IN
            /\ IsCall(v) /\ v.got \in (Objects \ LiveIn(s.objs)) \cup {NIL}
            /\ Kept(v.objs, v.fds, (held \cup {g}) \cup ({v.got} \ {NIL}), lost, NIL)
            /\ LiveIn(v.objs) = LiveIn(s.objs) \cup ({v.got} \ {NIL})
            /\ Lists(v.objs, tree)
            /\ v.got # NIL => Children(v.objs, v.got) = {}
        BY <2>2, OpenExistingKeeps
      <4>3. QED BY <4>1, <4>2
    <3>2. CASE ~s.objs[g].folder
      <4>1. t.objs = s.objs /\ t.fds = s.fds /\ t.got = NIL /\ IsCall(t)
        BY <2>2, <3>2 DEF Failed, IsCall
      <4> HIDE DEF t
      <4>2. e = {}
        BY <4>1
      <4>3. (held \cup {g}) \cup e = held \cup {g} /\ LiveIn(s.objs) \cup e = LiveIn(s.objs)
        BY <4>2
      <4>4. QED BY <2>2, <4>1, <4>3
    <3>3. QED BY <3>1, <3>2
  <2> HIDE DEF t
  <2>4. ((held \cup {g}) \cup e) \ {g} = held \cup e /\ g \in (held \cup {g}) \cup e /\ g # NIL
        /\ (t.got # NIL => e = {t.got} /\ t.got \notin held)
    BY <1>2, <2>2, <2>3 DEF g
  <2>5. Kept(t.objs, t.fds, held \cup e, lost, g)
    <3>1. Kept(t.objs, t.fds, ((held \cup {g}) \cup e) \ {g}, lost, g)
      BY <2>3, <2>4, HandOver
    <3>2. QED BY <2>4, <3>1
  <2>6. /\ IsCall(u) /\ Kept(u.objs, u.fds, held \cup e, lost, NIL)
        /\ SameFiles(t.objs, u.objs)
    BY <2>3, <2>5, ClosedKeeps
  <2>7. Lists(u.objs, tree)
    BY <2>3, <2>6, SameLists
  <2> HIDE DEF u
  <2>8. r.objs = u.objs /\ r.fds = u.fds /\ r.got = t.got /\ IsCall(r)
    BY <2>1, <2>6 DEF IsCall
  <2>9. held \cup e \subseteq LiveIn(u.objs)
    BY <2>6 DEF Kept, Counts
  <2> HIDE DEF r
  <2>10. r.got \in (LiveIn(r.objs) \ held) \cup {NIL}
    BY <2>3, <2>4, <2>8, <2>9
  <2>11. Kept(r.objs, r.fds, held \cup ({r.got} \ {NIL}), lost, NIL)
    BY <2>6, <2>8
  <2>12. r.got # NIL => Children(r.objs, r.got) = {}
    BY <2>3, <2>6, <2>8 DEF Children, SameFiles
  <2>13. QED BY <2>7, <2>8, <2>9, <2>10, <2>11, <2>12 DEF Walking, r
<1>3. QED BY <1>1, <1>2

\* The states the walk goes through
Through(f, nodes, n) ==
  [i \in 0..n |-> IF i = 0 THEN Opened(Now, NIL, Root, TRUE) ELSE OpenNode(f[i - 1], nodes[i])]

\* The recursive function of OpenedThrough exists.
LEMMA ThroughExists ==
  ASSUME NEW nodes, NEW n \in Nat
  PROVE  \E f : f = Through(f, nodes, n)
<1> DEFINE A == {m \in Nat : \E f : f = Through(f, nodes, m)}
           first == Opened(Now, NIL, Root, TRUE)
<1>1. 0 \in A
  <2> DEFINE f == [i \in 0..0 |-> first]
  <2>1. f = Through(f, nodes, 0)
    BY DEF Through
  <2>2. QED BY <2>1
<1>2. ASSUME NEW m \in Nat, m \in A PROVE m + 1 \in A
  <2>1. PICK f : f = Through(f, nodes, m)
    BY <1>2
  <2> DEFINE g == [i \in 0..(m + 1) |-> IF i <= m THEN f[i] ELSE OpenNode(f[m], nodes[m + 1])]
  <2> HIDE DEF first
  <2>2. ASSUME NEW i \in 0..(m + 1)
        PROVE  g[i] = IF i = 0 THEN first ELSE OpenNode(g[i - 1], nodes[i])
    <3>1. CASE i = 0
      <4>1. f[0] = first
        BY <2>1 DEF Through, first
      <4>2. QED BY <3>1, <4>1
    <3>2. CASE i # 0 /\ i <= m
      <4>1. i \in 0..m /\ i - 1 \in 0..m
        BY <3>2
      <4>2. f[i] = OpenNode(f[i - 1], nodes[i])
        BY <2>1, <3>2, <4>1 DEF Through
      <4>3. g[i] = f[i] /\ g[i - 1] = f[i - 1]
        BY <4>1
      <4>4. QED BY <3>2, <4>2, <4>3
    <3>3. CASE i = m + 1
      <4>1. g[i] = OpenNode(f[m], nodes[m + 1]) /\ g[i - 1] = f[m] /\ i # 0
        BY <3>3
      <4>2. QED BY <3>3, <4>1
    <3>4. QED BY <3>1, <3>2, <3>3
  <2>3. DOMAIN g = 0..(m + 1) /\ g = [i \in 0..(m + 1) |-> g[i]]
    OBVIOUS
  <2> HIDE DEF g
  <2>4. g = Through(g, nodes, m + 1)
    BY <2>2, <2>3 DEF Through, first
  <2>5. QED BY <2>4
<1> HIDE DEF A
<1>3. Nat \subseteq A
  BY <1>1, <1>2, SetInduction
<1>4. QED BY <1>3 DEF A

-----------------------------------------------------------------------------
(* The inductive invariant *)

\* The volume holds files and directories.
Tree(tr) == \A p \in DOMAIN tr : tr[p] \in {"file", "folder"}

\* Objects, descriptors and listings are kept, and the program holds what it opened.
FilesInv ==
  /\ writable \in BOOLEAN /\ rootRead \in BOOLEAN /\ Tree(tree)
  /\ Kept(objs, fds, held, lost, NIL)
  /\ Lists(objs, tree)

\* The calls begin in the state there is.
LEMMA NowIs ==
  IsCall(Now) /\ Now.objs = objs /\ Now.fds = fds /\ Now.got = NIL
  BY DEF Now, IsCall

\* What the program holds are objects.
LEMMA HeldLive ==
  ASSUME FilesInv
  PROVE  held \subseteq LiveIn(objs) /\ LiveIn(objs) \subseteq Objects /\ NIL \notin Objects
  BY ObjectsAssumption DEF FilesInv, Kept, Counts, LiveIn

\* The walk over a device path ends with the object it gives, and no other.
LEMMA ThroughKeeps ==
  ASSUME FilesInv, NewFds(Now) # {}, NewObjects(Now) # {}, NEW nodes, Len(nodes) \in Nat
  PROVE  Walking(OpenedThrough(nodes))
<1> DEFINE n == Len(nodes)
           f == CHOOSE f : f = Through(f, nodes, n)
           Good(i) == Walking(f[i]) /\ held \subseteq LiveIn(f[i].objs)
           A == {i \in Nat : i <= n => Good(i)}
<1>1. OpenedThrough(nodes) = f[n]
  BY DEF OpenedThrough, Through
<1>2. f = Through(f, nodes, n)
  BY ThroughExists
<1> HIDE DEF f
<1>3. 0 \in A
  <2> DEFINE yes == TRUE
             s == Opened(Now, NIL, Root, yes)
  <2>1. f[0] = s
    BY <1>2 DEF Through
  <2>2. yes \in BOOLEAN /\ NIL \in LiveIn(Now.objs) \cup {NIL}
    OBVIOUS
  <2>3. Entries(Root) \subseteq EntriesIn(tree, Root)
    BY DEF Entries, EntriesIn
  <2>4. /\ IsCall(Now) /\ Kept(Now.objs, Now.fds, held, lost, NIL) /\ Lists(Now.objs, tree)
        /\ Now.objs = objs
    BY NowIs DEF FilesInv
  <2> HIDE DEF yes
  <2>5. OpenedAs(Now, s, NIL, Root, yes, held, lost)
    BY <2>2, <2>4, OpenedKeeps
  <2>6. Lists(s.objs, tree)
    BY <2>2, <2>3, <2>4, OpenedLists
  <2> HIDE DEF s
  <2>7. Children(s.objs, s.got) = {}
    BY <2>2, <2>4, <2>5, NewHasNone
  <2>8. /\ IsCall(s) /\ s.got \in Objects \ LiveIn(objs) /\ LiveIn(s.objs) = LiveIn(objs) \cup {s.got}
        /\ Kept(s.objs, s.fds, held \cup {s.got}, lost, NIL)
    BY <2>4, <2>5 DEF OpenedAs
  <2>9. /\ {s.got} \ {NIL} = {s.got} /\ s.got \in LiveIn(s.objs) \ held
        /\ held \subseteq LiveIn(s.objs)
    BY <2>8, HeldLive
  <2>10. Walking(s)
    BY <2>6, <2>7, <2>8, <2>9 DEF Walking
  <2>11. Good(0)
    BY <2>1, <2>9, <2>10
  <2>12. QED BY <2>11
<1>4. ASSUME NEW m \in Nat, m \in A PROVE m + 1 \in A
  <2>1. SUFFICES ASSUME m + 1 <= n PROVE Good(m + 1)
    OBVIOUS
  <2>2. m + 1 \in 0..n /\ m + 1 # 0 /\ (m + 1) - 1 = m /\ m <= n
    BY <2>1
  <2>3. Good(m)
    BY <1>4, <2>2
  <2>4. f[m + 1] = OpenNode(f[m], nodes[m + 1])
    BY <1>2, <2>2 DEF Through
  <2>5. QED BY <2>3, <2>4, NodeKeeps
<1>5. n \in A => Good(n)
  OBVIOUS
<1> HIDE DEF A
<1>6. Nat \subseteq A
  BY <1>3, <1>4, SetInduction
<1>7. QED BY <1>1, <1>5, <1>6

-----------------------------------------------------------------------------
(* The steps *)

\* OpenVolume gives a root.
LEMMA VolumeStep ==
  ASSUME FilesInv, OpenVolume
  PROVE  FilesInv'
<1> DEFINE yes == TRUE
           s == Opened(Now, NIL, Root, yes)
<1>1. /\ NewFds(Now) # {} /\ NewObjects(Now) # {}
      /\ objs' = s.objs /\ fds' = s.fds /\ held' = held \cup {s.got}
      /\ UNCHANGED <<writable, tree, rootRead, lost>>
  BY DEF OpenVolume, Become
<1>2. yes \in BOOLEAN /\ NIL \in LiveIn(Now.objs) \cup {NIL}
  OBVIOUS
<1>3. Entries(Root) \subseteq EntriesIn(tree, Root)
  BY DEF Entries, EntriesIn
<1>4. IsCall(Now) /\ Kept(Now.objs, Now.fds, held, lost, NIL) /\ Lists(Now.objs, tree)
  BY NowIs DEF FilesInv
<1> HIDE DEF yes
<1>5. OpenedAs(Now, s, NIL, Root, yes, held, lost)
  BY <1>1, <1>2, <1>4, OpenedKeeps
<1>6. Lists(s.objs, tree)
  BY <1>1, <1>2, <1>3, <1>4, OpenedLists
<1> HIDE DEF s
<1>7. Kept(s.objs, s.fds, held \cup {s.got}, lost, NIL)
  BY <1>5 DEF OpenedAs
<1>8. QED BY <1>1, <1>6, <1>7 DEF FilesInv

\* Open of what exists
LEMMA OpenStep ==
  ASSUME FilesInv, NEW p \in held, NEW asked, NEW w, NEW d, OpenFile(p, asked, w, d)
  PROVE  FilesInv'
<1> DEFINE path == NamesOf(Merge2(objs[p].path, asked))
           s == OpenExisting(Now, p, path, w, d)
<1>1. /\ objs' = s.objs /\ fds' = s.fds /\ held' = held \cup ({s.got} \ {NIL})
      /\ UNCHANGED <<writable, tree, rootRead, lost>>
  BY DEF OpenFile, Become
<1>2. /\ IsCall(Now) /\ Kept(Now.objs, Now.fds, held, lost, NIL) /\ Lists(Now.objs, tree)
      /\ p \in LiveIn(Now.objs)
  BY NowIs, HeldLive DEF FilesInv
<1> HIDE DEF path
<1>3. /\ Kept(s.objs, s.fds, held \cup ({s.got} \ {NIL}), lost, NIL)
      /\ Lists(s.objs, tree)
  BY <1>2, OpenExistingKeeps
<1> HIDE DEF s
<1>4. QED BY <1>1, <1>3 DEF FilesInv

\* The tree with one more path
Grown(tr, path, kind) == [q \in DOMAIN tr \cup {path} |-> IF q = path THEN kind ELSE tr[q]]

\* What is listed stays listed when something is made.
LEMMA GrownIs ==
  ASSUME NEW tr, NEW path, NEW kind \in {"file", "folder"}, Tree(tr), NEW o, Lists(o, tr)
  PROVE  Tree(Grown(tr, path, kind)) /\ Lists(o, Grown(tr, path, kind))
         /\ \A q : EntriesIn(tr, q) \subseteq EntriesIn(Grown(tr, path, kind), q)
<1>1. Tree(Grown(tr, path, kind))
  BY DEF Tree, Grown
<1>2. \A q : EntriesIn(tr, q) \subseteq EntriesIn(Grown(tr, path, kind), q)
  BY DEF EntriesIn, Grown
<1>3. Lists(o, Grown(tr, path, kind))
  BY <1>2 DEF Lists
<1>4. QED BY <1>1, <1>2, <1>3

\* A new directory
LEMMA FolderStep ==
  ASSUME FilesInv, NEW p \in held, NEW asked, CreateFolder(p, asked)
  PROVE  FilesInv'
<1> DEFINE path == NamesOf(Merge2(objs[p].path, asked))
<1>1. tree' = Grown(tree, path, "folder") /\ UNCHANGED <<writable, objs, fds, held, rootRead, lost>>
  BY DEF CreateFolder, Grown
<1> HIDE DEF path
<1>2. Tree(Grown(tree, path, "folder")) /\ Lists(objs, Grown(tree, path, "folder"))
  BY GrownIs DEF FilesInv
<1>3. QED BY <1>1, <1>2 DEF FilesInv

\* A new file, whose first descriptor nobody knows of
LEMMA FileStep ==
  ASSUME FilesInv, NEW p \in held, NEW asked, CreateFile(p, asked)
  PROVE  FilesInv'
<1> DEFINE path == NamesOf(Merge2(objs[p].path, asked))
           first == Min(NewFds(Now))
           s == WithFd(Now, first, path)
           no == FALSE
           t == IF NewFds(s) = {} \/ NewObjects(s) = {} THEN Failed(s) ELSE Opened(s, p, path, no)
           e == [c \in DOMAIN fds \cup {first} |-> IF c = first THEN path ELSE fds[c]]
           tr == Grown(tree, path, "file")
           forgot == lost \cup {first}
<1>1. /\ NewFds(Now) # {} /\ tree' = tr /\ objs' = t.objs /\ fds' = t.fds
      /\ held' = held \cup ({t.got} \ {NIL}) /\ lost' = forgot
      /\ UNCHANGED <<writable, rootRead>>
  BY DEF CreateFile, Become, Grown
<1>2. first \in Fds \ DOMAIN fds
  <2>1. NewFds(Now) \subseteq Nat
    BY FdsAssumption DEF NewFds
  <2>2. first \in NewFds(Now)
    BY <1>1, <2>1, MinOf
  <2>3. QED BY <2>2, NowIs DEF NewFds
<1> HIDE DEF path, first, no
<1>3. s.objs = objs /\ s.fds = e /\ IsCall(s)
  BY DEF WithFd, Now, IsCall
<1>4. Descriptors(objs, e, forgot)
  <2>1. Descriptors(objs, fds, lost)
    BY DEF FilesInv, Kept
  <2>2. /\ DOMAIN e = DOMAIN fds \cup {first} /\ \A c \in DOMAIN fds : e[c] = fds[c]
    BY <1>2
  <2> HIDE DEF e
  <2>3. QED BY <1>2, <2>1, <2>2 DEF Descriptors
<1>5. Kept(s.objs, s.fds, held, forgot, NIL)
  BY <1>3, <1>4 DEF FilesInv, Kept
<1>6. Tree(tr) /\ Lists(s.objs, tr) /\ EntriesIn(tree, path) \subseteq EntriesIn(tr, path)
  BY <1>3, GrownIs DEF FilesInv
<1>7. p \in LiveIn(s.objs) /\ held \subseteq LiveIn(s.objs)
  BY <1>3, HeldLive
<1> HIDE DEF s, tr, e, forgot
<1>8. Kept(t.objs, t.fds, held \cup ({t.got} \ {NIL}), forgot, NIL) /\ Lists(t.objs, tr)
  <2>1. CASE t = Failed(s)
    <3>1. t.objs = s.objs /\ t.fds = s.fds /\ t.got = NIL
      BY <1>3, <2>1 DEF Failed, IsCall
    <3> HIDE DEF t
    <3>2. held \cup ({t.got} \ {NIL}) = held
      BY <3>1
    <3>3. QED BY <1>5, <1>6, <3>1, <3>2
  <2>2. CASE t # Failed(s)
    <3>1. t = Opened(s, p, path, no) /\ NewFds(s) # {} /\ NewObjects(s) # {}
      BY <2>2
    <3>2. no \in BOOLEAN /\ p \in LiveIn(s.objs) \cup {NIL}
      BY <1>7 DEF no
    <3>3. Entries(path) \subseteq EntriesIn(tr, path)
      BY <1>6 DEF Entries, EntriesIn
    <3>4. OpenedAs(s, Opened(s, p, path, no), p, path, no, held, forgot)
      BY <1>3, <1>5, <3>1, <3>2, OpenedKeeps
    <3>5. Lists(Opened(s, p, path, no).objs, tr)
      BY <1>3, <1>5, <1>6, <3>1, <3>2, <3>3, OpenedLists
    <3> HIDE DEF t
    <3>6. t.got \in Objects \ LiveIn(s.objs) /\ Kept(t.objs, t.fds, held \cup {t.got}, forgot, NIL)
      BY <3>1, <3>4 DEF OpenedAs
    <3>7. {t.got} \ {NIL} = {t.got}
      BY <3>6, ObjectsAssumption
    <3>8. QED BY <3>1, <3>5, <3>6, <3>7
  <2>3. QED BY <2>1, <2>2
<1> HIDE DEF t
<1>9. QED BY <1>1, <1>6, <1>8 DEF FilesInv

\* What Close and Delete leave of the objects
LEMMA GivenUp ==
  ASSUME FilesInv, NEW h \in held
  PROVE  LET s == Closed(Now, h) IN
         /\ Kept(s.objs, s.fds, held \ {h}, lost, NIL) /\ Lists(s.objs, tree)
<1>1. h # NIL /\ Kept(objs, fds, held \ {h}, lost, h)
  <2>1. h # NIL
    BY HeldLive
  <2>2. QED BY <2>1, HandOver DEF FilesInv
<1>2. IsCall(Now) /\ Kept(Now.objs, Now.fds, held \ {h}, lost, h) /\ Now.objs = objs
  BY <1>1, NowIs
<1> DEFINE s == Closed(Now, h)
<1>3. Kept(s.objs, s.fds, held \ {h}, lost, NIL) /\ SameFiles(Now.objs, s.objs)
  BY <1>2, ClosedKeeps
<1> HIDE DEF s
<1>4. Lists(s.objs, tree)
  BY <1>2, <1>3, SameLists DEF FilesInv
<1>5. QED BY <1>3, <1>4 DEF s

\* Close
LEMMA ReleaseStep ==
  ASSUME FilesInv, NEW h \in held, Close(h)
  PROVE  FilesInv'
<1>1. /\ objs' = Closed(Now, h).objs /\ fds' = Closed(Now, h).fds /\ held' = held \ {h}
      /\ UNCHANGED <<writable, tree, rootRead, lost>>
  BY DEF Close, Become
<1>2. QED BY <1>1, GivenUp DEF FilesInv

\* Objects that differ in what they have read and must give count the same and keep
\* their descriptors.
SameHandles(o, p) ==
  /\ AreFiles(p) /\ LiveIn(p) = LiveIn(o)
  /\ \A h \in LiveIn(o) :
       /\ p[h].path = o[h].path /\ p[h].folder = o[h].folder /\ p[h].parent = o[h].parent
       /\ p[h].fd = o[h].fd /\ p[h].top = o[h].top /\ p[h].refcnt = o[h].refcnt

\* They are kept as well.
LEMMA SameKept ==
  ASSUME NEW o, NEW p, NEW f, NEW hold, NEW forgot, NEW at,
         SameHandles(o, p), Kept(o, f, hold, forgot, at)
  PROVE  Kept(p, f, hold, forgot, at)
<1>1. \A h : Children(p, h) = Children(o, h)
  BY DEF Children, SameHandles
<1>2. Counts(p, hold, at)
  BY <1>1 DEF Kept, Counts, SameHandles
<1>3. Descriptors(p, f, forgot)
  BY DEF Kept, Descriptors, SameHandles
<1>4. QED BY <1>2, <1>3 DEF Kept, SameHandles

\* Nothing but what directories must give changes.
LEMMA UnlistedIs ==
  ASSUME NEW o, AreFiles(o), NEW path
  PROVE  SameHandles(o, Unlisted(o, path))
         /\ \A h \in Objects : /\ Unlisted(o, path)[h].due = o[h].due \ {path}
                               /\ Unlisted(o, path)[h].read = o[h].read
                               /\ Unlisted(o, path)[h].buffer = o[h].buffer
<1> DEFINE p == Unlisted(o, path)
<1>1. \A h \in Objects : p[h] = [o[h] EXCEPT !.due = @ \ {path}]
  BY DEF Unlisted
<1>2. p = [h \in Objects |-> p[h]]
  BY DEF Unlisted
<1> HIDE DEF p
<1>3. ASSUME NEW h \in Objects
      PROVE  /\ IsFile(p[h]) /\ p[h].live = o[h].live /\ p[h].path = o[h].path
             /\ p[h].folder = o[h].folder /\ p[h].parent = o[h].parent /\ p[h].fd = o[h].fd
             /\ p[h].top = o[h].top /\ p[h].refcnt = o[h].refcnt /\ p[h].due = o[h].due \ {path}
             /\ p[h].read = o[h].read /\ p[h].buffer = o[h].buffer
  <2>1. IsFile(o[h])
    BY DEF AreFiles
  <2>2. p[h] = [o[h] EXCEPT !.due = @ \ {path}]
    BY <1>1
  <2>3. QED BY <2>1, <2>2 DEF IsFile
<1>4. LiveIn(p) = LiveIn(o)
  BY <1>3 DEF LiveIn
<1>5. AreFiles(p)
  BY <1>2, <1>3 DEF AreFiles
<1>6. \A h \in LiveIn(o) : h \in Objects
  BY DEF LiveIn
<1>7. QED BY <1>3, <1>4, <1>5, <1>6 DEF SameHandles, p

\* Delete closes the object, and what it unlinked must be listed no more.
LEMMA DeleteStep ==
  ASSUME FilesInv, NEW h \in held, Delete(h)
  PROVE  FilesInv'
<1> DEFINE s == Closed(Now, h)
           path == objs[h].path
           tr == [q \in DOMAIN tree \ {path} |-> tree[q]]
<1>1. held' = held \ {h} /\ UNCHANGED <<writable, rootRead, lost>>
  BY DEF Delete
<1>2. Kept(s.objs, s.fds, held \ {h}, lost, NIL) /\ Lists(s.objs, tree)
  BY GivenUp
<1>3. CASE objs' = s.objs /\ fds' = s.fds /\ tree' = tree
  BY <1>1, <1>2, <1>3 DEF FilesInv
<1>4. CASE CanUnlink(objs[h])
  <2> DEFINE p == Unlisted(s.objs, path)
  <2>1. tree' = tr /\ objs' = p /\ fds' = s.fds
    <3>1. IsCall(s)
      <4>1. Kept(objs, fds, held \ {h}, lost, h)
        BY HeldLive, HandOver DEF FilesInv
      <4>2. IsCall(Now) /\ Kept(Now.objs, Now.fds, held \ {h}, lost, h)
        BY <4>1, NowIs
      <4>3. QED BY <4>2, ClosedKeeps
    <3>2. tree' = tr /\ Become([s EXCEPT !.objs = p])
      BY <1>4 DEF Delete
    <3> HIDE DEF s, tr, path, p
    <3>3. [s EXCEPT !.objs = p] = [objs |-> p, fds |-> s.fds, got |-> s.got, at |-> s.at]
      BY <3>1 DEF IsCall
    <3>4. QED BY <3>2, <3>3 DEF Become
  <2> HIDE DEF s, path
  <2>2. /\ SameHandles(s.objs, p)
        /\ \A g \in Objects : /\ p[g].due = s.objs[g].due \ {path}
                              /\ p[g].read = s.objs[g].read /\ p[g].buffer = s.objs[g].buffer
    <3>1. AreFiles(s.objs)
      BY <1>2 DEF Kept
    <3>2. QED BY <3>1, UnlistedIs
  <2> HIDE DEF p
  <2>3. Kept(p, s.fds, held \ {h}, lost, NIL)
    BY <1>2, <2>2, SameKept
  <2>4. Tree(tr)
    BY DEF FilesInv, Tree
  <2>5. \A q : EntriesIn(tr, q) = EntriesIn(tree, q) \ {path}
    BY DEF EntriesIn
  <2> HIDE DEF tr
  <2>6. Lists(p, tr)
    <3> SUFFICES ASSUME NEW g \in LiveIn(p)
                 PROVE  /\ p[g].top = (p[g].parent = NIL)
                        /\ p[g].folder \/ p[g].due = {}
                        /\ p[g].folder /\ ~p[g].top =>
                             /\ p[g].due \subseteq EntriesIn(tr, p[g].path)
                             /\ p[g].read \/ p[g].buffer # {} => p[g].due \subseteq p[g].buffer
      BY DEF Lists
    <3>1. /\ g \in LiveIn(s.objs) /\ p[g].path = s.objs[g].path /\ p[g].folder = s.objs[g].folder
          /\ p[g].parent = s.objs[g].parent /\ p[g].top = s.objs[g].top
          /\ p[g].due = s.objs[g].due \ {path}
          /\ p[g].read = s.objs[g].read /\ p[g].buffer = s.objs[g].buffer
      BY <2>2 DEF SameHandles, LiveIn
    <3>2. /\ s.objs[g].top = (s.objs[g].parent = NIL)
          /\ s.objs[g].folder \/ s.objs[g].due = {}
          /\ s.objs[g].folder /\ ~s.objs[g].top =>
               /\ s.objs[g].due \subseteq EntriesIn(tree, s.objs[g].path)
               /\ s.objs[g].read \/ s.objs[g].buffer # {} => s.objs[g].due \subseteq s.objs[g].buffer
      BY <1>2, <3>1 DEF Lists
    <3>3. QED BY <2>5, <3>1, <3>2
  <2>7. QED BY <1>1, <2>1, <2>3, <2>4, <2>6 DEF FilesInv
<1>5. CASE ~CanUnlink(objs[h])
  <2>1. objs' = s.objs /\ fds' = s.fds /\ tree' = tree
    BY <1>5 DEF Delete, Become
  <2>2. QED BY <1>3, <2>1
<1>6. QED BY <1>4, <1>5


\* OpenFromDevicePath of LoadImage
LEMMA NodesStep ==
  ASSUME FilesInv, NEW nodes, Len(nodes) \in Nat, OpenFromDevicePath(nodes)
  PROVE  FilesInv'
<1> DEFINE s == OpenedThrough(nodes)
<1>1. NewFds(Now) # {} /\ NewObjects(Now) # {}
  BY DEF OpenFromDevicePath
<1>2. objs' = s.objs /\ fds' = s.fds /\ held' = held \cup ({s.got} \ {NIL})
  BY DEF OpenFromDevicePath, Become
<1>3. UNCHANGED <<writable, tree, rootRead, lost>>
  BY DEF OpenFromDevicePath
<1>4. Walking(s)
  BY <1>1, ThroughKeeps
<1> HIDE DEF s
<1>5. QED BY <1>2, <1>3, <1>4 DEF FilesInv, Walking

\* The object c stays where it is, but nobody knows it any more.
Leaked(o, c) == [o EXCEPT ![c].live = FALSE, ![c].leaked = TRUE]

\* Nothing else changes.
LEMMA LeakedIs ==
  ASSUME NEW o, AreFiles(o), NEW c \in LiveIn(o)
  PROVE  /\ AreFiles(Leaked(o, c)) /\ SameFiles(o, Leaked(o, c))
         /\ LiveIn(Leaked(o, c)) = LiveIn(o) \ {c}
         /\ \A h \in LiveIn(o) \ {c} : Leaked(o, c)[h] = o[h]
<1> DEFINE p == Leaked(o, c)
           x == o[c]
           yes == TRUE
           no == FALSE
           w == [live |-> no, leaked |-> yes, path |-> x.path, folder |-> x.folder,
                 parent |-> x.parent, refcnt |-> x.refcnt, fd |-> x.fd, top |-> x.top,
                 read |-> x.read, buffer |-> x.buffer, due |-> x.due]
<1>1. c \in Objects /\ IsFile(x) /\ x.refcnt \in Nat
  BY DEF LiveIn, AreFiles
<1>2. p = [g \in Objects |-> IF g = c THEN w ELSE o[g]]
  <2>1. p = [g \in Objects |->
               IF g = c THEN [[x EXCEPT !.live = no] EXCEPT !.leaked = yes] ELSE o[g]]
    BY <1>1 DEF Leaked, AreFiles
  <2>2. [[x EXCEPT !.live = no] EXCEPT !.leaked = yes] = w
    <3> HIDE DEF yes, no
    <3> DEFINE y == [x EXCEPT !.live = no]
    <3>1. y = [live |-> no, leaked |-> x.leaked, path |-> x.path, folder |-> x.folder,
               parent |-> x.parent, refcnt |-> x.refcnt, fd |-> x.fd, top |-> x.top,
               read |-> x.read, buffer |-> x.buffer, due |-> x.due]
      BY <1>1 DEF IsFile
    <3> HIDE DEF y
    <3>2. [y EXCEPT !.leaked = yes] = w
      BY <3>1
    <3>3. QED BY <3>2 DEF y
  <2>3. QED BY <2>1, <2>2
<1> HIDE DEF p
<1>3. p[c] = w /\ \A g \in Objects : g # c => p[g] = o[g]
  BY <1>1, <1>2
<1>4. IsFile(w) /\ w.live = FALSE /\ w.refcnt \in Nat
  <2>1. w.refcnt = x.refcnt /\ w.live = no
    OBVIOUS
  <2>2. IsFile(w)
    <3> HIDE DEF yes, no
    <3>1. QED BY DEF IsFile
  <2>3. QED BY <1>1, <2>1, <2>2
<1> HIDE DEF w
<1>5. AreFiles(p)
  <2>1. p = [g \in Objects |-> p[g]]
    BY <1>2
  <2>2. ASSUME NEW g \in Objects
        PROVE  IsFile(p[g]) /\ p[g].live \in BOOLEAN /\ p[g].refcnt \in Nat
    BY <1>3, <1>4 DEF AreFiles
  <2>3. QED BY <2>1, <2>2 DEF AreFiles
<1>6. LiveIn(p) = LiveIn(o) \ {c}
  BY <1>3, <1>4 DEF LiveIn
<1>7. \A h \in LiveIn(o) \ {c} : p[h] = o[h]
  BY <1>3 DEF LiveIn
<1>8. SameFiles(o, p)
  BY <1>6, <1>7 DEF SameFiles
<1>9. QED BY <1>5, <1>6, <1>7, <1>8 DEF p

\* The object nobody knows any more, through which nothing is opened, still counts for
\* the one it was opened through, like a close of that one under way; its descriptor is
\* forgotten.
LEMMA LeakedKeeps ==
  ASSUME NEW o, NEW f, NEW hold, NEW forgot, NEW c \in LiveIn(o), c \notin hold,
         Kept(o, f, hold \cup {c}, forgot, NIL), Children(o, c) = {}
  PROVE  Kept(Leaked(o, c), f, hold, forgot \cup {o[c].fd}, o[c].parent)
<1> DEFINE p == Leaked(o, c)
           y == o[c].parent
<1>1. AreFiles(o) /\ c \in Objects /\ NIL \notin Objects /\ NIL \notin LiveIn(o)
  BY ObjectsAssumption DEF Kept, LiveIn
<1>2. /\ AreFiles(p) /\ LiveIn(p) = LiveIn(o) \ {c}
      /\ \A h \in LiveIn(o) \ {c} : p[h] = o[h]
  BY <1>1, LeakedIs
<1> HIDE DEF p
<1>3. y \in LiveIn(p) \cup {NIL}
  <2>1. y \in LiveIn(o) \cup {NIL}
    BY DEF Kept, Counts
  <2>2. y # c
    BY DEF Children
  <2>3. QED BY <1>2, <2>1, <2>2
<1>4. Counts(p, hold, y)
  <2>1. hold \subseteq LiveIn(p)
    BY <1>2 DEF Kept, Counts
  <2>2. ASSUME NEW h \in LiveIn(p)
        PROVE  /\ p[h].refcnt = Cardinality(Children(p, h)) + One(h \in hold) + One(h = y)
               /\ p[h].refcnt > 0
               /\ p[h].parent \in LiveIn(p) \cup {NIL}
    <3>1. h \in LiveIn(o) /\ h # c /\ h # NIL /\ p[h] = o[h]
      BY <1>1, <1>2, <2>2
    <3>2. /\ o[h].refcnt = Cardinality(Children(o, h)) + One(h \in hold \cup {c}) + One(h = NIL)
          /\ o[h].refcnt > 0 /\ o[h].parent \in LiveIn(o) \cup {NIL}
      BY <3>1 DEF Kept, Counts
    <3>3. o[h].parent # c
      BY <3>1 DEF Children
    <3>4. Children(p, h) = Children(o, h) \ {c}
      BY <1>2 DEF Children
    <3>5. Children(o, h) \subseteq Objects
      BY DEF Children, LiveIn
    <3>6. Cardinality(Children(o, h)) \in Nat
      BY <3>5, Countable
    <3>7. One(h = NIL) = 0 /\ One(h \in hold \cup {c}) = One(h \in hold) /\ One(h \in hold) \in Nat
      BY <3>1 DEF One
    <3>8. Cardinality(Children(p, h)) + One(h = y) = Cardinality(Children(o, h))
      <4>1. CASE h = y
        <5>1. c \in Children(o, h)
          BY <4>1 DEF Children
        <5>2. Cardinality(Children(p, h)) = Cardinality(Children(o, h)) - 1
          BY <3>4, <3>5, <5>1, OneLess
        <5>3. One(h = y) = 1
          BY <4>1 DEF One
        <5>4. QED BY <3>6, <5>2, <5>3
      <4>2. CASE h # y
        <5>1. Children(p, h) = Children(o, h)
          BY <3>4, <4>2 DEF Children
        <5>2. One(h = y) = 0
          BY <4>2 DEF One
        <5>3. QED BY <3>6, <5>1, <5>2
      <4>3. QED BY <4>1, <4>2
    <3>9. Cardinality(Children(p, h)) \in Nat /\ One(h = y) \in Nat
      <4>1. Children(p, h) \subseteq Objects
        BY DEF Children, LiveIn
      <4>2. QED BY <4>1, Countable DEF One
    <3>10. p[h].refcnt = Cardinality(Children(p, h)) + One(h \in hold) + One(h = y)
      BY <3>1, <3>2, <3>6, <3>7, <3>8, <3>9
    <3>11. QED BY <1>2, <3>1, <3>2, <3>3, <3>10
  <2>3. QED BY <1>3, <2>1, <2>2 DEF Counts
<1>5. Descriptors(p, f, forgot \cup {o[c].fd})
  BY <1>2 DEF Kept, Descriptors
<1>6. QED BY <1>2, <1>4, <1>5 DEF Kept, p

\* The walk that meets a node that is no media node: the object it has opened stays,
\* the one it was opened through is closed again.
LEMMA BeyondStep ==
  ASSUME FilesInv, NEW nodes, Len(nodes) \in Nat, OpenBeyond(nodes)
  PROVE  FilesInv'
<1> DEFINE s == OpenedThrough(nodes)
           c == s.got
           y == s.objs[c].parent
           d == s.objs[c].fd
           p == Leaked(s.objs, c)
           u == Forgotten(s, c)
           r == Closed(u, y)
           forgot == lost \cup {d}
<1>1. NewFds(Now) # {} /\ NewObjects(Now) # {} /\ c # NIL
  BY DEF OpenBeyond
<1>2. objs' = r.objs /\ fds' = r.fds /\ lost' = forgot /\ UNCHANGED <<writable, tree, held, rootRead>>
  BY DEF OpenBeyond, Become
<1>3. Walking(s)
  BY <1>1, ThroughKeeps
<1> HIDE DEF s
<1>4. /\ IsCall(s) /\ c \in LiveIn(s.objs) /\ c \notin held /\ {s.got} \ {NIL} = {c}
      /\ Lists(s.objs, tree) /\ Children(s.objs, c) = {}
  BY <1>1, <1>3 DEF Walking
<1>5. Kept(s.objs, s.fds, held \cup {c}, lost, NIL)
  BY <1>3, <1>4 DEF Walking
<1> HIDE DEF c
<1>6. u.objs = p /\ u.fds = s.fds /\ IsCall(u)
  <2>1. u = [s EXCEPT !.objs = p]
    BY <1>4 DEF Forgotten, Leaked, IsCall
  <2> HIDE DEF u, p
  <2>2. QED BY <1>4, <2>1 DEF IsCall
<1>7. Kept(p, s.fds, held, forgot, y)
  BY <1>4, <1>5, LeakedKeeps
<1>8. SameFiles(s.objs, p)
  BY <1>4, <1>5, LeakedIs DEF Kept
<1> HIDE DEF u, p, y, forgot
<1>9. Kept(r.objs, r.fds, held, forgot, NIL) /\ SameFiles(p, r.objs)
  BY <1>6, <1>7, ClosedKeeps
<1> HIDE DEF r
<1>10. Lists(r.objs, tree)
  BY <1>4, <1>8, <1>9, SameLists
<1>11. QED BY <1>2, <1>9, <1>10 DEF FilesInv

\* The stream of h has read and given something.
Streamed(o, h, buffer, due, read) ==
  [o EXCEPT ![h].buffer = buffer, ![h].due = due, ![h].read = read]

\* Nothing else of h changes.
LEMMA StreamedIs ==
  ASSUME NEW o, AreFiles(o), NEW h \in Objects, NEW buffer, NEW due, NEW read
  PROVE  LET p == Streamed(o, h, buffer, due, read) IN
         /\ SameHandles(o, p)
         /\ p[h].buffer = buffer /\ p[h].due = due /\ p[h].read = read
         /\ \A g \in Objects : g # h => p[g] = o[g]
<1> DEFINE p == Streamed(o, h, buffer, due, read)
           x == o[h]
           w == [live |-> x.live, leaked |-> x.leaked, path |-> x.path, folder |-> x.folder,
                 parent |-> x.parent, refcnt |-> x.refcnt, fd |-> x.fd, top |-> x.top, read |-> read,
                 buffer |-> buffer, due |-> due]
<1>1. IsFile(x)
  BY DEF AreFiles
<1>2. p = [g \in Objects |-> IF g = h THEN w ELSE o[g]]
  <2>1. p = [g \in Objects |->
               IF g = h THEN [[[x EXCEPT !.buffer = buffer] EXCEPT !.due = due] EXCEPT !.read = read]
               ELSE o[g]]
    BY DEF Streamed, AreFiles
  <2>2. [[[x EXCEPT !.buffer = buffer] EXCEPT !.due = due] EXCEPT !.read = read] = w
    <3> DEFINE y == [x EXCEPT !.buffer = buffer]
               z == [y EXCEPT !.due = due]
    <3>1. y = [live |-> x.live, leaked |-> x.leaked, path |-> x.path, folder |-> x.folder,
               parent |-> x.parent, refcnt |-> x.refcnt, fd |-> x.fd, top |-> x.top, read |-> x.read,
               buffer |-> buffer, due |-> x.due]
      BY <1>1 DEF IsFile
    <3> HIDE DEF y
    <3>2. z = [live |-> x.live, leaked |-> x.leaked, path |-> x.path, folder |-> x.folder,
               parent |-> x.parent, refcnt |-> x.refcnt, fd |-> x.fd, top |-> x.top, read |-> x.read,
               buffer |-> buffer, due |-> due]
      BY <3>1
    <3> HIDE DEF z
    <3>3. [z EXCEPT !.read = read] = w
      BY <3>2
    <3>4. QED BY <3>3 DEF y, z
  <2>3. QED BY <2>1, <2>2
<1> HIDE DEF p
<1>3. p[h] = w /\ \A g \in Objects : g # h => p[g] = o[g]
  BY <1>2
<1>4. /\ IsFile(w) /\ w.live = x.live /\ w.path = x.path /\ w.folder = x.folder
      /\ w.parent = x.parent /\ w.refcnt = x.refcnt /\ w.fd = x.fd /\ w.top = x.top
      /\ w.read = read /\ w.buffer = buffer /\ w.due = due
  BY DEF IsFile
<1> HIDE DEF w
<1>5. LiveIn(p) = LiveIn(o)
  BY <1>3, <1>4 DEF LiveIn
<1>6. AreFiles(p)
  <2>1. p = [g \in Objects |-> p[g]]
    BY <1>2
  <2>2. ASSUME NEW g \in Objects
        PROVE  IsFile(p[g]) /\ p[g].live \in BOOLEAN /\ p[g].refcnt \in Nat
    BY <1>3, <1>4 DEF AreFiles
  <2>3. QED BY <2>1, <2>2 DEF AreFiles
<1>7. \A g \in LiveIn(o) :
        /\ p[g].path = o[g].path /\ p[g].folder = o[g].folder /\ p[g].parent = o[g].parent
        /\ p[g].fd = o[g].fd /\ p[g].top = o[g].top /\ p[g].refcnt = o[g].refcnt
  BY <1>3, <1>4 DEF LiveIn
<1>8. QED BY <1>3, <1>4, <1>5, <1>6, <1>7 DEF SameHandles, p

\* A stream keeps the lists if what its directory must still give is in its buffer
\* where it must be.
LEMMA StreamKeeps ==
  ASSUME FilesInv, NEW h \in held, NEW buffer, NEW due, NEW read, due \subseteq objs[h].due,
         ~objs[h].top => (read \/ buffer # {} => due \subseteq buffer)
  PROVE  LET p == Streamed(objs, h, buffer, due, read) IN
         Kept(p, fds, held, lost, NIL) /\ Lists(p, tree)
<1> DEFINE p == Streamed(objs, h, buffer, due, read)
<1>1. h \in Objects /\ h \in LiveIn(objs) /\ AreFiles(objs)
  BY HeldLive DEF FilesInv, Kept
<1>2. /\ SameHandles(objs, p)
      /\ p[h].buffer = buffer /\ p[h].due = due /\ p[h].read = read
      /\ \A g \in Objects : g # h => p[g] = objs[g]
  BY <1>1, StreamedIs
<1> HIDE DEF p
<1>3. Kept(p, fds, held, lost, NIL)
  BY <1>2, SameKept DEF FilesInv
<1>4. ASSUME NEW g \in LiveIn(p)
      PROVE  /\ p[g].top = (p[g].parent = NIL)
             /\ p[g].folder \/ p[g].due = {}
             /\ p[g].folder /\ ~p[g].top =>
                  /\ p[g].due \subseteq EntriesIn(tree, p[g].path)
                  /\ p[g].read \/ p[g].buffer # {} => p[g].due \subseteq p[g].buffer
  <2>1. /\ g \in LiveIn(objs) /\ g \in Objects
        /\ p[g].path = objs[g].path /\ p[g].folder = objs[g].folder
        /\ p[g].parent = objs[g].parent /\ p[g].top = objs[g].top
    BY <1>2 DEF SameHandles, LiveIn
  <2>2. /\ objs[g].top = (objs[g].parent = NIL)
        /\ objs[g].folder \/ objs[g].due = {}
        /\ objs[g].folder /\ ~objs[g].top =>
             /\ objs[g].due \subseteq EntriesIn(tree, objs[g].path)
             /\ objs[g].read \/ objs[g].buffer # {} => objs[g].due \subseteq objs[g].buffer
    BY <2>1 DEF FilesInv, Lists
  <2>3. CASE g # h
    BY <1>2, <2>1, <2>2, <2>3
  <2>4. CASE g = h
    BY <1>2, <2>1, <2>2, <2>4
  <2>5. QED BY <2>3, <2>4
<1>5. QED BY <1>3, <1>4 DEF Lists, p

\* What a directory that was opened by name must give is there.
LEMMA DueIsThere ==
  ASSUME FilesInv, NEW h \in held, objs[h].folder, ~objs[h].top
  PROVE  /\ objs[h].due \subseteq Entries(objs[h].path)
         /\ objs[h].read \/ objs[h].buffer # {} => objs[h].due \subseteq objs[h].buffer
<1>1. h \in LiveIn(objs)
  BY HeldLive
<1>2. /\ objs[h].due \subseteq EntriesIn(tree, objs[h].path)
      /\ objs[h].read \/ objs[h].buffer # {} => objs[h].due \subseteq objs[h].buffer
  BY <1>1 DEF FilesInv, Lists
<1>3. EntriesIn(tree, objs[h].path) = Entries(objs[h].path)
  BY DEF Entries, EntriesIn
<1>4. QED BY <1>2, <1>3

\* The next entry of a directory
LEMMA ReadStep ==
  ASSUME FilesInv, NEW h \in held, ReadFolder(h)
  PROVE  FilesInv'
<1> DEFINE x == objs[h]
           from == IF x.buffer = {} THEN Remaining(h) ELSE x.buffer
           read == (x.read \/ (x.buffer = {} /\ ~x.top))
<1>1. PICK e \in from :
        objs' = [objs EXCEPT ![h].buffer = from \ {e}, ![h].due = @ \ {e},
                             ![h].read = @ \/ (x.buffer = {} /\ ~x.top)]
  BY DEF ReadFolder
<1>2. /\ x.folder /\ rootRead' = (rootRead \/ (x.buffer = {} /\ x.top))
      /\ UNCHANGED <<writable, tree, fds, held, lost>>
  BY DEF ReadFolder
<1> DEFINE buffer == from \ {e}
           due == x.due \ {e}
           p == Streamed(objs, h, buffer, due, read)
<1>3. objs' = p
  <2>1. h \in Objects /\ AreFiles(objs) /\ IsFile(x)
    BY HeldLive DEF FilesInv, Kept, AreFiles
  <2> HIDE DEF buffer
  <2>2. objs' = [objs EXCEPT ![h].buffer = buffer, ![h].due = @ \ {e},
                             ![h].read = @ \/ (x.buffer = {} /\ ~x.top)]
    BY <1>1 DEF buffer
  <2>3. QED BY <2>1, <2>2 DEF Streamed, AreFiles, IsFile
<1>4. ~x.top => (read \/ buffer # {} => due \subseteq buffer)
  <2>1. SUFFICES ASSUME ~x.top PROVE due \subseteq buffer
    OBVIOUS
  <2>2. /\ x.due \subseteq Entries(x.path)
        /\ x.read \/ x.buffer # {} => x.due \subseteq x.buffer
    BY <1>2, <2>1, DueIsThere
  <2>3. CASE x.buffer = {}
    <3>1. e \in Remaining(h)
      BY <2>3
    <3>2. Remaining(h) = Entries(x.path)
      BY <2>1, <3>1 DEF Remaining
    <3>3. QED BY <2>2, <2>3, <3>2
  <2>4. CASE x.buffer # {}
    BY <2>2, <2>4
  <2>5. QED BY <2>3, <2>4
<1>5. due \subseteq x.due
  OBVIOUS
<1> HIDE DEF buffer, due, read, from
<1>6. Kept(p, fds, held, lost, NIL) /\ Lists(p, tree)
  BY <1>4, <1>5, StreamKeeps
<1> HIDE DEF p
<1>7. rootRead' \in BOOLEAN
  BY <1>2 DEF FilesInv
<1>8. QED BY <1>2, <1>3, <1>6, <1>7 DEF FilesInv

\* An entry that is gone is none the directory must give.
LEMMA GoneStep ==
  ASSUME FilesInv, NEW h \in held, ReadGone(h)
  PROVE  FilesInv'
<1> DEFINE x == objs[h]
<1>1. PICK e \in x.buffer : Kind(e) = "none" /\ objs' = [objs EXCEPT ![h].buffer = @ \ {e}]
  BY DEF ReadGone
<1>2. x.folder /\ UNCHANGED <<writable, tree, fds, held, rootRead, lost>>
  BY DEF ReadGone
<1> DEFINE buffer == x.buffer \ {e}
           due == x.due
           read == x.read
           p == Streamed(objs, h, buffer, due, read)
<1>3. objs' = p
  <2>1. h \in Objects /\ AreFiles(objs) /\ IsFile(x)
    BY HeldLive DEF FilesInv, Kept, AreFiles
  <2> HIDE DEF buffer
  <2>2. objs' = [objs EXCEPT ![h].buffer = buffer]
    BY <1>1 DEF buffer
  <2>3. QED BY <2>1, <2>2 DEF Streamed, AreFiles, IsFile
<1>4. ~x.top => (read \/ buffer # {} => due \subseteq buffer)
  <2>1. SUFFICES ASSUME ~x.top PROVE due \subseteq buffer
    OBVIOUS
  <2>2. x.due \subseteq Entries(x.path) /\ x.due \subseteq x.buffer
    BY <1>1, <1>2, <2>1, DueIsThere
  <2>3. e \notin DOMAIN tree
    BY <1>1 DEF Kind, FilesInv, Tree
  <2>4. QED BY <2>2, <2>3 DEF Entries
<1>5. due \subseteq x.due
  OBVIOUS
<1> HIDE DEF buffer, due, read
<1>6. Kept(p, fds, held, lost, NIL) /\ Lists(p, tree)
  BY <1>4, <1>5, StreamKeeps
<1> HIDE DEF p
<1>7. QED BY <1>2, <1>3, <1>6 DEF FilesInv

\* A directory that is rewound keeps what its stream has in the buffer.
LEMMA RewindStep ==
  ASSUME FilesInv, NEW h \in held, Rewind(h)
  PROVE  FilesInv'
<1> DEFINE x == objs[h]
           buffer == x.buffer
           due == x.due
           read == FALSE
           p == Streamed(objs, h, buffer, due, read)
<1>1. x.folder /\ rootRead' = (rootRead /\ ~x.top) /\ UNCHANGED <<writable, tree, fds, held, lost>>
  BY DEF Rewind
<1>2. objs' = p
  <2>1. h \in Objects /\ AreFiles(objs) /\ IsFile(x)
    BY HeldLive DEF FilesInv, Kept, AreFiles
  <2>2. objs' = [objs EXCEPT ![h].read = FALSE]
    BY DEF Rewind
  <2>3. QED BY <2>1, <2>2 DEF Streamed, AreFiles, IsFile
<1>3. ~x.top => (read \/ buffer # {} => due \subseteq buffer)
  BY <1>1, DueIsThere
<1>4. due \subseteq x.due
  OBVIOUS
<1> HIDE DEF buffer, due, read
<1>5. Kept(p, fds, held, lost, NIL) /\ Lists(p, tree)
  BY <1>3, <1>4, StreamKeeps
<1> HIDE DEF p
<1>6. rootRead' \in BOOLEAN
  BY <1>1 DEF FilesInv
<1>7. QED BY <1>1, <1>2, <1>5, <1>6 DEF FilesInv

-----------------------------------------------------------------------------
(* The theorems *)

\* At first no object is live and no descriptor is open.
LEMMA FilesInit ==
  ASSUME Init
  PROVE  FilesInv
<1>1. LiveIn(objs) = {}
  BY DEF Init, LiveIn, Free
<1>2. AreFiles(objs)
  <2>1. IsFile(Free) /\ Free.live \in BOOLEAN /\ Free.refcnt \in Nat
    BY DEF IsFile, Free
  <2>2. objs = [h \in Objects |-> objs[h]] /\ \A h \in Objects : objs[h] = Free
    BY DEF Init
  <2>3. QED BY <2>1, <2>2 DEF AreFiles
<1>3. Counts(objs, held, NIL) /\ Descriptors(objs, fds, lost) /\ Lists(objs, tree)
  <2>1. DOMAIN fds = {} /\ held = {} /\ lost = {}
    BY DEF Init
  <2>2. QED BY <1>1, <2>1 DEF Counts, Descriptors, Lists
<1>4. writable \in BOOLEAN /\ rootRead \in BOOLEAN /\ Tree(tree)
  BY VolumesAssumption, InitialAssumption DEF Init, Tree
<1>5. QED BY <1>2, <1>3, <1>4 DEF FilesInv, Kept

\* Every call keeps the invariant, but for the one that closes nobody knows what.
LEMMA FilesStep ==
  ASSUME FilesInv, [Next]_vars
  PROVE  FilesInv' \/ astray'
<1>1. CASE OpenVolume
  BY <1>1, VolumeStep
<1>2. ASSUME NEW p \in held, NEW asked \in Asked, NEW w \in BOOLEAN, NEW d \in BOOLEAN,
             OpenFile(p, asked, w, d)
      PROVE  FilesInv'
  BY <1>2, OpenStep
<1>3. ASSUME NEW p \in held, NEW asked \in Asked, CreateFolder(p, asked) PROVE FilesInv'
  BY <1>3, FolderStep
<1>4. ASSUME NEW p \in held, NEW asked \in Asked, CreateFile(p, asked) PROVE FilesInv'
  BY <1>4, FileStep
<1>5. ASSUME NEW h \in held, Close(h) PROVE FilesInv'
  BY <1>5, ReleaseStep
<1>6. ASSUME NEW h \in held, Delete(h) PROVE FilesInv'
  BY <1>6, DeleteStep
<1>7. ASSUME NEW h \in held, ReadFolder(h) PROVE FilesInv'
  BY <1>7, ReadStep
<1>8. ASSUME NEW h \in held, ReadGone(h) PROVE FilesInv'
  BY <1>8, GoneStep
<1>9. ASSUME NEW h \in held, Rewind(h) PROVE FilesInv'
  BY <1>9, RewindStep
<1>10. ASSUME NEW one \in Asked, NEW two \in Asked, NEW nodes \in {<<one>>, <<one, two>>},
              OpenFromDevicePath(nodes) \/ OpenBeyond(nodes)
       PROVE  FilesInv'
  <2>1. Len(nodes) \in Nat
    OBVIOUS
  <2>2. QED BY <1>10, <2>1, NodesStep, BeyondStep
<1>11. CASE OpenNothing
  BY <1>11 DEF OpenNothing
<1>12. CASE UNCHANGED vars
  BY <1>12 DEF vars, FilesInv
<1>13. QED BY <1>1, <1>2, <1>3, <1>4, <1>5, <1>6, <1>7, <1>8, <1>9, <1>10, <1>11, <1>12
           DEF Next, Step

\* The inductive invariant: at every moment every object counts the objects opened
\* through it and the program if that holds it, its descriptor is its own, and what a
\* directory opened by name must still give is in its buffer or not read yet.  It ends
\* where LoadImage calls close through a pointer it never set (utils.c:43).
THEOREM FilesInvariant == Spec => [](astray \/ FilesInv)
<1>1. Init => astray \/ FilesInv
  BY FilesInit
<1>2. (astray \/ FilesInv) /\ [Next]_vars => (astray \/ FilesInv)'
  <2>1. astray /\ [Next]_vars => astray'
    BY DEF Next, vars
  <2>2. QED BY <2>1, FilesStep
<1>3. QED BY <1>1, <1>2, PTL DEF Spec

\* Objects and descriptors live exactly as long as somebody holds them: no close frees
\* what the program or another object still uses, and none leaves anything behind
\* (efi_fd_file_close), the walk of LoadImage with its second close of a parent included;
\* what that walk leaves open itself, an object nobody knows, is counted as lost.
THEOREM HandlesAreOwned == Spec => []HandlesOwned
<1>1. astray \/ FilesInv => HandlesOwned
  <2> SUFFICES ASSUME FilesInv PROVE HandlesOwned
    BY DEF HandlesOwned
  <2>1. Live = LiveIn(objs)
    BY DEF Live, LiveIn
  <2>2. NIL \notin LiveIn(objs) /\ Counts(objs, held, NIL) /\ Descriptors(objs, fds, lost)
        /\ Lists(objs, tree)
    BY HeldLive DEF FilesInv, Kept
  <2>3. \A h \in LiveIn(objs) : objs[h].parent \in Objects \cup {NIL} /\ objs[h].fd \in Fds
    BY <2>2 DEF Counts, Descriptors, LiveIn
  <2>4. TypeOK
    BY <2>1, <2>2, <2>3 DEF TypeOK, FilesInv, Tree, Descriptors, Lists
  <2>5. HandlesCounted
    <3>1. held \subseteq Live /\ \A h \in Live : objs[h].refcnt > 0 /\ objs[h].parent \in Live \cup {NIL}
      BY <2>1, <2>2 DEF Counts
    <3>2. ASSUME NEW h \in Live
          PROVE  objs[h].refcnt
                   = Cardinality({g \in Live : objs[g].parent = h}) + (IF h \in held THEN 1 ELSE 0)
      <4>1. objs[h].refcnt = Cardinality(Children(objs, h)) + One(h \in held) + One(h = NIL)
        BY <2>1, <2>2 DEF Counts
      <4>2. Children(objs, h) = {g \in Live : objs[g].parent = h}
        BY <2>1 DEF Children
      <4>3. Children(objs, h) \subseteq Objects
        BY DEF Children, LiveIn
      <4>4. Cardinality(Children(objs, h)) \in Nat
        BY <4>3, Countable
      <4>5. One(h = NIL) = 0 /\ One(h \in held) = (IF h \in held THEN 1 ELSE 0)
        BY <2>1, <2>2 DEF One
      <4>6. QED BY <4>1, <4>2, <4>4, <4>5
    <3>3. QED BY <3>1, <3>2 DEF HandlesCounted
  <2>6. DescriptorsOwned
    BY <2>1, <2>2 DEF DescriptorsOwned, Descriptors
  <2>7. QED BY <2>4, <2>5, <2>6 DEF HandlesOwned
<1>2. QED BY <1>1, FilesInvariant, PTL

\* A directory that was opened by its name and is read to its end has given every
\* entry that has been in it since, whatever else is opened, made, deleted, read or
\* rewound meanwhile (efi_fd_file_read); nothing is said once close was called through
\* a pointer that was never set.
THEOREM ListingsComplete == Spec => []EveryEntryListed
<1>1. astray \/ FilesInv => EveryEntryListed
  <2> SUFFICES ASSUME FilesInv, NEW h \in Live, objs[h].folder, ~objs[h].top, AtEnd(h)
               PROVE  objs[h].due = {}
    BY DEF EveryEntryListed
  <2>1. h \in LiveIn(objs)
    BY DEF Live, LiveIn
  <2>2. /\ objs[h].due \subseteq EntriesIn(tree, objs[h].path)
        /\ objs[h].read => objs[h].due \subseteq objs[h].buffer
    BY <2>1 DEF FilesInv, Lists
  <2>3. EntriesIn(tree, objs[h].path) = Entries(objs[h].path)
    BY DEF Entries, EntriesIn
  <2>4. QED BY <2>2, <2>3 DEF AtEnd, Remaining
<1>2. QED BY <1>1, FilesInvariant, PTL

\* No call changes what a read-only volume holds.
THEOREM ReadOnlyVolumesStay == Spec => ReadOnlyVolume
<1>1. [Next]_vars => [~writable => tree' = tree]_vars
  <2> SUFFICES ASSUME Next, ~writable PROVE tree' = tree
    OBVIOUS
  <2>1. OpenVolume => tree' = tree
    BY DEF OpenVolume
  <2>2. \A p \in held, asked \in Asked, w, d \in BOOLEAN : OpenFile(p, asked, w, d) => tree' = tree
    BY DEF OpenFile
  <2>3. \A p \in held, asked \in Asked : ~CreateFolder(p, asked) /\ ~CreateFile(p, asked)
    BY DEF CreateFolder, CreateFile
  <2>4. \A h \in held : /\ Close(h) \/ ReadFolder(h) \/ ReadGone(h) \/ Rewind(h) => tree' = tree
                        /\ ~Delete(h)
    BY DEF Close, ReadFolder, ReadGone, Rewind, Delete
  <2>5. \A nodes : OpenFromDevicePath(nodes) \/ OpenBeyond(nodes) => tree' = tree
    BY DEF OpenFromDevicePath, OpenBeyond
  <2>6. OpenNothing => tree' = tree
    BY DEF OpenNothing
  <2>7. QED BY <2>1, <2>2, <2>3, <2>4, <2>5, <2>6 DEF Next, Step
<1>2. QED BY <1>1, PTL DEF Spec, ReadOnlyVolume

-----------------------------------------------------------------------------
(* What is in the files *)

\* What a cell of a file holds
Cell == Marks \cup {0, 1}

\* What efi_file_read_all has read so far is the start of the file.
ReaderOK ==
  reader # NoReader =>
    /\ reader = [by |-> reader.by, len |-> reader.len, buf |-> reader.buf]
    /\ reader.by \in Handles /\ reader.len \in Nat
    /\ position[reader.by] <= reader.len /\ reader.len <= SizeNow(reader.by)
    /\ reader.buf = SubSeq(cells[fileOf[reader.by]], 1, position[reader.by])

DataInv ==
  /\ position = told
  /\ position \in [Handles -> Nat]
  /\ \A h \in Handles : fileOf[h] \in DOMAIN cells
  /\ \A f \in DOMAIN cells : cells[f] \in Seq(Cell)
  /\ ~mayWrite => \A f \in DOMAIN cells : cells[f] = <<1>>
  /\ ReaderOK

\* What is written into a sequence leaves a sequence.
LEMMA WrittenIs ==
  ASSUME NEW contents \in Seq(Cell), NEW at \in Nat, NEW new \in Seq(Cell)
  PROVE  Written(contents, at, new) \in Seq(Cell)
<1> DEFINE m == IF at + Len(new) > Len(contents) THEN at + Len(new) ELSE Len(contents)
<1>1. /\ Len(contents) \in Nat /\ Len(new) \in Nat /\ m \in Nat
      /\ \A i \in 1..Len(contents) : contents[i] \in Cell
      /\ \A i \in 1..Len(new) : new[i] \in Cell
  BY LenProperties
<1>2. ASSUME NEW i \in 1..m
      PROVE  (IF i > at /\ i <= at + Len(new) THEN new[i - at]
              ELSE IF i <= Len(contents) THEN contents[i] ELSE 0) \in Cell
  <2>1. CASE i > at /\ i <= at + Len(new)
    <3>1. i - at \in 1..Len(new)
      BY <1>1, <2>1
    <3>2. QED BY <1>1, <2>1, <3>1
  <2>2. CASE ~(i > at /\ i <= at + Len(new)) /\ i <= Len(contents)
    BY <1>1, <2>2
  <2>3. CASE ~(i > at /\ i <= at + Len(new)) /\ ~(i <= Len(contents))
    BY <2>3 DEF Cell
  <2>4. QED BY <2>1, <2>2, <2>3
<1>3. Written(contents, at, new) \in [1..m -> Cell]
  BY <1>2 DEF Written
<1>4. m \in Nat
  BY <1>1
<1> HIDE DEF m
<1>5. QED BY <1>3, <1>4 DEF Seq

\* A read gives no more than what was asked for and is there.
LEMMA GivenFits ==
  ASSUME DataInv, NEW h \in Handles, NEW n \in Nat, NEW k \in Given(h, n)
  PROVE  /\ k \in Nat /\ k <= n /\ position[h] \in Nat /\ SizeNow(h) \in Nat
         /\ position[h] <= SizeNow(h) => position[h] + k <= SizeNow(h)
<1>1. position[h] \in Nat /\ SizeNow(h) \in Nat
  BY LenProperties DEF DataInv, SizeNow
<1> DEFINE there == IF position[h] < SizeNow(h) THEN Least(n, SizeNow(h) - position[h]) ELSE 0
<1>2. /\ there \in Nat /\ there <= n
      /\ position[h] < SizeNow(h) => position[h] + there <= SizeNow(h)
      /\ ~(position[h] < SizeNow(h)) => there = 0
  BY <1>1 DEF Least
<1>3. k \in IF there = 0 THEN {0} ELSE 1..there
  BY DEF Given
<1> HIDE DEF there
<1>4. k \in Nat /\ k <= there
  BY <1>2, <1>3
<1>5. QED BY <1>1, <1>2, <1>4

\* An object moves on where the program thinks it is, while no file is read as a whole.
LEMMA MovedOn ==
  ASSUME DataInv, NEW h \in Handles, NEW p \in Nat, reader = NoReader, reader' = reader,
         NoWrites, position' = [position EXCEPT ![h] = p], told' = [told EXCEPT ![h] = p]
  PROVE  DataInv'
BY DEF DataInv, NoWrites, Handles, ReaderOK

\* Nothing but the reply changes.
LEMMA OnlyReplied ==
  ASSUME DataInv, NoWrites, UNCHANGED <<position, told>>, reader' = reader \/ reader' = NoReader
  PROVE  DataInv'
BY DEF DataInv, NoWrites, Handles, ReaderOK, SizeNow

\* What a program writes is written into a file that it may write to.
LEMMA WriteKeeps ==
  ASSUME MaxSize \in Nat, DataInv, NEW h \in Handles, NEW new \in Chunks, Write(h, new)
  PROVE  DataInv'
<1>1. new \in Seq(Cell) /\ Len(new) \in Nat
  <2>1. PICK n \in 1..MaxSize : new \in [1..n -> Marks]
    BY DEF Chunks
  <2>2. n \in Nat /\ new \in [1..n -> Cell]
    BY <2>1 DEF Cell
  <2>3. new \in Seq(Cell)
    BY <2>2 DEF Seq
  <2>4. QED BY <2>3, LenProperties
<1>2. CASE NoWrites /\ UNCHANGED <<position, told, reader>>
  BY <1>2, OnlyReplied
<1>3. ASSUME mayWrite, reader = NoReader, reader' = reader, NEW k \in 1..Len(new),
             cells' = [cells EXCEPT ![fileOf[h]] = Written(@, position[h], SubSeq(new, 1, k))],
             position' = [position EXCEPT ![h] = @ + k], told' = [told EXCEPT ![h] = @ + k],
             UNCHANGED <<fileOf, mayWrite>>
      PROVE  DataInv'
  <2>1. SubSeq(new, 1, k) \in Seq(Cell)
    <3>1. 1 \in Int /\ k \in Int /\ \A i \in 1..k : new[i] \in Cell
      BY <1>1, LenProperties
    <3>2. QED BY <3>1, SubSeqProperties
  <2>2. Written(cells[fileOf[h]], position[h], SubSeq(new, 1, k)) \in Seq(Cell)
    BY <2>1, WrittenIs DEF DataInv
  <2>3. DOMAIN cells' = DOMAIN cells /\ \A f \in DOMAIN cells' : cells'[f] \in Seq(Cell)
    BY <1>3, <2>2 DEF DataInv
  <2>4. position' \in [Handles -> Nat] /\ position' = told' /\ Handles' = Handles
    BY <1>1, <1>3 DEF DataInv, Handles
  <2>5. QED BY <1>3, <2>3, <2>4 DEF DataInv, ReaderOK
<1>4. QED BY <1>2, <1>3 DEF Write

\* A read as a whole begins with an empty buffer and no more than the file holds.
LEMMA ReadAllBeginsKeeps ==
  ASSUME MaxSize \in Nat, DataInv, NEW h \in Handles, NEW limit \in 0..MaxSize, ReadAllBegins(h, limit)
  PROVE  DataInv'
<1>1. NoWrites /\ UNCHANGED <<position, told>> /\ position[h] = 0
  BY DEF ReadAllBegins
<1>2. CASE reader' = reader
  BY <1>1, <1>2, OnlyReplied
<1>3. CASE reader' = [by |-> h, len |-> IF limit > 0 THEN Least(limit, SizeNow(h)) ELSE SizeNow(h),
                      buf |-> <<>>]
  <2>1. SizeNow(h) \in Nat /\ limit \in Nat
    BY LenProperties DEF DataInv, SizeNow
  <2>2. /\ reader' = [by |-> reader'.by, len |-> reader'.len, buf |-> reader'.buf]
        /\ reader'.by = h /\ reader'.buf = <<>> /\ reader'.len \in Nat /\ reader'.len <= SizeNow(h)
    BY <1>3, <2>1 DEF Least
  <2>3. SubSeq(cells[fileOf[h]], 1, 0) = <<>>
    BY SubSeqEmpty
  <2>4. SizeNow(h)' = SizeNow(h) /\ Handles' = Handles
    BY <1>1 DEF SizeNow, NoWrites, Handles
  <2>5. position'[h] = 0 /\ cells'[fileOf'[h]] = cells[fileOf[h]]
    BY <1>1 DEF NoWrites
  <2>6. ReaderOK'
    BY <2>2, <2>3, <2>4, <2>5 DEF ReaderOK, SizeNow
  <2>7. QED BY <1>1, <2>6 DEF DataInv, NoWrites, Handles
<1>4. QED BY <1>2, <1>3 DEF ReadAllBegins

\* A round of the loop puts the next cells of the file behind those it has.
LEMMA ReadAllGoesOnKeeps ==
  ASSUME DataInv, ReadAllGoesOn
  PROVE  DataInv'
<1>0. PICK h, len, buf : reader = [by |-> h, len |-> len, buf |-> buf]
  BY DEF DataInv, ReaderOK, ReadAllGoesOn
<1> DEFINE s == cells[fileOf[h]]
           n == position[h]
<1>1. /\ h \in Handles /\ reader.len \in Nat /\ n \in Nat /\ s \in Seq(Cell) /\ Len(s) = SizeNow(h)
      /\ n <= reader.len /\ reader.len <= Len(s) /\ Len(s) \in Nat
      /\ reader.buf = SubSeq(s, 1, n) /\ position = told
  BY <1>0, LenProperties DEF DataInv, ReaderOK, ReadAllGoesOn, SizeNow
<1>2. Len(reader.buf) = n
  <2>1. 1 \in Int /\ n \in Int /\ \A i \in 1..n : s[i] \in Cell
    BY <1>1, LenProperties
  <2>2. Len(SubSeq(s, 1, n)) = IF 1 <= n THEN n - 1 + 1 ELSE 0
    BY <2>1, SubSeqProperties
  <2>3. QED BY <1>1, <2>2
<1>3. PICK k \in Given(h, reader.len - Len(reader.buf)) :
        /\ reader' = [reader EXCEPT !.buf = @ \o SubSeq(s, n + 1, n + k)]
        /\ position' = [position EXCEPT ![h] = @ + k]
        /\ told' = [told EXCEPT ![h] = @ + k]
  BY <1>0 DEF ReadAllGoesOn
<1>4. NoWrites
  BY DEF ReadAllGoesOn
<1>5. k \in Nat /\ n + k <= reader.len
  <2>1. reader.len - Len(reader.buf) \in Nat
    BY <1>1, <1>2
  <2>2. k \in Nat /\ k <= reader.len - Len(reader.buf)
    BY <1>1, <2>1, GivenFits
  <2>3. QED BY <1>1, <1>2, <2>2
<1>6. SubSeq(s, 1, n) \o SubSeq(s, n + 1, n + k) = SubSeq(s, 1, n + k)
  <2>1. 1 \in 1..(Len(s) + 1) /\ n \in (1 - 1)..Len(s) /\ n + k \in n..Len(s)
    BY <1>1, <1>5
  <2>2. QED BY <1>1, <2>1, ConcatAdjacentSubSeq
<1>7. /\ reader' = [by |-> h, len |-> reader.len, buf |-> SubSeq(s, 1, n + k)]
      /\ position'[h] = n + k
  <2>1. reader.len = len /\ reader.buf = buf /\ buf = SubSeq(s, 1, n)
    BY <1>0, <1>1
  <2>2. reader' = [by |-> h, len |-> len, buf |-> buf \o SubSeq(s, n + 1, n + k)]
    BY <1>0, <1>3
  <2>3. position'[h] = n + k
    BY <1>1, <1>3 DEF DataInv
  <2>4. QED BY <1>6, <2>1, <2>2, <2>3
<1>8. position' \in [Handles -> Nat] /\ position' = told'
  BY <1>1, <1>3, <1>5 DEF DataInv
<1>9. cells' = cells /\ fileOf' = fileOf /\ Handles' = Handles
  BY <1>4 DEF NoWrites, Handles
<1>10. ReaderOK'
  BY <1>1, <1>5, <1>7, <1>9 DEF ReaderOK, SizeNow
<1>11. QED BY <1>4, <1>8, <1>9, <1>10 DEF DataInv, NoWrites

\* Every step keeps what is known of positions, files and the reader.
LEMMA DataStep ==
  ASSUME MaxSize \in Nat, DataInv, FileDataNext
  PROVE  DataInv'
<1>1. ASSUME NEW h \in Handles, NEW n \in 0..MaxSize, Read(h, n) PROVE DataInv'
  <2>1. PICK k \in Given(h, n) : /\ position' = [position EXCEPT ![h] = @ + k]
                                 /\ told' = [told EXCEPT ![h] = @ + k]
    BY <1>1 DEF Read
  <2>2. k \in Nat /\ position[h] \in Nat /\ told = position /\ h \in DOMAIN position
    BY <1>1, GivenFits DEF DataInv
  <2>3. /\ position[h] + k \in Nat
        /\ position' = [position EXCEPT ![h] = position[h] + k]
        /\ told' = [told EXCEPT ![h] = position[h] + k]
    BY <2>1, <2>2
  <2>4. QED BY <1>1, <2>3, MovedOn DEF Read
<1>2. ASSUME NEW h \in Handles, NEW p \in 0..AllOnes, SetPosition(h, p) PROVE DataInv'
  <2>1. p \in Nat
    BY DEF AllOnes
  <2>2. CASE p = AllOnes
    BY <1>2, <2>2, OnlyReplied DEF SetPosition
  <2>3. CASE p # AllOnes
    BY <1>2, <2>1, <2>3, MovedOn DEF SetPosition
  <2>4. QED BY <2>2, <2>3
<1>3. ASSUME NEW h \in Handles, Fails(h) \/ GetPosition(h) \/ Flush(h) \/ SetInfo(h) PROVE DataInv'
  BY <1>3, OnlyReplied DEF Fails, GetPosition, Flush, SetInfo
<1>4. CASE ReadAllFails \/ ReadAllEnds
  BY <1>4, OnlyReplied DEF ReadAllFails, ReadAllEnds
<1>5. QED BY <1>1, <1>2, <1>3, <1>4, WriteKeeps, ReadAllBeginsKeeps, ReadAllGoesOnKeeps DEF FileDataNext

\* For every set of objects and of files they are open on, every content and size, and
\* short reads and writes of any length: a program that adds up the sizes it is told
\* knows its position, a file read as a whole is its first cells in their order, and a
\* read-only volume keeps what it holds (posix-fd.c:260-410, utils.c:59-96).
THEOREM ContentsAlwaysSound ==
  ASSUME MaxSize \in Nat
  PROVE  FileDataSpec => []DataSound
<1>1. FileDataInit => DataInv
  <2> SUFFICES ASSUME FileDataInit PROVE DataInv
    OBVIOUS
  <2>1. <<1>> \in Seq(Cell)
    BY DEF Cell
  <2>2. QED BY <2>1 DEF FileDataInit, DataInv, Handles, ReaderOK
<1>2. DataInv /\ [FileDataNext]_fileDataVars => DataInv'
  <2>1. ASSUME DataInv, UNCHANGED fileDataVars PROVE DataInv'
    BY <2>1, OnlyReplied DEF fileDataVars, NoWrites
  <2>2. QED BY <2>1, DataStep
<1>3. DataInv => DataSound
  <2> SUFFICES ASSUME DataInv, reader # NoReader
               PROVE  /\ IsPrefix(reader.buf, cells[fileOf[reader.by]])
                      /\ Len(reader.buf) = position[reader.by]
    BY DEF DataInv, ReaderOK, DataSound
  <2> DEFINE s == cells[fileOf[reader.by]]
             n == position[reader.by]
  <2>1. /\ s \in Seq(Cell) /\ Len(s) \in Nat /\ n \in Nat /\ n <= Len(s) /\ reader.buf = SubSeq(s, 1, n)
    BY LenProperties DEF DataInv, ReaderOK, SizeNow
  <2>2. 1 \in Int /\ n \in Int /\ \A i \in 1..n : s[i] \in Cell
    BY <2>1, LenProperties
  <2>3. SubSeq(s, 1, n) \in Seq(Cell) /\ Len(SubSeq(s, 1, n)) = IF 1 <= n THEN n - 1 + 1 ELSE 0
    BY <2>2, SubSeqProperties
  <2>4. reader.buf \in Seq(Cell) /\ Len(reader.buf) = n
    BY <2>1, <2>3
  <2>5. SubSeq(reader.buf, 1, Len(reader.buf)) = reader.buf
    BY <2>4, SubSeqFull
  <2>6. QED BY <2>1, <2>4, <2>5 DEF IsPrefix
<1>4. QED BY <1>1, <1>2, <1>3, PTL DEF FileDataSpec
=============================================================================
