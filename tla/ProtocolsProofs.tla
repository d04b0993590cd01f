-------------------------- MODULE ProtocolsProofs --------------------------
(***************************************************************************)
(* Proofs about Protocols.                                                 *)
(*                                                                         *)
(* DatabaseInv says what the database and the calls in progress rely on    *)
(* together: a service that waits for a function finds the handle, the     *)
(* interface and the list it left (nothing but a service that fails takes  *)
(* an interface away), and each registration lists the handles announced   *)
(* to it but for those an Install is still on its way with, or was when an *)
(* Exit cut it.  OwnerInv is the invariant of the owners: while an         *)
(* exclusive opener disconnects drivers nobody else may become an owner,   *)
(* which depends on what stop functions call, so it has a hypothesis,      *)
(* CalmStops.                                                              *)
(*                                                                         *)
(* The services are built from few pieces.  A piece puts frames on the     *)
(* stack of its caller and changes records only (Piece); most actions are  *)
(* such a step (Regular), which keeps both invariants by one argument.     *)
(* Installing, announcing and registering are the others.                  *)
(*                                                                         *)
(* WalkInv is the invariant of the loops over open lists, with drivers     *)
(* that follow the driver model (OrderlyDrivers): no call above a walk     *)
(* closes the record of a child, and an exclusive opener that lost its     *)
(* place is told of a success, so that it starts over.                     *)
(***************************************************************************)
EXTENDS Protocols, Lemmas

-----------------------------------------------------------------------------
(* The operators on sequences                                              *)

\* The steps of Kept
Keeping(f, s, K, n) ==
  [k \in 0..n |->
    IF k = 0 THEN <<>> ELSE IF k \in K THEN Append(f[k - 1], s[k]) ELSE f[k - 1]]

\* The recursive function of Kept exists.
LEMMA KeepingExists ==
  ASSUME NEW s, NEW K, NEW n \in Nat
  PROVE  \E f : f = Keeping(f, s, K, n)
<1> DEFINE A == {m \in Nat : \E f : f = Keeping(f, s, K, m)}
           Step(x, k) == IF k \in K THEN Append(x, s[k]) ELSE x
<1>1. 0 \in A
  <2> DEFINE f == [i \in 0..0 |-> <<>>]
  <2>1. f = Keeping(f, s, K, 0)
    BY DEF Keeping
  <2>2. QED BY <2>1
<1>2. ASSUME NEW m \in Nat, m \in A PROVE m + 1 \in A
  <2>1. PICK f : f = Keeping(f, s, K, m)
    BY <1>2
  <2> DEFINE g == [i \in 0..(m + 1) |-> IF i <= m THEN f[i] ELSE Step(f[m], m + 1)]
  <2>2. ASSUME NEW i \in 0..(m + 1)
        PROVE  g[i] = IF i = 0 THEN <<>> ELSE Step(g[i - 1], i)
    <3> HIDE DEF Step
    <3>1. CASE i = 0
      <4>1. f[0] = <<>>
        BY <2>1 DEF Keeping
      <4>2. QED BY <3>1, <4>1
    <3>2. CASE i # 0 /\ i <= m
      <4>1. i \in 0..m /\ i - 1 \in 0..m
        BY <3>2
      <4>2. f[i] = Step(f[i - 1], i)
        BY <2>1, <3>2, <4>1 DEF Keeping, Step
      <4>3. g[i] = f[i] /\ g[i - 1] = f[i - 1]
        BY <4>1
      <4>4. QED BY <3>2, <4>2, <4>3
    <3>3. CASE i = m + 1
      <4>1. g[i] = Step(f[m], m + 1) /\ g[i - 1] = f[m] /\ i # 0
        BY <3>3
      <4>2. QED BY <3>3, <4>1
    <3>4. QED BY <3>1, <3>2, <3>3
  <2>3. DOMAIN g = 0..(m + 1) /\ g = [i \in 0..(m + 1) |-> g[i]]
    OBVIOUS
  <2> HIDE DEF g
  <2>4. g = Keeping(g, s, K, m + 1)
    BY <2>2, <2>3 DEF Keeping
  <2>5. QED BY <2>4
<1> HIDE DEF A
<1>3. Nat \subseteq A
  BY <1>1, <1>2, SetInduction
<1>4. QED BY <1>3 DEF A

\* Kept returns the elements at the positions asked for, each once.
LEMMA KeptFacts ==
  ASSUME NEW S, NEW s \in Seq(S), NEW K
  PROVE  /\ Kept(s, K) \in Seq(S)
         /\ ToSet(Kept(s, K)) = {s[k] : k \in K \cap DOMAIN s}
         /\ \E p \in [DOMAIN Kept(s, K) -> DOMAIN s] :
              /\ \A i \in DOMAIN Kept(s, K) : p[i] \in K /\ Kept(s, K)[i] = s[p[i]]
              /\ \A i, j \in DOMAIN Kept(s, K) : p[i] = p[j] => i = j
<1> DEFINE n == Len(s)
           f == CHOOSE f : f = Keeping(f, s, K, n)
<1>1. n \in Nat /\ DOMAIN s = 1..n /\ \A k \in 1..n : s[k] \in S
  BY LenProperties
<1>2. Kept(s, K) = f[n]
  BY DEF Kept, Keeping
<1>3. f = Keeping(f, s, K, n)
  BY <1>1, KeepingExists
<1> HIDE DEF f, n
<1> DEFINE Good(m) == /\ f[m] \in Seq(S)
                      /\ ToSet(f[m]) = {s[k] : k \in K \cap 1..m}
                      /\ \E p \in [DOMAIN f[m] -> 1..m] :
                           /\ \A i \in DOMAIN f[m] : p[i] \in K /\ f[m][i] = s[p[i]]
                           /\ \A i, j \in DOMAIN f[m] : p[i] = p[j] => i = j
           A == {m \in Nat : m <= n => Good(m)}
<1>4. 0 \in A
  <2>1. f[0] = <<>>
    BY <1>1, <1>3 DEF Keeping
  <2>2. DOMAIN f[0] = {} /\ f[0] \in Seq(S) /\ ToSet(f[0]) = {}
    BY <2>1 DEF ToSet
  <2>3. ToSet(f[0]) = {s[k] : k \in K \cap 1..0}
    BY <2>2
  <2>4. \E p \in [DOMAIN f[0] -> 1..0] :
           /\ \A i \in DOMAIN f[0] : p[i] \in K /\ f[0][i] = s[p[i]]
           /\ \A i, j \in DOMAIN f[0] : p[i] = p[j] => i = j
    <3>1. [i \in {} |-> 0] \in [DOMAIN f[0] -> 1..0]
      BY <2>2
    <3>2. QED BY <2>2, <3>1
  <2>5. QED BY <2>2, <2>3, <2>4
<1>5. ASSUME NEW m \in Nat, m \in A PROVE m + 1 \in A
  <2>1. SUFFICES ASSUME m + 1 <= n PROVE Good(m + 1)
    OBVIOUS
  <2>2. m <= n /\ m + 1 \in 0..n /\ m + 1 \in 1..n /\ m + 1 # 0 /\ (m + 1) - 1 = m
    BY <1>1, <2>1
  <2>3. Good(m)
    BY <1>5, <2>2
  <2>4. f[m + 1] = IF m + 1 \in K THEN Append(f[m], s[m + 1]) ELSE f[m]
    BY <1>3, <2>2 DEF Keeping
  <2>5. PICK p \in [DOMAIN f[m] -> 1..m] :
           /\ \A i \in DOMAIN f[m] : p[i] \in K /\ f[m][i] = s[p[i]]
           /\ \A i, j \in DOMAIN f[m] : p[i] = p[j] => i = j
    BY <2>3
  <2>6. 1..(m + 1) = 1..m \cup {m + 1} /\ m + 1 \notin 1..m
    OBVIOUS
  <2>7. CASE m + 1 \notin K
    <3>1. f[m + 1] = f[m] /\ K \cap 1..(m + 1) = K \cap 1..m
      BY <2>4, <2>6, <2>7
    <3>2. p \in [DOMAIN f[m + 1] -> 1..(m + 1)]
      BY <2>6, <3>1
    <3>3. f[m + 1] \in Seq(S) /\ ToSet(f[m + 1]) = {s[k] : k \in K \cap 1..(m + 1)}
      BY <2>3, <3>1
    <3>4. /\ \A i \in DOMAIN f[m + 1] : p[i] \in K /\ f[m + 1][i] = s[p[i]]
          /\ \A i, j \in DOMAIN f[m + 1] : p[i] = p[j] => i = j
      BY <2>5, <3>1
    <3>5. QED BY <3>2, <3>3, <3>4
  <2>8. CASE m + 1 \in K
    <3> DEFINE q == f[m]
               t == Append(q, s[m + 1])
               r == [i \in 1..(Len(q) + 1) |-> IF i <= Len(q) THEN p[i] ELSE m + 1]
    <3>1. f[m + 1] = t /\ q \in Seq(S) /\ s[m + 1] \in S
      BY <1>1, <2>2, <2>3, <2>4, <2>8
    <3> HIDE DEF q
    <3>2. /\ t \in Seq(S) /\ Len(q) \in Nat
          /\ DOMAIN q = 1..Len(q) /\ DOMAIN t = 1..(Len(q) + 1)
          /\ \A i \in 1..Len(q) : t[i] = q[i]
          /\ t[Len(q) + 1] = s[m + 1] /\ ToSet(t) = ToSet(q) \cup {s[m + 1]}
      BY <3>1, Appended
    <3>3. ToSet(t) = {s[k] : k \in K \cap 1..(m + 1)}
      <4>1. ToSet(q) = {s[k] : k \in K \cap 1..m}
        BY <2>3 DEF q
      <4>2. QED BY <2>6, <2>8, <3>2, <4>1
    <3>4. \A i \in 1..(Len(q) + 1) : i \in 1..Len(q) \/ (i = Len(q) + 1 /\ ~(i <= Len(q)))
      BY <3>2
    <3>5. /\ \A i \in 1..Len(q) : i \in 1..(Len(q) + 1) /\ r[i] = p[i]
          /\ r[Len(q) + 1] = m + 1
      BY <3>2
    <3>6. \A i \in 1..Len(q) : p[i] \in 1..m /\ p[i] \in K /\ q[i] = s[p[i]]
      BY <2>5, <3>2 DEF q
    <3>7. r \in [DOMAIN t -> 1..(m + 1)]
      <4>1. \A i \in 1..(Len(q) + 1) : r[i] \in 1..(m + 1)
        BY <2>6, <3>4, <3>5, <3>6
      <4>2. QED BY <3>2, <4>1
    <3> HIDE DEF t, r
    <3>8. \A i \in DOMAIN t : r[i] \in K /\ t[i] = s[r[i]]
      BY <2>8, <3>2, <3>4, <3>5, <3>6
    <3>9. \A i, j \in DOMAIN t : r[i] = r[j] => i = j
      <4>1. \A i, j \in 1..Len(q) : p[i] = p[j] => i = j
        BY <2>5, <3>2 DEF q
      <4>2. QED BY <2>6, <3>2, <3>4, <3>5, <3>6, <4>1
    <3>10. QED BY <3>1, <3>2, <3>3, <3>7, <3>8, <3>9, ZenonT(60)
  <2>9. QED BY <2>7, <2>8
<1>6. n \in A => Good(n)
  <2> HIDE DEF Good
  <2>1. QED BY <1>1
<1> HIDE DEF A
<1>7. Nat \subseteq A
  BY <1>4, <1>5, SetInduction
<1>8. Good(n)
  BY <1>1, <1>6, <1>7
<1>9. QED BY <1>1, <1>2, <1>8

-----------------------------------------------------------------------------
(* The records of an interface                                             *)

\* A record of an open list
Record == [agent : Handle, controller : Handle \cup {NULL}, attrs : Valued, count : Nat \ {0}]

\* An interface
Iface == [guid : Guid, intf : Interface, freed : BOOLEAN, opens : Seq(Record)]

\* What a record is known by
RecordKey == [agent : Handle, controller : Handle \cup {NULL}, attrs : Valued]

\* Who keeps others out: a driver or an exclusive opener
Owner(r) == r.attrs \cap {"driver", "exclusive"} # {}

\* A record of each key
OneEach(o) == \A m, n \in DOMAIN o : KeyOf(o[m]) = KeyOf(o[n]) => m = n

\* One owner at most
OneOwnerIn(o) == \A m, n \in DOMAIN o : Owner(o[m]) /\ Owner(o[n]) => m = n

\* Somebody opened it exclusively.
Exclusive(o) == \E m \in DOMAIN o : "exclusive" \in o[m].attrs

\* An open list keeps this, and nobody opened it exclusively.
Tame(o, t) == (OneOwnerIn(o) => OneOwnerIn(t)) /\ (Exclusive(t) => Exclusive(o))

\* A list some records were taken from
LEMMA FewerRecords ==
  ASSUME NEW o \in Seq(Record), NEW K
  PROVE  /\ Kept(o, K) \in Seq(Record)
         /\ OneEach(o) => OneEach(Kept(o, K))
         /\ Tame(o, Kept(o, K))
<1> DEFINE t == Kept(o, K)
<1>1. t \in Seq(Record)
  BY KeptFacts
<1>2. PICK p \in [DOMAIN t -> DOMAIN o] :
           /\ \A i \in DOMAIN t : p[i] \in K /\ t[i] = o[p[i]]
           /\ \A i, j \in DOMAIN t : p[i] = p[j] => i = j
  BY KeptFacts
<1> HIDE DEF t
<1>3. \A i \in DOMAIN t : p[i] \in DOMAIN o /\ t[i] = o[p[i]]
  BY <1>2
<1>4. OneEach(o) => OneEach(t)
  BY <1>2, <1>3 DEF OneEach
<1>5. OneOwnerIn(o) => OneOwnerIn(t)
  BY <1>2, <1>3 DEF OneOwnerIn
<1>6. Exclusive(t) => Exclusive(o)
  BY <1>3 DEF Exclusive
<1>7. QED BY <1>1, <1>4, <1>5, <1>6 DEF t, Tame

\* A record more in the list, or counted once more, is no second owner unless
\* there was one.
LEMMA RecordCounted ==
  ASSUME NEW o \in Seq(Record), NEW key \in RecordKey
  PROVE  LET t == Counted(o, key) IN
         /\ t \in Seq(Record)
         /\ OneEach(o) => OneEach(t)
         /\ ~Owner(key) \/ (\A m \in DOMAIN o : ~Owner(o[m])) => (OneOwnerIn(o) => OneOwnerIn(t))
         /\ "exclusive" \notin key.attrs => (Exclusive(t) => Exclusive(o))
<1> DEFINE t == Counted(o, key)
           e == [agent |-> key.agent, controller |-> key.controller,
                 attrs |-> key.attrs, count |-> 1]
<1>1. Len(o) \in Nat /\ DOMAIN o = 1..Len(o) /\ \A m \in DOMAIN o : o[m] \in Record
  BY LenProperties
<1>2. e \in Record /\ KeyOf(e) = key /\ e.attrs = key.attrs
  BY DEF Record, RecordKey, KeyOf, Key
<1>3. CASE \E r \in ToSet(o) : KeyOf(r) = key
  <2>1. t = [k \in DOMAIN o |->
               IF KeyOf(o[k]) = key THEN [o[k] EXCEPT !.count = @ + 1] ELSE o[k]]
    BY <1>3 DEF Counted
  <2>2. ASSUME NEW k \in DOMAIN o
        PROVE  t[k] \in Record /\ KeyOf(t[k]) = KeyOf(o[k]) /\ t[k].attrs = o[k].attrs
    <3>1. o[k] \in Record
      BY <1>1
    <3>2. CASE KeyOf(o[k]) = key
      <4>1. t[k] = [o[k] EXCEPT !.count = @ + 1]
        BY <2>1, <3>2
      <4>2. o[k].count + 1 \in Nat \ {0}
        BY <3>1 DEF Record
      <4>3. QED BY <3>1, <4>1, <4>2 DEF Record, KeyOf, Key
    <3>3. CASE KeyOf(o[k]) # key
      BY <2>1, <3>1, <3>3
    <3>4. QED BY <3>2, <3>3
  <2>3. DOMAIN t = DOMAIN o
    BY <2>1
  <2>4. t \in Seq(Record)
    <3>1. t = [k \in 1..Len(o) |-> t[k]]
      BY <1>1, <2>1
    <3>2. \A k \in 1..Len(o) : t[k] \in Record
      BY <1>1, <2>2
    <3> HIDE DEF t
    <3>3. QED BY <1>1, <3>1, <3>2, IsASeq
  <2> HIDE DEF t
  <2>5. OneEach(o) => OneEach(t)
    BY <2>2, <2>3 DEF OneEach
  <2>6. OneOwnerIn(o) => OneOwnerIn(t)
    BY <2>2, <2>3 DEF OneOwnerIn, Owner
  <2>7. Exclusive(t) => Exclusive(o)
    BY <2>2, <2>3 DEF Exclusive
  <2>8. QED BY <2>4, <2>5, <2>6, <2>7 DEF t
<1>4. CASE ~\E r \in ToSet(o) : KeyOf(r) = key
  <2>1. t = Append(o, e)
    BY <1>4 DEF Counted
  <2>2. \A m \in DOMAIN o : KeyOf(o[m]) # key
    BY <1>1, <1>4 DEF ToSet
  <2> HIDE DEF t, e
  <2>3. /\ t \in Seq(Record) /\ DOMAIN t = 1..(Len(o) + 1)
        /\ \A i \in 1..Len(o) : t[i] = o[i]
        /\ t[Len(o) + 1] = e
    BY <1>2, <2>1, Appended
  <2>4. \A i \in DOMAIN t : (i \in DOMAIN o /\ t[i] = o[i]) \/ (i = Len(o) + 1 /\ t[i] = e)
    BY <1>1, <2>3
  <2>5. OneEach(o) => OneEach(t)
    BY <1>2, <2>2, <2>4 DEF OneEach
  <2>6. Owner(e) = Owner(key)
    BY <1>2 DEF Owner
  <2>7. ~Owner(key) \/ (\A m \in DOMAIN o : ~Owner(o[m])) => (OneOwnerIn(o) => OneOwnerIn(t))
    BY <2>4, <2>6 DEF OneOwnerIn
  <2>8. "exclusive" \notin key.attrs => (Exclusive(t) => Exclusive(o))
    BY <1>2, <2>4 DEF Exclusive
  <2>9. QED BY <2>3, <2>5, <2>7, <2>8 DEF t
<1>5. QED BY <1>3, <1>4

-----------------------------------------------------------------------------
(* The invariant                                                           *)

\* Handle h of n has an interface for g: Has, of a given database.
HasIn(ifs, n, h, g) == h \in 1..n /\ \E k \in DOMAIN ifs[h] : ifs[h][k].guid = g

\* The database: an interface for each GUID of a handle, a record for each key.
Sound(ifs) ==
  /\ ifs \in [Handle -> Seq(Iface)]
  /\ \A h \in Handle : \A k, l \in DOMAIN ifs[h] : ifs[h][k].guid = ifs[h][l].guid => k = l
  /\ \A h \in Handle : \A k \in DOMAIN ifs[h] : OneEach(ifs[h][k].opens)

\* What a service in progress relies on when it goes on
GoodIn(ifs, n, f) ==
  /\ f.op \in {"install", "uninstall", "open"} => HasIn(ifs, n, f.h, f.g)
  /\ f.op \in {"multi", "walk", "connect"} => f.h \in 1..n
  /\ f.op \in {"install", "multi", "rollback"} => f.pos >= 1
  /\ f.op \in {"disconnect", "bind"} => HasIn(ifs, n, f.d, Binding)
  /\ f.op = "connect" => \A d \in ToSet(f.todo) : HasIn(ifs, n, d, Binding)
  /\ f.op = "open" => f.d \in Handle /\ "exclusive" \in f.attrs /\ f.attrs \in Valued

\* Reinstall goes on after a success only, so with a handle there is.
FramesGood ==
  \A i \in DOMAIN stack :
    /\ GoodIn(ifaces, made, stack[i])
    /\ stack[i].op = "reinstall" => Valid(stack[i].h) \/ (i = Len(stack) /\ ret # "success")

\* Installs of one protocol are for different handles, which no registration
\* lists that they have yet to reach.
InstallsApart ==
  /\ \A i, j \in DOMAIN stack :
       /\ stack[i].op = "install" /\ stack[j].op = "install"
       /\ stack[i].h = stack[j].h /\ stack[i].g = stack[j].g
       => i = j
  /\ \A i \in DOMAIN stack, k \in DOMAIN notifies :
       stack[i].op = "install" /\ stack[i].g = notifies[k].guid /\ stack[i].pos <= k
       => stack[i].h \notin ToSet(notifies[k].handles)

\* The handles that have a protocol
Having(g) == {h \in 1..made : Has(h, g)}

\* The Installs that have yet to reach registration k
Pending(k) == {f \in ToSet(stack) : f.op = "install" /\ f.g = notifies[k].guid /\ f.pos <= k}

\* Each registration lists those that got its protocol since it was made.
Listed ==
  \A k \in DOMAIN notifies :
    /\ Having(notifies[k].guid) = unlisted[k] \cup ToSet(notifies[k].handles)
                                  \cup {f.h : f \in Pending(k)}
    /\ IsInjective(notifies[k].handles)

\* The inductive invariant of the database
DatabaseInv == TypeOK /\ Sound(ifaces) /\ FramesGood /\ InstallsApart /\ Listed

-----------------------------------------------------------------------------
(* Frames                                                                  *)

\* The same call, but for the place of its walk
Like(f, e) ==
  /\ f.op = e.op /\ f.fn = e.fn /\ f.h = e.h /\ f.g = e.g /\ f.d = e.d
  /\ f.attrs = e.attrs /\ f.todo = e.todo /\ f.pos = e.pos

\* Nothing leaves the database.
Grown ==
  /\ made <= made' /\ made' \in 0..MaxHandles
  /\ \A h \in Handle : \A k \in DOMAIN ifaces[h] :
       k \in DOMAIN ifaces'[h] /\ ifaces'[h][k].guid = ifaces[h][k].guid

\* The interfaces are the same.
Same ==
  /\ made <= made' /\ made' \in 0..MaxHandles
  /\ \A h \in Handle : DOMAIN ifaces'[h] = DOMAIN ifaces[h]
  /\ \A h \in Handle : \A k \in DOMAIN ifaces[h] :
       ifaces'[h][k].guid = ifaces[h][k].guid /\ ifaces'[h][k].intf = ifaces[h][k].intf

\* Valid handles are handles.
LEMMA Numbers == MaxHandles \in Nat /\ NULL \notin Handle /\ Binding \in Guid
BY BoundAssumption, GuidAssumption DEF Handle, NULL

\* What the type invariant says of the interfaces
LEMMA Types ==
  ASSUME TypeOK
  PROVE  /\ made \in 0..MaxHandles /\ ifaces \in [Handle -> Seq(Iface)]
         /\ \A h \in Handle : h > made => ifaces[h] = <<>>
         /\ stack \in Seq(Frame) /\ ret \in Status
         /\ \A h : Valid(h) => h \in Handle
         /\ \A h, g : Has(h, g) = HasIn(ifaces, made, h, g)
<1>1. /\ made \in 0..MaxHandles /\ ifaces \in [Handle -> Seq(Iface)]
      /\ \A h \in Handle : h > made => ifaces[h] = <<>>
      /\ stack \in Seq(Frame) /\ ret \in Status
  BY DEF TypeOK, Iface, Record
<1>2. \A h : Valid(h) => h \in Handle
  BY <1>1, Numbers DEF Valid, Handle
<1>3. \A h, g : Has(h, g) = HasIn(ifaces, made, h, g)
  BY DEF Has, HasIn, Valid
<1>4. QED BY <1>1, <1>2, <1>3

\* The interface of a protocol a handle has
LEMMA HasEntry ==
  ASSUME TypeOK, NEW h, NEW g, HasIn(ifaces, made, h, g)
  PROVE  /\ h \in Handle /\ Position(ifaces, h, g) \in DOMAIN ifaces[h]
         /\ Entry(h, g) = ifaces[h][Position(ifaces, h, g)]
         /\ Entry(h, g) \in Iface /\ Entry(h, g).guid = g
<1>1. h \in Handle /\ ifaces[h] \in Seq(Iface)
  BY Types DEF HasIn, Valid
<1>2. PICK k \in DOMAIN ifaces[h] : ifaces[h][k].guid = g
  BY DEF HasIn
<1>3. Position(ifaces, h, g) \in DOMAIN ifaces[h] /\ ifaces[h][Position(ifaces, h, g)].guid = g
  BY <1>2 DEF Position
<1>4. \A l \in DOMAIN ifaces[h] : ifaces[h][l] \in Iface
  BY <1>1, LenProperties
<1>5. QED BY <1>1, <1>3, <1>4 DEF Entry

\* In a database that grows a handle keeps its protocols.
LEMMA StillHas ==
  ASSUME TypeOK, Grown
  PROVE  /\ \A h : h \in 1..made => h \in 1..made' /\ h \in Handle
         /\ \A h, g : HasIn(ifaces, made, h, g) => HasIn(ifaces', made', h, g)
<1>1. made \in 0..MaxHandles /\ made' \in 0..MaxHandles /\ made <= made' /\ MaxHandles \in Nat
  BY Types, Numbers DEF Grown
<1>2. \A h : h \in 1..made => h \in 1..made' /\ h \in Handle
  BY <1>1 DEF Handle
<1>3. \A h, g : HasIn(ifaces, made, h, g) => HasIn(ifaces', made', h, g)
  BY <1>2 DEF HasIn, Grown
<1>4. QED BY <1>2, <1>3

\* A frame stays good in a database that grows.
LEMMA StaysGood ==
  ASSUME TypeOK, Grown, NEW f, NEW e, Like(e, f), GoodIn(ifaces, made, f)
  PROVE  GoodIn(ifaces', made', e)
BY StillHas DEF GoodIn, Like

\* Without its innermost frame
LEMMA FrontOf ==
  ASSUME NEW S, NEW s \in Seq(S), s # <<>>
  PROVE  /\ Front(s) \in Seq(S) /\ Len(s) \in Nat \ {0} /\ Len(Front(s)) = Len(s) - 1
         /\ DOMAIN s = 1..Len(s) /\ DOMAIN Front(s) = 1..(Len(s) - 1)
         /\ \A i \in 1..(Len(s) - 1) : Front(s)[i] = s[i]
         /\ \A i \in DOMAIN s : s[i] \in S
<1>1. Len(s) \in Nat \ {0} /\ DOMAIN s = 1..Len(s) /\ \A i \in 1..Len(s) : s[i] \in S
  BY LenProperties, EmptySeq
<1>2. 1 \in Int /\ Len(s) - 1 \in Int /\ \A i \in 1..(Len(s) - 1) : s[i] \in S
  BY <1>1
<1>3. /\ SubSeq(s, 1, Len(s) - 1) \in Seq(S)
      /\ Len(SubSeq(s, 1, Len(s) - 1)) = IF 1 <= Len(s) - 1 THEN (Len(s) - 1) - 1 + 1 ELSE 0
      /\ \A i \in 1..((Len(s) - 1) - 1 + 1) : SubSeq(s, 1, Len(s) - 1)[i] = s[1 + i - 1]
  BY <1>2, SubSeqProperties
<1>4. Len(SubSeq(s, 1, Len(s) - 1)) = Len(s) - 1
  BY <1>1, <1>3
<1>5. \A i \in 1..(Len(s) - 1) : SubSeq(s, 1, Len(s) - 1)[i] = s[i]
  BY <1>1, <1>3
<1>6. DOMAIN SubSeq(s, 1, Len(s) - 1) = 1..(Len(s) - 1)
  BY <1>3, <1>4, LenProperties
<1>7. QED BY <1>1, <1>3, <1>4, <1>5, <1>6 DEF Front

\* Walks that lose their place are the same calls.
LEMMA Unhooking ==
  ASSUME NEW s \in Seq(Frame), NEW h, NEW g, NEW freed
  PROVE  /\ Unhooked(s, h, g, freed) \in Seq(Frame)
         /\ Len(Unhooked(s, h, g, freed)) = Len(s) /\ Len(s) \in Nat
         /\ \A i \in 1..Len(s) : Like(Unhooked(s, h, g, freed)[i], s[i])
<1> DEFINE u == Unhooked(s, h, g, freed)
<1>1. Len(s) \in Nat /\ DOMAIN s = 1..Len(s) /\ \A i \in 1..Len(s) : s[i] \in Frame
  BY LenProperties
<1>2. DOMAIN u = 1..Len(s)
  BY <1>1 DEF Unhooked
<1>3. ASSUME NEW i \in 1..Len(s) PROVE u[i] \in Frame /\ Like(u[i], s[i])
  <2>1. u[i] = s[i] \/ u[i] = [s[i] EXCEPT !.cur = Freed]
    BY <1>1 DEF Unhooked
  <2>2. s[i] \in Frame
    BY <1>1
  <2>3. Freed \in [agent : Handle \cup {NULL}, controller : Handle \cup {NULL},
                   attrs : SUBSET (Attribute \cup {"freed"})]
    BY DEF Freed, Key
  <2>4. CASE u[i] = [s[i] EXCEPT !.cur = Freed]
    <3>1. [s[i] EXCEPT !.cur = Freed] \in Frame
      BY <2>2, <2>3 DEF Frame
    <3>2. Like([s[i] EXCEPT !.cur = Freed], s[i])
      BY <2>2 DEF Frame, Like
    <3>3. QED BY <2>4, <3>1, <3>2
  <2>5. QED BY <2>1, <2>2, <2>4 DEF Like
<1>4. u = [i \in 1..Len(s) |-> u[i]]
  BY <1>1 DEF Unhooked
<1> HIDE DEF u
<1>5. u \in Seq(Frame)
  BY <1>1, <1>3, <1>4, IsASeq
<1>6. Len(u) = Len(s)
  BY <1>1, <1>2, <1>5, LenProperties
<1>7. QED BY <1>1, <1>3, <1>5, <1>6 DEF u

-----------------------------------------------------------------------------
(* What the pieces of services do                                          *)

\* The functions that a service in progress may yet run by itself
RunBy(f) ==
  CASE f.op = "call" -> {f.fn}
    [] f.op = "install" -> {"notify"}
    [] f.op = "multi" -> {"notify", "stop"}
    [] f.op = "reinstall" -> {"stop", "notify", "supported", "start"}
    [] f.op \in {"connect", "bind", "walk"} -> {"supported", "start"}
    [] OTHER -> {"stop"}

\* A frame put on the stack that will run functions of R only
New(f, R) ==
  f.op \notin {"open", "reinstall"} /\ GoodIn(ifaces', made', f) /\ RunBy(f) \subseteq R

\* The new stack is s, but for the places of walks, with new frames on it.
Pushes(s, R) ==
  /\ stack' \in Seq(Frame) /\ Len(s) <= Len(stack')
  /\ \A i \in 1..Len(s) : Like(stack'[i], s[i])
  /\ \A i \in (Len(s) + 1)..Len(stack') : New(stack'[i], R)

\* Only records were added and taken away, and no second owner.
TameAll ==
  \A h \in Handle : \A k \in DOMAIN ifaces[h] : Tame(ifaces[h][k].opens, ifaces'[h][k].opens)

\* What a piece of a service does that was called with the stack s
Piece(s, R) == Pushes(s, R) /\ Sound(ifaces') /\ Same /\ TameAll /\ ret' \in Status

\* Handles may be made, but none is lost.
Makes == made <= made' /\ made' \in 0..MaxHandles

\* The same interfaces are no fewer.
LEMMA SameGrown ==
  ASSUME Same
  PROVE  Grown
BY DEF Same, Grown

\* A step that leaves the database alone
LEMMA Untouched ==
  ASSUME TypeOK, Sound(ifaces), Makes, UNCHANGED ifaces
  PROVE  Sound(ifaces') /\ Same /\ TameAll
<1>1. Sound(ifaces')
  <2>1. ifaces' = ifaces
    OBVIOUS
  <2>2. QED BY <2>1
<1>2. QED BY <1>1 DEF Same, TameAll, Tame, Makes

\* Another entry for the same interface
LEMMA Relisted ==
  ASSUME Sound(ifaces), Makes, NEW h \in Handle, NEW k \in DOMAIN ifaces[h], NEW e \in Iface,
         e.guid = ifaces[h][k].guid, e.intf = ifaces[h][k].intf, OneEach(e.opens),
         ifaces' = [ifaces EXCEPT ![h] = [@ EXCEPT ![k] = e]]
  PROVE  /\ Sound(ifaces') /\ Same
         /\ ifaces'[h][k] = e
         /\ \A i \in Handle : \A l \in DOMAIN ifaces[i] :
              i # h \/ l # k => ifaces'[i][l] = ifaces[i][l]
<1>1. /\ ifaces \in [Handle -> Seq(Iface)] /\ ifaces[h] \in Seq(Iface)
      /\ Len(ifaces[h]) \in Nat /\ DOMAIN ifaces[h] = 1..Len(ifaces[h])
  BY LenProperties DEF Sound
<1>2. /\ [ifaces[h] EXCEPT ![k] = e] \in Seq(Iface)
      /\ DOMAIN [ifaces[h] EXCEPT ![k] = e] = DOMAIN ifaces[h]
  BY <1>1, ExceptSeq
<1>3. \A l \in DOMAIN ifaces[h] :
         [ifaces[h] EXCEPT ![k] = e][l] = IF l = k THEN e ELSE ifaces[h][l]
  OBVIOUS
<1>4. /\ ifaces' \in [Handle -> Seq(Iface)]
      /\ \A i \in Handle : ifaces'[i] = IF i = h THEN [ifaces[h] EXCEPT ![k] = e] ELSE ifaces[i]
  BY <1>1, <1>2
<1>5. \A i \in Handle : DOMAIN ifaces'[i] = DOMAIN ifaces[i]
  BY <1>2, <1>4
<1>6. \A i \in Handle : \A l \in DOMAIN ifaces[i] :
         ifaces'[i][l] = IF i = h /\ l = k THEN e ELSE ifaces[i][l]
  BY <1>3, <1>4
<1>7. \A i \in Handle : \A l \in DOMAIN ifaces[i] :
         ifaces'[i][l].guid = ifaces[i][l].guid /\ ifaces'[i][l].intf = ifaces[i][l].intf
  BY <1>6
<1>8. Same
  BY <1>5, <1>7 DEF Same, Makes
<1>9. \A i \in Handle : \A l, m \in DOMAIN ifaces'[i] :
         ifaces'[i][l].guid = ifaces'[i][m].guid => l = m
  BY <1>5, <1>7 DEF Sound
<1>10. \A i \in Handle : \A l \in DOMAIN ifaces'[i] : OneEach(ifaces'[i][l].opens)
  BY <1>5, <1>6 DEF Sound
<1>11. Sound(ifaces')
  BY <1>4, <1>9, <1>10 DEF Sound
<1>12. QED BY <1>6, <1>8, <1>11

\* A list that is replaced: the others are as they were.
LEMMA Replaced ==
  ASSUME Sound(ifaces), TypeOK, Makes, NEW h, NEW g, HasIn(ifaces, made, h, g),
         NEW o \in Seq(Record), OneEach(o), NEW b \in BOOLEAN,
         ifaces' = [ifaces EXCEPT ![h] =
           [@ EXCEPT ![Position(ifaces, h, g)] = [Entry(h, g) EXCEPT !.opens = o, !.freed = b]]]
  PROVE  /\ Sound(ifaces') /\ Same
         /\ OneOwnerIn(o) /\ (\A i \in Handle : \A k \in DOMAIN ifaces[i] : OneOwnerIn(ifaces[i][k].opens))
            => \A i \in Handle : \A k \in DOMAIN ifaces'[i] : OneOwnerIn(ifaces'[i][k].opens)
         /\ Tame(Entry(h, g).opens, o) => TameAll
<1> DEFINE k == Position(ifaces, h, g)
           e == [Entry(h, g) EXCEPT !.opens = o, !.freed = b]
<1>1. h \in Handle /\ k \in DOMAIN ifaces[h] /\ Entry(h, g) = ifaces[h][k] /\ Entry(h, g) \in Iface
  BY HasEntry
<1>2. e \in Iface /\ e.guid = Entry(h, g).guid /\ e.intf = Entry(h, g).intf /\ e.opens = o
  BY <1>1 DEF Iface
<1>3. ifaces' = [ifaces EXCEPT ![h] = [@ EXCEPT ![k] = e]]
  OBVIOUS
<1> HIDE DEF k, e
<1>4. /\ Sound(ifaces') /\ Same
      /\ ifaces'[h][k] = e
      /\ \A i \in Handle : \A l \in DOMAIN ifaces[i] :
           i # h \/ l # k => ifaces'[i][l] = ifaces[i][l]
  <2>1. e.guid = ifaces[h][k].guid /\ e.intf = ifaces[h][k].intf /\ OneEach(e.opens)
    BY <1>1, <1>2
  <2>2. h \in Handle /\ k \in DOMAIN ifaces[h] /\ e \in Iface
    BY <1>1, <1>2
  <2>3. QED BY <1>3, <2>1, <2>2, Relisted, ZenonT(60)
<1>5. \A i \in Handle : DOMAIN ifaces'[i] = DOMAIN ifaces[i]
  BY <1>4 DEF Same
<1>6. ASSUME OneOwnerIn(o), \A i \in Handle : \A l \in DOMAIN ifaces[i] : OneOwnerIn(ifaces[i][l].opens)
      PROVE  \A i \in Handle : \A l \in DOMAIN ifaces'[i] : OneOwnerIn(ifaces'[i][l].opens)
  BY <1>2, <1>4, <1>5, <1>6
<1>7. ASSUME Tame(Entry(h, g).opens, o) PROVE TameAll
  <2>1. ASSUME NEW i \in Handle, NEW l \in DOMAIN ifaces[i]
        PROVE  Tame(ifaces[i][l].opens, ifaces'[i][l].opens)
    <3>1. CASE i = h /\ l = k
      BY <1>1, <1>2, <1>4, <1>7, <3>1
    <3>2. CASE i # h \/ l # k
      BY <1>4, <3>2 DEF Tame
    <3>3. QED BY <3>1, <3>2
  <2>2. QED BY <2>1 DEF TameAll
<1>8. QED BY <1>4, <1>6, <1>7

\* Opening an interface; k is its position.
LEMMA Opening ==
  ASSUME Sound(ifaces), TypeOK, Makes, NEW h, NEW g, HasIn(ifaces, made, h, g),
         NEW key \in RecordKey, ifaces' = Opened(h, g, key)
  PROVE  /\ Sound(ifaces') /\ Same
         /\ \/ ~Owner(key)
            \/ \A m \in DOMAIN Entry(h, g).opens : ~Owner(Entry(h, g).opens[m])
            => /\ (\A i \in Handle : \A k \in DOMAIN ifaces[i] : OneOwnerIn(ifaces[i][k].opens))
                  => \A i \in Handle : \A k \in DOMAIN ifaces'[i] : OneOwnerIn(ifaces'[i][k].opens)
               /\ "exclusive" \notin key.attrs => TameAll
<1> DEFINE p == Position(ifaces, h, g)
           e == Entry(h, g)
           o == Counted(e.opens, key)
<1>1. h \in Handle /\ p \in DOMAIN ifaces[h] /\ e = ifaces[h][p] /\ e \in Iface
  BY HasEntry
<1>2. e.opens \in Seq(Record) /\ OneEach(e.opens) /\ e.freed \in BOOLEAN
  BY <1>1 DEF Sound, Iface
<1>3. /\ o \in Seq(Record) /\ OneEach(o)
      /\ ~Owner(key) \/ (\A m \in DOMAIN e.opens : ~Owner(e.opens[m]))
         => (OneOwnerIn(e.opens) => OneOwnerIn(o))
      /\ "exclusive" \notin key.attrs => (Exclusive(o) => Exclusive(e.opens))
  <2> HIDE DEF e
  <2>1. QED BY <1>2, RecordCounted
<1>4. ifaces' = [ifaces EXCEPT ![h] = [@ EXCEPT ![p] = [e EXCEPT !.opens = o, !.freed = e.freed]]]
  <2>1. ifaces' = [ifaces EXCEPT ![h] = [@ EXCEPT ![p] = [ifaces[h][p] EXCEPT !.opens = o]]]
    BY <1>1 DEF Opened
  <2>2. [e EXCEPT !.opens = o] = [e EXCEPT !.opens = o, !.freed = e.freed]
    BY <1>1 DEF Iface
  <2>3. QED BY <1>1, <2>1, <2>2
<1> HIDE DEF e, o, p
<1>5. /\ Sound(ifaces') /\ Same
      /\ OneOwnerIn(o) /\ (\A i \in Handle : \A k \in DOMAIN ifaces[i] : OneOwnerIn(ifaces[i][k].opens))
         => \A i \in Handle : \A k \in DOMAIN ifaces'[i] : OneOwnerIn(ifaces'[i][k].opens)
      /\ Tame(e.opens, o) => TameAll
  BY <1>2, <1>3, <1>4, Replaced DEF e, p
<1>6. (\A i \in Handle : \A k \in DOMAIN ifaces[i] : OneOwnerIn(ifaces[i][k].opens))
      => OneOwnerIn(e.opens)
  BY <1>1
<1>7. QED BY <1>3, <1>5, <1>6 DEF Tame, e

\* CloseProtocol
LEMMA Closing ==
  ASSUME Sound(ifaces), TypeOK, Makes, NEW s \in Seq(Frame), NEW h, NEW g, NEW a, NEW c,
         HasIn(ifaces, made, h, g), CloseAt(s, h, g, a, c), ret' \in Status
  PROVE  Piece(s, {})
<1> DEFINE p == Position(ifaces, h, g)
           e == Entry(h, g)
           closed == {k \in DOMAIN e.opens : e.opens[k].agent = a /\ e.opens[k].controller = c}
           o == Kept(e.opens, DOMAIN e.opens \ closed)
<1>1. h \in Handle /\ p \in DOMAIN ifaces[h] /\ e = ifaces[h][p] /\ e \in Iface
  BY HasEntry
<1>2. e.opens \in Seq(Record) /\ OneEach(e.opens) /\ e.freed \in BOOLEAN
  BY <1>1 DEF Sound, Iface
<1>3. o \in Seq(Record) /\ OneEach(o) /\ Tame(e.opens, o)
  <2> HIDE DEF e, closed
  <2>1. QED BY <1>2, FewerRecords
<1>4. ifaces' = [ifaces EXCEPT ![h] = [@ EXCEPT ![p] = [e EXCEPT !.opens = o, !.freed = e.freed]]]
  <2>1. ifaces' = [ifaces EXCEPT ![h] = [@ EXCEPT ![p] = [ifaces[h][p] EXCEPT !.opens = o]]]
    BY <1>1 DEF CloseAt
  <2>2. [e EXCEPT !.opens = o] = [e EXCEPT !.opens = o, !.freed = e.freed]
    BY <1>1 DEF Iface
  <2>3. QED BY <1>1, <2>1, <2>2
<1>5. stack' = Unhooked(s, h, g, {e.opens[k] : k \in closed})
  BY DEF CloseAt
<1> HIDE DEF e, o, p, closed
<1>6. Sound(ifaces') /\ Same /\ TameAll
  BY <1>2, <1>3, <1>4, Replaced DEF e, p
<1>7. Pushes(s, {})
  BY <1>5, Unhooking DEF Pushes
<1>8. QED BY <1>6, <1>7 DEF Piece

\* The steps of Records
Reading(f, ifs, gs, n) ==
  [k \in 0..n |->
    IF k = 0 THEN <<>> ELSE f[k - 1] \o IF ifs[k].guid \in gs THEN ifs[k].opens ELSE <<>>]

\* The recursive function of Records exists.
LEMMA ReadingExists ==
  ASSUME NEW ifs, NEW gs, NEW n \in Nat
  PROVE  \E f : f = Reading(f, ifs, gs, n)
<1> DEFINE A == {m \in Nat : \E f : f = Reading(f, ifs, gs, m)}
           Step(x, k) == x \o IF ifs[k].guid \in gs THEN ifs[k].opens ELSE <<>>
<1>1. 0 \in A
  <2> DEFINE f == [i \in 0..0 |-> <<>>]
  <2>1. f = Reading(f, ifs, gs, 0)
    BY DEF Reading
  <2>2. QED BY <2>1
<1>2. ASSUME NEW m \in Nat, m \in A PROVE m + 1 \in A
  <2>1. PICK f : f = Reading(f, ifs, gs, m)
    BY <1>2
  <2> DEFINE g == [i \in 0..(m + 1) |-> IF i <= m THEN f[i] ELSE Step(f[m], m + 1)]
  <2>2. ASSUME NEW i \in 0..(m + 1)
        PROVE  g[i] = IF i = 0 THEN <<>> ELSE Step(g[i - 1], i)
    <3> HIDE DEF Step
    <3>1. CASE i = 0
      <4>1. f[0] = <<>>
        BY <2>1 DEF Reading
      <4>2. QED BY <3>1, <4>1
    <3>2. CASE i # 0 /\ i <= m
      <4>1. i \in 0..m /\ i - 1 \in 0..m
        BY <3>2
      <4>2. f[i] = Step(f[i - 1], i)
        BY <2>1, <3>2, <4>1 DEF Reading, Step
      <4>3. g[i] = f[i] /\ g[i - 1] = f[i - 1]
        BY <4>1
      <4>4. QED BY <3>2, <4>2, <4>3
    <3>3. CASE i = m + 1
      <4>1. g[i] = Step(f[m], m + 1) /\ g[i - 1] = f[m] /\ i # 0
        BY <3>3
      <4>2. QED BY <3>3, <4>1
    <3>4. QED BY <3>1, <3>2, <3>3
  <2>3. DOMAIN g = 0..(m + 1) /\ g = [i \in 0..(m + 1) |-> g[i]]
    OBVIOUS
  <2> HIDE DEF g
  <2>4. g = Reading(g, ifs, gs, m + 1)
    BY <2>2, <2>3 DEF Reading
  <2>5. QED BY <2>4
<1> HIDE DEF A
<1>3. Nat \subseteq A
  BY <1>1, <1>2, SetInduction
<1>4. QED BY <1>3 DEF A

\* The records of a handle are records.
LEMMA RecordsAre ==
  ASSUME TypeOK, NEW h \in Handle, NEW gs
  PROVE  Records(h, gs) \in Seq(Record)
<1> DEFINE q == ifaces[h]
           n == Len(q)
           f == CHOOSE f : f = Reading(f, q, gs, n)
<1>1. q \in Seq(Iface)
  BY Types
<1>2. n \in Nat /\ \A k \in 1..n : q[k] \in Iface
  BY <1>1, LenProperties
<1>3. Records(h, gs) = f[n]
  BY DEF Records, Reading
<1>4. f = Reading(f, q, gs, n)
  BY <1>2, ReadingExists
<1> HIDE DEF f, n, q
<1> DEFINE A == {m \in Nat : m <= n => f[m] \in Seq(Record)}
<1>5. 0 \in A
  <2>1. f[0] = <<>>
    BY <1>2, <1>4 DEF Reading
  <2>2. f[0] \in Seq(Record)
    BY <2>1, EmptySeq
  <2>3. QED BY <2>2
<1>6. ASSUME NEW m \in Nat, m \in A PROVE m + 1 \in A
  <2>1. SUFFICES ASSUME m + 1 <= n PROVE f[m + 1] \in Seq(Record)
    OBVIOUS
  <2>2. m <= n /\ m + 1 \in 0..n /\ m + 1 \in 1..n /\ m + 1 # 0 /\ (m + 1) - 1 = m
    BY <1>2, <2>1
  <2> DEFINE t == IF q[m + 1].guid \in gs THEN q[m + 1].opens ELSE <<>>
  <2>3. f[m + 1] = f[m] \o t
    BY <1>4, <2>2 DEF Reading
  <2>4. t \in Seq(Record)
    BY <1>2, <2>2 DEF Iface
  <2>5. f[m] \in Seq(Record)
    BY <1>6, <2>2
  <2> HIDE DEF t
  <2>6. QED BY <2>3, <2>4, <2>5, ConcatProperties
<1>7. n \in A => f[n] \in Seq(Record)
  BY <1>2
<1> HIDE DEF A
<1>8. Nat \subseteq A
  BY <1>5, <1>6, SetInduction
<1>9. QED BY <1>2, <1>3, <1>7, <1>8

\* The drivers found are handles.
LEMMA AgentsAre ==
  ASSUME TypeOK, NEW h \in Handle, NEW gs
  PROVE  Reverse(AgentsOf(h, gs)) \in Seq(Handle)
<1> DEFINE records == Records(h, gs)
           IsDriver(k) == "driver" \in records[k].attrs
           first == {k \in DOMAIN records : IsDriver(k) /\ \A l \in 1 .. k - 1 :
                       ~(IsDriver(l) /\ records[l].agent = records[k].agent)}
           t == Kept(records, first)
           a == [k \in DOMAIN t |-> t[k].agent]
<1>1. AgentsOf(h, gs) = a
  BY DEF AgentsOf
<1>2. t \in Seq(Record)
  <2>1. records \in Seq(Record)
    BY RecordsAre
  <2> HIDE DEF records, first
  <2>2. QED BY <2>1, KeptFacts
<1> HIDE DEF t
<1>3. Len(t) \in Nat /\ DOMAIN t = 1..Len(t) /\ \A k \in 1..Len(t) : t[k] \in Record
  BY <1>2, LenProperties
<1>4. a = [k \in 1..Len(t) |-> t[k].agent] /\ \A k \in 1..Len(t) : t[k].agent \in Handle
  BY <1>3 DEF Record
<1>5. a \in Seq(Handle) /\ Len(a) = Len(t)
  <2>1. [k \in 1..Len(t) |-> t[k].agent] \in Seq(Handle)
    BY <1>3, <1>4, IsASeq
  <2>2. QED BY <1>3, <1>4, <2>1, LenProperties
<1>6. \A i \in 1..Len(a) : a[(Len(a) - i) + 1] \in Handle
  <2>1. \A i \in 1..Len(a) : (Len(a) - i) + 1 \in 1..Len(a)
    BY <1>3, <1>5
  <2>2. \A i \in 1..Len(a) : a[i] \in Handle
    BY <1>3, <1>4, <1>5
  <2>3. QED BY <2>1, <2>2
<1> HIDE DEF a
<1>7. [i \in 1..Len(a) |-> a[(Len(a) - i) + 1]] \in Seq(Handle)
  BY <1>3, <1>5, <1>6, IsASeq
<1>8. QED BY <1>1, <1>7 DEF Reverse

\* The handles of a protocol are those that have it.
LEMMA Located ==
  ASSUME TypeOK, NEW g
  PROVE  /\ LocateHandle(g) \in Seq(Handle)
         /\ ToSet(LocateHandle(g)) = {h \in 1..made : Has(h, g)}
<1> DEFINE K == {h \in 1..made : Has(h, g)}
<1>1. made \in Nat /\ 1..made \subseteq Handle
  BY Types, Numbers DEF Handle
<1>2. AllHandles = [h \in 1..made |-> h]
  BY DEF AllHandles
<1>3. AllHandles \in Seq(Handle)
  <2>1. \A h \in 1..made : h \in Handle
    BY <1>1
  <2>2. [h \in 1..made |-> h] \in Seq(Handle)
    BY <1>1, <2>1, IsASeq
  <2>3. QED BY <1>2, <2>2
<1>4. DOMAIN AllHandles = 1..made /\ \A h \in 1..made : AllHandles[h] = h
  BY <1>2
<1> HIDE DEF K
<1>5. /\ Kept(AllHandles, K) \in Seq(Handle)
      /\ ToSet(Kept(AllHandles, K)) = {AllHandles[h] : h \in K \cap DOMAIN AllHandles}
  BY <1>3, KeptFacts
<1>6. {AllHandles[h] : h \in K \cap DOMAIN AllHandles} = K
  BY <1>4 DEF K
<1>7. QED BY <1>5, <1>6 DEF K, LocateHandle

\* A new frame
LEMMA Fresh ==
  ASSUME NEW op \in {"install", "multi", "rollback", "reinstall", "uninstall", "disconnectAll",
                     "disconnect", "open", "connect", "bind", "walk", "call"}
  PROVE  F(op) \in Frame /\ F(op).op = op
<1>1. NoRecord \in [agent : Handle \cup {NULL}, controller : Handle \cup {NULL},
                    attrs : SUBSET (Attribute \cup {"freed"})]
  BY DEF NoRecord, Key
<1>2. <<>> \in Seq(Pair) /\ <<>> \in Seq(Handle)
  BY EmptySeq
<1>3. F(op) \in Frame
  BY <1>1, <1>2, Numbers DEF F, Frame, Function
<1>4. QED BY <1>3 DEF F

\* The function of a driver
LEMMA Called ==
  ASSUME NEW fn \in Function, NEW h \in Handle \cup {NULL}, NEW d \in Handle \cup {NULL}, NEW R,
         fn \in R
  PROVE  Call(fn, h, d) \in Frame /\ New(Call(fn, h, d), R)
<1>1. Call(fn, h, d) \in Frame
  <2>1. F("call") \in Frame
    BY Fresh
  <2>2. QED BY <2>1 DEF Call, Frame
<1>2. Call(fn, h, d).op = "call" /\ Call(fn, h, d).fn = fn
  BY DEF Call, F
<1>3. GoodIn(ifaces', made', Call(fn, h, d))
  BY <1>2 DEF GoodIn
<1>4. RunBy(Call(fn, h, d)) \subseteq R
  BY <1>2 DEF RunBy
<1>5. QED BY <1>1, <1>2, <1>3, <1>4 DEF New

\* Like is reflexive.
LEMMA Alike == \A f : Like(f, f)
BY DEF Like

\* The stack is s.
LEMMA Stays ==
  ASSUME NEW s \in Seq(Frame), stack' = s, NEW R
  PROVE  Pushes(s, R)
<1>1. Len(s) \in Nat
  BY LenProperties
<1>2. QED BY <1>1, Alike DEF Pushes

\* A frame was put on s.
LEMMA OneMore ==
  ASSUME NEW s \in Seq(Frame), NEW f \in Frame, NEW R, New(f, R), stack' = Append(s, f)
  PROVE  Pushes(s, R)
<1>1. /\ stack' \in Seq(Frame) /\ Len(s) \in Nat /\ Len(stack') = Len(s) + 1
      /\ \A i \in 1..Len(s) : stack'[i] = s[i]
      /\ stack'[Len(s) + 1] = f
  BY Appended
<1>2. \A i \in (Len(s) + 1)..Len(stack') : i = Len(s) + 1
  BY <1>1
<1>3. \A i \in (Len(s) + 1)..Len(stack') : New(stack'[i], R)
  BY <1>1, <1>2
<1>4. \A i \in 1..Len(s) : Like(stack'[i], s[i])
  BY <1>1, Alike
<1>5. QED BY <1>1, <1>3, <1>4 DEF Pushes

\* Two frames were put on s.
LEMMA TwoMore ==
  ASSUME NEW s \in Seq(Frame), NEW e \in Frame, NEW f \in Frame, NEW R, New(e, R), New(f, R),
         stack' = s \o <<e, f>>
  PROVE  Pushes(s, R)
<1>1. <<e, f>> \in Seq(Frame) /\ Len(<<e, f>>) = 2
  OBVIOUS
<1>2. /\ stack' \in Seq(Frame) /\ Len(s) \in Nat /\ DOMAIN stack' = 1..(Len(s) + 2)
      /\ \A i \in 1..Len(s) : stack'[i] = s[i]
      /\ \A i \in 1..2 : stack'[Len(s) + i] = <<e, f>>[i]
  BY <1>1, Concatenated
<1>3. Len(stack') = Len(s) + 2
  BY <1>2, LenProperties
<1>4. stack'[Len(s) + 1] = e /\ stack'[Len(s) + 2] = f
  BY <1>2
<1>5. \A i \in (Len(s) + 1)..Len(stack') : i = Len(s) + 1 \/ i = Len(s) + 2
  BY <1>2, <1>3
<1>6. \A i \in (Len(s) + 1)..Len(stack') : New(stack'[i], R)
  BY <1>4, <1>5
<1>7. \A i \in 1..Len(s) : Like(stack'[i], s[i])
  BY <1>2, Alike
<1>8. QED BY <1>2, <1>3, <1>6, <1>7 DEF Pushes

\* A wider set of functions allows no less.
LEMMA Wider ==
  ASSUME NEW s, NEW R, NEW T, R \subseteq T, Piece(s, R)
  PROVE  Piece(s, T)
BY DEF Piece, Pushes, New

\* Two pushes, one after the other
LEMMA PushesOnto ==
  ASSUME NEW s \in Seq(Frame), NEW f \in Frame, NEW R, New(f, R), Pushes(Append(s, f), R)
  PROVE  Pushes(s, R)
<1>1. /\ Len(s) \in Nat /\ Len(Append(s, f)) = Len(s) + 1
      /\ \A i \in 1..Len(s) : Append(s, f)[i] = s[i]
      /\ Append(s, f)[Len(s) + 1] = f
  BY Appended
<1>2. Len(stack') \in Nat /\ Len(s) + 1 <= Len(stack') /\ stack' \in Seq(Frame)
  BY <1>1, LenProperties DEF Pushes
<1>3. \A i \in 1..(Len(s) + 1) : Like(stack'[i], Append(s, f)[i])
  BY <1>1 DEF Pushes
<1>4. \A i \in 1..Len(s) : i \in 1..(Len(s) + 1)
  BY <1>1
<1>5. \A i \in 1..Len(s) : Like(stack'[i], s[i])
  BY <1>1, <1>3, <1>4
<1>6. Like(stack'[Len(s) + 1], f)
  <2>1. Len(s) + 1 \in 1..(Len(s) + 1)
    BY <1>1
  <2>2. QED BY <1>1, <1>3, <2>1
<1>7. New(stack'[Len(s) + 1], R)
  BY <1>6 DEF New, Like, GoodIn, RunBy
<1>8. \A i \in (Len(s) + 1)..Len(stack') : i = Len(s) + 1 \/ i \in (Len(s) + 1 + 1)..Len(stack')
  BY <1>1, <1>2
<1>9. \A i \in (Len(s) + 1)..Len(stack') : New(stack'[i], R)
  BY <1>1, <1>7, <1>8 DEF Pushes
<1>10. Len(s) <= Len(stack')
  BY <1>1, <1>2
<1>11. QED BY <1>2, <1>5, <1>9, <1>10 DEF Pushes

\* A piece that only answers
LEMMA Answers ==
  ASSUME Sound(ifaces), TypeOK, Makes, NEW s \in Seq(Frame), UNCHANGED ifaces, stack' = s,
         ret' \in Status, NEW R
  PROVE  Piece(s, R)
BY Untouched, Stays DEF Piece

\* efi_disconnect_all_drivers
LEMMA DisconnectsAll ==
  ASSUME Sound(ifaces), TypeOK, Makes, NEW s \in Seq(Frame), NEW h \in Handle, NEW gs,
         NEW child \in Handle \cup {NULL}, DisconnectAllAt(s, h, gs, child)
  PROVE  Piece(s, {"stop"})
<1> DEFINE f == [F("disconnectAll") EXCEPT !.h = h, !.c = child, !.todo = Reverse(AgentsOf(h, gs))]
<1>1. /\ UNCHANGED ifaces
      /\ \/ stack' = s /\ ret' = "success"
         \/ stack' = Append(s, f) /\ ret' = "none"
  BY DEF DisconnectAllAt, Return, Enter
<1>2. ret' \in Status
  BY <1>1 DEF Status
<1>3. f \in Frame
  <2>1. F("disconnectAll") \in Frame
    BY Fresh
  <2>2. Reverse(AgentsOf(h, gs)) \in Seq(Handle)
    BY AgentsAre
  <2> DEFINE q == Reverse(AgentsOf(h, gs))
  <2> HIDE DEF q
  <2>3. [F("disconnectAll") EXCEPT !.h = h, !.c = child, !.todo = q] \in Frame
    BY <2>1, <2>2 DEF Frame, q
  <2>4. QED BY <2>3 DEF q
<1>4. f.op = "disconnectAll"
  BY DEF F
<1> HIDE DEF f
<1>5. New(f, {"stop"})
  BY <1>4 DEF New, GoodIn, RunBy
<1>6. Pushes(s, {"stop"})
  BY <1>1, <1>3, <1>5, Stays, OneMore
<1>7. QED BY <1>1, <1>2, <1>6, Untouched DEF Piece

\* efi_disconnect_controller_impl
LEMMA DisconnectsOne ==
  ASSUME Sound(ifaces), TypeOK, Makes, NEW s \in Seq(Frame), NEW c \in Handle \cup {NULL},
         NEW d \in Handle \cup {NULL}, NEW child \in Handle \cup {NULL},
         DisconnectAt(s, c, d, child)
  PROVE  Piece(s, {"stop"})
<1>1. CASE ~Valid(c) \/ (child # NULL /\ ~Valid(child))
  <2>1. stack' = s /\ ret' = "invalid_parameter" /\ UNCHANGED ifaces
    BY <1>1 DEF DisconnectAt, Return
  <2>2. QED BY <2>1, Answers DEF Status
<1>2. CASE Valid(c) /\ ~(child # NULL /\ ~Valid(child)) /\ d = NULL
  <2>1. DisconnectAllAt(s, c, Guid, child)
    BY <1>2 DEF DisconnectAt
  <2>2. c \in Handle
    BY <1>2, Types
  <2>3. QED BY <2>1, <2>2, DisconnectsAll
<1>3. CASE Valid(c) /\ ~(child # NULL /\ ~Valid(child)) /\ d # NULL /\ ~Has(d, Binding)
  <2>1. stack' = s /\ ret' = "invalid_parameter" /\ UNCHANGED ifaces
    BY <1>3 DEF DisconnectAt, Return
  <2>2. QED BY <2>1, Answers DEF Status
<1>4. CASE Valid(c) /\ d # NULL /\ Has(d, Binding) /\ child # NULL /\ Valid(child)
  <2>1. CloseAt(s, d, Binding, d, NULL) /\ ret' = "success"
    BY <1>4 DEF DisconnectAt
  <2>2. HasIn(ifaces, made, d, Binding)
    BY <1>4, Types
  <2>3. ret' \in Status
    BY <2>1 DEF Status
  <2>4. Piece(s, {})
    BY <2>1, <2>2, <2>3, Closing
  <2>5. QED BY <2>4, Wider
<1>5. CASE Valid(c) /\ d # NULL /\ Has(d, Binding) /\ child = NULL
  <2> DEFINE key == Key(d, NULL, {"get"})
             p == IF HasChildren(c, d) THEN 1 ELSE 2
             e == [F("disconnect") EXCEPT !.h = c, !.d = d, !.pos = p]
             f == Call("stop", c, d)
  <2>1. ifaces' = Opened(d, Binding, key) /\ stack' = s \o <<e, f>> /\ ret' = "none"
    BY <1>5 DEF DisconnectAt, Enter
  <2>2. HasIn(ifaces, made, d, Binding) /\ d \in Handle
    BY <1>5, Types, Numbers
  <2>3. key \in RecordKey /\ ~Owner(key) /\ "exclusive" \notin key.attrs
    BY <2>2 DEF Key, RecordKey, Owner, Valued, Attribute
  <2> HIDE DEF key
  <2>4. Sound(ifaces') /\ Same /\ TameAll
    BY <2>1, <2>2, <2>3, Opening
  <2>5. p \in Nat
    OBVIOUS
  <2> HIDE DEF p
  <2>6. e \in Frame
    <3>1. F("disconnect") \in Frame
      BY Fresh
    <3>2. QED BY <2>5, <3>1 DEF Frame
  <2>7. e.op = "disconnect" /\ e.d = d
    BY DEF F
  <2>8. GoodIn(ifaces', made', e)
    <3>1. HasIn(ifaces', made', d, Binding)
      BY <2>2, <2>4, SameGrown, StillHas
    <3> HIDE DEF e
    <3>2. QED BY <2>7, <3>1 DEF GoodIn
  <2>9. RunBy(e) \subseteq {"stop"}
    BY <2>7 DEF RunBy
  <2>10. New(e, {"stop"})
    BY <2>7, <2>8, <2>9 DEF New
  <2>11. f \in Frame /\ New(f, {"stop"})
    BY Called DEF Function
  <2> HIDE DEF e, f
  <2>12. Pushes(s, {"stop"})
    BY <2>1, <2>6, <2>10, <2>11, TwoMore
  <2>13. QED BY <2>1, <2>4, <2>12 DEF Piece, Status
<1>6. QED BY <1>1, <1>2, <1>3, <1>4, <1>5

\* efi_uninstall_protocol_interface_impl
LEMMA Uninstalls ==
  ASSUME Sound(ifaces), TypeOK, Makes, NEW s \in Seq(Frame), NEW h \in Handle \cup {NULL},
         NEW g \in Guid, NEW i \in Interface \cup {NoInterface}, UninstallAt(s, h, g, i)
  PROVE  /\ Piece(s, {"stop"})
         /\ ~Has(h, g) => stack' = s /\ ret' # "success"
<1>1. CASE ~Has(h, g)
  <2>1. stack' = s /\ ret' \in {"not_found", "invalid_parameter"} /\ UNCHANGED ifaces
    BY <1>1 DEF UninstallAt, Return
  <2>2. QED BY <2>1, Answers DEF Status
<1>2. CASE Has(h, g)
  <2> DEFINE f == [F("uninstall") EXCEPT !.h = h, !.g = g, !.i = i]
  <2>1. DisconnectAllAt(Append(s, f), h, {g}, NULL)
    BY <1>2 DEF UninstallAt
  <2>2. HasIn(ifaces, made, h, g) /\ h \in Handle
    BY <1>2, Types, HasEntry
  <2>3. f \in Frame
    <3>1. F("uninstall") \in Frame
      BY Fresh
    <3>2. QED BY <3>1 DEF Frame
  <2>4. f.op = "uninstall" /\ f.h = h /\ f.g = g
    BY <2>3 DEF F
  <2> HIDE DEF f
  <2>5. Append(s, f) \in Seq(Frame)
    BY <2>3, Appended
  <2>6. Piece(Append(s, f), {"stop"})
    BY <2>1, <2>2, <2>5, DisconnectsAll
  <2>7. GoodIn(ifaces', made', f)
    <3>1. HasIn(ifaces', made', h, g)
      BY <2>2, <2>6, SameGrown, StillHas DEF Piece
    <3>2. QED BY <2>4, <3>1 DEF GoodIn
  <2>8. New(f, {"stop"})
    BY <2>4, <2>7 DEF New, RunBy
  <2>9. Pushes(s, {"stop"})
    BY <2>3, <2>6, <2>8, PushesOnto DEF Piece
  <2>10. QED BY <1>2, <2>6, <2>9 DEF Piece
<1>3. QED BY <1>1, <1>2

\* efi_connect_controller_impl
LEMMA ConnectsAll ==
  ASSUME Sound(ifaces), TypeOK, Makes, NEW s \in Seq(Frame), NEW c \in Handle \cup {NULL},
         NEW recursive \in BOOLEAN, NEW end \in BOOLEAN, ConnectAt(s, c, recursive, end)
  PROVE  Piece(s, {"supported", "start"})
<1>1. CASE ~Valid(c)
  <2>1. stack' = s /\ ret' = "invalid_parameter" /\ UNCHANGED ifaces
    BY <1>1 DEF ConnectAt, Return
  <2>2. QED BY <2>1, Answers DEF Status
<1>2. CASE Valid(c)
  <2> DEFINE q == LocateHandle(Binding)
             p == IF recursive THEN 1 ELSE 0
             st == IF end THEN "success" ELSE "none"
             f == [F("connect") EXCEPT !.h = c, !.todo = q, !.ok = end, !.pos = p, !.st = st]
  <2>1. stack' = Append(s, f) /\ ret' = "none" /\ UNCHANGED ifaces
    BY <1>2 DEF ConnectAt, Enter
  <2>2. q \in Seq(Handle) /\ \A d \in ToSet(q) : HasIn(ifaces, made, d, Binding)
    BY Located, Types
  <2>3. p \in Nat /\ st \in {"none", "success"} /\ c \in Handle
    BY <1>2, Types
  <2> HIDE DEF q, p, st
  <2>4. f \in Frame
    <3>1. F("connect") \in Frame
      BY Fresh
    <3>2. QED BY <2>2, <2>3, <3>1 DEF Frame
  <2>5. f.op = "connect" /\ f.h = c /\ f.todo = q
    BY <2>4 DEF F
  <2> HIDE DEF f
  <2>6. Sound(ifaces') /\ Same /\ TameAll
    BY <2>1, Untouched
  <2>7. GoodIn(ifaces', made', f)
    <3>1. \A d \in ToSet(q) : HasIn(ifaces', made', d, Binding)
      BY <2>1, <2>2, Types DEF HasIn, Makes
    <3>2. c \in 1..made'
      BY <1>2, Types DEF Valid, Makes
    <3>3. QED BY <2>5, <3>1, <3>2 DEF GoodIn
  <2>8. New(f, {"supported", "start"})
    BY <2>5, <2>7 DEF New, RunBy
  <2>9. Pushes(s, {"supported", "start"})
    BY <2>1, <2>4, <2>8, OneMore
  <2>10. QED BY <2>1, <2>6, <2>9 DEF Piece, Status
<1>3. QED BY <1>1, <1>2

-----------------------------------------------------------------------------
(* Owners.  Between the checks and the record of an exclusive opener stop  *)
(* functions run.  What they may do is bounded: nothing they call in the   *)
(* end opens a protocol.                                                   *)

\* The functions each service runs
CalledBy ==
  [Install |-> {"notify"}, InstallMultiple |-> {"notify", "stop"},
   Reinstall |-> {"stop", "notify", "supported", "start"}, Uninstall |-> {"stop"},
   Register |-> {}, Open |-> {"stop"}, Close |-> {}, Connect |-> {"supported", "start"},
   Disconnect |-> {"stop"}, StartImage |-> {"image"}, Exit |-> {}]

\* Functions that open nothing and, through services, run only each other
Confined(Q) ==
  /\ "stop" \in Q
  /\ \A fn \in Q : "Open" \notin May[fn] /\ \A s \in May[fn] : CalledBy[s] \subseteq Q

\* Stop functions are such, with the functions they run in the end.
CalmStops == \E Q \in SUBSET Function : Confined(Q)

\* The functions a stop function may run in the end
Within == CHOOSE Q \in SUBSET Function : Confined(Q)

\* A call that may be made by a stop function
CalmFrame(f) == f.op # "open" /\ RunBy(f) \subseteq Within

\* The innermost call is one.
CalmTop == stack # <<>> /\ CalmFrame(Top)

\* Somebody opened the interface of h for g exclusively.
ExclusiveAt(ifs, h, g) == \E k \in DOMAIN ifs[h] : ifs[h][k].guid = g /\ Exclusive(ifs[h][k].opens)

\* Each interface has one owner at most.
OneOwnerEach(ifs) == \A h \in Handle : \A k \in DOMAIN ifs[h] : OneOwnerIn(ifs[h][k].opens)

\* Nobody gets hold of an interface exclusively while somebody is about to.
OwnerInv ==
  /\ OneOwnerEach(ifaces)
  /\ \A i \in DOMAIN stack : stack[i].op = "open" =>
       /\ ~ExclusiveAt(ifaces, stack[i].h, stack[i].g)
       /\ \A j \in DOMAIN stack : j > i => CalmFrame(stack[j])

-----------------------------------------------------------------------------
(* Steps.  A step leaves the frames b where they are, all of them or all   *)
(* but the innermost, and puts new ones on them.                           *)

\* A program's function has called a service, or a service goes on or returns.
BaseOK(b) == \/ b = stack /\ (stack = <<>> \/ Top.op = "call")
             \/ b = Front(stack) /\ stack # <<>>

\* The frames stay, and the new ones are good and calm if they have to be.
Moves(b) ==
  /\ BaseOK(b) /\ stack' \in Seq(Frame) /\ Len(b) <= Len(stack')
  /\ \A i \in 1..Len(b) : Like(stack'[i], stack[i])
  /\ \A i \in (Len(b) + 1)..Len(stack') :
       /\ GoodIn(ifaces', made', stack'[i])
       /\ stack'[i].op = "reinstall" => stack'[i].h \in 1..made' \/ (i = Len(stack') /\ ret' # "success")
       /\ CalmStops /\ CalmTop => CalmFrame(stack'[i])
       /\ CalmStops /\ OwnerInv /\ stack'[i].op = "open" =>
            /\ ~ExclusiveAt(ifaces', stack'[i].h, stack'[i].g)
            /\ \A j \in (i + 1)..Len(stack') : CalmFrame(stack'[j])

\* No Install begins or ends.
NoInstall(b) ==
  /\ b = stack \/ Top.op # "install"
  /\ \A i \in (Len(b) + 1)..Len(stack') : stack'[i].op # "install"

\* No second owner, and no exclusive one where somebody waits to become it
Owners(b) ==
  CalmStops /\ OwnerInv =>
    /\ OneOwnerEach(ifaces')
    /\ \/ \A h \in Handle, g \in Guid : ExclusiveAt(ifaces', h, g) => ExclusiveAt(ifaces, h, g)
       \/ \A i \in DOMAIN b : stack[i].op # "open"

\* A step that changes records and the stack only
Regular(b) ==
  /\ Moves(b) /\ NoInstall(b) /\ Owners(b) /\ Sound(ifaces') /\ Same /\ ret' \in Status
  /\ UNCHANGED <<notifies, unlisted>>

\* The frames of b
LEMMA Bases ==
  ASSUME TypeOK, NEW b, BaseOK(b)
  PROVE  /\ b \in Seq(Frame) /\ Len(b) \in Nat /\ Len(stack) \in Nat
         /\ DOMAIN stack = 1..Len(stack) /\ DOMAIN b = 1..Len(b)
         /\ 1..Len(b) \subseteq DOMAIN stack
         /\ \A i \in 1..Len(b) : b[i] = stack[i]
         /\ \A i \in DOMAIN stack : stack[i] \in Frame
         /\ \A i \in 1..Len(b) : i = Len(stack) => Top.op = "call"
         /\ b # stack => Len(b) = Len(stack) - 1 /\ stack # <<>>
         /\ stack # <<>> => Len(stack) \in DOMAIN stack /\ Top = stack[Len(stack)] /\ Top \in Frame
<1>1. stack \in Seq(Frame) /\ Len(stack) \in Nat /\ DOMAIN stack = 1..Len(stack)
      /\ \A i \in DOMAIN stack : stack[i] \in Frame
  BY Types, LenProperties
<1>2. stack # <<>> => Len(stack) \in DOMAIN stack /\ Top = stack[Len(stack)] /\ Top \in Frame
  BY <1>1, EmptySeq DEF Top
<1>3. CASE b = stack /\ (stack = <<>> \/ Top.op = "call")
  <2>1. \A i \in 1..Len(b) : i = Len(stack) => Top.op = "call"
    BY <1>1, <1>3, EmptySeq
  <2>2. QED BY <1>1, <1>2, <1>3, <2>1
<1>4. CASE b = Front(stack) /\ stack # <<>>
  <2>1. /\ Front(stack) \in Seq(Frame) /\ Len(stack) \in Nat \ {0} /\ Len(Front(stack)) = Len(stack) - 1
        /\ DOMAIN Front(stack) = 1..(Len(stack) - 1)
        /\ \A i \in 1..(Len(stack) - 1) : Front(stack)[i] = stack[i]
    BY <1>1, <1>4, FrontOf
  <2>2. \A i \in 1..(Len(stack) - 1) : i \in 1..Len(stack) /\ i # Len(stack)
    <3> DEFINE n == Len(stack)
    <3> HIDE DEF n
    <3>1. n \in Nat
      BY <1>1 DEF n
    <3>2. \A i \in 1..(n - 1) : i \in 1..n /\ i # n
      BY <3>1
    <3>3. QED BY <3>2 DEF n
  <2>3. Len(stack) - 1 \in Nat
    BY <2>1
  <2>4. QED BY <1>1, <1>2, <1>4, <2>1, <2>2, <2>3
<1>5. QED BY <1>3, <1>4 DEF BaseOK

\* Every frame of the new stack was there or is new.
LEMMA Frames ==
  ASSUME TypeOK, NEW b, Moves(b)
  PROVE  /\ Len(stack') \in Nat /\ DOMAIN stack' = 1..Len(stack')
         /\ 1..Len(b) \subseteq DOMAIN stack'
         /\ \A i \in DOMAIN stack' : i \in 1..Len(b) \/ i \in (Len(b) + 1)..Len(stack')
         /\ \A i \in (Len(b) + 1)..Len(stack') : i > Len(b) /\ i \notin 1..Len(b)
<1>1. Len(stack') \in Nat /\ DOMAIN stack' = 1..Len(stack') /\ Len(b) <= Len(stack')
  BY LenProperties DEF Moves
<1>2. Len(b) \in Nat
  BY Bases DEF Moves
<1>3. QED BY <1>1, <1>2

\* The frames stay good.
LEMMA MovesGood ==
  ASSUME DatabaseInv, NEW b, Moves(b), Grown
  PROVE  FramesGood'
<1>1. TypeOK /\ FramesGood /\ BaseOK(b)
  BY DEF DatabaseInv, Moves
<1>2. \A i \in DOMAIN stack' : i \in 1..Len(b) \/ i \in (Len(b) + 1)..Len(stack')
  BY <1>1, Frames
<1>3. ASSUME NEW i \in 1..Len(b)
      PROVE  /\ GoodIn(ifaces', made', stack'[i])
             /\ stack'[i].op = "reinstall" => stack'[i].h \in 1..made'
  <2>1. i \in DOMAIN stack /\ Like(stack'[i], stack[i]) /\ (i = Len(stack) => Top.op = "call")
        /\ (i = Len(stack) => Top = stack[i])
    BY <1>1, Bases DEF Moves, Top
  <2>2. GoodIn(ifaces, made, stack[i])
        /\ (stack[i].op = "reinstall" => Valid(stack[i].h) \/ i = Len(stack))
    BY <1>1, <2>1 DEF FramesGood
  <2>3. GoodIn(ifaces', made', stack'[i])
    BY <1>1, <2>1, <2>2, StaysGood
  <2>4. stack'[i].op = "reinstall" => stack'[i].h \in 1..made'
    BY <1>1, <2>1, <2>2, StillHas DEF Like, Valid
  <2>5. QED BY <2>3, <2>4
<1>4. ASSUME NEW i \in (Len(b) + 1)..Len(stack')
      PROVE  /\ GoodIn(ifaces', made', stack'[i])
             /\ stack'[i].op = "reinstall" =>
                  stack'[i].h \in 1..made' \/ (i = Len(stack') /\ ret' # "success")
  BY DEF Moves
<1>5. QED BY <1>2, <1>3, <1>4 DEF FramesGood, Valid

\* The owners stay apart.
LEMMA MovesOwners ==
  ASSUME DatabaseInv, OwnerInv, CalmStops, NEW b, Moves(b), Owners(b)
  PROVE  OwnerInv'
<1>1. TypeOK /\ FramesGood /\ BaseOK(b)
  BY DEF DatabaseInv, Moves
<1>2. \A i \in DOMAIN stack' : i \in 1..Len(b) \/ i \in (Len(b) + 1)..Len(stack')
  BY <1>1, Frames
<1>3. OneOwnerEach(ifaces')
  BY DEF Owners
<1>4. ASSUME NEW i \in 1..Len(b), stack'[i].op = "open"
      PROVE  /\ ~ExclusiveAt(ifaces', stack'[i].h, stack'[i].g)
             /\ \A j \in DOMAIN stack' : j > i => CalmFrame(stack'[j])
  <2>1. /\ i \in DOMAIN stack /\ Like(stack'[i], stack[i]) /\ stack[i] \in Frame
        /\ (i = Len(stack) => Top.op = "call") /\ (i = Len(stack) => Top = stack[i])
    BY <1>1, Bases DEF Moves, Top
  <2>2. stack[i].op = "open" /\ i # Len(stack)
    BY <1>4, <2>1 DEF Like
  <2>3. /\ ~ExclusiveAt(ifaces, stack[i].h, stack[i].g)
        /\ \A j \in DOMAIN stack : j > i => CalmFrame(stack[j])
    BY <2>1, <2>2 DEF OwnerInv
  <2>4. stack[i].h \in Handle /\ stack[i].g \in Guid
    <3>1. HasIn(ifaces, made, stack[i].h, stack[i].g)
      BY <1>1, <2>1, <2>2 DEF FramesGood, GoodIn
    <3>2. stack[i].h \in Handle
      BY <1>1, <3>1, HasEntry
    <3>3. QED BY <2>1, <3>2 DEF Frame
  <2>5. i \in DOMAIN b
    BY <1>1, Bases
  <2>6. ~ExclusiveAt(ifaces', stack'[i].h, stack'[i].g)
    BY <2>1, <2>2, <2>3, <2>4, <2>5 DEF Owners, Like
  <2>7. CalmTop
    <3>1. Len(stack) \in DOMAIN stack /\ Len(stack) > i /\ Top = stack[Len(stack)] /\ stack # <<>>
      BY <1>1, <2>1, <2>2, Bases, EmptySeq DEF Top
    <3>2. QED BY <2>3, <3>1 DEF CalmTop
  <2>8. ASSUME NEW j \in 1..Len(b), j > i PROVE CalmFrame(stack'[j])
    <3>1. j \in DOMAIN stack /\ Like(stack'[j], stack[j])
      BY <1>1, Bases DEF Moves
    <3>2. CalmFrame(stack[j])
      BY <2>3, <2>8, <3>1
    <3>3. QED BY <3>1, <3>2 DEF CalmFrame, Like, RunBy
  <2>9. \A j \in (Len(b) + 1)..Len(stack') : CalmFrame(stack'[j])
    BY <2>7 DEF Moves
  <2>10. QED BY <1>2, <2>6, <2>8, <2>9
<1>5. ASSUME NEW i \in (Len(b) + 1)..Len(stack'), stack'[i].op = "open"
      PROVE  /\ ~ExclusiveAt(ifaces', stack'[i].h, stack'[i].g)
             /\ \A j \in DOMAIN stack' : j > i => CalmFrame(stack'[j])
  <2>1. /\ ~ExclusiveAt(ifaces', stack'[i].h, stack'[i].g)
        /\ \A j \in (i + 1)..Len(stack') : CalmFrame(stack'[j])
    BY <1>5 DEF Moves
  <2>2. Len(b) \in Nat /\ Len(stack') \in Nat /\ DOMAIN stack' = 1..Len(stack')
    BY <1>1, Bases, Frames
  <2>3. \A j \in DOMAIN stack' : j > i => j \in (i + 1)..Len(stack')
    BY <2>2
  <2>4. QED BY <2>1, <2>3
<1>6. \A i \in DOMAIN stack' : stack'[i].op = "open" =>
         /\ ~ExclusiveAt(ifaces', stack'[i].h, stack'[i].g)
         /\ \A j \in DOMAIN stack' : j > i => CalmFrame(stack'[j])
  BY <1>2, <1>4, <1>5
<1>7. QED BY <1>3, <1>6 DEF OwnerInv, CalmFrame, RunBy, Within

\* The steps that install nothing keep the database in order.
LEMMA RegularDatabase ==
  ASSUME DatabaseInv, NEW b, Regular(b)
  PROVE  DatabaseInv'
<1>1. /\ TypeOK /\ FramesGood /\ InstallsApart /\ Listed
      /\ Moves(b) /\ BaseOK(b) /\ Same /\ Sound(ifaces') /\ ret' \in Status
      /\ notifies' = notifies /\ unlisted' = unlisted
  BY DEF DatabaseInv, Regular, Moves
<1>2. /\ made \in 0..MaxHandles /\ made' \in 0..MaxHandles /\ made <= made' /\ MaxHandles \in Nat
      /\ \A h \in Handle : h > made => ifaces[h] = <<>>
      /\ \A h \in Handle : DOMAIN ifaces'[h] = DOMAIN ifaces[h]
      /\ \A h \in Handle : \A k \in DOMAIN ifaces[h] : ifaces'[h][k].guid = ifaces[h][k].guid
  BY <1>1, Types, Numbers DEF Same
<1>3. \A h \in Handle : h > made' => ifaces'[h] = <<>>
  <2>1. SUFFICES ASSUME NEW h \in Handle, h > made' PROVE ifaces'[h] = <<>>
    OBVIOUS
  <2>2. h > made
    BY <1>2, <2>1, Numbers DEF Handle
  <2>3. DOMAIN ifaces'[h] = {} /\ ifaces'[h] \in Seq(Iface)
    BY <1>1, <1>2, <2>2 DEF Sound
  <2>4. Len(ifaces'[h]) \in Nat /\ 1..Len(ifaces'[h]) = {}
    BY <2>3, LenProperties
  <2>5. Len(ifaces'[h]) = 0
    BY <2>4
  <2>6. QED BY <2>3, <2>5, EmptySeq
<1>4. TypeOK'
  BY <1>1, <1>2, <1>3 DEF TypeOK, Sound, Iface, Record, Moves
<1>5. FramesGood'
  BY <1>1, SameGrown, MovesGood DEF DatabaseInv
<1>6. \A h, g : HasIn(ifaces', made', h, g) = HasIn(ifaces, made, h, g)
  <2>1. SUFFICES ASSUME NEW h, NEW g PROVE HasIn(ifaces', made', h, g) = HasIn(ifaces, made, h, g)
    OBVIOUS
  <2>2. h \in 1..made' => h \in Handle /\ (h \in 1..made \/ h > made)
    BY <1>2 DEF Handle
  <2>3. h \in 1..made => h \in 1..made'
    BY <1>2
  <2>4. CASE h \in 1..made
    BY <1>2, <2>2, <2>3, <2>4 DEF HasIn
  <2>5. CASE h \in 1..made' /\ h \notin 1..made
    <3>1. DOMAIN ifaces'[h] = {}
      BY <1>2, <2>2, <2>5
    <3>2. QED BY <2>5, <3>1 DEF HasIn
  <2>6. CASE h \notin 1..made' /\ h \notin 1..made
    BY <2>6 DEF HasIn
  <2>7. QED BY <2>3, <2>4, <2>5, <2>6
<1>7. \A i \in DOMAIN stack' : stack'[i].op = "install" =>
         i \in 1..Len(b) /\ i \in DOMAIN stack /\ Like(stack'[i], stack[i])
  <2>1. SUFFICES ASSUME NEW i \in DOMAIN stack', stack'[i].op = "install"
                 PROVE  i \in 1..Len(b) /\ i \in DOMAIN stack /\ Like(stack'[i], stack[i])
    OBVIOUS
  <2>2. i \in 1..Len(b)
    BY <1>1, <2>1, Frames DEF Regular, NoInstall
  <2>3. QED BY <1>1, <2>2, Bases DEF Moves
<1>8. \A i \in DOMAIN stack : stack[i].op = "install" =>
         i \in DOMAIN stack' /\ Like(stack'[i], stack[i])
  <2>1. SUFFICES ASSUME NEW i \in DOMAIN stack, stack[i].op = "install"
                 PROVE  i \in 1..Len(b)
    BY <1>1, Frames DEF Moves
  <2>2. b = stack \/ (Top.op # "install" /\ Len(b) = Len(stack) - 1 /\ Top = stack[Len(stack)])
    BY <1>1, Bases DEF Regular, NoInstall
  <2>3. Len(b) \in Nat /\ DOMAIN stack = 1..Len(stack) /\ DOMAIN b = 1..Len(b) /\ Len(stack) \in Nat
    BY <1>1, Bases
  <2>4. CASE b = stack
    BY <2>3, <2>4
  <2>5. CASE Top.op # "install" /\ Len(b) = Len(stack) - 1 /\ Top = stack[Len(stack)]
    <3>1. i # Len(stack)
      BY <2>1, <2>5
    <3>2. QED BY <2>3, <2>5, <3>1
  <2>6. QED BY <2>2, <2>4, <2>5
<1>9. InstallsApart'
  BY <1>1, <1>7 DEF InstallsApart, Like
<1>10. \A k \in DOMAIN notifies : Having(notifies[k].guid)' = Having(notifies[k].guid)
  <2>1. ASSUME NEW k \in DOMAIN notifies PROVE Having(notifies[k].guid)' = Having(notifies[k].guid)
    <3>1. Having(notifies[k].guid) = {h \in 1..made : HasIn(ifaces, made, h, notifies[k].guid)}
      BY <1>1, Types DEF Having
    <3>2. Having(notifies[k].guid)' = {h \in 1..made' : HasIn(ifaces', made', h, notifies[k].guid)}
      BY <1>1 DEF Having, Has, Valid, HasIn
    <3>3. QED BY <1>6, <3>1, <3>2 DEF HasIn
  <2>2. QED BY <2>1
<1>11. \A k \in DOMAIN notifies : {f.h : f \in Pending(k)}' = {f.h : f \in Pending(k)}
  <2>1. ASSUME NEW k \in DOMAIN notifies, NEW h PROVE h \in {f.h : f \in Pending(k)}' <=> h \in {f.h : f \in Pending(k)}
    <3>1. h \in {f.h : f \in Pending(k)} <=> \E i \in DOMAIN stack :
             stack[i].op = "install" /\ stack[i].g = notifies[k].guid /\ stack[i].pos <= k /\ h = stack[i].h
      BY DEF Pending, ToSet
    <3>2. h \in {f.h : f \in Pending(k)}' <=> \E i \in DOMAIN stack' :
             stack'[i].op = "install" /\ stack'[i].g = notifies[k].guid /\ stack'[i].pos <= k /\ h = stack'[i].h
      BY <1>1 DEF Pending, ToSet
    <3>3. QED BY <1>7, <1>8, <3>1, <3>2 DEF Like
  <2>2. QED BY <2>1
<1>12. Listed'
  BY <1>1, <1>10, <1>11 DEF Listed
<1>13. QED BY <1>1, <1>4, <1>5, <1>9, <1>12 DEF DatabaseInv

\* The owners
LEMMA RegularOwners ==
  ASSUME DatabaseInv, OwnerInv, CalmStops, NEW b, Regular(b)
  PROVE  OwnerInv'
BY MovesOwners DEF Regular

\* Stop functions stay within bounds.
LEMMA StopsWithin ==
  ASSUME CalmStops
  PROVE  Confined(Within)
BY DEF CalmStops, Within

\* A program's function calls a service.
LEMMA Clients ==
  ASSUME TypeOK, NEW service \in ServiceName, Client(service)
  PROVE  /\ BaseOK(stack)
         /\ stack # <<>> => Top.op = "call" /\ Top.fn \in Function /\ service \in May[Top.fn]
         /\ CalmStops /\ CalmTop => service # "Open" /\ CalledBy[service] \subseteq Within
<1>1. PICK fn \in Function : Runs(fn) /\ service \in May[fn]
  BY DEF Client
<1>2. stack # <<>> => Top.op = "call" /\ Top.fn = fn
  BY <1>1 DEF Runs
<1>3. BaseOK(stack)
  BY <1>2 DEF BaseOK
<1>4. CalmTop => fn \in Within
  BY <1>2 DEF CalmTop, CalmFrame, RunBy
<1>5. QED BY <1>1, <1>2, <1>3, <1>4, StopsWithin DEF Confined

\* Lists that stay tame have no second owner and no new exclusive one.
LEMMA TameOwners ==
  ASSUME TypeOK, Same, TameAll, NEW b
  PROVE  /\ OwnerInv => OneOwnerEach(ifaces')
         /\ \A h \in Handle : \A g : ExclusiveAt(ifaces', h, g) => ExclusiveAt(ifaces, h, g)
         /\ Owners(b)
<1>1. OwnerInv => OneOwnerEach(ifaces')
  BY DEF OwnerInv, OneOwnerEach, Same, TameAll, Tame
<1>2. \A h \in Handle : \A g : ExclusiveAt(ifaces', h, g) => ExclusiveAt(ifaces, h, g)
  BY DEF ExclusiveAt, Same, TameAll, Tame
<1>3. QED BY <1>1, <1>2 DEF Owners

\* What may be put on a stack
Putting(f, R) ==
  /\ f \in Frame /\ f.op # "install" /\ GoodIn(ifaces', made', f)
  /\ CalmStops /\ CalmTop => CalmFrame(f) /\ R \subseteq Within
  /\ CalmStops /\ OwnerInv /\ f.op = "open" => R \subseteq Within /\ ~ExclusiveAt(ifaces, f.h, f.g)

\* A step that pushes frames on b
LEMMA RegularPush ==
  ASSUME TypeOK, NEW b, BaseOK(b), b = stack \/ Top.op # "install", NEW R, Piece(b, R),
         "notify" \notin R, CalmStops /\ CalmTop => R \subseteq Within, UNCHANGED <<notifies, unlisted>>
  PROVE  Regular(b)
<1>1. /\ Pushes(b, R) /\ Sound(ifaces') /\ Same /\ TameAll /\ ret' \in Status
  BY DEF Piece
<1>2. \A i \in 1..Len(b) : b[i] = stack[i]
  BY Bases
<1>3. ASSUME NEW i \in (Len(b) + 1)..Len(stack')
      PROVE  /\ stack'[i].op \notin {"open", "reinstall", "install"}
             /\ GoodIn(ifaces', made', stack'[i]) /\ RunBy(stack'[i]) \subseteq R
  <2>1. New(stack'[i], R)
    BY <1>1 DEF Pushes
  <2>2. QED BY <2>1 DEF New, RunBy
<1>4. Moves(b)
  BY <1>1, <1>2, <1>3 DEF Moves, Pushes, CalmFrame
<1>5. NoInstall(b)
  BY <1>3 DEF NoInstall
<1>6. Owners(b)
  BY <1>1, TameOwners
<1>7. QED BY <1>1, <1>4, <1>5, <1>6 DEF Regular

\* A step that puts a frame on b, and others on it
LEMMA RegularPut ==
  ASSUME TypeOK, NEW b, BaseOK(b), b = stack \/ Top.op # "install", NEW R, NEW f, Putting(f, R),
         Piece(Append(b, f), R), "notify" \notin R, UNCHANGED <<notifies, unlisted>>,
         f.op = "reinstall" =>
           f.h \in 1..made' \/ (Len(stack') = Len(b) + 1 /\ ret' # "success")
  PROVE  Regular(b)
<1>1. /\ Pushes(Append(b, f), R) /\ Sound(ifaces') /\ Same /\ TameAll /\ ret' \in Status
  BY DEF Piece
<1>2. /\ \A i \in 1..Len(b) : b[i] = stack[i]
      /\ b \in Seq(Frame) /\ Len(b) \in Nat
  BY Bases
<1>3. /\ Len(Append(b, f)) = Len(b) + 1
      /\ \A i \in 1..Len(b) : Append(b, f)[i] = b[i]
      /\ Append(b, f)[Len(b) + 1] = f
  BY <1>2, Appended DEF Putting
<1>4. stack' \in Seq(Frame) /\ Len(stack') \in Nat /\ Len(b) + 1 <= Len(stack')
  BY <1>1, <1>3, LenProperties DEF Pushes
<1>5. \A i \in 1..(Len(b) + 1) : Like(stack'[i], Append(b, f)[i])
  BY <1>1, <1>3 DEF Pushes
<1>6. \A i \in 1..Len(b) : Like(stack'[i], stack[i])
  <2>1. \A i \in 1..Len(b) : i \in 1..(Len(b) + 1)
    BY <1>2
  <2>2. QED BY <1>2, <1>3, <1>5, <2>1
<1>7. Like(stack'[Len(b) + 1], f)
  <2>1. Len(b) + 1 \in 1..(Len(b) + 1)
    BY <1>2
  <2>2. QED BY <1>3, <1>5, <2>1
<1>8. ASSUME NEW i \in (Len(b) + 1)..Len(stack'), i # Len(b) + 1
      PROVE  /\ stack'[i].op \notin {"open", "reinstall", "install"}
             /\ GoodIn(ifaces', made', stack'[i]) /\ RunBy(stack'[i]) \subseteq R
  <2>1. i \in (Len(Append(b, f)) + 1)..Len(stack')
    BY <1>2, <1>3, <1>4, <1>8
  <2>2. New(stack'[i], R)
    BY <1>1, <2>1 DEF Pushes
  <2>3. QED BY <2>2 DEF New, RunBy
<1>9. GoodIn(ifaces', made', stack'[Len(b) + 1])
  BY <1>7 DEF Putting, Like, GoodIn
<1>10. ASSUME NEW i \in (Len(b) + 1)..Len(stack')
       PROVE  /\ GoodIn(ifaces', made', stack'[i])
              /\ stack'[i].op = "reinstall" =>
                   stack'[i].h \in 1..made' \/ (i = Len(stack') /\ ret' # "success")
              /\ CalmStops /\ CalmTop => CalmFrame(stack'[i])
              /\ stack'[i].op # "install"
  <2>1. CASE i # Len(b) + 1
    BY <1>8, <2>1 DEF CalmFrame, Putting
  <2>2. CASE i = Len(b) + 1
    <3>1. CalmStops /\ CalmTop => CalmFrame(stack'[i])
      BY <1>7, <2>2 DEF CalmFrame, Putting, Like, RunBy
    <3>2. QED BY <1>4, <1>7, <1>9, <2>2, <3>1 DEF Like, Putting
  <2>3. QED BY <2>1, <2>2
<1>11. ASSUME NEW i \in (Len(b) + 1)..Len(stack'), CalmStops, OwnerInv, stack'[i].op = "open"
       PROVE  /\ ~ExclusiveAt(ifaces', stack'[i].h, stack'[i].g)
              /\ \A j \in (i + 1)..Len(stack') : CalmFrame(stack'[j])
  <2>1. i = Len(b) + 1
    BY <1>8, <1>11
  <2>2. f.op = "open" /\ stack'[i].h = f.h /\ stack'[i].g = f.g
    BY <1>7, <1>11, <2>1 DEF Like
  <2>3. R \subseteq Within /\ ~ExclusiveAt(ifaces, f.h, f.g)
    BY <1>11, <2>2 DEF Putting
  <2>4. f.h \in Handle
    <3>1. f.h \in 1..made' /\ made' \in 0..MaxHandles
      BY <1>1, <2>2 DEF Putting, GoodIn, HasIn, Same
    <3>2. QED BY <3>1, Numbers DEF Handle
  <2>5. ~ExclusiveAt(ifaces', f.h, f.g)
    BY <1>1, <2>3, <2>4, TameOwners
  <2>6. \A j \in (i + 1)..Len(stack') : j \in (Len(b) + 1)..Len(stack') /\ j # Len(b) + 1
    BY <1>2, <1>4, <2>1
  <2>7. QED BY <1>8, <2>2, <2>3, <2>5, <2>6 DEF CalmFrame
<1>12. Len(b) <= Len(stack')
  BY <1>2, <1>4
<1>13. Moves(b)
  BY <1>4, <1>6, <1>10, <1>11, <1>12 DEF Moves
<1>14. NoInstall(b)
  BY <1>10 DEF NoInstall
<1>15. Owners(b)
  BY <1>1, TameOwners
<1>16. QED BY <1>1, <1>13, <1>14, <1>15 DEF Regular

-----------------------------------------------------------------------------
(* The services in progress                                                *)

\* The innermost call, when it is a service
LEMMA Inner ==
  ASSUME DatabaseInv, NEW op, Running(op)
  PROVE  /\ TypeOK /\ Sound(ifaces) /\ stack # <<>> /\ Top.op = op /\ Top \in Frame
         /\ GoodIn(ifaces, made, Top) /\ ret \in Status
         /\ Top.op = "reinstall" => Valid(Top.h) \/ ret # "success"
         /\ BaseOK(Front(stack)) /\ Front(stack) \in Seq(Frame)
         /\ CalmTop => CalmFrame(Top)
         /\ OwnerInv /\ Top.op = "open" =>
              /\ ~ExclusiveAt(ifaces, Top.h, Top.g)
              /\ \A i \in DOMAIN Front(stack) : stack[i].op # "open"
         /\ made' = made => Makes
<1>1. TypeOK /\ Sound(ifaces) /\ FramesGood /\ stack # <<>> /\ Top.op = op
  BY DEF DatabaseInv, Running
<1>2. BaseOK(Front(stack))
  BY <1>1 DEF BaseOK
<1>3. /\ Front(stack) \in Seq(Frame) /\ DOMAIN Front(stack) = 1..Len(Front(stack))
      /\ DOMAIN stack = 1..Len(stack)
      /\ Len(stack) \in DOMAIN stack /\ Top = stack[Len(stack)] /\ Top \in Frame
  BY <1>1, <1>2, Bases
<1>4. GoodIn(ifaces, made, Top) /\ (Top.op = "reinstall" => Valid(Top.h) \/ ret # "success")
  BY <1>1, <1>3 DEF FramesGood
<1>5. ASSUME OwnerInv, Top.op = "open" PROVE \A i \in DOMAIN Front(stack) : stack[i].op # "open"
  <2>1. ~CalmFrame(Top)
    BY <1>5 DEF CalmFrame
  <2>2. Len(stack) \in Nat /\ Len(Front(stack)) = Len(stack) - 1
    BY <1>1, Types, FrontOf
  <2>3. \A i \in DOMAIN Front(stack) : i \in DOMAIN stack /\ Len(stack) > i
    BY <1>3, <2>2
  <2>4. QED BY <1>3, <1>5, <2>1, <2>3 DEF OwnerInv
<1>6. ASSUME OwnerInv, Top.op = "open" PROVE ~ExclusiveAt(ifaces, Top.h, Top.g)
  BY <1>3, <1>6 DEF OwnerInv
<1>7. CalmTop => CalmFrame(Top)
  BY DEF CalmTop
<1>8. ret \in Status /\ (made' = made => Makes)
  BY <1>1, Types DEF Makes
<1>9. QED BY <1>1, <1>2, <1>3, <1>4, <1>5, <1>6, <1>7, <1>8

\* A service in progress returns.
LEMMA Returning ==
  ASSUME DatabaseInv, NEW op, Running(op), op # "install", stack' = Front(stack), ret' \in Status,
         UNCHANGED <<made, ifaces, notifies, unlisted>>
  PROVE  Regular(Front(stack))
<1>1. Piece(Front(stack), {})
  BY Inner, Answers
<1>2. QED BY <1>1, Inner, RegularPush

\* A service in progress goes on as f.
LEMMA GoingOn ==
  ASSUME DatabaseInv, NEW op, Running(op), op # "install", NEW f \in Frame, f.op # "reinstall",
         GoodIn(ifaces, made, f), f.op \notin {"install", "open"},
         NEW R, "notify" \notin R,
         CalmStops /\ CalmFrame(Top) => CalmFrame(f) /\ R \subseteq Within,
         Piece(Append(Front(stack), f), R), UNCHANGED <<made, notifies, unlisted>>
  PROVE  Regular(Front(stack))
<1>1. Grown
  BY SameGrown DEF Piece
<1>2. GoodIn(ifaces', made', f)
  BY <1>1, Inner, Alike, StaysGood
<1>3. Putting(f, R)
  BY <1>2, Inner DEF Putting
<1>4. QED BY <1>3, Inner, RegularPut

\* RollBack
LEMMA RollBackRegular ==
  ASSUME DatabaseInv, RollBack
  PROVE  Regular(Front(stack))
<1>1. Running("rollback") /\ UNCHANGED <<made, notifies, unlisted>>
  BY DEF RollBack
<1>2. /\ TypeOK /\ Sound(ifaces) /\ Makes /\ Top \in Frame /\ Front(stack) \in Seq(Frame)
      /\ Top.op = "rollback" /\ GoodIn(ifaces, made, Top)
  BY <1>1, Inner
<1>3. CASE Top.pos > Len(Top.pairs)
  <2>1. stack' = Front(stack) /\ ret' = Top.st /\ UNCHANGED ifaces
    BY <1>3 DEF RollBack, Return
  <2>2. Top.st \in Status
    BY <1>2 DEF Frame, Status
  <2>3. QED BY <1>1, <2>1, <2>2, Returning
<1>4. CASE ~(Top.pos > Len(Top.pairs))
  <2> DEFINE f == [Top EXCEPT !.pos = @ + 1]
             p == Top.pairs[Top.pos]
  <2>1. UninstallAt(Append(Front(stack), f), Top.h, p.guid, p.intf)
    BY <1>4 DEF RollBack, Replace
  <2>2. f \in Frame /\ f.op = "rollback" /\ f.pos = Top.pos + 1
    <3> DEFINE n == Top.pos + 1
    <3>1. n \in Nat
      BY <1>2 DEF Frame
    <3> HIDE DEF n
    <3>2. [Top EXCEPT !.pos = n] \in Frame
      BY <1>2, <3>1 DEF Frame
    <3>3. f = [Top EXCEPT !.pos = n] /\ f.pos = n
      BY <1>2 DEF n, Frame
    <3>4. QED BY <1>2, <3>2, <3>3 DEF n, Frame
  <2>3. p \in Pair
    <3>1. Top.pairs \in Seq(Pair) /\ Top.pos \in Nat /\ Top.pos >= 1
      BY <1>2 DEF Frame, GoodIn
    <3>2. Len(Top.pairs) \in Nat /\ \A k \in 1..Len(Top.pairs) : Top.pairs[k] \in Pair
      BY <3>1, LenProperties
    <3>3. Top.pos \in 1..Len(Top.pairs)
      BY <1>4, <3>1, <3>2
    <3>4. QED BY <3>2, <3>3
  <2>4. p.guid \in Guid /\ p.intf \in Interface \cup {NoInterface} /\ Top.h \in Handle \cup {NULL}
    BY <1>2, <2>3 DEF Pair, Frame
  <2> HIDE DEF p
  <2>5. GoodIn(ifaces, made, f)
    <3>1. Top.pos \in Nat
      BY <1>2 DEF Frame
    <3> HIDE DEF f
    <3>2. QED BY <2>2, <3>1 DEF GoodIn
  <2>6. CalmStops /\ CalmFrame(Top) => CalmFrame(f) /\ {"stop"} \subseteq Within
    <3> HIDE DEF f
    <3>1. QED BY <1>2, <2>2, StopsWithin DEF CalmFrame, RunBy, Confined
  <2> HIDE DEF f
  <2>7. Append(Front(stack), f) \in Seq(Frame)
    BY <1>2, <2>2, Appended
  <2>8. Piece(Append(Front(stack), f), {"stop"})
    BY <1>2, <2>1, <2>4, <2>7, Uninstalls
  <2>9. QED BY <1>1, <2>2, <2>5, <2>6, <2>8, GoingOn
<1>5. QED BY <1>3, <1>4

\* DisconnectAllNext
LEMMA DisconnectAllRegular ==
  ASSUME DatabaseInv, DisconnectAllNext
  PROVE  Regular(Front(stack))
<1>1. Running("disconnectAll") /\ UNCHANGED <<made, notifies, unlisted>>
  BY DEF DisconnectAllNext
<1>2. /\ TypeOK /\ Sound(ifaces) /\ Makes /\ Top \in Frame /\ Front(stack) \in Seq(Frame)
      /\ Top.op = "disconnectAll" /\ GoodIn(ifaces, made, Top)
  BY <1>1, Inner
<1>3. CASE Top.todo = <<>>
  <2>1. stack' = Front(stack) /\ ret' \in {"success", "not_found"} /\ UNCHANGED ifaces
    BY <1>3 DEF DisconnectAllNext, Return
  <2>2. QED BY <1>1, <2>1, Returning DEF Status
<1>4. CASE Top.todo # <<>>
  <2> DEFINE ok == Top.ok \/ ret = "success"
             f == [Top EXCEPT !.todo = Tail(@), !.ok = ok]
  <2>1. DisconnectAt(Append(Front(stack), f), Top.h, Head(Top.todo), Top.c)
    BY <1>4 DEF DisconnectAllNext, Replace
  <2>2. Tail(Top.todo) \in Seq(Handle) /\ Head(Top.todo) \in Handle
    BY <1>2, <1>4, HeadAndTail DEF Frame
  <2>3. f \in Frame /\ f.op = "disconnectAll"
    <3>1. ok \in BOOLEAN
      BY <1>2 DEF Frame
    <3> HIDE DEF ok
    <3>2. QED BY <1>2, <2>2, <3>1 DEF Frame
  <2> HIDE DEF f
  <2>4. GoodIn(ifaces, made, f)
    BY <2>3 DEF GoodIn
  <2>5. CalmStops => CalmFrame(f) /\ {"stop"} \subseteq Within
    BY <2>3, StopsWithin DEF CalmFrame, RunBy, Confined
  <2>6. Append(Front(stack), f) \in Seq(Frame)
    BY <1>2, <2>3, Appended
  <2>7. Top.h \in Handle \cup {NULL} /\ Top.c \in Handle \cup {NULL}
    BY <1>2 DEF Frame
  <2>8. Piece(Append(Front(stack), f), {"stop"})
    BY <1>2, <2>1, <2>2, <2>6, <2>7, DisconnectsOne
  <2>9. QED BY <1>1, <2>3, <2>4, <2>5, <2>8, GoingOn
<1>5. QED BY <1>3, <1>4

\* DisconnectNext
LEMMA DisconnectRegular ==
  ASSUME DatabaseInv, DisconnectNext
  PROVE  Regular(Front(stack))
<1>1. Running("disconnect") /\ UNCHANGED <<made, notifies, unlisted>>
  BY DEF DisconnectNext
<1>2. /\ TypeOK /\ Sound(ifaces) /\ Makes /\ Top \in Frame /\ Front(stack) \in Seq(Frame)
      /\ Top.op = "disconnect" /\ GoodIn(ifaces, made, Top) /\ BaseOK(Front(stack))
  BY <1>1, Inner
<1>3. CASE ret # "success"
  <2>1. stack' = Front(stack) /\ ret' = "device_error" /\ UNCHANGED ifaces
    BY <1>3 DEF DisconnectNext, Return
  <2>2. QED BY <1>1, <2>1, Returning DEF Status
<1>4. CASE ret = "success" /\ Top.pos = 1
  <2> DEFINE f == [Top EXCEPT !.pos = 2, !.ok = TRUE]
             e == Call("stop", Top.h, Top.d)
  <2>1. stack' = Append(Append(Front(stack), f), e) /\ ret' = "none" /\ UNCHANGED ifaces
    BY <1>4 DEF DisconnectNext, Replace, Enter
  <2>2. f \in Frame /\ f.op = "disconnect" /\ f.d = Top.d
    BY <1>2 DEF Frame
  <2>3. e \in Frame /\ New(e, {"stop"})
    <3>1. Top.h \in Handle \cup {NULL} /\ Top.d \in Handle \cup {NULL}
      BY <1>2 DEF Frame
    <3>2. QED BY <3>1, Called DEF Function
  <2> HIDE DEF f, e
  <2>4. GoodIn(ifaces, made, f)
    BY <1>2, <2>2 DEF GoodIn
  <2>5. CalmStops => CalmFrame(f) /\ {"stop"} \subseteq Within
    BY <2>2, StopsWithin DEF CalmFrame, RunBy, Confined
  <2>6. Append(Front(stack), f) \in Seq(Frame)
    BY <1>2, <2>2, Appended
  <2>7. Pushes(Append(Front(stack), f), {"stop"})
    BY <2>1, <2>3, <2>6, OneMore
  <2>8. Piece(Append(Front(stack), f), {"stop"})
    BY <1>2, <2>1, <2>7, Untouched DEF Piece, Status
  <2>9. QED BY <1>1, <2>2, <2>4, <2>5, <2>8, GoingOn
<1>5. CASE ret = "success" /\ Top.pos # 1
  <2>1. CloseAt(Front(stack), Top.d, Binding, Top.d, NULL) /\ ret' = "success"
    BY <1>5 DEF DisconnectNext
  <2>2. HasIn(ifaces, made, Top.d, Binding) /\ ret' \in Status
    BY <1>2, <2>1 DEF GoodIn, Status
  <2>3. Piece(Front(stack), {})
    BY <1>2, <2>1, <2>2, Closing
  <2>4. QED BY <1>1, <1>2, <2>3, RegularPush
<1>6. QED BY <1>3, <1>4, <1>5

\* BindNext
LEMMA BindRegular ==
  ASSUME DatabaseInv, BindNext
  PROVE  Regular(Front(stack))
<1>1. Running("bind") /\ UNCHANGED <<made, notifies, unlisted>>
  BY DEF BindNext
<1>2. /\ TypeOK /\ Sound(ifaces) /\ Makes /\ Top \in Frame /\ Front(stack) \in Seq(Frame)
      /\ Top.op = "bind" /\ GoodIn(ifaces, made, Top) /\ BaseOK(Front(stack)) /\ ret \in Status
  BY <1>1, Inner
<1>3. CASE Top.pos = 1 /\ ret = "success"
  <2> DEFINE f == [Top EXCEPT !.pos = 2]
             e == Call("start", Top.h, Top.d)
  <2>1. stack' = Append(Append(Front(stack), f), e) /\ ret' = "none" /\ UNCHANGED ifaces
    BY <1>3 DEF BindNext, Replace, Enter
  <2>2. f \in Frame /\ f.op = "bind" /\ f.d = Top.d
    BY <1>2 DEF Frame
  <2>3. e \in Frame /\ New(e, {"start"})
    <3>1. Top.h \in Handle \cup {NULL} /\ Top.d \in Handle \cup {NULL}
      BY <1>2 DEF Frame
    <3>2. QED BY <3>1, Called DEF Function
  <2> HIDE DEF f, e
  <2>4. GoodIn(ifaces, made, f)
    BY <1>2, <2>2 DEF GoodIn
  <2>5. CalmFrame(Top) => CalmFrame(f) /\ {"start"} \subseteq Within
    BY <1>2, <2>2 DEF CalmFrame, RunBy
  <2>6. Append(Front(stack), f) \in Seq(Frame)
    BY <1>2, <2>2, Appended
  <2>7. Pushes(Append(Front(stack), f), {"start"})
    BY <2>1, <2>3, <2>6, OneMore
  <2>8. Piece(Append(Front(stack), f), {"start"})
    BY <1>2, <2>1, <2>7, Untouched DEF Piece, Status
  <2>9. QED BY <1>1, <2>2, <2>4, <2>5, <2>8, GoingOn
<1>4. CASE ~(Top.pos = 1 /\ ret = "success")
  <2>1. CloseAt(Front(stack), Top.d, Binding, Top.d, NULL) /\ ret' = ret
    BY <1>4 DEF BindNext
  <2>2. HasIn(ifaces, made, Top.d, Binding) /\ ret' \in Status
    BY <1>2, <2>1 DEF GoodIn
  <2>3. Piece(Front(stack), {})
    BY <1>2, <2>1, <2>2, Closing
  <2>4. QED BY <1>1, <1>2, <2>3, RegularPush
<1>5. QED BY <1>3, <1>4

\* ConnectNext
LEMMA ConnectRegular ==
  ASSUME DatabaseInv, ConnectNext
  PROVE  Regular(Front(stack))
<1>1. Running("connect") /\ UNCHANGED <<made, notifies, unlisted>>
  BY DEF ConnectNext
<1>2. /\ TypeOK /\ Sound(ifaces) /\ Makes /\ Top \in Frame /\ Front(stack) \in Seq(Frame)
      /\ Top.op = "connect" /\ GoodIn(ifaces, made, Top)
  BY <1>1, Inner
<1> DEFINE ok == Top.ok \/ ret = "success"
<1>3. ok \in BOOLEAN
  BY <1>2 DEF Frame
<1>4. CASE Top.todo # <<>>
  <2> DEFINE d == Head(Top.todo)
             f == [Top EXCEPT !.todo = Tail(@), !.ok = ok]
             e == [F("bind") EXCEPT !.h = Top.h, !.d = d, !.pos = 1]
             c == Call("supported", Top.h, d)
             key == Key(d, NULL, {"get"})
  <2>1. ifaces' = Opened(d, Binding, key) /\ stack' = Append(Front(stack), f) \o <<e, c>> /\ ret' = "none"
    BY <1>4 DEF ConnectNext, Replace, Enter
  <2>2. /\ Tail(Top.todo) \in Seq(Handle) /\ d \in Handle
        /\ ToSet(Top.todo) = ToSet(Tail(Top.todo)) \cup {d}
    BY <1>2, <1>4, HeadAndTail DEF Frame
  <2>3. HasIn(ifaces, made, d, Binding)
    BY <1>2, <2>2 DEF GoodIn
  <2> HIDE DEF d
  <2>4. f \in Frame /\ f.op = "connect" /\ f.h = Top.h /\ f.todo = Tail(Top.todo)
    <3> HIDE DEF ok
    <3>1. QED BY <1>2, <1>3, <2>2 DEF Frame
  <2>5. e \in Frame /\ e.op = "bind" /\ e.d = d
    <3>1. F("bind") \in Frame /\ F("bind").op = "bind"
      BY Fresh
    <3>2. Top.h \in Handle \cup {NULL}
      BY <1>2 DEF Frame
    <3>3. QED BY <2>2, <3>1, <3>2 DEF Frame
  <2>6. c \in Frame /\ New(c, {"supported", "start"})
    <3>1. Top.h \in Handle \cup {NULL}
      BY <1>2 DEF Frame
    <3>2. QED BY <2>2, <3>1, Called DEF Function
  <2>7. key \in RecordKey /\ ~Owner(key) /\ "exclusive" \notin key.attrs
    BY <2>2 DEF Key, RecordKey, Owner, Valued, Attribute
  <2> HIDE DEF e, f, c, key
  <2>8. Sound(ifaces') /\ Same /\ TameAll
    BY <1>2, <2>1, <2>3, <2>7, Opening
  <2>9. New(e, {"supported", "start"})
    <3>1. HasIn(ifaces', made', d, Binding)
      BY <1>2, <2>3, <2>8, SameGrown, StillHas
    <3>2. QED BY <2>5, <3>1 DEF New, GoodIn, RunBy
  <2>10. Append(Front(stack), f) \in Seq(Frame)
    BY <1>2, <2>4, Appended
  <2>11. Pushes(Append(Front(stack), f), {"supported", "start"})
    BY <2>1, <2>5, <2>6, <2>9, <2>10, TwoMore
  <2>12. Piece(Append(Front(stack), f), {"supported", "start"})
    BY <2>1, <2>8, <2>11 DEF Piece, Status
  <2>13. GoodIn(ifaces, made, f)
    BY <1>2, <2>2, <2>4 DEF GoodIn
  <2>14. CalmFrame(Top) => CalmFrame(f) /\ {"supported", "start"} \subseteq Within
    BY <1>2, <2>4 DEF CalmFrame, RunBy
  <2>15. QED BY <1>1, <2>4, <2>12, <2>13, <2>14, GoingOn
<1>5. CASE Top.todo = <<>> /\ Top.pos = 1
  <2> DEFINE f == [Top EXCEPT !.op = "walk", !.pos = 0, !.ok = ok]
  <2>1. stack' = Append(Front(stack), f) /\ ret' = "none" /\ UNCHANGED ifaces
    BY <1>5 DEF ConnectNext, Replace, Enter
  <2>2. f \in Frame /\ f.op = "walk" /\ f.h = Top.h
    <3> HIDE DEF ok
    <3>1. QED BY <1>2, <1>3 DEF Frame
  <2> HIDE DEF f
  <2>3. Append(Front(stack), f) \in Seq(Frame)
    BY <1>2, <2>2, Appended
  <2>4. ret' \in Status
    BY <2>1 DEF Status
  <2>5. Piece(Append(Front(stack), f), {})
    BY <1>2, <2>1, <2>3, <2>4, Answers
  <2>6. GoodIn(ifaces, made, f)
    BY <1>2, <2>2 DEF GoodIn
  <2>7. CalmFrame(Top) => CalmFrame(f)
    BY <1>2, <2>2 DEF CalmFrame, RunBy
  <2>8. QED BY <1>1, <2>2, <2>5, <2>6, <2>7, GoingOn
<1>6. CASE Top.todo = <<>> /\ Top.pos # 1
  <2>1. stack' = Front(stack) /\ ret' \in {"success", "not_found"} /\ UNCHANGED ifaces
    BY <1>6 DEF ConnectNext, Return
  <2>2. QED BY <1>1, <2>1, Returning DEF Status
<1>7. QED BY <1>4, <1>5, <1>6

\* The next child of a walk is one.
LEMMA FirstPair ==
  ASSUME NEW S, S # {}, \A k \in S : k[1] \in Nat /\ k[2] \in Nat
  PROVE  \E k \in S : \A l \in S : k[1] < l[1] \/ (k[1] = l[1] /\ k[2] <= l[2])
<1> DEFINE A == {k[1] : k \in S}
           m == Min(A)
           B == {k[2] : k \in {k \in S : k[1] = m}}
<1>1. m \in A /\ \A y \in A : m <= y
  <2>1. A \subseteq Nat /\ A # {}
    OBVIOUS
  <2> HIDE DEF A
  <2>2. QED BY <2>1, MinOf
<1> HIDE DEF m
<1>2. B \subseteq Nat /\ B # {}
  BY <1>1
<1>3. Min(B) \in B /\ \A y \in B : Min(B) <= y
  <2> HIDE DEF B
  <2>1. QED BY <1>2, MinOf
<1>4. PICK k \in S : k[1] = m /\ k[2] = Min(B)
  BY <1>3
<1>5. ASSUME NEW l \in S PROVE k[1] < l[1] \/ (k[1] = l[1] /\ k[2] <= l[2])
  <2>1. m <= l[1] /\ (l[1] = m => Min(B) <= l[2])
    BY <1>1, <1>3
  <2> HIDE DEF A, B
  <2>2. l[1] \in Nat /\ k[1] \in Nat
    OBVIOUS
  <2>3. QED BY <1>4, <2>1, <2>2
<1>6. QED BY <1>5

\* WalkNext
LEMMA WalkRegular ==
  ASSUME DatabaseInv, WalkNext
  PROVE  Regular(Front(stack))
<1>1. Running("walk") /\ UNCHANGED <<made, notifies, unlisted>>
  BY DEF WalkNext
<1>2. /\ TypeOK /\ Sound(ifaces) /\ Makes /\ Top \in Frame /\ Front(stack) \in Seq(Frame)
      /\ Top.op = "walk" /\ GoodIn(ifaces, made, Top)
  BY <1>1, Inner
<1> DEFINE ok == Top.ok \/ ret = "success"
           opens(k) == ifaces[Top.h][k].opens
           here == IF Top.cur = NoRecord THEN 0 ELSE PlaceOf(opens(Top.pos), Top.cur)
           places == UNION {{k} \X DOMAIN opens(k) : k \in DOMAIN ifaces[Top.h]}
           children == {k \in places : /\ "child" \in opens(k[1])[k[2]].attrs
                                       /\ k[1] > Top.pos \/ (k[1] = Top.pos /\ k[2] > here)}
<1>3. ok \in BOOLEAN
  BY <1>2 DEF Frame
<1>4. CASE children = {}
  <2>1. stack' = Front(stack) /\ ret' \in {"success", "not_found"} /\ UNCHANGED ifaces
    BY <1>4 DEF WalkNext, Return
  <2>2. QED BY <1>1, <2>1, Returning DEF Status
<1>5. CASE children # {}
  <2> DEFINE k == CHOOSE k \in children : \A l \in children :
                     k[1] < l[1] \/ (k[1] = l[1] /\ k[2] <= l[2])
             r == opens(k[1])[k[2]]
             q == ifaces[Top.h][k[1]].guid
             f == [Top EXCEPT !.pos = k[1], !.g = q, !.cur = KeyOf(r), !.ok = ok]
  <2>1. ConnectAt(Append(Front(stack), f), r.controller, TRUE, Top.st = "success")
    BY <1>5 DEF WalkNext, Replace
  <2>2. Top.h \in Handle /\ ifaces[Top.h] \in Seq(Iface) /\ Top.h \in 1..made
    BY <1>2, Types DEF GoodIn, Valid
  <2>3. \A n \in DOMAIN ifaces[Top.h] :
           /\ n \in Nat /\ ifaces[Top.h][n] \in Iface /\ opens(n) \in Seq(Record)
           /\ \A m \in DOMAIN opens(n) : m \in Nat /\ opens(n)[m] \in Record
    <3>1. ASSUME NEW n \in DOMAIN ifaces[Top.h]
          PROVE  n \in Nat /\ ifaces[Top.h][n] \in Iface /\ opens(n) \in Seq(Record)
      <4>1. n \in Nat /\ ifaces[Top.h][n] \in Iface
        BY <2>2, LenProperties
      <4>2. QED BY <4>1 DEF Iface
    <3>2. ASSUME NEW n \in DOMAIN ifaces[Top.h], NEW m \in DOMAIN opens(n)
          PROVE  m \in Nat /\ opens(n)[m] \in Record
      <4> DEFINE o == opens(n)
      <4>1. o \in Seq(Record) /\ m \in DOMAIN o
        BY <3>1
      <4> HIDE DEF o
      <4>2. m \in Nat /\ o[m] \in Record
        BY <4>1, LenProperties
      <4>3. QED BY <4>2 DEF o
    <3>3. QED BY <3>1, <3>2
  <2>4. \A l \in children : l[1] \in DOMAIN ifaces[Top.h] /\ l[2] \in DOMAIN opens(l[1])
    OBVIOUS
  <2>5. k \in children
    <3>1. \A l \in children : l[1] \in Nat /\ l[2] \in Nat
      BY <2>3, <2>4
    <3> HIDE DEF children
    <3>2. \E l \in children : \A n \in children : l[1] < n[1] \/ (l[1] = n[1] /\ l[2] <= n[2])
      BY <1>5, <3>1, FirstPair
    <3>3. QED BY <3>2
  <2>6. k[1] \in Nat /\ q \in Guid /\ r \in Record
    BY <2>3, <2>4, <2>5 DEF Iface
  <2> HIDE DEF ok, k, q, r, children
  <2>7. KeyOf(r) \in [agent : Handle \cup {NULL}, controller : Handle \cup {NULL},
                      attrs : SUBSET (Attribute \cup {"freed"})]
    BY <2>6 DEF KeyOf, Key, Record, Valued, Attribute
  <2> DEFINE w == KeyOf(r)
             n == k[1]
  <2>8. f = [Top EXCEPT !.pos = n, !.g = q, !.cur = w, !.ok = ok]
    OBVIOUS
  <2>9. n \in Nat /\ w \in [agent : Handle \cup {NULL}, controller : Handle \cup {NULL},
                      attrs : SUBSET (Attribute \cup {"freed"})]
    BY <2>6, <2>7
  <2> HIDE DEF w, n, f
  <2>10. f \in Frame /\ f.op = "walk" /\ f.h = Top.h
    BY <1>2, <1>3, <2>6, <2>8, <2>9 DEF Frame
  <2>11. Append(Front(stack), f) \in Seq(Frame)
    BY <1>2, <2>10, Appended
  <2>12. r.controller \in Handle \cup {NULL} /\ (Top.st = "success") \in BOOLEAN
    BY <2>6 DEF Record
  <2>13. Piece(Append(Front(stack), f), {"supported", "start"})
    BY <1>2, <2>1, <2>11, <2>12, ConnectsAll
  <2>14. GoodIn(ifaces, made, f)
    BY <2>2, <2>10 DEF GoodIn
  <2>15. CalmFrame(Top) => CalmFrame(f) /\ {"supported", "start"} \subseteq Within
    BY <1>2, <2>10 DEF CalmFrame, RunBy
  <2>16. QED BY <1>1, <2>10, <2>13, <2>14, <2>15, GoingOn
<1>6. QED BY <1>4, <1>5

\* UninstallEnds
LEMMA UninstallRegular ==
  ASSUME DatabaseInv, UninstallEnds
  PROVE  Regular(Front(stack))
<1>1. Running("uninstall") /\ UNCHANGED <<made, notifies, unlisted>>
  BY DEF UninstallEnds
<1>2. /\ TypeOK /\ Sound(ifaces) /\ Makes /\ Top \in Frame /\ Front(stack) \in Seq(Frame)
      /\ Top.op = "uninstall" /\ GoodIn(ifaces, made, Top) /\ BaseOK(Front(stack))
  BY <1>1, Inner
<1> DEFINE e == Entry(Top.h, Top.g)
           light == {k \in DOMAIN e.opens : e.opens[k].attrs \in {{"handle"}, {"get"}, {"test"}}}
<1>3. CASE stack' = Front(stack) /\ ret' \in {"success", "not_found", "access_denied"} /\ UNCHANGED ifaces
  BY <1>1, <1>3, Returning DEF Status
<1>4. CASE ~(stack' = Front(stack) /\ ret' \in {"success", "not_found", "access_denied"} /\ UNCHANGED ifaces)
  <2> DEFINE o == Kept(e.opens, DOMAIN e.opens \ light)
             p == Position(ifaces, Top.h, Top.g)
             freed == {e.opens[k] : k \in light}
             b == 1 \in light
  <2>1. /\ ifaces' = [ifaces EXCEPT ![Top.h][p] = [e EXCEPT !.opens = o, !.freed = b]]
        /\ stack' = Unhooked(Front(stack), Top.h, Top.g, freed)
        /\ ret' = "access_denied"
    BY <1>4 DEF UninstallEnds, Return
  <2>2. HasIn(ifaces, made, Top.h, Top.g)
    BY <1>2 DEF GoodIn
  <2>3. e \in Iface /\ e = ifaces[Top.h][p] /\ Top.h \in Handle /\ p \in DOMAIN ifaces[Top.h]
    BY <1>2, <2>2, HasEntry
  <2>4. e.opens \in Seq(Record) /\ OneEach(e.opens)
    BY <1>2, <2>3 DEF Iface, Sound
  <2>5. b \in BOOLEAN
    OBVIOUS
  <2>6. o \in Seq(Record) /\ OneEach(o) /\ Tame(e.opens, o)
    <3> HIDE DEF e, light
    <3>1. QED BY <2>4, FewerRecords
  <2> HIDE DEF e, o, p, b, light, freed
  <2>7. ifaces' = [ifaces EXCEPT ![Top.h] = [@ EXCEPT ![p] = [e EXCEPT !.opens = o, !.freed = b]]]
    BY <2>1
  <2>8. Sound(ifaces') /\ Same /\ TameAll
    BY <1>2, <2>2, <2>5, <2>6, <2>7, Replaced DEF e, p
  <2>9. Pushes(Front(stack), {})
    BY <1>2, <2>1, Unhooking DEF Pushes
  <2>10. Piece(Front(stack), {})
    BY <2>1, <2>8, <2>9 DEF Piece, Status
  <2>11. QED BY <1>1, <1>2, <2>10, RegularPush
<1>5. QED BY <1>3, <1>4

\* A list has no owner when nobody opened it exclusively and no driver is left.
LEMMA NobodyOwns ==
  ASSUME DatabaseInv, NEW h, NEW g, HasIn(ifaces, made, h, g), ~ExclusiveAt(ifaces, h, g),
         NEW m \in DOMAIN Entry(h, g).opens, Entry(h, g).opens[m].attrs # {"driver"}
  PROVE  ~Owner(Entry(h, g).opens[m])
<1> DEFINE e == Entry(h, g)
           p == Position(ifaces, h, g)
<1>1. h \in Handle /\ p \in DOMAIN ifaces[h] /\ e = ifaces[h][p] /\ e \in Iface /\ e.guid = g
  BY HasEntry DEF DatabaseInv
<1> HIDE DEF e, p
<1>2. ~Exclusive(e.opens)
  BY <1>1 DEF ExclusiveAt
<1>3. e.opens[m] \in Record /\ "exclusive" \notin e.opens[m].attrs
  <2>1. e.opens \in Seq(Record) /\ m \in DOMAIN e.opens
    BY <1>1 DEF Iface, e
  <2>2. QED BY <1>2, <2>1, LenProperties DEF Exclusive
<1>4. e.opens[m].attrs \in Valued /\ e.opens[m].attrs # {"driver"}
  BY <1>3 DEF Record, e
<1>5. QED BY <1>3, <1>4 DEF Owner, Valued, Attribute, e

\* DisconnectOwners
LEMMA OwnersRegular ==
  ASSUME DatabaseInv, DisconnectOwners
  PROVE  Regular(Front(stack))
<1>1. Running("open") /\ UNCHANGED <<made, notifies, unlisted>>
  BY DEF DisconnectOwners
<1>2. /\ TypeOK /\ Sound(ifaces) /\ Makes /\ Top \in Frame /\ Front(stack) \in Seq(Frame)
      /\ Top.op = "open" /\ GoodIn(ifaces, made, Top) /\ BaseOK(Front(stack)) /\ ret \in Status
  BY <1>1, Inner
<1>3. OwnerInv => ~ExclusiveAt(ifaces, Top.h, Top.g)
                  /\ \A i \in DOMAIN Front(stack) : stack[i].op # "open"
  BY <1>1, <1>2, Inner
<1>4. HasIn(ifaces, made, Top.h, Top.g)
  BY <1>2 DEF GoodIn
<1> DEFINE opens == Entry(Top.h, Top.g).opens
           from  == IF StartOver(ret) THEN 1 ELSE PlaceOf(opens, Top.cur)
           owners == {k \in DOMAIN opens : k >= from /\ opens[k].attrs = {"driver"}}
           failed == Top.ok \/ ret \notin {"none", "success"}
<1>5. opens \in Seq(Record)
  BY <1>2, <1>4, HasEntry DEF Iface
<1>6. failed \in BOOLEAN
  BY <1>2 DEF Frame
<1>7. CASE owners # {}
  <2> DEFINE k == Min(owners)
             next == IF k = Len(opens) THEN NoRecord ELSE KeyOf(opens[k + 1])
             f == [Top EXCEPT !.cur = next, !.ok = failed]
             c == opens[k].controller
             d == opens[k].agent
  <2>1. DisconnectAt(Append(Front(stack), f), c, d, NULL)
    BY <1>7 DEF DisconnectOwners, Replace
  <2>2. k \in DOMAIN opens
    <3>1. owners \subseteq Nat /\ owners \subseteq DOMAIN opens
      <4> HIDE DEF opens, from
      <4>1. DOMAIN opens \subseteq Nat
        BY <1>5, LenProperties
      <4>2. QED BY <4>1
    <3> HIDE DEF owners
    <3>2. QED BY <1>7, <3>1, MinOf
  <2> HIDE DEF opens, from, owners, failed, k
  <2>3. Len(opens) \in Nat /\ DOMAIN opens = 1..Len(opens) /\ \A n \in DOMAIN opens : opens[n] \in Record
    BY <1>5, LenProperties
  <2>4. c \in Handle \cup {NULL} /\ d \in Handle \cup {NULL}
    BY <2>2, <2>3 DEF Record
  <2>5. next \in [agent : Handle \cup {NULL}, controller : Handle \cup {NULL},
                  attrs : SUBSET (Attribute \cup {"freed"})]
    <3>1. CASE k = Len(opens)
      BY <3>1 DEF NoRecord, Key
    <3>2. CASE k # Len(opens)
      <4>1. k + 1 \in DOMAIN opens
        BY <2>2, <2>3, <3>2
      <4>2. opens[k + 1] \in Record
        BY <2>3, <4>1
      <4>3. KeyOf(opens[k + 1]) \in [agent : Handle \cup {NULL}, controller : Handle \cup {NULL},
                                     attrs : SUBSET (Attribute \cup {"freed"})]
        BY <4>2 DEF KeyOf, Key, Record, Valued, Attribute
      <4>4. QED BY <3>2, <4>3
    <3>3. QED BY <3>1, <3>2
  <2> HIDE DEF next, c, d
  <2>6. f \in Frame /\ Like(f, Top) /\ f.op = "open" /\ f.h = Top.h /\ f.g = Top.g
    BY <1>2, <1>6, <2>5, ZenonT(60) DEF Frame, Like
  <2> HIDE DEF f
  <2>7. Append(Front(stack), f) \in Seq(Frame)
    BY <1>2, <2>6, Appended
  <2>8. Piece(Append(Front(stack), f), {"stop"})
    BY <1>2, <2>1, <2>4, <2>7, DisconnectsOne
  <2>9. GoodIn(ifaces', made', f)
    <3>1. Grown
      BY <2>8, SameGrown DEF Piece
    <3>2. QED BY <1>2, <2>6, <3>1, StaysGood
  <2>10. ~CalmTop
    BY <1>2 DEF CalmTop, CalmFrame
  <2>11. CalmStops => {"stop"} \subseteq Within
    BY StopsWithin DEF Confined
  <2>12. Putting(f, {"stop"})
    BY <1>3, <2>6, <2>9, <2>10, <2>11 DEF Putting
  <2>13. QED BY <1>1, <1>2, <2>6, <2>8, <2>12, RegularPut
<1>8. CASE owners = {} /\ failed
  <2>1. stack' = Front(stack) /\ ret' = "access_denied" /\ UNCHANGED ifaces
    BY <1>8 DEF DisconnectOwners, Return
  <2>2. QED BY <1>1, <2>1, Returning DEF Status
<1>9. CASE owners = {} /\ ~failed
  <2> DEFINE key == Key(Top.d, Top.c, Top.attrs)
  <2>1. ifaces' = Opened(Top.h, Top.g, key) /\ stack' = Front(stack) /\ ret' = "success"
    BY <1>9 DEF DisconnectOwners, Return
  <2>2. key \in RecordKey
    <3>1. Top.d \in Handle /\ Top.c \in Handle \cup {NULL} /\ Top.attrs \in Valued
      BY <1>2 DEF GoodIn, Frame
    <3>2. QED BY <3>1 DEF Key, RecordKey
  <2>3. \A k \in DOMAIN opens : opens[k].attrs # {"driver"}
    <3>1. from = 1
      BY <1>9 DEF StartOver
    <3> HIDE DEF opens, from
    <3>2. \A k \in DOMAIN opens : k >= 1
      BY <1>5, LenProperties
    <3>3. QED BY <1>9, <3>1, <3>2
  <2>4. OwnerInv => \A m \in DOMAIN opens : ~Owner(opens[m])
    BY <1>3, <1>4, <2>3, NobodyOwns
  <2> HIDE DEF key
  <2>5. /\ Sound(ifaces') /\ Same
        /\ (\A m \in DOMAIN Entry(Top.h, Top.g).opens : ~Owner(Entry(Top.h, Top.g).opens[m]))
           /\ (\A i \in Handle : \A k \in DOMAIN ifaces[i] : OneOwnerIn(ifaces[i][k].opens))
           => \A i \in Handle : \A k \in DOMAIN ifaces'[i] : OneOwnerIn(ifaces'[i][k].opens)
    BY <1>2, <1>4, <2>1, <2>2, Opening
  <2>6. OwnerInv => OneOwnerEach(ifaces')
    BY <2>4, <2>5 DEF OwnerInv, OneOwnerEach
  <2>7. Owners(Front(stack))
    BY <1>3, <2>6 DEF Owners
  <2>8. Pushes(Front(stack), {})
    BY <1>2, <2>1, Stays
  <2>9. \A i \in 1..Len(Front(stack)) : Front(stack)[i] = stack[i]
    BY <1>2, Bases
  <2>10. \A i \in (Len(Front(stack)) + 1)..Len(stack') : FALSE
    BY <2>8 DEF Pushes, New, RunBy
  <2>11. Moves(Front(stack))
    BY <1>2, <2>8, <2>9, <2>10 DEF Moves, Pushes
  <2>12. NoInstall(Front(stack))
    BY <1>2, <2>10 DEF NoInstall
  <2>13. QED BY <1>1, <2>1, <2>5, <2>7, <2>11, <2>12 DEF Regular, Status
<1>10. QED BY <1>7, <1>8, <1>9

-----------------------------------------------------------------------------
(* The services a program calls                                            *)

\* A call that answers at once
LEMMA Answering ==
  ASSUME DatabaseInv, NEW service \in ServiceName, Client(service), Makes,
         stack' = stack, ret' \in Status, UNCHANGED <<ifaces, notifies, unlisted>>
  PROVE  Regular(stack)
<1>1. TypeOK /\ Sound(ifaces) /\ stack \in Seq(Frame) /\ BaseOK(stack)
  BY Types, Clients DEF DatabaseInv
<1>2. Piece(stack, {})
  BY <1>1, Answers
<1>3. QED BY <1>1, <1>2, RegularPush

\* A call that waits as f
LEMMA Waiting ==
  ASSUME DatabaseInv, NEW service \in ServiceName, Client(service), Makes,
         NEW R, "notify" \notin R, R \subseteq CalledBy[service],
         NEW f \in Frame, f.op \notin {"open", "install"}, GoodIn(ifaces', made', f),
         RunBy(f) \subseteq CalledBy[service], Piece(Append(stack, f), R),
         f.op = "reinstall" =>
           f.h \in 1..made' \/ (Len(stack') = Len(stack) + 1 /\ ret' # "success"),
         UNCHANGED <<notifies, unlisted>>
  PROVE  Regular(stack)
<1>1. TypeOK /\ BaseOK(stack)
  BY Clients DEF DatabaseInv
<1>2. CalmStops /\ CalmTop => CalledBy[service] \subseteq Within
  BY <1>1, Clients
<1> DEFINE called == CalledBy[service]
<1> HIDE DEF called
<1>3. Putting(f, R)
  BY <1>2 DEF Putting, CalmFrame, called
<1>4. QED BY <1>1, <1>3, RegularPut

\* A call that ends or leaves services in progress
LEMMA Pushing ==
  ASSUME DatabaseInv, NEW service \in ServiceName, Client(service),
         "notify" \notin CalledBy[service], Piece(stack, CalledBy[service]),
         UNCHANGED <<made, notifies, unlisted>>
  PROVE  Regular(stack)
<1>1. TypeOK /\ BaseOK(stack)
  BY Clients DEF DatabaseInv
<1>2. CalmStops /\ CalmTop => CalledBy[service] \subseteq Within
  BY <1>1, Clients
<1>3. QED BY <1>1, <1>2, RegularPush

\* What a call finds
LEMMA Before ==
  ASSUME DatabaseInv
  PROVE  TypeOK /\ Sound(ifaces) /\ stack \in Seq(Frame) /\ (made' = made => Makes)
BY Types DEF DatabaseInv, Makes

\* InstallMultiple
LEMMA MultipleRegular ==
  ASSUME DatabaseInv, NEW a \in InstallLists, InstallMultiple(a)
  PROVE  Regular(stack)
<1> DEFINE h == Target(a.handle)
<1>1. /\ Client("InstallMultiple") /\ h \in Handle /\ UNCHANGED <<ifaces, notifies, unlisted>>
      /\ made' = IF a.handle = NULL THEN made + 1 ELSE made
  BY DEF InstallMultiple, MakesTarget
<1>2. TypeOK /\ Sound(ifaces) /\ stack \in Seq(Frame)
  BY Before
<1>3. Makes
  <2>1. made \in 0..MaxHandles
    BY <1>2, Types
  <2>2. a.handle = NULL => h = made + 1
    BY DEF Target
  <2>3. QED BY <1>1, <2>1, <2>2, Numbers DEF Makes, Handle
<1>4. CASE h \in 1..made' /\ \A p \in ToSet(a.pairs) : p.intf # NoInterface
  <2> DEFINE f == [F("multi") EXCEPT !.h = h, !.pairs = a.pairs, !.pos = 1]
  <2>1. stack' = Append(stack, f) /\ ret' = "none"
    BY <1>4 DEF InstallMultiple, Enter
  <2>2. a.pairs \in Seq(Pair)
    BY CallAssumption
  <2>3. f \in Frame /\ f.op = "multi" /\ f.h = h /\ f.pos = 1
    <3>1. F("multi") \in Frame /\ F("multi").op = "multi"
      BY Fresh
    <3> HIDE DEF h
    <3>2. QED BY <1>1, <2>2, <3>1 DEF Frame
  <2> HIDE DEF f, h
  <2>4. GoodIn(ifaces', made', f)
    BY <1>4, <2>3 DEF GoodIn
  <2>5. Append(stack, f) \in Seq(Frame) /\ ret' \in Status
    BY <1>2, <2>1, <2>3, Appended DEF Status
  <2>6. Piece(Append(stack, f), {})
    BY <1>1, <1>2, <1>3, <2>1, <2>5, Answers
  <2>7. RunBy(f) \subseteq CalledBy["InstallMultiple"]
    BY <2>3 DEF RunBy, CalledBy
  <2>8. QED BY <1>1, <1>3, <2>3, <2>4, <2>6, <2>7, Waiting DEF ServiceName
<1>5. CASE ~(h \in 1..made' /\ \A p \in ToSet(a.pairs) : p.intf # NoInterface)
  <2>1. stack' = stack /\ ret' = "invalid_parameter"
    BY <1>5 DEF InstallMultiple, Return
  <2>2. QED BY <1>1, <1>3, <2>1, Answering DEF Status, ServiceName
<1>6. QED BY <1>4, <1>5

\* ReinstallProtocolInterface
LEMMA ReinstallRegular ==
  ASSUME DatabaseInv, NEW h \in Handle \cup {NULL}, NEW g \in Guid, NEW old \in Interface,
         NEW new \in Interface, ReinstallProtocolInterface(h, g, old, new)
  PROVE  Regular(stack)
<1> DEFINE f == [F("reinstall") EXCEPT !.h = h, !.g = g, !.i = new, !.pos = 1]
<1>1. /\ Client("Reinstall") /\ UNCHANGED <<made, notifies, unlisted>>
      /\ UninstallAt(Append(stack, f), h, g, old)
  BY DEF ReinstallProtocolInterface
<1>2. TypeOK /\ Sound(ifaces) /\ stack \in Seq(Frame) /\ Makes
  BY <1>1, Before
<1>3. f \in Frame /\ f.op = "reinstall" /\ f.h = h
  <2>1. F("reinstall") \in Frame /\ F("reinstall").op = "reinstall"
    BY Fresh
  <2>2. QED BY <2>1 DEF Frame
<1> HIDE DEF f
<1>4. Append(stack, f) \in Seq(Frame) /\ Len(Append(stack, f)) = Len(stack) + 1
  BY <1>2, <1>3, Appended
<1>5. /\ Piece(Append(stack, f), {"stop"})
      /\ ~Has(h, g) => stack' = Append(stack, f) /\ ret' # "success"
  BY <1>1, <1>2, <1>4, Uninstalls
<1>6. GoodIn(ifaces', made', f)
  BY <1>3 DEF GoodIn
<1>7. f.h \in 1..made' \/ (Len(stack') = Len(stack) + 1 /\ ret' # "success")
  BY <1>1, <1>3, <1>4, <1>5 DEF Has, Valid
<1>8. /\ RunBy(f) \subseteq CalledBy["Reinstall"] /\ {"stop"} \subseteq CalledBy["Reinstall"]
  BY <1>3 DEF RunBy, CalledBy
<1>9. QED BY <1>1, <1>2, <1>3, <1>5, <1>6, <1>7, <1>8, Waiting DEF ServiceName

\* UninstallProtocolInterface
LEMMA UninstallingRegular ==
  ASSUME DatabaseInv, NEW h \in Handle \cup {NULL}, NEW g \in Guid, NEW i \in Interface,
         UninstallProtocolInterface(h, g, i)
  PROVE  Regular(stack)
<1>1. /\ Client("Uninstall") /\ UNCHANGED <<made, notifies, unlisted>>
      /\ UninstallAt(stack, h, g, i)
  BY DEF UninstallProtocolInterface
<1>2. TypeOK /\ Sound(ifaces) /\ stack \in Seq(Frame) /\ Makes
  BY <1>1, Before
<1>3. Piece(stack, {"stop"})
  BY <1>1, <1>2, Uninstalls
<1>4. CalledBy["Uninstall"] = {"stop"}
  BY DEF CalledBy
<1>5. QED BY <1>1, <1>3, <1>4, Pushing DEF ServiceName

\* ConnectController
LEMMA ConnectingRegular ==
  ASSUME DatabaseInv, NEW a \in Connects, ConnectController(a)
  PROVE  Regular(stack)
<1>1. /\ Client("Connect") /\ UNCHANGED <<made, notifies, unlisted>>
      /\ ConnectAt(stack, a.controller, a.recursive, a.end)
  BY DEF ConnectController
<1>2. TypeOK /\ Sound(ifaces) /\ stack \in Seq(Frame) /\ Makes
  BY <1>1, Before
<1>3. a.controller \in Handle /\ a.recursive \in BOOLEAN /\ a.end \in BOOLEAN
  BY CallAssumption
<1>4. Piece(stack, {"supported", "start"})
  BY <1>1, <1>2, <1>3, ConnectsAll
<1>5. CalledBy["Connect"] = {"supported", "start"}
  BY DEF CalledBy
<1>6. QED BY <1>1, <1>4, <1>5, Pushing DEF ServiceName

\* DisconnectController
LEMMA DisconnectingRegular ==
  ASSUME DatabaseInv, NEW a \in Disconnects, DisconnectController(a)
  PROVE  Regular(stack)
<1>1. /\ Client("Disconnect") /\ UNCHANGED <<made, notifies, unlisted>>
      /\ DisconnectAt(stack, a.controller, a.driver, a.child)
  BY DEF DisconnectController
<1>2. TypeOK /\ Sound(ifaces) /\ stack \in Seq(Frame) /\ Makes
  BY <1>1, Before
<1>3. /\ a.controller \in Handle \cup {NULL} /\ a.driver \in Handle \cup {NULL}
      /\ a.child \in Handle \cup {NULL}
  BY CallAssumption
<1>4. Piece(stack, {"stop"})
  BY <1>1, <1>2, <1>3, DisconnectsOne
<1>5. CalledBy["Disconnect"] = {"stop"}
  BY DEF CalledBy
<1>6. QED BY <1>1, <1>4, <1>5, Pushing DEF ServiceName

\* StartImage
LEMMA StartImageRegular ==
  ASSUME DatabaseInv, StartImage
  PROVE  Regular(stack)
<1> DEFINE f == Call("image", NULL, NULL)
<1>1. /\ Client("StartImage") /\ UNCHANGED <<made, ifaces, notifies, unlisted>>
      /\ stack' = Append(stack, f) /\ ret' = "none"
  BY DEF StartImage, Enter
<1>2. TypeOK /\ Sound(ifaces) /\ stack \in Seq(Frame) /\ Makes
  BY <1>1, Before
<1>3. f \in Frame /\ New(f, {"image"})
  <2>1. "image" \in Function /\ NULL \in Handle \cup {NULL}
    BY DEF Function
  <2>2. QED BY <2>1, Called
<1> HIDE DEF f
<1>4. Pushes(stack, {"image"})
  BY <1>1, <1>2, <1>3, OneMore
<1>5. Piece(stack, {"image"})
  BY <1>1, <1>2, <1>4, Untouched DEF Piece, Status
<1>6. CalledBy["StartImage"] = {"image"}
  BY DEF CalledBy
<1>7. QED BY <1>1, <1>5, <1>6, Pushing DEF ServiceName

\* FunctionReturns
LEMMA FunctionRegular ==
  ASSUME DatabaseInv, FunctionReturns
  PROVE  Regular(Front(stack))
<1>1. Running("call") /\ UNCHANGED <<made, ifaces, notifies, unlisted>>
  BY DEF FunctionReturns
<1>2. stack' = Front(stack) /\ ret' \in Status
  BY DEF FunctionReturns, Return, Status
<1>3. QED BY <1>1, <1>2, Returning

\* CloseProtocol, which notes in the function that calls it that it did something
LEMMA CloseRegular ==
  ASSUME DatabaseInv, NEW h, NEW g, NEW a, NEW c, CloseProtocol(h, g, a, c)
  PROVE  \E b : Regular(b)
<1> DEFINE acted == IF stack = <<>> THEN stack ELSE Replace([Top EXCEPT !.ok = TRUE])
           closes == /\ Has(h, g) /\ Valid(a) /\ (c = NULL \/ Valid(c))
                     /\ \E r \in ToSet(Entry(h, g).opens) : r.agent = a /\ r.controller = c
<1>1. Client("Close") /\ UNCHANGED <<made, notifies, unlisted>>
  BY DEF CloseProtocol
<1>2. TypeOK /\ Sound(ifaces) /\ stack \in Seq(Frame) /\ Makes
  BY <1>1, Before
<1>3. CASE ~closes
  <2>1. stack' = stack /\ ret' \in {"not_found", "invalid_parameter"} /\ UNCHANGED ifaces
    BY <1>3 DEF CloseProtocol, Return
  <2>2. Regular(stack)
    BY <1>1, <1>2, <2>1, Answering DEF Status, ServiceName
  <2>3. QED BY <2>2
<1>4. CASE closes
  <2>1. CloseAt(acted, h, g, a, c) /\ ret' = "success"
    BY <1>4 DEF CloseProtocol
  <2>2. HasIn(ifaces, made, h, g) /\ ret' \in Status
    BY <1>2, <1>4, <2>1, Types DEF Status
  <2>3. CASE stack = <<>>
    <3>1. CloseAt(stack, h, g, a, c)
      BY <2>1, <2>3
    <3>2. Piece(stack, {})
      BY <1>2, <2>2, <3>1, Closing
    <3>3. CalledBy["Close"] = {}
      BY DEF CalledBy
    <3>4. Regular(stack)
      BY <1>1, <3>2, <3>3, Pushing DEF ServiceName
    <3>5. QED BY <3>4
  <2>4. CASE stack # <<>>
    <3> DEFINE f == [Top EXCEPT !.ok = TRUE]
    <3>1. CloseAt(Append(Front(stack), f), h, g, a, c)
      BY <2>1, <2>4 DEF Replace
    <3>2. Running("call")
      BY <1>1, <1>2, <2>4, Clients DEF Running, Client, ServiceName
    <3>3. Top \in Frame /\ Top.op = "call" /\ Front(stack) \in Seq(Frame)
      BY <3>2, Inner
    <3>4. f \in Frame /\ f.op = "call" /\ f.fn = Top.fn
      BY <3>3 DEF Frame
    <3> HIDE DEF f
    <3>5. Append(Front(stack), f) \in Seq(Frame)
      BY <3>3, <3>4, Appended
    <3>6. Piece(Append(Front(stack), f), {})
      BY <1>2, <2>2, <3>1, <3>5, Closing
    <3>7. GoodIn(ifaces, made, f)
      BY <3>4 DEF GoodIn
    <3>8. CalmFrame(Top) => CalmFrame(f)
      BY <3>3, <3>4 DEF CalmFrame, RunBy
    <3>9. Regular(Front(stack))
      BY <1>1, <3>2, <3>4, <3>6, <3>7, <3>8, GoingOn
    <3>10. QED BY <3>9
  <2>5. QED BY <2>3, <2>4
<1>5. QED BY <1>3, <1>4

\* OpenProtocol: a driver finds no other owner, an exclusive opener no other one.
LEMMA OpenRegular ==
  ASSUME DatabaseInv, NEW o \in Opens, OpenProtocol(o)
  PROVE  Regular(stack)
<1> DEFINE refusal == OpenRefusal(o)
           opens == IF Has(o.handle, o.guid) THEN ToSet(Entry(o.handle, o.guid).opens) ELSE {}
           conflict == Conflict(o, opens)
<1>1. Client("Open") /\ UNCHANGED <<made, notifies, unlisted>>
  BY DEF OpenProtocol
<1>2. TypeOK /\ Sound(ifaces) /\ stack \in Seq(Frame) /\ Makes
  BY <1>1, Before
<1>3. /\ o.handle \in Handle /\ o.guid \in Guid /\ o.agent \in Handle \cup {NULL}
      /\ o.controller \in Handle \cup {NULL} /\ o.attrs \in Valued
  BY CallAssumption
<1>4. refusal \in Status /\ conflict \in Status
  BY DEF OpenRefusal, Conflict, Status
<1>5. CASE stack' = stack /\ ret' \in {refusal, conflict, "success"} /\ UNCHANGED ifaces
  <2>1. ret' \in Status
    BY <1>4, <1>5 DEF Status
  <2>2. QED BY <1>1, <1>2, <1>5, <2>1, Answering DEF ServiceName
<1>6. CASE ~(stack' = stack /\ ret' \in {refusal, conflict, "success"} /\ UNCHANGED ifaces)
  <2>1. /\ refusal = "none" /\ conflict = "none" /\ o.agent # NULL
        /\ \/ /\ "exclusive" \in o.attrs /\ UNCHANGED ifaces
              /\ Enter(Append(stack, [F("open") EXCEPT !.h = o.handle, !.g = o.guid,
                                        !.d = o.agent, !.c = o.controller, !.attrs = o.attrs]))
           \/ /\ "exclusive" \notin o.attrs
              /\ ifaces' = Opened(o.handle, o.guid, Key(o.agent, o.controller, o.attrs))
              /\ stack' = stack /\ ret' = "success"
    BY <1>6 DEF OpenProtocol, Return
  <2> DEFINE e == Entry(o.handle, o.guid)
             p == Position(ifaces, o.handle, o.guid)
  <2>2. Has(o.handle, o.guid) /\ HasIn(ifaces, made, o.handle, o.guid) /\ o.agent \in Handle
    <3>1. Has(o.handle, o.guid)
      BY <2>1 DEF OpenRefusal
    <3>2. HasIn(ifaces, made, o.handle, o.guid)
      BY <1>2, <3>1, Types
    <3>3. QED BY <1>3, <2>1, <3>1, <3>2
  <2>3. /\ e \in Iface /\ e = ifaces[o.handle][p] /\ e.guid = o.guid
        /\ p \in DOMAIN ifaces[o.handle] /\ opens = ToSet(e.opens)
    BY <1>2, <2>2, HasEntry
  <2>4. /\ e.opens \in Seq(Record)
        /\ \A m \in DOMAIN e.opens : e.opens[m] \in opens /\ e.opens[m] \in Record
    <3>1. e.opens \in Seq(Record)
      BY <2>3 DEF Iface
    <3>2. \A m \in DOMAIN e.opens : e.opens[m] \in opens
      BY <2>3 DEF ToSet
    <3> HIDE DEF e
    <3>3. \A m \in DOMAIN e.opens : e.opens[m] \in Record
      BY <3>1, LenProperties
    <3>4. QED BY <3>1, <3>2, <3>3
  <2> HIDE DEF opens, e, p
  <2>5. CASE "exclusive" \in o.attrs
    <3> DEFINE f == [F("open") EXCEPT !.h = o.handle, !.g = o.guid,
                       !.d = o.agent, !.c = o.controller, !.attrs = o.attrs]
    <3>1. stack' = Append(stack, f) /\ ret' = "none" /\ UNCHANGED ifaces
      BY <2>1, <2>5 DEF Enter
    <3>2. /\ f \in Frame /\ f.op = "open" /\ f.h = o.handle /\ f.g = o.guid
          /\ f.d = o.agent /\ f.attrs = o.attrs
      <4>1. F("open") \in Frame /\ F("open").op = "open"
        BY Fresh
      <4>2. o.attrs \in SUBSET Attribute
        BY <1>3 DEF Valued, Attribute
      <4>3. QED BY <1>3, <4>1, <4>2 DEF Frame
    <3> HIDE DEF f
    <3>3. GoodIn(ifaces', made', f)
      <4>1. GoodIn(ifaces, made, f)
        BY <1>3, <2>2, <2>5, <3>2 DEF GoodIn
      <4>2. ifaces' = ifaces /\ made' = made
        BY <1>1, <3>1
      <4>3. QED BY <4>1, <4>2
    <3>4. ~ExclusiveAt(ifaces, o.handle, o.guid)
      <4>1. \A k \in DOMAIN ifaces[o.handle] : ifaces[o.handle][k].guid = o.guid => ifaces[o.handle][k] = e
        BY <1>2, <1>3, <2>3 DEF Sound
      <4>2. ~\E r \in opens : "exclusive" \in r.attrs
        BY <2>1, <2>5 DEF Conflict
      <4>3. ~Exclusive(e.opens)
        BY <2>4, <4>2 DEF Exclusive
      <4>4. QED BY <4>1, <4>3 DEF ExclusiveAt
    <3>5. ~(CalmStops /\ CalmTop)
      BY <1>1, <1>2, Clients DEF ServiceName
    <3>6. Putting(f, {})
      BY <3>2, <3>3, <3>4, <3>5 DEF Putting
    <3>7. Append(stack, f) \in Seq(Frame) /\ ret' \in Status
      BY <1>2, <3>1, <3>2, Appended DEF Status
    <3>8. Piece(Append(stack, f), {})
      BY <1>2, <3>1, <3>7, Answers
    <3>9. BaseOK(stack)
      BY <1>1, <1>2, Clients DEF ServiceName
    <3>10. QED BY <1>1, <1>2, <3>2, <3>6, <3>8, <3>9, RegularPut
  <2>6. CASE "exclusive" \notin o.attrs
    <3> DEFINE key == Key(o.agent, o.controller, o.attrs)
    <3>1. ifaces' = Opened(o.handle, o.guid, key) /\ stack' = stack /\ ret' = "success"
      BY <2>1, <2>6
    <3>2. key \in RecordKey /\ key.attrs = o.attrs
      BY <1>3, <2>2 DEF Key, RecordKey
    <3>3. ~Owner(key) \/ \A m \in DOMAIN e.opens : ~Owner(e.opens[m])
      <4>1. CASE "driver" \notin o.attrs
        BY <2>6, <3>2, <4>1 DEF Owner
      <4>2. CASE "driver" \in o.attrs
        <5>1. o.attrs = {"driver"}
          BY <1>3, <2>6, <4>2 DEF Valued, Attribute
        <5>2. \A r \in opens : /\ ~(r.agent = o.agent /\ r.attrs = o.attrs)
                               /\ "exclusive" \notin r.attrs
                               /\ ~(r.agent # o.agent /\ "driver" \in r.attrs)
          BY <2>1, <4>2, <5>1 DEF Conflict
        <5>3. ASSUME NEW m \in DOMAIN e.opens PROVE ~Owner(e.opens[m])
          <6>1. e.opens[m].attrs \in Valued
            BY <2>4 DEF Record
          <6>2. /\ "exclusive" \notin e.opens[m].attrs
                /\ e.opens[m].attrs # {"driver"} \/ "driver" \notin e.opens[m].attrs
            BY <2>4, <5>1, <5>2
          <6>3. QED BY <6>1, <6>2 DEF Owner, Valued, Attribute
        <5>4. QED BY <5>3
      <4>3. QED BY <4>1, <4>2
    <3> HIDE DEF key
    <3>4. Sound(ifaces') /\ Same /\ TameAll
      BY <1>2, <2>2, <2>6, <3>1, <3>2, <3>3, Opening DEF e
    <3>5. Pushes(stack, {})
      BY <1>2, <3>1, Stays
    <3>6. Piece(stack, {})
      BY <3>1, <3>4, <3>5 DEF Piece, Status
    <3>7. BaseOK(stack)
      BY <1>1, <1>2, Clients DEF ServiceName
    <3>8. QED BY <1>1, <1>2, <3>6, <3>7, RegularPush
  <2>7. QED BY <2>5, <2>6
<1>7. QED BY <1>5, <1>6

-----------------------------------------------------------------------------
(* Installing an interface.  s is the stack of the service that does it.   *)

\* What s may be: the frames of b, and a service that installs more later.
Awaits(b, s) ==
  /\ BaseOK(b) /\ (b = stack \/ Top.op # "install")
  /\ s \in Seq(Frame) /\ Len(b) <= Len(s)
  /\ \A i \in 1..Len(b) : s[i] = stack[i]
  /\ \A i \in (Len(b) + 1)..Len(s) :
       /\ s[i].op \in {"multi", "reinstall"} /\ s[i].h \in 1..made' /\ s[i].pos >= 1
       /\ CalmStops /\ CalmTop => CalmFrame(s[i])

\* The database gains an interface that is in nobody's list.
LEMMA Gains ==
  ASSUME DatabaseInv, Makes, NEW h \in 1..made', NEW g \in Guid, NEW n \in Interface,
         ~\E k \in DOMAIN ifaces[h] : ifaces[h][k].guid = g,
         ifaces' = [ifaces EXCEPT ![h] = Append(@, NewEntry(g, n))]
  PROVE  /\ h \in Handle /\ Sound(ifaces') /\ Grown
         /\ \A i \in Handle : i > made' => ifaces'[i] = <<>>
         /\ \A i, q : HasIn(ifaces', made', i, q) <=> HasIn(ifaces, made, i, q) \/ (i = h /\ q = g)
         /\ OwnerInv => OneOwnerEach(ifaces')
         /\ \A i \in Handle : \A q : ExclusiveAt(ifaces', i, q) => ExclusiveAt(ifaces, i, q)
<1> DEFINE e == NewEntry(g, n)
           q == ifaces[h]
<1>1. /\ TypeOK /\ Sound(ifaces) /\ made \in 0..MaxHandles /\ made' \in 0..MaxHandles
      /\ made <= made' /\ MaxHandles \in Nat /\ ifaces \in [Handle -> Seq(Iface)]
      /\ \A i \in Handle : i > made => ifaces[i] = <<>>
  BY Types, Numbers DEF DatabaseInv, Makes
<1>2. h \in Handle
  BY <1>1 DEF Handle
<1>3. e \in Iface /\ e.guid = g /\ e.opens = <<>>
  <2>1. <<>> \in Seq(Record)
    BY EmptySeq
  <2>2. QED BY <2>1 DEF NewEntry, Iface
<1>4. q \in Seq(Iface) /\ Sound(ifaces) /\ \A k \in DOMAIN q : q[k].guid # g
  BY <1>1, <1>2
<1>5. ifaces' = [ifaces EXCEPT ![h] = Append(q, e)]
  OBVIOUS
<1> HIDE DEF e, q
<1> DEFINE t == Append(q, e)
<1>6. /\ t \in Seq(Iface) /\ Len(q) \in Nat /\ DOMAIN q = 1..Len(q) /\ DOMAIN t = 1..(Len(q) + 1)
      /\ \A k \in 1..Len(q) : t[k] = q[k]
      /\ t[Len(q) + 1] = e
  BY <1>3, <1>4, Appended
<1> HIDE DEF t
<1>7. \A k \in DOMAIN t : (k \in DOMAIN q /\ t[k] = q[k]) \/ (k = Len(q) + 1 /\ t[k] = e)
  BY <1>6
<1>8. \A k \in DOMAIN q : k \in DOMAIN t /\ t[k] = q[k]
  BY <1>6
<1>9. Len(q) + 1 \in DOMAIN t
  BY <1>6
<1>10. ifaces' \in [Handle -> Seq(Iface)] /\ \A i \in Handle : ifaces'[i] = IF i = h THEN t ELSE ifaces[i]
  BY <1>1, <1>2, <1>5, <1>6 DEF t
<1>11. OneEach(<<>>) /\ OneOwnerIn(<<>>) /\ ~Exclusive(<<>>)
  BY DEF OneEach, OneOwnerIn, Exclusive
<1>12. \A k \in DOMAIN t : OneEach(t[k].opens)
  BY <1>2, <1>3, <1>4, <1>7, <1>11 DEF Sound, q
<1>13. \A k, l \in DOMAIN t : t[k].guid = t[l].guid => k = l
  <2>1. \A k, l \in DOMAIN q : q[k].guid = q[l].guid => k = l
    BY <1>2, <1>4 DEF Sound, q
  <2>2. QED BY <1>3, <1>4, <1>7, <2>1
<1>14. Sound(ifaces')
  <2>1. ASSUME NEW i \in Handle
        PROVE  /\ \A k, l \in DOMAIN ifaces'[i] : ifaces'[i][k].guid = ifaces'[i][l].guid => k = l
               /\ \A k \in DOMAIN ifaces'[i] : OneEach(ifaces'[i][k].opens)
    <3>1. CASE i = h
      <4>1. ifaces'[i] = t
        BY <1>10, <3>1
      <4>2. QED BY <1>12, <1>13, <4>1
    <3>2. CASE i # h
      <4>1. ifaces'[i] = ifaces[i]
        BY <1>10, <3>2
      <4>2. QED BY <1>1, <4>1 DEF Sound
    <3>3. QED BY <3>1, <3>2
  <2>2. QED BY <1>10, <2>1 DEF Sound
<1>15. Grown
  BY <1>8, <1>10 DEF Grown, Makes, q
<1>16. \A i \in Handle : i > made' => ifaces'[i] = <<>>
  <2>1. SUFFICES ASSUME NEW i \in Handle, i > made' PROVE ifaces'[i] = <<>>
    OBVIOUS
  <2>2. i # h /\ i > made
    BY <1>1, <2>1 DEF Handle
  <2>3. QED BY <1>1, <1>10, <2>2
<1>17. ASSUME NEW i, NEW r
       PROVE  HasIn(ifaces', made', i, r) <=> HasIn(ifaces, made, i, r) \/ (i = h /\ r = g)
  <2>1. i \in 1..made' => i \in Handle /\ (i \in 1..made \/ i > made)
    BY <1>1 DEF Handle
  <2>2. i \in 1..made => i \in 1..made' /\ i \in Handle
    BY <1>1 DEF Handle
  <2>3. (\E k \in DOMAIN t : t[k].guid = r) <=> ((\E k \in DOMAIN q : q[k].guid = r) \/ r = g)
    BY <1>3, <1>7, <1>8, <1>9, <1>6
  <2>4. CASE i = h /\ i \in 1..made
    BY <1>10, <2>2, <2>3, <2>4 DEF HasIn, q
  <2>5. CASE i = h /\ i \notin 1..made
    <3>1. q = <<>> /\ DOMAIN q = {}
      BY <1>1, <1>2, <2>1, <2>5 DEF q
    <3>2. (\E k \in DOMAIN t : t[k].guid = r) <=> r = g
      BY <2>3, <3>1
    <3>3. HasIn(ifaces', made', i, r) <=> r = g
      BY <1>2, <1>10, <2>5, <3>2 DEF HasIn
    <3>4. ~HasIn(ifaces, made, i, r)
      BY <2>5 DEF HasIn
    <3>5. QED BY <2>5, <3>3, <3>4
  <2>6. CASE i # h /\ i \in 1..made
    <3>1. ifaces'[i] = ifaces[i]
      BY <1>10, <2>2, <2>6
    <3>2. QED BY <2>2, <2>6, <3>1 DEF HasIn
  <2>7. CASE i # h /\ i \notin 1..made
    <3>1. ~HasIn(ifaces, made, i, r)
      BY <2>7 DEF HasIn
    <3>2. ~HasIn(ifaces', made', i, r)
      <4>1. i \in 1..made' => ifaces'[i] = <<>>
        BY <1>1, <1>10, <2>1, <2>7
      <4>2. QED BY <4>1 DEF HasIn
    <3>3. QED BY <2>7, <3>1, <3>2
  <2>8. QED BY <2>4, <2>5, <2>6, <2>7
<1>18. OwnerInv => OneOwnerEach(ifaces')
  <2>1. ASSUME OneOwnerEach(ifaces), NEW i \in Handle, NEW k \in DOMAIN ifaces'[i]
        PROVE  OneOwnerIn(ifaces'[i][k].opens)
    <3>1. CASE i = h
      <4>1. ifaces'[i] = t /\ (k \in DOMAIN q => OneOwnerIn(q[k].opens))
        BY <1>2, <1>10, <2>1, <3>1 DEF OneOwnerEach, q
      <4>2. QED BY <1>3, <1>7, <1>11, <2>1, <4>1
    <3>2. CASE i # h
      BY <1>10, <2>1, <3>2 DEF OneOwnerEach
    <3>3. QED BY <3>1, <3>2
  <2>2. QED BY <2>1 DEF OwnerInv, OneOwnerEach
<1>19. ASSUME NEW i \in Handle, NEW r, ExclusiveAt(ifaces', i, r) PROVE ExclusiveAt(ifaces, i, r)
  <2>1. CASE i = h
    <3>1. PICK k \in DOMAIN t : t[k].guid = r /\ Exclusive(t[k].opens)
      BY <1>2, <1>10, <1>19, <2>1 DEF ExclusiveAt
    <3>2. k \in DOMAIN q /\ t[k] = q[k]
      BY <1>3, <1>7, <1>11, <3>1
    <3>3. QED BY <2>1, <3>1, <3>2 DEF ExclusiveAt, q
  <2>2. CASE i # h
    BY <1>10, <1>19, <2>2 DEF ExclusiveAt
  <2>3. QED BY <2>1, <2>2
<1>20. QED BY <1>2, <1>14, <1>15, <1>16, <1>17, <1>18, <1>19

\* An interface is installed; it is announced to the registrations next.
LEMMA Installed ==
  ASSUME DatabaseInv, Makes, NEW b, NEW s, Awaits(b, s), NEW h \in 1..made', NEW g \in Guid,
         NEW n \in Interface, ~\E k \in DOMAIN ifaces[h] : ifaces[h][k].guid = g,
         InstallAt(s, h, g, n), CalmStops /\ CalmTop => "notify" \in Within,
         UNCHANGED <<notifies, unlisted>>
  PROVE  DatabaseInv' /\ (CalmStops /\ OwnerInv => OwnerInv')
<1> DEFINE f == [F("install") EXCEPT !.h = h, !.g = g, !.pos = 1]
<1>1. /\ ifaces' = [ifaces EXCEPT ![h] = Append(@, NewEntry(g, n))]
      /\ stack' = Append(s, f) /\ ret' = "none"
  BY GuidAssumption DEF InstallAt, Enter
<1>2. /\ h \in Handle /\ Sound(ifaces') /\ Grown
      /\ \A i \in Handle : i > made' => ifaces'[i] = <<>>
      /\ \A i, q : HasIn(ifaces', made', i, q) <=> HasIn(ifaces, made, i, q) \/ (i = h /\ q = g)
      /\ OwnerInv => OneOwnerEach(ifaces')
      /\ \A i \in Handle : \A q : ExclusiveAt(ifaces', i, q) => ExclusiveAt(ifaces, i, q)
  BY <1>1, Gains
<1>3. /\ TypeOK /\ FramesGood /\ InstallsApart /\ Listed /\ BaseOK(b)
      /\ made' \in 0..MaxHandles /\ notifies' = notifies /\ unlisted' = unlisted
  BY DEF DatabaseInv, Awaits, Makes
<1>4. f \in Frame /\ f.op = "install" /\ f.h = h /\ f.g = g /\ f.pos = 1
  <2>1. F("install") \in Frame /\ F("install").op = "install"
    BY Fresh
  <2>2. QED BY <1>2, <2>1 DEF Frame
<1> HIDE DEF f
<1>5. /\ s \in Seq(Frame) /\ stack' \in Seq(Frame) /\ Len(s) \in Nat /\ Len(stack') = Len(s) + 1
      /\ DOMAIN stack' = 1..(Len(s) + 1)
      /\ \A i \in 1..Len(s) : stack'[i] = s[i]
      /\ stack'[Len(s) + 1] = f
  BY <1>1, <1>4, Appended DEF Awaits
<1>6. /\ Len(b) \in Nat /\ Len(b) <= Len(s) /\ DOMAIN b = 1..Len(b)
      /\ \A i \in 1..Len(b) : s[i] = stack[i] /\ i \in DOMAIN stack
  BY <1>3, Bases DEF Awaits
<1>7. \A i \in 1..Len(b) : i \in 1..Len(s) /\ i \in DOMAIN stack' /\ stack'[i] = stack[i]
  BY <1>5, <1>6
<1>8. \A i \in (Len(b) + 1)..Len(stack') : i \in (Len(b) + 1)..Len(s) \/ i = Len(s) + 1
  BY <1>5, <1>6
<1>9. \A i \in (Len(b) + 1)..Len(s) :
         /\ stack'[i] = s[i] /\ s[i].op \in {"multi", "reinstall"} /\ s[i].h \in 1..made'
         /\ s[i].pos >= 1 /\ (CalmStops /\ CalmTop => CalmFrame(s[i]))
  BY <1>5, <1>6 DEF Awaits
<1>10. HasIn(ifaces', made', h, g)
  BY <1>2
<1>11. Moves(b)
  <2>1. ASSUME NEW i \in (Len(b) + 1)..Len(stack')
        PROVE  /\ GoodIn(ifaces', made', stack'[i])
               /\ stack'[i].op = "reinstall" => stack'[i].h \in 1..made'
               /\ CalmStops /\ CalmTop => CalmFrame(stack'[i])
               /\ stack'[i].op # "open"
    <3>1. CASE i \in (Len(b) + 1)..Len(s)
      BY <1>9, <3>1 DEF GoodIn
    <3>2. CASE i = Len(s) + 1
      <4>1. stack'[i] = f
        BY <1>5, <3>2
      <4>2. GoodIn(ifaces', made', f)
        BY <1>4, <1>10 DEF GoodIn
      <4>3. CalmStops /\ CalmTop => CalmFrame(f)
        BY <1>4 DEF CalmFrame, RunBy
      <4>4. QED BY <1>4, <4>1, <4>2, <4>3
    <3>3. QED BY <1>8, <3>1, <3>2
  <2>2. Len(b) <= Len(stack')
    BY <1>5, <1>6
  <2>3. \A i \in 1..Len(b) : Like(stack'[i], stack[i])
    BY <1>7, Alike
  <2>4. QED BY <1>3, <1>5, <2>1, <2>2, <2>3 DEF Moves
<1>12. Owners(b)
  BY <1>2 DEF Owners
<1>13. CalmStops /\ OwnerInv => OwnerInv'
  BY <1>11, <1>12, MovesOwners
<1>14. FramesGood'
  BY <1>2, <1>11, MovesGood
<1>15. TypeOK'
  BY <1>1, <1>2, <1>3, <1>5 DEF TypeOK, Sound, Iface, Record, Status
<1>16. \A i \in DOMAIN stack' : stack'[i].op = "install" =>
          \/ i \in 1..Len(b) /\ i \in DOMAIN stack /\ stack'[i] = stack[i]
          \/ i = Len(s) + 1 /\ stack'[i] = f
  <2>1. SUFFICES ASSUME NEW i \in DOMAIN stack', stack'[i].op = "install"
                 PROVE  i \in 1..Len(b) \/ i = Len(s) + 1
    BY <1>5, <1>6, <1>7
  <2>2. i \in 1..Len(b) \/ i \in (Len(b) + 1)..Len(s) \/ i = Len(s) + 1
    BY <1>5, <1>6
  <2>3. QED BY <1>9, <2>1, <2>2
<1>17. \A i \in DOMAIN stack : stack[i].op = "install" =>
          i \in DOMAIN stack' /\ stack'[i] = stack[i] /\ HasIn(ifaces, made, stack[i].h, stack[i].g)
  <2>1. SUFFICES ASSUME NEW i \in DOMAIN stack, stack[i].op = "install"
                 PROVE  i \in 1..Len(b)
    BY <1>3, <1>7 DEF FramesGood, GoodIn
  <2>2. b = stack \/ (Top.op # "install" /\ Len(b) = Len(stack) - 1 /\ Top = stack[Len(stack)])
    BY <1>3, Bases DEF Awaits
  <2>3. DOMAIN stack = 1..Len(stack) /\ Len(stack) \in Nat
    BY <1>3, Bases
  <2>4. CASE b = stack
    BY <2>3, <2>4
  <2>5. CASE Top.op # "install" /\ Len(b) = Len(stack) - 1 /\ Top = stack[Len(stack)]
    <3>1. i # Len(stack)
      BY <2>1, <2>5
    <3>2. QED BY <2>3, <2>5, <3>1
  <2>6. QED BY <2>2, <2>4, <2>5
<1>18. ~HasIn(ifaces, made, h, g)
  BY DEF HasIn
<1>19. \A k \in DOMAIN notifies :
          Having(notifies[k].guid)' = Having(notifies[k].guid)
                                      \cup (IF notifies[k].guid = g THEN {h} ELSE {})
  <2>1. ASSUME NEW k \in DOMAIN notifies
        PROVE  Having(notifies[k].guid)' = Having(notifies[k].guid)
                                           \cup (IF notifies[k].guid = g THEN {h} ELSE {})
    <3>1. Having(notifies[k].guid) = {i \in 1..made : HasIn(ifaces, made, i, notifies[k].guid)}
      BY <1>3, Types DEF Having
    <3>2. Having(notifies[k].guid)' = {i \in 1..made' : HasIn(ifaces', made', i, notifies[k].guid)}
      BY <1>3 DEF Having, Has, Valid, HasIn
    <3> DEFINE q == notifies[k].guid
    <3> HIDE DEF q
    <3>3. \A x : x \in {i \in 1..made' : HasIn(ifaces', made', i, q)} <=> HasIn(ifaces', made', x, q)
      BY DEF HasIn
    <3>4. \A x : x \in {i \in 1..made : HasIn(ifaces, made, i, q)} <=> HasIn(ifaces, made, x, q)
      BY DEF HasIn
    <3>5. {i \in 1..made' : HasIn(ifaces', made', i, q)}
          = {i \in 1..made : HasIn(ifaces, made, i, q)} \cup (IF q = g THEN {h} ELSE {})
      BY <1>2, <3>3, <3>4
    <3>6. QED BY <3>1, <3>2, <3>5 DEF q
  <2>2. QED BY <2>1
<1>20. \A k \in DOMAIN notifies :
          {e.h : e \in Pending(k)}' = {e.h : e \in Pending(k)}
                                       \cup (IF notifies[k].guid = g THEN {h} ELSE {})
  <2>1. ASSUME NEW k \in DOMAIN notifies, NEW x
        PROVE  x \in {e.h : e \in Pending(k)}'
               <=> x \in {e.h : e \in Pending(k)} \/ (notifies[k].guid = g /\ x = h)
    <3>1. x \in {e.h : e \in Pending(k)} <=> \E i \in DOMAIN stack :
             stack[i].op = "install" /\ stack[i].g = notifies[k].guid /\ stack[i].pos <= k /\ x = stack[i].h
      BY DEF Pending, ToSet
    <3>2. x \in {e.h : e \in Pending(k)}' <=> \E i \in DOMAIN stack' :
             stack'[i].op = "install" /\ stack'[i].g = notifies[k].guid /\ stack'[i].pos <= k /\ x = stack'[i].h
      BY <1>3 DEF Pending, ToSet
    <3>3. f.pos <= k
      <4>1. notifies \in Seq([guid : Guid, handles : Seq(Handle)])
        BY <1>3 DEF TypeOK
      <4>2. k >= 1
        BY <4>1, LenProperties
      <4>3. QED BY <1>4, <4>2
    <3>4. Len(s) + 1 \in DOMAIN stack'
      BY <1>5
    <3>5. ASSUME x \in {e.h : e \in Pending(k)}'
          PROVE  x \in {e.h : e \in Pending(k)} \/ (notifies[k].guid = g /\ x = h)
      BY <1>4, <1>16, <3>1, <3>2, <3>5
    <3>6. ASSUME x \in {e.h : e \in Pending(k)} PROVE x \in {e.h : e \in Pending(k)}'
      BY <1>17, <3>1, <3>2, <3>6
    <3>7. ASSUME notifies[k].guid = g, x = h PROVE x \in {e.h : e \in Pending(k)}'
      BY <1>4, <1>5, <3>2, <3>3, <3>4, <3>7
    <3>8. QED BY <3>5, <3>6, <3>7
  <2>2. QED BY <2>1
<1>21. InstallsApart'
  <2>1. \A i, j \in DOMAIN stack' :
           /\ stack'[i].op = "install" /\ stack'[j].op = "install"
           /\ stack'[i].h = stack'[j].h /\ stack'[i].g = stack'[j].g
           => i = j
    <3>1. ASSUME NEW i \in 1..Len(b), stack'[i].op = "install"
          PROVE  stack'[i].h # f.h \/ stack'[i].g # f.g
      BY <1>4, <1>6, <1>7, <1>17, <1>18, <3>1
    <3>2. QED BY <1>3, <1>4, <1>16, <3>1 DEF InstallsApart
  <2>2. ASSUME NEW i \in DOMAIN stack', NEW k \in DOMAIN notifies,
               stack'[i].op = "install", stack'[i].g = notifies[k].guid, stack'[i].pos <= k
        PROVE  stack'[i].h \notin ToSet(notifies[k].handles)
    <3>1. CASE i \in DOMAIN stack /\ stack'[i] = stack[i]
      BY <1>3, <2>2, <3>1 DEF InstallsApart
    <3>2. CASE stack'[i] = f
      <4>1. h \notin Having(g)
        BY <1>3, <1>18, Types DEF Having
      <4>2. ToSet(notifies[k].handles) \subseteq Having(g)
        BY <1>3, <1>4, <2>2, <3>2 DEF Listed
      <4>3. QED BY <1>4, <3>2, <4>1, <4>2
    <3>3. QED BY <1>16, <2>2, <3>1, <3>2
  <2>3. QED BY <1>3, <2>1, <2>2 DEF InstallsApart
<1>22. Listed'
  <2>1. ASSUME NEW k \in DOMAIN notifies
        PROVE  /\ Having(notifies[k].guid)' = unlisted[k] \cup ToSet(notifies[k].handles)
                                              \cup {e.h : e \in Pending(k)}'
               /\ IsInjective(notifies[k].handles)
    BY <1>3, <1>19, <1>20 DEF Listed
  <2>2. QED BY <1>3, <2>1 DEF Listed
<1>23. QED BY <1>2, <1>13, <1>14, <1>15, <1>21, <1>22 DEF DatabaseInv

\* What every step keeps
Safe == DatabaseInv' /\ (CalmStops /\ OwnerInv => OwnerInv')

\* A regular step keeps it.
LEMMA RegularSafe ==
  ASSUME DatabaseInv, NEW b, Regular(b)
  PROVE  Safe
BY RegularDatabase, RegularOwners DEF Safe

\* InstallProtocolInterface
LEMMA InstallSafe ==
  ASSUME DatabaseInv, NEW a \in Installs, InstallProtocolInterface(a)
  PROVE  Safe
<1> DEFINE h == Target(a.handle)
<1>1. /\ Client("Install") /\ h \in Handle /\ UNCHANGED <<notifies, unlisted>>
      /\ made' = IF a.handle = NULL THEN made + 1 ELSE made
  BY DEF InstallProtocolInterface, MakesTarget
<1>2. TypeOK /\ Sound(ifaces) /\ stack \in Seq(Frame)
  BY Before
<1>3. a.guid \in Guid /\ a.intf \in Interface
  BY CallAssumption
<1>4. Makes
  <2>1. made \in 0..MaxHandles
    BY <1>2, Types
  <2>2. a.handle = NULL => h = made + 1
    BY DEF Target
  <2>3. QED BY <1>1, <2>1, <2>2, Numbers DEF Makes, Handle
<1>5. CASE stack' = stack /\ ret' = "invalid_parameter" /\ UNCHANGED ifaces
  <2>1. Regular(stack)
    BY <1>1, <1>4, <1>5, Answering DEF ServiceName, Status
  <2>2. QED BY <2>1, RegularSafe
<1>6. CASE ~(stack' = stack /\ ret' = "invalid_parameter" /\ UNCHANGED ifaces)
  <2>1. h \in 1..made' /\ InstallAt(stack, h, a.guid, a.intf)
    BY <1>6 DEF InstallProtocolInterface, Return
  <2> HIDE DEF h
  <2>2. ~\E k \in DOMAIN ifaces[h] : ifaces[h][k].guid = a.guid
    BY <1>6, <2>1 DEF InstallAt, Return
  <2>3. Awaits(stack, stack)
    <3>1. BaseOK(stack) /\ Len(stack) \in Nat
      BY <1>1, <1>2, Clients, LenProperties DEF ServiceName
    <3>2. QED BY <1>2, <3>1 DEF Awaits
  <2>4. CalmStops /\ CalmTop => "notify" \in Within
    BY <1>1, <1>2, Clients DEF ServiceName, CalledBy
  <2>5. QED BY <1>1, <1>3, <1>4, <2>1, <2>2, <2>3, <2>4, Installed DEF Safe
<1>7. QED BY <1>5, <1>6

\* The stack of a service that installs and goes on as f
LEMMA AwaitsOn ==
  ASSUME DatabaseInv, NEW op, Running(op), op # "install", made' = made, NEW f \in Frame,
         f.op \in {"multi", "reinstall"}, f.h \in 1..made, f.pos >= 1,
         CalmFrame(Top) => CalmFrame(f)
  PROVE  Awaits(Front(stack), Append(Front(stack), f))
<1> DEFINE b == Front(stack)
           s == Append(b, f)
<1>1. BaseOK(b) /\ Top.op # "install" /\ b \in Seq(Frame) /\ TypeOK /\ (CalmTop => CalmFrame(Top))
  BY Inner
<1>2. \A i \in 1..Len(b) : b[i] = stack[i]
  BY <1>1, Bases
<1> HIDE DEF b
<1>3. /\ s \in Seq(Frame) /\ Len(b) \in Nat /\ Len(s) = Len(b) + 1
      /\ \A i \in 1..Len(b) : s[i] = b[i]
      /\ s[Len(b) + 1] = f
  BY <1>1, Appended
<1> HIDE DEF s
<1>4. Len(b) <= Len(s) /\ \A i \in (Len(b) + 1)..Len(s) : i = Len(b) + 1
  BY <1>3
<1>5. \A i \in (Len(b) + 1)..Len(s) : s[i] = f
  BY <1>3, <1>4
<1>6. Awaits(b, s)
  BY <1>1, <1>2, <1>3, <1>4, <1>5 DEF Awaits
<1>7. QED BY <1>6 DEF b, s

\* InstallNext
LEMMA MultipleSafe ==
  ASSUME DatabaseInv, InstallNext
  PROVE  Safe
<1>1. Running("multi") /\ UNCHANGED <<made, notifies, unlisted>>
  BY DEF InstallNext
<1>2. /\ TypeOK /\ Sound(ifaces) /\ Makes /\ Top \in Frame /\ Front(stack) \in Seq(Frame)
      /\ Top.op = "multi" /\ GoodIn(ifaces, made, Top) /\ ret \in Status
  BY <1>1, Inner
<1>3. CASE ret \notin {"none", "success"}
  <2> DEFINE f == [Top EXCEPT !.op = "rollback", !.pos = 1, !.st = ret]
  <2>1. stack' = Append(Front(stack), f) /\ ret' = "none" /\ UNCHANGED ifaces
    BY <1>3 DEF InstallNext, Replace, Enter
  <2>2. f \in Frame /\ f.op = "rollback" /\ f.pos = 1
    BY <1>2, ZenonT(60) DEF Frame, Status
  <2> HIDE DEF f
  <2>3. Append(Front(stack), f) \in Seq(Frame) /\ ret' \in Status
    BY <1>2, <2>1, <2>2, Appended DEF Status
  <2>4. Piece(Append(Front(stack), f), {})
    BY <1>2, <2>1, <2>3, Answers
  <2>5. GoodIn(ifaces, made, f)
    BY <2>2 DEF GoodIn
  <2>6. CalmFrame(Top) => CalmFrame(f)
    BY <1>2, <2>2 DEF CalmFrame, RunBy
  <2>7. Regular(Front(stack))
    BY <1>1, <2>2, <2>4, <2>5, <2>6, GoingOn
  <2>8. QED BY <2>7, RegularSafe
<1>4. CASE ret \in {"none", "success"} /\ Top.pos > Len(Top.pairs)
  <2>1. stack' = Front(stack) /\ ret' = "success" /\ UNCHANGED ifaces
    BY <1>4 DEF InstallNext, Return
  <2>2. Regular(Front(stack))
    BY <1>1, <2>1, Returning DEF Status
  <2>3. QED BY <2>2, RegularSafe
<1>5. CASE ret \in {"none", "success"} /\ ~(Top.pos > Len(Top.pairs))
  <2> DEFINE n == Top.pos + 1
             f == [Top EXCEPT !.pos = n]
             p == Top.pairs[Top.pos]
  <2>1. InstallAt(Append(Front(stack), f), Top.h, p.guid, p.intf)
    <3>1. [Top EXCEPT !.pos = @ + 1] = f
      OBVIOUS
    <3>2. QED BY <1>5, <3>1 DEF InstallNext, Replace
  <2>2. Top.pairs \in Seq(Pair) /\ Top.pos \in Nat /\ Top.pos >= 1 /\ Top.h \in 1..made
    BY <1>2 DEF Frame, GoodIn
  <2>3. p \in Pair
    <3>1. Len(Top.pairs) \in Nat /\ \A k \in 1..Len(Top.pairs) : Top.pairs[k] \in Pair
      BY <2>2, LenProperties
    <3>2. Top.pos \in 1..Len(Top.pairs)
      BY <1>5, <2>2, <3>1
    <3>3. QED BY <3>1, <3>2
  <2>4. n \in Nat /\ n >= 1
    BY <2>2
  <2> HIDE DEF n, p
  <2>5. f \in Frame /\ f.op = "multi" /\ f.h = Top.h /\ f.pos = n
    BY <1>2, <2>4 DEF Frame
  <2> HIDE DEF f
  <2>6. CalmFrame(Top) => CalmFrame(f)
    BY <1>2, <2>5 DEF CalmFrame, RunBy
  <2>7. CASE p.intf # NoInterface /\ ~\E k \in DOMAIN ifaces[Top.h] : ifaces[Top.h][k].guid = p.guid
    <3>1. Awaits(Front(stack), Append(Front(stack), f))
      BY <1>1, <2>2, <2>4, <2>5, <2>6, AwaitsOn
    <3>2. CalmStops /\ CalmTop => "notify" \in Within
      BY <1>2 DEF CalmTop, CalmFrame, RunBy
    <3>3. p.guid \in Guid /\ p.intf \in Interface /\ Top.h \in 1..made'
      BY <1>1, <2>2, <2>3, <2>7 DEF Pair
    <3>4. QED BY <1>1, <1>2, <2>1, <2>7, <3>1, <3>2, <3>3, Installed DEF Safe
  <2>8. CASE ~(p.intf # NoInterface /\ ~\E k \in DOMAIN ifaces[Top.h] : ifaces[Top.h][k].guid = p.guid)
    <3>1. stack' = Append(Front(stack), f) /\ ret' = "invalid_parameter" /\ UNCHANGED ifaces
      BY <2>1, <2>8 DEF InstallAt, Return
    <3>2. Append(Front(stack), f) \in Seq(Frame) /\ ret' \in Status
      BY <1>2, <2>5, <3>1, Appended DEF Status
    <3>3. Piece(Append(Front(stack), f), {})
      BY <1>2, <3>1, <3>2, Answers
    <3>4. GoodIn(ifaces, made, f)
      BY <2>2, <2>4, <2>5 DEF GoodIn
    <3>5. Regular(Front(stack))
      BY <1>1, <2>5, <2>6, <3>3, <3>4, GoingOn
    <3>6. QED BY <3>5, RegularSafe
  <2>9. QED BY <2>7, <2>8
<1>6. QED BY <1>3, <1>4, <1>5

\* ReinstallNext
LEMMA ReinstallSafe ==
  ASSUME DatabaseInv, ReinstallNext
  PROVE  Safe
<1>1. Running("reinstall") /\ UNCHANGED <<made, notifies, unlisted>>
  BY DEF ReinstallNext
<1>2. /\ TypeOK /\ Sound(ifaces) /\ Makes /\ Top \in Frame /\ Front(stack) \in Seq(Frame)
      /\ Top.op = "reinstall" /\ ret \in Status /\ (Valid(Top.h) \/ ret # "success")
      /\ BaseOK(Front(stack)) /\ (CalmTop => CalmFrame(Top))
  BY <1>1, Inner
<1>3. CASE stack' = Front(stack) /\ ret' \in {"success", ret} /\ UNCHANGED ifaces
  <2>1. ret' \in Status
    BY <1>2, <1>3 DEF Status
  <2>2. Regular(Front(stack))
    BY <1>1, <1>3, <2>1, Returning
  <2>3. QED BY <2>2, RegularSafe
<1>4. CASE ~(stack' = Front(stack) /\ ret' \in {"success", ret} /\ UNCHANGED ifaces)
  <2>1. /\ ret = "success" /\ Top.h \in 1..made
        /\ \/ ConnectAt(Append(Front(stack), [Top EXCEPT !.pos = 3]), Top.h, TRUE, FALSE)
           \/ InstallAt(Append(Front(stack), [Top EXCEPT !.pos = 2]), Top.h, Top.g, Top.i)
    BY <1>2, <1>4 DEF ReinstallNext, Return, Replace, Valid
  <2>2. ASSUME NEW n \in {2, 3}
        PROVE  LET f == [Top EXCEPT !.pos = n]
               IN  /\ f \in Frame /\ f.op = "reinstall" /\ f.h = Top.h /\ f.pos = n
                   /\ Append(Front(stack), f) \in Seq(Frame)
                   /\ GoodIn(ifaces', made', f) /\ (CalmFrame(Top) => CalmFrame(f))
    <3> DEFINE f == [Top EXCEPT !.pos = n]
    <3>1. f \in Frame /\ f.op = "reinstall" /\ f.h = Top.h /\ f.pos = n
      <4>1. n \in Nat
        OBVIOUS
      <4>2. QED BY <1>2, <4>1 DEF Frame
    <3> HIDE DEF f
    <3>2. Append(Front(stack), f) \in Seq(Frame)
      BY <1>2, <3>1, Appended
    <3>3. GoodIn(ifaces', made', f)
      BY <3>1 DEF GoodIn
    <3>4. CalmFrame(Top) => CalmFrame(f)
      BY <1>2, <3>1 DEF CalmFrame, RunBy
    <3>5. QED BY <3>1, <3>2, <3>3, <3>4 DEF f
  <2>3. CASE ConnectAt(Append(Front(stack), [Top EXCEPT !.pos = 3]), Top.h, TRUE, FALSE)
    <3> DEFINE f == [Top EXCEPT !.pos = 3]
    <3>1. /\ f \in Frame /\ f.op = "reinstall" /\ f.h = Top.h
          /\ Append(Front(stack), f) \in Seq(Frame)
          /\ GoodIn(ifaces', made', f) /\ (CalmFrame(Top) => CalmFrame(f))
      BY <2>2
    <3>2. ConnectAt(Append(Front(stack), f), Top.h, TRUE, FALSE)
      BY <2>3
    <3> HIDE DEF f
    <3>3. Top.h \in Handle \cup {NULL}
      BY <1>2 DEF Frame
    <3>4. Piece(Append(Front(stack), f), {"supported", "start"})
      BY <1>2, <3>1, <3>2, <3>3, ConnectsAll
    <3>5. CalmFrame(Top) => {"supported", "start"} \subseteq Within
      BY <1>2 DEF CalmFrame, RunBy
    <3>6. Putting(f, {"supported", "start"})
      BY <1>2, <3>1, <3>5 DEF Putting
    <3>7. f.h \in 1..made'
      BY <1>1, <2>1, <3>1
    <3>8. Regular(Front(stack))
      BY <1>1, <1>2, <3>4, <3>6, <3>7, RegularPut
    <3>9. QED BY <3>8, RegularSafe
  <2>4. CASE InstallAt(Append(Front(stack), [Top EXCEPT !.pos = 2]), Top.h, Top.g, Top.i)
    <3> DEFINE f == [Top EXCEPT !.pos = 2]
    <3>1. /\ f \in Frame /\ f.op = "reinstall" /\ f.h = Top.h /\ f.pos = 2
          /\ Append(Front(stack), f) \in Seq(Frame)
          /\ GoodIn(ifaces', made', f) /\ (CalmFrame(Top) => CalmFrame(f))
      BY <2>2
    <3>2. InstallAt(Append(Front(stack), f), Top.h, Top.g, Top.i)
      BY <2>4
    <3> HIDE DEF f
    <3>3. CASE Top.i # NoInterface /\ ~\E k \in DOMAIN ifaces[Top.h] : ifaces[Top.h][k].guid = Top.g
      <4>1. Awaits(Front(stack), Append(Front(stack), f))
        BY <1>1, <2>1, <3>1, AwaitsOn
      <4>2. CalmStops /\ CalmTop => "notify" \in Within
        BY <1>2 DEF CalmFrame, RunBy
      <4>3. Top.g \in Guid /\ Top.i \in Interface /\ Top.h \in 1..made'
        BY <1>1, <1>2, <2>1, <3>3 DEF Frame
      <4>4. QED BY <1>1, <1>2, <3>2, <3>3, <4>1, <4>2, <4>3, Installed DEF Safe
    <3>4. CASE ~(Top.i # NoInterface /\ ~\E k \in DOMAIN ifaces[Top.h] : ifaces[Top.h][k].guid = Top.g)
      <4>1. stack' = Append(Front(stack), f) /\ ret' = "invalid_parameter" /\ UNCHANGED ifaces
        BY <3>2, <3>4 DEF InstallAt, Return
      <4>2. ret' \in Status
        BY <4>1 DEF Status
      <4>3. Piece(Append(Front(stack), f), {})
        BY <1>2, <3>1, <4>1, <4>2, Answers
      <4>4. Putting(f, {})
        BY <1>2, <3>1 DEF Putting
      <4>5. f.h \in 1..made'
        BY <1>1, <2>1, <3>1
      <4>6. Regular(Front(stack))
        BY <1>1, <1>2, <4>3, <4>4, <4>5, RegularPut
      <4>7. QED BY <4>6, RegularSafe
    <3>5. QED BY <3>3, <3>4
  <2>5. QED BY <2>1, <2>3, <2>4
<1>5. QED BY <1>3, <1>4

-----------------------------------------------------------------------------
(* Registrations                                                           *)

\* A registration
Registration == [guid : Guid, handles : Seq(Handle)]

\* Notify: the handle is listed by the registration the loop is at, which
\* leaves those it has yet to reach.
LEMMA NotifySafe ==
  ASSUME DatabaseInv, Notify
  PROVE  Safe
<1> DEFINE rest == {k \in DOMAIN notifies : k >= Top.pos /\ notifies[k].guid = Top.g}
           b == Front(stack)
           m == Len(stack)
           h == Top.h
           g == Top.g
<1>1. Running("install") /\ UNCHANGED <<made, ifaces, unlisted>>
  BY DEF Notify
<1>2. /\ TypeOK /\ Sound(ifaces) /\ Makes /\ Top \in Frame /\ b \in Seq(Frame)
      /\ Top.op = "install" /\ GoodIn(ifaces, made, Top) /\ BaseOK(b) /\ stack # <<>>
      /\ (CalmTop => CalmFrame(Top))
  BY <1>1, Inner
<1>3. FramesGood /\ InstallsApart /\ Listed
  BY DEF DatabaseInv
<1>4. notifies \in Seq(Registration) /\ Len(unlisted) = Len(notifies) /\ unlisted \in Seq(SUBSET Handle)
  BY <1>2 DEF TypeOK, Registration
<1>5. /\ Len(notifies) \in Nat /\ DOMAIN notifies = 1..Len(notifies)
      /\ \A k \in DOMAIN notifies : k \in Nat /\ notifies[k] \in Registration
  BY <1>4, LenProperties
<1>6. /\ m \in Nat \ {0} /\ Len(b) = m - 1 /\ DOMAIN stack = 1..m /\ DOMAIN b = 1..(m - 1)
      /\ \A i \in 1..(m - 1) : b[i] = stack[i] /\ i \in 1..m
      /\ m \in 1..m /\ Top = stack[m]
  <2>1. stack \in Seq(Frame)
    BY <1>2, Types
  <2>2. /\ m \in Nat \ {0} /\ Len(b) = m - 1 /\ DOMAIN stack = 1..m /\ DOMAIN b = 1..(m - 1)
        /\ \A i \in 1..(m - 1) : b[i] = stack[i]
    BY <1>2, <2>1, FrontOf
  <2> HIDE DEF m, b
  <2>3. m \in 1..m /\ \A i \in 1..(m - 1) : i \in 1..m
    BY <2>2
  <2>4. QED BY <2>2, <2>3 DEF Top, m
<1>7. \A i \in 1..m : i \in 1..(m - 1) \/ i = m
  BY <1>6
<1>8. m \notin 1..(m - 1)
  BY <1>6
<1>9. Top.pos \in Nat /\ h \in Handle /\ HasIn(ifaces, made, h, g)
  BY <1>2, HasEntry DEF GoodIn, Frame
<1>10. \A k : Having(k)' = Having(k)
  <2>1. made' = made /\ ifaces' = ifaces
    BY <1>1
  <2>2. QED BY <2>1 DEF Having, Has, Valid
<1>11. Grown /\ Sound(ifaces') /\ Owners(b)
  BY <1>1, <1>2, Untouched, SameGrown, TameOwners
<1> HIDE DEF b, m
<1>12. CASE rest = {}
  <2>1. stack' = b /\ ret' = "success" /\ notifies' = notifies
    BY <1>12 DEF Notify, Return, b
  <2>2. Moves(b)
    <3>1. \A i \in (Len(b) + 1)..Len(stack') : FALSE
      BY <1>6, <2>1
    <3>2. Len(b) <= Len(stack')
      BY <1>6, <2>1
    <3>3. QED BY <1>2, <1>6, <2>1, <3>1, <3>2, Alike DEF Moves
  <2>3. TypeOK'
    BY <1>1, <1>2, <2>1 DEF TypeOK, Status
  <2>4. FramesGood' /\ (CalmStops /\ OwnerInv => OwnerInv')
    BY <1>11, <2>2, MovesGood, MovesOwners
  <2>5. \A i \in DOMAIN stack' : i \in DOMAIN stack /\ stack'[i] = stack[i]
    BY <1>6, <2>1
  <2>6. InstallsApart'
    BY <1>3, <2>1, <2>5 DEF InstallsApart
  <2>7. Listed'
    <3>1. ASSUME NEW k \in DOMAIN notifies, NEW x
          PROVE  x \in {f.h : f \in Pending(k)}' <=> x \in {f.h : f \in Pending(k)}
      <4>1. x \in {f.h : f \in Pending(k)} <=> \E i \in DOMAIN stack :
               stack[i].op = "install" /\ stack[i].g = notifies[k].guid /\ stack[i].pos <= k /\ x = stack[i].h
        BY DEF Pending, ToSet
      <4>2. x \in {f.h : f \in Pending(k)}' <=> \E i \in DOMAIN stack' :
               stack'[i].op = "install" /\ stack'[i].g = notifies[k].guid /\ stack'[i].pos <= k /\ x = stack'[i].h
        BY <2>1 DEF Pending, ToSet
      <4>3. ~(Top.g = notifies[k].guid /\ Top.pos <= k)
        BY <1>5, <1>9, <1>12
      <4>4. \A i \in DOMAIN stack : i \in DOMAIN stack' \/ stack[i] = Top
        BY <1>6, <1>7, <2>1
      <4>5. QED BY <2>5, <4>1, <4>2, <4>3, <4>4
    <3>2. QED BY <1>1, <1>3, <1>10, <2>1, <3>1 DEF Listed
  <2>8. QED BY <1>11, <2>3, <2>4, <2>6, <2>7 DEF DatabaseInv, Safe
<1>13. CASE rest # {}
  <2> DEFINE n == Min(rest)
             w == n + 1
             f == [Top EXCEPT !.pos = w]
             c == Call("notify", NULL, NULL)
             q == notifies[n]
             t == [q EXCEPT !.handles = Append(@, h)]
  <2>1. /\ notifies' = [notifies EXCEPT ![n] = t] /\ ret' = "none"
        /\ stack' = Append(b, f) \/ stack' = Append(Append(b, f), c)
    BY <1>13 DEF Notify, Enter, Replace, b
  <2>2. n \in rest /\ \A k \in rest : n <= k
    <3>1. rest \subseteq Nat
      BY <1>5
    <3> HIDE DEF rest
    <3>2. QED BY <1>13, <3>1, MinOf
  <2>3. n \in DOMAIN notifies /\ n >= Top.pos /\ q.guid = g /\ n \in Nat /\ q \in Registration
    BY <1>5, <2>2
  <2>4. \A k \in DOMAIN notifies : notifies[k].guid = g /\ k < n => ~(Top.pos <= k)
    <3>1. \A k \in DOMAIN notifies : notifies[k].guid = g /\ k >= Top.pos => n <= k
      BY <2>2
    <3>2. n \in Nat
      BY <2>3
    <3> HIDE DEF n
    <3>3. QED BY <1>5, <1>9, <3>1, <3>2
  <2>5. w \in Nat /\ w >= 1 /\ (\A k \in Nat : w <= k <=> n < k)
    BY <2>3
  <2> HIDE DEF n, w, rest
  <2>6. /\ f \in Frame /\ f.op = "install" /\ f.h = h /\ f.g = g /\ f.pos = w
    BY <1>2, <2>5 DEF Frame
  <2>7. c \in Frame /\ New(c, {"notify"}) /\ c.op = "call" /\ c.fn = "notify"
    <3>1. c \in Frame /\ New(c, {"notify"})
      BY Called DEF Function
    <3>2. c.op = "call" /\ c.fn = "notify"
      BY DEF Call, F
    <3>3. QED BY <3>1, <3>2
  <2>8. /\ t \in Registration /\ t.guid = q.guid /\ q.handles \in Seq(Handle)
        /\ ToSet(t.handles) = ToSet(q.handles) \cup {h}
        /\ t.handles = Append(q.handles, h)
    <3> HIDE DEF q
    <3>1. q.handles \in Seq(Handle)
      BY <2>3 DEF Registration
    <3>2. Append(q.handles, h) \in Seq(Handle) /\ ToSet(Append(q.handles, h)) = ToSet(q.handles) \cup {h}
      BY <1>9, <3>1, Appended
    <3>3. t = [q EXCEPT !.handles = Append(q.handles, h)]
      BY <2>3 DEF Registration
    <3> DEFINE a == Append(q.handles, h)
    <3> HIDE DEF a
    <3>4. [q EXCEPT !.handles = a] \in Registration /\ [q EXCEPT !.handles = a].guid = q.guid
          /\ [q EXCEPT !.handles = a].handles = a
      BY <2>3, <3>2 DEF Registration, a
    <3>5. QED BY <3>1, <3>2, <3>3, <3>4 DEF a
  <2> HIDE DEF f, c, t
  <2>9. /\ stack' \in Seq(Frame) /\ Len(stack') \in {m, m + 1} /\ DOMAIN stack' = 1..Len(stack')
        /\ \A i \in 1..(m - 1) : stack'[i] = stack[i]
        /\ stack'[m] = f
        /\ m + 1 \in DOMAIN stack' => stack'[m + 1] = c
    <3> DEFINE s == Append(b, f)
    <3>1. /\ s \in Seq(Frame) /\ Len(s) = (m - 1) + 1
          /\ \A i \in 1..(m - 1) : s[i] = b[i]
          /\ s[(m - 1) + 1] = f
      BY <1>2, <1>6, <2>6, Appended
    <3>2. (m - 1) + 1 = m
      BY <1>6
    <3> HIDE DEF s
    <3>3. CASE stack' = s
      <4>1. DOMAIN s = 1..m
        BY <3>1, <3>2, LenProperties
      <4>2. m + 1 \notin 1..m
        BY <1>6
      <4>3. QED BY <1>6, <3>1, <3>2, <3>3, <4>1, <4>2
    <3>4. CASE stack' = Append(s, c)
      <4>1. /\ stack' \in Seq(Frame) /\ Len(stack') = m + 1 /\ DOMAIN stack' = 1..(m + 1)
            /\ \A i \in 1..m : stack'[i] = s[i]
            /\ stack'[m + 1] = c
        BY <2>7, <3>1, <3>2, <3>4, Appended
      <4>2. QED BY <1>6, <3>1, <3>2, <4>1
    <3>5. QED BY <2>1, <3>3, <3>4 DEF s
  <2>10. /\ m \in DOMAIN stack' /\ \A i \in 1..(m - 1) : i \in DOMAIN stack'
         /\ \A i \in DOMAIN stack' : i \in 1..(m - 1) \/ i = m \/ i = m + 1
         /\ \A i \in (Len(b) + 1)..Len(stack') : i = m \/ (i = m + 1 /\ m + 1 \in DOMAIN stack')
    BY <1>6, <2>9
  <2>11. Moves(b)
    <3>1. GoodIn(ifaces', made', f)
      <4>1. GoodIn(ifaces, made, f)
        BY <1>2, <1>9, <2>5, <2>6 DEF GoodIn
      <4>2. ifaces' = ifaces /\ made' = made
        BY <1>1
      <4>3. QED BY <4>1, <4>2
    <3>2. CalmTop => CalmFrame(f) /\ CalmFrame(c)
      BY <1>2, <2>6, <2>7 DEF CalmFrame, RunBy
    <3>3. ASSUME NEW i \in (Len(b) + 1)..Len(stack')
          PROVE  /\ GoodIn(ifaces', made', stack'[i])
                 /\ stack'[i].op \notin {"reinstall", "open"}
                 /\ CalmStops /\ CalmTop => CalmFrame(stack'[i])
      <4>1. stack'[i] = f \/ stack'[i] = c
        BY <2>9, <2>10
      <4>2. QED BY <2>6, <2>7, <3>1, <3>2, <4>1 DEF New
    <3>4. Len(b) <= Len(stack')
      <4>1. Len(b) = m - 1 /\ m \in Nat
        BY <1>6
      <4>2. Len(stack') = m \/ Len(stack') = m + 1
        BY <2>9
      <4>3. QED BY <4>1, <4>2
    <3>5. \A i \in 1..Len(b) : Like(stack'[i], stack[i])
      BY <1>6, <2>9, Alike
    <3>6. QED BY <1>2, <2>9, <3>3, <3>4, <3>5 DEF Moves
  <2>12. FramesGood' /\ (CalmStops /\ OwnerInv => OwnerInv')
    BY <1>11, <2>11, MovesGood, MovesOwners
  <2>13. /\ notifies' \in Seq(Registration) /\ Len(notifies') = Len(notifies)
         /\ DOMAIN notifies' = DOMAIN notifies
         /\ \A k \in DOMAIN notifies : notifies'[k] = IF k = n THEN t ELSE notifies[k]
    <3>1. /\ [notifies EXCEPT ![n] = t] \in Seq(Registration)
          /\ Len([notifies EXCEPT ![n] = t]) = Len(notifies)
      BY <1>4, <2>3, <2>8, ExceptSeq
    <3>2. QED BY <2>1, <3>1
  <2>14. TypeOK'
    BY <1>1, <1>2, <1>4, <2>1, <2>9, <2>13 DEF TypeOK, Registration, Status
  <2>15. \A k \in DOMAIN notifies : notifies'[k].guid = notifies[k].guid
    BY <2>8, <2>13 DEF q
  <2>16. \A i \in DOMAIN stack' : stack'[i].op = "install" =>
            \/ i \in 1..(m - 1) /\ i \in DOMAIN stack /\ stack'[i] = stack[i]
            \/ i = m /\ stack'[i] = f
    BY <1>6, <2>7, <2>9, <2>10
  <2>17. \A i \in 1..(m - 1) : stack[i].op = "install" => stack[i].h # h \/ stack[i].g # g
    BY <1>2, <1>3, <1>6, <1>8 DEF InstallsApart
  <2>18. \A k \in DOMAIN notifies : g = notifies[k].guid /\ Top.pos <= k
                                    => h \notin ToSet(notifies[k].handles)
    BY <1>2, <1>3, <1>6 DEF InstallsApart
  <2>19. InstallsApart'
    <3>1. \A i, j \in DOMAIN stack' :
             /\ stack'[i].op = "install" /\ stack'[j].op = "install"
             /\ stack'[i].h = stack'[j].h /\ stack'[i].g = stack'[j].g
             => i = j
      BY <1>3, <2>6, <2>16, <2>17 DEF InstallsApart
    <3>2. ASSUME NEW i \in DOMAIN stack', NEW k \in DOMAIN notifies,
                 stack'[i].op = "install", stack'[i].g = notifies[k].guid, stack'[i].pos <= k
          PROVE  stack'[i].h \notin ToSet(notifies'[k].handles)
      <4>1. CASE i \in 1..(m - 1) /\ i \in DOMAIN stack /\ stack'[i] = stack[i]
        <5>1. stack[i].h \notin ToSet(notifies[k].handles)
          BY <1>3, <3>2, <4>1 DEF InstallsApart
        <5>2. k = n => stack[i].h # h
          BY <2>3, <2>17, <3>2, <4>1 DEF q
        <5>3. QED BY <2>8, <2>13, <4>1, <5>1, <5>2 DEF q
      <4>2. CASE i = m /\ stack'[i] = f
        <5>1. n < k /\ notifies[k].guid = g
          BY <1>5, <2>5, <2>6, <3>2, <4>2
        <5>2. notifies'[k] = notifies[k] /\ Top.pos <= k
          BY <1>5, <1>9, <2>3, <2>13, <5>1
        <5>3. QED BY <2>6, <2>18, <4>2, <5>1, <5>2
      <4>3. QED BY <2>16, <3>2, <4>1, <4>2
    <3>3. QED BY <2>13, <2>15, <3>1, <3>2 DEF InstallsApart
  <2>20. Listed'
    <3>1. ASSUME NEW k \in DOMAIN notifies
          PROVE  IsInjective(notifies'[k].handles)
      <4>1. CASE k = n
        <5>1. IsInjective(q.handles) /\ h \notin ToSet(q.handles)
          BY <1>3, <2>3, <2>18 DEF Listed, q
        <5> HIDE DEF q
        <5>2. /\ DOMAIN q.handles = 1..Len(q.handles)
              /\ DOMAIN t.handles = 1..(Len(q.handles) + 1) /\ Len(q.handles) \in Nat
              /\ \A i \in 1..Len(q.handles) : t.handles[i] = q.handles[i]
              /\ t.handles[Len(q.handles) + 1] = h
          BY <1>9, <2>8, Appended
        <5>3. \A i \in DOMAIN t.handles :
                 \/ i \in DOMAIN q.handles /\ t.handles[i] = q.handles[i] /\ t.handles[i] # h
                 \/ i = Len(q.handles) + 1 /\ t.handles[i] = h
          BY <5>1, <5>2 DEF ToSet
        <5>4. IsInjective(t.handles)
          BY <5>1, <5>3 DEF IsInjective
        <5>5. QED BY <2>13, <4>1, <5>4
      <4>2. CASE k # n
        BY <1>3, <2>13, <4>2 DEF Listed
      <4>3. QED BY <4>1, <4>2
    <3>2. ASSUME NEW k \in DOMAIN notifies, NEW x
          PROVE  x \in ToSet(notifies'[k].handles) \cup {e.h : e \in Pending(k)}'
                 <=> x \in ToSet(notifies[k].handles) \cup {e.h : e \in Pending(k)}
      <4>1. x \in {e.h : e \in Pending(k)} <=> \E i \in DOMAIN stack :
               stack[i].op = "install" /\ stack[i].g = notifies[k].guid /\ stack[i].pos <= k /\ x = stack[i].h
        BY DEF Pending, ToSet
      <4>2. x \in {e.h : e \in Pending(k)}' <=> \E i \in DOMAIN stack' :
               stack'[i].op = "install" /\ stack'[i].g = notifies[k].guid /\ stack'[i].pos <= k /\ x = stack'[i].h
        <5>1. x \in {e.h : e \in Pending(k)}' <=> \E i \in DOMAIN stack' :
               stack'[i].op = "install" /\ stack'[i].g = notifies'[k].guid /\ stack'[i].pos <= k /\ x = stack'[i].h
          BY DEF Pending, ToSet
        <5>2. QED BY <2>15, <5>1
      <4> DEFINE Old == \E i \in 1..(m - 1) :
                   stack[i].op = "install" /\ stack[i].g = notifies[k].guid /\ stack[i].pos <= k /\ x = stack[i].h
      <4>3. x \in {e.h : e \in Pending(k)}
            <=> Old \/ (g = notifies[k].guid /\ Top.pos <= k /\ x = h)
        BY <1>2, <1>6, <1>7, <4>1
      <4>4. x \in {e.h : e \in Pending(k)}'
            <=> Old \/ (g = notifies[k].guid /\ w <= k /\ x = h)
        <5>1. ASSUME Old PROVE x \in {e.h : e \in Pending(k)}'
          BY <2>9, <2>10, <4>2, <5>1
        <5>2. ASSUME g = notifies[k].guid, w <= k, x = h PROVE x \in {e.h : e \in Pending(k)}'
          BY <2>6, <2>9, <2>10, <4>2, <5>2
        <5>3. ASSUME x \in {e.h : e \in Pending(k)}'
              PROVE  Old \/ (g = notifies[k].guid /\ w <= k /\ x = h)
          BY <2>6, <2>16, <4>2, <5>3
        <5>4. QED BY <5>1, <5>2, <5>3
      <4> HIDE DEF Old
      <4>5. k \in Nat /\ (w <= k <=> n < k)
        BY <1>5, <2>5
      <4>6. CASE k = n
        <5>1. ToSet(notifies'[k].handles) = ToSet(notifies[k].handles) \cup {h}
          BY <2>8, <2>13, <4>6 DEF q
        <5>2. g = notifies[k].guid /\ Top.pos <= k /\ ~(w <= k)
          BY <1>9, <2>3, <4>5, <4>6 DEF q
        <5>3. QED BY <4>3, <4>4, <5>1, <5>2
      <4>7. CASE k # n
        <5>1. notifies'[k] = notifies[k]
          BY <2>13, <4>7
        <5>2. g = notifies[k].guid => (Top.pos <= k <=> w <= k)
          BY <1>9, <2>3, <2>4, <4>5, <4>7
        <5>3. QED BY <4>3, <4>4, <5>1, <5>2
      <4>8. QED BY <4>6, <4>7
    <3>3. ASSUME NEW k \in DOMAIN notifies
          PROVE  Having(notifies[k].guid)' = unlisted[k] \cup ToSet(notifies'[k].handles)
                                              \cup {e.h : e \in Pending(k)}'
      <4>1. Having(notifies[k].guid)' = Having(notifies[k].guid)
        BY <1>1, <2>15 DEF Having, Has, Valid
      <4>2. Having(notifies[k].guid) = unlisted[k] \cup ToSet(notifies[k].handles)
                                       \cup {e.h : e \in Pending(k)}
        BY <1>3 DEF Listed
      <4>3. QED BY <3>2, <4>1, <4>2
    <3>4. QED BY <1>1, <2>13, <3>1, <3>3 DEF Listed
  <2>21. QED BY <1>11, <2>12, <2>14, <2>19, <2>20 DEF DatabaseInv, Safe
<1>14. QED BY <1>12, <1>13

\* RegisterProtocolNotify: who has the protocol now was there before.
LEMMA RegisterSafe ==
  ASSUME DatabaseInv, NEW g \in Guid, RegisterProtocolNotify(g)
  PROVE  Safe
<1> DEFINE r == [guid |-> g, handles |-> <<>>]
           w == ToSet(LocateHandle(g))
           n == Len(notifies) + 1
<1>1. /\ Client("Register") /\ UNCHANGED <<made, ifaces, stack>> /\ ret' = "success"
      /\ notifies' = Append(notifies, r) /\ unlisted' = Append(unlisted, w)
  BY DEF RegisterProtocolNotify
<1>2. TypeOK /\ Sound(ifaces) /\ stack \in Seq(Frame) /\ Makes
  BY <1>1, Before
<1>3. FramesGood /\ InstallsApart /\ Listed
  BY DEF DatabaseInv
<1>4. /\ notifies \in Seq(Registration) /\ unlisted \in Seq(SUBSET Handle)
      /\ Len(unlisted) = Len(notifies)
  BY <1>2 DEF TypeOK, Registration
<1>5. w = Having(g) /\ w \in SUBSET Handle
  <2>1. LocateHandle(g) \in Seq(Handle) /\ w = Having(g)
    BY <1>2, Located DEF Having
  <2>2. \A h \in 1..made : h \in Handle
    BY <1>2, Types DEF Valid
  <2>3. QED BY <2>1, <2>2 DEF Having
<1>6. r \in Registration /\ r.guid = g /\ r.handles = <<>> /\ ToSet(<<>>) = {} /\ IsInjective(<<>>)
  BY EmptySeq DEF Registration, ToSet, IsInjective
<1> HIDE DEF r, w
<1>7. /\ notifies' \in Seq(Registration) /\ Len(notifies) \in Nat /\ Len(notifies') = n
      /\ DOMAIN notifies = 1..Len(notifies) /\ DOMAIN notifies' = 1..n
      /\ \A k \in 1..Len(notifies) : notifies'[k] = notifies[k]
      /\ notifies'[n] = r
  BY <1>1, <1>4, <1>6, Appended
<1>8. /\ unlisted' \in Seq(SUBSET Handle) /\ Len(unlisted') = n
      /\ \A k \in 1..Len(notifies) : unlisted'[k] = unlisted[k]
      /\ unlisted'[n] = w
  BY <1>1, <1>4, <1>5, Appended
<1>9. \A k \in DOMAIN notifies' :
         \/ k \in DOMAIN notifies /\ notifies'[k] = notifies[k] /\ unlisted'[k] = unlisted[k]
         \/ k = n /\ notifies'[k] = r /\ unlisted'[k] = w
  BY <1>7, <1>8
<1>10. TypeOK'
  BY <1>1, <1>2, <1>7, <1>8 DEF TypeOK, Registration, Status
<1>11. Moves(stack)
  <2>1. BaseOK(stack) /\ Len(stack) \in Nat
    BY <1>1, <1>2, Clients, LenProperties DEF ServiceName
  <2>2. \A i \in (Len(stack) + 1)..Len(stack) : FALSE
    BY <2>1
  <2>3. stack' = stack
    BY <1>1
  <2>4. QED BY <1>2, <2>1, <2>2, <2>3, Alike DEF Moves
<1>12. Grown /\ Sound(ifaces') /\ Owners(stack)
  BY <1>1, <1>2, Untouched, SameGrown, TameOwners
<1>13. FramesGood' /\ (CalmStops /\ OwnerInv => OwnerInv')
  BY <1>11, <1>12, MovesGood, MovesOwners
<1>14. InstallsApart'
  <2>1. ASSUME NEW i \in DOMAIN stack, NEW k \in DOMAIN notifies', stack[i].op = "install",
               stack[i].g = notifies'[k].guid, stack[i].pos <= k
        PROVE  stack[i].h \notin ToSet(notifies'[k].handles)
    BY <1>3, <1>6, <1>9, <2>1 DEF InstallsApart
  <2>2. stack' = stack
    BY <1>1
  <2>3. QED BY <1>3, <2>1, <2>2 DEF InstallsApart
<1>15. Listed'
  <2>1. ASSUME NEW k \in DOMAIN notifies'
        PROVE  /\ Having(notifies[k].guid)' = unlisted'[k] \cup ToSet(notifies'[k].handles)
                                              \cup {f.h : f \in Pending(k)}'
               /\ IsInjective(notifies'[k].handles)
    <3>1. CASE k \in DOMAIN notifies /\ notifies'[k] = notifies[k] /\ unlisted'[k] = unlisted[k]
      <4>1. Having(notifies[k].guid)' = Having(notifies[k].guid)
        BY <1>1, <3>1 DEF Having, Has, Valid
      <4>2. {f.h : f \in Pending(k)}' = {f.h : f \in Pending(k)}
        BY <1>1, <3>1 DEF Pending
      <4>3. QED BY <1>3, <3>1, <4>1, <4>2 DEF Listed
    <3>2. CASE k = n /\ notifies'[k] = r /\ unlisted'[k] = w
      <4>1. Having(notifies[k].guid)' = Having(g)
        BY <1>1, <1>6, <3>2 DEF Having, Has, Valid
      <4>2. {f.h : f \in Pending(k)}' \subseteq Having(g)
        <5>1. ASSUME NEW x \in {f.h : f \in Pending(k)}' PROVE x \in Having(g)
          <6>1. PICK i \in DOMAIN stack :
                   stack[i].op = "install" /\ stack[i].g = g /\ x = stack[i].h
            BY <1>1, <1>6, <3>2, <5>1 DEF Pending, ToSet
          <6>2. HasIn(ifaces, made, x, g)
            BY <1>3, <6>1 DEF FramesGood, GoodIn
          <6>3. QED BY <1>2, <6>2, Types DEF Having, HasIn
        <5>2. QED BY <5>1
      <4>3. QED BY <1>5, <1>6, <3>2, <4>1, <4>2
    <3>3. QED BY <1>9, <3>1, <3>2
  <2>2. QED BY <2>1 DEF Listed
<1>16. QED BY <1>10, <1>12, <1>13, <1>14, <1>15 DEF DatabaseInv, Safe

\* The first n elements of a sequence
LEMMA PrefixFacts ==
  ASSUME NEW S, NEW s \in Seq(S), NEW n \in 0 .. Len(s)
  PROVE  /\ SubSeq(s, 1, n) \in Seq(S)
         /\ Len(SubSeq(s, 1, n)) = n
         /\ \A j \in 1 .. n : SubSeq(s, 1, n)[j] = s[j]
<1>1. Len(s) \in Nat /\ \A j \in 1 .. Len(s) : s[j] \in S
  BY LenProperties
<1>2. n \in Nat /\ \A j \in 1 .. n : s[j] \in S
  BY <1>1
<1>3. QED BY <1>2, SubSeqProperties, Z3

\* The handles under way in the words of the invariant
LEMMA UnderwayIs ==
  ASSUME NEW k
  PROVE  Underway(stack, k) = {f.h : f \in Pending(k)}
BY DEF Underway, Pending

\* Exit leaves the frames below the innermost image's alone; the registrations
\* that the Installs above were on the way to never list their handles.
LEMMA ExitSafe ==
  ASSUME DatabaseInv, Exit
  PROVE  Safe
<1>1. /\ TypeOK /\ Sound(ifaces) /\ FramesGood /\ InstallsApart /\ Listed
      /\ stack \in Seq(Frame) /\ Len(stack) \in Nat /\ DOMAIN stack = 1..Len(stack)
  BY Before, LenProperties DEF DatabaseInv
<1>2. PICK n \in 0..Len(stack) :
        stack' = SubSeq(stack, 1, n) /\ ret' = "success" /\ (n = 0 \/ n < Len(stack))
  BY DEF Exit, Return
<1>3. /\ made' = made /\ ifaces' = ifaces /\ notifies' = notifies
      /\ unlisted' = [k \in DOMAIN unlisted |->
                        unlisted[k] \cup (Underway(stack, k) \ Underway(stack', k))]
  BY DEF Exit
<1>4. /\ stack' \in Seq(Frame) /\ DOMAIN stack' = 1..n
      /\ \A i \in DOMAIN stack' : i \in DOMAIN stack /\ stack'[i] = stack[i] /\ i # Len(stack)
  <2>1. /\ stack' \in Seq(Frame) /\ Len(stack') = n
        /\ \A i \in 1..n : stack'[i] = stack[i]
    BY <1>1, <1>2, PrefixFacts
  <2>2. DOMAIN stack' = 1..n
    BY <2>1, LenProperties
  <2>3. QED BY <1>1, <1>2, <2>1, <2>2
<1>5. FramesGood'
  BY <1>1, <1>3, <1>4 DEF FramesGood, Valid
<1>6. InstallsApart'
  BY <1>1, <1>3, <1>4 DEF InstallsApart
<1>7. OwnerInv => OwnerInv'
  BY <1>3, <1>4 DEF OwnerInv
<1>8. ASSUME NEW k \in DOMAIN notifies
      PROVE  /\ {f.h : f \in Pending(k)}' = Underway(stack', k)
             /\ Underway(stack', k) \subseteq Underway(stack, k)
             /\ Underway(stack, k) \subseteq Having(notifies[k].guid)
  <2>1. {f.h : f \in Pending(k)}' = Underway(stack', k)
    BY <1>3 DEF Underway, Pending
  <2>2. ToSet(stack') \subseteq ToSet(stack)
    BY <1>4 DEF ToSet
  <2>3. Underway(stack', k) \subseteq Underway(stack, k)
    BY <2>2 DEF Underway
  <2>4. Underway(stack, k) \subseteq Having(notifies[k].guid)
    BY <1>1, UnderwayIs DEF Listed
  <2>5. QED BY <2>1, <2>3, <2>4
<1>9. DOMAIN unlisted = DOMAIN notifies /\ unlisted \in Seq(SUBSET Handle)
  BY <1>1, LenProperties DEF TypeOK
<1>10. \A k \in DOMAIN notifies :
         unlisted'[k] = unlisted[k] \cup (Underway(stack, k) \ Underway(stack', k))
  BY <1>3, <1>9
<1>11. unlisted' \in Seq(SUBSET Handle) /\ Len(unlisted') = Len(unlisted)
  <2>1. \A k \in DOMAIN unlisted : unlisted'[k] \in SUBSET Handle
    <3>1. \A k \in DOMAIN notifies : Having(notifies[k].guid) \subseteq Handle
      BY <1>1, Types DEF Having, Valid
    <3>2. \A k \in DOMAIN unlisted : unlisted[k] \in SUBSET Handle
      BY <1>9, LenProperties
    <3>3. QED BY <1>8, <1>9, <1>10, <3>1, <3>2
  <2>2. Len(unlisted) \in Nat /\ DOMAIN unlisted = 1..Len(unlisted)
    BY <1>9, LenProperties
  <2>3. unlisted' = [k \in 1..Len(unlisted) |-> unlisted'[k]]
    BY <1>3, <2>2
  <2>4. QED BY <2>1, <2>2, <2>3, IsASeq, LenProperties
<1>12. TypeOK'
  BY <1>1, <1>2, <1>3, <1>4, <1>11 DEF TypeOK, Status
<1>13. Listed'
  <2>1. ASSUME NEW k \in DOMAIN notifies
        PROVE  /\ Having(notifies[k].guid)' = unlisted'[k] \cup ToSet(notifies[k].handles)
                                              \cup {f.h : f \in Pending(k)}'
               /\ IsInjective(notifies[k].handles)
    <3>1. Having(notifies[k].guid)' = Having(notifies[k].guid)
      BY <1>3 DEF Having, Has, Valid
    <3>2. /\ Having(notifies[k].guid) = unlisted[k] \cup ToSet(notifies[k].handles)
                                       \cup Underway(stack, k)
          /\ IsInjective(notifies[k].handles)
      BY <1>1, UnderwayIs DEF Listed
    <3>3. QED BY <1>8, <1>10, <3>1, <3>2
  <2>2. QED BY <1>3, <2>1 DEF Listed
<1>14. Sound(ifaces')
  BY <1>1, <1>3
<1>15. QED BY <1>5, <1>6, <1>7, <1>12, <1>13, <1>14 DEF DatabaseInv, Safe

-----------------------------------------------------------------------------
(* The theorems                                                            *)

\* The handles there are before programs call: each has an interface of each
\* protocol given to it, which nobody has opened.
LEMMA StartsSafe ==
  ASSUME Init
  PROVE  DatabaseInv /\ OwnerInv
<1>1. /\ made \in 0..MaxHandles /\ made = Len(Given) /\ MaxHandles \in Nat
      /\ DOMAIN Given = 1..made
      /\ \A h \in 1..made : Given[h] \in Seq([guid : Guid, intf : Interface])
  <2>1. Given \in Seq(Seq([guid : Guid, intf : Interface])) /\ Len(Given) <= MaxHandles
        /\ made = Len(Given)
    BY GivenAssumption DEF Init
  <2>2. QED BY <2>1, Numbers, LenProperties
<1>2. stack = <<>> /\ notifies = <<>> /\ unlisted = <<>> /\ ret = "none"
  BY DEF Init
<1>3. ASSUME NEW h \in Handle
      PROVE  /\ ifaces[h] \in Seq(Iface)
             /\ h > made => ifaces[h] = <<>>
             /\ \A k \in DOMAIN ifaces[h] : ifaces[h][k].opens = <<>>
             /\ \A k, l \in DOMAIN ifaces[h] : ifaces[h][k].guid = ifaces[h][l].guid => k = l
  <2>1. h > made \/ h \in 1..made
    BY <1>1 DEF Handle
  <2>2. CASE h > made
    <3>1. ifaces[h] = <<>>
      BY <2>2 DEF Init
    <3>2. QED BY <3>1, EmptySeq
  <2>3. CASE ~(h > made)
    <3> DEFINE q == Given[h]
               t == [k \in DOMAIN q |-> NewEntry(q[k].guid, q[k].intf)]
    <3>1. ifaces[h] = t
      BY <2>3 DEF Init
    <3>2. q \in Seq([guid : Guid, intf : Interface]) /\ h \in DOMAIN Given
      BY <1>1, <2>1, <2>3
    <3>3. \A k, l \in DOMAIN q : q[k].guid = q[l].guid => k = l
      BY <3>2, GivenAssumption
    <3> HIDE DEF q
    <3>4. Len(q) \in Nat /\ DOMAIN q = 1..Len(q) /\ \A k \in 1..Len(q) : q[k] \in [guid : Guid, intf : Interface]
      BY <3>2, LenProperties
    <3>5. \A k \in DOMAIN q : /\ t[k] = NewEntry(q[k].guid, q[k].intf) /\ t[k].guid = q[k].guid
                              /\ t[k].opens = <<>>
      BY DEF NewEntry
    <3>6. \A k \in 1..Len(q) : NewEntry(q[k].guid, q[k].intf) \in Iface
      BY <3>4, EmptySeq DEF NewEntry, Iface
    <3>7. t \in Seq(Iface) /\ DOMAIN t = DOMAIN q
      <4>1. [k \in 1..Len(q) |-> NewEntry(q[k].guid, q[k].intf)] \in Seq(Iface)
        BY <3>4, <3>6, IsASeq
      <4>2. QED BY <3>4, <4>1
    <3> HIDE DEF t
    <3>8. QED BY <2>3, <3>1, <3>3, <3>5, <3>7
  <2>4. QED BY <2>2, <2>3
<1>4. ifaces \in [Handle -> Seq(Iface)]
  <2>1. ifaces = [h \in Handle |-> ifaces[h]]
    BY DEF Init
  <2>2. QED BY <1>3, <2>1
<1>5. OneEach(<<>>) /\ OneOwnerIn(<<>>)
  BY DEF OneEach, OneOwnerIn
<1>6. Sound(ifaces) /\ OneOwnerEach(ifaces)
  BY <1>3, <1>4, <1>5 DEF Sound, OneOwnerEach
<1>7. TypeOK
  <2>1. stack \in Seq(Frame) /\ notifies \in Seq([guid : Guid, handles : Seq(Handle)])
        /\ unlisted \in Seq(SUBSET Handle) /\ Len(unlisted) = Len(notifies) /\ ret \in Status
    BY <1>2, EmptySeq DEF Status
  <2>2. ifaces \in [Handle -> Seq([guid : Guid, intf : Interface, freed : BOOLEAN,
          opens : Seq([agent : Handle, controller : Handle \cup {NULL}, attrs : Valued,
                       count : Nat \ {0}])])]
    BY <1>4 DEF Iface, Record
  <2>3. QED BY <1>1, <1>3, <2>1, <2>2 DEF TypeOK
<1>8. DOMAIN stack = {} /\ DOMAIN notifies = {}
  BY <1>2
<1>9. FramesGood /\ InstallsApart /\ Listed /\ OwnerInv
  BY <1>6, <1>8 DEF FramesGood, InstallsApart, Listed, OwnerInv
<1>10. QED BY <1>6, <1>7, <1>9 DEF DatabaseInv

\* Every step keeps the invariants.
LEMMA StepsSafe ==
  ASSUME DatabaseInv, [Next]_vars
  PROVE  Safe
<1>1. CASE UNCHANGED vars
  <2>1. /\ made' = made /\ ifaces' = ifaces /\ notifies' = notifies /\ stack' = stack
        /\ ret' = ret /\ unlisted' = unlisted
    BY <1>1 DEF vars
  <2>2. TypeOK' /\ Sound(ifaces')
    BY <2>1 DEF DatabaseInv, TypeOK
  <2>3. FramesGood'
    BY <2>1 DEF DatabaseInv, FramesGood, Valid
  <2>4. InstallsApart' /\ Listed'
    BY <2>1 DEF DatabaseInv, InstallsApart, Listed, Having, Has, Valid, Pending
  <2>5. OwnerInv => OwnerInv'
    BY <2>1 DEF OwnerInv
  <2>6. QED BY <2>2, <2>3, <2>4, <2>5 DEF DatabaseInv, Safe
<1>2. CASE Serve
  <2>1. CASE Notify
    BY <2>1, NotifySafe
  <2>2. CASE InstallNext
    BY <2>2, MultipleSafe
  <2>3. CASE RollBack
    BY <2>3, RollBackRegular, RegularSafe
  <2>4. CASE ReinstallNext
    BY <2>4, ReinstallSafe
  <2>5. CASE UninstallEnds
    BY <2>5, UninstallRegular, RegularSafe
  <2>6. CASE DisconnectOwners
    BY <2>6, OwnersRegular, RegularSafe
  <2>7. CASE ConnectNext
    BY <2>7, ConnectRegular, RegularSafe
  <2>8. CASE BindNext
    BY <2>8, BindRegular, RegularSafe
  <2>9. CASE WalkNext
    BY <2>9, WalkRegular, RegularSafe
  <2>10. CASE DisconnectAllNext
    BY <2>10, DisconnectAllRegular, RegularSafe
  <2>11. CASE DisconnectNext
    BY <2>11, DisconnectRegular, RegularSafe
  <2>12. QED BY <1>2, <2>1, <2>2, <2>3, <2>4, <2>5, <2>6, <2>7, <2>8, <2>9, <2>10, <2>11 DEF Serve
<1>3. CASE CallService
  <2>1. ASSUME NEW a \in Installs, InstallProtocolInterface(a) PROVE Safe
    BY <2>1, InstallSafe
  <2>2. ASSUME NEW a \in InstallLists, InstallMultiple(a) PROVE Safe
    BY <2>2, MultipleRegular, RegularSafe
  <2>3. ASSUME NEW a \in Installs, NEW i \in Interface, UninstallProtocolInterface(a.handle, a.guid, i)
        PROVE  Safe
    <3>1. a.handle \in Handle \cup {NULL} /\ a.guid \in Guid
      BY CallAssumption
    <3>2. QED BY <2>3, <3>1, UninstallingRegular, RegularSafe
  <2>4. ASSUME NEW a \in Installs, NEW i \in Interface,
               ReinstallProtocolInterface(a.handle, a.guid, i, a.intf)
        PROVE  Safe
    <3>1. a.handle \in Handle \cup {NULL} /\ a.guid \in Guid /\ a.intf \in Interface
      BY CallAssumption
    <3>2. QED BY <2>4, <3>1, ReinstallRegular, RegularSafe
  <2>5. ASSUME NEW g \in Registers, RegisterProtocolNotify(g) PROVE Safe
    BY <2>5, CallAssumption, RegisterSafe
  <2>6. ASSUME NEW o \in Opens, OpenProtocol(o) PROVE Safe
    BY <2>6, OpenRegular, RegularSafe
  <2>7. ASSUME NEW o \in Opens, CloseProtocol(o.handle, o.guid, o.agent, o.controller) PROVE Safe
    BY <2>7, CloseRegular, RegularSafe
  <2>8. ASSUME NEW a \in Connects, ConnectController(a) PROVE Safe
    BY <2>8, ConnectingRegular, RegularSafe
  <2>9. ASSUME NEW a \in Disconnects, DisconnectController(a) PROVE Safe
    BY <2>9, DisconnectingRegular, RegularSafe
  <2>10. CASE StartImage
    BY <2>10, StartImageRegular, RegularSafe
  <2>11. CASE Exit
    BY <2>11, ExitSafe
  <2>12. QED BY <1>3, <2>1, <2>2, <2>3, <2>4, <2>5, <2>6, <2>7, <2>8, <2>9, <2>10, <2>11
         DEF CallService
<1>4. CASE FunctionReturns
  BY <1>4, FunctionRegular, RegularSafe
<1>5. QED BY <1>1, <1>2, <1>3, <1>4 DEF Next, Undefined

\* The database stays sound whatever programs call from their functions, in
\* the middle of the services that call these: a handle has one interface of a
\* protocol, an interface one record of each opener (protocol.c:91,328).
THEOREM DatabaseInvariant == Spec => []DatabaseInv
<1>1. Init => DatabaseInv
  BY StartsSafe
<1>2. DatabaseInv /\ [Next]_vars => DatabaseInv'
  BY StepsSafe DEF Safe
<1>3. QED BY <1>1, <1>2, PTL DEF Spec

\* A registration lists each handle that was given its protocol since it was
\* made, once, whatever is installed from inside a notification, but for those
\* an Install is on the way with and those whose Install an Exit cut short
\* (protocol.c:107-118, image.c:93-125).
THEOREM RegistrationsAreComplete == Spec => []RegistrationsComplete
<1>1. DatabaseInv => RegistrationsComplete
  <2>1. SUFFICES ASSUME DatabaseInv, NEW k \in DOMAIN notifies
                 PROVE  LET n == notifies[k]
                        IN  /\ ToSet(LocateHandle(n.guid)) = (unlisted[k] \cup ToSet(n.handles)
                                                              \cup Underway(stack, k))
                            /\ IsInjective(n.handles)
                            /\ n.handles # <<>> => LocateRegistered(n) # NoInterface
    BY DEF RegistrationsComplete
  <2> DEFINE n == notifies[k]
  <2>2. TypeOK /\ Listed
    BY <2>1 DEF DatabaseInv
  <2>3. ToSet(LocateHandle(n.guid)) = Having(n.guid)
    BY <2>2, Located DEF Having
  <2>4. /\ Having(n.guid) = unlisted[k] \cup ToSet(n.handles) \cup {f.h : f \in Pending(k)}
        /\ IsInjective(n.handles)
    BY <2>1, <2>2 DEF Listed
  <2>5. ASSUME n.handles # <<>> PROVE LocateRegistered(n) # NoInterface
    <3>1. n.handles \in Seq(Handle)
      <4>1. notifies \in Seq(Registration) /\ k \in DOMAIN notifies
        BY <2>1, <2>2 DEF TypeOK, Registration
      <4>2. n \in Registration
        BY <4>1, LenProperties
      <4>3. QED BY <4>2 DEF Registration
    <3> DEFINE q == n.handles
    <3>2. Head(q) \in ToSet(q)
      <4> HIDE DEF q
      <4>1. q \in Seq(Handle) /\ q # <<>>
        BY <2>5, <3>1 DEF q
      <4>2. QED BY <4>1, HeadAndTail
    <3>3. Head(n.handles) \in Having(n.guid)
      BY <2>4, <3>2
    <3>4. HasIn(ifaces, made, Head(n.handles), n.guid)
      BY <2>2, <3>3, Types DEF Having
    <3>5. Entry(Head(n.handles), n.guid) \in Iface
      BY <2>2, <3>4, HasEntry
    <3>6. QED BY <2>5, <3>5, GuidAssumption DEF LocateRegistered, Iface
  <2>6. QED BY <2>3, <2>4, <2>5, UnderwayIs
<1>2. QED BY <1>1, DatabaseInvariant, PTL

\* An interface has one owner at most, be it a driver or an exclusive opener,
\* when what the stop functions of drivers call in the end opens nothing: the
\* checks of OpenProtocol then still hold when it makes its record, after the
\* drivers were disconnected (protocol.c:302-328).
THEOREM OneOwnerAlways ==
  ASSUME CalmStops
  PROVE  Spec => []OneOwner
<1>1. Init => DatabaseInv /\ OwnerInv
  BY StartsSafe
<1>2. DatabaseInv /\ OwnerInv /\ [Next]_vars => (DatabaseInv /\ OwnerInv)'
  BY StepsSafe DEF Safe
<1>3. DatabaseInv /\ OwnerInv => OneOwner
  <2>1. SUFFICES ASSUME DatabaseInv, OwnerInv PROVE OneOwner
    OBVIOUS
  <2>2. TypeOK /\ Sound(ifaces) /\ OneOwnerEach(ifaces)
    BY <2>1 DEF DatabaseInv, OwnerInv
  <2>3. ASSUME NEW h \in 1..made
        PROVE  /\ \A k, l \in DOMAIN ifaces[h] :
                    ProtocolsPerHandle(h)[k] = ProtocolsPerHandle(h)[l] => k = l
               /\ \A k \in DOMAIN ifaces[h] :
                    OneEach(OpenInformation(h, k)) /\ OneOwnerIn(OpenInformation(h, k))
    <3>1. h \in Handle /\ ifaces[h] \in Seq(Iface)
      BY <2>2, Types DEF Valid
    <3>2. \A k, l \in DOMAIN ifaces[h] : ProtocolsPerHandle(h)[k] = ProtocolsPerHandle(h)[l] => k = l
      BY <2>2, <3>1 DEF ProtocolsPerHandle, Sound
    <3>3. ASSUME NEW k \in DOMAIN ifaces[h]
          PROVE  OneEach(OpenInformation(h, k)) /\ OneOwnerIn(OpenInformation(h, k))
      <4> DEFINE o == ifaces[h][k].opens
      <4>1. OpenInformation(h, k) = Kept(o, {n \in DOMAIN o : o[n].count > 0})
        BY DEF OpenInformation
      <4>2. OneEach(o) /\ OneOwnerIn(o)
        BY <2>2, <3>1 DEF Sound, OneOwnerEach
      <4>3. o \in Seq(Record)
        <5>1. ifaces[h][k] \in Iface
          BY <3>1, LenProperties
        <5>2. QED BY <5>1 DEF Iface
      <4> HIDE DEF o
      <4>4. QED BY <4>1, <4>2, <4>3, FewerRecords DEF Tame
    <3>4. QED BY <3>2, <3>3
  <2>4. QED BY <2>2, <2>3 DEF OneOwner, OneEach, OneOwnerIn, Owner
<1>4. QED BY <1>1, <1>2, <1>3, PTL DEF Spec

-----------------------------------------------------------------------------
(* Walks.  A loop over an open list is lost when the record it saved is    *)
(* freed by a function that runs in its middle.  Drivers can do that; the  *)
(* ones that follow the driver model do not.                               *)

\* The controllers that children are opened for
Kids == {o.controller : o \in {p \in Opens : "child" \in p.attrs}}

\* Drivers that close in their stop functions only, which succeed once they have
\* closed; that open in their start functions only, and exclusively on no child.
OrderlyDrivers ==
  /\ ~MayGiveUp
  /\ May["stop"] \subseteq {"Close", "Exit"}
  /\ May["start"] \subseteq {"Open", "Install", "Register", "StartImage", "Exit"}
  /\ \A fn \in {"supported", "notify", "image"} :
       May[fn] \subseteq {"Install", "Register", "StartImage", "Exit"}
  /\ \A o \in Opens : "exclusive" \in o.attrs => o.handle \notin Kids

\* The children in a list are opened for known controllers.
KidsIn(o) == \A m \in DOMAIN o : "child" \in o[m].attrs => o[m].controller \in Kids \ {NULL}

\* The children in all lists are.
KidsKnown(ifs) == \A h \in Handle : \A k \in DOMAIN ifs[h] : KidsIn(ifs[h][k].opens)

\* A call that closes no child, nor does what it calls
Inside(f) ==
  \/ f.op \in {"connect", "bind", "walk"} /\ f.h \in Kids
  \/ f.op = "install"
  \/ /\ f.op = "call"
     /\ f.fn \in {"supported", "notify", "image"} \/ (f.fn = "start" /\ f.h \in Kids)

\* A walk is at the record of a child, if it is at one.
AtChild(f) == f.cur = NoRecord \/ ("child" \in f.cur.attrs /\ f.cur.controller # NULL)

\* Functions of drivers and notifications are called, but not main; a connection
\* that turns to the children starts at no record.
Proper(f) == (f.op = "call" => f.fn # "main") /\ (f.op = "connect" => f.cur = NoRecord)

\* There is no walk in progress.
NoWalk(s) == \A i \in DOMAIN s : s[i].op # "walk"

\* No exclusive opener is at work, and all above a walk closes no child.
Steady(s) ==
  /\ \A i \in DOMAIN s : s[i].op # "open" /\ Proper(s[i])
  /\ \A i \in DOMAIN s : s[i].op = "walk" =>
       AtChild(s[i]) /\ \A j \in DOMAIN s : j > i => Inside(s[j])

\* Frame i is an exclusive opener that nobody waits for but what is bare.
OpenerAt(s, i) ==
  /\ i \in DOMAIN s /\ s[i].op = "open"
  /\ \A j \in DOMAIN s : j < i => s[j].op \notin {"open", "walk"} /\ Proper(s[j])

\* The exclusive opener has the processor, or the driver it disconnects does.  If
\* the record it saved is freed, the driver has closed something, so it succeeds.
Asking(s, status) ==
  \/ /\ OpenerAt(s, Len(s))
     /\ s[Len(s)].cur = Freed => StartOver(status)
  \/ /\ OpenerAt(s, Len(s) - 1) /\ s[Len(s)].op = "disconnect"
     /\ s[Len(s) - 1].cur = Freed => status = "success"
  \/ /\ OpenerAt(s, Len(s) - 2) /\ s[Len(s) - 1].op = "disconnect"
     /\ s[Len(s)].op = "call" /\ s[Len(s)].fn = "stop"
     /\ s[Len(s) - 2].cur = Freed => s[Len(s) - 1].ok \/ s[Len(s)].ok

\* The inductive invariant of the walks
WalkInv == KidsKnown(ifaces) /\ (Steady(stack) \/ Asking(stack, ret))

\* A stack with a frame on it
LEMMA Longer ==
  ASSUME NEW S, NEW s \in Seq(S), NEW f
  PROVE  /\ Append(s, f) \in Seq(S \cup {f})
         /\ Len(s) \in Nat /\ Len(Append(s, f)) = Len(s) + 1
         /\ DOMAIN s = 1..Len(s) /\ DOMAIN Append(s, f) = 1..(Len(s) + 1)
         /\ \A i \in DOMAIN s : i < Len(s) + 1 /\ Append(s, f)[i] = s[i]
         /\ Append(s, f)[Len(s) + 1] = f
         /\ \A i \in DOMAIN Append(s, f) : i \in DOMAIN s \/ i = Len(s) + 1
<1>1. Len(s) \in Nat /\ DOMAIN s = 1..Len(s) /\ s = [i \in 1..Len(s) |-> s[i]]
      /\ \A i \in 1..Len(s) : s[i] \in S \cup {f}
  BY LenProperties
<1>2. s \in Seq(S \cup {f})
  BY <1>1, IsASeq
<1>3. QED BY <1>1, <1>2, Appended

\* A call on a stack that stays in order
LEMMA SteadyMore ==
  ASSUME NEW S, NEW s \in Seq(S), NEW f, Steady(s), f.op # "open", Proper(f),
         f.op = "walk" => AtChild(f), Inside(f) \/ NoWalk(s)
  PROVE  Steady(Append(s, f))
<1> DEFINE t == Append(s, f)
           n == Len(s) + 1
<1>1. /\ n \in Nat /\ DOMAIN s = 1..Len(s) /\ Len(s) \in Nat /\ t[n] = f
      /\ \A i \in DOMAIN s : i < n /\ t[i] = s[i]
      /\ \A i \in DOMAIN t : i \in DOMAIN s \/ i = n
  BY Longer
<1> HIDE DEF t, n
<1>2. \A i \in DOMAIN t : t[i].op # "open" /\ Proper(t[i])
  BY <1>1 DEF Steady
<1>3. ASSUME NEW i \in DOMAIN t, t[i].op = "walk"
      PROVE  AtChild(t[i]) /\ \A j \in DOMAIN t : j > i => Inside(t[j])
  <2>1. CASE i \in DOMAIN s
    <3>1. /\ s[i].op = "walk" /\ AtChild(s[i]) /\ t[i] = s[i]
          /\ \A j \in DOMAIN s : j > i => Inside(s[j])
      BY <1>1, <1>3, <2>1 DEF Steady
    <3>2. Inside(f)
      BY <2>1, <3>1 DEF NoWalk
    <3>3. QED BY <1>1, <3>1, <3>2
  <2>2. CASE i = n
    <3>1. \A j \in DOMAIN t : ~(j > i)
      BY <1>1, <2>2
    <3>2. QED BY <1>1, <1>3, <2>2, <3>1
  <2>3. QED BY <1>1, <2>1, <2>2
<1>4. QED BY <1>2, <1>3 DEF Steady, t

\* No walk begins with another call.
LEMMA NoWalkMore ==
  ASSUME NEW S, NEW s \in Seq(S), NEW f, NoWalk(s), f.op # "walk"
  PROVE  NoWalk(Append(s, f))
<1> DEFINE t == Append(s, f)
           n == Len(s) + 1
<1>1. /\ t[n] = f /\ \A i \in DOMAIN s : t[i] = s[i]
      /\ \A i \in DOMAIN t : i \in DOMAIN s \/ i = n
  BY Longer
<1> HIDE DEF t, n
<1>2. NoWalk(t)
  BY <1>1 DEF NoWalk
<1>3. QED BY <1>2 DEF t

\* What is below the innermost call
LEMMA Below ==
  ASSUME stack \in Seq(Frame), stack # <<>>
  PROVE  /\ Front(stack) \in Seq(Frame) /\ Len(stack) \in Nat \ {0} /\ DOMAIN stack = 1..Len(stack)
         /\ Len(Front(stack)) = Len(stack) - 1
         /\ DOMAIN Front(stack) = 1..(Len(stack) - 1)
         /\ \A i \in DOMAIN Front(stack) : i \in DOMAIN stack /\ i < Len(stack) /\ Front(stack)[i] = stack[i]
         /\ Len(stack) \in DOMAIN stack /\ Top = stack[Len(stack)] /\ Top \in Frame
         /\ \A i \in DOMAIN stack : i \in DOMAIN Front(stack) \/ i = Len(stack)
<1> DEFINE n == Len(stack)
<1>1. /\ Front(stack) \in Seq(Frame) /\ n \in Nat \ {0} /\ Len(Front(stack)) = n - 1
      /\ DOMAIN stack = 1..n /\ DOMAIN Front(stack) = 1..(n - 1)
      /\ \A i \in 1..(n - 1) : Front(stack)[i] = stack[i]
      /\ \A i \in DOMAIN stack : stack[i] \in Frame
  BY FrontOf
<1>2. Top = stack[n]
  BY DEF Top
<1> HIDE DEF n
<1>3. n \in 1..n /\ \A i \in 1..(n - 1) : i \in 1..n /\ i < n
  BY <1>1
<1>4. \A i \in 1..n : i \in 1..(n - 1) \/ i = n
  BY <1>1
<1>5. QED BY <1>1, <1>2, <1>3, <1>4 DEF n

\* A stack in order stays in order when a call returns; there is no walk below a
\* call that is not inside of one.
LEMMA SteadyFront ==
  ASSUME stack \in Seq(Frame), stack # <<>>, Steady(stack)
  PROVE  /\ Steady(Front(stack)) /\ Top.op # "open" /\ Proper(Top) /\ (Top.op = "walk" => AtChild(Top))
         /\ Inside(Top) \/ NoWalk(Front(stack))
         /\ ~Inside(Top) /\ Top.op # "walk" => NoWalk(stack)
<1> DEFINE q == Front(stack)
           n == Len(stack)
<1>1. /\ \A i \in DOMAIN q : i \in DOMAIN stack /\ i < n /\ q[i] = stack[i]
      /\ n \in DOMAIN stack /\ Top = stack[n]
      /\ \A i \in DOMAIN stack : i \in DOMAIN q \/ i = n
      /\ DOMAIN stack = 1..n /\ n \in Nat
  BY Below
<1> HIDE DEF q, n
<1>2. Steady(q)
  <2>1. \A i \in DOMAIN q : q[i].op # "open" /\ Proper(q[i])
    BY <1>1 DEF Steady
  <2>2. ASSUME NEW i \in DOMAIN q, q[i].op = "walk"
        PROVE  AtChild(q[i]) /\ \A j \in DOMAIN q : j > i => Inside(q[j])
    BY <1>1, <2>2 DEF Steady
  <2>3. QED BY <2>1, <2>2 DEF Steady
<1>3. Top.op # "open" /\ Proper(Top) /\ (Top.op = "walk" => AtChild(Top))
  BY <1>1 DEF Steady
<1>4. ASSUME NEW i \in DOMAIN q, q[i].op = "walk" PROVE Inside(Top)
  <2>1. stack[i].op = "walk" /\ n > i /\ i \in DOMAIN stack
    BY <1>1, <1>4
  <2>2. QED BY <1>1, <2>1 DEF Steady
<1>5. ~Inside(Top) /\ Top.op # "walk" => NoWalk(stack)
  BY <1>1, <1>4 DEF NoWalk
<1>6. QED BY <1>2, <1>3, <1>4, <1>5 DEF NoWalk, q

\* Another frame takes the place of the innermost one.
LEMMA SteadyReplace ==
  ASSUME stack \in Seq(Frame), stack # <<>>, Steady(stack), NEW f \in Frame, f.op # "open", Proper(f),
         f.op = "walk" => AtChild(f), Inside(Top) => Inside(f)
  PROVE  Append(Front(stack), f) \in Seq(Frame) /\ Steady(Append(Front(stack), f))
<1>1. Front(stack) \in Seq(Frame)
  BY Below
<1>2. Append(Front(stack), f) \in Seq(Frame)
  BY <1>1, Appended
<1>3. QED BY <1>1, <1>2, SteadyFront, SteadyMore

\* There is none if there was none.
LEMMA NoWalkReplace ==
  ASSUME stack \in Seq(Frame), stack # <<>>, NoWalk(stack), NEW f, f.op # "walk"
  PROVE  NoWalk(Front(stack)) /\ NoWalk(Append(Front(stack), f))
<1>1. Front(stack) \in Seq(Frame)
  BY Below
<1>2. NoWalk(Front(stack))
  BY Below DEF NoWalk
<1>3. QED BY <1>1, <1>2, NoWalkMore

\* A list of known children in the place of another
LEMMA KidsRelisted ==
  ASSUME TypeOK, KidsKnown(ifaces), NEW h, NEW g, HasIn(ifaces, made, h, g),
         NEW e, KidsIn(e.opens),
         ifaces' = [ifaces EXCEPT ![h] = [@ EXCEPT ![Position(ifaces, h, g)] = e]]
  PROVE  KidsKnown(ifaces')
<1> DEFINE p == Position(ifaces, h, g)
<1>1. h \in Handle /\ p \in DOMAIN ifaces[h] /\ ifaces \in [Handle -> Seq(Iface)]
  BY HasEntry, Types
<1> HIDE DEF p
<1>2. \A j \in Handle : \A k \in DOMAIN ifaces'[j] :
        k \in DOMAIN ifaces[j] /\ (ifaces'[j][k] = ifaces[j][k] \/ ifaces'[j][k] = e)
  BY <1>1 DEF p
<1>3. QED BY <1>2 DEF KidsKnown

\* Opening an interface; a child is opened for a controller of Kids.
LEMMA KidsOpened ==
  ASSUME TypeOK, KidsKnown(ifaces), NEW h, NEW g, HasIn(ifaces, made, h, g), NEW key,
         "child" \in key.attrs => key.controller \in Kids \ {NULL},
         ifaces' = Opened(h, g, key)
  PROVE  KidsKnown(ifaces')
<1> DEFINE e == Entry(h, g)
           o == e.opens
           t == Counted(o, key)
           r == [agent |-> key.agent, controller |-> key.controller,
                 attrs |-> key.attrs, count |-> 1]
           n == [e EXCEPT !.opens = t]
<1>1. h \in Handle /\ Position(ifaces, h, g) \in DOMAIN ifaces[h] /\ e = ifaces[h][Position(ifaces, h, g)]
      /\ e \in Iface
  BY HasEntry
<1>2. o \in Seq(Record) /\ KidsIn(o)
  BY <1>1 DEF Iface, KidsKnown
<1> HIDE DEF o
<1>3. Len(o) \in Nat /\ DOMAIN o = 1..Len(o) /\ \A m \in DOMAIN o : o[m] \in Record
  BY <1>2, LenProperties
<1>4. KidsIn(t)
  <2>1. CASE \E q \in ToSet(o) : KeyOf(q) = key
    <3>1. t = [k \in DOMAIN o |->
                 IF KeyOf(o[k]) = key THEN [o[k] EXCEPT !.count = @ + 1] ELSE o[k]]
      BY <2>1 DEF Counted
    <3>2. DOMAIN t = DOMAIN o /\ \A k \in DOMAIN o : t[k] = o[k] \/ t[k] = [o[k] EXCEPT !.count = @ + 1]
      BY <3>1
    <3> HIDE DEF t
    <3>3. \A k \in DOMAIN o : t[k].attrs = o[k].attrs /\ t[k].controller = o[k].controller
      BY <1>3, <3>2 DEF Record
    <3>4. QED BY <1>2, <3>2, <3>3 DEF KidsIn
  <2>2. CASE ~\E q \in ToSet(o) : KeyOf(q) = key
    <3>1. t = Append(o, r)
      BY <2>2 DEF Counted
    <3>2. r.attrs = key.attrs /\ r.controller = key.controller
      OBVIOUS
    <3> HIDE DEF t, r
    <3>3. \A k \in DOMAIN t : (k \in DOMAIN o /\ t[k] = o[k]) \/ t[k] = r
      BY <1>2, <3>1, Longer
    <3>4. QED BY <1>2, <3>2, <3>3 DEF KidsIn
  <2>3. QED BY <2>1, <2>2
<1>5. ifaces' = [ifaces EXCEPT ![h] = [@ EXCEPT ![Position(ifaces, h, g)] = n]]
  BY <1>1 DEF Opened, o
<1>6. n.opens = t
  BY <1>1 DEF Iface
<1> HIDE DEF n, t
<1>7. KidsIn(n.opens)
  BY <1>4, <1>6
<1>8. QED BY <1>5, <1>7, KidsRelisted

\* Records are taken away.
LEMMA KidsKept ==
  ASSUME TypeOK, KidsKnown(ifaces), NEW h, NEW g, HasIn(ifaces, made, h, g), NEW K, NEW e,
         e.opens = Kept(Entry(h, g).opens, K),
         ifaces' = [ifaces EXCEPT ![h] = [@ EXCEPT ![Position(ifaces, h, g)] = e]]
  PROVE  KidsKnown(ifaces')
<1> DEFINE o == Entry(h, g).opens
           t == Kept(o, K)
<1>1. o \in Seq(Record) /\ KidsIn(o)
  BY HasEntry DEF Iface, KidsKnown
<1> HIDE DEF o
<1>2. PICK p \in [DOMAIN t -> DOMAIN o] :
        /\ \A i \in DOMAIN t : p[i] \in K /\ t[i] = o[p[i]]
        /\ \A i, j \in DOMAIN t : p[i] = p[j] => i = j
  BY <1>1, KeptFacts
<1> HIDE DEF t
<1>3. KidsIn(t)
  BY <1>1, <1>2 DEF KidsIn
<1>4. QED BY <1>3, KidsRelisted DEF t, o

\* What closing does to the stack: walks and openers may lose their place.
LEMMA UnhookedIs ==
  ASSUME NEW s \in Seq(Frame), NEW h, NEW g, NEW freed
  PROVE  LET u == Unhooked(s, h, g, freed) IN
         /\ u \in Seq(Frame) /\ Len(u) = Len(s) /\ Len(s) \in Nat
         /\ DOMAIN u = 1..Len(s) /\ DOMAIN s = 1..Len(s)
         /\ \A i \in DOMAIN s :
              /\ u[i].op = s[i].op /\ u[i].fn = s[i].fn /\ u[i].h = s[i].h /\ u[i].ok = s[i].ok
              /\ s[i].op \notin {"open", "walk"} => u[i].cur = s[i].cur
              /\ u[i].cur = s[i].cur \/ (u[i].cur = Freed /\ s[i].cur \in {KeyOf(r) : r \in freed})
<1> DEFINE u == Unhooked(s, h, g, freed)
<1>1. /\ u \in Seq(Frame) /\ Len(u) = Len(s) /\ Len(s) \in Nat
      /\ DOMAIN u = 1..Len(s) /\ DOMAIN s = 1..Len(s) /\ \A i \in DOMAIN s : s[i] \in Frame
  BY Unhooking, LenProperties
<1>2. ASSUME NEW i \in DOMAIN s
      PROVE  /\ u[i].op = s[i].op /\ u[i].fn = s[i].fn /\ u[i].h = s[i].h /\ u[i].ok = s[i].ok
             /\ s[i].op \notin {"open", "walk"} => u[i].cur = s[i].cur
             /\ u[i].cur = s[i].cur \/ (u[i].cur = Freed /\ s[i].cur \in {KeyOf(r) : r \in freed})
  <2>1. \/ u[i] = s[i]
        \/ /\ u[i] = [s[i] EXCEPT !.cur = Freed] /\ s[i].op \in {"open", "walk"}
           /\ s[i].cur \in {KeyOf(r) : r \in freed}
    BY DEF Unhooked
  <2>2. s[i] \in Frame
    BY <1>1
  <2> HIDE DEF u
  <2>3. CASE u[i] = s[i]
    BY <2>3
  <2>4. CASE /\ u[i] = [s[i] EXCEPT !.cur = Freed] /\ s[i].op \in {"open", "walk"}
             /\ s[i].cur \in {KeyOf(r) : r \in freed}
    BY <2>2, <2>4 DEF Frame
  <2>5. QED BY <2>1, <2>3, <2>4
<1>3. QED BY <1>1, <1>2

\* No walk is at one of the records that are freed.
LEMMA SteadyUnhooked ==
  ASSUME NEW s \in Seq(Frame), NEW h, NEW g, NEW freed \in SUBSET Record, Steady(s),
         NoWalk(s) \/ \A r \in freed : "child" \in r.attrs => r.controller = NULL
  PROVE  Steady(Unhooked(s, h, g, freed))
<1> DEFINE u == Unhooked(s, h, g, freed)
<1>1. /\ DOMAIN u = DOMAIN s
      /\ \A i \in DOMAIN s :
           /\ u[i].op = s[i].op /\ u[i].fn = s[i].fn /\ u[i].h = s[i].h
           /\ s[i].op \notin {"open", "walk"} => u[i].cur = s[i].cur
           /\ u[i].cur = s[i].cur \/ (u[i].cur = Freed /\ s[i].cur \in {KeyOf(r) : r \in freed})
  BY UnhookedIs
<1> HIDE DEF u
<1>2. ASSUME NEW i \in DOMAIN s, s[i].op = "walk" PROVE u[i].cur = s[i].cur
  <2>1. AtChild(s[i])
    BY <1>2 DEF Steady
  <2>2. ASSUME NEW r \in freed, s[i].cur = KeyOf(r) PROVE FALSE
    <3>1. r.attrs = s[i].cur.attrs /\ r.controller = s[i].cur.controller /\ r.agent = s[i].cur.agent
      BY <2>2 DEF KeyOf, Key
    <3>2. "child" \in r.attrs => r.controller = NULL
      BY <1>2 DEF NoWalk
    <3>3. r.agent # NULL
      BY Numbers DEF Record
    <3>4. NoRecord.agent = NULL
      BY DEF NoRecord, Key
    <3>5. QED BY <2>1, <3>1, <3>2, <3>3, <3>4 DEF AtChild
  <2>3. QED BY <1>1, <2>2
<1>3. \A i \in DOMAIN s : Proper(u[i]) /\ u[i].op # "open"
  BY <1>1 DEF Steady, Proper
<1>4. \A i \in DOMAIN s : Inside(s[i]) => Inside(u[i])
  BY <1>1 DEF Inside
<1>5. \A i \in DOMAIN s : u[i].op = "walk" => AtChild(u[i])
  BY <1>1, <1>2 DEF Steady, AtChild
<1>6. Steady(u)
  BY <1>1, <1>3, <1>4, <1>5 DEF Steady
<1>7. QED BY <1>6 DEF u

\* CloseProtocol.  The records are those of a driver's binding, or there is no walk.
LEMMA CloseSteady ==
  ASSUME TypeOK, KidsKnown(ifaces), NEW s \in Seq(Frame), NEW h, NEW g, NEW a, NEW c,
         HasIn(ifaces, made, h, g), CloseAt(s, h, g, a, c)
  PROVE  /\ KidsKnown(ifaces')
         /\ Steady(s) /\ (c = NULL \/ NoWalk(s)) => Steady(stack')
         /\ \E freed \in SUBSET Record : stack' = Unhooked(s, h, g, freed)
<1> DEFINE e == Entry(h, g)
           o == e.opens
           closed == {k \in DOMAIN o : o[k].agent = a /\ o[k].controller = c}
           freed == {o[k] : k \in closed}
           p == Position(ifaces, h, g)
           n == [e EXCEPT !.opens = Kept(o, DOMAIN o \ closed)]
<1>1. h \in Handle /\ p \in DOMAIN ifaces[h] /\ e = ifaces[h][p] /\ e \in Iface
  BY HasEntry
<1>2. o \in Seq(Record)
  BY <1>1 DEF Iface
<1>3. \A k \in DOMAIN o : o[k] \in Record
  <2> HIDE DEF o
  <2>1. QED BY <1>2, LenProperties
<1>4. freed \in SUBSET Record /\ \A r \in freed : r.controller = c
  BY <1>3
<1>5. stack' = Unhooked(s, h, g, freed)
  BY DEF CloseAt
<1>6. n.opens = Kept(o, DOMAIN o \ closed)
  BY <1>1 DEF Iface
<1>7. ifaces' = [ifaces EXCEPT ![h] = [@ EXCEPT ![p] = n]]
  BY <1>1 DEF CloseAt
<1> HIDE DEF n, closed, freed
<1>8. KidsKnown(ifaces')
  BY <1>6, <1>7, KidsKept
<1>9. Steady(s) /\ (c = NULL \/ NoWalk(s)) => Steady(stack')
  BY <1>4, <1>5, SteadyUnhooked
<1>10. QED BY <1>4, <1>5, <1>8, <1>9

\* Two frames, one after the other
LEMMA TwoOn ==
  ASSUME NEW S, NEW s \in Seq(S), NEW e, NEW f
  PROVE  s \o <<e, f>> = Append(Append(s, e), f)
<1> DEFINE T == S \cup {e, f}
           t == Append(s, e)
           u == Append(t, f)
           v == s \o <<e, f>>
           n == Len(s)
<1>1. n \in Nat /\ s = [i \in 1..n |-> s[i]] /\ \A i \in 1..n : s[i] \in T
  BY LenProperties
<1>2. s \in Seq(T) /\ <<e, f>> \in Seq(T) /\ e \in T /\ f \in T /\ Len(<<e, f>>) = 2
  BY <1>1, IsASeq
<1> HIDE DEF T
<1>3. t \in Seq(T) /\ Len(t) = n + 1 /\ t[n + 1] = e /\ \A i \in 1..n : t[i] = s[i]
  BY <1>2, Appended
<1>4. u \in Seq(T) /\ Len(u) = n + 2 /\ u[n + 2] = f /\ \A i \in 1..(n + 1) : u[i] = t[i]
  <2> HIDE DEF t
  <2>1. /\ u \in Seq(T) /\ Len(u) = Len(t) + 1 /\ u[Len(t) + 1] = f
        /\ \A i \in 1..Len(t) : u[i] = t[i]
    BY <1>2, <1>3, Appended
  <2>2. (n + 1) + 1 = n + 2
    BY <1>1
  <2>3. QED BY <1>3, <2>1, <2>2
<1>5. /\ v \in Seq(T) /\ DOMAIN v = 1..(n + 2) /\ \A i \in 1..n : v[i] = s[i]
      /\ v[n + 1] = e /\ v[n + 2] = f
  BY <1>2, Concatenated
<1>6. Len(v) = n + 2
  BY <1>1, <1>5, LenProperties
<1> HIDE DEF u, v, t, n
<1>7. \A i \in 1..(n + 2) : i \in 1..n \/ i = n + 1 \/ i = n + 2
  BY <1>1
<1>8. \A i \in 1..n : i \in 1..(n + 1)
  BY <1>1
<1>9. n + 1 \in 1..(n + 1)
  BY <1>1
<1>10. \A i \in 1..(n + 2) : v[i] = u[i]
  BY <1>3, <1>4, <1>5, <1>7, <1>8, <1>9
<1>11. v = u
  BY <1>4, <1>5, <1>6, <1>10, SeqEqual
<1>12. QED BY <1>11 DEF u, v, t

\* Disconnecting all drivers
LEMMA DisconnectsAllSteady ==
  ASSUME NEW S, NEW s \in Seq(S), Steady(s), NoWalk(s), NEW h, NEW gs, NEW child,
         DisconnectAllAt(s, h, gs, child)
  PROVE  Steady(stack') /\ UNCHANGED ifaces
<1> DEFINE f == [F("disconnectAll") EXCEPT !.h = h, !.c = child, !.todo = Reverse(AgentsOf(h, gs))]
<1>1. UNCHANGED ifaces /\ (stack' = s \/ stack' = Append(s, f))
  BY DEF DisconnectAllAt, Return, Enter
<1>2. f.op = "disconnectAll"
  BY DEF F
<1> HIDE DEF f
<1>3. f.op # "open" /\ f.op # "walk" /\ Proper(f)
  BY <1>2 DEF Proper
<1>4. QED BY <1>1, <1>3, SteadyMore

\* Disconnecting one driver, or all of them
LEMMA DisconnectsOneSteady ==
  ASSUME TypeOK, KidsKnown(ifaces), NEW s \in Seq(Frame), Steady(s), NoWalk(s),
         NEW c, NEW d, NEW child, DisconnectAt(s, c, d, child)
  PROVE  Steady(stack') /\ KidsKnown(ifaces')
<1>1. CASE stack' = s /\ UNCHANGED ifaces
  BY <1>1
<1>2. CASE DisconnectAllAt(s, c, Guid, child)
  <2>1. Steady(stack') /\ ifaces' = ifaces
    BY <1>2, DisconnectsAllSteady
  <2>2. QED BY <2>1
<1>3. CASE Has(d, Binding) /\ CloseAt(s, d, Binding, d, NULL)
  <2>1. HasIn(ifaces, made, d, Binding)
    BY <1>3, Types
  <2>2. QED BY <1>3, <2>1, CloseSteady
<1>4. CASE /\ Has(d, Binding) /\ ifaces' = Opened(d, Binding, Key(d, NULL, {"get"}))
           /\ stack' = s \o <<[F("disconnect") EXCEPT !.h = c, !.d = d,
                                 !.pos = IF HasChildren(c, d) THEN 1 ELSE 2], Call("stop", c, d)>>
  <2> DEFINE e == [F("disconnect") EXCEPT !.h = c, !.d = d,
                     !.pos = IF HasChildren(c, d) THEN 1 ELSE 2]
             f == Call("stop", c, d)
             k == Key(d, NULL, {"get"})
  <2>1. HasIn(ifaces, made, d, Binding)
    BY <1>4, Types
  <2>2. "child" \notin k.attrs
    BY DEF Key
  <2> HIDE DEF k
  <2>3. KidsKnown(ifaces')
    BY <1>4, <2>1, <2>2, KidsOpened DEF k
  <2>4. e.op = "disconnect" /\ f.op = "call" /\ f.fn = "stop"
    BY DEF F, Call
  <2>5. stack' = Append(Append(s, e), f)
    BY <1>4, TwoOn
  <2> HIDE DEF e, f
  <2>6. Steady(Append(s, e)) /\ NoWalk(Append(s, e))
    BY <2>4, SteadyMore, NoWalkMore DEF Proper
  <2>7. Append(s, e) \in Seq(Frame \cup {e})
    BY Longer
  <2>8. Steady(Append(Append(s, e), f))
    BY <2>4, <2>6, <2>7, SteadyMore DEF Proper
  <2>9. QED BY <2>3, <2>5, <2>8
<1>5. QED BY <1>1, <1>2, <1>3, <1>4 DEF DisconnectAt, Return, Enter

\* Uninstalling an interface
LEMMA UninstallsSteady ==
  ASSUME NEW S, NEW s \in Seq(S), Steady(s), NoWalk(s), NEW h, NEW g, NEW i, UninstallAt(s, h, g, i)
  PROVE  Steady(stack') /\ UNCHANGED ifaces
<1> DEFINE f == [F("uninstall") EXCEPT !.h = h, !.g = g, !.i = i]
<1>1. \/ DisconnectAllAt(Append(s, f), h, {g}, NULL)
      \/ stack' = s /\ UNCHANGED ifaces
  BY DEF UninstallAt, Return
<1>2. f.op = "uninstall"
  BY DEF F
<1> HIDE DEF f
<1>3. Steady(Append(s, f)) /\ NoWalk(Append(s, f)) /\ Append(s, f) \in Seq(S \cup {f})
  BY <1>2, SteadyMore, NoWalkMore, Longer DEF Proper
<1>4. CASE DisconnectAllAt(Append(s, f), h, {g}, NULL)
  BY <1>3, <1>4, DisconnectsAllSteady
<1>5. QED BY <1>1, <1>4

\* Installing an interface: nobody has opened it.
LEMMA InstallsSteady ==
  ASSUME TypeOK, KidsKnown(ifaces), NEW S, NEW s \in Seq(S), Steady(s), NEW h \in Handle, NEW g, NEW i,
         InstallAt(s, h, g, i)
  PROVE  Steady(stack') /\ KidsKnown(ifaces')
<1> DEFINE f == [F("install") EXCEPT !.h = h, !.g = g, !.pos = 1]
           e == NewEntry(g, i)
<1>1. \/ ifaces' = [ifaces EXCEPT ![h] = Append(@, e)] /\ stack' = Append(s, f)
      \/ stack' = s /\ UNCHANGED ifaces
  BY DEF InstallAt, Return, Enter
<1>2. f.op = "install"
  BY DEF F
<1>3. e.opens = <<>>
  BY DEF NewEntry
<1> HIDE DEF e, f
<1>4. Steady(stack')
  BY <1>1, <1>2, SteadyMore DEF Proper, Inside
<1>5. CASE ifaces' = [ifaces EXCEPT ![h] = Append(@, e)]
  <2>1. ifaces \in [Handle -> Seq(Iface)] /\ ifaces[h] \in Seq(Iface)
    BY Types
  <2> DEFINE q == ifaces[h]
  <2>2. ifaces'[h] = Append(q, e) /\ \A j \in Handle : j # h => ifaces'[j] = ifaces[j]
    BY <1>5, <2>1
  <2> HIDE DEF q
  <2>3. \A k \in DOMAIN Append(q, e) : (k \in DOMAIN q /\ Append(q, e)[k] = q[k]) \/ Append(q, e)[k] = e
    BY <2>1, Longer DEF q
  <2>4. KidsIn(<<>>)
    BY DEF KidsIn
  <2>5. \A k \in DOMAIN ifaces'[h] : KidsIn(ifaces'[h][k].opens)
    BY <1>3, <2>2, <2>3, <2>4 DEF KidsKnown, q
  <2>6. KidsKnown(ifaces')
    BY <2>2, <2>5 DEF KidsKnown
  <2>7. QED BY <1>4, <2>6
<1>6. CASE UNCHANGED ifaces
  BY <1>4, <1>6
<1>7. QED BY <1>1, <1>4, <1>5, <1>6

\* Connecting a controller: a child's, if a walk does it
LEMMA ConnectsSteady ==
  ASSUME NEW S, NEW s \in Seq(S), Steady(s), NEW c, c \in Kids \/ NoWalk(s),
         NEW recursive, NEW end, ConnectAt(s, c, recursive, end)
  PROVE  Steady(stack') /\ UNCHANGED ifaces
<1> DEFINE f == [F("connect") EXCEPT
                   !.h = c, !.todo = LocateHandle(Binding), !.ok = end,
                   !.pos = IF recursive THEN 1 ELSE 0, !.st = IF end THEN "success" ELSE "none"]
<1>1. UNCHANGED ifaces /\ (stack' = s \/ stack' = Append(s, f))
  BY DEF ConnectAt, Return, Enter
<1>2. f.op = "connect" /\ f.h = c /\ f.cur = NoRecord
  BY DEF F
<1> HIDE DEF f
<1>3. Proper(f) /\ (c \in Kids => Inside(f))
  BY <1>2 DEF Proper, Inside
<1>4. QED BY <1>1, <1>2, <1>3, SteadyMore

-----------------------------------------------------------------------------
(* Walks: the steps                                                        *)

\* No exclusive opener is at work unless it, or the driver it disconnects, has
\* the processor.
LEMMA SteadyUnless ==
  ASSUME DatabaseInv, WalkInv, stack # <<>>, Top.op \notin {"open", "disconnect"},
         ~(Top.op = "call" /\ Top.fn = "stop")
  PROVE  /\ Steady(stack) /\ TypeOK /\ Sound(ifaces) /\ KidsKnown(ifaces)
         /\ stack \in Seq(Frame) /\ Front(stack) \in Seq(Frame) /\ Top \in Frame
<1>1. /\ TypeOK /\ Sound(ifaces) /\ KidsKnown(ifaces) /\ stack \in Seq(Frame)
      /\ Front(stack) \in Seq(Frame) /\ Top \in Frame
  BY Before, Below DEF WalkInv
<1>2. QED BY <1>1 DEF WalkInv, Asking, Top, OpenerAt

\* Nor is there a walk in progress while one of these services goes on.
LEMMA BareUnless ==
  ASSUME DatabaseInv, WalkInv,
         NEW op \in {"multi", "rollback", "reinstall", "uninstall", "disconnectAll"}, Running(op)
  PROVE  /\ Steady(stack) /\ NoWalk(stack) /\ TypeOK /\ Sound(ifaces) /\ KidsKnown(ifaces)
         /\ stack \in Seq(Frame) /\ Front(stack) \in Seq(Frame) /\ Top \in Frame
         /\ Top.op = op /\ stack # <<>> /\ Steady(Front(stack)) /\ NoWalk(Front(stack))
<1>1. stack # <<>> /\ Top.op = op
  BY DEF Running
<1>2. /\ Steady(stack) /\ TypeOK /\ Sound(ifaces) /\ KidsKnown(ifaces)
      /\ stack \in Seq(Frame) /\ Front(stack) \in Seq(Frame) /\ Top \in Frame
  BY <1>1, SteadyUnless
<1>3. ~Inside(Top) /\ Top.op # "walk"
  BY <1>1 DEF Inside
<1>4. NoWalk(stack)
  BY <1>1, <1>2, <1>3, SteadyFront
<1>5. Steady(Front(stack)) /\ NoWalk(Front(stack))
  BY <1>1, <1>2, <1>4, SteadyFront, NoWalkReplace
<1>6. QED BY <1>1, <1>2, <1>4, <1>5

\* Who calls which service
LEMMA Callers ==
  ASSUME DatabaseInv, WalkInv, OrderlyDrivers, NEW service \in ServiceName, Client(service)
  PROVE  /\ stack # <<>> => Top.op = "call" /\ Top \in Frame
         /\ service = "Close" /\ stack # <<>> => Top.fn = "stop"
         /\ service \notin {"Close", "Exit"} => Steady(stack)
         /\ service = "Open" /\ stack # <<>> => Top.fn = "start"
         /\ service \notin {"Open", "Close", "Install", "Register", "StartImage", "Exit"} => stack = <<>>
         /\ stack = <<>> => NoWalk(stack)
         /\ TypeOK /\ Sound(ifaces) /\ KidsKnown(ifaces) /\ stack \in Seq(Frame)
<1>1. TypeOK /\ Sound(ifaces) /\ KidsKnown(ifaces) /\ stack \in Seq(Frame)
  BY Before DEF WalkInv
<1>2. stack # <<>> => Top.op = "call" /\ Top.fn \in Function /\ service \in May[Top.fn] /\ Top \in Frame
  BY <1>1, Clients, Below
<1>3. stack # <<>> /\ Top.fn # "stop" => Steady(stack)
  BY <1>2, SteadyUnless
<1>4. stack # <<>> => Top.fn # "main"
  BY <1>1, <1>2, <1>3, SteadyFront DEF Proper
<1>5. stack = <<>> => Steady(stack) /\ NoWalk(stack)
  BY DEF Steady, NoWalk
<1>6. stack # <<>> /\ Top.fn = "stop" => service \in {"Close", "Exit"}
  BY <1>2 DEF OrderlyDrivers
<1>7. stack # <<>> /\ Top.fn = "start" =>
        service \in {"Open", "Install", "Register", "StartImage", "Exit"}
  BY <1>2 DEF OrderlyDrivers
<1>8. stack # <<>> /\ Top.fn \in {"supported", "notify", "image"} =>
        service \in {"Install", "Register", "StartImage", "Exit"}
  BY <1>2 DEF OrderlyDrivers
<1>9. stack # <<>> => Top.fn \in {"supported", "start", "stop", "notify", "image"}
  BY <1>2, <1>4 DEF Function
<1>10. QED BY <1>1, <1>2, <1>3, <1>5, <1>6, <1>7, <1>8, <1>9

\* A call that answers at once
LEMMA AnswerWalk ==
  ASSUME DatabaseInv, WalkInv, OrderlyDrivers, NEW service \in ServiceName, Client(service),
         UNCHANGED <<ifaces, stack>>
  PROVE  WalkInv'
<1>1. KidsKnown(ifaces) /\ stack \in Seq(Frame)
  BY Before DEF WalkInv
<1>2. CASE Steady(stack)
  BY <1>1, <1>2 DEF WalkInv
<1>3. CASE Asking(stack, ret)
  <2>1. stack # <<>>
    BY <1>3 DEF Asking, OpenerAt
  <2>2. Top.op = "call"
    BY <2>1, Callers
  <2>3. Asking(stack, ret')
    BY <1>3, <2>2 DEF Asking, Top, OpenerAt
  <2>4. QED BY <1>1, <2>3 DEF WalkInv
<1>4. QED BY <1>2, <1>3 DEF WalkInv

\* InstallProtocolInterface
LEMMA InstallWalk ==
  ASSUME DatabaseInv, WalkInv, OrderlyDrivers, NEW a \in Installs, InstallProtocolInterface(a)
  PROVE  WalkInv'
<1>1. Client("Install") /\ MakesTarget(a.handle)
  BY DEF InstallProtocolInterface
<1>2. Steady(stack) /\ TypeOK /\ KidsKnown(ifaces) /\ stack \in Seq(Frame)
  BY <1>1, Callers DEF ServiceName
<1>3. CASE InstallAt(stack, Target(a.handle), a.guid, a.intf)
  <2>1. Target(a.handle) \in Handle
    BY <1>1 DEF MakesTarget
  <2>2. QED BY <1>2, <1>3, <2>1, InstallsSteady DEF WalkInv
<1>4. CASE stack' = stack /\ UNCHANGED ifaces
  BY <1>2, <1>4 DEF WalkInv
<1>5. QED BY <1>3, <1>4 DEF InstallProtocolInterface, Return

\* Notify
LEMMA NotifyWalk ==
  ASSUME DatabaseInv, WalkInv, Notify
  PROVE  WalkInv'
<1> DEFINE rest == {k \in DOMAIN notifies : k >= Top.pos /\ notifies[k].guid = Top.g}
           f == [Top EXCEPT !.pos = Min(rest) + 1]
           w == Append(Front(stack), f)
           c == Call("notify", NULL, NULL)
<1>1. stack # <<>> /\ Top.op = "install" /\ UNCHANGED ifaces
  BY DEF Notify, Running
<1>2. Steady(stack) /\ KidsKnown(ifaces) /\ stack \in Seq(Frame) /\ Front(stack) \in Seq(Frame) /\ Top \in Frame
  BY <1>1, SteadyUnless
<1>3. stack' = Front(stack) \/ stack' = w \/ stack' = Append(w, c)
  BY DEF Notify, Return, Enter, Replace
<1>4. f.op = "install"
  BY <1>1, <1>2 DEF Frame
<1>5. c.op = "call" /\ c.fn = "notify"
  BY DEF Call, F
<1> HIDE DEF f, c
<1>6. Steady(Front(stack))
  BY <1>1, <1>2, SteadyFront
<1>7. Steady(w) /\ w \in Seq(Frame \cup {f})
  BY <1>2, <1>4, <1>6, SteadyMore, Longer DEF Proper, Inside
<1>8. Steady(Append(w, c))
  <2> HIDE DEF w
  <2>1. QED BY <1>5, <1>7, SteadyMore DEF Proper, Inside
<1>9. Steady(stack') /\ KidsKnown(ifaces')
  BY <1>1, <1>2, <1>3, <1>6, <1>7, <1>8
<1>10. QED BY <1>9 DEF WalkInv

\* StartImage
LEMMA StartImageWalk ==
  ASSUME DatabaseInv, WalkInv, OrderlyDrivers, StartImage
  PROVE  WalkInv'
<1> DEFINE f == Call("image", NULL, NULL)
<1>1. Client("StartImage") /\ UNCHANGED ifaces /\ stack' = Append(stack, f)
  BY DEF StartImage, Enter
<1>2. Steady(stack) /\ KidsKnown(ifaces) /\ stack \in Seq(Frame)
  BY <1>1, Callers DEF ServiceName
<1>3. f.op = "call" /\ f.fn = "image"
  BY DEF Call, F
<1> HIDE DEF f
<1>4. Steady(Append(stack, f))
  BY <1>2, <1>3, SteadyMore DEF Proper, Inside
<1>5. QED BY <1>1, <1>2, <1>4 DEF WalkInv

\* Exit: there is no image above an exclusive opener, so none is left.
LEMMA ExitWalk ==
  ASSUME DatabaseInv, WalkInv, Exit
  PROVE  WalkInv'
<1>1. KidsKnown(ifaces) /\ UNCHANGED ifaces /\ stack \in Seq(Frame)
      /\ Len(stack) \in Nat /\ DOMAIN stack = 1..Len(stack)
  BY Before, LenProperties DEF WalkInv, Exit
<1>2. PICK n \in 0..Len(stack) :
        stack' = SubSeq(stack, 1, n) /\ (n = 0 \/ (n < Len(stack) /\ IsImage(stack[n + 1])))
  BY DEF Exit, Return
<1>3. /\ DOMAIN stack' = 1..n
      /\ \A i \in DOMAIN stack' : i \in DOMAIN stack /\ stack'[i] = stack[i] /\ i <= n
  <2>1. /\ stack' \in Seq(Frame) /\ Len(stack') = n
        /\ \A i \in 1..n : stack'[i] = stack[i]
    BY <1>1, <1>2, PrefixFacts
  <2>2. DOMAIN stack' = 1..n
    BY <2>1, LenProperties
  <2>3. QED BY <1>1, <1>2, <2>1, <2>2
<1>4. Steady(stack')
  <2>1. CASE Steady(stack)
    BY <1>3, <2>1 DEF Steady
  <2>2. CASE ~Steady(stack)
    <3>1. PICK i \in DOMAIN stack :
            /\ OpenerAt(stack, i)
            /\ \A j \in DOMAIN stack : j >= i => ~IsImage(stack[j])
      <4>1. CASE OpenerAt(stack, Len(stack))
        <5>1. \A j \in DOMAIN stack : j >= Len(stack) => j = Len(stack)
          BY <1>1
        <5>2. QED BY <4>1, <5>1 DEF OpenerAt, IsImage
      <4>2. CASE OpenerAt(stack, Len(stack) - 1) /\ stack[Len(stack)].op = "disconnect"
        <5>1. \A j \in DOMAIN stack : j >= Len(stack) - 1 => j = Len(stack) \/ j = Len(stack) - 1
          BY <1>1
        <5>2. QED BY <4>2, <5>1 DEF OpenerAt, IsImage
      <4>3. CASE /\ OpenerAt(stack, Len(stack) - 2) /\ stack[Len(stack) - 1].op = "disconnect"
                 /\ stack[Len(stack)].op = "call" /\ stack[Len(stack)].fn = "stop"
        <5>1. \A j \in DOMAIN stack : j >= Len(stack) - 2 =>
                j = Len(stack) \/ j = Len(stack) - 1 \/ j = Len(stack) - 2
          BY <1>1
        <5>2. QED BY <4>3, <5>1 DEF OpenerAt, IsImage
      <4>4. QED BY <2>2, <4>1, <4>2, <4>3 DEF WalkInv, Asking
    <3>2. n = 0 \/ n + 1 < i
      BY <1>1, <1>2, <3>1
    <3>3. \A j \in DOMAIN stack' : j < i
      BY <1>1, <1>2, <1>3, <3>1, <3>2
    <3>4. QED BY <1>3, <3>1, <3>3 DEF OpenerAt, Steady
  <2>3. QED BY <2>1, <2>2
<1>5. QED BY <1>1, <1>4 DEF WalkInv

\* InstallMultiple, and the main program's other calls
LEMMA MainWalk ==
  ASSUME DatabaseInv, WalkInv, OrderlyDrivers,
         \/ \E a \in InstallLists : InstallMultiple(a)
         \/ \E h, g, i, n : UninstallProtocolInterface(h, g, i) \/ ReinstallProtocolInterface(h, g, i, n)
         \/ \E a \in Connects : ConnectController(a)
         \/ \E a \in Disconnects : DisconnectController(a)
  PROVE  WalkInv'
<1>1. \E s \in {"InstallMultiple", "Uninstall", "Reinstall", "Connect", "Disconnect"} : Client(s)
  BY DEF InstallMultiple, UninstallProtocolInterface, ReinstallProtocolInterface,
         ConnectController, DisconnectController
<1>2. /\ stack = <<>> /\ Steady(stack) /\ NoWalk(stack) /\ TypeOK /\ KidsKnown(ifaces)
      /\ stack \in Seq(Frame)
  BY <1>1, Callers DEF ServiceName
<1>3. ASSUME NEW a \in InstallLists, InstallMultiple(a) PROVE WalkInv'
  <2> DEFINE f == [F("multi") EXCEPT !.h = Target(a.handle), !.pairs = a.pairs, !.pos = 1]
  <2>1. UNCHANGED ifaces /\ (stack' = stack \/ stack' = Append(stack, f))
    BY <1>3 DEF InstallMultiple, Return, Enter
  <2>2. f.op = "multi"
    BY DEF F
  <2> HIDE DEF f
  <2>3. Steady(Append(stack, f))
    BY <1>2, <2>2, SteadyMore DEF Proper
  <2>4. QED BY <1>2, <2>1, <2>3 DEF WalkInv
<1>4. ASSUME NEW h, NEW g, NEW i, UninstallProtocolInterface(h, g, i) PROVE WalkInv'
  <2>1. UninstallAt(stack, h, g, i)
    BY <1>4 DEF UninstallProtocolInterface
  <2>2. Steady(stack') /\ ifaces' = ifaces
    BY <1>2, <2>1, UninstallsSteady
  <2>3. QED BY <1>2, <2>2 DEF WalkInv
<1>5. ASSUME NEW h, NEW g, NEW i, NEW n, ReinstallProtocolInterface(h, g, i, n) PROVE WalkInv'
  <2> DEFINE f == [F("reinstall") EXCEPT !.h = h, !.g = g, !.i = n, !.pos = 1]
  <2>1. UninstallAt(Append(stack, f), h, g, i)
    BY <1>5 DEF ReinstallProtocolInterface
  <2>2. f.op = "reinstall"
    BY DEF F
  <2> HIDE DEF f
  <2>3. Steady(Append(stack, f)) /\ NoWalk(Append(stack, f)) /\ Append(stack, f) \in Seq(Frame \cup {f})
    BY <1>2, <2>2, SteadyMore, NoWalkMore, Longer DEF Proper
  <2>4. Steady(stack') /\ ifaces' = ifaces
    BY <2>1, <2>3, UninstallsSteady
  <2>5. QED BY <1>2, <2>4 DEF WalkInv
<1>6. ASSUME NEW a \in Connects, ConnectController(a) PROVE WalkInv'
  <2>1. ConnectAt(stack, a.controller, a.recursive, a.end)
    BY <1>6 DEF ConnectController
  <2>2. Steady(stack') /\ ifaces' = ifaces
    BY <1>2, <2>1, ConnectsSteady
  <2>3. QED BY <1>2, <2>2 DEF WalkInv
<1>7. ASSUME NEW a \in Disconnects, DisconnectController(a) PROVE WalkInv'
  <2>1. DisconnectAt(stack, a.controller, a.driver, a.child)
    BY <1>7 DEF DisconnectController
  <2>2. Steady(stack') /\ KidsKnown(ifaces')
    BY <1>2, <2>1, DisconnectsOneSteady
  <2>3. QED BY <2>2 DEF WalkInv
<1>8. QED BY <1>3, <1>4, <1>5, <1>6, <1>7

\* InstallNext
LEMMA MultipleWalk ==
  ASSUME DatabaseInv, WalkInv, InstallNext
  PROVE  WalkInv'
<1>1. Running("multi")
  BY DEF InstallNext
<1>2. /\ Steady(stack) /\ NoWalk(stack) /\ TypeOK /\ KidsKnown(ifaces)
      /\ stack \in Seq(Frame) /\ Front(stack) \in Seq(Frame) /\ Top \in Frame
      /\ Top.op = "multi" /\ stack # <<>> /\ Steady(Front(stack)) /\ NoWalk(Front(stack))
  BY <1>1, BareUnless
<1>3. CASE ret \notin {"none", "success"}
  <2> DEFINE f == [Top EXCEPT !.op = "rollback", !.pos = 1, !.st = ret]
  <2>1. stack' = Append(Front(stack), f) /\ UNCHANGED ifaces
    BY <1>3 DEF InstallNext, Replace, Enter
  <2>2. f.op = "rollback"
    BY <1>2 DEF Frame
  <2> HIDE DEF f
  <2>3. Steady(stack')
    BY <1>2, <2>1, <2>2, SteadyMore DEF Proper
  <2>4. QED BY <1>2, <2>1, <2>3 DEF WalkInv
<1>4. CASE ret \in {"none", "success"} /\ Top.pos > Len(Top.pairs)
  <2>1. stack' = Front(stack) /\ UNCHANGED ifaces
    BY <1>4 DEF InstallNext, Return
  <2>2. QED BY <1>2, <2>1 DEF WalkInv
<1>5. CASE ret \in {"none", "success"} /\ ~(Top.pos > Len(Top.pairs))
  <2> DEFINE f == [Top EXCEPT !.pos = @ + 1]
             p == Top.pairs[Top.pos]
  <2>1. InstallAt(Append(Front(stack), f), Top.h, p.guid, p.intf)
    BY <1>5 DEF InstallNext, Replace
  <2>2. f.op = "multi"
    BY <1>2 DEF Frame
  <2>3. Top.h \in Handle
    BY <1>1, <1>2, Inner, Types DEF GoodIn, Valid
  <2> HIDE DEF f, p
  <2>4. Steady(Append(Front(stack), f)) /\ Append(Front(stack), f) \in Seq(Frame \cup {f})
    BY <1>2, <2>2, SteadyMore, Longer DEF Proper
  <2>5. Steady(stack') /\ KidsKnown(ifaces')
    BY <1>2, <2>1, <2>3, <2>4, InstallsSteady
  <2>6. QED BY <2>5 DEF WalkInv
<1>6. QED BY <1>3, <1>4, <1>5

\* RollBack
LEMMA RollBackWalk ==
  ASSUME DatabaseInv, WalkInv, RollBack
  PROVE  WalkInv'
<1>1. Running("rollback")
  BY DEF RollBack
<1>2. /\ Steady(stack) /\ NoWalk(stack) /\ TypeOK /\ KidsKnown(ifaces)
      /\ stack \in Seq(Frame) /\ Front(stack) \in Seq(Frame) /\ Top \in Frame
      /\ Top.op = "rollback" /\ stack # <<>> /\ Steady(Front(stack)) /\ NoWalk(Front(stack))
  BY <1>1, BareUnless
<1>3. CASE Top.pos > Len(Top.pairs)
  <2>1. stack' = Front(stack) /\ UNCHANGED ifaces
    BY <1>3 DEF RollBack, Return
  <2>2. QED BY <1>2, <2>1 DEF WalkInv
<1>4. CASE ~(Top.pos > Len(Top.pairs))
  <2> DEFINE f == [Top EXCEPT !.pos = @ + 1]
             p == Top.pairs[Top.pos]
  <2>1. UninstallAt(Append(Front(stack), f), Top.h, p.guid, p.intf)
    BY <1>4 DEF RollBack, Replace
  <2>2. f.op = "rollback"
    BY <1>2 DEF Frame
  <2> HIDE DEF f, p
  <2>3. /\ Steady(Append(Front(stack), f)) /\ NoWalk(Append(Front(stack), f))
        /\ Append(Front(stack), f) \in Seq(Frame \cup {f})
    BY <1>2, <2>2, SteadyMore, NoWalkMore, Longer DEF Proper
  <2>4. Steady(stack') /\ ifaces' = ifaces
    BY <2>1, <2>3, UninstallsSteady
  <2>5. QED BY <1>2, <2>4 DEF WalkInv
<1>5. QED BY <1>3, <1>4

\* ReinstallNext
LEMMA ReinstallWalk ==
  ASSUME DatabaseInv, WalkInv, ReinstallNext
  PROVE  WalkInv'
<1>1. Running("reinstall")
  BY DEF ReinstallNext
<1>2. /\ Steady(stack) /\ NoWalk(stack) /\ TypeOK /\ KidsKnown(ifaces)
      /\ stack \in Seq(Frame) /\ Front(stack) \in Seq(Frame) /\ Top \in Frame
      /\ Top.op = "reinstall" /\ stack # <<>> /\ Steady(Front(stack)) /\ NoWalk(Front(stack))
  BY <1>1, BareUnless
<1>3. CASE stack' = Front(stack) /\ UNCHANGED ifaces
  BY <1>2, <1>3 DEF WalkInv
<1>4. ASSUME NEW n \in {2, 3} PROVE
        LET t == Append(Front(stack), [Top EXCEPT !.pos = n])
        IN  Steady(t) /\ NoWalk(t) /\ t \in Seq(Frame \cup {[Top EXCEPT !.pos = n]})
  <2> DEFINE f == [Top EXCEPT !.pos = n]
  <2>1. f.op = "reinstall"
    BY <1>2 DEF Frame
  <2> HIDE DEF f
  <2>2. /\ Steady(Append(Front(stack), f)) /\ NoWalk(Append(Front(stack), f))
        /\ Append(Front(stack), f) \in Seq(Frame \cup {f})
    BY <1>2, <2>1, SteadyMore, NoWalkMore, Longer DEF Proper
  <2>3. QED BY <2>2 DEF f
<1>5. CASE ~(stack' = Front(stack) /\ UNCHANGED ifaces)
  <2>1. /\ ret = "success"
        /\ \/ ConnectAt(Append(Front(stack), [Top EXCEPT !.pos = 3]), Top.h, TRUE, FALSE)
           \/ InstallAt(Append(Front(stack), [Top EXCEPT !.pos = 2]), Top.h, Top.g, Top.i)
    BY <1>5 DEF ReinstallNext, Return, Replace
  <2>2. CASE ConnectAt(Append(Front(stack), [Top EXCEPT !.pos = 3]), Top.h, TRUE, FALSE)
    <3> DEFINE t == Append(Front(stack), [Top EXCEPT !.pos = 3])
    <3>1. Steady(t) /\ NoWalk(t) /\ t \in Seq(Frame \cup {[Top EXCEPT !.pos = 3]})
      BY <1>4
    <3>2. ConnectAt(t, Top.h, TRUE, FALSE)
      BY <2>2
    <3> HIDE DEF t
    <3>3. Steady(stack') /\ ifaces' = ifaces
      BY <3>1, <3>2, ConnectsSteady
    <3>4. QED BY <1>2, <3>3 DEF WalkInv
  <2>3. CASE InstallAt(Append(Front(stack), [Top EXCEPT !.pos = 2]), Top.h, Top.g, Top.i)
    <3> DEFINE t == Append(Front(stack), [Top EXCEPT !.pos = 2])
    <3>1. Steady(t) /\ t \in Seq(Frame \cup {[Top EXCEPT !.pos = 2]})
      BY <1>4
    <3>2. InstallAt(t, Top.h, Top.g, Top.i)
      BY <2>3
    <3>3. Top.h \in Handle
      BY <1>1, <1>2, <2>1, Inner, Types
    <3> HIDE DEF t
    <3>4. Steady(stack') /\ KidsKnown(ifaces')
      BY <1>2, <3>1, <3>2, <3>3, InstallsSteady
    <3>5. QED BY <3>4 DEF WalkInv
  <2>4. QED BY <2>1, <2>2, <2>3
<1>6. QED BY <1>3, <1>5

\* UninstallEnds
LEMMA UninstallWalk ==
  ASSUME DatabaseInv, WalkInv, UninstallEnds
  PROVE  WalkInv'
<1>1. Running("uninstall")
  BY DEF UninstallEnds
<1>2. /\ Steady(stack) /\ NoWalk(stack) /\ TypeOK /\ KidsKnown(ifaces)
      /\ stack \in Seq(Frame) /\ Front(stack) \in Seq(Frame) /\ Top \in Frame
      /\ Top.op = "uninstall" /\ stack # <<>> /\ Steady(Front(stack)) /\ NoWalk(Front(stack))
  BY <1>1, BareUnless
<1> DEFINE e == Entry(Top.h, Top.g)
           light == {k \in DOMAIN e.opens : e.opens[k].attrs \in {{"handle"}, {"get"}, {"test"}}}
           n == [e EXCEPT !.opens = Kept(e.opens, DOMAIN e.opens \ light), !.freed = 1 \in light]
           freed == {e.opens[k] : k \in light}
<1>3. CASE stack' = Front(stack) /\ UNCHANGED ifaces
  BY <1>2, <1>3 DEF WalkInv
<1>4. CASE ~(stack' = Front(stack) /\ UNCHANGED ifaces)
  <2>1. /\ ifaces' = [ifaces EXCEPT ![Top.h][Position(ifaces, Top.h, Top.g)] = n]
        /\ stack' = Unhooked(Front(stack), Top.h, Top.g, freed)
    BY <1>4 DEF UninstallEnds, Return
  <2>2. HasIn(ifaces, made, Top.h, Top.g)
    BY <1>1, <1>2, Inner DEF GoodIn
  <2>3. e \in Iface
    BY <1>2, <2>2, HasEntry
  <2>4. e.opens \in Seq(Record)
    BY <2>3 DEF Iface
  <2>5. n.opens = Kept(e.opens, DOMAIN e.opens \ light)
    BY <2>3 DEF Iface
  <2>6. freed \in SUBSET Record
    <3> DEFINE o == e.opens
    <3>1. o \in Seq(Record)
      BY <2>4
    <3> HIDE DEF o
    <3>2. \A k \in DOMAIN o : o[k] \in Record
      BY <3>1, LenProperties
    <3>3. QED BY <3>2 DEF o
  <2> HIDE DEF n, freed, light
  <2>7. ifaces' = [ifaces EXCEPT ![Top.h] = [@ EXCEPT ![Position(ifaces, Top.h, Top.g)] = n]]
    BY <2>1
  <2>8. KidsKnown(ifaces')
    BY <1>2, <2>2, <2>5, <2>7, KidsKept
  <2>9. Steady(stack')
    BY <1>2, <2>1, <2>6, SteadyUnhooked
  <2>10. QED BY <2>8, <2>9 DEF WalkInv
<1>5. QED BY <1>3, <1>4

\* DisconnectAllNext
LEMMA DisconnectAllWalk ==
  ASSUME DatabaseInv, WalkInv, DisconnectAllNext
  PROVE  WalkInv'
<1>1. Running("disconnectAll")
  BY DEF DisconnectAllNext
<1>2. /\ Steady(stack) /\ NoWalk(stack) /\ TypeOK /\ KidsKnown(ifaces)
      /\ stack \in Seq(Frame) /\ Front(stack) \in Seq(Frame) /\ Top \in Frame /\ ret \in Status
      /\ Top.op = "disconnectAll" /\ stack # <<>> /\ Steady(Front(stack)) /\ NoWalk(Front(stack))
  BY <1>1, BareUnless, Types
<1>3. CASE Top.todo = <<>>
  <2>1. stack' = Front(stack) /\ UNCHANGED ifaces
    BY <1>3 DEF DisconnectAllNext, Return
  <2>2. QED BY <1>2, <2>1 DEF WalkInv
<1>4. CASE Top.todo # <<>>
  <2> DEFINE ok == Top.ok \/ ret = "success"
             f == [Top EXCEPT !.todo = Tail(@), !.ok = ok]
  <2>1. DisconnectAt(Append(Front(stack), f), Top.h, Head(Top.todo), Top.c)
    BY <1>4 DEF DisconnectAllNext, Replace
  <2>2. Tail(Top.todo) \in Seq(Handle)
    BY <1>2, <1>4, HeadAndTail DEF Frame
  <2>3. f \in Frame /\ f.op = "disconnectAll"
    <3>1. ok \in BOOLEAN
      BY <1>2 DEF Frame
    <3> HIDE DEF ok
    <3>2. QED BY <1>2, <2>2, <3>1 DEF Frame
  <2> HIDE DEF f
  <2>4. Append(Front(stack), f) \in Seq(Frame)
    BY <1>2, <2>3, Appended
  <2>5. Steady(Append(Front(stack), f)) /\ NoWalk(Append(Front(stack), f))
    BY <1>2, <2>3, SteadyMore, NoWalkMore DEF Proper
  <2>6. Steady(stack') /\ KidsKnown(ifaces')
    BY <1>2, <2>1, <2>4, <2>5, DisconnectsOneSteady
  <2>7. QED BY <2>6 DEF WalkInv
<1>5. QED BY <1>3, <1>4

\* ConnectNext
LEMMA ConnectWalk ==
  ASSUME DatabaseInv, WalkInv, ConnectNext
  PROVE  WalkInv'
<1> DEFINE ok == Top.ok \/ ret = "success"
<1>1. Running("connect") /\ stack # <<>> /\ Top.op = "connect"
  BY DEF ConnectNext, Running
<1>2. /\ Steady(stack) /\ TypeOK /\ KidsKnown(ifaces)
      /\ stack \in Seq(Frame) /\ Front(stack) \in Seq(Frame) /\ Top \in Frame
  BY <1>1, SteadyUnless
<1>3. Steady(Front(stack)) /\ Top.cur = NoRecord /\ (Top.h \in Kids \/ NoWalk(stack)) /\ ok \in BOOLEAN
  BY <1>1, <1>2, SteadyFront DEF Proper, Inside, Frame
<1>4. CASE Top.todo # <<>>
  <2> DEFINE d == Head(Top.todo)
             f == [Top EXCEPT !.todo = Tail(@), !.ok = ok]
             e == [F("bind") EXCEPT !.h = Top.h, !.d = d, !.pos = 1]
             c == Call("supported", Top.h, d)
             k == Key(d, NULL, {"get"})
             t == Append(Front(stack), f)
             u == Append(t, e)
  <2>1. ifaces' = Opened(d, Binding, k) /\ stack' = t \o <<e, c>>
    BY <1>4 DEF ConnectNext, Replace, Enter
  <2>2. Tail(Top.todo) \in Seq(Handle) /\ d \in ToSet(Top.todo)
    BY <1>2, <1>4, HeadAndTail DEF Frame
  <2>3. HasIn(ifaces, made, d, Binding)
    BY <1>1, <2>2, Inner DEF GoodIn
  <2>4. "child" \notin k.attrs
    BY DEF Key
  <2>5. f \in Frame /\ f.op = "connect" /\ f.h = Top.h /\ f.cur = NoRecord
    <3> HIDE DEF ok
    <3>1. QED BY <1>1, <1>2, <1>3, <2>2 DEF Frame
  <2>6. e.op = "bind" /\ e.h = Top.h /\ c.op = "call" /\ c.fn = "supported"
    BY DEF F, Call
  <2> HIDE DEF d, f, e, c, k
  <2>7. KidsKnown(ifaces')
    BY <1>2, <2>1, <2>3, <2>4, KidsOpened
  <2>8. Proper(f) /\ Proper(e) /\ Proper(c) /\ Inside(c) /\ (Top.h \in Kids => Inside(f) /\ Inside(e))
    BY <2>5, <2>6 DEF Proper, Inside
  <2>9. Inside(Top) => Inside(f)
    BY <1>1, <2>8 DEF Inside
  <2>10. t \in Seq(Frame) /\ Steady(t)
    BY <1>1, <1>2, <2>5, <2>8, <2>9, SteadyReplace
  <2>11. Top.h \in Kids \/ NoWalk(t)
    BY <1>1, <1>2, <1>3, <2>5, NoWalkReplace
  <2>12. stack' = Append(u, c)
    <3> HIDE DEF t
    <3>1. QED BY <2>1, <2>10, TwoOn
  <2> HIDE DEF t
  <2>13. Steady(u) /\ u \in Seq(Frame \cup {e})
    BY <2>6, <2>8, <2>10, <2>11, SteadyMore, Longer
  <2> HIDE DEF u
  <2>14. Steady(Append(u, c))
    BY <2>6, <2>8, <2>13, SteadyMore
  <2>15. QED BY <2>7, <2>12, <2>14 DEF WalkInv
<1>5. CASE Top.todo = <<>> /\ Top.pos = 1
  <2> DEFINE f == [Top EXCEPT !.op = "walk", !.pos = 0, !.ok = ok]
  <2>1. stack' = Append(Front(stack), f) /\ UNCHANGED ifaces
    BY <1>5 DEF ConnectNext, Replace, Enter
  <2>2. f \in Frame /\ f.op = "walk" /\ f.h = Top.h /\ f.cur = NoRecord
    <3> HIDE DEF ok
    <3>1. QED BY <1>2, <1>3, ZenonT(60) DEF Frame
  <2> HIDE DEF f
  <2>3. AtChild(f) /\ Proper(f) /\ (Inside(Top) => Inside(f))
    BY <1>1, <2>2 DEF AtChild, Proper, Inside
  <2>4. Steady(stack')
    BY <1>1, <1>2, <2>1, <2>2, <2>3, SteadyReplace
  <2>5. QED BY <1>2, <2>1, <2>4 DEF WalkInv
<1>6. CASE Top.todo = <<>> /\ Top.pos # 1
  <2>1. stack' = Front(stack) /\ UNCHANGED ifaces
    BY <1>6 DEF ConnectNext, Return
  <2>2. QED BY <1>2, <1>3, <2>1 DEF WalkInv
<1>7. QED BY <1>4, <1>5, <1>6

\* BindNext
LEMMA BindWalk ==
  ASSUME DatabaseInv, WalkInv, BindNext
  PROVE  WalkInv'
<1>1. Running("bind") /\ stack # <<>> /\ Top.op = "bind"
  BY DEF BindNext, Running
<1>2. /\ Steady(stack) /\ TypeOK /\ KidsKnown(ifaces)
      /\ stack \in Seq(Frame) /\ Front(stack) \in Seq(Frame) /\ Top \in Frame
  BY <1>1, SteadyUnless
<1>3. Steady(Front(stack)) /\ (Top.h \in Kids \/ NoWalk(stack))
  BY <1>1, <1>2, SteadyFront DEF Inside
<1>4. CASE Top.pos = 1 /\ ret = "success"
  <2> DEFINE f == [Top EXCEPT !.pos = 2]
             e == Call("start", Top.h, Top.d)
             t == Append(Front(stack), f)
  <2>1. stack' = Append(t, e) /\ UNCHANGED ifaces
    BY <1>4 DEF BindNext, Replace, Enter
  <2>2. f \in Frame /\ f.op = "bind" /\ f.h = Top.h
    BY <1>1, <1>2 DEF Frame
  <2>3. e.op = "call" /\ e.fn = "start" /\ e.h = Top.h
    BY DEF F, Call
  <2> HIDE DEF f, e
  <2>4. Proper(f) /\ Proper(e) /\ (Inside(Top) => Inside(f)) /\ (Top.h \in Kids => Inside(e))
    BY <1>1, <2>2, <2>3 DEF Proper, Inside
  <2>5. t \in Seq(Frame) /\ Steady(t)
    BY <1>1, <1>2, <2>2, <2>4, SteadyReplace
  <2>6. Top.h \in Kids \/ NoWalk(t)
    BY <1>1, <1>2, <1>3, <2>2, NoWalkReplace
  <2> HIDE DEF t
  <2>7. Steady(Append(t, e))
    BY <2>3, <2>4, <2>5, <2>6, SteadyMore
  <2>8. QED BY <1>2, <2>1, <2>7 DEF WalkInv
<1>5. CASE ~(Top.pos = 1 /\ ret = "success")
  <2>1. CloseAt(Front(stack), Top.d, Binding, Top.d, NULL)
    BY <1>5 DEF BindNext
  <2>2. HasIn(ifaces, made, Top.d, Binding)
    BY <1>1, Inner DEF GoodIn
  <2>3. KidsKnown(ifaces') /\ Steady(stack')
    BY <1>2, <1>3, <2>1, <2>2, CloseSteady
  <2>4. QED BY <2>3 DEF WalkInv
<1>6. QED BY <1>4, <1>5

\* WalkNext: the next record is that of a child.
LEMMA WalkWalk ==
  ASSUME DatabaseInv, WalkInv, WalkNext
  PROVE  WalkInv'
<1>1. Running("walk") /\ stack # <<>> /\ Top.op = "walk"
  BY DEF WalkNext, Running
<1>2. /\ Steady(stack) /\ TypeOK /\ KidsKnown(ifaces)
      /\ stack \in Seq(Frame) /\ Front(stack) \in Seq(Frame) /\ Top \in Frame /\ Top.h \in 1..made
  BY <1>1, SteadyUnless, Inner DEF GoodIn
<1>3. Steady(Front(stack))
  BY <1>1, <1>2, SteadyFront
<1> DEFINE ok == Top.ok \/ ret = "success"
           opens(k) == ifaces[Top.h][k].opens
           here == IF Top.cur = NoRecord THEN 0 ELSE PlaceOf(opens(Top.pos), Top.cur)
           places == UNION {{k} \X DOMAIN opens(k) : k \in DOMAIN ifaces[Top.h]}
           children == {k \in places : /\ "child" \in opens(k[1])[k[2]].attrs
                                       /\ k[1] > Top.pos \/ (k[1] = Top.pos /\ k[2] > here)}
<1>4. ok \in BOOLEAN
  BY <1>2 DEF Frame
<1>5. CASE children = {}
  <2>1. stack' = Front(stack) /\ UNCHANGED ifaces
    BY <1>5 DEF WalkNext, Return
  <2>2. QED BY <1>2, <1>3, <2>1 DEF WalkInv
<1>6. CASE children # {}
  <2> DEFINE k == CHOOSE k \in children : \A l \in children :
                     k[1] < l[1] \/ (k[1] = l[1] /\ k[2] <= l[2])
             r == opens(k[1])[k[2]]
             q == ifaces[Top.h][k[1]].guid
             f == [Top EXCEPT !.pos = k[1], !.g = q, !.cur = KeyOf(r), !.ok = ok]
  <2>1. ConnectAt(Append(Front(stack), f), r.controller, TRUE, Top.st = "success")
    BY <1>6 DEF WalkNext, Replace
  <2>2. Top.h \in Handle /\ ifaces[Top.h] \in Seq(Iface)
    BY <1>2, Types DEF Valid
  <2>3. \A n \in DOMAIN ifaces[Top.h] : n \in Nat /\ \A m \in DOMAIN opens(n) : m \in Nat
    <3>1. ASSUME NEW n \in DOMAIN ifaces[Top.h] PROVE n \in Nat /\ opens(n) \in Seq(Record)
      <4>1. n \in Nat /\ ifaces[Top.h][n] \in Iface
        BY <2>2, LenProperties
      <4>2. QED BY <4>1 DEF Iface
    <3>2. ASSUME NEW n \in DOMAIN ifaces[Top.h], NEW m \in DOMAIN opens(n) PROVE m \in Nat
      <4> DEFINE o == opens(n)
      <4>1. o \in Seq(Record) /\ m \in DOMAIN o
        BY <3>1
      <4> HIDE DEF o
      <4>2. QED BY <4>1, LenProperties
    <3>3. QED BY <3>1, <3>2
  <2>4. \A l \in children : /\ l[1] \in DOMAIN ifaces[Top.h] /\ l[2] \in DOMAIN opens(l[1])
                            /\ "child" \in opens(l[1])[l[2]].attrs
    OBVIOUS
  <2>5. k \in children
    <3>1. \A l \in children : l[1] \in Nat /\ l[2] \in Nat
      BY <2>3, <2>4
    <3> HIDE DEF children
    <3>2. \E l \in children : \A n \in children : l[1] < n[1] \/ (l[1] = n[1] /\ l[2] <= n[2])
      BY <1>6, <3>1, FirstPair
    <3>3. QED BY <3>2
  <2>6. "child" \in r.attrs /\ r.controller \in Kids \ {NULL}
    <3> DEFINE n == k[1]
               m == k[2]
    <3>1. n \in DOMAIN ifaces[Top.h] /\ m \in DOMAIN opens(n) /\ "child" \in opens(n)[m].attrs
      BY <2>4, <2>5
    <3> HIDE DEF n, m
    <3>2. KidsIn(opens(n))
      BY <1>2, <2>2, <3>1 DEF KidsKnown
    <3>3. opens(n)[m].controller \in Kids \ {NULL}
      BY <3>1, <3>2 DEF KidsIn
    <3>4. QED BY <3>1, <3>3 DEF n, m
  <2> HIDE DEF ok, k, q, r, children
  <2> DEFINE w == KeyOf(r)
             n == k[1]
             end == Top.st = "success"
  <2>7. w.attrs = r.attrs /\ w.controller = r.controller
    BY DEF KeyOf, Key
  <2> HIDE DEF w
  <2>8. f.op = "walk" /\ f.h = Top.h /\ f.cur = w
    <3>1. f = [Top EXCEPT !.pos = n, !.g = q, !.cur = w, !.ok = ok]
      BY DEF w
    <3> HIDE DEF f, n
    <3>2. QED BY <1>1, <1>2, <3>1 DEF Frame
  <2> HIDE DEF f
  <2>9. AtChild(f) /\ Proper(f)
    BY <2>6, <2>7, <2>8 DEF AtChild, Proper
  <2>10. Inside(f) \/ NoWalk(Front(stack))
    <3>1. Inside(Top) => Inside(f)
      BY <1>1, <2>8 DEF Inside
    <3>2. QED BY <1>1, <1>2, <3>1, SteadyFront
  <2>11. Steady(Append(Front(stack), f)) /\ Append(Front(stack), f) \in Seq(Frame \cup {f})
    BY <1>2, <1>3, <2>8, <2>9, <2>10, SteadyMore, Longer
  <2>12. ConnectAt(Append(Front(stack), f), r.controller, TRUE, end)
    BY <2>1 
  <2> HIDE DEF end
  <2>13. Steady(stack') /\ ifaces' = ifaces
    BY <2>6, <2>11, <2>12, ConnectsSteady
  <2>14. QED BY <1>2, <2>13 DEF WalkInv
<1>7. QED BY <1>5, <1>6

-----------------------------------------------------------------------------
(* Walks: exclusive openers                                                *)

\* A call on the stack of an opener
LEMMA OpenerMore ==
  ASSUME NEW S, NEW s \in Seq(S), NEW f, NEW i, OpenerAt(s, i)
  PROVE  OpenerAt(Append(s, f), i) /\ Append(s, f)[i] = s[i] /\ i \in Nat
<1> DEFINE t == Append(s, f)
<1>1. /\ Len(s) \in Nat /\ DOMAIN s = 1..Len(s) /\ DOMAIN t = 1..(Len(s) + 1)
      /\ \A j \in DOMAIN s : t[j] = s[j]
  BY Longer
<1> HIDE DEF t
<1>2. i \in DOMAIN s /\ i \in Nat /\ \A j \in DOMAIN t : j < i => j \in DOMAIN s
  BY <1>1 DEF OpenerAt
<1>3. i \in DOMAIN t
  BY <1>1, <1>2
<1>4. OpenerAt(t, i)
  BY <1>1, <1>2, <1>3 DEF OpenerAt
<1>5. QED BY <1>1, <1>2, <1>4 DEF t

\* An opener on a stack with no walk
LEMMA OpenerNew ==
  ASSUME NEW S, NEW s \in Seq(S), NEW f, Steady(s), NoWalk(s), f.op = "open"
  PROVE  LET t == Append(s, f) IN OpenerAt(t, Len(t)) /\ t[Len(t)] = f
<1> DEFINE t == Append(s, f)
           n == Len(s) + 1
<1>1. /\ Len(s) \in Nat /\ DOMAIN t = 1..n /\ Len(t) = n /\ t[n] = f
      /\ \A j \in DOMAIN s : t[j] = s[j]
      /\ \A j \in DOMAIN t : j \in DOMAIN s \/ j = n
  BY Longer
<1> HIDE DEF t
<1>2. n \in DOMAIN t /\ \A j \in DOMAIN t : j < n => j \in DOMAIN s
  BY <1>1
<1> HIDE DEF n
<1>3. \A j \in DOMAIN t : j < n => t[j].op \notin {"open", "walk"} /\ Proper(t[j])
  BY <1>1, <1>2 DEF Steady, NoWalk
<1>4. OpenerAt(t, n)
  BY <1>1, <1>2, <1>3 DEF OpenerAt
<1>5. QED BY <1>1, <1>4 DEF t

\* Below an opener
LEMMA OpenerOnTop ==
  ASSUME stack \in Seq(Frame), stack # <<>>, OpenerAt(stack, Len(stack))
  PROVE  Steady(Front(stack)) /\ NoWalk(Front(stack))
<1>1. \A i \in DOMAIN Front(stack) : i \in DOMAIN stack /\ i < Len(stack) /\ Front(stack)[i] = stack[i]
  BY Below
<1>2. \A i \in DOMAIN Front(stack) : Front(stack)[i].op \notin {"open", "walk"} /\ Proper(Front(stack)[i])
  BY <1>1 DEF OpenerAt
<1>3. QED BY <1>2 DEF Steady, NoWalk

\* An opener that waits, when the call it waits for returns
LEMMA OpenerWaits ==
  ASSUME stack \in Seq(Frame), stack # <<>>, NEW i, OpenerAt(stack, i), i # Len(stack)
  PROVE  OpenerAt(Front(stack), i) /\ Front(stack)[i] = stack[i]
<1> DEFINE q == Front(stack)
<1>1. /\ \A j \in DOMAIN q : j \in DOMAIN stack /\ q[j] = stack[j]
      /\ \A j \in DOMAIN stack : j \in DOMAIN q \/ j = Len(stack)
  BY Below
<1> HIDE DEF q
<1>2. i \in DOMAIN q
  BY <1>1 DEF OpenerAt
<1>3. OpenerAt(q, i)
  BY <1>1, <1>2 DEF OpenerAt
<1>4. QED BY <1>1, <1>2, <1>3 DEF q

\* Closing may free the record an opener is at.
LEMMA OpenerUnhooked ==
  ASSUME NEW s \in Seq(Frame), NEW i, OpenerAt(s, i), NEW h, NEW g, NEW freed
  PROVE  OpenerAt(Unhooked(s, h, g, freed), i)
<1> DEFINE u == Unhooked(s, h, g, freed)
<1>1. /\ DOMAIN u = DOMAIN s
      /\ \A j \in DOMAIN s : /\ u[j].op = s[j].op /\ u[j].fn = s[j].fn
                             /\ s[j].op \notin {"open", "walk"} => u[j].cur = s[j].cur
  BY UnhookedIs
<1> HIDE DEF u
<1>2. OpenerAt(u, i)
  BY <1>1 DEF OpenerAt, Proper
<1>3. QED BY <1>2 DEF u

\* Which part of the invariant holds: by who has the processor
LEMMA WhoAsks ==
  ASSUME DatabaseInv, WalkInv, stack # <<>>, ~Steady(stack)
  PROVE  LET L == Len(stack) IN
         /\ Top.op \in {"open", "disconnect", "call"}
         /\ Top.op = "open" => OpenerAt(stack, L) /\ (Top.cur = Freed => StartOver(ret))
         /\ Top.op = "disconnect" =>
              OpenerAt(stack, L - 1) /\ (stack[L - 1].cur = Freed => ret = "success")
         /\ Top.op = "call" =>
              /\ OpenerAt(stack, L - 2) /\ stack[L - 1].op = "disconnect" /\ Top.fn = "stop"
              /\ stack[L - 2].cur = Freed => stack[L - 1].ok \/ Top.ok
BY DEF WalkInv, Asking, Top, OpenerAt

\* DisconnectNext
LEMMA DisconnectWalk ==
  ASSUME DatabaseInv, WalkInv, DisconnectNext
  PROVE  WalkInv'
<1> DEFINE L == Len(stack)
           f == [Top EXCEPT !.pos = 2, !.ok = TRUE]
           e == Call("stop", Top.h, Top.d)
           t == Append(Front(stack), f)
<1>1. Running("disconnect") /\ stack # <<>> /\ Top.op = "disconnect"
  BY DEF DisconnectNext, Running
<1>2. /\ TypeOK /\ KidsKnown(ifaces) /\ stack \in Seq(Frame) /\ Front(stack) \in Seq(Frame)
      /\ Top \in Frame /\ L \in Nat \ {0} /\ Len(Front(stack)) = L - 1
      /\ HasIn(ifaces, made, Top.d, Binding)
  BY <1>1, Before, Below, Inner DEF WalkInv, GoodIn
<1>3. f.op = "disconnect" /\ f.ok = TRUE
  BY <1>1, <1>2 DEF Frame
<1>4. e.op = "call" /\ e.fn = "stop"
  BY DEF Call, F
<1>5. \/ ret # "success" /\ stack' = Front(stack) /\ ret' = "device_error" /\ UNCHANGED ifaces
      \/ stack' = Append(t, e) /\ UNCHANGED ifaces
      \/ CloseAt(Front(stack), Top.d, Binding, Top.d, NULL) /\ ret' = "success"
  BY DEF DisconnectNext, Return, Enter, Replace
<1> HIDE DEF f, e
<1>6. t \in Seq(Frame \cup {f}) /\ Len(t) = L /\ t[L] = f
  <2>1. t \in Seq(Frame \cup {f}) /\ Len(t) = Len(Front(stack)) + 1 /\ t[Len(Front(stack)) + 1] = f
    BY <1>2, Longer
  <2>2. Len(Front(stack)) + 1 = L
    BY <1>2
  <2>3. QED BY <2>1, <2>2
<1>7. CASE Steady(stack)
  <2>1. Steady(Front(stack)) /\ NoWalk(stack)
    BY <1>1, <1>2, <1>7, SteadyFront DEF Inside
  <2>2. NoWalk(Front(stack)) /\ NoWalk(t)
    BY <1>1, <1>2, <1>3, <2>1, NoWalkReplace
  <2>3. Steady(t)
    BY <1>2, <1>3, <2>1, <2>2, SteadyMore DEF Proper
  <2> HIDE DEF t
  <2>4. Steady(Append(t, e))
    BY <1>4, <1>6, <2>2, <2>3, SteadyMore DEF Proper
  <2>5. CASE CloseAt(Front(stack), Top.d, Binding, Top.d, NULL)
    <3>1. KidsKnown(ifaces') /\ Steady(stack')
      BY <1>2, <2>1, <2>5, CloseSteady
    <3>2. QED BY <3>1 DEF WalkInv
  <2>6. QED BY <1>2, <1>5, <2>1, <2>4, <2>5 DEF WalkInv
<1>8. CASE ~Steady(stack)
  <2>1. OpenerAt(stack, L - 1) /\ (stack[L - 1].cur = Freed => ret = "success")
    BY <1>1, <1>8, WhoAsks
  <2>2. OpenerAt(Front(stack), L - 1) /\ Front(stack)[L - 1] = stack[L - 1]
    BY <1>1, <1>2, <2>1, OpenerWaits
  <2>3. CASE ret # "success" /\ stack' = Front(stack) /\ UNCHANGED ifaces
    <3>1. Asking(stack', ret')
      BY <1>2, <2>1, <2>2, <2>3 DEF Asking
    <3>2. QED BY <1>2, <2>3, <3>1 DEF WalkInv
  <2>4. CASE stack' = Append(t, e) /\ UNCHANGED ifaces
    <3>1. OpenerAt(t, L - 1)
      BY <1>2, <2>2, OpenerMore
    <3> HIDE DEF t
    <3> DEFINE u == Append(t, e)
    <3>2. /\ OpenerAt(u, L - 1) /\ Len(u) = L + 1 /\ u[L + 1] = e /\ \A i \in 1..L : u[i] = t[i]
      BY <1>6, <3>1, OpenerMore, Longer
    <3> HIDE DEF u
    <3>3. L \in 1..L /\ Len(u) - 1 = L /\ Len(u) - 2 = L - 1
      BY <1>2, <3>2
    <3>4. u[Len(u)] = e /\ u[Len(u) - 1] = f /\ OpenerAt(u, Len(u) - 2)
      BY <1>6, <3>2, <3>3
    <3>5. Asking(u, ret')
      BY <1>3, <1>4, <3>4 DEF Asking
    <3>6. QED BY <1>2, <2>4, <3>5 DEF WalkInv, u
  <2>5. CASE CloseAt(Front(stack), Top.d, Binding, Top.d, NULL) /\ ret' = "success"
    <3>1. KidsKnown(ifaces')
      BY <1>2, <2>5, CloseSteady
    <3>2. PICK freed \in SUBSET Record : stack' = Unhooked(Front(stack), Top.d, Binding, freed)
      BY <1>2, <2>5, CloseSteady
    <3>3. OpenerAt(stack', L - 1) /\ Len(stack') = L - 1
      BY <1>2, <2>2, <3>2, OpenerUnhooked, UnhookedIs
    <3>4. Asking(stack', ret')
      BY <2>5, <3>3 DEF Asking, StartOver
    <3>5. QED BY <3>1, <3>4 DEF WalkInv
  <2>6. QED BY <1>5, <2>3, <2>4, <2>5
<1>9. QED BY <1>7, <1>8

\* FunctionReturns: a driver that closed something succeeds.
LEMMA FunctionWalk ==
  ASSUME DatabaseInv, WalkInv, OrderlyDrivers, FunctionReturns
  PROVE  WalkInv'
<1> DEFINE L == Len(stack)
           q == Front(stack)
<1>1. Running("call") /\ stack # <<>> /\ Top.op = "call" /\ UNCHANGED ifaces
  BY DEF FunctionReturns, Running
<1>2. /\ TypeOK /\ KidsKnown(ifaces) /\ stack \in Seq(Frame) /\ L \in Nat \ {0}
      /\ Len(q) = L - 1 /\ DOMAIN q = 1..(L - 1) /\ \A i \in DOMAIN q : q[i] = stack[i]
  BY <1>1, Before, Below DEF WalkInv
<1>3. PICK status \in {"success", "unsupported"} :
        (Top.fn = "stop" => StopMayReturn(status)) /\ stack' = q /\ ret' = status
  BY DEF FunctionReturns, Return
<1>4. CASE Steady(stack)
  BY <1>1, <1>2, <1>3, <1>4, SteadyFront DEF WalkInv
<1>5. CASE ~Steady(stack)
  <2>1. /\ OpenerAt(stack, L - 2) /\ stack[L - 1].op = "disconnect" /\ Top.fn = "stop"
        /\ stack[L - 2].cur = Freed => stack[L - 1].ok \/ Top.ok
    BY <1>1, <1>5, WhoAsks
  <2>2. L - 2 \in DOMAIN stack /\ DOMAIN stack = 1..L
    BY <1>2, <2>1, LenProperties DEF OpenerAt
  <2>3. L - 1 \in DOMAIN q /\ L - 2 # L /\ Len(q) - 1 = L - 2
    BY <1>2, <2>2
  <2>4. OpenerAt(q, L - 2) /\ q[L - 2] = stack[L - 2] /\ q[L - 1] = stack[L - 1]
    BY <1>1, <1>2, <2>1, <2>3, OpenerWaits
  <2>5. stack[L - 2].cur = Freed => status = "success"
    BY <1>3, <2>1 DEF StopMayReturn, OrderlyDrivers
  <2> HIDE DEF q
  <2>6. Asking(q, status)
    BY <1>2, <2>1, <2>3, <2>4, <2>5 DEF Asking
  <2>7. QED BY <1>1, <1>2, <1>3, <2>6 DEF WalkInv
<1>6. QED BY <1>4, <1>5

\* Disconnecting one driver for an opener
LEMMA DisconnectsAsking ==
  ASSUME TypeOK, KidsKnown(ifaces), NEW s \in Seq(Frame), OpenerAt(s, Len(s)), s[Len(s)].cur # Freed,
         NEW c, NEW d, d # NULL, DisconnectAt(s, c, d, NULL)
  PROVE  KidsKnown(ifaces') /\ Asking(stack', ret')
<1> DEFINE e == [F("disconnect") EXCEPT !.h = c, !.d = d, !.pos = IF HasChildren(c, d) THEN 1 ELSE 2]
           f == Call("stop", c, d)
           k == Key(d, NULL, {"get"})
           t == Append(s, e)
           u == Append(t, f)
<1>1. \/ stack' = s /\ UNCHANGED ifaces
      \/ Has(d, Binding) /\ ifaces' = Opened(d, Binding, k) /\ stack' = s \o <<e, f>>
  BY DEF DisconnectAt, Return, Enter
<1>2. CASE stack' = s /\ UNCHANGED ifaces
  BY <1>2 DEF Asking
<1>3. CASE Has(d, Binding) /\ ifaces' = Opened(d, Binding, k) /\ stack' = s \o <<e, f>>
  <2>1. HasIn(ifaces, made, d, Binding)
    BY <1>3, Types
  <2>2. "child" \notin k.attrs
    BY DEF Key
  <2>3. e.op = "disconnect" /\ f.op = "call" /\ f.fn = "stop"
    BY DEF F, Call
  <2>4. stack' = u
    BY <1>3, TwoOn
  <2> HIDE DEF e, f, k
  <2>5. KidsKnown(ifaces')
    BY <1>3, <2>1, <2>2, KidsOpened
  <2> DEFINE n == Len(s)
  <2>6. /\ n \in Nat /\ t \in Seq(Frame \cup {e}) /\ Len(t) = n + 1 /\ t[n + 1] = e
        /\ OpenerAt(t, n) /\ t[n] = s[n]
    <3>1. n \in Nat /\ t \in Seq(Frame \cup {e}) /\ Len(t) = n + 1 /\ t[n + 1] = e
      BY Longer
    <3>2. OpenerAt(s, n)
      OBVIOUS
    <3> HIDE DEF n
    <3>3. OpenerAt(t, n) /\ t[n] = s[n]
      BY <3>2, OpenerMore
    <3>4. QED BY <3>1, <3>3
  <2> HIDE DEF t
  <2>7. /\ DOMAIN t = 1..(n + 1) /\ \A i \in DOMAIN t : u[i] = t[i]
        /\ Len(u) = (n + 1) + 1 /\ u[(n + 1) + 1] = f /\ OpenerAt(u, n)
    <3> HIDE DEF n
    <3>1. QED BY <2>6, Longer, OpenerMore
  <2> HIDE DEF u, n
  <2>8. Len(u) - 1 = n + 1 /\ Len(u) - 2 = n /\ n + 1 \in DOMAIN t /\ n \in DOMAIN t
    <3>1. n \in DOMAIN t
      BY <2>6 DEF OpenerAt
    <3>2. QED BY <2>6, <2>7, <3>1
  <2>9. u[Len(u) - 1].op = "disconnect" /\ u[Len(u)] = f /\ u[Len(u) - 2] = s[n] /\ OpenerAt(u, Len(u) - 2)
    BY <2>3, <2>6, <2>7, <2>8
  <2>10. s[n].cur # Freed
    BY DEF n
  <2>11. Asking(u, ret')
    BY <2>3, <2>9, <2>10 DEF Asking
  <2>12. QED BY <2>4, <2>5, <2>11
<1>4. QED BY <1>1, <1>2, <1>3

\* DisconnectOwners
LEMMA OwnersWalk ==
  ASSUME DatabaseInv, WalkInv, DisconnectOwners
  PROVE  WalkInv'
<1>1. Running("open") /\ stack # <<>> /\ Top.op = "open"
  BY DEF DisconnectOwners, Running
<1>2. /\ TypeOK /\ KidsKnown(ifaces) /\ stack \in Seq(Frame) /\ Front(stack) \in Seq(Frame)
      /\ Top \in Frame /\ GoodIn(ifaces, made, Top) /\ ret \in Status
  BY <1>1, Before, Below, Inner DEF WalkInv
<1>3. HasIn(ifaces, made, Top.h, Top.g) /\ "exclusive" \in Top.attrs /\ Top.attrs \in Valued
  BY <1>1, <1>2 DEF GoodIn
<1>4. Steady(Front(stack)) /\ NoWalk(Front(stack))
  <2>1. Top = stack[Len(stack)] /\ Len(stack) \in DOMAIN stack
    BY <1>1, <1>2, Below
  <2>2. ~Steady(stack)
    BY <1>1, <2>1 DEF Steady
  <2>3. OpenerAt(stack, Len(stack))
    BY <1>1, <2>2, WhoAsks
  <2>4. QED BY <1>1, <1>2, <2>3, OpenerOnTop
<1> DEFINE opens == Entry(Top.h, Top.g).opens
           from  == IF StartOver(ret) THEN 1 ELSE PlaceOf(opens, Top.cur)
           owners == {k \in DOMAIN opens : k >= from /\ opens[k].attrs = {"driver"}}
           failed == Top.ok \/ ret \notin {"none", "success"}
<1>5. opens \in Seq(Record)
  BY <1>2, <1>3, HasEntry DEF Iface
<1>6. failed \in BOOLEAN
  BY <1>2 DEF Frame
<1>7. CASE owners # {}
  <2> DEFINE k == Min(owners)
             next == IF k = Len(opens) THEN NoRecord ELSE KeyOf(opens[k + 1])
             f == [Top EXCEPT !.cur = next, !.ok = failed]
             c == opens[k].controller
             d == opens[k].agent
             t == Append(Front(stack), f)
  <2>1. DisconnectAt(t, c, d, NULL)
    BY <1>7 DEF DisconnectOwners, Replace
  <2>2. k \in DOMAIN opens
    <3>1. owners \subseteq Nat /\ owners \subseteq DOMAIN opens
      <4> HIDE DEF opens, from
      <4>1. DOMAIN opens \subseteq Nat
        BY <1>5, LenProperties
      <4>2. QED BY <4>1
    <3> HIDE DEF owners
    <3>2. QED BY <1>7, <3>1, MinOf
  <2> HIDE DEF opens, from, owners, failed, k
  <2>3. Len(opens) \in Nat /\ DOMAIN opens = 1..Len(opens) /\ \A n \in DOMAIN opens : opens[n] \in Record
    BY <1>5, LenProperties
  <2>4. d # NULL
    BY <2>2, <2>3, Numbers DEF Record
  <2>5. next \in [agent : Handle \cup {NULL}, controller : Handle \cup {NULL},
                  attrs : SUBSET (Attribute \cup {"freed"})] /\ next # Freed
    <3>1. CASE k = Len(opens)
      <4>1. NoRecord \in [agent : Handle \cup {NULL}, controller : Handle \cup {NULL},
                          attrs : SUBSET (Attribute \cup {"freed"})]
            /\ NoRecord.attrs # Freed.attrs
        BY DEF NoRecord, Freed, Key
      <4>2. QED BY <3>1, <4>1
    <3>2. CASE k # Len(opens)
      <4>1. k + 1 \in DOMAIN opens
        BY <2>2, <2>3, <3>2
      <4> DEFINE r == opens[k + 1]
      <4>2. r \in Record
        BY <2>3, <4>1
      <4> HIDE DEF r
      <4>3. KeyOf(r) \in [agent : Handle \cup {NULL}, controller : Handle \cup {NULL},
                          attrs : SUBSET (Attribute \cup {"freed"})]
            /\ KeyOf(r).agent = r.agent
        BY <4>2 DEF KeyOf, Key, Record, Valued, Attribute
      <4>4. Freed.agent = NULL /\ r.agent # NULL
        BY <4>2, Numbers DEF Freed, Key, Record
      <4>5. next = KeyOf(r)
        BY <3>2 DEF r
      <4>6. QED BY <4>3, <4>4, <4>5
    <3>3. QED BY <3>1, <3>2
  <2> HIDE DEF next, c, d
  <2>6. f \in Frame /\ f.op = "open" /\ f.cur = next
    BY <1>1, <1>2, <1>6, <2>5, ZenonT(60) DEF Frame
  <2> HIDE DEF f
  <2>7. t \in Seq(Frame)
    BY <1>2, <2>6, Appended
  <2>8. OpenerAt(t, Len(t)) /\ t[Len(t)] = f
    BY <1>2, <1>4, <2>6, OpenerNew
  <2> HIDE DEF t
  <2>9. KidsKnown(ifaces') /\ Asking(stack', ret')
    BY <1>2, <2>1, <2>4, <2>5, <2>6, <2>7, <2>8, DisconnectsAsking
  <2>10. QED BY <2>9 DEF WalkInv
<1>8. CASE owners = {} /\ failed
  <2>1. stack' = Front(stack) /\ UNCHANGED ifaces
    BY <1>8 DEF DisconnectOwners, Return
  <2>2. QED BY <1>2, <1>4, <2>1 DEF WalkInv
<1>9. CASE owners = {} /\ ~failed
  <2> DEFINE key == Key(Top.d, Top.c, Top.attrs)
  <2>1. ifaces' = Opened(Top.h, Top.g, key) /\ stack' = Front(stack)
    BY <1>9 DEF DisconnectOwners, Return
  <2>2. "child" \notin key.attrs
    BY <1>3 DEF Key, Valued, Attribute
  <2> HIDE DEF key
  <2>3. KidsKnown(ifaces')
    BY <1>2, <1>3, <2>1, <2>2, KidsOpened
  <2>4. QED BY <1>4, <2>1, <2>3 DEF WalkInv
<1>10. QED BY <1>7, <1>8, <1>9

\* CloseProtocol, from the main program or a stop function
LEMMA CloseWalk ==
  ASSUME DatabaseInv, WalkInv, OrderlyDrivers, NEW h, NEW g, NEW a, NEW c, CloseProtocol(h, g, a, c)
  PROVE  WalkInv'
<1> DEFINE acted == IF stack = <<>> THEN stack ELSE Replace([Top EXCEPT !.ok = TRUE])
           closes == /\ Has(h, g) /\ Valid(a) /\ (c = NULL \/ Valid(c))
                     /\ \E r \in ToSet(Entry(h, g).opens) : r.agent = a /\ r.controller = c
<1>1. Client("Close")
  BY DEF CloseProtocol
<1>2. TypeOK /\ KidsKnown(ifaces) /\ stack \in Seq(Frame)
  BY <1>1, Before DEF WalkInv
<1>3. CASE ~closes
  <2>1. stack' = stack /\ UNCHANGED ifaces
    BY <1>3 DEF CloseProtocol, Return
  <2>2. QED BY <1>1, <2>1, AnswerWalk DEF ServiceName
<1>4. CASE closes
  <2>1. CloseAt(acted, h, g, a, c) /\ HasIn(ifaces, made, h, g)
    BY <1>2, <1>4, Types DEF CloseProtocol
  <2>2. CASE stack = <<>>
    <3>1. Steady(stack) /\ NoWalk(stack)
      BY <2>2 DEF Steady, NoWalk
    <3>2. CloseAt(stack, h, g, a, c)
      BY <2>1, <2>2
    <3>3. KidsKnown(ifaces') /\ Steady(stack')
      BY <1>2, <2>1, <3>1, <3>2, CloseSteady
    <3>4. QED BY <3>3 DEF WalkInv
  <2>3. CASE stack # <<>>
    <3> DEFINE f == [Top EXCEPT !.ok = TRUE]
               s == Append(Front(stack), f)
               L == Len(stack)
    <3>1. CloseAt(s, h, g, a, c)
      BY <2>1, <2>3 DEF Replace
    <3>2. Top \in Frame /\ Top.op = "call" /\ Top.fn = "stop"
      BY <1>1, <2>3, Callers DEF ServiceName
    <3>3. f \in Frame /\ f.op = "call" /\ f.fn = "stop" /\ f.ok = TRUE
      BY <3>2 DEF Frame
    <3> HIDE DEF f
    <3>4. /\ L \in Nat \ {0} /\ Front(stack) \in Seq(Frame) /\ Len(Front(stack)) = L - 1
          /\ \A i \in DOMAIN Front(stack) : Front(stack)[i] = stack[i]
          /\ DOMAIN Front(stack) = 1..(L - 1)
      BY <1>2, <2>3, Below
    <3>5. s \in Seq(Frame) /\ Len(s) = L /\ s[L] = f /\ \A i \in 1..(L - 1) : s[i] = stack[i]
      <4>1. /\ Len(s) = Len(Front(stack)) + 1 /\ s[Len(Front(stack)) + 1] = f
            /\ \A i \in DOMAIN Front(stack) : s[i] = Front(stack)[i]
        BY <3>4, Longer
      <4>2. s \in Seq(Frame)
        BY <3>3, <3>4, Appended
      <4>3. Len(Front(stack)) + 1 = L
        BY <3>4
      <4>4. QED BY <3>4, <4>1, <4>2, <4>3
    <3>6. CASE Steady(stack)
      <4>1. Steady(Front(stack)) /\ NoWalk(stack)
        BY <1>2, <2>3, <3>2, <3>6, SteadyFront DEF Inside
      <4>2. NoWalk(Front(stack)) /\ NoWalk(s)
        BY <1>2, <2>3, <3>3, <4>1, NoWalkReplace
      <4>3. Steady(s)
        BY <3>3, <3>4, <4>1, <4>2, SteadyMore DEF Proper
      <4> HIDE DEF s
      <4>4. KidsKnown(ifaces') /\ Steady(stack')
        BY <1>2, <2>1, <3>1, <3>5, <4>2, <4>3, CloseSteady
      <4>5. QED BY <4>4 DEF WalkInv
    <3>7. CASE ~Steady(stack)
      <4>1. OpenerAt(stack, L - 2) /\ stack[L - 1].op = "disconnect"
        BY <2>3, <3>2, <3>7, WhoAsks
      <4>2. OpenerAt(s, L - 2)
        <5>1. L - 2 # L
          BY <3>4
        <5>2. OpenerAt(Front(stack), L - 2)
          BY <1>2, <2>3, <4>1, <5>1, OpenerWaits
        <5>3. QED BY <3>4, <5>2, OpenerMore
      <4> HIDE DEF s
      <4>3. L - 1 \in 1..(L - 1) /\ L - 1 \in 1..L /\ L \in 1..L
        <5>1. L - 2 \in DOMAIN stack /\ DOMAIN stack = 1..L
          BY <1>2, <2>3, <4>1, Below DEF OpenerAt
        <5>2. QED BY <3>4, <5>1
      <4>4. s[L - 1].op = "disconnect" /\ s[L] = f
        BY <3>5, <4>1, <4>3
      <4>5. PICK freed \in SUBSET Record : stack' = Unhooked(s, h, g, freed)
        BY <1>2, <2>1, <3>1, <3>5, CloseSteady
      <4>6. KidsKnown(ifaces')
        BY <1>2, <2>1, <3>1, <3>5, CloseSteady
      <4>7. /\ Len(stack') = L /\ DOMAIN s = 1..L
            /\ \A i \in DOMAIN s : stack'[i].op = s[i].op /\ stack'[i].fn = s[i].fn /\ stack'[i].ok = s[i].ok
        BY <3>5, <4>5, UnhookedIs
      <4>8. OpenerAt(stack', L - 2)
        BY <3>5, <4>2, <4>5, OpenerUnhooked
      <4>9. stack'[L - 1].op = "disconnect" /\ stack'[L].op = "call" /\ stack'[L].fn = "stop" /\ stack'[L].ok
        BY <3>3, <4>3, <4>4, <4>7
      <4>10. Asking(stack', ret')
        BY <4>7, <4>8, <4>9 DEF Asking
      <4>11. QED BY <4>6, <4>10 DEF WalkInv
    <3>8. QED BY <3>6, <3>7
  <2>4. QED BY <2>2, <2>3
<1>5. QED BY <1>3, <1>4

\* OpenProtocol: an exclusive opener is called from no walk.
LEMMA OpenWalk ==
  ASSUME DatabaseInv, WalkInv, OrderlyDrivers, NEW o \in Opens, OpenProtocol(o)
  PROVE  WalkInv'
<1>1. Client("Open") /\ ActsOn(o.handle)
  BY DEF OpenProtocol
<1>2. TypeOK /\ KidsKnown(ifaces) /\ stack \in Seq(Frame) /\ Steady(stack)
  BY <1>1, Callers DEF ServiceName
<1>3. CASE stack' = stack /\ UNCHANGED ifaces
  BY <1>1, <1>3, AnswerWalk DEF ServiceName
<1>4. CASE ~(stack' = stack /\ UNCHANGED ifaces)
  <2> DEFINE f == [F("open") EXCEPT !.h = o.handle, !.g = o.guid,
                     !.d = o.agent, !.c = o.controller, !.attrs = o.attrs]
             key == Key(o.agent, o.controller, o.attrs)
  <2>1. /\ OpenRefusal(o) = "none"
        /\ \/ "exclusive" \in o.attrs /\ stack' = Append(stack, f) /\ UNCHANGED ifaces
           \/ ifaces' = Opened(o.handle, o.guid, key) /\ stack' = stack
    BY <1>4 DEF OpenProtocol, Return, Enter
  <2>2. f.op = "open" /\ f.cur = NoRecord
    BY DEF F
  <2>3. key.attrs = o.attrs /\ key.controller = o.controller
    BY DEF Key
  <2> HIDE DEF f, key
  <2>4. CASE "exclusive" \in o.attrs /\ stack' = Append(stack, f) /\ UNCHANGED ifaces
    <3>1. NoWalk(stack)
      <4>1. CASE stack = <<>>
        BY <4>1 DEF NoWalk
      <4>2. CASE stack # <<>>
        <5>1. Top.op = "call" /\ Top.fn = "start"
          BY <1>1, <4>2, Callers DEF ServiceName
        <5>2. Top.h = o.handle
          BY <1>1, <4>2, <5>1 DEF ActsOn, Runs
        <5>3. o.handle \notin Kids
          BY <2>4 DEF OrderlyDrivers
        <5>4. ~Inside(Top) /\ Top.op # "walk"
          BY <5>1, <5>2, <5>3 DEF Inside
        <5>5. QED BY <1>2, <4>2, <5>4, SteadyFront
      <4>3. QED BY <4>1, <4>2
    <3>2. OpenerAt(stack', Len(stack')) /\ stack'[Len(stack')] = f
      BY <1>2, <2>2, <2>4, <3>1, OpenerNew
    <3>3. f.cur # Freed
      <4>1. NoRecord.attrs # Freed.attrs
        BY DEF NoRecord, Freed, Key
      <4>2. QED BY <2>2, <4>1
    <3>4. Asking(stack', ret')
      BY <3>2, <3>3 DEF Asking
    <3>5. QED BY <1>2, <2>4, <3>4 DEF WalkInv
  <2>5. CASE ifaces' = Opened(o.handle, o.guid, key) /\ stack' = stack
    <3>1. HasIn(ifaces, made, o.handle, o.guid)
      <4>1. Has(o.handle, o.guid)
        BY <2>1 DEF OpenRefusal
      <4>2. QED BY <1>2, <4>1, Types
    <3>2. "child" \in key.attrs => key.controller \in Kids \ {NULL}
      <4>1. ASSUME "child" \in o.attrs PROVE Valid(o.controller)
        <5>1. o.attrs \cap {"child", "driver"} # {}
          BY <4>1
        <5>2. QED BY <2>1, <5>1 DEF OpenRefusal
      <4>2. "child" \in o.attrs => o.controller # NULL
        BY <1>2, <4>1, Types, Numbers
      <4>3. QED BY <2>3, <4>2 DEF Kids
    <3>3. KidsKnown(ifaces')
      BY <1>2, <2>5, <3>1, <3>2, KidsOpened
    <3>4. QED BY <1>2, <2>5, <3>3 DEF WalkInv
  <2>6. QED BY <2>1, <2>4, <2>5
<1>5. QED BY <1>3, <1>4

-----------------------------------------------------------------------------
(* Walks: every step                                                       *)

\* Nobody has opened anything yet.
LEMMA StartsWalk ==
  ASSUME Init
  PROVE  WalkInv
<1>1. \A h \in Handle : \A k \in DOMAIN ifaces[h] : ifaces[h][k].opens = <<>>
  <2>1. ASSUME NEW h \in Handle, NEW k \in DOMAIN ifaces[h] PROVE ifaces[h][k].opens = <<>>
    <3>1. CASE h > made
      BY <2>1, <3>1 DEF Init
    <3>2. CASE ~(h > made)
      <4>1. ifaces[h] = [l \in DOMAIN Given[h] |-> NewEntry(Given[h][l].guid, Given[h][l].intf)]
        BY <3>2 DEF Init
      <4>2. ifaces[h][k] = NewEntry(Given[h][k].guid, Given[h][k].intf)
        BY <2>1, <4>1
      <4>3. QED BY <4>2 DEF NewEntry
    <3>3. QED BY <3>1, <3>2
  <2>2. QED BY <2>1
<1>2. KidsKnown(ifaces)
  BY <1>1 DEF KidsKnown, KidsIn
<1>3. Steady(stack)
  BY DEF Init, Steady
<1>4. QED BY <1>2, <1>3 DEF WalkInv

\* Every step keeps the walks in their places.
LEMMA StepsWalk ==
  ASSUME OrderlyDrivers, DatabaseInv, WalkInv, [Next]_vars
  PROVE  WalkInv'
<1>1. CASE UNCHANGED vars
  BY <1>1 DEF vars, WalkInv
<1>2. CASE Serve
  <2>1. CASE Notify
    BY <2>1, NotifyWalk
  <2>2. CASE InstallNext
    BY <2>2, MultipleWalk
  <2>3. CASE RollBack
    BY <2>3, RollBackWalk
  <2>4. CASE ReinstallNext
    BY <2>4, ReinstallWalk
  <2>5. CASE UninstallEnds
    BY <2>5, UninstallWalk
  <2>6. CASE DisconnectOwners
    BY <2>6, OwnersWalk
  <2>7. CASE ConnectNext
    BY <2>7, ConnectWalk
  <2>8. CASE BindNext
    BY <2>8, BindWalk
  <2>9. CASE WalkNext
    BY <2>9, WalkWalk
  <2>10. CASE DisconnectAllNext
    BY <2>10, DisconnectAllWalk
  <2>11. CASE DisconnectNext
    BY <2>11, DisconnectWalk
  <2>12. QED BY <1>2, <2>1, <2>2, <2>3, <2>4, <2>5, <2>6, <2>7, <2>8, <2>9, <2>10, <2>11 DEF Serve
<1>3. CASE CallService
  <2>1. ASSUME NEW a \in Installs, InstallProtocolInterface(a) PROVE WalkInv'
    BY <2>1, InstallWalk
  <2>2. ASSUME NEW a \in InstallLists, InstallMultiple(a) PROVE WalkInv'
    BY <2>2, MainWalk
  <2>3. ASSUME NEW a \in Installs, NEW i \in Interface,
               \/ UninstallProtocolInterface(a.handle, a.guid, i)
               \/ ReinstallProtocolInterface(a.handle, a.guid, i, a.intf)
        PROVE  WalkInv'
    BY <2>3, MainWalk
  <2>4. ASSUME NEW g \in Registers, RegisterProtocolNotify(g) PROVE WalkInv'
    <3>1. Client("Register") /\ UNCHANGED <<ifaces, stack>>
      BY <2>4 DEF RegisterProtocolNotify
    <3>2. QED BY <3>1, AnswerWalk DEF ServiceName
  <2>5. ASSUME NEW o \in Opens, OpenProtocol(o) PROVE WalkInv'
    BY <2>5, OpenWalk
  <2>6. ASSUME NEW o \in Opens, CloseProtocol(o.handle, o.guid, o.agent, o.controller) PROVE WalkInv'
    BY <2>6, CloseWalk
  <2>7. ASSUME NEW a \in Connects, ConnectController(a) PROVE WalkInv'
    BY <2>7, MainWalk
  <2>8. ASSUME NEW a \in Disconnects, DisconnectController(a) PROVE WalkInv'
    BY <2>8, MainWalk
  <2>9. CASE StartImage
    BY <2>9, StartImageWalk
  <2>10. CASE Exit
    BY <2>10, ExitWalk
  <2>11. QED BY <1>3, <2>1, <2>2, <2>3, <2>4, <2>5, <2>6, <2>7, <2>8, <2>9, <2>10 DEF CallService
<1>4. CASE FunctionReturns
  BY <1>4, FunctionWalk
<1>5. QED BY <1>1, <1>2, <1>3, <1>4 DEF Next, Undefined

\* Where the loops over open lists are that wait for a function, and what may
\* run meanwhile, with drivers that follow the driver model (protocol.c:313-325,
\* controller.c:205-225).
THEOREM WalkInvariant ==
  ASSUME OrderlyDrivers
  PROVE  Spec => [](DatabaseInv /\ WalkInv)
<1>1. Init => DatabaseInv /\ WalkInv
  BY StartsSafe, StartsWalk
<1>2. DatabaseInv /\ WalkInv /\ [Next]_vars => (DatabaseInv /\ WalkInv)'
  BY StepsSafe, StepsWalk DEF Safe
<1>3. QED BY <1>1, <1>2, PTL DEF Spec

\* A loop over an open list never goes on from a record that was freed while a
\* function of such a driver ran in its middle (protocol.c:324,
\* controller.c:215-222).
THEOREM NoWalkIsLost ==
  ASSUME OrderlyDrivers
  PROVE  Spec => []NoLostWalk
<1>1. DatabaseInv /\ WalkInv => NoLostWalk
  <2>1. SUFFICES ASSUME DatabaseInv, WalkInv, stack # <<>>, Lost PROVE FALSE
    BY DEF NoLostWalk
  <2>2. stack \in Seq(Frame) /\ Top.cur = Freed
    BY <2>1, Before DEF Lost
  <2>3. CASE Steady(stack)
    <3>1. Top.op = "walk" /\ AtChild(Top)
      BY <2>1, <2>2, <2>3, SteadyFront DEF Lost
    <3>2. Freed.attrs = {"freed"} /\ NoRecord.attrs = {}
      BY DEF Freed, NoRecord, Key
    <3>3. QED BY <2>2, <3>1, <3>2 DEF AtChild
  <2>4. CASE ~Steady(stack)
    <3>1. Top.op = "open" => StartOver(ret)
      BY <2>1, <2>2, <2>4, WhoAsks
    <3>2. Top.op = "walk" => FALSE
      BY <2>1, <2>4, WhoAsks
    <3>3. QED BY <2>1, <3>1, <3>2 DEF Lost
  <2>5. QED BY <2>3, <2>4
<1>2. QED BY <1>1, WalkInvariant, PTL
=============================================================================
