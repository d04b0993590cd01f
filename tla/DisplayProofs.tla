---------------------------- MODULE DisplayProofs ----------------------------
(***************************************************************************)
(* Proofs that the two threads of Display never meet over half a mode and  *)
(* lose no event, for every set of modes and sizes and every number of     *)
(* events.                                                                 *)
(*                                                                         *)
(* SetMode changes the buffer, the configuration, the mode and the texture *)
(* one after the other.  The argument has two halves: a thread inside its  *)
(* section is the holder of fb_lock (LockHeld), and whenever the program   *)
(* is outside of SetMode the four belong together, while inside of it they *)
(* are on the way from one mode to another (ScreenOf).                     *)
(*                                                                         *)
(* Events are numbered as the user causes them.  Both queues rise, all in  *)
(* the program's is older than all in SDL's, what a protocol has taken is  *)
(* older than what is left for it, and between them none is missing.       *)
(*                                                                         *)
(* Then come the proofs about the other console, the terminal of Console,  *)
(* and those about the transfers of Blt.  A transfer copies rows; the      *)
(* proof says what the memory is after each (Copying), that rows which are *)
(* apart keep what came before, and that a row a pitch below another is    *)
(* apart from it, which is where the shape of rectangles comes in.         *)
(***************************************************************************)
EXTENDS Display, Console, Blt, Lemmas

\* A thread in its section holds fb_lock.
LockHeld ==
  /\ program \in {"running", "resizing", "resized"}
  /\ program # "running" => lock = "program"
  /\ update \in {"drawing", "polling"} => lock = "update"

\* The buffer is the one of mode m, or gone since a SetMode failed.
BufferOf(m) == gop.buffer = 0 \/ gop.buffer = Size[m]

\* In "resized" an ok SetMode has everything but the mode and the texture of the
\* new mode; one that failed still has everything of the old one but the buffer.
ScreenOf ==
  /\ gop \in [cur : Mode, next : Mode, size : Nat, buffer : Nat,
              cfg : Mode \cup {NoMode}, texture : Mode, ok : BOOLEAN]
  /\ gop.texture = gop.cur
  /\ program # "resized" => /\ BufferOf(gop.cur) /\ gop.size = Size[gop.cur]
                            /\ gop.cfg \in {gop.cur, NoMode}
  /\ program = "resized" /\ gop.ok => /\ BufferOf(gop.next) /\ gop.size = Size[gop.next]
                                      /\ gop.cfg \in {gop.next, NoMode}
  /\ program = "resized" /\ ~gop.ok => /\ BufferOf(gop.cur) /\ gop.size = Size[gop.cur]
                                       /\ gop.cfg \in {gop.cur, NoMode}

\* The inductive invariant of the screen
DrawInv == LockHeld /\ ScreenOf

-----------------------------------------------------------------------------

\* It holds of the first mode.
LEMMA InitDraws == Init => DrawInv
<1> SUFFICES ASSUME Init PROVE DrawInv
  OBVIOUS
<1>1. Size[FirstMode] \in Nat /\ FirstMode \in Mode
  BY ModeAssumption
<1>2. LockHeld
  BY DEF Init, LockHeld
<1>3. ScreenOf
  BY <1>1 DEF Init, ScreenOf, BufferOf
<1>4. QED BY <1>2, <1>3 DEF DrawInv

\* The four steps of SetMode are the only ones that change the screen's data, but
\* for the marks of broken and painted memory.
LEMMA SetModeKeeps ==
  ASSUME DrawInv, (\E m \in Mode : SetMode(m)) \/ SetModeGoesOn
  PROVE  DrawInv'
<1>1. Size \in [Mode -> Nat \ {0}]
  BY ModeAssumption
<1>2. gop.cur \in Mode /\ gop.next \in Mode /\ gop.size \in Nat /\ gop.buffer \in Nat
      /\ gop.cfg \in Mode \cup {NoMode} /\ gop.texture \in Mode /\ gop.ok \in BOOLEAN
  BY DEF DrawInv, ScreenOf
<1>3. CASE \E m \in Mode : SetMode(m)
  <2> PICK m \in Mode : SetMode(m)
    BY <1>3
  <2>1. program = "running" /\ program' = "resizing" /\ lock = "free" /\ lock' = "program"
        /\ gop' = [gop EXCEPT !.next = m] /\ update' = update
    BY DEF SetMode, ProgramRuns, Acquire
  <2>2. LockHeld'
    BY <2>1 DEF DrawInv, LockHeld
  <2>3. ScreenOf'
    BY <1>2, <2>1 DEF DrawInv, ScreenOf, BufferOf
  <2>4. QED BY <2>2, <2>3 DEF DrawInv
<1>4. CASE UpdateSize
  <2>1. program = "resizing" /\ program' = "resized" /\ lock' = lock /\ update' = update
    BY <1>4 DEF UpdateSize
  <2>2. gop' = [gop EXCEPT !.buffer = IF Size[gop.next] = gop.size THEN @ ELSE Size[gop.next],
                           !.size = Size[gop.next],
                           !.cfg = IF gop.next = gop.cur THEN NoMode ELSE gop.next, !.ok = TRUE]
    BY <1>4 DEF UpdateSize
  <2>3. LockHeld'
    BY <2>1 DEF DrawInv, LockHeld
  <2>4. /\ gop'.cur = gop.cur /\ gop'.next = gop.next /\ gop'.texture = gop.texture /\ gop'.ok = TRUE
        /\ gop'.size = Size[gop.next]
        /\ gop'.buffer = IF Size[gop.next] = gop.size THEN gop.buffer ELSE Size[gop.next]
        /\ gop'.cfg = IF gop.next = gop.cur THEN NoMode ELSE gop.next
        /\ gop' \in [cur : Mode, next : Mode, size : Nat, buffer : Nat,
                     cfg : Mode \cup {NoMode}, texture : Mode, ok : BOOLEAN]
    BY <1>1, <1>2, <2>2 DEF DrawInv, ScreenOf
  <2>5. ScreenOf'
    BY <1>2, <2>1, <2>4 DEF DrawInv, ScreenOf, BufferOf
  <2>6. QED BY <2>3, <2>5 DEF DrawInv
<1>5. CASE MappingFails
  <2>1. program = "resizing" /\ program' = "resized" /\ lock' = lock /\ update' = update
        /\ gop' = [gop EXCEPT !.ok = FALSE]
    BY <1>5 DEF MappingFails
  <2>2. LockHeld'
    BY <2>1 DEF DrawInv, LockHeld
  <2>3. ScreenOf'
    BY <1>2, <2>1 DEF DrawInv, ScreenOf, BufferOf
  <2>4. QED BY <2>2, <2>3 DEF DrawInv
<1>6. CASE SetupFails
  <2>1. program = "resizing" /\ program' = "resized" /\ lock' = lock /\ update' = update
        /\ gop' = [gop EXCEPT !.buffer = IF Size[gop.next] = gop.size THEN @ ELSE 0, !.ok = FALSE]
    BY <1>6 DEF SetupFails
  <2>2. LockHeld'
    BY <2>1 DEF DrawInv, LockHeld
  <2>3. ScreenOf'
    BY <1>2, <2>1 DEF DrawInv, ScreenOf, BufferOf
  <2>4. QED BY <2>2, <2>3 DEF DrawInv
<1>7. CASE SetModeEnds
  <2> DEFINE m == IF gop.ok THEN gop.next ELSE gop.cur
  <2>1. program = "resized" /\ program' = "running" /\ lock' = "free" /\ update' = update
        /\ gop' = [gop EXCEPT !.cur = m, !.next = m, !.texture = m, !.ok = TRUE]
    BY <1>7 DEF SetModeEnds, Release
  <2>2. LockHeld'
    BY <2>1 DEF DrawInv, LockHeld
  <2>3. ScreenOf'
    BY <1>2, <2>1 DEF DrawInv, ScreenOf, BufferOf
  <2>4. QED BY <2>2, <2>3 DEF DrawInv
<1>8. QED BY <1>3, <1>4, <1>5, <1>6, <1>7 DEF SetModeGoesOn

\* No other step changes the screen's data or lets the program into SetMode; those
\* of update_thread take the lock only when it is free.
LEMMA OthersKeep ==
  ASSUME DrawInv, gop' = gop, program' = program,
         \/ lock' = lock /\ (update' \in {"drawing", "polling"} => update' = update)
         \/ lock = "free" /\ lock' = "update"
         \/ lock = "update" /\ lock' = "free" /\ update' \notin {"drawing", "polling"}
  PROVE  DrawInv'
<1>1. LockHeld'
  BY DEF DrawInv, LockHeld
<1>2. ScreenOf'
  BY DEF DrawInv, ScreenOf, BufferOf
<1>3. QED BY <1>1, <1>2 DEF DrawInv

\* Every step of either thread keeps it.
LEMMA NextDraws == DrawInv /\ [Next]_vars => DrawInv'
<1> SUFFICES ASSUME DrawInv, [Next]_vars PROVE DrawInv'
  OBVIOUS
<1>1. CASE (\E m \in Mode : SetMode(m)) \/ SetModeGoesOn
  BY <1>1, SetModeKeeps
<1>2. CASE Blt \/ ResetDevice \/ WaitForEvent \/ \E d \in Device : ReadDevice(d)
  BY <1>2, OthersKeep DEF Blt, ResetDevice, WaitForEvent, ReadDevice, screenVars, inputVars
<1>3. CASE WaitUpdate
  <2>1. gop' = gop /\ program' = program /\ lock' = lock /\ update' \in {"to_draw", "to_poll"}
    BY <1>3 DEF WaitUpdate
  <2>2. QED BY <2>1, OthersKeep
<1>4. CASE DrawBegins \/ PollBegins
  BY <1>4, OthersKeep DEF DrawBegins, PollBegins, Acquire, screenVars
<1>5. CASE Draw \/ PollEnds
  <2>1. lock = "update"
    BY <1>5 DEF Draw, PollEnds, DrawInv, LockHeld
  <2>2. gop' = gop /\ program' = program /\ lock' = "free" /\ update' \in {"to_poll", "idle"}
    BY <1>5 DEF Draw, PollEnds, Release, screenVars
  <2>3. QED BY <2>1, <2>2, OthersKeep
<1>6. CASE Poll
  <2>1. gop' = gop /\ program' = program /\ lock' = lock /\ update' \in {update, "exited"}
    BY <1>6 DEF Poll
  <2>2. QED BY <2>1, OthersKeep
<1>7. CASE \E kind \in Kinds : UserInput(kind)
  BY <1>7, OthersKeep DEF UserInput, screenVars
<1>8. CASE Over \/ UNCHANGED vars
  BY <1>8, OthersKeep DEF Over, vars, screenVars
<1>9. QED
  BY <1>1, <1>2, <1>3, <1>4, <1>5, <1>6, <1>7, <1>8 DEF Next, Program, Thread

\* The thread that draws holds the lock, so the program is outside of SetMode.
LEMMA DrawsWhole == DrawInv => DrawsOneMode
<1> SUFFICES ASSUME DrawInv, update = "drawing", gop.buffer # 0
             PROVE  /\ gop.buffer = Size[gop.cur] /\ gop.texture = gop.cur
                    /\ gop.cfg \in {gop.cur, NoMode}
  BY DEF DrawsOneMode
<1>1. program = "running"
  BY DEF DrawInv, LockHeld
<1>2. QED BY <1>1 DEF DrawInv, ScreenOf, BufferOf

\* At every moment a thread is inside its section only with the lock, and the data
\* of the screen are those of one mode or on the way to another (gop.c:28-83).
THEOREM ScreenInvariant == Spec => []DrawInv
<1>1. QED BY InitDraws, NextDraws, PTL DEF Spec

\* update_thread draws with the buffer, configuration and texture of one mode,
\* however SetMode and drawing interleave and whatever fails (sdl2.c:121-155).
THEOREM DrawsWholeModes == Spec => []DrawsOneMode
<1>1. QED BY ScreenInvariant, DrawsWhole, PTL

-----------------------------------------------------------------------------
(* Events in the order of the user *)

\* A sequence of events that rise repeats none.
LEMMA RisingOnce ==
  ASSUME NEW q \in Seq(Nat), Rising(q)
  PROVE  IsInjective(q)
<1>1. DOMAIN q = 1..Len(q) /\ Len(q) \in Nat /\ \A i \in DOMAIN q : q[i] \in Nat
  BY LenProperties
<1>2. ASSUME NEW i \in DOMAIN q, NEW j \in DOMAIN q, q[i] = q[j] PROVE i = j
  <2>1. ~(i < j) /\ ~(j < i)
    BY <1>1, <1>2 DEF Rising
  <2>2. i \in Nat /\ j \in Nat
    BY <1>1
  <2>3. QED BY <2>1, <2>2
<1>3. QED BY <1>2 DEF IsInjective

\* It still rises with an event at its end that is younger than all in it.
LEMMA RisingAppended ==
  ASSUME NEW q \in Seq(Nat), Rising(q), NEW e \in Nat, \A a \in ToSet(q) : a < e
  PROVE  Rising(Append(q, e)) /\ Append(q, e) \in Seq(Nat) /\ ToSet(Append(q, e)) = ToSet(q) \cup {e}
<1> DEFINE r == Append(q, e)
<1>1. /\ r \in Seq(Nat) /\ Len(q) \in Nat /\ DOMAIN q = 1..Len(q) /\ DOMAIN r = 1..(Len(q) + 1)
      /\ \A i \in 1..Len(q) : r[i] = q[i]
      /\ r[Len(q) + 1] = e /\ ToSet(r) = ToSet(q) \cup {e}
  BY Appended
<1> HIDE DEF r
<1>2. ASSUME NEW i \in DOMAIN r, NEW j \in DOMAIN r, i < j PROVE r[i] < r[j]
  <2>1. i \in 1..Len(q)
    BY <1>1, <1>2
  <2>2. CASE j \in 1..Len(q)
    BY <1>1, <1>2, <2>1, <2>2 DEF Rising
  <2>3. CASE j = Len(q) + 1
    <3>1. q[i] \in ToSet(q)
      BY <1>1, <2>1 DEF ToSet
    <3>2. QED BY <1>1, <2>1, <2>3, <3>1
  <2>4. QED BY <1>1, <2>2, <2>3
<1>3. QED BY <1>1, <1>2 DEF Rising, r

\* And without any of them, whose place nothing takes.
LEMMA RisingRemoved ==
  ASSUME NEW q \in Seq(Nat), Rising(q), NEW k \in DOMAIN q
  PROVE  /\ Rising(RemoveAt(q, k)) /\ RemoveAt(q, k) \in Seq(Nat)
         /\ ToSet(RemoveAt(q, k)) = ToSet(q) \ {q[k]}
<1> DEFINE r == RemoveAt(q, k)
<1>1. /\ r \in Seq(Nat) /\ Len(q) \in Nat /\ k \in 1..Len(q) /\ DOMAIN r = 1..(Len(q) - 1)
      /\ \A i \in 1..(Len(q) - 1) : r[i] = IF i < k THEN q[i] ELSE q[i + 1]
  BY RemovedAt
<1>2. DOMAIN q = 1..Len(q)
  BY LenProperties
<1> DEFINE from(i) == IF i < k THEN i ELSE i + 1
<1>3. /\ \A i \in DOMAIN r : from(i) \in DOMAIN q /\ from(i) # k /\ r[i] = q[from(i)]
      /\ \A i, j \in DOMAIN r : i < j => from(i) < from(j)
  <2>1. ASSUME NEW i \in DOMAIN r PROVE from(i) \in DOMAIN q /\ from(i) # k /\ r[i] = q[from(i)]
    <3>1. i \in 1..(Len(q) - 1) /\ i \in Nat /\ k \in Nat
      BY <1>1
    <3>2. r[i] = q[from(i)]
      BY <1>1, <3>1
    <3>3. from(i) \in 1..Len(q) /\ from(i) # k
      BY <1>1, <3>1
    <3>4. QED BY <1>2, <3>2, <3>3
  <2>2. ASSUME NEW i \in DOMAIN r, NEW j \in DOMAIN r, i < j PROVE from(i) < from(j)
    <3>1. i \in Nat /\ j \in Nat /\ k \in Nat
      BY <1>1
    <3>2. QED BY <2>2, <3>1
  <2>3. QED BY <2>1, <2>2
<1>4. \A m \in DOMAIN q : m # k => \E i \in DOMAIN r : from(i) = m
  <2>1. ASSUME NEW m \in DOMAIN q, m # k PROVE \E i \in DOMAIN r : from(i) = m
    <3>1. CASE m < k
      BY <1>1, <1>2, <3>1
    <3>2. CASE m > k
      <4>1. m - 1 \in DOMAIN r /\ from(m - 1) = m
        BY <1>1, <1>2, <3>2
      <4>2. QED BY <4>1
    <3>3. QED BY <1>1, <1>2, <2>1, <3>1, <3>2
  <2>2. QED BY <2>1
<1> HIDE DEF r, from
<1>5. Rising(r)
  BY <1>3 DEF Rising
<1>6. \A i \in DOMAIN q : i # k => q[i] # q[k]
  BY RisingOnce DEF IsInjective
<1>7. ToSet(r) = ToSet(q) \ {q[k]}
  BY <1>3, <1>4, <1>6 DEF ToSet
<1>8. QED BY <1>1, <1>5, <1>7 DEF r

\* The first event is the oldest.
LEMMA RisingTail ==
  ASSUME NEW q \in Seq(Nat), Rising(q), q # <<>>
  PROVE  /\ Rising(Tail(q)) /\ Tail(q) \in Seq(Nat) /\ Head(q) \in Nat
         /\ ToSet(q) = ToSet(Tail(q)) \cup {Head(q)}
         /\ \A b \in ToSet(Tail(q)) : Head(q) < b
<1> DEFINE t == Tail(q)
<1>1. /\ t \in Seq(Nat) /\ Head(q) = q[1] /\ Head(q) \in Nat /\ Len(q) \in Nat \ {0}
      /\ DOMAIN q = 1..Len(q) /\ DOMAIN t = 1..(Len(q) - 1)
      /\ \A i \in 1..(Len(q) - 1) : t[i] = q[i + 1]
      /\ ToSet(q) = ToSet(t) \cup {Head(q)}
  BY HeadAndTail
<1> HIDE DEF t
<1>2. \A i \in DOMAIN t : i + 1 \in DOMAIN q /\ 1 \in DOMAIN q /\ 1 < i + 1
  BY <1>1
<1>3. \A i, j \in DOMAIN t : i < j => i + 1 < j + 1
  BY <1>1
<1>4. Rising(t)
  BY <1>1, <1>2, <1>3 DEF Rising
<1>5. \A b \in ToSet(t) : Head(q) < b
  <2>1. ASSUME NEW i \in DOMAIN t PROVE Head(q) < t[i]
    BY <1>1, <1>2 DEF Rising
  <2>2. QED BY <2>1 DEF ToSet
<1>6. QED BY <1>1, <1>4, <1>5 DEF t

\* The types of what the events go through
EventsTyped ==
  /\ input \in Seq(Kind)
  /\ sdl \in Seq(Nat) /\ queue \in Seq(Nat) /\ taken \in [Device -> Seq(Nat)]
  /\ ToSet(sdl) \subseteq DOMAIN input /\ ToSet(queue) \subseteq DOMAIN input
  /\ \A d \in Device : ToSet(taken[d]) \subseteq DOMAIN input
  /\ signaled \subseteq Device /\ sem \in Nat
  /\ dangling \in BOOLEAN /\ broken \in BOOLEAN /\ painted \in BOOLEAN
  /\ update \in {"idle", "to_draw", "drawing", "to_poll", "polling", "exited"}
  /\ lock \in {"free", "program", "update"}

\* Both queues rise, and SDL's holds the younger events.
QueuesRise ==
  /\ Rising(queue) /\ Rising(sdl)
  /\ \A a \in ToSet(queue), b \in ToSet(sdl) : a < b
  /\ \A a \in ToSet(queue) : input[a] \in QueuedKind

\* What a protocol has returned rises and is older than all it may still return.
TakenRise ==
  \A d \in Device :
    /\ Rising(taken[d])
    /\ \A a \in ToSet(taken[d]) :
         /\ input[a] \in Taken[d]
         /\ \A b \in ToSet(queue) \cup ToSet(sdl) : input[b] \in Taken[d] => a < b

\* No event that is queued at all is missing.
AllThere ==
  \A e \in DOMAIN input : input[e] \in QueuedKind =>
    e \in ToSet(queue) \cup ToSet(sdl) \cup UNION {ToSet(taken[d]) : d \in Device}

\* The inductive invariant of the events
EventsInv == EventsTyped /\ QueuesRise /\ TakenRise /\ AllThere

\* Events go through these variables.
eventVars == <<input, sdl, queue, taken>>

\* A step that moves no event keeps them, if it keeps the types.
LEMMA NoEventMoves ==
  ASSUME EventsInv, UNCHANGED eventVars, signaled' \subseteq Device, sem' \in Nat,
         dangling' \in BOOLEAN, broken' \in BOOLEAN, painted' \in BOOLEAN,
         update' \in {"idle", "to_draw", "drawing", "to_poll", "polling", "exited"},
         lock' \in {"free", "program", "update"}
  PROVE  EventsInv'
  BY DEF EventsInv, EventsTyped, QueuesRise, TakenRise, AllThere, eventVars

\* The program does not move events when it calls the graphics output.
LEMMA ScreenStep ==
  ASSUME EventsInv, DrawInv, (\E m \in Mode : SetMode(m)) \/ SetModeGoesOn \/ Blt
  PROVE  EventsInv'
<1>1. UNCHANGED inputVars /\ UNCHANGED update
  BY DEF SetMode, SetModeGoesOn, UpdateSize, MappingFails, SetupFails, SetModeEnds, Blt
<1>2. lock' \in {"free", "program", "update"}
  BY DEF EventsInv, EventsTyped, SetMode, Acquire, SetModeGoesOn, UpdateSize, MappingFails,
         SetupFails, SetModeEnds, Release, Blt
<1>3. sem' \in Nat
  BY DEF EventsInv, EventsTyped, SetMode, SetModeGoesOn, UpdateSize, MappingFails,
         SetupFails, SetModeEnds, Blt
<1>4. broken' \in BOOLEAN /\ painted' \in BOOLEAN
  <2>1. CASE UpdateSize
    <3> DEFINE b == (~(Size[gop.next] = gop.size) /\ gop.size > Size[gop.next])
    <3>1. b \in BOOLEAN /\ broken' = b /\ painted' = painted
      BY <2>1 DEF UpdateSize
    <3> HIDE DEF b
    <3>2. QED BY <3>1 DEF EventsInv, EventsTyped
  <2>2. CASE SetupFails
    <3> DEFINE b == (~(Size[gop.next] = gop.size) /\ gop.size > Size[gop.next])
    <3>1. b \in BOOLEAN /\ broken' = b /\ painted' = painted
      BY <2>2 DEF SetupFails
    <3> HIDE DEF b
    <3>2. QED BY <3>1 DEF EventsInv, EventsTyped
  <2>3. CASE Blt
    <3> DEFINE b == (gop.buffer < Size[gop.cfg])
    <3>1. b \in BOOLEAN /\ broken' = b /\ painted' = TRUE
      BY <2>3 DEF Blt
    <3> HIDE DEF b
    <3>2. QED BY <3>1
  <2>4. CASE (\E m \in Mode : SetMode(m)) \/ MappingFails \/ SetModeEnds
    BY <2>4 DEF EventsInv, EventsTyped, SetMode, MappingFails, SetModeEnds
  <2>5. QED BY <2>1, <2>2, <2>3, <2>4 DEF SetModeGoesOn
<1>5. QED BY <1>1, <1>2, <1>3, <1>4, NoEventMoves DEF inputVars, eventVars, EventsInv, EventsTyped

\* Only devices are signalled.
LEMMA WaitStep ==
  ASSUME EventsInv, WaitForEvent \/ ResetDevice
  PROVE  EventsInv'
<1>1. UNCHANGED eventVars /\ UNCHANGED <<lock, update, screenVars>> /\ dangling' \in BOOLEAN
  BY DEF WaitForEvent, ResetDevice, eventVars, EventsInv, EventsTyped
<1>2. signaled' \subseteq Device
  <2>1. CASE ResetDevice
    BY <2>1 DEF ResetDevice, EventsInv, EventsTyped
  <2>2. CASE WaitForEvent
    <3>1. CASE queue = <<>>
      BY <2>2, <3>1 DEF WaitForEvent, EventsInv, EventsTyped
    <3>2. CASE queue # <<>>
      <4>1. Head(queue) \in ToSet(queue)
        BY <3>2, HeadAndTail DEF EventsInv, EventsTyped
      <4>2. input[Head(queue)] \in QueuedKind
        BY <4>1 DEF EventsInv, QueuesRise
      <4>3. \A k \in QueuedKind : DevicesOf(k) \subseteq Device
        <5>1. /\ Device = {"key", "simple", "abs"} /\ Taken["key"] = {"key_down"}
              /\ Taken["simple"] = {"left_button", "motion"} /\ Taken["abs"] = {"finger"}
          BY DEF Device, Taken
        <5>2. QueuedKind = {"key_down", "left_button", "motion", "finger", "key_up", "other_button"}
          <6>1. \A x : x \in UNION {Taken[d] : d \in Device} <=>
                        x \in Taken["key"] \/ x \in Taken["simple"] \/ x \in Taken["abs"]
            BY <5>1
          <6>2. \A x : x \in QueuedKind <=>
                        x \in {"key_down", "left_button", "motion", "finger", "key_up", "other_button"}
            BY <5>1, <6>1 DEF QueuedKind
          <6>3. QED BY <6>2
        <5>3. QED BY <5>1, <5>2 DEF DevicesOf
      <4>4. QED BY <2>2, <3>2, <4>2, <4>3 DEF WaitForEvent, EventsInv, EventsTyped
    <3>3. QED BY <3>1, <3>2
  <2>3. QED BY <2>1, <2>2
<1>3. QED BY <1>1, <1>2, NoEventMoves DEF screenVars, EventsInv, EventsTyped

\* The thread draws, waits and begins or ends to poll.
LEMMA ThreadStep ==
  ASSUME EventsInv, WaitUpdate \/ DrawBegins \/ Draw \/ PollBegins \/ PollEnds
  PROVE  EventsInv'
<1>1. UNCHANGED inputVars
  BY DEF WaitUpdate, DrawBegins, Draw, PollBegins, PollEnds
<1>2. update' \in {"idle", "to_draw", "drawing", "to_poll", "polling", "exited"}
  BY DEF WaitUpdate, DrawBegins, Draw, PollBegins, PollEnds
<1>3. lock' \in {"free", "program", "update"}
  BY DEF EventsInv, EventsTyped, WaitUpdate, DrawBegins, Draw, PollBegins, PollEnds, Acquire, Release
<1>4. sem' \in Nat
  BY DEF EventsInv, EventsTyped, WaitUpdate, DrawBegins, Draw, PollBegins, PollEnds, screenVars
<1>5. broken' \in BOOLEAN /\ painted' \in BOOLEAN
  <2>1. CASE Draw
    <3> DEFINE b == (gop.buffer < Size[gop.cur])
    <3>1. b \in BOOLEAN /\ broken' = b /\ painted' = FALSE
      BY <2>1 DEF Draw
    <3> HIDE DEF b
    <3>2. QED BY <3>1
  <2>2. CASE WaitUpdate \/ DrawBegins \/ PollBegins \/ PollEnds
    BY <2>2 DEF EventsInv, EventsTyped, WaitUpdate, DrawBegins, PollBegins, PollEnds, screenVars
  <2>3. QED BY <2>1, <2>2
<1>6. QED BY <1>1, <1>2, <1>3, <1>4, <1>5, NoEventMoves DEF inputVars, eventVars, EventsInv, EventsTyped

\* The user causes an event, the youngest of all.
LEMMA InputStep ==
  ASSUME EventsInv, NEW kind \in Kinds, UserInput(kind)
  PROVE  EventsInv'
<1> DEFINE n == Len(input)
           in == Append(input, kind)
           e == n + 1
           s == Append(sdl, e)
<1>1. kind \in Kind
  BY InputAssumption
<1>2. /\ in \in Seq(Kind) /\ n \in Nat /\ DOMAIN input = 1..n /\ DOMAIN in = 1..e /\ Len(in) = e
      /\ \A i \in 1..n : in[i] = input[i]
  BY <1>1, Appended DEF EventsInv, EventsTyped
<1>3. input' = in /\ sdl' = s /\ UNCHANGED <<lock, update, queue, dangling, signaled, taken, screenVars>>
  BY <1>2 DEF UserInput
<1> HIDE DEF in, n
<1>4. /\ \A a \in ToSet(sdl) \cup ToSet(queue) : a \in Nat /\ a \in 1..n /\ a < e /\ in[a] = input[a]
      /\ \A d \in Device : \A a \in ToSet(taken[d]) : a \in Nat /\ a \in 1..n /\ a < e /\ in[a] = input[a]
  BY <1>2 DEF EventsInv, EventsTyped
<1>5. Rising(s) /\ s \in Seq(Nat) /\ ToSet(s) = ToSet(sdl) \cup {e}
  BY <1>2, <1>4, RisingAppended DEF EventsInv, EventsTyped, QueuesRise
<1> HIDE DEF s
<1>6. EventsTyped'
  <2>1. ToSet(s) \subseteq 1..e /\ ToSet(queue) \subseteq 1..e
        /\ \A d \in Device : ToSet(taken[d]) \subseteq 1..e
    BY <1>2, <1>4, <1>5
  <2>2. QED BY <1>2, <1>3, <1>5, <2>1 DEF EventsInv, EventsTyped, screenVars
<1>7. QueuesRise'
  BY <1>3, <1>4, <1>5 DEF EventsInv, QueuesRise
<1>8. TakenRise'
  BY <1>3, <1>4, <1>5 DEF EventsInv, TakenRise
<1>9. AllThere'
  <2>1. ASSUME NEW x \in 1..e, in[x] \in QueuedKind
        PROVE  x \in ToSet(queue) \cup ToSet(s) \cup UNION {ToSet(taken[d]) : d \in Device}
    <3>1. CASE x = e
      BY <1>5, <3>1
    <3>2. CASE x # e
      <4>1. x \in 1..n
        BY <1>2, <3>2
      <4>2. QED BY <1>2, <1>5, <2>1, <4>1 DEF EventsInv, AllThere
    <3>3. QED BY <3>1, <3>2
  <2>2. QED BY <1>2, <1>3, <2>1 DEF AllThere
<1>10. QED BY <1>6, <1>7, <1>8, <1>9 DEF EventsInv

\* The thread moves the oldest event of SDL's queue behind all in the event queue.
LEMMA PollStep ==
  ASSUME EventsInv, Poll
  PROVE  EventsInv'
<1> DEFINE h == Head(sdl)
           t == Tail(sdl)
           q == IF input[h] \in QueuedKind THEN Append(queue, h) ELSE queue
<1>1. /\ sdl # <<>> /\ sdl' = t /\ queue' = q
      /\ UNCHANGED <<lock, dangling, broken, signaled, painted, input, taken>>
  BY DEF Poll
<1>2. /\ Rising(t) /\ t \in Seq(Nat) /\ h \in Nat /\ ToSet(sdl) = ToSet(t) \cup {h}
      /\ \A b \in ToSet(t) : h < b
  BY <1>1, RisingTail DEF EventsInv, EventsTyped, QueuesRise
<1> HIDE DEF h, t
<1>3. \A a \in ToSet(queue) : a < h
  BY <1>2 DEF EventsInv, QueuesRise
<1>4. /\ Rising(q) /\ q \in Seq(Nat)
      /\ ToSet(q) = IF input[h] \in QueuedKind THEN ToSet(queue) \cup {h} ELSE ToSet(queue)
  BY <1>2, <1>3, RisingAppended DEF EventsInv, EventsTyped, QueuesRise
<1> HIDE DEF q
<1>5. EventsTyped'
  <2>1. sem' \in Nat
    BY DEF Poll, EventsInv, EventsTyped
  <2>2. update' \in {"idle", "to_draw", "drawing", "to_poll", "polling", "exited"}
    BY DEF Poll, EventsInv, EventsTyped
  <2>3. ToSet(t) \subseteq DOMAIN input /\ ToSet(q) \subseteq DOMAIN input
    BY <1>2, <1>4 DEF EventsInv, EventsTyped
  <2>4. QED BY <1>1, <1>2, <1>4, <2>1, <2>2, <2>3 DEF EventsInv, EventsTyped
<1>6. QueuesRise'
  BY <1>1, <1>2, <1>3, <1>4 DEF EventsInv, QueuesRise
<1>7. TakenRise'
  BY <1>1, <1>2, <1>4 DEF EventsInv, TakenRise
<1>8. AllThere'
  BY <1>1, <1>2, <1>4 DEF EventsInv, AllThere
<1>9. QED BY <1>5, <1>6, <1>7, <1>8 DEF EventsInv

\* A protocol returns the oldest event it may.
LEMMA DeviceStep ==
  ASSUME EventsInv, NEW d \in Device, ReadDevice(d)
  PROVE  EventsInv'
<1> DEFINE S == {k \in DOMAIN queue : input[queue[k]] \in Taken[d]}
           f == FirstFor(d)
           e == queue[f]
           q == RemoveAt(queue, f)
           r == Append(taken[d], e)
<1>1. /\ signaled' = signaled \ {d}
      /\ UNCHANGED <<lock, program, update, sdl, dangling, input>> /\ UNCHANGED screenVars
  BY DEF ReadDevice
<1>2. CASE S = {}
  <2>1. UNCHANGED eventVars
    BY <1>1, <1>2 DEF ReadDevice, eventVars
  <2>2. QED BY <1>1, <2>1, NoEventMoves DEF EventsInv, EventsTyped, screenVars
<1>3. CASE S # {}
  <2>1. taken' = [taken EXCEPT ![d] = r] /\ queue' = q
    BY <1>3 DEF ReadDevice
  <2>2. DOMAIN queue = 1..Len(queue) /\ Len(queue) \in Nat /\ \A k \in DOMAIN queue : queue[k] \in Nat
    BY LenProperties DEF EventsInv, EventsTyped
  <2>3. f \in S /\ \A k \in S : f <= k
    <3>1. S \subseteq Nat
      BY <2>2
    <3>2. Min(S) \in S /\ \A k \in S : Min(S) <= k
      <4> HIDE DEF S
      <4> QED BY <1>3, <3>1, MinOf
    <3>3. QED BY <3>2 DEF FirstFor
  <2>4. f \in DOMAIN queue /\ input[e] \in Taken[d] /\ e \in Nat /\ e \in ToSet(queue)
    BY <2>2, <2>3 DEF ToSet
  <2>5. \A b \in ToSet(queue) : input[b] \in Taken[d] => b = e \/ e < b
    <3>1. ASSUME NEW k \in DOMAIN queue, input[queue[k]] \in Taken[d]
          PROVE  queue[k] = e \/ e < queue[k]
      <4>1. f <= k
        BY <2>3, <3>1
      <4>2. f \in Nat /\ k \in Nat
        BY <2>2, <2>4
      <4>3. f = k \/ f < k
        BY <4>1, <4>2
      <4> HIDE DEF f
      <4>4. QED BY <2>4, <4>3 DEF EventsInv, QueuesRise, Rising
    <3>2. QED BY <3>1 DEF ToSet
  <2> HIDE DEF S, f
  <2>6. Rising(q) /\ q \in Seq(Nat) /\ ToSet(q) = ToSet(queue) \ {e}
    BY <2>4, RisingRemoved DEF EventsInv, EventsTyped, QueuesRise
  <2> HIDE DEF e, q
  <2>7. \A a \in ToSet(taken[d]) : a < e
    BY <2>4 DEF EventsInv, TakenRise
  <2>8. Rising(r) /\ r \in Seq(Nat) /\ ToSet(r) = ToSet(taken[d]) \cup {e}
    BY <2>4, <2>7, RisingAppended DEF EventsInv, EventsTyped, TakenRise
  <2> HIDE DEF r
  <2>9. /\ taken' \in [Device -> Seq(Nat)] /\ taken'[d] = r
        /\ \A c \in Device : c # d => taken'[c] = taken[c]
    BY <2>1, <2>8 DEF EventsInv, EventsTyped
  <2>10. EventsTyped'
    <3>1. ToSet(q) \subseteq DOMAIN input /\ \A c \in Device : ToSet(taken'[c]) \subseteq DOMAIN input
      BY <2>4, <2>6, <2>8, <2>9 DEF EventsInv, EventsTyped
    <3>2. QED BY <1>1, <2>1, <2>6, <2>9, <3>1 DEF EventsInv, EventsTyped, screenVars
  <2>11. QueuesRise'
    BY <1>1, <2>1, <2>6 DEF EventsInv, QueuesRise
  <2>12. TakenRise'
    <3>1. ASSUME NEW a \in ToSet(r)
          PROVE  input[a] \in Taken[d]
                 /\ \A b \in ToSet(q) \cup ToSet(sdl) : input[b] \in Taken[d] => a < b
      <4>1. CASE a = e
        <5>1. \A b \in ToSet(sdl) : e < b
          BY <2>4 DEF EventsInv, QueuesRise
        <5>2. QED BY <2>4, <2>5, <2>6, <4>1, <5>1
      <4>2. CASE a \in ToSet(taken[d])
        BY <2>6, <4>2 DEF EventsInv, TakenRise
      <4>3. QED BY <2>8, <4>1, <4>2
    <3>2. ASSUME NEW c \in Device, c # d
          PROVE  /\ Rising(taken[c])
                 /\ \A a \in ToSet(taken[c]) :
                      input[a] \in Taken[c]
                      /\ \A b \in ToSet(q) \cup ToSet(sdl) : input[b] \in Taken[c] => a < b
      BY <2>6 DEF EventsInv, TakenRise
    <3>3. QED BY <1>1, <2>1, <2>8, <2>9, <3>1, <3>2 DEF TakenRise
  <2>13. AllThere'
    <3>1. ASSUME NEW x \in DOMAIN input, input[x] \in QueuedKind
          PROVE  x \in ToSet(q) \cup ToSet(sdl) \cup UNION {ToSet(taken'[c]) : c \in Device}
      <4>1. x \in ToSet(queue) \cup ToSet(sdl) \cup UNION {ToSet(taken[c]) : c \in Device}
        BY <3>1 DEF EventsInv, AllThere
      <4>2. \A c \in Device : ToSet(taken[c]) \subseteq ToSet(taken'[c])
        BY <2>8, <2>9
      <4>3. e \in ToSet(taken'[d])
        BY <2>8, <2>9
      <4>4. QED BY <2>6, <4>1, <4>2, <4>3
    <3>2. QED BY <1>1, <2>1, <3>1 DEF AllThere
  <2>14. QED BY <2>10, <2>11, <2>12, <2>13 DEF EventsInv
<1>4. QED BY <1>2, <1>3

\* No event has happened at first.
LEMMA EventsInit ==
  ASSUME Init
  PROVE  EventsInv
<1>1. << >> \in Seq(Nat) /\ << >> \in Seq(Kind) /\ DOMAIN << >> = {} /\ ToSet(<< >>) = {}
  BY EmptySeq DEF ToSet
<1>2. EventsTyped
  BY <1>1 DEF Init, EventsTyped
<1>3. QueuesRise /\ TakenRise /\ AllThere
  BY <1>1 DEF Init, QueuesRise, TakenRise, AllThere, Rising
<1>4. QED BY <1>2, <1>3 DEF EventsInv

\* Every step keeps every event in its place and in order.
LEMMA EventsStep == DrawInv /\ EventsInv /\ [Next]_vars => EventsInv'
<1> SUFFICES ASSUME DrawInv, EventsInv, [Next]_vars PROVE EventsInv'
  OBVIOUS
<1>1. CASE (\E m \in Mode : SetMode(m)) \/ SetModeGoesOn \/ Blt
  BY <1>1, ScreenStep
<1>2. CASE WaitForEvent \/ ResetDevice
  BY <1>2, WaitStep
<1>3. ASSUME NEW d \in Device, ReadDevice(d) PROVE EventsInv'
  BY <1>3, DeviceStep
<1>4. CASE WaitUpdate \/ DrawBegins \/ Draw \/ PollBegins \/ PollEnds
  BY <1>4, ThreadStep
<1>5. CASE Poll
  BY <1>5, PollStep
<1>6. ASSUME NEW kind \in Kinds, UserInput(kind) PROVE EventsInv'
  BY <1>6, InputStep
<1>7. CASE Over \/ UNCHANGED vars
  BY <1>7, NoEventMoves DEF Over, vars, inputVars, screenVars, eventVars, EventsInv, EventsTyped
<1>8. QED BY <1>1, <1>2, <1>3, <1>4, <1>5, <1>6, <1>7 DEF Next, Program, Thread

\* At every moment both queues hold the user's events in order, SDL's the younger ones,
\* what a protocol returned is older than all it may still return, and none is missing.
THEOREM EventsInvariant == Spec => []EventsInv
<1>1. QED BY ScreenInvariant, EventsInit, EventsStep, PTL DEF Spec

\* A sequence of numbers of S is a sequence over S.
LEMMA SeqOver ==
  ASSUME NEW S, NEW q \in Seq(Nat), ToSet(q) \subseteq S
  PROVE  q \in Seq(S)
<1>1. q \in [1..Len(q) -> Nat] /\ Len(q) \in Nat /\ DOMAIN q = 1..Len(q)
  BY LenProperties
<1>2. \A i \in 1..Len(q) : q[i] \in S
  BY <1>1 DEF ToSet
<1>3. q \in [1..Len(q) -> S]
  BY <1>1, <1>2
<1>4. QED BY <1>1, <1>3, SeqDef

\* The invariant says what NothingLost says of the places.
LEMMA PlacesHold ==
  ASSUME EventsInv
  PROVE  LET places == taken.key \o taken.simple \o taken.abs \o queue \o sdl IN
         /\ IsInjective(places)
         /\ \A e \in DOMAIN input : input[e] \in QueuedKind => Contains(places, e)
<1> DEFINE k == taken["key"]
           s == taken["simple"]
           a == taken["abs"]
           c1 == k \o s
           c2 == c1 \o a
           c3 == c2 \o queue
           c4 == c3 \o sdl
<1>1. /\ Device = {"key", "simple", "abs"}
      /\ Taken["key"] \cap Taken["simple"] = {} /\ Taken["key"] \cap Taken["abs"] = {}
      /\ Taken["simple"] \cap Taken["abs"] = {}
  BY DEF Device, Taken
<1>2. /\ \A d \in Device : taken[d] \in Seq(Nat) /\ IsInjective(taken[d])
      /\ queue \in Seq(Nat) /\ IsInjective(queue) /\ sdl \in Seq(Nat) /\ IsInjective(sdl)
  BY RisingOnce DEF EventsInv, EventsTyped, QueuesRise, TakenRise
<1>3. /\ \A d \in Device : \A x \in ToSet(taken[d]) :
           x \in Nat /\ input[x] \in Taken[d] /\ x \notin ToSet(queue) /\ x \notin ToSet(sdl)
      /\ ToSet(queue) \cap ToSet(sdl) = {}
  <2>1. \A x \in DOMAIN input : x \in Nat
    BY LenProperties DEF EventsInv, EventsTyped
  <2>2. QED BY <2>1 DEF EventsInv, EventsTyped, QueuesRise, TakenRise
<1> HIDE DEF k, s, a
<1>4. /\ k \in Seq(Nat) /\ s \in Seq(Nat) /\ a \in Seq(Nat)
      /\ IsInjective(k) /\ IsInjective(s) /\ IsInjective(a)
  BY <1>1, <1>2 DEF k, s, a
<1>5. ToSet(k) \cap ToSet(s) = {} /\ (ToSet(k) \cup ToSet(s)) \cap ToSet(a) = {}
  BY <1>1, <1>3 DEF k, s, a
<1>6. (ToSet(k) \cup ToSet(s) \cup ToSet(a)) \cap (ToSet(queue) \cup ToSet(sdl)) = {}
  BY <1>1, <1>3 DEF k, s, a
<1>7. c1 \in Seq(Nat) /\ ToSet(c1) = ToSet(k) \cup ToSet(s) /\ IsInjective(c1)
  BY <1>4, <1>5, Concatenated
<1> HIDE DEF c1
<1>8. c2 \in Seq(Nat) /\ ToSet(c2) = ToSet(k) \cup ToSet(s) \cup ToSet(a) /\ IsInjective(c2)
  BY <1>4, <1>5, <1>7, Concatenated
<1> HIDE DEF c2
<1>9. c3 \in Seq(Nat) /\ ToSet(c3) = ToSet(c2) \cup ToSet(queue) /\ IsInjective(c3)
  <2>1. ToSet(c2) \cap ToSet(queue) = {}
    BY <1>6, <1>8
  <2>2. QED BY <1>2, <1>8, <2>1, Concatenated
<1> HIDE DEF c3
<1>10. c4 \in Seq(Nat) /\ ToSet(c4) = ToSet(c3) \cup ToSet(sdl) /\ IsInjective(c4)
  <2>1. ToSet(c3) \cap ToSet(sdl) = {}
    BY <1>3, <1>6, <1>8, <1>9
  <2>2. QED BY <1>2, <1>9, <2>1, Concatenated
<1> HIDE DEF c4
<1>11. \A e \in DOMAIN input : input[e] \in QueuedKind => e \in ToSet(c4)
  <2>1. UNION {ToSet(taken[d]) : d \in Device} = ToSet(k) \cup ToSet(s) \cup ToSet(a)
    BY <1>1 DEF k, s, a
  <2>2. QED BY <1>8, <1>9, <1>10, <2>1 DEF EventsInv, AllThere
<1>12. \A e : e \in ToSet(c4) => Contains(c4, e)
  BY <1>10, LenProperties DEF ToSet, Contains
<1>13. taken.key \o taken.simple \o taken.abs \o queue \o sdl = c4
  BY DEF k, s, a, c1, c2, c3, c4
<1>14. QED BY <1>10, <1>11, <1>12, <1>13

\* And what it says of the order.
LEMMA OrderHolds ==
  ASSUME EventsInv, NEW d \in Device
  PROVE  LET left == queue \o sdl IN
         /\ Rising(taken[d])
         /\ \A j \in DOMAIN left : For(left[j], d) =>
              /\ \A i \in DOMAIN taken[d] : taken[d][i] < left[j]
              /\ \A i \in 1 .. j - 1 : For(left[i], d) => left[i] < left[j]
<1> DEFINE left == queue \o sdl
           m == Len(queue)
           n == Len(sdl)
<1>1. queue \in Seq(Nat) /\ sdl \in Seq(Nat)
  BY DEF EventsInv, EventsTyped
<1>2. /\ ToSet(left) = ToSet(queue) \cup ToSet(sdl)
      /\ m \in Nat /\ n \in Nat /\ DOMAIN left = 1..(m + n)
      /\ \A i \in 1..m : left[i] = queue[i]
      /\ \A i \in 1..n : left[m + i] = sdl[i]
  BY <1>1, Concatenated
<1>3. DOMAIN queue = 1..m /\ DOMAIN sdl = 1..n
  BY <1>1, LenProperties
<1> HIDE DEF left, m, n
<1>4. \A j \in DOMAIN left : For(left[j], d) => \A i \in DOMAIN taken[d] : taken[d][i] < left[j]
  <2>1. \A j \in DOMAIN left : left[j] \in ToSet(queue) \cup ToSet(sdl)
    BY <1>2 DEF ToSet
  <2>2. \A i \in DOMAIN taken[d] : taken[d][i] \in ToSet(taken[d])
    BY DEF ToSet
  <2>3. QED BY <2>1, <2>2 DEF EventsInv, TakenRise, For
<1>5. ASSUME NEW j \in DOMAIN left, NEW i \in 1 .. j - 1 PROVE left[i] < left[j]
  <2>1. i \in 1..(m + n) /\ j \in 1..(m + n) /\ i < j
    BY <1>2, <1>5
  <2>2. CASE j \in 1..m
    <3>1. i \in 1..m
      BY <1>2, <2>1, <2>2
    <3>2. QED BY <1>2, <1>3, <2>1, <2>2, <3>1 DEF EventsInv, QueuesRise, Rising
  <2>3. CASE i \in 1..m /\ j \notin 1..m
    <3>1. j - m \in 1..n /\ m + (j - m) = j
      BY <1>2, <2>1, <2>3
    <3>2. left[j] = sdl[j - m] /\ left[i] = queue[i]
      BY <1>2, <2>3, <3>1
    <3>3. queue[i] \in ToSet(queue) /\ sdl[j - m] \in ToSet(sdl)
      BY <1>3, <2>3, <3>1 DEF ToSet
    <3>4. QED BY <3>2, <3>3 DEF EventsInv, QueuesRise
  <2>4. CASE i \notin 1..m
    <3>1. /\ j - m \in 1..n /\ m + (j - m) = j /\ i - m \in 1..n /\ m + (i - m) = i
          /\ i - m < j - m
      BY <1>2, <2>1, <2>4
    <3>2. left[j] = sdl[j - m] /\ left[i] = sdl[i - m]
      BY <1>2, <3>1
    <3>3. QED BY <1>3, <3>1, <3>2 DEF EventsInv, QueuesRise, Rising
  <2>5. QED BY <2>2, <2>3, <2>4
<1>6. Rising(taken[d])
  BY DEF EventsInv, TakenRise
<1>7. QED BY <1>4, <1>5, <1>6 DEF left

\* No event of the user is lost, doubled or overtaken, however the threads interleave
\* and whatever the other protocols take from the queue (sdl2.c).
THEOREM NoEventLost == Spec => []NothingLost
<1>1. ASSUME DrawInv, EventsInv PROVE NothingLost
  <2>1. TypeOK
    <3>1. /\ sdl \in Seq(DOMAIN input) /\ queue \in Seq(DOMAIN input)
          /\ \A d \in Device : taken[d] \in Seq(DOMAIN input)
      BY <1>1, SeqOver DEF EventsInv, EventsTyped
    <3>2. taken \in [Device -> Seq(DOMAIN input)]
      BY <1>1, <3>1 DEF EventsInv, EventsTyped
    <3>3. {dangling, broken, painted} \subseteq BOOLEAN /\ signaled \in SUBSET Device
      BY <1>1 DEF EventsInv, EventsTyped
    <3>4. QED BY <1>1, <3>1, <3>2, <3>3 DEF TypeOK, DrawInv, LockHeld, ScreenOf, EventsInv, EventsTyped
  <2>2. QED BY <1>1, <2>1, PlacesHold, OrderHolds DEF NothingLost
<1>2. QED BY <1>1, ScreenInvariant, EventsInvariant, PTL
-----------------------------------------------------------------------------
(* The terminal of the text console.  ClearScreen and Reset set the mode   *)
(* an output has saved.  What makes this harmless is that the input comes  *)
(* first: every output found the terminal raw already, so raw is all that  *)
(* is ever set again.                                                      *)

\* The input runs and is the first service of a terminal.
InputFirst == started # <<>> /\ started[1] = "in" /\ "in" \in tty

\* A terminal of an input that came first is raw, and no output has saved
\* another mode.
RawInv ==
  /\ started \in Seq(Outputs \cup {"in"})
  /\ raw \in BOOLEAN /\ restore \in [Outputs -> BOOLEAN]
  /\ InputFirst => raw = TRUE
  /\ InputFirst => \A o \in Outputs : Running(o) => restore[o] = TRUE

\* A service started after others leaves the first one in its place.
LEMMA StartedInOrder ==
  ASSUME NEW S, NEW q \in Seq(S), NEW s \in S
  PROVE  /\ Append(q, s) \in Seq(S) /\ Append(q, s) # <<>>
         /\ q # <<>> => Append(q, s)[1] = q[1]
         /\ q = <<>> => Append(q, s)[1] = s
         /\ ToSet(Append(q, s)) = ToSet(q) \cup {s}
<1>1. /\ Append(q, s) \in Seq(S) /\ Len(Append(q, s)) = Len(q) + 1
      /\ \A i \in 1..Len(q) : Append(q, s)[i] = q[i]
      /\ Append(q, s)[Len(q) + 1] = s /\ ToSet(Append(q, s)) = ToSet(q) \cup {s}
  BY Appended
<1>2. Len(q) \in Nat /\ (q # <<>> => Len(q) >= 1) /\ (q = <<>> => Len(q) = 0)
  BY LenProperties, EmptySeq
<1>3. QED BY <1>1, <1>2

\* Nothing runs at first.
LEMMA InitRaw == ConsoleInit => RawInv
<1> SUFFICES ASSUME ConsoleInit PROVE RawInv
  OBVIOUS
<1>1. started = <<>> /\ raw = FALSE /\ restore = [o \in Outputs |-> FALSE]
  BY DEF ConsoleInit
<1>2. started \in Seq(Outputs \cup {"in"}) /\ ~InputFirst
  BY <1>1 DEF InputFirst
<1>3. raw \in BOOLEAN /\ restore \in [Outputs -> BOOLEAN]
  BY <1>1
<1>4. QED BY <1>2, <1>3 DEF RawInv

\* A step that starts nothing and sets the mode, if at all, to one an output saved.
LEMMA RestoresOnly ==
  ASSUME RawInv, UNCHANGED <<tty, started, restore>>,
         raw' = raw \/ \E o \in Outputs : Running(o) /\ raw' = restore[o]
  PROVE  RawInv'
<1>1. InputFirst' = InputFirst /\ \A o \in Outputs : Running(o)' = Running(o)
  BY DEF InputFirst, Running
<1>2. raw' \in BOOLEAN /\ (InputFirst => raw' = TRUE)
  BY DEF RawInv
<1>3. QED BY <1>1, <1>2 DEF RawInv

\* Every step keeps the saved modes raw.
LEMMA NextRaw == RawInv /\ [ConsoleNext]_consoleVars => RawInv'
<1> SUFFICES ASSUME RawInv, [ConsoleNext]_consoleVars PROVE RawInv'
  OBVIOUS
<1>1. CASE NewInput
  <2>1. /\ started' = Append(started, "in") /\ restore' = restore /\ tty' = tty
        /\ raw' = (raw \/ "in" \in tty) /\ ~Running("in")
    BY <1>1 DEF NewInput
  <2>2. "in" \in Outputs \cup {"in"} /\ "in" \notin Outputs
    BY DEF Outputs
  <2>3. /\ started' \in Seq(Outputs \cup {"in"})
        /\ ToSet(started') = ToSet(started) \cup {"in"}
        /\ started # <<>> => started'[1] = started[1]
    BY <2>1, <2>2, StartedInOrder DEF RawInv
  <2>4. started # <<>> \/ ToSet(started) = {}
    BY DEF ToSet
  <2>5. \A o \in Outputs : Running(o)' = Running(o)
    <3>1. ToSet(started) = ToSet(started) /\ ToSet(started') = ToSet(started')
      BY DEF ToSet, ToSet
    <3>2. QED BY <2>2, <2>3, <3>1 DEF Running
  <2>6. started # <<>> => started[1] # "in"
    <3>1. SUFFICES ASSUME started # <<>>, started[1] = "in" PROVE FALSE
      OBVIOUS
    <3>2. 1 \in DOMAIN started
      BY <3>1, LenProperties, EmptySeq DEF RawInv
    <3>3. QED BY <2>1, <3>1, <3>2 DEF Running, ToSet, ToSet
  <2>7. InputFirst' => started = <<>> /\ "in" \in tty
    BY <2>1, <2>3, <2>6 DEF InputFirst
  <2>8. raw' \in BOOLEAN /\ (InputFirst' => raw' = TRUE)
    BY <2>1, <2>7 DEF RawInv
  <2>9. InputFirst' => \A o \in Outputs : ~Running(o)'
    BY <2>4, <2>5, <2>7 DEF Running, ToSet, ToSet
  <2>10. QED BY <2>1, <2>3, <2>8, <2>9 DEF RawInv
<1>2. ASSUME NEW o \in Outputs, NewOutput(o) PROVE RawInv'
  <2>1. /\ started' = Append(started, o) /\ tty' = tty /\ raw' = raw
        /\ restore' = [restore EXCEPT ![o] = raw]
    BY <1>2 DEF NewOutput
  <2>2. o \in Outputs \cup {"in"} /\ o # "in"
    BY DEF Outputs
  <2>3. /\ started' \in Seq(Outputs \cup {"in"})
        /\ ToSet(started') = ToSet(started) \cup {o}
        /\ started # <<>> => started'[1] = started[1]
        /\ started = <<>> => started'[1] = o
    BY <2>1, <2>2, StartedInOrder DEF RawInv
  <2>4. InputFirst' => InputFirst
    BY <2>1, <2>2, <2>3 DEF InputFirst
  <2>5. restore' \in [Outputs -> BOOLEAN]
        /\ \A p \in Outputs : restore'[p] = IF p = o THEN raw ELSE restore[p]
    BY <2>1 DEF RawInv
  <2>6. ASSUME InputFirst', NEW p \in Outputs, Running(p)' PROVE restore'[p] = TRUE
    <3>1. p = o \/ Running(p)
      BY <2>3, <2>6 DEF Running, ToSet, ToSet
    <3>2. QED BY <2>4, <2>5, <2>6, <3>1 DEF RawInv
  <2>7. QED BY <2>1, <2>3, <2>4, <2>5, <2>6 DEF RawInv
<1>3. ASSUME NEW o \in Outputs, ClearScreen(o) \/ ResetOutput(o) PROVE RawInv'
  <2>1. Running(o) /\ RestoreMode(o) /\ UNCHANGED <<tty, started, restore>>
    BY <1>3 DEF ClearScreen, ResetOutput
  <2>2. raw' = raw \/ raw' = restore[o]
    BY <2>1 DEF RestoreMode
  <2>3. QED BY <2>1, <2>2, RestoresOnly
<1>4. CASE \E o \in Outputs, s \in Strings : OutputString(o, s)
  BY <1>4, RestoresOnly DEF OutputString
<1>5. CASE \E o \in Outputs, col \in 0..Cols, row \in 0..Rows : SetCursorPosition(o, col, row)
  BY <1>5, RestoresOnly DEF SetCursorPosition
<1>6. CASE (\E p \in Presses : Press(p)) \/ Arrive
  BY <1>6, RestoresOnly DEF Press, Arrive, termVars
<1>7. CASE ReadKey \/ ReadMore \/ TimeOut
  BY <1>7, RestoresOnly DEF ReadKey, ReadMore, TimeOut, termVars
<1>8. CASE \E s \in Sizes : Resize(s)
  BY <1>8, RestoresOnly DEF Resize
<1>9. CASE UNCHANGED consoleVars
  BY <1>9, RestoresOnly DEF consoleVars, termVars
<1>10. QED
  BY <1>1, <1>2, <1>3, <1>4, <1>5, <1>6, <1>7, <1>8, <1>9 DEF ConsoleNext

\* What outputs have saved of a terminal that the input made raw is its raw mode
\* (posix-fd.c: the start function saves, Reset and ClearScreen restore).
THEOREM SavedRaw == ConsoleSpec => []RawInv
<1>1. QED BY InitRaw, NextRaw, PTL DEF ConsoleSpec

\* Line editing and echo never come back on a terminal whose input was started
\* first, whatever outputs are started, reset and cleared afterwards.
THEOREM TerminalStaysRaw == ConsoleSpec => []StaysRaw
<1>1. RawInv => StaysRaw
  BY DEF RawInv, StaysRaw, InputFirst
<1>2. QED BY <1>1, SavedRaw, PTL

-----------------------------------------------------------------------------
(* The keys the program reads.  The sequences of the table are told apart  *)
(* by what they begin with: none is the beginning of another, so a buffer  *)
(* that holds one of them holds what the user pressed and nothing more.    *)

\* The letters from A on that are used in ranges, at their places.
LEMMA LetterRanges ==
  /\ "[" \notin Csi
  /\ Letters("A", "E") \cap {"1", "2", "3", "5", "6", "[", "~"} = {}
<1> DEFINE all == <<"@", "A", "B", "C", "D", "E", "F", "G", "H", "I", "J", "K", "L", "M", "N", "O",
                    "P", "Q", "R", "S", "T", "U", "V", "W", "X", "Y", "Z", "[">>
           Nth(c) == CHOOSE i \in DOMAIN all : all[i] = c
<1>1. DOMAIN all = 1..28
  OBVIOUS
<1>2. Nth("@") = 1 /\ Nth("X") = 25 /\ Nth("A") = 2 /\ Nth("E") = 6
  <2>1. /\ all[1] = "@" /\ all[25] = "X" /\ all[2] = "A" /\ all[6] = "E"
        /\ \A i \in 1..28 : /\ (all[i] = "@" => i = 1) /\ (all[i] = "X" => i = 25)
                            /\ (all[i] = "A" => i = 2) /\ (all[i] = "E" => i = 6)
    OBVIOUS
  <2> HIDE DEF all
  <2>2. Nth("@") \in 1..28 /\ all[Nth("@")] = "@"
    BY <1>1, <2>1
  <2>3. Nth("X") \in 1..28 /\ all[Nth("X")] = "X"
    BY <1>1, <2>1
  <2>4. Nth("A") \in 1..28 /\ all[Nth("A")] = "A"
    BY <1>1, <2>1
  <2>5. Nth("E") \in 1..28 /\ all[Nth("E")] = "E"
    BY <1>1, <2>1
  <2>6. QED BY <2>1, <2>2, <2>3, <2>4, <2>5
<1>3. Letters("@", "X") = {all[i] : i \in 1..25} /\ Letters("A", "E") = {all[i] : i \in 2..6}
  BY <1>2 DEF Letters
<1>4. \A i \in 1..25 : all[i] # "["
  OBVIOUS
<1>5. \A i \in 2..6 : all[i] \notin {"1", "2", "3", "5", "6", "[", "~"}
  OBVIOUS
<1>6. QED BY <1>3, <1>4, <1>5 DEF Csi

\* The digits are digits.
LEMMA DigitsAre == \A a \in 0..9, b \in 0..9 : Digits(a, b) \cap {"[", "O", "~"} = {}
<1>1. \A i \in 0..9 : <<"0", "1", "2", "3", "4", "5", "6", "7", "8", "9">>[i + 1] \notin {"[", "O", "~"}
  OBVIOUS
<1>2. QED BY <1>1 DEF Digits

\* The kinds of the sequences by their first three characters, ESC not counted.
Shape(s) ==
  /\ Len(s) \in 1..5
  /\ \/ s[1] \notin {"[", "O"} /\ Len(s) = 1
     \/ s[1] = "O" /\ Len(s) = 2
     \/ s[1] = "[" /\ Len(s) = 2 /\ s[2] # "["
     \/ s[1] = "[" /\ Len(s) = 3 /\ s[2] = "[" /\ s[3] \notin {"1", "2", "3", "5", "6"}
     \/ /\ s[1] = "[" /\ s[2] = "[" /\ Len(s) \in 4..5 /\ s[Len(s)] = "~"
        /\ s[3] \in {"1", "2", "3", "5", "6"} /\ (Len(s) = 5 => s[4] # "~")

\* Every sequence of the table is of one of them.
LEMMA KeyShapes == \A s \in KeySequences : Shape(s)
<1>1. \A c \in Csi : Shape(<<"[", c>>)
  BY LetterRanges DEF Shape
<1>2. \A c \in Letters("A", "E") : Shape(<<"[", "[", c>>)
  BY LetterRanges DEF Shape
<1>3. ASSUME NEW n \in Tilde PROVE Shape(<<"[", "[">> \o n \o <<"~">>)
  <2>1. PICK S : n \in Seq(S) /\ {"[", "~"} \subseteq S /\ Len(n) \in 1..2
                 /\ n[1] \in {"1", "2", "3", "5", "6"} /\ (Len(n) = 2 => n[2] # "~")
    <3>1. CASE n \in {<<d>> : d \in {"2", "3", "5", "6"}}
      <4>1. PICK d \in {"2", "3", "5", "6"} : n = <<d>>
        BY <3>1
      <4>2. n \in Seq({"[", "~", d}) /\ Len(n) = 1 /\ n[1] = d
        BY <4>1
      <4>3. QED BY <4>2
    <3>2. CASE n \notin {<<d>> : d \in {"2", "3", "5", "6"}}
      <4>1. \/ n \in {<<"1", d>> : d \in Digits(1, 5) \cup Digits(7, 9)}
            \/ n \in {<<"2", d>> : d \in {"0", "1", "3", "4"}}
        BY <1>3, <3>2 DEF Tilde
      <4>2. 1 \in 0..9 /\ 5 \in 0..9 /\ 7 \in 0..9 /\ 9 \in 0..9
        OBVIOUS
      <4>3. "~" \notin Digits(1, 5) \cup Digits(7, 9)
        BY <4>2, DigitsAre
      <4>4. PICK e, d : e \in {"1", "2"} /\ n = <<e, d>> /\ d # "~"
        BY <4>1, <4>3
      <4> DEFINE T == {"[", "~", e, d}
      <4>5. n \in Seq(T) /\ {"[", "~"} \subseteq T
        BY <4>4
      <4>6. Len(n) \in 1..2 /\ n[1] = e /\ n[2] = d
        BY <4>4
      <4> HIDE DEF T
      <4>7. e \in {"1", "2", "3", "5", "6"} /\ d # "~"
        BY <4>4
      <4>8. QED BY <4>5, <4>6, <4>7
    <3>3. QED BY <3>1, <3>2
  <2>2. DEFINE m == <<"[", "[">> \o n
               s == m \o <<"~">>
  <2>3. /\ <<"[", "[">> \in Seq(S) /\ <<"~">> \in Seq(S)
        /\ Len(<<"[", "[">>) = 2 /\ <<"[", "[">>[1] = "[" /\ <<"[", "[">>[2] = "["
        /\ Len(<<"~">>) = 1 /\ <<"~">>[1] = "~"
    BY <2>1
  <2>4. m \in Seq(S) /\ Len(m) = Len(n) + 2 /\ m[1] = "[" /\ m[2] = "["
        /\ \A i \in 1..Len(n) : m[i + 2] = n[i]
    BY <2>1, <2>3, Concatenated, ConcatProperties
  <2> HIDE DEF m
  <2>5. Len(s) = Len(n) + 3 /\ s[1] = "[" /\ s[2] = "[" /\ s[Len(n) + 3] = "~"
        /\ \A i \in 1..Len(n) : s[i + 2] = n[i]
    BY <2>1, <2>3, <2>4, ConcatProperties
  <2> HIDE DEF s
  <2>6. Shape(s)
    BY <2>1, <2>5 DEF Shape
  <2>7. QED BY <2>6 DEF s, m
<1>4. \A c : Shape(<<"O", c>>)
  BY DEF Shape
<1>5. ASSUME NEW c \in {"h", "k", "!", "@", "+", "-", "?", "/"} \cup Digits(0, 9)
      PROVE  Shape(<<c>>)
  <2>1. 0 \in 0..9 /\ 9 \in 0..9
    OBVIOUS
  <2>2. c \notin {"[", "O"}
    BY <1>5, <2>1, DigitsAre
  <2>3. QED BY <2>2 DEF Shape
<1>6. QED BY <1>1, <1>2, <1>3, <1>4, <1>5 DEF KeySequences

\* None of them is the beginning of another.
LEMMA PrefixFree ==
  ASSUME NEW s \in Known, NEW t \in Known, Len(s) <= Len(t),
         \A i \in 1..Len(s) : s[i] = t[i]
  PROVE  Len(s) = Len(t)
<1>1. PICK u \in KeySequences : s = <<"ESC">> \o u
  BY DEF Known
<1>2. PICK v \in KeySequences : t = <<"ESC">> \o v
  BY DEF Known
<1>3. Shape(u) /\ Shape(v)
  BY KeyShapes
<1>4. /\ Len(s) = Len(u) + 1 /\ \A i \in 1..Len(u) : s[i + 1] = u[i]
      /\ Len(t) = Len(v) + 1 /\ \A i \in 1..Len(v) : t[i + 1] = v[i]
  BY <1>1, <1>2
<1>5. Len(u) <= Len(v) /\ \A i \in 1..Len(u) : u[i] = v[i]
  BY <1>3, <1>4 DEF Shape
<1>6. Len(u) = Len(v)
  BY <1>3, <1>5 DEF Shape
<1>7. QED BY <1>4, <1>6

\* What a terminal can send
Byte == UNION {ToSet(p) : p \in Presses}

\* What the program can be owed
Key == {KeyOf(p) : p \in Presses}

\* The presses that can come are sequences of bytes, not empty, and fit into the buffer.
LEMMA PressesAre ==
  ASSUME ConstantsFit, NEW p \in Presses
  PROVE  /\ p \in Seq(Byte) /\ Len(p) \in Nat \ {0}
         /\ p \in Known => p[1] = "ESC" /\ Len(p) \in 2..EscapeSize
         /\ p \notin Known /\ Understood(p) => p[1] # "ESC" /\ Len(p) = 1
<1>1. p \in Seq(ToSet(p)) /\ p # <<>> /\ (p \in Known => Len(p) <= EscapeSize)
  BY DEF ConstantsFit, ToSet, ToSet
<1>2. ToSet(p) \subseteq Byte
  BY DEF Byte
<1>3. p \in [1..Len(p) -> ToSet(p)] /\ Len(p) \in Nat \ {0}
  BY <1>1, LenProperties, EmptySeq
<1>4. p \in [1..Len(p) -> Byte]
  BY <1>2, <1>3
<1>5. p \in Seq(Byte)
  BY <1>3, <1>4, SeqDef
<1>6. ASSUME p \in Known PROVE p[1] = "ESC" /\ Len(p) \in 2..EscapeSize
  <2>1. PICK u \in KeySequences : p = <<"ESC">> \o u
    BY <1>6 DEF Known
  <2>2. Shape(u)
    BY KeyShapes
  <2>3. Len(p) = Len(u) + 1 /\ p[1] = "ESC"
    BY <2>1
  <2>4. EscapeSize \in Nat
    BY DEF ConstantsFit
  <2>5. QED BY <1>1, <2>2, <2>3, <2>4, <1>6 DEF Shape
<1>7. QED BY <1>3, <1>5, <1>6 DEF Understood

\* The bytes s are those of the presses ps, one after the other, each one the
\* code knows, which are the keys; cut tells where each of them ends.
OnTheWay(s, keys, ps, cut) ==
  /\ ps \in Seq(Presses) /\ Len(ps) = Len(keys)
  /\ cut \in [0..Len(keys) -> Nat] /\ cut[0] = 0 /\ cut[Len(keys)] = Len(s)
  /\ \A j, k \in 0..Len(keys) : j <= k => cut[j] <= cut[k]
  /\ \A k \in 1..Len(keys) :
       /\ Understood(ps[k]) /\ keys[k] = KeyOf(ps[k])
       /\ cut[k] = cut[k - 1] + Len(ps[k])
       /\ \A i \in 1..Len(ps[k]) : s[cut[k - 1] + i] = ps[k][i]

\* One more press
LEMMA MorePressed ==
  ASSUME ConstantsFit, NEW s \in Seq(Byte), NEW keys \in Seq(Key), NEW ps, NEW cut,
         OnTheWay(s, keys, ps, cut), NEW p \in Presses, Understood(p)
  PROVE  \E cut2 : OnTheWay(s \o p, Append(keys, KeyOf(p)), Append(ps, p), cut2)
<1> DEFINE n == Len(keys)
           t == s \o p
           ks == Append(keys, KeyOf(p))
           qs == Append(ps, p)
           c == [k \in 0..(n + 1) |-> IF k = n + 1 THEN Len(t) ELSE cut[k]]
<1>1. p \in Seq(Byte) /\ Len(p) \in Nat \ {0} /\ Len(s) \in Nat /\ n \in Nat
  BY PressesAre, LenProperties
<1>2. /\ Len(t) = Len(s) + Len(p)
      /\ \A i \in 1..Len(s) : t[i] = s[i]
      /\ \A i \in 1..Len(p) : t[Len(s) + i] = p[i]
  BY <1>1, Concatenated, ConcatProperties
<1>3. KeyOf(p) \in Key
  BY DEF Key
<1>4. /\ Len(ks) = n + 1 /\ ks[n + 1] = KeyOf(p) /\ \A i \in 1..n : ks[i] = keys[i]
  BY <1>3, Appended
<1>5. ps \in Seq(Presses) /\ Len(ps) = n
  BY DEF OnTheWay
<1>6. /\ qs \in Seq(Presses) /\ Len(qs) = n + 1 /\ qs[n + 1] = p
      /\ \A i \in 1..n : qs[i] = ps[i]
  BY <1>5, Appended
<1>7. /\ cut \in [0..n -> Nat] /\ cut[0] = 0 /\ cut[n] = Len(s)
      /\ \A j, k \in 0..n : j <= k => cut[j] <= cut[k]
  BY DEF OnTheWay
<1> HIDE DEF t, ks, qs
<1>8. c \in [0..(n + 1) -> Nat] /\ c[n + 1] = Len(s) + Len(p) /\ \A k \in 0..n : c[k] = cut[k]
  BY <1>1, <1>2, <1>7
<1>9. c[0] = 0 /\ c[n + 1] = Len(t) /\ c[n] = Len(s)
  BY <1>1, <1>2, <1>7, <1>8
<1> HIDE DEF c
<1>10. ASSUME NEW j \in 0..(n + 1), NEW k \in 0..(n + 1), j <= k PROVE c[j] <= c[k]
  <2>1. CASE k = n + 1 /\ j # n + 1
    <3>1. j \in 0..n /\ n \in 0..n
      BY <1>1, <2>1
    <3>2. cut[j] <= Len(s) /\ cut[j] \in Nat
      BY <1>7, <3>1
    <3>3. QED BY <1>1, <1>8, <2>1, <3>1, <3>2
  <2>2. CASE k = n + 1 /\ j = n + 1
    BY <1>1, <1>8, <2>2
  <2>3. CASE k # n + 1
    <3>1. j \in 0..n /\ k \in 0..n
      BY <1>1, <1>10, <2>3
    <3>2. QED BY <1>7, <1>8, <1>10, <3>1
  <2>4. QED BY <2>1, <2>2, <2>3
<1>11. ASSUME NEW k \in 1..(n + 1)
       PROVE  /\ Understood(qs[k]) /\ ks[k] = KeyOf(qs[k])
              /\ c[k] = c[k - 1] + Len(qs[k])
              /\ \A i \in 1..Len(qs[k]) : t[c[k - 1] + i] = qs[k][i]
  <2>1. CASE k = n + 1
    <3>1. k - 1 = n
      BY <1>1, <2>1
    <3>2. qs[k] = p /\ ks[k] = KeyOf(p) /\ c[k] = Len(s) + Len(p) /\ c[k - 1] = Len(s)
      BY <1>4, <1>6, <1>8, <1>9, <2>1, <3>1
    <3>3. QED BY <1>2, <3>2
  <2>2. CASE k # n + 1
    <3>1. k \in 1..n /\ k \in 0..n /\ k - 1 \in 0..n /\ n \in 0..n
      BY <1>1, <2>2
    <3>2. /\ Understood(ps[k]) /\ keys[k] = KeyOf(ps[k])
          /\ cut[k] = cut[k - 1] + Len(ps[k])
          /\ \A i \in 1..Len(ps[k]) : s[cut[k - 1] + i] = ps[k][i]
      BY <3>1 DEF OnTheWay
    <3>3. qs[k] = ps[k] /\ ks[k] = keys[k] /\ c[k] = cut[k] /\ c[k - 1] = cut[k - 1]
      BY <1>4, <1>6, <1>8, <3>1
    <3>4. ps[k] \in Presses
      BY <1>5, <3>1, ElementOfSeq
    <3>5. Len(ps[k]) \in Nat
      BY <3>4, PressesAre
    <3>6. cut[k] <= Len(s) /\ cut[k] \in Nat /\ cut[k - 1] \in Nat
      BY <1>7, <3>1
    <3>7. ASSUME NEW i \in 1..Len(ps[k]) PROVE t[cut[k - 1] + i] = ps[k][i]
      <4>1. cut[k] = cut[k - 1] + Len(ps[k])
        BY <3>2
      <4>2. Len(s) \in Nat
        BY <1>1
      <4>3. cut[k - 1] + i \in 1..Len(s)
        BY <3>5, <3>6, <4>1, <4>2
      <4>4. QED BY <1>2, <3>2, <4>3
    <3>8. QED BY <3>2, <3>3, <3>7
  <2>3. QED BY <2>1, <2>2
<1>12. OnTheWay(t, ks, qs, c)
  BY <1>1, <1>4, <1>6, <1>8, <1>9, <1>10, <1>11 DEF OnTheWay
<1>13. QED BY <1>12 DEF t, ks, qs

\* What is first
LEMMA FirstPress ==
  ASSUME ConstantsFit, NEW s \in Seq(Byte), NEW keys \in Seq(Key), NEW ps, NEW cut,
         OnTheWay(s, keys, ps, cut), s # <<>>
  PROVE  /\ keys # <<>> /\ ps[1] \in Presses /\ Understood(ps[1])
         /\ Head(keys) = KeyOf(ps[1])
         /\ Len(ps[1]) \in 1..Len(s) /\ \A i \in 1..Len(ps[1]) : s[i] = ps[1][i]
<1>1. Len(s) \in Nat \ {0} /\ Len(keys) \in Nat
  BY EmptySeq, LenProperties
<1>2. /\ ps \in Seq(Presses) /\ Len(ps) = Len(keys)
      /\ cut \in [0..Len(keys) -> Nat] /\ cut[0] = 0 /\ cut[Len(keys)] = Len(s)
      /\ \A j, k \in 0..Len(keys) : j <= k => cut[j] <= cut[k]
  BY DEF OnTheWay
<1>3. Len(keys) # 0
  BY <1>1, <1>2
<1>4. keys # <<>> /\ 1 \in 1..Len(keys) /\ 1 \in 0..Len(keys) /\ Len(keys) \in 0..Len(keys) /\ 1 <= Len(keys)
  BY <1>1, <1>3
<1>5. ps[1] \in Presses
  BY <1>2, <1>4, ElementOfSeq
<1>6. Len(ps[1]) \in Nat \ {0}
  BY <1>5, PressesAre
<1>7. /\ Understood(ps[1]) /\ keys[1] = KeyOf(ps[1])
      /\ cut[1] = cut[1 - 1] + Len(ps[1])
      /\ \A i \in 1..Len(ps[1]) : s[cut[1 - 1] + i] = ps[1][i]
  BY <1>4 DEF OnTheWay
<1>8. cut[1] = Len(ps[1]) /\ \A i \in 1..Len(ps[1]) : s[i] = ps[1][i]
  <2>1. cut[1 - 1] = 0
    BY <1>2
  <2>2. \A i \in 1..Len(ps[1]) : 0 + i = i
    BY <1>6
  <2>3. cut[1] = 0 + Len(ps[1]) /\ \A i \in 1..Len(ps[1]) : s[0 + i] = ps[1][i]
    BY <1>7, <2>1
  <2>4. QED BY <1>6, <2>2, <2>3
<1>9. cut[1] <= Len(s)
  BY <1>2, <1>4
<1>10. QED BY <1>1, <1>4, <1>5, <1>6, <1>7, <1>8, <1>9, HeadAndTail

\* It has been read.
LEMMA FirstRead ==
  ASSUME ConstantsFit, NEW s \in Seq(Byte), NEW keys \in Seq(Key), NEW ps, NEW cut,
         OnTheWay(s, keys, ps, cut), s # <<>>,
         NEW t \in Seq(Byte), Len(s) = Len(ps[1]) + Len(t),
         \A i \in 1..Len(t) : t[i] = s[Len(ps[1]) + i]
  PROVE  \E cut2 : OnTheWay(t, Tail(keys), Tail(ps), cut2)
<1> DEFINE n == Len(keys)
           m == Len(ps[1])
           ks == Tail(keys)
           qs == Tail(ps)
           c == [k \in 0..(n - 1) |-> cut[k + 1] - m]
<1>1. /\ keys # <<>> /\ ps[1] \in Presses /\ m \in 1..Len(s)
  BY FirstPress
<1>2. n \in Nat \ {0} /\ m \in Nat \ {0} /\ Len(s) \in Nat /\ Len(t) \in Nat
  BY <1>1, EmptySeq, LenProperties
<1>3. ps \in Seq(Presses) /\ Len(ps) = n /\ ps # <<>>
  BY <1>2, EmptySeq DEF OnTheWay
<1>4. Len(ks) = n - 1 /\ \A i \in 1..(n - 1) : ks[i] = keys[i + 1]
  BY <1>1, HeadAndTail
<1>5. qs \in Seq(Presses) /\ Len(qs) = n - 1 /\ \A i \in 1..(n - 1) : qs[i] = ps[i + 1]
  BY <1>3, HeadAndTail
<1>6. /\ cut \in [0..n -> Nat] /\ cut[0] = 0 /\ cut[n] = Len(s)
      /\ \A j, k \in 0..n : j <= k => cut[j] <= cut[k]
  BY DEF OnTheWay
<1>7. cut[1] = m
  <2>1. 1 \in 1..n
    BY <1>2
  <2>2. cut[1] = cut[1 - 1] + Len(ps[1])
    BY <2>1 DEF OnTheWay
  <2>3. QED BY <1>2, <1>6, <2>2
<1>0. Len(s) = m + Len(t) /\ \A i \in 1..Len(t) : t[i] = s[m + i]
  OBVIOUS
<1> HIDE DEF ks, qs, n, m
<1>8. ASSUME NEW k \in 1..n PROVE cut[k] - m \in Nat
  <2>1. 1 \in 0..n /\ k \in 0..n /\ 1 <= k
    BY <1>2
  <2>2. m <= cut[k] /\ cut[k] \in Nat
    BY <1>6, <1>7, <2>1
  <2>3. QED BY <1>2, <2>2
<1>9. \A k \in 0..(n - 1) : k + 1 \in 1..n /\ k + 1 \in 0..n
  BY <1>2
<1>10. c \in [0..(n - 1) -> Nat] /\ \A k \in 0..(n - 1) : c[k] = cut[k + 1] - m
  <2>1. \A k \in 0..(n - 1) : cut[k + 1] - m \in Nat
    BY <1>8, <1>9
  <2>2. QED BY <2>1
<1> HIDE DEF c
<1>11. c[0] = 0 /\ c[n - 1] = Len(t)
  <2>1. 0 \in 0..(n - 1) /\ n - 1 \in 0..(n - 1) /\ (n - 1) + 1 = n /\ 0 + 1 = 1
    BY <1>2
  <2>2. c[0] = cut[0 + 1] - m /\ c[n - 1] = cut[(n - 1) + 1] - m
    BY <1>10, <2>1
  <2>3. c[0] = m - m
    BY <1>7, <2>1, <2>2
  <2>4. c[n - 1] = Len(s) - m
    BY <1>6, <2>1, <2>2
  <2>5. Len(s) = m + Len(t)
    BY <1>0
  <2>6. m - m = 0 /\ (m + Len(t)) - m = Len(t)
    BY ONLY <1>2
  <2>7. QED BY ONLY <2>3, <2>4, <2>5, <2>6
<1>12. ASSUME NEW j \in 0..(n - 1), NEW k \in 0..(n - 1), j <= k PROVE c[j] <= c[k]
  <2>1. cut[j + 1] <= cut[k + 1] /\ cut[j + 1] \in Nat /\ cut[k + 1] \in Nat
    <3>1. j + 1 <= k + 1
      BY <1>2, <1>12
    <3>2. QED BY <1>6, <1>9, <3>1
  <2>2. c[j] = cut[j + 1] - m /\ c[k] = cut[k + 1] - m
    BY <1>10
  <2>3. QED BY <1>2, <2>1, <2>2
<1>13. ASSUME NEW k \in 1..(n - 1)
       PROVE  /\ Understood(qs[k]) /\ ks[k] = KeyOf(qs[k])
              /\ c[k] = c[k - 1] + Len(qs[k])
              /\ \A i \in 1..Len(qs[k]) : t[c[k - 1] + i] = qs[k][i]
  <2>1. /\ k + 1 \in 1..n /\ (k + 1) - 1 = k /\ (k - 1) + 1 = k
        /\ k \in 0..(n - 1) /\ k - 1 \in 0..(n - 1) /\ k \in 1..n
    BY <1>2
  <2>2. /\ Understood(ps[k + 1]) /\ keys[k + 1] = KeyOf(ps[k + 1])
        /\ cut[k + 1] = cut[(k + 1) - 1] + Len(ps[k + 1])
        /\ \A i \in 1..Len(ps[k + 1]) : s[cut[(k + 1) - 1] + i] = ps[k + 1][i]
    BY <2>1 DEF OnTheWay, n
  <2>3. qs[k] = ps[k + 1] /\ ks[k] = keys[k + 1]
    BY <1>4, <1>5
  <2>4. c[k] = cut[k + 1] - m /\ c[k - 1] = cut[k] - m
    BY <1>10, <2>1
  <2>5. ps[k + 1] \in Presses
    BY <1>3, <2>1, ElementOfSeq
  <2>6. Len(ps[k + 1]) \in Nat
    BY <2>5, PressesAre
  <2>7. cut[k] \in Nat /\ cut[k + 1] \in Nat /\ cut[k + 1] <= Len(s) /\ cut[k] - m \in Nat
    <3>1. k \in 0..n /\ k + 1 \in 0..n /\ n \in 0..n /\ k + 1 <= n
      BY <1>2, <2>1
    <3>2. QED BY <1>6, <1>8, <2>1, <3>1
  <2>8. cut[k + 1] = cut[k] + Len(ps[k + 1])
    BY <2>1, <2>2
  <2>9. ASSUME NEW i \in 1..Len(ps[k + 1]) PROVE t[c[k - 1] + i] = ps[k + 1][i]
    <3>1. c[k - 1] + i \in 1..Len(t) /\ m + (c[k - 1] + i) = cut[k] + i
      <4> DEFINE l == Len(ps[k + 1])
      <4>1. i \in Nat \ {0} /\ i <= l /\ l \in Nat
        BY <2>6
      <4>2. Len(s) = m + Len(t) /\ cut[k + 1] = cut[k] + l
        BY <1>0, <2>8
      <4> DEFINE x == cut[k]
      <4>3. x \in Nat /\ x - m \in Nat /\ x + l <= m + Len(t) /\ c[k - 1] = x - m
        BY <2>4, <2>7, <4>2
      <4> HIDE DEF l, x
      <4>4. (x - m) + i \in 1..Len(t) /\ m + ((x - m) + i) = x + i
        BY <1>2, <4>1, <4>3
      <4>5. QED BY <4>3, <4>4 DEF x
    <3>2. t[c[k - 1] + i] = s[m + (c[k - 1] + i)]
      BY <1>0, <3>1
    <3>3. QED BY <2>1, <2>2, <3>1, <3>2
  <2>10. c[k] = c[k - 1] + Len(ps[k + 1])
    <3> DEFINE l == Len(ps[k + 1])
               x == cut[k]
    <3>1. x \in Nat /\ l \in Nat /\ c[k] = cut[k + 1] - m /\ c[k - 1] = x - m /\ cut[k + 1] = x + l
      BY <2>4, <2>6, <2>7, <2>8
    <3> HIDE DEF l, x
    <3>2. (x + l) - m = (x - m) + l
      BY ONLY <3>1, <1>2
    <3>3. c[k] = c[k - 1] + l
      BY ONLY <3>1, <3>2
    <3>4. QED BY <3>3 DEF l
  <2>11. QED BY <2>2, <2>3, <2>9, <2>10
<1>14. OnTheWay(t, ks, qs, c)
  BY <1>2, <1>4, <1>5, <1>10, <1>11, <1>12, <1>13 DEF OnTheWay
<1>15. QED BY <1>14 DEF ks, qs

\* All that was sent and is not part of a key yet, in order
Stream == escape \o (arrived \o coming)

\* It is what the keys owed are made of.  A buffer that is in use holds the
\* beginning of a sequence of the table, but not all of it.
KeysOwed ==
  /\ line = <<>>
  /\ \E ps, cut : /\ OnTheWay(Stream, owed, ps, cut)
                  /\ escape # <<>> => ps[1] \in Known /\ Len(escape) < Len(ps[1])

\* The inductive invariant of the keys
KeyInv ==
  /\ \A s \in {coming, line, arrived, escape} : s \in Seq(Byte)
  /\ owed \in Seq(Key) /\ wrong = FALSE /\ strange \in BOOLEAN
  /\ IF strange THEN owed = <<>> ELSE KeysOwed

\* Nothing was sent, nothing is owed.
LEMMA NothingOwed == \E cut : OnTheWay(<<>>, <<>>, <<>>, cut)
<1> DEFINE c == [k \in 0..0 |-> 0]
<1>1. c \in [0..0 -> Nat] /\ c[0] = 0 /\ \A j, k \in 0..0 : j <= k => c[j] <= c[k]
  OBVIOUS
<1>2. <<>> \in Seq(Presses) /\ Len(<<>>) = 0
  BY EmptySeq
<1> HIDE DEF c
<1>3. OnTheWay(<<>>, <<>>, <<>>, c)
  BY <1>1, <1>2 DEF OnTheWay
<1>4. QED BY <1>3

\* At first nothing was.
LEMMA InitKeys == ConsoleInit => KeyInv
<1> SUFFICES ASSUME ConsoleInit PROVE KeyInv
  OBVIOUS
<1>1. /\ coming = <<>> /\ line = <<>> /\ arrived = <<>> /\ escape = <<>>
      /\ owed = <<>> /\ wrong = FALSE /\ strange = FALSE
  BY DEF ConsoleInit
<1>2. <<>> \in Seq(Byte) /\ <<>> \in Seq(Key)
  BY EmptySeq
<1>3. Stream = <<>>
  BY <1>1, <1>2, ConcatEmptySeq DEF Stream
<1>4. KeysOwed
  BY <1>1, <1>3, NothingOwed DEF KeysOwed
<1>5. QED BY <1>1, <1>2, <1>4 DEF KeyInv

\* The parts of what is on its way
LEMMA StreamIs ==
  ASSUME KeyInv
  PROVE  /\ {coming, line, arrived, escape, Stream, arrived \o coming} \subseteq Seq(Byte)
         /\ escape = <<>> => Stream = arrived \o coming
         /\ Stream = <<>> => escape = <<>> /\ arrived = <<>> /\ coming = <<>>
<1>1. {coming, line, arrived, escape} \subseteq Seq(Byte)
  BY DEF KeyInv
<1>2. arrived \o coming \in Seq(Byte)
  BY <1>1, ConcatProperties
<1>3. Stream \in Seq(Byte)
  BY <1>1, <1>2, ConcatProperties DEF Stream
<1>4. escape = <<>> => Stream = arrived \o coming
  BY <1>2, ConcatEmptySeq DEF Stream
<1>5. Stream = <<>> => escape = <<>> /\ arrived \o coming = <<>>
  BY <1>1, <1>2, ConcatEqualIffEmpty DEF Stream
<1>6. arrived \o coming = <<>> => arrived = <<>> /\ coming = <<>>
  BY <1>1, ConcatEqualIffEmpty
<1>7. QED BY <1>1, <1>2, <1>3, <1>4, <1>5, <1>6

\* The user presses a key.
LEMMA PressKeeps ==
  ASSUME ConstantsFit, KeyInv, NEW p \in Presses, Press(p)
  PROVE  KeyInv'
<1>1. /\ coming' = coming \o p /\ strange' = (~Understood(p) \/ (strange /\ ~Quiet))
      /\ owed' = IF strange' THEN <<>> ELSE Append(owed, KeyOf(p))
      /\ line' = line /\ arrived' = arrived /\ escape' = escape /\ wrong' = wrong
  BY DEF Press
<1>2. p \in Seq(Byte) /\ {coming, line, arrived, escape, Stream, arrived \o coming} \subseteq Seq(Byte)
  BY PressesAre, StreamIs
<1>3. coming' \in Seq(Byte)
  BY <1>1, <1>2, ConcatProperties
<1>4. KeyOf(p) \in Key /\ owed \in Seq(Key) /\ wrong = FALSE /\ <<>> \in Seq(Key)
  BY EmptySeq DEF Key, KeyInv
<1>5. owed' \in Seq(Key) /\ wrong' = FALSE /\ strange' \in BOOLEAN
  BY <1>1, <1>4, AppendProperties
<1>6. ASSUME ~strange' PROVE KeysOwed'
  <2>1. Stream' = Stream \o p
    <3>1. (arrived \o coming) \o p = arrived \o (coming \o p)
      <4>1. arrived \in Seq(Byte) /\ coming \in Seq(Byte) /\ p \in Seq(Byte)
        BY <1>2
      <4>2. QED BY ONLY <4>1, ConcatAssociative
    <3>2. (escape \o (arrived \o coming)) \o p = escape \o ((arrived \o coming) \o p)
      <4> DEFINE rest == arrived \o coming
      <4>1. escape \in Seq(Byte) /\ rest \in Seq(Byte) /\ p \in Seq(Byte)
        BY <1>2
      <4> HIDE DEF rest
      <4>2. (escape \o rest) \o p = escape \o (rest \o p)
        BY <4>1, ConcatAssociative
      <4>3. QED BY <4>2 DEF rest
    <3>3. QED BY <1>1, <3>1, <3>2 DEF Stream
  <2>2. Understood(p) /\ owed' = Append(owed, KeyOf(p))
    BY <1>1, <1>6
  <2>3. line = <<>> /\ \E ps, cut : /\ OnTheWay(Stream, owed, ps, cut)
                                    /\ escape # <<>> => ps[1] \in Known /\ Len(escape) < Len(ps[1])
    <3>1. CASE strange
      <4>1. Quiet /\ owed = <<>>
        BY <1>1, <1>6, <3>1 DEF KeyInv
      <4>2. coming = <<>> /\ line = <<>> /\ arrived = <<>> /\ escape = <<>>
        BY <4>1 DEF Quiet
      <4>3. Stream = <<>>
        BY <1>2, <4>2, ConcatEmptySeq DEF Stream
      <4>4. QED BY <4>1, <4>2, <4>3, NothingOwed
    <3>2. CASE ~strange
      BY <3>2 DEF KeyInv, KeysOwed
    <3>3. QED BY <3>1, <3>2
  <2>4. PICK ps, cut : /\ OnTheWay(Stream, owed, ps, cut)
                       /\ escape # <<>> => ps[1] \in Known /\ Len(escape) < Len(ps[1])
    BY <2>3
  <2>5. PICK cut2 : OnTheWay(Stream', owed', Append(ps, p), cut2)
    BY <1>2, <1>4, <2>1, <2>2, <2>4, MorePressed
  <2>6. escape # <<>> => Append(ps, p)[1] = ps[1]
    <3>1. SUFFICES ASSUME escape # <<>> PROVE Append(ps, p)[1] = ps[1]
      OBVIOUS
    <3>2. owed # <<>>
      BY <1>2, <1>4, <2>4, <3>1, StreamIs, FirstPress
    <3>3. Len(owed) \in Nat \ {0}
      BY <1>4, <3>2, EmptySeq
    <3>4. ps \in Seq(Presses) /\ 1 \in 1..Len(ps)
      BY <2>4, <3>3 DEF OnTheWay
    <3>5. QED BY <3>4, Appended
  <2>7. QED BY <1>1, <2>3, <2>4, <2>5, <2>6 DEF KeysOwed
<1>7. strange' => owed' = <<>>
  BY <1>1
<1>8. QED BY <1>1, <1>2, <1>3, <1>5, <1>6, <1>7 DEF KeyInv

\* A byte can be read, or is edited.
LEMMA ArriveKeeps ==
  ASSUME KeyInv, Arrive
  PROVE  KeyInv'
<1> DEFINE c == Head(coming)
           cooked == "in" \in tty /\ ~raw
<1>1. /\ coming # <<>> /\ coming' = Tail(coming)
      /\ line' = IF cooked /\ c # "NL" THEN Append(line, c) ELSE <<>>
      /\ arrived' = IF cooked /\ c # "NL" THEN arrived ELSE arrived \o line \o <<c>>
      /\ strange' = (strange \/ cooked)
      /\ owed' = IF cooked THEN <<>> ELSE owed
      /\ escape' = escape /\ wrong' = wrong
  BY DEF Arrive
<1>2. {coming, line, arrived, escape, Stream, arrived \o coming} \subseteq Seq(Byte)
  BY StreamIs
<1>3. c \in Byte /\ Tail(coming) \in Seq(Byte) /\ coming = <<c>> \o Tail(coming) /\ <<c>> \in Seq(Byte)
  <2>1. c \in Byte /\ Tail(coming) \in Seq(Byte)
    BY <1>1, <1>2, HeadTailProperties
  <2>2. <<c>> \in Seq(Byte)
    BY <2>1
  <2>3. /\ Len(coming) \in Nat \ {0} /\ Len(Tail(coming)) = Len(coming) - 1 /\ c = coming[1]
        /\ \A i \in 1..(Len(coming) - 1) : Tail(coming)[i] = coming[i + 1]
    BY <1>1, <1>2, HeadAndTail
  <2>4. /\ <<c>> \o Tail(coming) \in Seq(Byte) /\ Len(<<c>> \o Tail(coming)) = Len(coming)
        /\ \A i \in 1..Len(coming) : (<<c>> \o Tail(coming))[i] = IF i <= 1 THEN c ELSE Tail(coming)[i - 1]
    BY <2>1, <2>2, <2>3, ConcatProperties
  <2>5. \A i \in 1..Len(coming) : (<<c>> \o Tail(coming))[i] = coming[i]
    BY <2>3, <2>4
  <2>6. QED BY <1>2, <2>1, <2>2, <2>4, <2>5, SeqEqual
<1> HIDE DEF c, cooked
<1>4. arrived \o line \o <<c>> \in Seq(Byte) /\ Append(line, c) \in Seq(Byte) /\ <<>> \in Seq(Byte)
  BY <1>2, <1>3, ConcatProperties, AppendProperties, EmptySeq
<1>5. \A s \in {coming', line', arrived', escape'} : s \in Seq(Byte)
  BY <1>1, <1>2, <1>3, <1>4
<1>6. owed' \in Seq(Key) /\ wrong' = FALSE /\ strange' \in BOOLEAN
  BY <1>1, EmptySeq DEF KeyInv
<1>7. ASSUME strange' PROVE owed' = <<>>
  BY <1>1, <1>7 DEF KeyInv
<1>8. ASSUME ~strange' PROVE KeysOwed'
  <2>1. ~strange /\ ~cooked
    BY <1>1, <1>8
  <2>2. KeysOwed
    BY <2>1 DEF KeyInv
  <2>3. line = <<>> /\ line' = <<>> /\ owed' = owed
    BY <1>1, <2>1, <2>2 DEF KeysOwed
  <2>4. arrived' = arrived \o <<c>>
    BY <1>1, <1>2, <2>1, <2>3, ConcatEmptySeq
  <2>5. arrived' \o coming' = arrived \o coming
    <3>1. (arrived \o <<c>>) \o Tail(coming) = arrived \o (<<c>> \o Tail(coming))
      <4> DEFINE one == <<c>>
                 rest == Tail(coming)
      <4>1. arrived \in Seq(Byte) /\ one \in Seq(Byte) /\ rest \in Seq(Byte)
        BY <1>2, <1>3
      <4> HIDE DEF one, rest
      <4>2. (arrived \o one) \o rest = arrived \o (one \o rest)
        BY ONLY <4>1, ConcatAssociative
      <4>3. QED BY <4>2 DEF one, rest
    <3>2. QED BY <1>1, <1>3, <2>4, <3>1
  <2>6. Stream' = Stream
    BY <1>1, <2>5 DEF Stream
  <2>7. QED BY <1>1, <2>2, <2>3, <2>6 DEF KeysOwed
<1>9. QED BY <1>5, <1>6, <1>7, <1>8 DEF KeyInv

\* The head of what can be read moves on.
LEMMA HeadMoves ==
  ASSUME KeyInv, arrived # <<>>
  PROVE  /\ Head(arrived) \in Byte /\ Tail(arrived) \in Seq(Byte)
         /\ Append(escape, Head(arrived)) \in Seq(Byte)
         /\ Len(escape) \in Nat /\ Len(Append(escape, Head(arrived))) = Len(escape) + 1
         /\ Append(escape, Head(arrived)) \o (Tail(arrived) \o coming) = Stream
         /\ \A i \in 1..(Len(escape) + 1) : Append(escape, Head(arrived))[i] = Stream[i]
         /\ Stream # <<>> /\ Len(escape) + 1 <= Len(Stream)
         /\ Tail(arrived) \o coming \in Seq(Byte)
         /\ Len(Stream) = Len(escape) + 1 + Len(Tail(arrived) \o coming)
         /\ \A i \in 1..Len(Tail(arrived) \o coming) :
              (Tail(arrived) \o coming)[i] = Stream[Len(escape) + 1 + i]
<1> DEFINE c == Head(arrived)
           rest == Tail(arrived) \o coming
           all == Append(escape, c)
<1>1. {coming, line, arrived, escape, Stream, arrived \o coming} \subseteq Seq(Byte)
  BY StreamIs
<1>2. /\ c \in Byte /\ Tail(arrived) \in Seq(Byte) /\ c = arrived[1]
      /\ Len(arrived) \in Nat \ {0} /\ Len(Tail(arrived)) = Len(arrived) - 1
      /\ \A i \in 1..(Len(arrived) - 1) : Tail(arrived)[i] = arrived[i + 1]
  BY <1>1, HeadAndTail
<1>3. /\ all \in Seq(Byte) /\ Len(escape) \in Nat /\ Len(all) = Len(escape) + 1
      /\ \A i \in 1..Len(escape) : all[i] = escape[i]
      /\ all[Len(escape) + 1] = c
  BY <1>1, <1>2, Appended
<1>4. /\ rest \in Seq(Byte) /\ Len(rest) = Len(arrived) - 1 + Len(coming)
      /\ \A i \in 1..(Len(arrived) - 1 + Len(coming)) :
           rest[i] = IF i <= Len(arrived) - 1 THEN arrived[i + 1] ELSE coming[i - (Len(arrived) - 1)]
  BY <1>1, <1>2, ConcatProperties
<1>5. Len(coming) \in Nat
  BY <1>1, LenProperties
<1>6. /\ Len(arrived \o coming) = Len(arrived) + Len(coming)
      /\ \A i \in 1..(Len(arrived) + Len(coming)) :
           (arrived \o coming)[i] = IF i <= Len(arrived) THEN arrived[i] ELSE coming[i - Len(arrived)]
  BY <1>1, ConcatProperties
<1> DEFINE both == arrived \o coming
<1> HIDE DEF c, rest, all, both
<1>7. Len(both) = 1 + Len(rest) /\ both[1] = c /\ \A i \in 1..Len(rest) : both[i + 1] = rest[i]
  <2>1. Len(both) = 1 + Len(rest)
    BY <1>2, <1>4, <1>5, <1>6 DEF both
  <2>2. both[1] = c
    BY <1>2, <1>5, <1>6 DEF both
  <2>3. ASSUME NEW i \in 1..Len(rest) PROVE both[i + 1] = rest[i]
    <3>1. i \in 1..(Len(arrived) - 1 + Len(coming)) /\ i + 1 \in 1..(Len(arrived) + Len(coming))
      BY <1>2, <1>4, <1>5
    <3>2. (i + 1 <= Len(arrived)) = (i <= Len(arrived) - 1)
          /\ i - (Len(arrived) - 1) = (i + 1) - Len(arrived)
      BY <1>2, <3>1
    <3>3. QED BY <1>4, <1>6, <3>1, <3>2 DEF both
  <2>4. QED BY <2>1, <2>2, <2>3
<1>8. Len(rest) \in Nat
  BY <1>4, LenProperties
<1>9. /\ Len(Stream) = Len(escape) + Len(both)
      /\ \A i \in 1..(Len(escape) + Len(both)) :
           Stream[i] = IF i <= Len(escape) THEN escape[i] ELSE both[i - Len(escape)]
  BY <1>1, ConcatProperties DEF Stream, both
<1>10. Len(Stream) = Len(escape) + 1 + Len(rest)
  BY <1>3, <1>7, <1>8, <1>9
<1>11. ASSUME NEW i \in 1..(Len(escape) + 1) PROVE all[i] = Stream[i]
  <2>1. i \in 1..(Len(escape) + Len(both))
    BY <1>3, <1>7, <1>8
  <2>2. CASE i <= Len(escape)
    <3>1. i \in 1..Len(escape)
      BY <1>3, <2>2
    <3>2. QED BY <1>3, <1>9, <2>1, <2>2, <3>1
  <2>3. CASE ~(i <= Len(escape))
    <3>1. i = Len(escape) + 1 /\ i - Len(escape) = 1
      BY <1>3, <2>3
    <3>2. QED BY <1>3, <1>7, <1>9, <2>1, <2>3, <3>1
  <2>4. QED BY <2>2, <2>3
<1>12. ASSUME NEW i \in 1..Len(rest) PROVE rest[i] = Stream[Len(escape) + 1 + i]
  <2>1. /\ Len(escape) + 1 + i \in 1..(Len(escape) + Len(both))
        /\ ~(Len(escape) + 1 + i <= Len(escape))
        /\ (Len(escape) + 1 + i) - Len(escape) = i + 1
    BY <1>3, <1>7, <1>8
  <2>2. QED BY <1>7, <1>9, <2>1
<1>13. all \o rest = Stream
  <2>1. /\ all \o rest \in Seq(Byte) /\ Len(all \o rest) = Len(all) + Len(rest)
        /\ \A i \in 1..(Len(all) + Len(rest)) :
             (all \o rest)[i] = IF i <= Len(all) THEN all[i] ELSE rest[i - Len(all)]
    BY <1>3, <1>4, ConcatProperties
  <2>2. ASSUME NEW i \in 1..(Len(all) + Len(rest)) PROVE (all \o rest)[i] = Stream[i]
    <3>1. CASE i <= Len(all)
      <4>1. i \in 1..(Len(escape) + 1)
        BY <1>3, <3>1
      <4>2. QED BY <1>11, <2>1, <3>1, <4>1
    <3>2. CASE ~(i <= Len(all))
      <4>1. i - Len(all) \in 1..Len(rest) /\ Len(escape) + 1 + (i - Len(all)) = i
        BY <1>3, <1>8, <3>2
      <4>2. QED BY <1>12, <2>1, <3>2, <4>1
    <3>3. QED BY <3>1, <3>2
  <2>3. Len(all \o rest) = Len(Stream) /\ Len(all \o rest) = Len(all) + Len(rest)
    BY <1>3, <1>10, <2>1
  <2>4. QED BY <1>1, <2>1, <2>2, <2>3, SeqEqual
<1>14. Stream # <<>> /\ Len(escape) + 1 <= Len(Stream)
  <2>1. Len(escape) + 1 <= Len(Stream) /\ Len(Stream) # 0
    BY <1>3, <1>8, <1>10
  <2>2. QED BY <2>1, EmptySeq
<1>15. QED
  BY <1>2, <1>3, <1>4, <1>10, <1>11, <1>12, <1>13, <1>14 DEF c, rest, all

\* The program reads the key it is owed first.
LEMMA Delivered ==
  ASSUME ConstantsFit, KeyInv, ~strange, NEW ps, NEW cut, OnTheWay(Stream, owed, ps, cut),
         Stream # <<>>, Deliver(KeyOf(ps[1])), strange' = strange, line' = line,
         coming' = coming, arrived' \in Seq(Byte), escape' = <<>>,
         Len(Stream) = Len(ps[1]) + Len(arrived' \o coming),
         \A i \in 1..Len(arrived' \o coming) : (arrived' \o coming)[i] = Stream[Len(ps[1]) + i]
  PROVE  KeyInv' /\ Len(owed') = Len(owed) - 1
<1>1. {coming, line, arrived, escape, Stream, arrived \o coming} \subseteq Seq(Byte)
  BY StreamIs
<1>2. owed \in Seq(Key) /\ wrong = FALSE /\ strange = FALSE
  BY DEF KeyInv
<1>3. owed # <<>> /\ Head(owed) = KeyOf(ps[1])
  BY <1>1, <1>2, FirstPress
<1>4. owed' = Tail(owed) /\ wrong' = wrong
  BY <1>2, <1>3 DEF Deliver
<1>5. Tail(owed) \in Seq(Key) /\ Len(Tail(owed)) = Len(owed) - 1
  BY <1>2, <1>3, HeadTailProperties
<1>6. arrived' \o coming' \in Seq(Byte) /\ <<>> \in Seq(Byte)
  BY <1>1, ConcatProperties, EmptySeq
<1>7. Stream' = arrived' \o coming'
  BY <1>6, ConcatEmptySeq DEF Stream
<1>8. line' = <<>>
  BY <1>2 DEF KeyInv, KeysOwed
<1>9. \E cut2 : OnTheWay(arrived' \o coming', Tail(owed), Tail(ps), cut2)
  BY <1>1, <1>2, <1>6, FirstRead
<1>10. KeysOwed'
  BY <1>4, <1>7, <1>8, <1>9 DEF KeysOwed
<1>11. \A s \in {coming', line', arrived', escape'} : s \in Seq(Byte)
  BY <1>1, <1>6
<1>12. QED BY <1>2, <1>4, <1>5, <1>10, <1>11 DEF KeyInv

\* A buffer that goes out of use has become the key the program got, unless the window
\* changes.
KeyOnce ==
  escape # <<>> /\ escape' = <<>> /\ ~strange => Len(owed') = Len(owed) - 1 \/ window' # window

\* While the program may get anything, nothing is owed.
LEMMA StrangeKeeps ==
  ASSUME KeyInv, strange, NEW key, Deliver(key) \/ UNCHANGED <<owed, wrong>>,
         strange' = strange, line' = line, coming' = coming,
         arrived' \in Seq(Byte), escape' \in Seq(Byte)
  PROVE  KeyInv'
<1>1. owed' = owed /\ wrong' = wrong
  BY DEF Deliver
<1>2. QED BY <1>1 DEF KeyInv

\* The buffer grows.
LEMMA BufferGrows ==
  ASSUME KeyInv, ~strange, arrived # <<>>, NEW ps, NEW cut, OnTheWay(Stream, owed, ps, cut),
         ps[1] \in Known, Len(escape) + 1 < Len(ps[1]),
         escape' = Append(escape, Head(arrived)), arrived' = Tail(arrived),
         UNCHANGED <<coming, line, owed, wrong, strange>>
  PROVE  KeyInv'
<1>1. /\ Append(escape, Head(arrived)) \in Seq(Byte) /\ Tail(arrived) \in Seq(Byte)
      /\ Len(Append(escape, Head(arrived))) = Len(escape) + 1
      /\ Append(escape, Head(arrived)) \o (Tail(arrived) \o coming) = Stream
  BY HeadMoves
<1>2. Stream' = Stream /\ Len(escape') = Len(escape) + 1
  BY <1>1 DEF Stream
<1>3. line' = <<>>
  BY DEF KeyInv, KeysOwed
<1>4. KeysOwed'
  BY <1>2, <1>3 DEF KeysOwed
<1>5. QED BY <1>1, <1>4 DEF KeyInv

\* A first byte is a key or begins one.
LEMMA ReadKeyKeeps ==
  ASSUME ConstantsFit, KeyInv, ReadKey
  PROVE  KeyInv' /\ KeyOnce
<1> DEFINE c == Head(arrived)
<1>1. /\ escape = <<>> /\ arrived # <<>> /\ arrived' = Tail(arrived)
      /\ UNCHANGED <<coming, line, strange>>
      /\ IF c = "ESC" THEN escape' = <<"ESC">> /\ UNCHANGED <<owed, wrong>>
                      ELSE Deliver(Plain(c)) /\ escape' = escape
  BY DEF ReadKey
<1>2. KeyOnce
  BY <1>1 DEF KeyOnce
<1>3. /\ c \in Byte /\ Tail(arrived) \in Seq(Byte)
      /\ Append(escape, c) \in Seq(Byte) /\ Len(escape) = 0
      /\ Append(escape, c)[1] = Stream[1] /\ Len(Append(escape, c)) = 1
      /\ Stream # <<>> /\ Len(Stream) = 1 + Len(Tail(arrived) \o coming)
      /\ \A i \in 1..Len(Tail(arrived) \o coming) : (Tail(arrived) \o coming)[i] = Stream[1 + i]
  <2>1. Len(escape) = 0
    BY <1>1, EmptySeq
  <2>2. 1 \in 1..(0 + 1) /\ 0 + 1 = 1
    OBVIOUS
  <2>3. QED BY <1>1, <2>1, <2>2, HeadMoves
<1> HIDE DEF c
<1>4. Append(escape, c) = <<c>>
  BY <1>1
<1>5. Stream[1] = c
  BY <1>3, <1>4
<1>6. Stream \in Seq(Byte) /\ owed \in Seq(Key)
  BY StreamIs DEF KeyInv
<1>7. CASE strange
  <2>1. escape' \in Seq(Byte) /\ arrived' \in Seq(Byte)
    BY <1>1, <1>3, <1>4, EmptySeq
  <2>2. Deliver(Plain(c)) \/ UNCHANGED <<owed, wrong>>
    BY <1>1
  <2>3. QED BY <1>1, <1>2, <1>7, <2>1, <2>2, StrangeKeeps
<1>8. CASE ~strange
  <2>1. PICK ps, cut : OnTheWay(Stream, owed, ps, cut)
    BY <1>8 DEF KeyInv, KeysOwed
  <2>2. /\ ps[1] \in Presses /\ Understood(ps[1])
        /\ Len(ps[1]) \in 1..Len(Stream) /\ \A i \in 1..Len(ps[1]) : Stream[i] = ps[1][i]
    BY <1>3, <1>6, <2>1, FirstPress
  <2>3. Len(Stream) \in Nat
    BY <1>6, LenProperties
  <2>4. ps[1][1] = c
    BY <1>5, <2>2, <2>3
  <2>5. CASE c = "ESC"
    <3>1. ps[1] \in Known /\ Len(ps[1]) >= 2
      <4>1. ps[1] \in Known
        BY <2>2, <2>4, <2>5, PressesAre
      <4>2. Len(ps[1]) \in 2..EscapeSize
        BY <2>2, <4>1, PressesAre
      <4>3. QED BY <4>1, <4>2
    <3>2. Len(escape) + 1 < Len(ps[1])
      BY <1>3, <2>2, <2>3, <3>1
    <3>3. escape' = Append(escape, c) /\ UNCHANGED <<owed, wrong>>
      BY <1>1, <1>4, <2>5
    <3>4. QED BY <1>1, <1>2, <1>8, <2>1, <3>1, <3>2, <3>3, BufferGrows DEF c
  <2>6. CASE c # "ESC"
    <3>1. ps[1] \notin Known /\ Len(ps[1]) = 1
      BY <2>2, <2>4, <2>6, PressesAre
    <3>2. KeyOf(ps[1]) = Plain(c)
      BY <2>4, <3>1 DEF KeyOf
    <3>3. escape' = <<>> /\ Deliver(KeyOf(ps[1])) /\ arrived' \in Seq(Byte)
      BY <1>1, <1>3, <2>6, <3>2
    <3>4. /\ Len(Stream) = Len(ps[1]) + Len(arrived' \o coming)
          /\ \A i \in 1..Len(arrived' \o coming) : (arrived' \o coming)[i] = Stream[Len(ps[1]) + i]
      BY <1>1, <1>3, <3>1
    <3>5. KeyInv'
      BY <1>1, <1>3, <1>8, <2>1, <3>3, <3>4, Delivered
    <3>6. QED BY <1>2, <3>5
  <2>7. QED BY <2>5, <2>6
<1>9. QED BY <1>7, <1>8

\* The next byte completes the sequence of the key, or is one more of it.  The
\* buffer is never full before.
LEMMA ReadMoreKeeps ==
  ASSUME ConstantsFit, KeyInv, ReadMore
  PROVE  KeyInv' /\ KeyOnce
<1> DEFINE c == Head(arrived)
           all == Append(escape, c)
           ended == all \in Known \/ Len(all) >= EscapeSize
<1>1. /\ escape # <<>> /\ arrived # <<>> /\ arrived' = Tail(arrived)
      /\ UNCHANGED <<coming, line, strange>>
      /\ escape' = IF ended THEN <<>> ELSE all
      /\ IF ended THEN Deliver(IF all \in Known THEN all ELSE "ESC") ELSE UNCHANGED <<owed, wrong>>
  BY DEF ReadMore
<1>2. /\ Tail(arrived) \in Seq(Byte) /\ all \in Seq(Byte)
      /\ Len(escape) \in Nat /\ Len(all) = Len(escape) + 1
      /\ \A i \in 1..(Len(escape) + 1) : all[i] = Stream[i]
      /\ Stream # <<>>
      /\ Len(Stream) = Len(escape) + 1 + Len(Tail(arrived) \o coming)
      /\ \A i \in 1..Len(Tail(arrived) \o coming) :
           (Tail(arrived) \o coming)[i] = Stream[Len(escape) + 1 + i]
  BY <1>1, HeadMoves
<1> HIDE DEF all
<1>3. Stream \in Seq(Byte) /\ owed \in Seq(Key) /\ EscapeSize \in Nat
  BY StreamIs DEF KeyInv, ConstantsFit
<1>4. CASE strange
  <2>1. escape' \in Seq(Byte) /\ arrived' \in Seq(Byte)
    BY <1>1, <1>2, EmptySeq
  <2>2. \E key : Deliver(key) \/ UNCHANGED <<owed, wrong>>
    BY <1>1
  <2>3. QED BY <1>1, <1>4, <2>1, <2>2, StrangeKeeps DEF KeyOnce
<1>5. CASE ~strange
  <2>1. PICK ps, cut : /\ OnTheWay(Stream, owed, ps, cut)
                       /\ ps[1] \in Known /\ Len(escape) < Len(ps[1])
    BY <1>1, <1>5 DEF KeyInv, KeysOwed
  <2>2. /\ ps[1] \in Presses /\ Len(ps[1]) \in 1..Len(Stream)
        /\ \A i \in 1..Len(ps[1]) : Stream[i] = ps[1][i]
    BY <1>2, <1>3, <2>1, FirstPress
  <2>3. ps[1] \in Seq(Byte) /\ Len(ps[1]) \in 2..EscapeSize
    BY <2>1, <2>2, PressesAre
  <2>4. Len(ps[1]) \in Nat /\ Len(ps[1]) <= EscapeSize /\ Len(ps[1]) # 1
    <3>1. \A n \in 2..EscapeSize : n \in Nat /\ n <= EscapeSize /\ n # 1
      BY <1>3
    <3>2. QED BY <2>3, <3>1
  <2>5. Len(all) <= Len(ps[1]) /\ Len(all) \in Nat
    BY <1>2, <2>1, <2>4
  <2>6. \A i \in 1..Len(all) : all[i] = ps[1][i]
    <3>1. \A i \in 1..Len(all) : i \in 1..(Len(escape) + 1) /\ i \in 1..Len(ps[1])
      BY <1>2, <2>4, <2>5
    <3>2. QED BY <1>2, <2>2, <3>1
  <2>7. Len(all) = Len(ps[1]) => all = ps[1]
    BY <1>2, <2>3, <2>6, SeqEqual
  <2>8. CASE ended
    <3>1. all \in Known => Len(all) = Len(ps[1])
      BY <2>1, <2>5, <2>6, PrefixFree
    <3>2. Len(all) >= EscapeSize => Len(all) = Len(ps[1])
      BY <1>3, <2>4, <2>5
    <3>3. all = ps[1] /\ all \in Known /\ Len(ps[1]) = Len(escape) + 1
      BY <1>2, <2>1, <2>7, <2>8, <3>1, <3>2
    <3>4. KeyOf(ps[1]) = ps[1]
      BY <2>4 DEF KeyOf
    <3>5. Deliver(KeyOf(ps[1])) /\ escape' = <<>> /\ arrived' \in Seq(Byte)
      BY <1>1, <1>2, <2>8, <3>3, <3>4
    <3>6. /\ Len(Stream) = Len(ps[1]) + Len(arrived' \o coming)
          /\ \A i \in 1..Len(arrived' \o coming) : (arrived' \o coming)[i] = Stream[Len(ps[1]) + i]
      BY <1>1, <1>2, <3>3
    <3>7. KeyInv' /\ Len(owed') = Len(owed) - 1
      BY <1>1, <1>2, <1>5, <2>1, <3>5, <3>6, Delivered
    <3>8. QED BY <3>7 DEF KeyOnce
  <2>9. CASE ~ended
    <3>1. Len(escape) + 1 < Len(ps[1])
      BY <1>2, <2>1, <2>4, <2>5, <2>7, <2>9
    <3>2. escape' = all /\ UNCHANGED <<owed, wrong>>
      BY <1>1, <2>9
    <3>3. KeyInv'
      BY <1>1, <1>5, <2>1, <3>1, <3>2, BufferGrows DEF all
    <3>4. escape' # <<>>
      BY <1>2, <3>2, EmptySeq
    <3>5. QED BY <3>3, <3>4 DEF KeyOnce
  <2>10. QED BY <2>8, <2>9
<1>6. QED BY <1>4, <1>5

\* Only a buffer with something the code does not know is given up.
LEMMA TimeOutKeeps ==
  ASSUME ConstantsFit, KeyInv, TimeOut
  PROVE  KeyInv' /\ KeyOnce
<1>1. /\ escape # <<>> /\ arrived = <<>> /\ coming = <<>> /\ escape' = <<>>
      /\ UNCHANGED <<coming, line, arrived, owed, wrong, strange>>
  BY DEF TimeOut
<1>2. {escape, arrived, Stream} \subseteq Seq(Byte) /\ owed \in Seq(Key)
  BY StreamIs DEF KeyInv
<1>3. Stream = escape
  BY <1>1, <1>2, ConcatEmptySeq DEF Stream
<1>4. ASSUME ~strange PROVE FALSE
  <2>1. PICK ps, cut : OnTheWay(Stream, owed, ps, cut) /\ Len(escape) < Len(ps[1])
    BY <1>1, <1>4 DEF KeyInv, KeysOwed
  <2>2. Len(ps[1]) \in 1..Len(Stream)
    BY <1>1, <1>2, <1>3, <2>1, FirstPress
  <2>3. Len(escape) \in Nat
    BY <1>2, LenProperties
  <2>4. QED BY <1>3, <2>1, <2>2, <2>3
<1>5. <<>> \in Seq(Byte)
  BY EmptySeq
<1>6. KeyInv'
  BY <1>1, <1>4, <1>5 DEF KeyInv
<1>7. QED BY <1>4, <1>6 DEF KeyOnce

\* The window changes.  What an interrupted ReadKeyStroke leaves of a sequence stands
\* for no key, and none is owed any more.
LEMMA ResizeKeeps ==
  ASSUME KeyInv, NEW s \in Sizes, Resize(s)
  PROVE  KeyInv' /\ KeyOnce
<1>1. window' # window /\ (UNCHANGED keyVars \/ Interrupted)
  BY DEF Resize
<1>2. KeyOnce
  BY <1>1 DEF KeyOnce
<1>3. CASE UNCHANGED keyVars
  <2>1. UNCHANGED <<coming, line, arrived, escape, owed, wrong, strange>>
    BY <1>3 DEF keyVars
  <2>2. Stream' = Stream
    BY <2>1 DEF Stream
  <2>3. KeyInv'
    BY <2>1, <2>2 DEF KeyInv, KeysOwed
  <2>4. QED BY <1>2, <2>3
<1>4. CASE Interrupted
  <2>1. /\ escape' = <<>> /\ owed' = <<>> /\ strange' = TRUE
        /\ UNCHANGED <<coming, line, arrived, wrong>>
    BY <1>4 DEF Interrupted
  <2>2. <<>> \in Seq(Byte) /\ <<>> \in Seq(Key)
    BY EmptySeq
  <2>3. KeyInv'
    BY <2>1, <2>2 DEF KeyInv
  <2>4. QED BY <1>2, <2>3
<1>5. QED BY <1>1, <1>3, <1>4

\* Every step keeps what is on its way made of keys.
LEMMA NextKeys ==
  ASSUME ConstantsFit, KeyInv, [ConsoleNext]_consoleVars
  PROVE  KeyInv' /\ KeyOnce
<1>1. CASE UNCHANGED keyVars
  <2>1. UNCHANGED <<coming, line, arrived, escape, owed, wrong, strange>>
    BY <1>1 DEF keyVars
  <2>2. Stream' = Stream
    BY <2>1 DEF Stream
  <2>3. KeyInv'
    BY <2>1, <2>2 DEF KeyInv, KeysOwed
  <2>4. QED BY <2>1, <2>3 DEF KeyOnce
<1>2. ASSUME NEW p \in Presses, Press(p) PROVE KeyInv' /\ KeyOnce
  <2>1. escape' = escape
    BY <1>2 DEF Press
  <2>2. QED BY <1>2, <2>1, PressKeeps DEF KeyOnce
<1>3. CASE Arrive
  <2>1. escape' = escape
    BY <1>3 DEF Arrive
  <2>2. QED BY <1>3, <2>1, ArriveKeeps DEF KeyOnce
<1>4. CASE ReadKey
  BY <1>4, ReadKeyKeeps
<1>5. CASE ReadMore
  BY <1>5, ReadMoreKeeps
<1>6. CASE TimeOut
  BY <1>6, TimeOutKeeps
<1>7. CASE \/ NewInput
           \/ \E o \in Outputs : NewOutput(o) \/ ClearScreen(o) \/ ResetOutput(o)
  BY <1>1, <1>7 DEF NewInput, NewOutput, ClearScreen, ResetOutput
<1>8. CASE \E o \in Outputs, s \in Strings : OutputString(o, s)
  BY <1>1, <1>8 DEF OutputString
<1>9. CASE \E o \in Outputs, col \in 0..Cols, row \in 0..Rows : SetCursorPosition(o, col, row)
  BY <1>1, <1>9 DEF SetCursorPosition
<1>10. CASE \E s \in Sizes : Resize(s)
  BY <1>10, ResizeKeeps
<1>11. CASE UNCHANGED consoleVars
  BY <1>1, <1>11 DEF consoleVars
<1>12. QED
  BY <1>2, <1>3, <1>4, <1>5, <1>6, <1>7, <1>8, <1>9, <1>10, <1>11 DEF ConsoleNext

\* What is on its way from the terminal to the program is the sequences of the
\* keys it is owed, one after the other, however far each of them has come; or it is
\* known to be something else, after a key the code does not know, in cooked mode or
\* after an interrupted ReadKeyStroke, and then no key is owed.
THEOREM KeyInvariant ==
  ASSUME ConstantsFit
  PROVE  ConsoleSpec => []KeyInv
<1>1. KeyInv /\ [ConsoleNext]_consoleVars => KeyInv'
  BY NextKeys
<1>2. QED BY <1>1, InitKeys, PTL DEF ConsoleSpec

\* Each key the user presses is read once and in order, and none is left when
\* nothing is on its way (posix-fd.c: efi_input_read_key_impl), for any keys.  A key
\* the code does not know and a window change within a sequence put this off until
\* the keyboard is quiet.
THEOREM KeysReadInOrder ==
  ASSUME ConstantsFit
  PROVE  ConsoleSpec => []KeysInOrder
<1>1. KeyInv => KeysInOrder
  <2> SUFFICES ASSUME KeyInv, Quiet PROVE owed = <<>>
    BY DEF KeysInOrder, KeyInv
  <2>1. SUFFICES ASSUME ~strange, owed # <<>> PROVE FALSE
    BY DEF KeyInv
  <2>2. owed \in Seq(Key) /\ coming = <<>> /\ arrived = <<>> /\ escape = <<>>
    BY DEF KeyInv, Quiet
  <2>3. <<>> \in Seq(Byte)
    BY EmptySeq
  <2>4. Stream = <<>> /\ Len(Stream) = 0
    BY <2>2, <2>3, ConcatEmptySeq, EmptySeq DEF Stream
  <2>5. Len(owed) \in Nat \ {0}
    BY <2>1, <2>2, EmptySeq
  <2>6. PICK ps, cut : OnTheWay(Stream, owed, ps, cut)
    BY <2>1 DEF KeyInv, KeysOwed
  <2>7. /\ 1 \in 1..Len(owed) /\ 1 \in 0..Len(owed) /\ 0 \in 0..Len(owed)
        /\ Len(owed) \in 0..Len(owed) /\ 1 <= Len(owed) /\ 1 - 1 = 0
    BY <2>5
  <2>8. /\ cut \in [0..Len(owed) -> Nat] /\ cut[0] = 0 /\ cut[Len(owed)] = 0
        /\ \A j, k \in 0..Len(owed) : j <= k => cut[j] <= cut[k]
        /\ cut[1] = cut[1 - 1] + Len(ps[1])
    BY <2>4, <2>6, <2>7 DEF OnTheWay
  <2>9. cut[1] = 0 /\ cut[1] = 0 + Len(ps[1])
    <3>1. cut[1] <= cut[Len(owed)] /\ cut[1] \in Nat
      BY <2>7, <2>8
    <3>2. QED BY <2>7, <2>8, <3>1
  <2>10. ps[1] \in Presses
    BY <2>6, <2>7, ElementOfSeq DEF OnTheWay
  <2>11. Len(ps[1]) \in Nat \ {0}
    BY <2>10, PressesAre
  <2>12. QED BY <2>9, <2>11
<1>2. QED BY <1>1, KeyInvariant, PTL

\* A ReadKeyStroke that has found the beginning of a key the code knows does not
\* answer before it has read all of it, unless the window changes while it waits
\* (posix-fd.c: efi_input_read_key_impl).
THEOREM KeyAnswersWait ==
  ASSUME ConstantsFit
  PROVE  ConsoleSpec => KeyAfterWait
<1>1. KeyInv /\ [ConsoleNext]_consoleVars => [KeyOnce]_consoleVars
  BY NextKeys
<1>2. [KeyOnce]_consoleVars =>
        [escape # <<>> /\ escape' = <<>> /\ ~strange
           => Len(owed') = Len(owed) - 1 \/ window' # window]_consoleVars
  BY DEF KeyOnce
<1>3. QED BY <1>1, <1>2, KeyInvariant, PTL DEF ConsoleSpec, KeyAfterWait

-----------------------------------------------------------------------------
(* The cursor.  An output counts rows past the last one while it writes a  *)
(* string and comes back at the end; the terminal scrolls at once, and     *)
(* waits at the end of a full row.  Step by step both mean one place.      *)

\* Where an output says the cursor is
Reported == [col : Nat, row : Nat]
\* Where the terminal can have it
Shown == {t \in [col : Nat, row : Nat, full : BOOLEAN] : t.col < TermCols /\ t.row < TermRows}

\* They mean the same place, should the terminal's row be full.
Same(c, t) ==
  /\ c.col = IF t.full THEN 0 ELSE t.col
  /\ Least(c.row, Rows - 1) = IF t.full THEN Least(t.row + 1, Rows - 1) ELSE t.row

\* The code takes the window of its input for the terminal's, or the default.
SizeInv ==
  /\ window \in Sizes /\ size \in Sizes \cup {DefaultSize}
  /\ "in" \in tty => size = window

\* The window has a column and a row, and so has what the code takes for it.
LEMMA WindowIs ==
  ASSUME ConstantsFit, SizeInv
  PROVE  /\ Cols \in Nat \ {0} /\ Rows \in Nat \ {0} /\ TabWidth \in Nat \ {0}
         /\ TermCols \in Nat \ {0} /\ TermRows \in Nat \ {0}
         /\ \A n \in Nat : ((n \div TabWidth) + 1) * TabWidth \in Nat
<1>1. /\ size \in (Nat \ {0}) \X (Nat \ {0}) /\ window \in (Nat \ {0}) \X (Nat \ {0})
      /\ TabWidth \in Nat \ {0}
  BY DEF ConstantsFit, SizeInv
<1>2. \A n \in Nat : n \div TabWidth \in Nat
  BY <1>1
<1>3. \A a, b \in Nat : (a + 1) * b \in Nat
  OBVIOUS
<1>4. QED BY <1>1, <1>2, <1>3 DEF Cols, Rows, TermCols, TermRows

\* One character for the output
LEMMA CursorStepIs ==
  ASSUME ConstantsFit, SizeInv, NEW c \in Reported, NEW ch
  PROVE  /\ CursorStep(c, ch) \in Reported
         /\ CursorStep(c, ch).col = c.col \/ CursorStep(c, ch).col < Cols
<1> DEFINE tab == ((c.col \div TabWidth) + 1) * TabWidth
           col == IF ch = "TAB" THEN tab ELSE c.col + 1
<1>1. Cols \in Nat \ {0} /\ c.col \in Nat /\ c.row \in Nat /\ tab \in Nat
  BY WindowIs DEF Reported
<1>2. CursorStep(c, ch) = IF ch = "LF" THEN [c EXCEPT !.row = @ + 1]
      ELSE IF ch = "CR" THEN [c EXCEPT !.col = 0]
      ELSE IF col >= Cols THEN [col |-> 0, row |-> c.row + 1] ELSE [c EXCEPT !.col = col]
  BY DEF CursorStep
<1> HIDE DEF tab
<1>3. col \in Nat
  BY <1>1
<1> HIDE DEF col
<1>4. QED BY <1>1, <1>2, <1>3 DEF Reported

\* One character for the terminal
LEMMA TermStepIs ==
  ASSUME ConstantsFit, SizeInv, NEW t \in Shown, NEW ch
  PROVE  TermStep(t, ch) \in Shown
<1> DEFINE tab == ((t.col \div TabWidth) + 1) * TabWidth
           down == Least(t.row + 1, TermRows - 1)
           at == IF t.full THEN [col |-> 0, row |-> down] ELSE [col |-> t.col, row |-> t.row]
<1>1. /\ TermCols \in Nat \ {0} /\ TermRows \in Nat \ {0}
      /\ t \in [col : Nat, row : Nat, full : BOOLEAN]
      /\ t.col \in Nat /\ t.row \in Nat /\ t.full \in BOOLEAN /\ tab \in Nat
      /\ t.col < TermCols /\ t.row < TermRows
  BY WindowIs DEF Shown
<1>2. down \in Nat /\ down < TermRows
  BY <1>1 DEF Least
<1> HIDE DEF tab, down
<1>3. at.col \in Nat /\ at.row \in Nat /\ at.row < TermRows
  BY <1>1, <1>2
<1> HIDE DEF at
<1>4. CASE ch = "LF"
  BY <1>1, <1>2, <1>4 DEF TermStep, Shown, down
<1>5. CASE ch = "CR"
  <2>1. TermStep(t, ch) = [t EXCEPT !.col = 0, !.full = FALSE]
    BY <1>5 DEF TermStep
  <2> DEFINE col == 0
  <2>2. col \in Nat /\ col < TermCols
    BY <1>1
  <2>3. TermStep(t, ch) = [t EXCEPT !.col = col, !.full = FALSE]
    BY <2>1
  <2> HIDE DEF col
  <2>4. QED BY <1>1, <2>2, <2>3 DEF Shown
<1>6. CASE ch = "BS"
  <2>1. TermStep(t, ch) = [t EXCEPT !.col = IF t.col = 0 THEN 0 ELSE t.col - 1, !.full = FALSE]
    BY <1>6 DEF TermStep
  <2> DEFINE col == IF t.col = 0 THEN 0 ELSE t.col - 1
  <2>2. col \in Nat /\ col < TermCols
    BY <1>1
  <2> HIDE DEF col
  <2>3. TermStep(t, ch) = [t EXCEPT !.col = col, !.full = FALSE]
    BY <2>1 DEF col
  <2>4. QED BY <1>1, <2>2, <2>3 DEF Shown
<1>7. CASE ch = "TAB"
  <2>1. TermStep(t, ch) = [t EXCEPT !.col = Least(tab, TermCols - 1)]
    BY <1>7 DEF TermStep, tab
  <2>2. Least(tab, TermCols - 1) \in Nat /\ Least(tab, TermCols - 1) < TermCols
    BY <1>1 DEF Least
  <2>3. QED BY <1>1, <2>1, <2>2 DEF Shown
<1>8. CASE ch \notin {"LF", "CR", "BS", "TAB"}
  <2>1. TermStep(t, ch) = [col |-> Least(at.col + 1, TermCols - 1), row |-> at.row,
                           full |-> at.col = TermCols - 1]
    BY <1>8 DEF TermStep, at, down
  <2>2. Least(at.col + 1, TermCols - 1) \in Nat /\ Least(at.col + 1, TermCols - 1) < TermCols
    BY <1>1, <1>3 DEF Least
  <2>3. QED BY <1>3, <2>1, <2>2 DEF Shown
<1>9. QED BY <1>4, <1>5, <1>6, <1>7, <1>8

\* One character the code follows
LEMMA SameStep ==
  ASSUME ConstantsFit, SizeInv, size = window, NEW c \in Reported, NEW t \in Shown, NEW ch,
         Same(c, t), Followed(t, ch)
  PROVE  Same(CursorStep(c, ch), TermStep(t, ch))
<1> DEFINE tab == ((t.col \div TabWidth) + 1) * TabWidth
           rows == Rows
           cols == Cols
           down == Least(t.row + 1, rows - 1)
<1>0. TermCols = Cols /\ TermRows = Rows
  BY DEF Cols, Rows, TermCols, TermRows
<1>1. /\ cols \in Nat \ {0} /\ rows \in Nat \ {0} /\ tab \in Nat
      /\ t \in [col : Nat, row : Nat, full : BOOLEAN]
      /\ t.col \in Nat /\ t.row \in Nat /\ t.full \in BOOLEAN
      /\ t.col < cols /\ t.row < rows /\ c \in [col : Nat, row : Nat] /\ c.col \in Nat /\ c.row \in Nat
  BY <1>0, WindowIs DEF Shown, Reported
<1>2. /\ c.col = IF t.full THEN 0 ELSE t.col
      /\ Least(c.row, rows - 1) = IF t.full THEN down ELSE t.row
  BY DEF Same
<1>3. \A r \in Nat : Least(r + 1, rows - 1) = Least(Least(r, rows - 1) + 1, rows - 1)
  BY <1>1 DEF Least
<1>4. CASE ch = "LF"
  <2>1. t.col = 0 /\ ~t.full
    BY <1>0, <1>4 DEF Followed
  <2>2. CursorStep(c, ch) = [c EXCEPT !.row = @ + 1]
        /\ TermStep(t, ch) = [col |-> 0, row |-> down, full |-> FALSE]
    BY <1>0, <1>4 DEF CursorStep, TermStep
  <2>3. Least(c.row + 1, rows - 1) = down
    BY <1>1, <1>2, <1>3, <2>1
  <2> HIDE DEF down, rows
  <2>4. CursorStep(c, ch).row = c.row + 1 /\ CursorStep(c, ch).col = 0
    BY <1>1, <1>2, <2>1, <2>2
  <2>5. QED BY <2>2, <2>3, <2>4 DEF Same, rows
<1>5. CASE ch = "CR"
  <2>1. ~t.full
    BY <1>0, <1>5 DEF Followed
  <2>2. CursorStep(c, ch) = [c EXCEPT !.col = 0]
        /\ TermStep(t, ch) = [t EXCEPT !.col = 0, !.full = FALSE]
    BY <1>0, <1>5 DEF CursorStep, TermStep
  <2>3. QED BY <1>1, <1>2, <2>1, <2>2 DEF Same
<1>6. CASE ch = "BS"
  BY <1>0, <1>6 DEF Followed
<1>7. CASE ch = "TAB"
  <2>1. tab < cols /\ ~t.full
    BY <1>0, <1>7 DEF Followed
  <2>2. c.col = t.col
    BY <1>2, <2>1
  <2>3. CursorStep(c, ch) = IF tab >= cols THEN [col |-> 0, row |-> c.row + 1] ELSE [c EXCEPT !.col = tab]
    BY <1>0, <1>7, <2>2 DEF CursorStep
  <2>4. TermStep(t, ch) = [t EXCEPT !.col = Least(tab, cols - 1)]
    BY <1>0, <1>7 DEF TermStep
  <2> HIDE DEF tab, cols, rows
  <2>5. Least(tab, cols - 1) = tab
    BY <1>1, <2>1 DEF Least
  <2>6. CursorStep(c, ch) = [c EXCEPT !.col = tab] /\ TermStep(t, ch) = [t EXCEPT !.col = tab]
    BY <1>1, <2>1, <2>3, <2>4, <2>5
  <2>7. QED BY <1>1, <1>2, <2>1, <2>6 DEF Same, rows
<1>8. CASE ch \notin {"LF", "CR", "BS", "TAB"}
  <2> DEFINE at == IF t.full THEN [col |-> 0, row |-> down] ELSE [col |-> t.col, row |-> t.row]
  <2>1. /\ TermStep(t, ch).col = Least(at.col + 1, cols - 1)
        /\ TermStep(t, ch).row = at.row
        /\ TermStep(t, ch).full <=> at.col = cols - 1
    BY <1>0, <1>8 DEF TermStep
  <2>2. CursorStep(c, ch) = IF c.col + 1 >= cols THEN [col |-> 0, row |-> c.row + 1]
                            ELSE [c EXCEPT !.col = c.col + 1]
    BY <1>0, <1>8 DEF CursorStep
  <2>3. at.col = c.col /\ at.row = Least(c.row, rows - 1) /\ c.col < cols /\ at.row \in Nat
    BY <1>1, <1>2 DEF Least
  <2>4. Least(c.row + 1, rows - 1) = Least(at.row + 1, rows - 1)
    BY <1>1, <1>3, <2>3
  <2> HIDE DEF at, cols, rows
  <2>5. CASE c.col = cols - 1
    <3>1. TermStep(t, ch).full /\ TermStep(t, ch).row = at.row
      BY <2>1, <2>3, <2>5
    <3>2. CursorStep(c, ch) = [col |-> 0, row |-> c.row + 1]
      BY <1>1, <2>2, <2>5
    <3>3. QED BY <2>4, <3>1, <3>2 DEF Same, rows
  <2>6. CASE c.col # cols - 1
    <3>1. Least(at.col + 1, cols - 1) = c.col + 1 /\ ~(c.col + 1 >= cols)
      BY <1>1, <2>3, <2>6 DEF Least
    <3>2. /\ ~TermStep(t, ch).full /\ TermStep(t, ch).row = at.row
          /\ TermStep(t, ch).col = c.col + 1
      BY <2>1, <2>3, <2>6, <3>1
    <3>3. CursorStep(c, ch).col = c.col + 1 /\ CursorStep(c, ch).row = c.row
      BY <1>1, <2>2, <3>1
    <3>4. QED BY <2>3, <3>2, <3>3 DEF Same, rows
  <2>7. QED BY <2>5, <2>6
<1>9. QED BY <1>4, <1>5, <1>6, <1>7, <1>8

\* The steps of CursorAfter
CursorSteps(f, c, string, n) ==
  [k \in 0..n |-> IF k = 0 THEN c ELSE CursorStep(f[k - 1], string[k])]

\* The steps of TermTrace
TermSteps(f, string, n) ==
  [k \in 0..n |-> IF k = 0 THEN term ELSE TermStep(f[k - 1], string[k])]

\* The recursive function of CursorAfter exists.
LEMMA CursorStepsExist ==
  ASSUME NEW c, NEW string, NEW n \in Nat
  PROVE  \E f : f = CursorSteps(f, c, string, n)
<1> DEFINE A == {m \in Nat : \E f : f = CursorSteps(f, c, string, m)}
           Step(x, k) == CursorStep(x, string[k])
<1>1. 0 \in A
  <2> DEFINE f == [i \in 0..0 |-> c]
  <2>1. f = CursorSteps(f, c, string, 0)
    BY DEF CursorSteps
  <2>2. QED BY <2>1
<1>2. ASSUME NEW m \in Nat, m \in A PROVE m + 1 \in A
  <2>1. PICK f : f = CursorSteps(f, c, string, m)
    BY <1>2
  <2> DEFINE g == [i \in 0..(m + 1) |-> IF i <= m THEN f[i] ELSE Step(f[m], m + 1)]
  <2>2. ASSUME NEW i \in 0..(m + 1)
        PROVE  g[i] = IF i = 0 THEN c ELSE Step(g[i - 1], i)
    <3> HIDE DEF Step
    <3>1. CASE i = 0
      <4>1. f[0] = c
        BY <2>1 DEF CursorSteps
      <4>2. QED BY <3>1, <4>1
    <3>2. CASE i # 0 /\ i <= m
      <4>1. i \in 0..m /\ i - 1 \in 0..m
        BY <3>2
      <4>2. f[i] = Step(f[i - 1], i)
        BY <2>1, <3>2, <4>1 DEF CursorSteps, Step
      <4>3. g[i] = f[i] /\ g[i - 1] = f[i - 1]
        BY <4>1
      <4>4. QED BY <3>2, <4>2, <4>3
    <3>3. CASE i = m + 1
      <4>1. g[i] = Step(f[m], m + 1) /\ g[i - 1] = f[m] /\ i # 0
        BY <3>3
      <4>2. QED BY <3>3, <4>1
    <3>4. QED BY <3>1, <3>2, <3>3
  <2>3. DOMAIN g = 0..(m + 1) /\ g = [i \in 0..(m + 1) |-> g[i]]
    OBVIOUS
  <2> HIDE DEF g
  <2>4. g = CursorSteps(g, c, string, m + 1)
    BY <2>2, <2>3 DEF CursorSteps
  <2>5. QED BY <2>4
<1> HIDE DEF A
<1>3. Nat \subseteq A
  BY <1>1, <1>2, SetInduction
<1>4. QED BY <1>3 DEF A

\* The recursive function of TermTrace exists.
LEMMA TermStepsExist ==
  ASSUME NEW string, NEW n \in Nat
  PROVE  \E f : f = TermSteps(f, string, n)
<1> DEFINE A == {m \in Nat : \E f : f = TermSteps(f, string, m)}
           Step(x, k) == TermStep(x, string[k])
<1>1. 0 \in A
  <2> DEFINE f == [i \in 0..0 |-> term]
  <2>1. f = TermSteps(f, string, 0)
    BY DEF TermSteps
  <2>2. QED BY <2>1
<1>2. ASSUME NEW m \in Nat, m \in A PROVE m + 1 \in A
  <2>1. PICK f : f = TermSteps(f, string, m)
    BY <1>2
  <2> DEFINE g == [i \in 0..(m + 1) |-> IF i <= m THEN f[i] ELSE Step(f[m], m + 1)]
  <2>2. ASSUME NEW i \in 0..(m + 1)
        PROVE  g[i] = IF i = 0 THEN term ELSE Step(g[i - 1], i)
    <3> HIDE DEF Step
    <3>1. CASE i = 0
      <4>1. f[0] = term
        BY <2>1 DEF TermSteps
      <4>2. QED BY <3>1, <4>1
    <3>2. CASE i # 0 /\ i <= m
      <4>1. i \in 0..m /\ i - 1 \in 0..m
        BY <3>2
      <4>2. f[i] = Step(f[i - 1], i)
        BY <2>1, <3>2, <4>1 DEF TermSteps, Step
      <4>3. g[i] = f[i] /\ g[i - 1] = f[i - 1]
        BY <4>1
      <4>4. QED BY <3>2, <4>2, <4>3
    <3>3. CASE i = m + 1
      <4>1. g[i] = Step(f[m], m + 1) /\ g[i - 1] = f[m] /\ i # 0
        BY <3>3
      <4>2. QED BY <3>3, <4>1
    <3>4. QED BY <3>1, <3>2, <3>3
  <2>3. DOMAIN g = 0..(m + 1) /\ g = [i \in 0..(m + 1) |-> g[i]]
    OBVIOUS
  <2> HIDE DEF g
  <2>4. g = TermSteps(g, string, m + 1)
    BY <2>2, <2>3 DEF TermSteps
  <2>5. QED BY <2>4
<1> HIDE DEF A
<1>3. Nat \subseteq A
  BY <1>1, <1>2, SetInduction
<1>4. QED BY <1>3 DEF A

\* Writing a string leaves the reported cursor in the window, or in its column, and
\* where the terminal's is if it was there before, the code knows the window and it
\* follows the string.
LEMMA Written ==
  ASSUME ConstantsFit, SizeInv, term \in Shown, NEW string \in Strings, NEW c \in Reported
  PROVE  /\ CursorAfter(c, string) \in Reported
         /\ CursorAfter(c, string).col = c.col \/ CursorAfter(c, string).col < Cols
         /\ CursorAfter(c, string).row < Rows
         /\ TermTrace(string)[Len(string)] \in Shown
         /\ size = window /\ Same(c, term) /\ CanFollow(string)
              => Same(CursorAfter(c, string), TermTrace(string)[Len(string)])
<1> DEFINE n == Len(string)
           f == CHOOSE f : f = CursorSteps(f, c, string, n)
           t == TermTrace(string)
<1>1. n \in Nat
  BY LenProperties DEF ConstantsFit
<1>2. CursorAfter(c, string) = [f[n] EXCEPT !.row = Least(@, Rows - 1)]
  BY DEF CursorAfter, CursorSteps
<1>3. f = CursorSteps(f, c, string, n)
  BY <1>1, CursorStepsExist
<1>4. t = CHOOSE g : g = TermSteps(g, string, n)
  BY DEF TermTrace, TermSteps
<1>5. t = TermSteps(t, string, n)
  BY <1>1, <1>4, TermStepsExist
<1>6. CanFollow(string) => \A i \in 1..n : Followed(t[i - 1], string[i])
  BY DEF CanFollow
<1> HIDE DEF f, n, t
<1> DEFINE Follows == size = window /\ Same(c, term) /\ CanFollow(string)
           Good(m) == /\ f[m] \in Reported /\ (f[m].col = c.col \/ f[m].col < Cols)
                      /\ t[m] \in Shown
                      /\ Follows => Same(f[m], t[m])
           A == {m \in Nat : m <= n => Good(m)}
<1>7. 0 \in A
  <2>1. f[0] = c /\ t[0] = term
    BY <1>1, <1>3, <1>5 DEF CursorSteps, TermSteps
  <2>2. QED BY <2>1
<1>8. ASSUME NEW m \in Nat, m \in A PROVE m + 1 \in A
  <2>1. SUFFICES ASSUME m + 1 <= n PROVE Good(m + 1)
    OBVIOUS
  <2>2. m <= n /\ m + 1 \in 0..n /\ m + 1 \in 1..n /\ m + 1 # 0 /\ (m + 1) - 1 = m
    BY <1>1, <2>1
  <2>3. Good(m)
    BY <1>8, <2>2
  <2>4. f[m + 1] = CursorStep(f[m], string[m + 1]) /\ t[m + 1] = TermStep(t[m], string[m + 1])
    BY <1>3, <1>5, <2>2 DEF CursorSteps, TermSteps
  <2>5. f[m + 1] \in Reported /\ (f[m + 1].col = f[m].col \/ f[m + 1].col < Cols)
    BY <2>3, <2>4, CursorStepIs
  <2>6. t[m + 1] \in Shown
    BY <2>3, <2>4, TermStepIs
  <2>7. ASSUME Follows PROVE Same(f[m + 1], t[m + 1])
    <3>1. Followed(t[m], string[m + 1]) /\ Same(f[m], t[m])
      BY <1>6, <2>2, <2>3, <2>7
    <3>2. size = window
      BY <2>7
    <3>3. QED BY <2>3, <2>4, <3>1, <3>2, SameStep
  <2>8. QED BY <2>3, <2>5, <2>6, <2>7
<1>9. Good(n)
  <2> HIDE DEF Good
  <2>1. A \subseteq Nat
    OBVIOUS
  <2> HIDE DEF A
  <2>2. Nat \subseteq A
    BY <1>7, <1>8, SetInduction
  <2>3. QED BY <1>1, <2>2 DEF A
<1> DEFINE after == [f[n] EXCEPT !.row = Least(@, Rows - 1)]
<1>10. Rows \in Nat \ {0}
  BY WindowIs
<1>11. f[n] \in [col : Nat, row : Nat] /\ f[n].row \in Nat
  BY <1>9 DEF Reported
<1>12. /\ Least(f[n].row, Rows - 1) \in Nat /\ Least(f[n].row, Rows - 1) < Rows
       /\ Least(Least(f[n].row, Rows - 1), Rows - 1) = Least(f[n].row, Rows - 1)
  BY <1>10, <1>11 DEF Least
<1>13. after \in Reported /\ after.col = f[n].col /\ after.row = Least(f[n].row, Rows - 1)
  BY <1>11, <1>12 DEF Reported
<1> HIDE DEF after
<1>14. Same(f[n], t[n]) => Same(after, t[n])
  BY <1>12, <1>13 DEF Same
<1>15. after.col = c.col \/ after.col < Cols
  BY <1>9, <1>13
<1>16. t[n] \in Shown /\ (Follows => Same(after, t[n]))
  BY <1>9, <1>14
<1>17. CursorAfter(c, string) = after
  BY <1>2 DEF after
<1>18. QED BY <1>12, <1>13, <1>15, <1>16, <1>17 DEF n, t

\* What an output reports was in a window there was or in the default one; what one
\* that is sure of it reports is where the terminal's cursor is, if the code knows the
\* window.
PlaceInv ==
  /\ tty \subseteq Outputs \cup {"in"} /\ SizeInv /\ sure \subseteq Outputs \cap tty
  /\ term \in Shown /\ cursor \in [Outputs -> Reported]
  /\ \A o \in Outputs : /\ \E w \in Sizes \cup {DefaultSize} : cursor[o].col < w[1]
                        /\ \E w \in Sizes \cup {DefaultSize} : cursor[o].row < w[2]
  /\ size = window => \A o \in sure : Same(cursor[o], term) /\ cursor[o].row < Rows

\* The services are started once, and the buffer has room for a byte.
RoomInv ==
  /\ started \in Seq(Outputs \cup {"in"}) /\ IsInjective(started)
  /\ Len(escape) < EscapeSize

\* At first every cursor is at home.
LEMMA InitPlace == ConstantsFit /\ ConsoleInit => PlaceInv /\ RoomInv
<1> SUFFICES ASSUME ConstantsFit, ConsoleInit PROVE PlaceInv /\ RoomInv
  OBVIOUS
<1>1. /\ tty \in Terminals /\ SizeInv /\ sure = {} /\ term = Home
      /\ cursor = [o \in Outputs |-> [col |-> 0, row |-> 0]]
      /\ started = <<>> /\ escape = <<>>
  BY DEF ConsoleInit, SizeInv
<1>2. tty \subseteq Outputs \cup {"in"}
  BY <1>1 DEF ConstantsFit
<1>3. Cols \in Nat \ {0} /\ Rows \in Nat \ {0} /\ TermCols \in Nat \ {0} /\ TermRows \in Nat \ {0}
  BY <1>1, WindowIs
<1>4. term \in Shown
  BY <1>1, <1>3 DEF Home, Shown
<1>5. cursor \in [Outputs -> Reported] /\ \A o \in Outputs : cursor[o].col = 0 /\ cursor[o].row = 0
  BY <1>1 DEF Reported
<1>6. \E w \in Sizes \cup {DefaultSize} : 0 < w[1]
  BY <1>1, <1>3 DEF Cols, SizeInv
<1>7. \E w \in Sizes \cup {DefaultSize} : 0 < w[2]
  BY <1>1, <1>3 DEF Rows, SizeInv
<1>8. PlaceInv
  BY <1>1, <1>2, <1>4, <1>5, <1>6, <1>7 DEF PlaceInv
<1>9. started \in Seq(Outputs \cup {"in"}) /\ Len(started) = 0 /\ Len(escape) = 0
  BY <1>1, EmptySeq
<1>10. IsInjective(started)
  BY <1>9, LenProperties DEF IsInjective
<1>11. RoomInv
  BY <1>9, <1>10 DEF RoomInv, ConstantsFit
<1>12. QED BY <1>8, <1>11

\* An output sets its cursor.
LEMMA SettingKeeps ==
  ASSUME ConstantsFit, PlaceInv, NEW o \in Outputs, NEW col \in Nat, NEW row \in Nat,
         col < Cols, row < Rows, SetCursor(o, col, row), UNCHANGED <<window, size, tty>>
  PROVE  PlaceInv'
<1> DEFINE at == [col |-> col, row |-> row]
           there == [col |-> Least(col, TermCols - 1), row |-> Least(row, TermRows - 1), full |-> FALSE]
<1>1. /\ Cols \in Nat \ {0} /\ Rows \in Nat \ {0}
      /\ TermCols \in Nat \ {0} /\ TermRows \in Nat \ {0}
  BY WindowIs DEF PlaceInv
<1>2. at \in Reported /\ at.col = col /\ at.row = row
  BY DEF Reported
<1>3. cursor' = [cursor EXCEPT ![o] = at]
      /\ IF o \in tty THEN Knows({o}, there)
         ELSE UNCHANGED <<sure, term>>
  BY DEF SetCursor
<1>4. Shown' = Shown /\ Rows' = Rows /\ SizeInv' = SizeInv /\ \A c, t : Same(c, t)' = Same(c, t)
  BY DEF Shown, Same, Cols, Rows, TermCols, TermRows, SizeInv
<1> HIDE DEF at, there
<1>5. /\ cursor' \in [Outputs -> Reported] /\ cursor'[o] = at
      /\ \A p \in Outputs : p # o => cursor'[p] = cursor[p]
  BY <1>2, <1>3 DEF PlaceInv
<1>6. size \in Sizes \cup {DefaultSize} /\ col < size[1] /\ row < size[2]
  BY DEF PlaceInv, SizeInv, Cols, Rows
<1>7. \A p \in Outputs : /\ \E w \in Sizes \cup {DefaultSize} : cursor'[p].col < w[1]
                         /\ \E w \in Sizes \cup {DefaultSize} : cursor'[p].row < w[2]
  BY <1>2, <1>5, <1>6 DEF PlaceInv
<1>8. CASE o \in tty
  <2>1. sure' = {o} /\ term' = there
    BY <1>3, <1>8 DEF Knows
  <2>2. /\ Least(col, TermCols - 1) \in Nat /\ Least(col, TermCols - 1) < TermCols
        /\ Least(row, TermRows - 1) \in Nat /\ Least(row, TermRows - 1) < TermRows
    BY <1>1 DEF Least
  <2>3. term' \in Shown
    BY <2>1, <2>2 DEF Shown, there
  <2>4. ASSUME size = window PROVE Same(at, term')
    <3>1. TermCols = Cols /\ TermRows = Rows
      BY <2>4 DEF TermCols, TermRows, Cols, Rows
    <3>2. /\ Least(col, TermCols - 1) = col /\ Least(row, TermRows - 1) = row
          /\ Least(row, Rows - 1) = row
      BY <1>1, <3>1 DEF Least
    <3>3. term'.col = col /\ term'.row = row /\ ~term'.full
      BY <2>1, <3>2 DEF there
    <3>4. QED BY <1>2, <3>2, <3>3 DEF Same
  <2>5. QED BY <1>2, <1>4, <1>5, <1>7, <1>8, <2>1, <2>3, <2>4 DEF PlaceInv
<1>9. CASE o \notin tty
  <2>1. sure' = sure /\ term' = term /\ o \notin sure
    BY <1>3, <1>9 DEF PlaceInv
  <2>2. QED BY <1>4, <1>5, <1>7, <2>1 DEF PlaceInv
<1>10. QED BY <1>8, <1>9

\* An output writes.
LEMMA WritingKeeps ==
  ASSUME ConstantsFit, PlaceInv, NEW o \in Outputs, NEW string \in Strings,
         OutputString(o, string)
  PROVE  PlaceInv'
<1> DEFINE at == CursorAfter(cursor[o], string)
           there == TermTrace(string)[Len(string)]
<1>1. /\ cursor' = [cursor EXCEPT ![o] = at] /\ UNCHANGED <<window, size, tty>>
      /\ IF o \notin tty THEN UNCHANGED <<sure, term>>
         ELSE IF CanFollow(string) THEN Knows(sure \cap {o}, there)
         ELSE Knows({}, Home)
  BY DEF OutputString
<1>2. /\ SizeInv /\ term \in Shown /\ cursor[o] \in Reported
      /\ Cols \in Nat \ {0} /\ Rows \in Nat \ {0}
      /\ TermCols \in Nat \ {0} /\ TermRows \in Nat \ {0}
  BY WindowIs DEF PlaceInv
<1>3. /\ at \in Reported /\ (at.col = cursor[o].col \/ at.col < Cols) /\ at.row < Rows
      /\ there \in Shown
      /\ size = window /\ Same(cursor[o], term) /\ CanFollow(string) => Same(at, there)
  BY <1>2, Written
<1>4. Shown' = Shown /\ Rows' = Rows /\ SizeInv' = SizeInv /\ \A c, t : Same(c, t)' = Same(c, t)
  BY <1>1 DEF Shown, Same, Cols, Rows, TermCols, TermRows, SizeInv
<1>5. Home \in Shown
  BY <1>2 DEF Home, Shown
<1> HIDE DEF at, there
<1>6. /\ cursor' \in [Outputs -> Reported] /\ cursor'[o] = at
      /\ \A p \in Outputs : p # o => cursor'[p] = cursor[p]
  BY <1>1, <1>3 DEF PlaceInv
<1>7. \A p \in Outputs : /\ \E w \in Sizes \cup {DefaultSize} : cursor'[p].col < w[1]
                         /\ \E w \in Sizes \cup {DefaultSize} : cursor'[p].row < w[2]
  <2>1. \E w \in Sizes \cup {DefaultSize} : at.col < w[1]
    BY <1>2, <1>3 DEF PlaceInv, SizeInv, Cols
  <2>2. \E w \in Sizes \cup {DefaultSize} : at.row < w[2]
    BY <1>2, <1>3 DEF SizeInv, Rows
  <2>3. QED BY <1>6, <2>1, <2>2 DEF PlaceInv
<1>8. CASE o \notin tty
  <2>1. sure' = sure /\ term' = term /\ o \notin sure
    BY <1>1, <1>8 DEF PlaceInv
  <2>2. QED BY <1>1, <1>4, <1>6, <1>7, <2>1 DEF PlaceInv
<1>9. CASE o \in tty /\ CanFollow(string)
  <2>1. sure' = sure \cap {o} /\ term' = IF sure' = {} THEN Home ELSE there
    BY <1>1, <1>9 DEF Knows
  <2>2. term' \in Shown
    BY <1>3, <1>5, <2>1
  <2>3. ASSUME size = window, NEW p \in sure' PROVE Same(cursor'[p], term') /\ cursor'[p].row < Rows
    <3>1. p = o /\ o \in sure /\ sure' # {} /\ term' = there
      BY <2>1, <2>3
    <3>2. Same(cursor[o], term)
      BY <2>3, <3>1 DEF PlaceInv
    <3>3. QED BY <1>3, <1>6, <1>9, <2>3, <3>1, <3>2
  <2>4. QED BY <1>1, <1>4, <1>6, <1>7, <2>1, <2>2, <2>3 DEF PlaceInv
<1>10. CASE o \in tty /\ ~CanFollow(string)
  <2>1. sure' = {} /\ term' = Home
    BY <1>1, <1>10 DEF Knows
  <2>2. QED BY <1>1, <1>4, <1>5, <1>6, <1>7, <2>1 DEF PlaceInv
<1>11. QED BY <1>8, <1>9, <1>10

\* No output is sure any more.
LEMMA NobodyKnows ==
  ASSUME ConstantsFit, PlaceInv, SizeInv', sure' = {}, term' = Home,
         cursor' = cursor, tty' = tty
  PROVE  PlaceInv'
<1>1. window' \in (Nat \ {0}) \X (Nat \ {0})
  BY DEF ConstantsFit, SizeInv
<1>2. TermCols' \in Nat \ {0} /\ TermRows' \in Nat \ {0}
  BY <1>1 DEF TermCols, TermRows
<1>3. term' \in Shown'
  BY <1>2 DEF Home, Shown
<1>4. QED BY <1>3 DEF PlaceInv, Reported

\* Every step keeps the cursors.
LEMMA NextPlace ==
  ASSUME ConstantsFit, PlaceInv, [ConsoleNext]_consoleVars
  PROVE  PlaceInv'
<1>1. ASSUME UNCHANGED <<tty, window, size, cursor, term, sure>> PROVE PlaceInv'
  <2>1. Shown' = Shown /\ Rows' = Rows /\ SizeInv' = SizeInv /\ \A c, t : Same(c, t)' = Same(c, t)
    BY <1>1 DEF Shown, Same, Cols, Rows, TermCols, TermRows, SizeInv
  <2>2. QED BY <1>1, <2>1 DEF PlaceInv
<1>2. CASE NewInput \/ \E o \in Outputs : NewOutput(o) \/ ResetOutput(o)
  BY <1>1, <1>2 DEF NewInput, NewOutput, ResetOutput
<1>3. ASSUME NEW o \in Outputs, ClearScreen(o) PROVE PlaceInv'
  <2>1. SetCursor(o, 0, 0) /\ UNCHANGED <<window, size, tty>>
    BY <1>3 DEF ClearScreen
  <2>2. 0 < Cols /\ 0 < Rows
    BY WindowIs DEF PlaceInv
  <2>3. QED BY <2>1, <2>2, SettingKeeps
<1>4. CASE \E o \in Outputs, s \in Strings : OutputString(o, s)
  BY <1>4, WritingKeeps
<1>5. ASSUME NEW o \in Outputs, NEW col \in 0..Cols, NEW row \in 0..Rows,
             SetCursorPosition(o, col, row)
      PROVE  PlaceInv'
  <2>1. /\ col < Cols /\ row < Rows
        /\ SetCursor(o, col, row) /\ UNCHANGED <<window, size, tty>>
    BY <1>5 DEF SetCursorPosition
  <2>2. Cols \in Nat /\ Rows \in Nat
    BY WindowIs DEF PlaceInv
  <2>3. col \in Nat /\ row \in Nat
    BY <2>2
  <2>4. QED BY <2>1, <2>3, SettingKeeps
<1>6. CASE \E p \in Presses : Press(p)
  BY <1>1, <1>6 DEF Press, termVars
<1>7. CASE Arrive
  <2>1. /\ UNCHANGED <<tty, window, size, cursor>>
        /\ UNCHANGED <<sure, term>> \/ (sure' = {} /\ term' = Home)
    BY <1>7 DEF Arrive
  <2>2. SizeInv'
    BY <2>1 DEF PlaceInv, SizeInv
  <2>3. QED BY <1>1, <2>1, <2>2, NobodyKnows
<1>8. CASE ReadKey \/ ReadMore \/ TimeOut
  BY <1>1, <1>8 DEF ReadKey, ReadMore, TimeOut, termVars
<1>9. ASSUME NEW s \in Sizes, Resize(s) PROVE PlaceInv'
  <2>1. /\ window' = s /\ size' = (IF "in" \in tty THEN s ELSE size)
        /\ sure' = {} /\ term' = Home /\ cursor' = cursor /\ tty' = tty
    BY <1>9 DEF Resize
  <2>2. SizeInv'
    BY <2>1 DEF PlaceInv, SizeInv
  <2>3. QED BY <2>1, <2>2, NobodyKnows
<1>10. CASE UNCHANGED consoleVars
  BY <1>1, <1>10 DEF consoleVars, termVars
<1>11. QED
  BY <1>2, <1>3, <1>4, <1>5, <1>6, <1>7, <1>8, <1>9, <1>10 DEF ConsoleNext

\* A service is started that does not run.
LEMMA OneMoreRuns ==
  ASSUME RoomInv, NEW s \in Outputs \cup {"in"}, ~Running(s),
         started' = Append(started, s), escape' = escape
  PROVE  RoomInv'
<1>1. started \in Seq(Outputs \cup {"in"}) /\ IsInjective(started) /\ Len(escape) < EscapeSize
  BY DEF RoomInv
<1>2. /\ started' \in Seq(Outputs \cup {"in"})
      /\ Len(started) \in Nat /\ Len(started') = Len(started) + 1
      /\ DOMAIN started = 1..Len(started) /\ DOMAIN started' = 1..(Len(started) + 1)
      /\ \A i \in 1..Len(started) : started'[i] = started[i]
      /\ started'[Len(started) + 1] = s
  BY <1>1, Appended
<1>3. \A i \in 1..Len(started) : started[i] # s
  BY <1>2 DEF Running, ToSet
<1>4. ASSUME NEW i \in DOMAIN started', NEW j \in DOMAIN started', started'[i] = started'[j] PROVE i = j
  <2>1. \A k \in 1..(Len(started) + 1) : k \in 1..Len(started) \/ k = Len(started) + 1
    BY <1>2
  <2>2. QED BY <1>1, <1>2, <1>3, <1>4, <2>1 DEF IsInjective
<1>5. QED BY <1>1, <1>2, <1>4 DEF RoomInv, IsInjective

\* Every step starts services once and leaves room.
LEMMA NextRoom ==
  ASSUME ConstantsFit, KeyInv, RoomInv, [ConsoleNext]_consoleVars
  PROVE  RoomInv'
<1>1. ASSUME UNCHANGED <<started, escape>> PROVE RoomInv'
  BY <1>1 DEF RoomInv
<1>2. EscapeSize \in Nat \ {0, 1} /\ Len(<<>>) = 0
  BY DEF ConstantsFit
<1>3. CASE NewInput
  BY <1>3, OneMoreRuns DEF NewInput, keyVars
<1>4. CASE \E o \in Outputs : NewOutput(o)
  BY <1>4, OneMoreRuns DEF NewOutput, keyVars
<1>5. CASE \E o \in Outputs : ClearScreen(o) \/ ResetOutput(o)
  BY <1>1, <1>5 DEF ClearScreen, ResetOutput, keyVars
<1>6. CASE \E o \in Outputs, s \in Strings : OutputString(o, s)
  BY <1>1, <1>6 DEF OutputString, keyVars
<1>7. CASE \E o \in Outputs, col \in 0..Cols, row \in 0..Rows : SetCursorPosition(o, col, row)
  BY <1>1, <1>7 DEF SetCursorPosition, keyVars
<1>8. CASE (\E p \in Presses : Press(p)) \/ Arrive
  BY <1>1, <1>8 DEF Press, Arrive
<1>9. CASE ReadKey
  <2>1. started' = started /\ (escape' = <<"ESC">> \/ escape' = escape)
    BY <1>9 DEF ReadKey
  <2>2. Len(<<"ESC">>) = 1
    OBVIOUS
  <2>3. Len(<<"ESC">>) < EscapeSize
    BY <1>2, <2>2
  <2>4. Len(escape') < EscapeSize
    BY <2>1, <2>3 DEF RoomInv
  <2>5. QED BY <2>1, <2>4 DEF RoomInv
<1>10. CASE ReadMore
  <2> DEFINE all == Append(escape, Head(arrived))
  <2>1. /\ started' = started /\ arrived # <<>>
        /\ escape' = IF all \in Known \/ Len(all) >= EscapeSize THEN <<>> ELSE all
    BY <1>10 DEF ReadMore
  <2>2. Len(all) \in Nat
    BY <2>1, HeadMoves
  <2> HIDE DEF all
  <2>3. Len(escape') < EscapeSize
    BY <1>2, <2>1, <2>2
  <2>4. QED BY <2>1, <2>3 DEF RoomInv
<1>11. CASE TimeOut
  <2>1. started' = started /\ escape' = <<>>
    BY <1>11 DEF TimeOut
  <2>2. QED BY <1>2, <2>1 DEF RoomInv
<1>12. CASE \E s \in Sizes : Resize(s)
  <2>1. started' = started /\ (escape' = escape \/ escape' = <<>>)
    BY <1>12 DEF Resize, Interrupted, keyVars
  <2>2. Len(escape') < EscapeSize
    BY <1>2, <2>1 DEF RoomInv
  <2>3. QED BY <2>1, <2>2 DEF RoomInv
<1>13. CASE UNCHANGED consoleVars
  BY <1>1, <1>13 DEF consoleVars, keyVars
<1>14. QED
  BY <1>3, <1>4, <1>5, <1>6, <1>7, <1>8, <1>9, <1>10, <1>11, <1>12, <1>13 DEF ConsoleNext

\* The reported cursors stay in windows there were and, for an output that is sure
\* of its own, at the terminal's cursor; services run once, the buffer is never full.
THEOREM CursorInvariant ==
  ASSUME ConstantsFit
  PROVE  ConsoleSpec => [](PlaceInv /\ RoomInv)
<1>1. KeyInv /\ PlaceInv /\ RoomInv /\ [ConsoleNext]_consoleVars => PlaceInv' /\ RoomInv'
  BY NextPlace, NextRoom
<1>2. ConsoleInit => PlaceInv /\ RoomInv
  BY InitPlace
<1>3. QED BY <1>1, <1>2, KeyInvariant, PTL DEF ConsoleSpec

\* The cursor an output reports is where the next character will appear, from when
\* it has set it until something else moves the terminal's (posix-fd.c:
\* efi_text_string_impl counts columns and rows of its own), for every window whose
\* size the code knows, every string and every order of services; and it knows the
\* size whenever the input is that terminal.
THEOREM CursorAlwaysFollows ==
  ASSUME ConstantsFit
  PROVE  ConsoleSpec => []CursorFollows
<1>1. RawInv /\ KeyInv /\ PlaceInv /\ RoomInv => CursorFollows
  <2> SUFFICES ASSUME RawInv, KeyInv, PlaceInv, RoomInv PROVE CursorFollows
    OBVIOUS
  <2>1. ToSet(started) \subseteq Outputs \cup {"in"}
    <3>1. \A i \in DOMAIN started : started[i] \in Outputs \cup {"in"}
      BY LenProperties DEF RoomInv
    <3>2. QED BY <3>1 DEF ToSet
  <2>2. term.col < TermCols /\ term.row < TermRows /\ term.full \in BOOLEAN
    BY DEF PlaceInv, Shown
  <2>3. ConsoleTypeOK
    BY <2>1, <2>2 DEF ConsoleTypeOK, RawInv, KeyInv, PlaceInv, SizeInv, RoomInv
  <2>4. ASSUME size = window, NEW o \in sure
        PROVE  cursor[o] = IF term.full THEN [col |-> 0, row |-> Least(term.row + 1, TermRows - 1)]
                           ELSE [col |-> term.col, row |-> term.row]
    <3>1. cursor[o] \in [col : Nat, row : Nat] /\ Same(cursor[o], term) /\ cursor[o].row < Rows
      BY <2>4 DEF PlaceInv, Reported
    <3>2. Rows \in Nat \ {0} /\ Rows = TermRows
      BY <2>4, WindowIs DEF PlaceInv, Rows, TermRows
    <3>3. Least(cursor[o].row, Rows - 1) = cursor[o].row
      BY <3>1, <3>2 DEF Least
    <3>4. /\ cursor[o].col = IF term.full THEN 0 ELSE term.col
          /\ cursor[o].row = IF term.full THEN Least(term.row + 1, TermRows - 1) ELSE term.row
      BY <3>1, <3>2, <3>3 DEF Same
    <3>5. cursor[o] = [col |-> cursor[o].col, row |-> cursor[o].row]
      BY <3>1
    <3>6. QED BY <3>4, <3>5
  <2>5. QED BY <2>3, <2>4 DEF CursorFollows, PlaceInv, SizeInv
<1>2. QED BY <1>1, SavedRaw, KeyInvariant, CursorInvariant, PTL

-----------------------------------------------------------------------------
(* Transfers between the screen and a program's buffer *)

\* What is mapped where something is: n pixels.
Memory(n) == [0..(n - 1) -> Pixel]

\* The bytes of a pixel are bytes.
LEMMA Bytes ==
  ASSUME NEW p \in Pixel
  PROVE  p[0] \in 0..255 /\ p[1] \in 0..255 /\ p[2] \in 0..255 /\ p[3] \in 0..255
BY DEF Pixel

\* Red and blue are at the ends, green is between them (fb.c:12-13).
LEMMA MaskIs ==
  /\ Mask = <<0, 1, 2>> \/ Mask = <<2, 1, 0>>
  /\ Mask[2] = 1 /\ ((Mask[1] = 0 /\ Mask[3] = 2) \/ (Mask[1] = 2 /\ Mask[3] = 0))
BY BltAssumption

\* A channel of a program's pixel is moved to its place in the frame buffer, and the
\* others are masked (fb.c:203-207).
LEMMA ChannelOut ==
  ASSUME NEW p \in Pixel, NEW k \in 1..3, NEW b \in 0..3
  PROVE  Masked(Shifted(p, ShiftOf(k)), k)[b] = IF b = Mask[k] THEN p[3 - k] ELSE 0
<1>1. Mask[k] \in 0..2 /\ b - ShiftOf(k) = b - Mask[k] + 3 - k
  <2>1. k = 1 \/ k = 2 \/ k = 3
    OBVIOUS
  <2> QED BY <2>1, MaskIs DEF ShiftOf
<1>2. Shifted(p, ShiftOf(k))[b] = IF b - ShiftOf(k) \in 0..3 THEN p[b - ShiftOf(k)] ELSE 0
  BY DEF Shifted
<1>3. Masked(Shifted(p, ShiftOf(k)), k)[b] = IF b = Mask[k] THEN Shifted(p, ShiftOf(k))[b] ELSE 0
  BY DEF Masked
<1>4. b = Mask[k] => b - ShiftOf(k) = 3 - k /\ 3 - k \in 0..3
  BY <1>1
<1> QED BY <1>2, <1>3, <1>4

\* A channel of the frame buffer is masked and moved to its place in a program's
\* pixel (fb.c:168-173).
LEMMA ChannelIn ==
  ASSUME NEW v \in Pixel, NEW k \in 1..3, NEW b \in 0..3
  PROVE  Shifted(Masked(v, k), -ShiftOf(k))[b] = IF b = 3 - k THEN v[Mask[k]] ELSE 0
<1> DEFINE c == b + Mask[k] - 3 + k
<1>1. Mask[k] \in 0..2 /\ b - (-ShiftOf(k)) = c
  <2>1. k = 1 \/ k = 2 \/ k = 3
    OBVIOUS
  <2> QED BY <2>1, MaskIs DEF ShiftOf
<1>2. Shifted(Masked(v, k), -ShiftOf(k))[b] = IF c \in 0..3 THEN Masked(v, k)[c] ELSE 0
  BY <1>1 DEF Shifted
<1>3. c \in 0..3 => Masked(v, k)[c] = IF c = Mask[k] THEN v[c] ELSE 0
  BY DEF Masked
<1>4. c = Mask[k] <=> b = 3 - k
  BY <1>1
<1> HIDE DEF c
<1> QED BY <1>1, <1>2, <1>3, <1>4

\* A pixel of the frame buffer has the channels of the program's pixel it was made
\* from (fb.c:203-207).
LEMMA ToVideoIs ==
  ASSUME NEW p \in Pixel
  PROVE  ToVideo(p) \in Pixel /\ VideoColour(ToVideo(p)) = PixelColour(p)
<1> DEFINE c == [k \in 1..3 |-> Masked(Shifted(p, ShiftOf(k)), k)]
<1>1. ToVideo(p) = [b \in 0..3 |-> c[1][b] + c[2][b] + c[3][b]]
  BY DEF ToVideo, Merged
<1>2. \A b \in 0..3 : /\ c[1][b] = IF b = Mask[1] THEN p[2] ELSE 0
                      /\ c[2][b] = IF b = Mask[2] THEN p[1] ELSE 0
                      /\ c[3][b] = IF b = Mask[3] THEN p[0] ELSE 0
  <2>1. TAKE b \in 0..3
  <2>2. c[1] = Masked(Shifted(p, ShiftOf(1)), 1) /\ c[2] = Masked(Shifted(p, ShiftOf(2)), 2)
        /\ c[3] = Masked(Shifted(p, ShiftOf(3)), 3)
    OBVIOUS
  <2>3. 1 \in 1..3 /\ 2 \in 1..3 /\ 3 \in 1..3 /\ 3 - 1 = 2 /\ 3 - 2 = 1 /\ 3 - 3 = 0
    OBVIOUS
  <2> QED BY <2>2, <2>3, ChannelOut
<1> HIDE DEF c
<1>3. p[0] \in 0..255 /\ p[1] \in 0..255 /\ p[2] \in 0..255
  BY Bytes
<1>4. Mask[2] = 1 /\ ((Mask[1] = 0 /\ Mask[3] = 2) \/ (Mask[1] = 2 /\ Mask[3] = 0))
  BY MaskIs
<1>5. /\ ToVideo(p)[0] = (IF Mask[1] = 0 THEN p[2] ELSE p[0]) /\ ToVideo(p)[1] = p[1]
      /\ ToVideo(p)[2] = (IF Mask[1] = 0 THEN p[0] ELSE p[2]) /\ ToVideo(p)[3] = 0
  <2>1. \A b \in 0..3 : ToVideo(p)[b] = c[1][b] + c[2][b] + c[3][b]
    BY <1>1
  <2>2. ToVideo(p)[0] = IF Mask[1] = 0 THEN p[2] + 0 + 0 ELSE 0 + 0 + p[0]
    BY <2>1, <1>2, <1>4
  <2>3. ToVideo(p)[1] = 0 + p[1] + 0
    BY <2>1, <1>2, <1>4
  <2>4. ToVideo(p)[2] = IF Mask[1] = 0 THEN 0 + 0 + p[0] ELSE p[2] + 0 + 0
    BY <2>1, <1>2, <1>4
  <2>5. ToVideo(p)[3] = 0 + 0 + 0
    BY <2>1, <1>2, <1>4
  <2> QED BY ONLY <2>2, <2>3, <2>4, <2>5, <1>3
<1>6. \A b \in 0..3 : ToVideo(p)[b] \in 0..255
  <2>1. TAKE b \in 0..3
  <2>2. b = 0 \/ b = 1 \/ b = 2 \/ b = 3
    OBVIOUS
  <2> QED BY <2>2, <1>5, <1>3
<1>7. ToVideo(p) \in Pixel
  BY <1>1, <1>6 DEF Pixel
<1> QED BY <1>4, <1>5, <1>7 DEF VideoColour, PixelColour

\* A program's pixel has the channels of the pixel of the frame buffer it was made
\* from (fb.c:168-173).
LEMMA ToPixelIs ==
  ASSUME NEW v \in Pixel
  PROVE  ToPixel(v) \in Pixel /\ PixelColour(ToPixel(v)) = VideoColour(v)
<1> DEFINE c == [k \in 1..3 |-> Shifted(Masked(v, k), -ShiftOf(k))]
<1>1. ToPixel(v) = [b \in 0..3 |-> c[1][b] + c[2][b] + c[3][b]]
  BY DEF ToPixel, Merged
<1>2. \A b \in 0..3 : /\ c[1][b] = IF b = 2 THEN v[Mask[1]] ELSE 0
                      /\ c[2][b] = IF b = 1 THEN v[Mask[2]] ELSE 0
                      /\ c[3][b] = IF b = 0 THEN v[Mask[3]] ELSE 0
  <2>1. TAKE b \in 0..3
  <2>2. c[1] = Shifted(Masked(v, 1), -ShiftOf(1)) /\ c[2] = Shifted(Masked(v, 2), -ShiftOf(2))
        /\ c[3] = Shifted(Masked(v, 3), -ShiftOf(3))
    OBVIOUS
  <2>3. 1 \in 1..3 /\ 2 \in 1..3 /\ 3 \in 1..3 /\ 3 - 1 = 2 /\ 3 - 2 = 1 /\ 3 - 3 = 0
    OBVIOUS
  <2> QED BY <2>2, <2>3, ChannelIn
<1> HIDE DEF c
<1>3. v[0] \in 0..255 /\ v[1] \in 0..255 /\ v[2] \in 0..255
  BY Bytes
<1>4. v[Mask[1]] \in 0..255 /\ v[Mask[2]] \in 0..255 /\ v[Mask[3]] \in 0..255
  BY MaskIs, <1>3
<1>5. /\ ToPixel(v)[0] = v[Mask[3]] /\ ToPixel(v)[1] = v[Mask[2]]
      /\ ToPixel(v)[2] = v[Mask[1]] /\ ToPixel(v)[3] = 0
  <2>1. \A b \in 0..3 : ToPixel(v)[b] = c[1][b] + c[2][b] + c[3][b]
    BY <1>1
  <2>2. ToPixel(v)[0] = 0 + 0 + v[Mask[3]]
    BY <2>1, <1>2
  <2>3. ToPixel(v)[1] = 0 + v[Mask[2]] + 0
    BY <2>1, <1>2
  <2>4. ToPixel(v)[2] = v[Mask[1]] + 0 + 0
    BY <2>1, <1>2
  <2>5. ToPixel(v)[3] = 0 + 0 + 0
    BY <2>1, <1>2
  <2> QED BY ONLY <2>2, <2>3, <2>4, <2>5, <1>4
<1>6. \A b \in 0..3 : ToPixel(v)[b] \in 0..255
  <2>1. TAKE b \in 0..3
  <2>2. b = 0 \/ b = 1 \/ b = 2 \/ b = 3
    OBVIOUS
  <2> QED BY <2>2, <1>5, <1>4
<1>7. ToPixel(v) \in Pixel
  BY <1>1, <1>6 DEF Pixel
<1> QED BY <1>5, <1>7 DEF VideoColour, PixelColour

\* What is copied keeps its colour, in the order of bytes of the memory it comes to
\* (fb.c:159,202).
LEMMA ConvertedIs ==
  ASSUME NEW p \in Pixel
  PROVE  /\ \A op : Converted(p, op) \in Pixel
         /\ VideoColour(Converted(p, "buffer_to_video")) = PixelColour(p)
         /\ PixelColour(Converted(p, "video_to_buffer")) = VideoColour(p)
         /\ Converted(p, "video_to_video") = p
<1>1. Mask = <<2, 1, 0>> => VideoColour(p) = PixelColour(p)
  BY DEF VideoColour, PixelColour
<1>2. ToVideo(p) \in Pixel /\ VideoColour(ToVideo(p)) = PixelColour(p)
  BY ToVideoIs
<1>3. ToPixel(p) \in Pixel /\ PixelColour(ToPixel(p)) = VideoColour(p)
  BY ToPixelIs
<1> QED BY <1>1, <1>2, <1>3 DEF Converted, Bgra

\* A row of w pixels is there to be read as far as it is written.
Readable(P, Q, d, s, w) == \A j \in 0..(w - 1) : d + j < P => s + j < Q

\* What a memory is after a row came to it.
WithRow(P, after, to, d, from, s, w, op) ==
  /\ after \in Memory(P)
  /\ \A k \in 0..(P - 1) : k \notin d..(d + w - 1) => after[k] = to[k]
  /\ \A j \in 0..(w - 1) : d + j < P => after[d + j] = Converted(from[s + j], op)

\* One row of a copy (fb.c:159-173).
LEMMA CellsCopied ==
  ASSUME NEW P \in Nat, NEW Q \in Nat, NEW to \in Memory(P), NEW from \in Memory(Q),
         NEW d \in Nat, NEW s \in Nat, NEW w \in Nat, NEW op,
         Readable(P, Q, d, s, w)
  PROVE  WithRow(P, CopyCells(to, d, from, s, w, op), to, d, from, s, w, op)
<1>1. DOMAIN to = 0..(P - 1) /\ \A k \in 0..(P - 1) : to[k] \in Pixel
  BY DEF Memory
<1>2. \A k \in 0..(Q - 1) : from[k] \in Pixel
  BY DEF Memory
<1>3. \A k \in 0..(P - 1) : k \in d..(d + w - 1) => Converted(from[s + k - d], op) \in Pixel
  <2>1. TAKE k \in 0..(P - 1)
  <2>2. HAVE k \in d..(d + w - 1)
  <2>3. k - d \in 0..(w - 1) /\ d + (k - d) < P /\ s + (k - d) = s + k - d
    BY <2>2
  <2>4. s + (k - d) < Q
    BY <2>3 DEF Readable
  <2>5. s + k - d \in 0..(Q - 1)
    BY <2>3, <2>4
  <2> QED BY <2>5, <1>2, ConvertedIs
<1>4. CopyCells(to, d, from, s, w, op)
        = [k \in 0..(P - 1) |-> IF k \in d..(d + w - 1) THEN Converted(from[s + k - d], op) ELSE to[k]]
  BY <1>1 DEF CopyCells
<1>5. \A j \in 0..(w - 1) :
         d + j < P => CopyCells(to, d, from, s, w, op)[d + j] = Converted(from[s + j], op)
  <2>1. TAKE j \in 0..(w - 1)
  <2>2. HAVE d + j < P
  <2>3. d + j \in 0..(P - 1) /\ d + j \in d..(d + w - 1) /\ s + (d + j) - d = s + j
    BY <2>2
  <2> QED BY <2>3, <1>4
<1> QED BY <1>1, <1>3, <1>4, <1>5 DEF Memory, WithRow

\* g holds what every one of n steps from the start leaves.
Stepped(n, M, start, F, g) ==
  /\ g \in [0..n -> M] /\ g[0] = start
  /\ \A i \in 1..n : g[i] = F[<<i, g[i - 1]>>]

\* Every step leaves something of M.
StepsIn(n, M, F) == \A i \in 1..n, m \in M : F[<<i, m>>] \in M

\* What is done step by step can be done (no code: recursion).
LEMMA StepsExist ==
  ASSUME NEW n \in Nat, NEW M, NEW start \in M, NEW F, StepsIn(n, M, F)
  PROVE  \E g : Stepped(n, M, start, F, g)
<1> DEFINE Done(g, k) == g[0] = start /\ \A i \in 1..k : g[i] = F[<<i, g[i - 1]>>]
           A == {k \in Nat : k <= n => \E g \in [0..k -> M] : Done(g, k)}
<1>1. 0 \in A
  <2>1. [i \in 0..0 |-> start] \in [0..0 -> M] /\ Done([i \in 0..0 |-> start], 0)
    OBVIOUS
  <2> QED BY <2>1
<1>2. ASSUME NEW k \in Nat, k \in A PROVE k + 1 \in A
  <2>1. SUFFICES ASSUME k + 1 <= n PROVE \E f \in [0..(k + 1) -> M] : Done(f, k + 1)
    OBVIOUS
  <2>2. PICK g \in [0..k -> M] : Done(g, k)
    BY <1>2, <2>1
  <2>3. g[k] \in M /\ k + 1 \in 1..n
    BY <2>1
  <2>4. F[<<k + 1, g[k]>>] \in M
    BY <2>3 DEF StepsIn
  <2> DEFINE f == [i \in 0..(k + 1) |-> IF i <= k THEN g[i] ELSE F[<<k + 1, g[k]>>]]
  <2>5. f \in [0..(k + 1) -> M]
    BY <2>4
  <2>6. f[k + 1] = F[<<k + 1, g[k]>>] /\ \A i \in 0..k : f[i] = g[i]
    OBVIOUS
  <2> HIDE DEF f
  <2>7. \A i \in 1..(k + 1) : f[i] = F[<<i, f[i - 1]>>]
    <3>1. TAKE i \in 1..(k + 1)
    <3>2. CASE i = k + 1
      <4>1. i - 1 = k /\ f[k] = g[k]
        BY <3>2, <2>6
      <4> QED BY <4>1, <3>2, <2>6
    <3>3. CASE i # k + 1
      <4>1. i \in 1..k /\ i \in 0..k /\ i - 1 \in 0..k
        BY <3>3
      <4>2. f[i] = g[i] /\ f[i - 1] = g[i - 1]
        BY <4>1, <2>6
      <4>3. g[i] = F[<<i, g[i - 1]>>]
        BY <4>1, <2>2
      <4> QED BY <4>2, <4>3
    <3> QED BY <3>2, <3>3
  <2>8. f[0] = start
    BY <2>2, <2>6
  <2> QED BY <2>5, <2>7, <2>8
<1> HIDE DEF A
<1>3. n \in A
  BY <1>1, <1>2, SetInduction
<1> QED BY <1>3 DEF A, Stepped

\* Rows are copied one after the other: the memory after i of them is g[i], row i comes
\* from S[i] in what F[i] holds and goes to D[i] (fb.c:158-175, 203-212, 230-236).
Copying(P, Q, h, w, op, g, D, S, F) ==
  /\ P \in Nat /\ Q \in Nat /\ h \in Nat /\ w \in Nat
  /\ g \in [0..h -> Memory(P)] /\ F \in [1..h -> Memory(Q)]
  /\ D \in [1..h -> Nat] /\ S \in [1..h -> Nat]
  /\ \A i \in 1..h : Readable(P, Q, D[i], S[i], w)
  /\ \A i \in 1..h : g[i] = CopyCells(g[i - 1], D[i], F[i], S[i], w, op)

\* One step of copying rows.
LEMMA RowCopied ==
  ASSUME NEW P, NEW Q, NEW h, NEW w, NEW op, NEW g, NEW D, NEW S, NEW F,
         Copying(P, Q, h, w, op, g, D, S, F), NEW i \in 1..h
  PROVE  /\ \A k \in 0..(P - 1) : k \notin D[i]..(D[i] + w - 1) => g[i][k] = g[i - 1][k]
         /\ \A j \in 0..(w - 1) : D[i] + j < P => g[i][D[i] + j] = Converted(F[i][S[i] + j], op)
<1>1. /\ P \in Nat /\ Q \in Nat /\ h \in Nat /\ w \in Nat
      /\ g[i - 1] \in Memory(P) /\ F[i] \in Memory(Q) /\ D[i] \in Nat /\ S[i] \in Nat
      /\ Readable(P, Q, D[i], S[i], w)
      /\ g[i] = CopyCells(g[i - 1], D[i], F[i], S[i], w, op)
  <2>1. h \in Nat => i - 1 \in 0..h
    OBVIOUS
  <2> QED BY <2>1 DEF Copying
<1>2. WithRow(P, g[i], g[i - 1], D[i], F[i], S[i], w, op)
  BY <1>1, CellsCopied
<1> QED BY <1>2 DEF WithRow

\* What no row goes to stays.
LEMMA RowsKept ==
  ASSUME NEW P, NEW Q, NEW h, NEW w, NEW op, NEW g, NEW D, NEW S, NEW F,
         Copying(P, Q, h, w, op, g, D, S, F), NEW n \in 0..h, NEW k \in 0..(P - 1),
         \A i \in 1..n : k \notin D[i]..(D[i] + w - 1)
  PROVE  g[n][k] = g[0][k]
<1> DEFINE A == {m \in Nat : m <= n => g[m][k] = g[0][k]}
<1>0. h \in Nat
  BY DEF Copying
<1>1. 0 \in A
  OBVIOUS
<1>2. ASSUME NEW m \in Nat, m \in A PROVE m + 1 \in A
  <2>1. SUFFICES ASSUME m + 1 <= n PROVE g[m + 1][k] = g[0][k]
    OBVIOUS
  <2>2. m + 1 \in 1..h /\ m + 1 \in 1..n /\ (m + 1) - 1 = m
    BY <2>1, <1>0
  <2>3. g[m + 1][k] = g[(m + 1) - 1][k]
    BY <2>2, RowCopied
  <2>4. g[m][k] = g[0][k]
    BY <1>2, <2>1
  <2> QED BY <2>2, <2>3, <2>4
<1> HIDE DEF A
<1>3. n \in A /\ n \in Nat
  BY <1>0, <1>1, <1>2, SetInduction
<1> QED BY <1>3 DEF A

\* No two rows of w pixels share one.
RowsApart(h, w, D) == \A i1, i2 \in 1..h : i1 < i2 => D[i1] + w <= D[i2]

\* Every pixel of the h rows came to its place.
AllCopied(P, h, w, op, after, D, S, F) ==
  \A i \in 1..h, j \in 0..(w - 1) : D[i] + j < P => after[D[i] + j] = Converted(F[i][S[i] + j], op)

\* What was copied stays, as the rows are apart.
LEMMA RowsCopied ==
  ASSUME NEW P, NEW Q, NEW h, NEW w, NEW op, NEW g, NEW D, NEW S, NEW F,
         Copying(P, Q, h, w, op, g, D, S, F), RowsApart(h, w, D)
  PROVE  AllCopied(P, h, w, op, g[h], D, S, F)
<1> SUFFICES ASSUME NEW i \in 1..h, NEW j \in 0..(w - 1), D[i] + j < P
             PROVE  g[h][D[i] + j] = Converted(F[i][S[i] + j], op)
  BY DEF AllCopied
<1> DEFINE c == Converted(F[i][S[i] + j], op)
           A == {m \in Nat : i <= m /\ m <= h => g[m][D[i] + j] = c}
<1>0. h \in Nat /\ w \in Nat /\ D[i] \in Nat /\ P \in Nat /\ D \in [1..h -> Nat]
  BY DEF Copying
<1>1. g[i][D[i] + j] = c
  BY RowCopied
<1> HIDE DEF c
<1>2. 0 \in A
  BY <1>0
<1>3. ASSUME NEW m \in Nat, m \in A PROVE m + 1 \in A
  <2>1. SUFFICES ASSUME i <= m + 1, m + 1 <= h PROVE g[m + 1][D[i] + j] = c
    OBVIOUS
  <2>2. CASE i = m + 1
    BY <2>2, <1>1
  <2>3. CASE i <= m
    <3>1. m + 1 \in 1..h /\ (m + 1) - 1 = m /\ D[m + 1] \in Nat
      BY <2>1, <1>0
    <3>2. D[i] + w <= D[m + 1]
      BY <2>3, <3>1 DEF RowsApart
    <3>3. D[i] + j \in 0..(P - 1) /\ D[i] + j \notin D[m + 1]..(D[m + 1] + w - 1)
      BY <3>1, <3>2, <1>0
    <3>4. g[m + 1][D[i] + j] = g[(m + 1) - 1][D[i] + j]
      BY <3>1, <3>3, RowCopied
    <3>5. m <= h
      BY <2>1, <1>0
    <3>6. g[m][D[i] + j] = c
      BY <1>3, <3>5, <2>3
    <3> QED BY <3>1, <3>4, <3>6
  <2> QED BY <2>1, <2>2, <2>3
<1> HIDE DEF A
<1>4. h \in A
  BY <1>0, <1>2, <1>3, SetInduction
<1> QED BY <1>0, <1>4 DEF A, c

\* Rows with a pitch are apart (no code: multiplication).
LEMMA PitchApart ==
  ASSUME NEW p \in Nat, NEW a \in Nat, NEW b \in Nat, a < b
  PROVE  a * p \in Nat /\ b * p \in Nat /\ a * p + p <= b * p
<1>1. PICK c \in Nat : b = a + 1 + c
  <2>1. b - a - 1 \in Nat /\ b = a + 1 + (b - a - 1)
    OBVIOUS
  <2> QED BY <2>1
<1>2. b * p = a * p + p + c * p
  BY <1>1
<1>3. a * p \in Nat /\ c * p \in Nat /\ b * p \in Nat
  OBVIOUS
<1> QED BY <1>2, <1>3

\* What a memory is after h rows came to it, with their pitches.
WithRows(P, after, to, d, dp, from, s, sp, h, w, op) ==
  /\ after \in Memory(P)
  /\ \A k \in 0..(P - 1) :
       (\A y \in 0..(h - 1), j \in 0..(w - 1) : k # d + y * dp + j) => after[k] = to[k]
  /\ \A y \in 0..(h - 1), j \in 0..(w - 1) :
       d + y * dp + j < P => after[d + y * dp + j] = Converted(from[s + y * sp + j], op)

\* The rows of a copy (fb.c:158-175, 203-212).
LEMMA RowsAre ==
  ASSUME NEW P \in Nat, NEW Q \in Nat, NEW to \in Memory(P), NEW from \in Memory(Q),
         NEW d \in Nat, NEW dp \in Nat, NEW s \in Nat, NEW sp \in Nat, NEW r,
         r.h \in Nat, r.w \in Nat, r.w <= dp,
         \A y \in 0..(r.h - 1) : Readable(P, Q, d + y * dp, s + y * sp, r.w)
  PROVE  WithRows(P, CopyRows(r, to, d, dp, from, s, sp), to, d, dp, from, s, sp, r.h, r.w, r.op)
<1> DEFINE h == r.h
           w == r.w
           D == [i \in 1..h |-> d + (i - 1) * dp]
           S == [i \in 1..h |-> s + (i - 1) * sp]
           F == [i \in 1..h |-> from]
           Rec(g) == [i \in 0..r.h |->
                        IF i = 0 THEN to
                        ELSE CopyCells(g[i - 1], d + (i - 1) * dp, from, s + (i - 1) * sp, r.w, r.op)]
           f == CHOOSE g : g = Rec(g)
           Step == [x \in (1..h) \X Memory(P) |->
                      CopyCells(x[2], d + (x[1] - 1) * dp, from, s + (x[1] - 1) * sp, r.w, r.op)]
<1>1. \A i \in 1..h : /\ d + (i - 1) * dp \in Nat /\ s + (i - 1) * sp \in Nat
                      /\ Readable(P, Q, d + (i - 1) * dp, s + (i - 1) * sp, w)
  <2>1. TAKE i \in 1..h
  <2>2. i - 1 \in Nat /\ i - 1 \in 0..(h - 1)
    OBVIOUS
  <2>3. (i - 1) * dp \in Nat /\ (i - 1) * sp \in Nat
    BY <2>2
  <2> QED BY <2>2, <2>3
<1>2. StepsIn(h, Memory(P), Step)
  <2> SUFFICES \A i \in 1..h, m \in Memory(P) : Step[<<i, m>>] \in Memory(P)
    BY DEF StepsIn
  <2>1. TAKE i \in 1..h, m \in Memory(P)
  <2>2. Step[<<i, m>>] = CopyCells(m, d + (i - 1) * dp, from, s + (i - 1) * sp, r.w, r.op)
    OBVIOUS
  <2>3. WithRow(P, Step[<<i, m>>], m, d + (i - 1) * dp, from, s + (i - 1) * sp, r.w, r.op)
    BY <2>2, <1>1, CellsCopied
  <2> QED BY <2>3 DEF WithRow
<1>3. \E g : Stepped(h, Memory(P), to, Step, g)
  <2> HIDE DEF Step
  <2> QED BY <1>2, StepsExist
<1>4. f = Rec(f)
  <2>0. PICK g : Stepped(h, Memory(P), to, Step, g)
    BY <1>3
  <2>1. g \in [0..h -> Memory(P)] /\ g[0] = to /\ \A i \in 1..h : g[i] = Step[<<i, g[i - 1]>>]
    <3> HIDE DEF Step
    <3> QED BY <2>0 DEF Stepped
  <2>2. \A i \in 1..h : g[i] = CopyCells(g[i - 1], d + (i - 1) * dp, from, s + (i - 1) * sp, r.w, r.op)
    <3>1. TAKE i \in 1..h
    <3>2. g[i - 1] \in Memory(P)
      <4>1. i - 1 \in 0..h
        OBVIOUS
      <4> QED BY ONLY <4>1, <2>1
    <3>3. Step[<<i, g[i - 1]>>] = CopyCells(g[i - 1], d + (i - 1) * dp, from, s + (i - 1) * sp, r.w, r.op)
      BY <3>2
    <3> QED BY <2>1, <3>3
  <2>3. \A i \in 0..h : g[i] = Rec(g)[i]
    <3>1. TAKE i \in 0..h
    <3>2. i = 0 \/ i \in 1..h
      OBVIOUS
    <3> QED BY <3>2, <2>1, <2>2
  <2>4. g = Rec(g)
    <3>1. g = [i \in 0..h |-> g[i]]
      BY ONLY <2>1
    <3>2. Rec(g) = [i \in 0..h |-> Rec(g)[i]]
      OBVIOUS
    <3> HIDE DEF Rec, Step
    <3> QED BY <2>3, <3>1, <3>2
  <2> HIDE DEF Rec
  <2> QED BY <2>4
<1>5. CopyRows(r, to, d, dp, from, s, sp) = f[h]
  BY DEF CopyRows
<1>6. f = [i \in 0..h |-> f[i]] /\ f[0] = to
      /\ \A i \in 1..h : f[i] = CopyCells(f[i - 1], d + (i - 1) * dp, from, s + (i - 1) * sp, r.w, r.op)
  <2> HIDE DEF f
  <2>1. \A i \in 0..h : f[i] = Rec(f)[i]
    BY <1>4
  <2>2. Rec(f) = [i \in 0..h |-> Rec(f)[i]]
    OBVIOUS
  <2>3. f = [i \in 0..h |-> f[i]]
    <3> HIDE DEF Rec
    <3> QED BY <1>4, <2>2
  <2>4. 0 \in 0..h
    OBVIOUS
  <2>5. f[0] = to
    BY <2>1, <2>4
  <2>6. ASSUME NEW i \in 1..h
        PROVE  f[i] = CopyCells(f[i - 1], d + (i - 1) * dp, from, s + (i - 1) * sp, r.w, r.op)
    <3>1. i \in 0..h /\ i # 0
      OBVIOUS
    <3> QED BY <2>1, <3>1
  <2> QED BY <2>3, <2>5, <2>6
<1> HIDE DEF f, Rec
<1>7. f \in [0..h -> Memory(P)]
  <2> DEFINE A == {i \in Nat : i <= h => f[i] \in Memory(P)}
  <2>1. 0 \in A
    BY <1>6
  <2>2. ASSUME NEW i \in Nat, i \in A PROVE i + 1 \in A
    <3>1. SUFFICES ASSUME i + 1 <= h PROVE f[i + 1] \in Memory(P)
      OBVIOUS
    <3>2. f[i] \in Memory(P) /\ i + 1 \in 1..h /\ (i + 1) - 1 = i
      BY <2>2, <3>1
    <3>3. f[i + 1] = CopyCells(f[i], d + ((i + 1) - 1) * dp, from, s + ((i + 1) - 1) * sp, r.w, r.op)
      BY <3>2, <1>6
    <3>4. WithRow(P, f[i + 1], f[i], d + ((i + 1) - 1) * dp, from, s + ((i + 1) - 1) * sp, r.w, r.op)
      BY <3>2, <3>3, <1>1, CellsCopied
    <3> QED BY <3>4 DEF WithRow
  <2> HIDE DEF A
  <2>3. Nat \subseteq A
    BY <2>1, <2>2, SetInduction
  <2>4. \A i \in 0..h : f[i] \in Memory(P)
    BY <2>3 DEF A
  <2> QED BY <2>4, <1>6
<1>8. Copying(P, Q, h, w, r.op, f, D, S, F)
  <2>1. D \in [1..h -> Nat] /\ S \in [1..h -> Nat]
    BY <1>1
  <2>2. F \in [1..h -> Memory(Q)]
    OBVIOUS
  <2>3. \A i \in 1..h : Readable(P, Q, D[i], S[i], w)
    BY <1>1
  <2>4. \A i \in 1..h : f[i] = CopyCells(f[i - 1], D[i], F[i], S[i], w, r.op)
    BY <1>6
  <2> QED BY <2>1, <2>2, <2>3, <2>4, <1>7 DEF Copying
<1>9. RowsApart(h, w, D)
  <2> SUFFICES \A i1, i2 \in 1..h : i1 < i2 => D[i1] + w <= D[i2]
    BY DEF RowsApart
  <2>1. TAKE i1, i2 \in 1..h
  <2>2. HAVE i1 < i2
  <2>3. i1 - 1 \in Nat /\ i2 - 1 \in Nat /\ i1 - 1 < i2 - 1
    BY <2>2
  <2>4. (i1 - 1) * dp \in Nat /\ (i2 - 1) * dp \in Nat /\ (i1 - 1) * dp + dp <= (i2 - 1) * dp
    BY <2>3, PitchApart
  <2>5. D[i1] = d + (i1 - 1) * dp /\ D[i2] = d + (i2 - 1) * dp
    OBVIOUS
  <2> HIDE DEF D
  <2> QED BY <2>4, <2>5
<1>10. \A k \in 0..(P - 1) :
         (\A y \in 0..(h - 1), j \in 0..(w - 1) : k # d + y * dp + j) => f[h][k] = to[k]
  <2>1. TAKE k \in 0..(P - 1)
  <2>2. HAVE \A y \in 0..(h - 1), j \in 0..(w - 1) : k # d + y * dp + j
  <2>3. \A i \in 1..h : k \notin D[i]..(D[i] + w - 1)
    <3>1. SUFFICES ASSUME NEW i \in 1..h, k \in D[i]..(D[i] + w - 1) PROVE FALSE
      OBVIOUS
    <3>2. i - 1 \in 0..(h - 1) /\ D[i] = d + (i - 1) * dp /\ D[i] \in Nat
      BY <1>1
    <3> HIDE DEF D
    <3>3. k - D[i] \in 0..(w - 1) /\ k = D[i] + (k - D[i])
      BY <3>1, <3>2
    <3> QED BY <3>2, <3>3, <2>2
  <2>4. h \in 0..h /\ f[0] = to
    BY <1>6
  <2> HIDE DEF D, S, F
  <2>5. f[h][k] = f[0][k]
    BY <1>8, <2>3, <2>4, RowsKept
  <2> QED BY <2>4, <2>5
<1>11. ASSUME NEW y \in 0..(h - 1), NEW j \in 0..(w - 1), d + y * dp + j < P
       PROVE  f[h][d + y * dp + j] = Converted(from[s + y * sp + j], r.op)
  <2>1. y + 1 \in 1..h /\ D[y + 1] = d + y * dp /\ S[y + 1] = s + y * sp /\ F[y + 1] = from
    OBVIOUS
  <2> HIDE DEF D, S, F
  <2>2. AllCopied(P, h, w, r.op, f[h], D, S, F)
    BY <1>8, <1>9, RowsCopied
  <2>3. f[h][D[y + 1] + j] = Converted(F[y + 1][S[y + 1] + j], r.op)
    BY <1>11, <2>1, <2>2 DEF AllCopied
  <2> QED BY <2>1, <2>3
<1>12. f[h] \in Memory(P)
  BY <1>7
<1> QED BY <1>5, <1>10, <1>11, <1>12 DEF WithRows

\* The memory after i rows of a copy within it is f[i], row R[i] comes then (fb.c:230-236).
WalksRows(f, v, d, s, R, r) ==
  f = [i \in 0..r.h |->
         IF i = 0 THEN v
         ELSE CopyCells(f[i - 1], d + R[i] * Scan, f[i - 1], s + R[i] * Scan, r.w, r.op)]

\* The rows are there to be read.
RowsReadable(P, d, s, R, r) ==
  \A i \in 1..r.h : Readable(P, P, d + R[i] * Scan, s + R[i] * Scan, r.w)

\* Rows of a copy within a memory are rows of a copy.
CopiesRows(P, f, d, s, R, r) ==
  Copying(P, P, r.h, r.w, r.op, f, [i \in 1..r.h |-> d + R[i] * Scan],
          [i \in 1..r.h |-> s + R[i] * Scan], [i \in 1..r.h |-> f[i - 1]])

\* The rows of a copy within the frame buffer (fb.c:230-236).
LEMMA VideoRows ==
  ASSUME NEW P \in Nat, NEW v \in Memory(P), NEW d \in Nat, NEW s \in Nat, NEW r,
         r.h \in Nat, r.w \in Nat, NEW R \in [1..r.h -> Nat], RowsReadable(P, d, s, R, r),
         NEW f, WalksRows(f, v, d, s, R, r)
  PROVE  CopiesRows(P, f, d, s, R, r)
<1> USE DEF WalksRows, RowsReadable, CopiesRows
<1> DEFINE h == r.h
           w == r.w
           D == [i \in 1..h |-> d + R[i] * Scan]
           S == [i \in 1..h |-> s + R[i] * Scan]
           F == [i \in 1..h |-> f[i - 1]]
<1>0. h \in Nat /\ w \in Nat /\ Scan \in Nat
  BY BltAssumption
<1>1. \A i \in 1..h : D[i] \in Nat /\ S[i] \in Nat /\ Readable(P, P, D[i], S[i], w)
  <2>1. TAKE i \in 1..h
  <2>2. R[i] \in Nat
    OBVIOUS
  <2>3. R[i] * Scan \in Nat
    BY <2>2, <1>0
  <2> QED BY <2>3
<1>2. f[0] = v /\ f = [i \in 0..h |-> f[i]]
  BY <1>0
<1>3. \A i \in 1..h : f[i] = CopyCells(f[i - 1], D[i], f[i - 1], S[i], w, r.op)
  <2>1. TAKE i \in 1..h
  <2>2. i \in 0..h /\ i # 0 /\ D[i] = d + R[i] * Scan /\ S[i] = s + R[i] * Scan
    BY <1>0
  <2> HIDE DEF D, S
  <2> QED BY <2>2
<1> HIDE DEF D, S
<1>4. f \in [0..h -> Memory(P)]
  <2> DEFINE A == {i \in Nat : i <= h => f[i] \in Memory(P)}
  <2>1. 0 \in A
    BY <1>2
  <2>2. ASSUME NEW i \in Nat, i \in A PROVE i + 1 \in A
    <3>1. SUFFICES ASSUME i + 1 <= h PROVE f[i + 1] \in Memory(P)
      OBVIOUS
    <3>2. f[i] \in Memory(P) /\ i + 1 \in 1..h /\ (i + 1) - 1 = i
      BY <2>2, <3>1, <1>0
    <3>3. f[i + 1] = CopyCells(f[i], D[i + 1], f[i], S[i + 1], w, r.op)
      BY <3>2, <1>3
    <3>4. D[i + 1] \in Nat /\ S[i + 1] \in Nat /\ Readable(P, P, D[i + 1], S[i + 1], w)
      BY <3>2, <1>1
    <3>5. WithRow(P, f[i + 1], f[i], D[i + 1], f[i], S[i + 1], w, r.op)
      BY <3>2, <3>3, <3>4, <1>0, CellsCopied
    <3> QED BY <3>5 DEF WithRow
  <2> HIDE DEF A
  <2>3. Nat \subseteq A
    BY <2>1, <2>2, SetInduction
  <2>4. \A i \in 0..h : f[i] \in Memory(P)
    BY <1>0, <2>3 DEF A
  <2> HIDE DEF h
  <2> QED BY <2>4, <1>2
<1>5. F \in [1..h -> Memory(P)] /\ \A i \in 1..h : f[i] = CopyCells(f[i - 1], D[i], F[i], S[i], w, r.op)
  <2>1. \A i \in 1..h : i - 1 \in 0..h /\ f[i - 1] \in Memory(P)
    BY ONLY <1>0, <1>4
  <2> QED BY <2>1, <1>3
<1>6. D \in [1..h -> Nat] /\ S \in [1..h -> Nat]
  BY <1>1 DEF D, S
<1> HIDE DEF F
<1>7. Copying(P, P, h, w, r.op, f, D, S, F)
  BY <1>0, <1>1, <1>4, <1>5, <1>6 DEF Copying
<1> QED BY <1>7 DEF D, S, F

\* The memory of a copy within the frame buffer exists (no code: recursion).
LEMMA VideoRowsExist ==
  ASSUME NEW P \in Nat, NEW v \in Memory(P), NEW d \in Nat, NEW s \in Nat, NEW r,
         r.h \in Nat, r.w \in Nat, NEW R \in [1..r.h -> Nat], RowsReadable(P, d, s, R, r)
  PROVE  \E f : WalksRows(f, v, d, s, R, r)
<1> USE DEF WalksRows, RowsReadable
<1> DEFINE h == r.h
           w == r.w
           D == [i \in 1..h |-> d + R[i] * Scan]
           S == [i \in 1..h |-> s + R[i] * Scan]
           Step == [x \in (1..h) \X Memory(P) |-> CopyCells(x[2], D[x[1]], x[2], S[x[1]], w, r.op)]
<1>0. h \in Nat /\ w \in Nat /\ Scan \in Nat
  BY BltAssumption
<1>1. \A i \in 1..h : D[i] \in Nat /\ S[i] \in Nat /\ Readable(P, P, D[i], S[i], w)
  <2>1. TAKE i \in 1..h
  <2>2. R[i] \in Nat
    OBVIOUS
  <2>3. R[i] * Scan \in Nat
    BY <2>2, <1>0
  <2> QED BY <2>3
<1>2. \A i \in 1..h : D[i] = d + R[i] * Scan /\ S[i] = s + R[i] * Scan
  OBVIOUS
<1> HIDE DEF D, S
<1>3. StepsIn(h, Memory(P), Step)
  <2> SUFFICES \A i \in 1..h, m \in Memory(P) : Step[<<i, m>>] \in Memory(P)
    BY DEF StepsIn
  <2>1. TAKE i \in 1..h, m \in Memory(P)
  <2>2. Step[<<i, m>>] = CopyCells(m, D[i], m, S[i], w, r.op)
    OBVIOUS
  <2>3. D[i] \in Nat /\ S[i] \in Nat /\ Readable(P, P, D[i], S[i], w)
    BY <1>1
  <2>4. WithRow(P, Step[<<i, m>>], m, D[i], m, S[i], w, r.op)
    BY <2>2, <2>3, <1>0, CellsCopied
  <2> QED BY <2>4 DEF WithRow
<1>4. PICK g : Stepped(h, Memory(P), v, Step, g)
  <2> HIDE DEF Step
  <2> QED BY <1>0, <1>3, StepsExist
<1>5. g \in [0..h -> Memory(P)] /\ g[0] = v /\ \A i \in 1..h : g[i] = Step[<<i, g[i - 1]>>]
  <2> HIDE DEF Step
  <2> QED BY <1>4 DEF Stepped
<1>6. ASSUME NEW i \in 1..h PROVE g[i] = CopyCells(g[i - 1], D[i], g[i - 1], S[i], w, r.op)
  <2>1. i - 1 \in 0..h
    BY <1>0
  <2>2. g[i - 1] \in Memory(P)
    BY ONLY <2>1, <1>5
  <2>3. Step[<<i, g[i - 1]>>] = CopyCells(g[i - 1], D[i], g[i - 1], S[i], w, r.op)
    BY <2>2
  <2> QED BY <1>5, <2>3
<1> DEFINE Rec == [i \in 0..h |->
                     IF i = 0 THEN v
                     ELSE CopyCells(g[i - 1], d + R[i] * Scan, g[i - 1], s + R[i] * Scan, r.w, r.op)]
<1>7. \A i \in 0..h : g[i] = Rec[i]
  <2>1. TAKE i \in 0..h
  <2>2. i = 0 \/ i \in 1..h
    BY <1>0
  <2>3. CASE i = 0
    BY <2>3, <1>5
  <2>4. CASE i \in 1..h
    <3>1. g[i] = CopyCells(g[i - 1], d + R[i] * Scan, g[i - 1], s + R[i] * Scan, r.w, r.op)
      BY <2>4, <1>6, <1>2
    <3>2. i # 0
      BY <2>4, <1>0
    <3> QED BY <3>1, <3>2
  <2> QED BY <2>2, <2>3, <2>4
<1>8. g = Rec
  <2>1. g = [i \in 0..h |-> g[i]]
    BY ONLY <1>5
  <2>2. Rec = [i \in 0..h |-> Rec[i]]
    OBVIOUS
  <2> HIDE DEF Rec
  <2> QED BY <1>7, <2>1, <2>2
<1> HIDE DEF Step
<1> QED BY <1>8

\* The place of column x and row y in a picture with a pitch.
Place(p, x, y) == y * p + x

\* Two places of a picture with a pitch are different places of memory (fb.c:112-115).
LEMMA PlacesApart ==
  ASSUME NEW p \in Nat, NEW x1 \in Nat, NEW x2 \in Nat, NEW y1 \in Nat, NEW y2 \in Nat,
         x1 < p, x2 < p, Place(p, x1, y1) = Place(p, x2, y2)
  PROVE  x1 = x2 /\ y1 = y2
<1>0. y1 * p + x1 = y2 * p + x2
  BY DEF Place
<1>1. y1 < y2 => FALSE
  <2>1. y1 < y2 => y1 * p \in Nat /\ y2 * p \in Nat /\ y1 * p + p <= y2 * p
    BY PitchApart
  <2> QED BY <2>1, <1>0
<1>2. y2 < y1 => FALSE
  <2>1. y2 < y1 => y1 * p \in Nat /\ y2 * p \in Nat /\ y2 * p + p <= y1 * p
    BY PitchApart
  <2> QED BY <2>1, <1>0
<1>3. y1 = y2
  BY <1>1, <1>2
<1>4. y1 * p \in Nat
  OBVIOUS
<1> QED BY <1>0, <1>3, <1>4

\* Every place of memory is one of a picture with a pitch (no code: division).
LEMMA Divided ==
  ASSUME NEW p \in Nat, p > 0, NEW q \in Nat
  PROVE  \E y \in Nat, x \in 0..(p - 1) : q = y * p + x
<1> DEFINE A == {n \in Nat : \E y \in Nat, x \in 0..(p - 1) : n = y * p + x}
<1>1. 0 \in A
  <2>1. 0 = 0 * p + 0 /\ 0 \in 0..(p - 1)
    OBVIOUS
  <2> QED BY <2>1
<1>2. ASSUME NEW n \in Nat, n \in A PROVE n + 1 \in A
  <2>1. PICK y \in Nat, x \in 0..(p - 1) : n = y * p + x
    BY <1>2
  <2>2. y * p \in Nat
    OBVIOUS
  <2>3. CASE x < p - 1
    <3>1. x + 1 \in 0..(p - 1) /\ n + 1 = y * p + (x + 1)
      BY <2>1, <2>2, <2>3
    <3> QED BY <3>1
  <2>4. CASE x = p - 1
    <3>1. (y + 1) * p = y * p + p
      OBVIOUS
    <3>2. n + 1 = (y + 1) * p + 0 /\ 0 \in 0..(p - 1) /\ y + 1 \in Nat
      BY <2>1, <2>2, <2>4, <3>1
    <3>3. \E z \in Nat, u \in 0..(p - 1) : n + 1 = z * p + u
      <4> WITNESS y + 1 \in Nat, 0 \in 0..(p - 1)
      <4> QED BY <3>2
    <3> QED BY <3>3
  <2> QED BY <2>3, <2>4
<1> HIDE DEF A
<1>3. q \in A
  BY <1>1, <1>2, SetInduction
<1> QED BY <1>3 DEF A

\* The place of row y + j and column x + i, from that of row y and column x.
LEMMA PlaceFrom ==
  ASSUME NEW p \in Nat, NEW x \in Nat, NEW y \in Nat, NEW i \in Nat, NEW j \in Nat
  PROVE  /\ (y * p + x) + j * p + i = (y + j) * p + (x + i)
         /\ y * p + x \in Nat /\ j * p \in Nat /\ (y + j) * p + (x + i) \in Nat
<1>1. (y + j) * p = y * p + j * p /\ y * p \in Nat /\ j * p \in Nat
  OBVIOUS
<1> QED BY <1>1

\* What the screen is.
LEMMA ScreenIs ==
  /\ Scan \in Nat /\ Scan > 0 /\ Width \in Nat /\ Width <= Scan /\ Height \in Nat /\ VideoPixels \in Nat
  /\ BufferPixels \in Nat /\ BufferPixels > 0 /\ Scan * Height <= VideoPixels
BY BltAssumption

\* The pixels of the screen are in what is mapped, each at a place of its own.
LEMMA OnTheScreen ==
  ASSUME NEW x \in 0..(Width - 1), NEW y \in 0..(Height - 1)
  PROVE  At(x, y) \in 0..(VideoPixels - 1)
<1>1. y \in Nat /\ Height \in Nat /\ y < Height /\ Scan \in Nat
  BY ScreenIs
<1>2. y * Scan \in Nat /\ y * Scan + Scan <= Height * Scan /\ Height * Scan \in Nat
  BY <1>1, PitchApart
<1>3. Height * Scan = Scan * Height
  BY ScreenIs
<1> QED BY <1>2, <1>3, ScreenIs DEF At

\* Pixel i of row j of a rectangle is on the screen, at its place.
PixelThere(left, top, i, j) ==
  /\ left + i \in 0..(Width - 1) /\ top + j \in 0..(Height - 1)
  /\ At(left, top) \in Nat /\ At(left, top) + j * Scan + i = At(left + i, top + j)
  /\ At(left + i, top + j) \in 0..(VideoPixels - 1)

\* A pixel of a rectangle on the screen.
LEMMA InRectangle ==
  ASSUME NEW left \in Nat, NEW top \in Nat, NEW w \in Nat, NEW h \in Nat, OnScreen(left, top, w, h),
         NEW i \in 0..(w - 1), NEW j \in 0..(h - 1)
  PROVE  PixelThere(left, top, i, j)
<1>1. left + i \in 0..(Width - 1) /\ top + j \in 0..(Height - 1)
  BY ScreenIs DEF OnScreen
<1>2. /\ (top * Scan + left) + j * Scan + i = (top + j) * Scan + (left + i)
      /\ top * Scan + left \in Nat
  BY PlaceFrom, ScreenIs
<1> QED BY <1>1, <1>2, OnTheScreen DEF At, PixelThere

\* The rectangle of the screen has the pixels of rows, and all else stayed.
DrawnFrom(r, after, v, from, s, sp, op) ==
  /\ \A x \in 0..(Width - 1), y \in 0..(Height - 1) :
       IF Inside(x, y, r.dx, r.dy, r)
       THEN after[At(x, y)] = Converted(from[s + (y - r.dy) * sp + (x - r.dx)], op)
       ELSE after[At(x, y)] = v[At(x, y)]
  /\ \A i \in DOMAIN v :
       (\A x \in 0..(Width - 1), y \in 0..(Height - 1) : i # At(x, y)) => after[i] = v[i]

\* Rows that came to a rectangle of the screen, as its pixels.
LEMMA RectangleDrawn ==
  ASSUME NEW r, r.dx \in Nat, r.dy \in Nat, r.w \in Nat, r.h \in Nat,
         OnScreen(r.dx, r.dy, r.w, r.h), NEW v \in Memory(VideoPixels), NEW from, NEW op,
         NEW s \in Nat, NEW sp \in Nat, NEW after,
         WithRows(VideoPixels, after, v, At(r.dx, r.dy), Scan, from, s, sp, r.h, r.w, op)
  PROVE  DrawnFrom(r, after, v, from, s, sp, op)
<1> DEFINE d == At(r.dx, r.dy)
<1>0. \A y \in 0..(r.h - 1), j \in 0..(r.w - 1) :
         /\ r.dx + j \in 0..(Width - 1) /\ r.dy + y \in 0..(Height - 1)
         /\ d + y * Scan + j = At(r.dx + j, r.dy + y)
         /\ d + y * Scan + j \in 0..(VideoPixels - 1)
  <2>1. TAKE y \in 0..(r.h - 1), j \in 0..(r.w - 1)
  <2>2. PixelThere(r.dx, r.dy, j, y)
    BY InRectangle
  <2> QED BY <2>2 DEF PixelThere
<1>1. \A k \in 0..(VideoPixels - 1) :
         (\A y \in 0..(r.h - 1), j \in 0..(r.w - 1) : k # At(r.dx + j, r.dy + y)) => after[k] = v[k]
  BY <1>0 DEF WithRows
<1>2. \A y \in 0..(r.h - 1), j \in 0..(r.w - 1) :
         after[At(r.dx + j, r.dy + y)] = Converted(from[s + y * sp + j], op)
  <2>1. TAKE y \in 0..(r.h - 1), j \in 0..(r.w - 1)
  <2>2. d + y * Scan + j < VideoPixels
    BY <1>0, ScreenIs
  <2>3. after[d + y * Scan + j] = Converted(from[s + y * sp + j], op)
    BY <2>2 DEF WithRows
  <2>4. d + y * Scan + j = At(r.dx + j, r.dy + y)
    BY <1>0
  <2> QED BY <2>3, <2>4
<1>3. ASSUME NEW x \in 0..(Width - 1), NEW y \in 0..(Height - 1), Inside(x, y, r.dx, r.dy, r)
      PROVE  after[At(x, y)] = Converted(from[s + (y - r.dy) * sp + (x - r.dx)], op)
  <2>1. x - r.dx \in 0..(r.w - 1) /\ y - r.dy \in 0..(r.h - 1)
    BY <1>3, ScreenIs DEF Inside
  <2>2. r.dx + (x - r.dx) = x /\ r.dy + (y - r.dy) = y
    BY ScreenIs
  <2>3. after[At(r.dx + (x - r.dx), r.dy + (y - r.dy))]
          = Converted(from[s + (y - r.dy) * sp + (x - r.dx)], op)
    BY <1>2, <2>1
  <2> QED BY <2>2, <2>3
<1>4. ASSUME NEW x \in 0..(Width - 1), NEW y \in 0..(Height - 1), ~Inside(x, y, r.dx, r.dy, r)
      PROVE  after[At(x, y)] = v[At(x, y)]
  <2>1. At(x, y) \in 0..(VideoPixels - 1)
    BY OnTheScreen
  <2>2. ASSUME NEW b \in 0..(r.h - 1), NEW a \in 0..(r.w - 1), At(x, y) = At(r.dx + a, r.dy + b)
        PROVE  FALSE
    <3>1. r.dx + a \in 0..(Width - 1) /\ r.dy + b \in 0..(Height - 1)
      BY <1>0
    <3>2. /\ x \in Nat /\ y \in Nat /\ r.dx + a \in Nat /\ r.dy + b \in Nat /\ Scan \in Nat
          /\ x < Scan /\ r.dx + a < Scan
      BY <3>1, ScreenIs
    <3>3. Place(Scan, x, y) = Place(Scan, r.dx + a, r.dy + b)
      BY <2>2 DEF At, Place
    <3> DEFINE c == r.dx + a
               e == r.dy + b
    <3>4. c \in Nat /\ e \in Nat /\ c < Scan /\ Place(Scan, x, y) = Place(Scan, c, e)
      BY <3>2, <3>3
    <3> HIDE DEF c, e
    <3>5. x = c /\ y = e
      BY ONLY <3>2, <3>4, PlacesApart
    <3> QED BY <3>5, <1>4 DEF Inside, c, e
  <2> QED BY <2>1, <2>2, <1>1
<1>5. ASSUME NEW i \in DOMAIN v, \A x \in 0..(Width - 1), y \in 0..(Height - 1) : i # At(x, y)
      PROVE  after[i] = v[i]
  <2>1. i \in 0..(VideoPixels - 1)
    BY DEF Memory
  <2>2. \A y \in 0..(r.h - 1), j \in 0..(r.w - 1) : i # At(r.dx + j, r.dy + y)
    BY <1>0, <1>5
  <2> QED BY <1>1, <2>1, <2>2
<1> QED BY <1>3, <1>4, <1>5 DEF DrawnFrom

\* What a program asks for is proper.
LEMMA ProperIs ==
  ASSUME NEW r, Proper(r)
  PROVE  /\ r.sx \in Nat /\ r.sy \in Nat /\ r.dx \in Nat /\ r.dy \in Nat /\ r.w \in Nat /\ r.h \in Nat
         /\ Pitch(r) \in Nat /\ r.w <= Pitch(r)
BY DEF Proper, Pitch

\* Row y of a rectangle in a program's buffer is in the buffer.
LEMMA InTheBuffer ==
  ASSUME NEW r, Proper(r), NEW x \in Nat, NEW top \in Nat, InBuffer(r, x, top),
         NEW y \in 0..(r.h - 1), NEW i \in 0..(r.w - 1)
  PROVE  /\ (top * Pitch(r) + x) + y * Pitch(r) + i \in 0..(BufferPixels - 1)
         /\ (top * Pitch(r) + x) + y * Pitch(r) + i = (top + y) * Pitch(r) + x + i
<1> DEFINE p == Pitch(r)
<1>1. p \in Nat /\ r.h \in Nat /\ r.w \in Nat /\ y \in Nat /\ i \in Nat
  BY ProperIs
<1>2. (top + r.h - 1) * p + x + r.w <= BufferPixels
  BY DEF InBuffer
<1> HIDE DEF p
<1>3. (top + y) * p = top * p + y * p /\ top * p \in Nat /\ y * p \in Nat
  BY <1>1
<1> DEFINE e == top + r.h - 1
           a == top + y
<1>4. e \in Nat /\ a \in Nat /\ a <= e
  BY <1>1
<1>5. e * p + x + r.w <= BufferPixels /\ a * p = top * p + y * p
  BY <1>2, <1>3
<1>6. a * p <= e * p /\ a * p \in Nat /\ e * p \in Nat
  <2> HIDE DEF a, e
  <2>1. a < e => a * p \in Nat /\ e * p \in Nat /\ a * p + p <= e * p
    BY <1>1, <1>4, PitchApart
  <2>2. a * p \in Nat
    BY <1>1, <1>4
  <2> QED BY <1>1, <1>4, <2>1, <2>2
<1>7. (top * p + x) + y * p + i = a * p + x + i
  <2> HIDE DEF a
  <2> QED BY <1>1, <1>3, <1>5
<1>8. a * p + x + i \in 0..(BufferPixels - 1)
  <2> HIDE DEF a, e
  <2> QED BY <1>1, <1>5, <1>6, ScreenIs
<1> QED BY <1>7, <1>8 DEF p, a

\* Rows to a program's buffer (fb.c:142-177).
LEMMA ToBufferIs ==
  ASSUME NEW r, Proper(r), r.op = "video_to_buffer", OnScreen(r.sx, r.sy, r.w, r.h),
         NEW v \in Memory(VideoPixels), NEW b \in Memory(BufferPixels)
  PROVE  /\ VideoToBuffer(r, v, b).ok /\ VideoToBuffer(r, v, b).video = v
         /\ WithRows(BufferPixels, VideoToBuffer(r, v, b).buffer, b, r.dy * Pitch(r) + r.dx, Pitch(r),
                     v, At(r.sx, r.sy), Scan, r.h, r.w, r.op)
<1> DEFINE d == r.dy * Pitch(r) + r.dx
           s == At(r.sx, r.sy)
<1>1. /\ r.sx \in Nat /\ r.sy \in Nat /\ r.dx \in Nat /\ r.dy \in Nat /\ r.w \in Nat /\ r.h \in Nat
      /\ Pitch(r) \in Nat /\ r.w <= Pitch(r)
  BY ProperIs
<1>2. d \in Nat /\ s \in Nat
  BY <1>1, PlaceFrom, ScreenIs DEF At
<1>3. \A y \in 0..(r.h - 1) : Readable(BufferPixels, VideoPixels, d + y * Pitch(r), s + y * Scan, r.w)
  <2>1. TAKE y \in 0..(r.h - 1)
  <2>2. ASSUME NEW j \in 0..(r.w - 1) PROVE s + y * Scan + j < VideoPixels
    <3>1. PixelThere(r.sx, r.sy, j, y)
      BY <1>1, InRectangle
    <3> QED BY <3>1, ScreenIs DEF PixelThere
  <2> QED BY <2>2 DEF Readable
<1>4. VideoToBuffer(r, v, b)
        = [ok |-> TRUE, video |-> v, buffer |-> CopyRows(r, b, d, Pitch(r), v, s, Scan)]
  BY DEF VideoToBuffer
<1> HIDE DEF d, s
<1>5. WithRows(BufferPixels, CopyRows(r, b, d, Pitch(r), v, s, Scan), b, d, Pitch(r), v, s, Scan,
               r.h, r.w, r.op)
  BY <1>1, <1>2, <1>3, ScreenIs, RowsAre
<1> QED BY <1>4, <1>5 DEF d, s

\* Rows from a program's buffer (fb.c:178-214).
LEMMA FromBufferIs ==
  ASSUME NEW r, Proper(r), r.op = "buffer_to_video", OnScreen(r.dx, r.dy, r.w, r.h),
         NEW v \in Memory(VideoPixels), NEW b \in Memory(BufferPixels)
  PROVE  /\ BufferToVideo(r, v, b).ok /\ BufferToVideo(r, v, b).buffer = b
         /\ WithRows(VideoPixels, BufferToVideo(r, v, b).video, v, At(r.dx, r.dy), Scan,
                     b, r.sy * Pitch(r) + r.sx, Pitch(r), r.h, r.w, r.op)
<1> DEFINE s == r.sy * Pitch(r) + r.sx
           d == At(r.dx, r.dy)
<1>1. /\ r.sx \in Nat /\ r.sy \in Nat /\ r.dx \in Nat /\ r.dy \in Nat /\ r.w \in Nat /\ r.h \in Nat
      /\ Pitch(r) \in Nat /\ r.w <= Pitch(r)
  BY ProperIs
<1>2. d \in Nat /\ s \in Nat
  BY <1>1, PlaceFrom, ScreenIs DEF At
<1>3. InBuffer(r, r.sx, r.sy)
  BY DEF Proper
<1>4. \A y \in 0..(r.h - 1) : Readable(VideoPixels, BufferPixels, d + y * Scan, s + y * Pitch(r), r.w)
  <2>1. TAKE y \in 0..(r.h - 1)
  <2>2. ASSUME NEW j \in 0..(r.w - 1) PROVE s + y * Pitch(r) + j < BufferPixels
    <3>1. s + y * Pitch(r) + j \in 0..(BufferPixels - 1)
      BY <1>1, <1>3, InTheBuffer
    <3> HIDE DEF s
    <3> QED BY <3>1, ScreenIs
  <2> QED BY <2>2 DEF Readable
<1>5. BufferToVideo(r, v, b)
        = [ok |-> TRUE, buffer |-> b, video |-> CopyRows(r, v, d, Scan, b, s, Pitch(r))]
  BY DEF BufferToVideo
<1>6. r.w <= Scan
  BY <1>1, ScreenIs DEF OnScreen
<1> HIDE DEF d, s
<1>7. WithRows(VideoPixels, CopyRows(r, v, d, Scan, b, s, Pitch(r)), v, d, Scan, b, s, Pitch(r),
               r.h, r.w, r.op)
  BY <1>1, <1>2, <1>4, <1>6, ScreenIs, RowsAre
<1> QED BY <1>5, <1>7 DEF d, s

\* Rows within the frame buffer; where they do not come to a later place, they are
\* those that were there before (fb.c:215-238).
LEMMA WithinVideoIs ==
  ASSUME NEW r, Proper(r), r.op = "video_to_video",
         OnScreen(r.sx, r.sy, r.w, r.h), OnScreen(r.dx, r.dy, r.w, r.h),
         NEW v \in Memory(VideoPixels), NEW b \in Memory(BufferPixels)
  PROVE  /\ VideoToVideo(r, v, b).ok /\ VideoToVideo(r, v, b).buffer = b
         /\ VideoToVideo(r, v, b).video \in Memory(VideoPixels)
         /\ Defined(r) => WithRows(VideoPixels, VideoToVideo(r, v, b).video, v, At(r.dx, r.dy), Scan,
                                   v, At(r.sx, r.sy), Scan, r.h, r.w, r.op)
<1> DEFINE s == At(r.sx, r.sy)
           d == At(r.dx, r.dy)
           h == r.h
           P == VideoPixels
           R == [i \in 1..r.h |-> IF d > s THEN r.h - i + 1 ELSE i - 1]
           Rec(g) == [i \in 0..r.h |->
                        LET row == IF d > s THEN r.h - i + 1 ELSE i - 1
                        IN IF i = 0 THEN v
                           ELSE CopyCells(g[i - 1], d + row * Scan, g[i - 1], s + row * Scan, r.w, r.op)]
           f == CHOOSE g : g = Rec(g)
           ByRows(g) == [i \in 0..r.h |->
                         IF i = 0 THEN v
                         ELSE CopyCells(g[i - 1], d + R[i] * Scan, g[i - 1], s + R[i] * Scan, r.w, r.op)]
<1>1. /\ r.sx \in Nat /\ r.sy \in Nat /\ r.dx \in Nat /\ r.dy \in Nat /\ r.w \in Nat /\ r.h \in Nat
      /\ r.w <= Scan /\ Scan \in Nat /\ P \in Nat /\ r.w > 0
  BY ProperIs, ScreenIs DEF OnScreen
<1>2. d \in Nat /\ s \in Nat
  BY <1>1, PlaceFrom DEF At
<1>3. VideoToVideo(r, v, b) = [ok |-> TRUE, buffer |-> b, video |-> f[r.h]]
  BY DEF VideoToVideo
<1>4. \A g : Rec(g) = ByRows(g)
  <2>1. TAKE g
  <2>2. \A i \in 0..r.h : Rec(g)[i] = ByRows(g)[i]
    <3>1. TAKE i \in 0..r.h
    <3>2. CASE i = 0
      BY <3>2
    <3>3. CASE i # 0
      <4>1. i \in 1..r.h
        BY <3>3, <1>1
      <4>2. R[i] = IF d > s THEN r.h - i + 1 ELSE i - 1
        BY <4>1
      <4> QED BY <3>3, <4>2
    <3> QED BY <3>2, <3>3
  <2>3. Rec(g) = [i \in 0..r.h |-> Rec(g)[i]] /\ ByRows(g) = [i \in 0..r.h |-> ByRows(g)[i]]
    OBVIOUS
  <2> HIDE DEF Rec, ByRows
  <2> QED BY <2>2, <2>3
<1>5. R \in [1..r.h -> Nat] /\ (d <= s => \A i \in 1..r.h : R[i] = i - 1)
  <2> HIDE DEF d, s
  <2> QED BY <1>1, <1>2
<1>6. RowsReadable(P, d, s, R, r)
  <2> SUFFICES \A i \in 1..r.h : Readable(P, P, d + R[i] * Scan, s + R[i] * Scan, r.w)
    BY DEF RowsReadable
  <2>1. TAKE i \in 1..r.h
  <2>2. R[i] * Scan \in Nat
    <3>1. R[i] \in Nat
      BY <1>5
    <3> HIDE DEF R
    <3> QED BY <3>1, <1>1
  <2>3. CASE d > s
    <3> HIDE DEF d, s, R
    <3> QED BY <2>2, <2>3, <1>1, <1>2 DEF Readable
  <2>4. CASE d <= s
    <3>1. R[i] = i - 1 /\ i - 1 \in 0..(r.h - 1)
      <4> HIDE DEF R, d, s
      <4> QED BY <1>5, <2>4, <1>1
    <3>2. ASSUME NEW j \in 0..(r.w - 1) PROVE s + (i - 1) * Scan + j < P
      <4>1. PixelThere(r.sx, r.sy, j, i - 1)
        BY <1>1, <3>1, InRectangle
      <4> QED BY <4>1, ScreenIs DEF PixelThere
    <3> HIDE DEF R, d, s
    <3> QED BY <3>1, <3>2 DEF Readable
  <2> HIDE DEF d, s, R
  <2> QED BY <1>2, <2>3, <2>4
<1>7. f = ByRows(f)
  <2>0. PICK g : WalksRows(g, v, d, s, R, r)
    <3> HIDE DEF R, d, s
    <3> QED BY <1>1, <1>2, <1>5, <1>6, VideoRowsExist
  <2>1. g = ByRows(g)
    <3> HIDE DEF R, d, s
    <3> QED BY <2>0 DEF WalksRows
  <2>2. \E e : e = Rec(e)
    <3> HIDE DEF Rec, ByRows
    <3> QED BY <2>1, <1>4
  <2>3. f = Rec(f)
    <3> HIDE DEF Rec
    <3> QED BY <2>2
  <2> HIDE DEF f, Rec, ByRows
  <2> QED BY <2>3, <1>4
<1> DEFINE D == [i \in 1..r.h |-> d + R[i] * Scan]
           S == [i \in 1..r.h |-> s + R[i] * Scan]
           F == [i \in 1..r.h |-> f[i - 1]]
<1>8. Copying(P, P, r.h, r.w, r.op, f, D, S, F)
  <2> HIDE DEF f, R, d, s
  <2>1. WalksRows(f, v, d, s, R, r)
    BY <1>7 DEF WalksRows
  <2>2. CopiesRows(P, f, d, s, R, r)
    <3> HIDE DEF ByRows, Rec, D, S, F
    <3> QED BY <1>1, <1>2, <1>5, <1>6, <2>1, VideoRows
  <2> QED BY <2>2 DEF CopiesRows
<1> HIDE DEF f
<1>9. f[0] = v /\ f[r.h] \in Memory(P)
  <2>1. f \in [0..r.h -> Memory(P)]
    BY <1>8 DEF Copying
  <2>2. f[0] = ByRows(f)[0]
    <3> HIDE DEF ByRows
    <3> QED BY <1>7
  <2>3. ByRows(f)[0] = v
    BY <1>1
  <2>4. r.h \in 0..r.h
    BY <1>1
  <2> QED BY ONLY <2>1, <2>2, <2>3, <2>4
<1>10. ASSUME Defined(r) PROVE WithRows(P, f[r.h], v, d, Scan, v, s, Scan, r.h, r.w, r.op)
  <2>1. d <= s
    BY <1>10, <1>1, <1>2 DEF Defined
  <2>2. \A i \in 1..r.h : /\ D[i] = d + (i - 1) * Scan /\ S[i] = s + (i - 1) * Scan
                          /\ F[i] = f[i - 1] /\ (i - 1) * Scan \in Nat
    <3>1. TAKE i \in 1..r.h
    <3>2. R[i] = i - 1 /\ i - 1 \in Nat
      BY <2>1, <1>5, <1>1
    <3>3. (i - 1) * Scan \in Nat
      BY <3>2, <1>1
    <3> HIDE DEF R, d, s
    <3> QED BY <3>2, <3>3
  <2> HIDE DEF D, S, F, R, d, s
  <2>3. \A i1, i2 \in 1..r.h : i1 < i2 => /\ D[i1] + Scan <= D[i2] /\ D[i1] + Scan <= S[i2]
                                          /\ D[i1] \in Nat /\ D[i2] \in Nat /\ S[i2] \in Nat
    <3>1. TAKE i1, i2 \in 1..r.h
    <3>2. HAVE i1 < i2
    <3>3. i1 - 1 \in Nat /\ i2 - 1 \in Nat /\ i1 - 1 < i2 - 1
      BY <3>2, <1>1
    <3>4. (i1 - 1) * Scan + Scan <= (i2 - 1) * Scan
      BY <3>3, <1>1, PitchApart
    <3>5. /\ D[i1] = d + (i1 - 1) * Scan /\ D[i2] = d + (i2 - 1) * Scan
          /\ S[i2] = s + (i2 - 1) * Scan /\ (i1 - 1) * Scan \in Nat /\ (i2 - 1) * Scan \in Nat
      BY <2>2
    <3> DEFINE a == (i1 - 1) * Scan
               c == (i2 - 1) * Scan
    <3>6. /\ D[i1] = d + a /\ D[i2] = d + c /\ S[i2] = s + c /\ a \in Nat /\ c \in Nat
          /\ a + Scan <= c
      BY <3>4, <3>5
    <3> HIDE DEF a, c
    <3> QED BY ONLY <3>6, <2>1, <1>1, <1>2
  <2>4. RowsApart(r.h, r.w, D)
    BY <2>3, <1>1 DEF RowsApart
  <2>5. AllCopied(P, r.h, r.w, r.op, f[r.h], D, S, F)
    BY <1>8, <2>4, RowsCopied
  <2>6. \A k \in 0..(P - 1) :
          (\A y \in 0..(r.h - 1), j \in 0..(r.w - 1) : k # d + y * Scan + j) => f[r.h][k] = v[k]
    <3>1. TAKE k \in 0..(P - 1)
    <3>2. HAVE \A y \in 0..(r.h - 1), j \in 0..(r.w - 1) : k # d + y * Scan + j
    <3>3. \A i \in 1..r.h : k \notin D[i]..(D[i] + r.w - 1)
      <4>1. SUFFICES ASSUME NEW i \in 1..r.h, k \in D[i]..(D[i] + r.w - 1) PROVE FALSE
        OBVIOUS
      <4>2. i - 1 \in 0..(r.h - 1) /\ D[i] = d + (i - 1) * Scan /\ D[i] \in Nat
        <5>1. i - 1 \in 0..(r.h - 1)
          BY <1>1
        <5>2. D[i] = d + (i - 1) * Scan /\ (i - 1) * Scan \in Nat
          BY <2>2
        <5> QED BY ONLY <5>1, <5>2, <1>2
      <4>3. k - D[i] \in 0..(r.w - 1) /\ k = D[i] + (k - D[i])
        BY <4>1, <4>2, <1>1
      <4> QED BY <4>2, <4>3, <3>2
    <3>4. r.h \in 0..r.h
      BY <1>1
    <3>5. f[r.h][k] = f[0][k]
      BY <1>8, <3>3, <3>4, RowsKept
    <3> QED BY <1>9, <3>5
  <2>7. ASSUME NEW y \in 0..(r.h - 1), NEW j \in 0..(r.w - 1), d + y * Scan + j < P
        PROVE  f[r.h][d + y * Scan + j] = Converted(v[s + y * Scan + j], r.op)
    <3> DEFINE i == y + 1
    <3>1. i \in 1..r.h /\ D[i] = d + y * Scan /\ S[i] = s + y * Scan /\ F[i] = f[y] /\ i - 1 = y
          /\ y * Scan \in Nat
      BY <2>2, <1>1
    <3>2. f[r.h][D[i] + j] = Converted(F[i][S[i] + j], r.op)
      <4> HIDE DEF i
      <4> QED BY <2>5, <2>7, <3>1 DEF AllCopied
    <3>3. S[i] + j \in 0..(P - 1)
      <4>1. PixelThere(r.sx, r.sy, j, y)
        BY <1>1, InRectangle
      <4> QED BY <4>1, <3>1 DEF PixelThere, s
    <3>4. \A m \in 1..y : S[i] + j \notin D[m]..(D[m] + r.w - 1)
      <4>1. TAKE m \in 1..y
      <4>2. m \in 1..r.h /\ m < i
        BY <3>1, <1>1
      <4>3. D[m] + Scan <= S[i] /\ D[m] \in Nat /\ S[i] \in Nat
        <5> HIDE DEF i
        <5> QED BY <4>2, <3>1, <2>3
      <4> QED BY <4>3, <1>1
    <3>5. f[y][S[i] + j] = f[0][S[i] + j]
      <4>1. y \in 0..r.h
        BY <1>1
      <4> QED BY <4>1, <1>8, <3>3, <3>4, RowsKept
    <3> QED BY <3>1, <3>2, <3>5, <1>9
  <2> QED BY <1>9, <2>6, <2>7 DEF WithRows
<1> QED BY <1>3, <1>9, <1>10

\* Whole rows that follow one another are the rows of the rectangle (fb.c:108-123).
LEMMA WholeRows ==
  ASSUME NEW p \in Nat, p > 0, NEW top \in Nat, NEW h \in Nat, NEW k
  PROVE  k \in Place(p, 0, top)..(Place(p, 0, top) + p * h - 1)
           <=> \E y \in top..(top + h - 1) : k \in Place(p, 0, y)..(Place(p, 0, y) + p - 1)
<1> DEFINE t == top * p
           n == h * p
<1>0. t \in Nat /\ n \in Nat /\ p * h = n /\ Place(p, 0, top) = t
  BY DEF Place
<1>1. ASSUME k \in t..(t + n - 1)
      PROVE  \E y \in top..(top + h - 1) : k \in Place(p, 0, y)..(Place(p, 0, y) + p - 1)
  <2> DEFINE q == k - t
  <2>1. q \in Nat /\ q < n /\ k = t + q
    <3> HIDE DEF t, n
    <3> QED BY <1>0, <1>1
  <2> HIDE DEF q
  <2>2. PICK a \in Nat, x \in 0..(p - 1) : q = a * p + x
    BY <2>1, Divided
  <2>3. a < h
    <3>1. SUFFICES ASSUME h <= a PROVE FALSE
      BY <2>2
    <3>2. CASE h = a
      <4>1. a * p = n
        BY <3>2
      <4> HIDE DEF n
      <4> QED BY <4>1, <2>1, <2>2, <1>0
    <3>3. CASE h < a
      <4>1. a * p \in Nat /\ h * p + p <= a * p
        BY <3>3, PitchApart
      <4> DEFINE c == a * p
      <4>2. c \in Nat /\ n + p <= c /\ q = c + x
        BY <4>1, <2>2
      <4> HIDE DEF n, c
      <4> QED BY <4>2, <2>1, <2>2, <1>0
    <3> QED BY <3>1, <3>2, <3>3, <2>2
  <2>4. top + a \in top..(top + h - 1)
    BY <2>2, <2>3
  <2>5. Place(p, 0, top + a) = t + a * p /\ a * p \in Nat
    BY <2>2 DEF Place
  <2>6. k \in Place(p, 0, top + a)..(Place(p, 0, top + a) + p - 1)
    <3> DEFINE c == a * p
    <3>1. Place(p, 0, top + a) = t + c /\ c \in Nat /\ q = c + x
      BY <2>2, <2>5
    <3> HIDE DEF c, t
    <3> QED BY <3>1, <2>1, <2>2, <1>0
  <2> QED BY <2>4, <2>6
<1>2. ASSUME NEW y \in top..(top + h - 1), k \in Place(p, 0, y)..(Place(p, 0, y) + p - 1)
      PROVE  k \in t..(t + n - 1)
  <2> DEFINE a == y - top
             c == a * p
             e == top + h
  <2>1. y \in Nat /\ a \in Nat /\ a < h
    OBVIOUS
  <2>2. c \in Nat /\ c + p <= n
    <3> HIDE DEF a
    <3> QED BY <2>1, PitchApart
  <2>3. Place(p, 0, y) = t + c
    <3>1. y = top + a
      BY <2>1
    <3>2. y * p = top * p + a * p
      <4> HIDE DEF a
      <4> QED BY <2>1, <3>1
    <3>3. Place(p, 0, y) = y * p + 0 /\ y * p \in Nat
      BY <2>1 DEF Place
    <3> QED BY <3>2, <3>3
  <2> HIDE DEF a, c, t, n
  <2> QED BY <1>0, <1>2, <2>2, <2>3
<1> HIDE DEF t, n
<1> QED BY <1>0, <1>1, <1>2

\* The cells that a rectangle of the screen has.
CellsOf(r) == UNION {At(r.dx, y)..(At(r.dx, y) + r.w - 1) : y \in r.dy..(r.dy + r.h - 1)}

\* Filling gives one colour to the cells of the rectangle (fb.c:70-141).
LEMMA FillIs ==
  ASSUME NEW r, Proper(r), r.op = "fill", OnScreen(r.dx, r.dy, r.w, r.h),
         NEW v \in Memory(VideoPixels), NEW b \in Memory(BufferPixels)
  PROVE  /\ Fill(r, v, b).ok /\ Fill(r, v, b).buffer = b
         /\ \E wide \in Pixel :
              /\ Fill(r, v, b).video = [i \in DOMAIN v |-> IF i \in CellsOf(r) THEN wide ELSE v[i]]
              /\ Defined(r) => VideoColour(wide) = PixelColour(b[0])
<1>1. /\ r.dx \in Nat /\ r.dy \in Nat /\ r.w \in Nat /\ r.h \in Nat /\ r.w > 0 /\ r.h > 0
      /\ Scan \in Nat /\ Scan > 0 /\ b[0] \in Pixel
  <2>1. b[0] \in Pixel
    BY ScreenIs DEF Memory
  <2> QED BY <2>1, ProperIs, ScreenIs DEF OnScreen
<1> DEFINE colour == ToVideo(b[0])
           wide == IF r.dx = 0 /\ r.w = Scan /\ r.w * r.h = 1 THEN [i \in 0..3 |-> colour[0]] ELSE colour
           cells == IF r.dx = 0 /\ r.w = Scan
                    THEN At(0, r.dy)..(At(0, r.dy) + r.w * r.h - 1)
                    ELSE UNION {At(r.dx, y)..(At(r.dx, y) + r.w - 1) : y \in r.dy..(r.dy + r.h - 1)}
<1>2. Fill(r, v, b)
        = [ok |-> TRUE, buffer |-> b, video |-> [i \in DOMAIN v |-> IF i \in cells THEN wide ELSE v[i]]]
  BY DEF Fill
<1>3. cells = CellsOf(r)
  <2>1. CASE ~(r.dx = 0 /\ r.w = Scan)
    BY <2>1 DEF CellsOf
  <2>2. CASE r.dx = 0 /\ r.w = Scan
    <3>1. cells = Place(Scan, 0, r.dy)..(Place(Scan, 0, r.dy) + Scan * r.h - 1)
      BY <2>2 DEF At, Place
    <3>2. CellsOf(r) = UNION {Place(Scan, 0, y)..(Place(Scan, 0, y) + Scan - 1) : y \in r.dy..(r.dy + r.h - 1)}
      BY <2>2 DEF CellsOf, At, Place
    <3>3. \A k : k \in Place(Scan, 0, r.dy)..(Place(Scan, 0, r.dy) + Scan * r.h - 1)
                   <=> \E y \in r.dy..(r.dy + r.h - 1) : k \in Place(Scan, 0, y)..(Place(Scan, 0, y) + Scan - 1)
      BY <1>1, WholeRows
    <3> HIDE DEF cells
    <3> QED BY <3>1, <3>2, <3>3
  <2> HIDE DEF cells
  <2> QED BY <2>1, <2>2
<1>4. colour \in Pixel /\ VideoColour(colour) = PixelColour(b[0])
  BY <1>1, ToVideoIs
<1>5. wide \in Pixel
  <2> HIDE DEF colour
  <2>1. colour[0] \in 0..255
    BY <1>4, Bytes
  <2>2. [i \in 0..3 |-> colour[0]] \in Pixel
    BY <2>1 DEF Pixel
  <2> QED BY <1>4, <2>2
<1>6. Defined(r) => wide = colour
  <2>1. SUFFICES ASSUME Defined(r), r.w = Scan, r.w * r.h = 1 PROVE FALSE
    OBVIOUS
  <2>2. r.w > 1
    BY <2>1 DEF Defined
  <2>3. r.h < r.w * r.h
    <3>1. PICK c \in Nat : r.w = 2 + c
      <4>1. r.w - 2 \in Nat /\ r.w = 2 + (r.w - 2)
        BY <1>1, <2>2
      <4> QED BY <4>1
    <3> DEFINE h == r.h
    <3>2. h \in Nat /\ h > 0
      BY <1>1
    <3> HIDE DEF h
    <3>3. (2 + c) * h = h + h + c * h /\ c * h \in Nat
      BY <3>2
    <3>4. h < (2 + c) * h
      BY <3>2, <3>3
    <3> QED BY <3>1, <3>4 DEF h
  <2> QED BY <1>1, <2>1, <2>3
<1> HIDE DEF cells, wide, colour
<1> QED BY <1>2, <1>3, <1>4, <1>5, <1>6

\* A rejected transfer changes nothing (fb.c:81-84).
LEMMA RejectedIs ==
  ASSUME NEW v \in Memory(VideoPixels), NEW b \in Memory(BufferPixels)
  PROVE  /\ ~Rejected(v, b).ok /\ Rejected(v, b).video = v /\ Rejected(v, b).buffer = b
BY DEF Rejected

\* The buffers are there after every transfer, and a transfer is drawn.
TransferSound(r, v, b) ==
  /\ Transfer(r, v, b).video \in Memory(VideoPixels) /\ Transfer(r, v, b).buffer \in Memory(BufferPixels)
  /\ IsDrawn(r, v, b)

\* A transfer that is rejected.
LEMMA RejectedSound ==
  ASSUME NEW r, NEW v \in Memory(VideoPixels), NEW b \in Memory(BufferPixels),
         Transfer(r, v, b) = Rejected(v, b)
  PROVE  TransferSound(r, v, b)
<1>1. /\ ~Transfer(r, v, b).ok /\ Transfer(r, v, b).video = v /\ Transfer(r, v, b).buffer = b
  BY RejectedIs
<1> QED BY <1>1 DEF TransferSound, IsDrawn

\* fb_blt_video_fill
LEMMA FillSound ==
  ASSUME NEW r, Proper(r), r.op = "fill", NEW v \in Memory(VideoPixels), NEW b \in Memory(BufferPixels)
  PROVE  TransferSound(r, v, b)
<1> DEFINE t == Transfer(r, v, b)
<1>1. t = Fill(r, v, b)
  BY DEF Transfer
<1>2. CASE ~OnScreen(r.dx, r.dy, r.w, r.h)
  <2>1. t = Rejected(v, b)
    BY <1>1, <1>2 DEF Fill
  <2> QED BY <2>1, RejectedSound
<1>3. CASE OnScreen(r.dx, r.dy, r.w, r.h)
  <2>1. PICK wide \in Pixel :
          /\ Fill(r, v, b).video = [i \in DOMAIN v |-> IF i \in CellsOf(r) THEN wide ELSE v[i]]
          /\ Defined(r) => VideoColour(wide) = PixelColour(b[0])
    BY <1>3, FillIs
  <2>2. t.ok /\ t.buffer = b
    BY <1>1, <1>3, FillIs
  <2>3. t.video = [i \in 0..(VideoPixels - 1) |-> IF i \in CellsOf(r) THEN wide ELSE v[i]]
        /\ DOMAIN v = 0..(VideoPixels - 1)
    BY <1>1, <2>1 DEF Memory
  <2>4. t.video \in Memory(VideoPixels)
    <3> HIDE DEF t
    <3> QED BY <2>3 DEF Memory
  <2> HIDE DEF t
  <2>5. ASSUME NEW x \in 0..(Width - 1), NEW y \in 0..(Height - 1)
        PROVE  At(x, y) \in 0..(VideoPixels - 1) /\ (At(x, y) \in CellsOf(r) <=> Inside(x, y, r.dx, r.dy, r))
    <3>1. At(x, y) \in 0..(VideoPixels - 1)
      BY OnTheScreen
    <3>2. ASSUME Inside(x, y, r.dx, r.dy, r) PROVE At(x, y) \in CellsOf(r)
      <4>1. y \in r.dy..(r.dy + r.h - 1)
        BY <3>2 DEF Inside
      <4>2. At(x, y) \in At(r.dx, y)..(At(r.dx, y) + r.w - 1)
        <5>1. y * Scan \in Nat /\ r.dx \in Nat /\ r.w \in Nat
          BY ScreenIs, ProperIs
        <5> DEFINE e == y * Scan
        <5>2. At(x, y) = e + x /\ At(r.dx, y) = e + r.dx /\ e \in Nat
          BY <5>1 DEF At
        <5> HIDE DEF e
        <5> QED BY <3>2, <5>1, <5>2 DEF Inside
      <4> QED BY <4>1, <4>2 DEF CellsOf
    <3>3. ASSUME At(x, y) \in CellsOf(r) PROVE Inside(x, y, r.dx, r.dy, r)
      <4>1. PICK z \in r.dy..(r.dy + r.h - 1) : At(x, y) \in At(r.dx, z)..(At(r.dx, z) + r.w - 1)
        BY <3>3 DEF CellsOf
      <4>2. /\ r.dx \in Nat /\ r.dy \in Nat /\ r.w \in Nat /\ r.h \in Nat /\ Scan \in Nat /\ Width \in Nat
            /\ r.dx + r.w <= Width /\ Width <= Scan /\ x < Scan /\ x \in Nat /\ y \in Nat /\ z \in Nat
        BY <1>3, ScreenIs, ProperIs DEF OnScreen
      <4> DEFINE u == At(x, y) - At(r.dx, z)
                 c == r.dx + u
      <4>3. z * Scan \in Nat /\ y * Scan \in Nat
        BY <4>2
      <4>4. At(r.dx, z) \in Nat /\ At(x, y) \in Nat
        BY <4>2, <4>3 DEF At
      <4>5. u \in Nat /\ u < r.w
        BY <4>1, <4>2, <4>4
      <4>6. At(x, y) = At(r.dx, z) + u
        BY <4>4
      <4> HIDE DEF u
      <4>7. Place(Scan, x, y) = Place(Scan, c, z)
        <5> DEFINE e == z * Scan
        <5>1. At(r.dx, z) = e + r.dx /\ Place(Scan, c, z) = e + c /\ Place(Scan, x, y) = At(x, y) /\ e \in Nat
          BY <4>3 DEF At, Place
        <5> HIDE DEF e
        <5> QED BY <5>1, <4>2, <4>5, <4>6
      <4>8. c \in Nat /\ c < Scan
        BY <4>2, <4>5
      <4> HIDE DEF c
      <4>9. x = c /\ y = z
        BY <4>2, <4>7, <4>8, PlacesApart
      <4> QED BY <4>1, <4>2, <4>5, <4>9 DEF Inside, c
    <3> QED BY <3>1, <3>2, <3>3
  <2>6. ASSUME Defined(r) PROVE IsScreen(r, v, b, t.video)
    <3>1. ASSUME NEW x \in 0..(Width - 1), NEW y \in 0..(Height - 1)
          PROVE  VideoColour(t.video[At(x, y)]) = Expected(r, v, b, x, y)
      <4>1. t.video[At(x, y)] = IF Inside(x, y, r.dx, r.dy, r) THEN wide ELSE v[At(x, y)]
        BY <2>3, <2>5
      <4>2. VideoColour(wide) = PixelColour(b[0])
        BY <2>1, <2>6
      <4> QED BY <4>1, <4>2 DEF Expected
    <3>2. ASSUME NEW i \in DOMAIN v, \A x \in 0..(Width - 1), y \in 0..(Height - 1) : i # At(x, y)
          PROVE  t.video[i] = v[i]
      <4>1. i \notin CellsOf(r)
        <5>1. SUFFICES ASSUME NEW z \in r.dy..(r.dy + r.h - 1), i \in At(r.dx, z)..(At(r.dx, z) + r.w - 1)
                       PROVE  FALSE
          BY DEF CellsOf
        <5>2. /\ r.dx \in Nat /\ r.dy \in Nat /\ r.w \in Nat /\ r.h \in Nat /\ z - r.dy \in 0..(r.h - 1)
              /\ z \in Nat /\ r.dy + (z - r.dy) = z
          BY ProperIs
        <5>3. At(r.dx, z) \in Nat
          <6>1. z * Scan \in Nat
            BY <5>2, ScreenIs
          <6> QED BY <6>1, <5>2 DEF At
        <5> DEFINE u == i - At(r.dx, z)
        <5>4. u \in 0..(r.w - 1) /\ i = At(r.dx, z) + u
          BY <5>1, <5>2, <5>3
        <5> HIDE DEF u
        <5>5. PixelThere(r.dx, r.dy, u, z - r.dy)
          BY <1>3, <5>2, <5>4, InRectangle
        <5>6. r.dx + u \in 0..(Width - 1) /\ z \in 0..(Height - 1)
          BY <5>2, <5>5 DEF PixelThere
        <5>7. At(r.dx + u, z) = At(r.dx, z) + u
          <6>1. z * Scan \in Nat
            BY <5>2, ScreenIs
          <6> DEFINE e == z * Scan
          <6>2. At(r.dx + u, z) = e + (r.dx + u) /\ At(r.dx, z) = e + r.dx /\ e \in Nat
            BY <6>1 DEF At
          <6> HIDE DEF e
          <6> QED BY <6>2, <5>2, <5>4
        <5> QED BY <3>2, <5>4, <5>6, <5>7
      <4> QED BY <2>3, <3>2, <4>1
    <3> QED BY <3>1, <3>2 DEF IsScreen
  <2>7. IsBuffer(r, v, b, t.buffer)
    BY <2>2 DEF IsBuffer
  <2>8. IsDrawn(r, v, b)
    BY <2>2, <2>6, <2>7 DEF IsDrawn, t
  <2> QED BY <2>2, <2>4, <2>8 DEF TransferSound, t
<1> QED BY <1>2, <1>3

\* Rows on the screen have the colours that belong there.
LEMMA RowsOnScreen ==
  ASSUME NEW r, Proper(r), OnScreen(r.dx, r.dy, r.w, r.h),
         NEW v \in Memory(VideoPixels), NEW b \in Memory(BufferPixels), NEW after,
         \/ /\ r.op = "buffer_to_video"
            /\ WithRows(VideoPixels, after, v, At(r.dx, r.dy), Scan, b, r.sy * Pitch(r) + r.sx, Pitch(r),
                        r.h, r.w, r.op)
         \/ /\ r.op = "video_to_video" /\ OnScreen(r.sx, r.sy, r.w, r.h)
            /\ WithRows(VideoPixels, after, v, At(r.dx, r.dy), Scan, v, At(r.sx, r.sy), Scan,
                        r.h, r.w, r.op)
  PROVE  IsScreen(r, v, b, after)
<1>1. /\ r.sx \in Nat /\ r.sy \in Nat /\ r.dx \in Nat /\ r.dy \in Nat /\ r.w \in Nat /\ r.h \in Nat
      /\ Pitch(r) \in Nat /\ Scan \in Nat
  BY ProperIs, ScreenIs
<1>2. CASE /\ r.op = "buffer_to_video"
           /\ WithRows(VideoPixels, after, v, At(r.dx, r.dy), Scan, b, r.sy * Pitch(r) + r.sx, Pitch(r),
                       r.h, r.w, r.op)
  <2> DEFINE s == r.sy * Pitch(r) + r.sx
             p == Pitch(r)
  <2>1. s \in Nat
    BY <1>1, PlaceFrom
  <2> HIDE DEF s, p
  <2>2. WithRows(VideoPixels, after, v, At(r.dx, r.dy), Scan, b, s, p, r.h, r.w, r.op)
    BY <1>2 DEF s, p
  <2>3. DrawnFrom(r, after, v, b, s, p, r.op)
    BY <1>1, <2>1, <2>2, RectangleDrawn DEF p
  <2>4. ASSUME NEW x \in 0..(Width - 1), NEW y \in 0..(Height - 1)
        PROVE  VideoColour(after[At(x, y)]) = Expected(r, v, b, x, y)
    <3>1. CASE ~Inside(x, y, r.dx, r.dy, r)
      BY <2>3, <3>1 DEF Expected, DrawnFrom
    <3>2. CASE Inside(x, y, r.dx, r.dy, r)
      <4> DEFINE i == x - r.dx
                 j == y - r.dy
      <4>1. i \in 0..(r.w - 1) /\ j \in 0..(r.h - 1)
        BY <1>1, <3>2 DEF Inside
      <4>2. InBuffer(r, r.sx, r.sy)
        BY <1>2 DEF Proper
      <4>3. /\ s + j * p + i \in 0..(BufferPixels - 1)
            /\ s + j * p + i = (r.sy + j) * p + r.sx + i
        <5> HIDE DEF i, j
        <5> QED BY <1>1, <4>1, <4>2, InTheBuffer DEF s, p
      <4>4. b[s + j * p + i] \in Pixel
        <5> HIDE DEF i, j
        <5> QED BY <4>3 DEF Memory
      <4>5. VideoColour(Converted(b[s + j * p + i], "buffer_to_video")) = PixelColour(b[s + j * p + i])
        BY <4>4, ConvertedIs
      <4>6. after[At(x, y)] = Converted(b[s + j * p + i], "buffer_to_video")
        BY <1>2, <2>3, <3>2 DEF DrawnFrom
      <4>7. Expected(r, v, b, x, y) = PixelColour(b[(r.sy + j) * p + r.sx + i])
        BY <1>2, <3>2 DEF Expected, p
      <4> HIDE DEF i, j
      <4> QED BY <4>3, <4>5, <4>6, <4>7
    <3> QED BY <3>1, <3>2
  <2> QED BY <2>3, <2>4 DEF IsScreen, DrawnFrom
<1>3. CASE /\ r.op = "video_to_video" /\ OnScreen(r.sx, r.sy, r.w, r.h)
           /\ WithRows(VideoPixels, after, v, At(r.dx, r.dy), Scan, v, At(r.sx, r.sy), Scan,
                       r.h, r.w, r.op)
  <2> DEFINE s == At(r.sx, r.sy)
  <2>1. s \in Nat
    BY <1>1, PlaceFrom DEF At
  <2> HIDE DEF s
  <2>2. WithRows(VideoPixels, after, v, At(r.dx, r.dy), Scan, v, s, Scan, r.h, r.w, r.op)
    BY <1>3 DEF s
  <2>3. DrawnFrom(r, after, v, v, s, Scan, r.op)
    BY <1>1, <2>1, <2>2, RectangleDrawn
  <2>4. ASSUME NEW x \in 0..(Width - 1), NEW y \in 0..(Height - 1)
        PROVE  VideoColour(after[At(x, y)]) = Expected(r, v, b, x, y)
    <3>1. CASE ~Inside(x, y, r.dx, r.dy, r)
      BY <2>3, <3>1 DEF Expected, DrawnFrom
    <3>2. CASE Inside(x, y, r.dx, r.dy, r)
      <4> DEFINE i == x - r.dx
                 j == y - r.dy
      <4>1. i \in 0..(r.w - 1) /\ j \in 0..(r.h - 1)
        BY <1>1, <3>2 DEF Inside
      <4>2. PixelThere(r.sx, r.sy, i, j)
        <5> HIDE DEF i, j
        <5> QED BY <1>1, <1>3, <4>1, InRectangle
      <4>3. s + j * Scan + i \in 0..(VideoPixels - 1) /\ s + j * Scan + i = At(r.sx + i, r.sy + j)
        <5> HIDE DEF i, j
        <5> QED BY <4>2 DEF PixelThere, s
      <4>4. v[s + j * Scan + i] \in Pixel
        <5> HIDE DEF i, j
        <5> QED BY <4>3 DEF Memory
      <4>5. Converted(v[s + j * Scan + i], "video_to_video") = v[s + j * Scan + i]
        BY <4>4, ConvertedIs
      <4>6. after[At(x, y)] = Converted(v[s + j * Scan + i], "video_to_video")
        BY <1>3, <2>3, <3>2 DEF DrawnFrom
      <4>7. Expected(r, v, b, x, y) = VideoColour(v[At(r.sx + i, r.sy + j)])
        BY <1>3, <3>2 DEF Expected
      <4> HIDE DEF i, j
      <4> QED BY <4>3, <4>5, <4>6, <4>7
    <3> QED BY <3>1, <3>2
  <2> QED BY <2>3, <2>4 DEF IsScreen, DrawnFrom
<1> QED BY <1>2, <1>3

\* fb_blt_buffer_to_video
LEMMA FromBufferSound ==
  ASSUME NEW r, Proper(r), r.op = "buffer_to_video", NEW v \in Memory(VideoPixels), NEW b \in Memory(BufferPixels)
  PROVE  TransferSound(r, v, b)
<1> DEFINE t == Transfer(r, v, b)
<1>1. t = BufferToVideo(r, v, b)
  BY DEF Transfer
<1>2. CASE ~OnScreen(r.dx, r.dy, r.w, r.h)
  <2>1. t = Rejected(v, b)
    BY <1>1, <1>2 DEF BufferToVideo
  <2> QED BY <2>1, RejectedSound
<1>3. CASE OnScreen(r.dx, r.dy, r.w, r.h)
  <2>1. /\ t.ok /\ t.buffer = b
        /\ WithRows(VideoPixels, t.video, v, At(r.dx, r.dy), Scan,
                    b, r.sy * Pitch(r) + r.sx, Pitch(r), r.h, r.w, r.op)
    BY <1>1, <1>3, FromBufferIs
  <2> HIDE DEF t
  <2>2. t.video \in Memory(VideoPixels)
    BY <2>1 DEF WithRows
  <2>3. IsScreen(r, v, b, t.video)
    BY <1>3, <2>1, RowsOnScreen
  <2>4. IsBuffer(r, v, b, t.buffer)
    BY <2>1 DEF IsBuffer
  <2>5. IsDrawn(r, v, b)
    BY <2>1, <2>3, <2>4 DEF IsDrawn, t
  <2> QED BY <2>1, <2>2, <2>5 DEF TransferSound, t
<1> QED BY <1>2, <1>3

\* fb_blt_video_to_video
LEMMA WithinVideoSound ==
  ASSUME NEW r, Proper(r), r.op = "video_to_video", NEW v \in Memory(VideoPixels), NEW b \in Memory(BufferPixels)
  PROVE  TransferSound(r, v, b)
<1> DEFINE t == Transfer(r, v, b)
<1>1. t = VideoToVideo(r, v, b)
  BY DEF Transfer
<1>2. CASE ~OnScreen(r.sx, r.sy, r.w, r.h) \/ ~OnScreen(r.dx, r.dy, r.w, r.h)
  <2>1. t = Rejected(v, b)
    BY <1>1, <1>2 DEF VideoToVideo
  <2> QED BY <2>1, RejectedSound
<1>3. CASE OnScreen(r.sx, r.sy, r.w, r.h) /\ OnScreen(r.dx, r.dy, r.w, r.h)
  <2>1. /\ t.ok /\ t.buffer = b /\ t.video \in Memory(VideoPixels)
        /\ Defined(r) => WithRows(VideoPixels, t.video, v, At(r.dx, r.dy), Scan,
                                  v, At(r.sx, r.sy), Scan, r.h, r.w, r.op)
    BY <1>1, <1>3, WithinVideoIs
  <2> HIDE DEF t
  <2>2. Defined(r) => IsScreen(r, v, b, t.video)
    BY <1>3, <2>1, RowsOnScreen
  <2>3. IsBuffer(r, v, b, t.buffer)
    BY <2>1 DEF IsBuffer
  <2>4. IsDrawn(r, v, b)
    BY <2>1, <2>2, <2>3 DEF IsDrawn, t
  <2> QED BY <2>1, <2>4 DEF TransferSound, t
<1> QED BY <1>2, <1>3

\* fb_blt_video_to_buffer
LEMMA ToBufferSound ==
  ASSUME NEW r, Proper(r), r.op = "video_to_buffer", NEW v \in Memory(VideoPixels), NEW b \in Memory(BufferPixels)
  PROVE  TransferSound(r, v, b)
<1> DEFINE t == Transfer(r, v, b)
           d == r.dy * Pitch(r) + r.dx
           s == At(r.sx, r.sy)
           p == Pitch(r)
<1>1. t = VideoToBuffer(r, v, b)
  BY DEF Transfer
<1>2. CASE ~OnScreen(r.sx, r.sy, r.w, r.h)
  <2>1. t = Rejected(v, b)
    BY <1>1, <1>2 DEF VideoToBuffer
  <2> QED BY <2>1, RejectedSound
<1>3. CASE OnScreen(r.sx, r.sy, r.w, r.h)
  <2>1. /\ t.ok /\ t.video = v
        /\ WithRows(BufferPixels, t.buffer, b, d, p, v, s, Scan, r.h, r.w, r.op)
    BY <1>1, <1>3, ToBufferIs
  <2>2. /\ r.sx \in Nat /\ r.sy \in Nat /\ r.dx \in Nat /\ r.dy \in Nat /\ r.w \in Nat /\ r.h \in Nat
        /\ InBuffer(r, r.dx, r.dy)
    BY ProperIs DEF Proper
  <2>3. \A j \in 0..(r.h - 1), i \in 0..(r.w - 1) :
           /\ d + j * p + i \in 0..(BufferPixels - 1) /\ d + j * p + i = (r.dy + j) * p + r.dx + i
           /\ s + j * Scan + i \in 0..(VideoPixels - 1) /\ s + j * Scan + i = At(r.sx + i, r.sy + j)
    <3>1. TAKE j \in 0..(r.h - 1), i \in 0..(r.w - 1)
    <3>2. PixelThere(r.sx, r.sy, i, j)
      BY <1>3, <2>2, InRectangle
    <3>3. d + j * p + i \in 0..(BufferPixels - 1) /\ d + j * p + i = (r.dy + j) * p + r.dx + i
      BY <2>2, InTheBuffer
    <3> QED BY <3>2, <3>3 DEF PixelThere
  <2> HIDE DEF t, d, s
  <2>4. t.buffer \in Memory(BufferPixels)
    BY <2>1 DEF WithRows
  <2>5. IsScreen(r, v, b, t.video)
    BY <2>1 DEF IsScreen, Expected
  <2>6. ASSUME NEW j \in 0..(r.h - 1), NEW i \in 0..(r.w - 1)
        PROVE  PixelColour(t.buffer[(r.dy + j) * p + r.dx + i]) = VideoColour(v[At(r.sx + i, r.sy + j)])
    <3>1. /\ d + j * p + i \in 0..(BufferPixels - 1) /\ d + j * p + i = (r.dy + j) * p + r.dx + i
          /\ s + j * Scan + i \in 0..(VideoPixels - 1) /\ s + j * Scan + i = At(r.sx + i, r.sy + j)
      BY <2>3
    <3>2. d + j * p + i < BufferPixels
      <4> DEFINE e == d + j * p + i
      <4>1. e \in 0..(BufferPixels - 1)
        BY <3>1
      <4> HIDE DEF e
      <4> QED BY <4>1, ScreenIs DEF e
    <3>3. t.buffer[d + j * p + i] = Converted(v[s + j * Scan + i], r.op)
      BY <2>1, <3>2 DEF WithRows
    <3>4. v[s + j * Scan + i] \in Pixel
      BY <3>1 DEF Memory
    <3>5. PixelColour(Converted(v[s + j * Scan + i], "video_to_buffer")) = VideoColour(v[s + j * Scan + i])
      BY <3>4, ConvertedIs
    <3> QED BY <3>1, <3>3, <3>5
  <2>7. ASSUME NEW k \in DOMAIN b, \A j \in 0..(r.h - 1), i \in 0..(r.w - 1) : k # (r.dy + j) * p + r.dx + i
        PROVE  t.buffer[k] = b[k]
    <3>1. k \in 0..(BufferPixels - 1)
      BY DEF Memory
    <3>2. \A j \in 0..(r.h - 1), i \in 0..(r.w - 1) : k # d + j * p + i
      BY <2>3, <2>7
    <3> QED BY <2>1, <3>1, <3>2 DEF WithRows
  <2>8. IsBuffer(r, v, b, t.buffer)
    BY <2>6, <2>7 DEF IsBuffer
  <2>9. IsDrawn(r, v, b)
    BY <2>1, <2>5, <2>8 DEF IsDrawn, t
  <2> QED BY <2>1, <2>4, <2>9 DEF TransferSound, t
<1> QED BY <1>2, <1>3

\* Every transfer leaves a frame buffer and a program's buffer, and is drawn (fb.c:239-264).
LEMMA EveryTransfer ==
  ASSUME NEW r, Proper(r), NEW v \in Memory(VideoPixels), NEW b \in Memory(BufferPixels)
  PROVE  TransferSound(r, v, b)
<1>1. \/ r.op = "fill" \/ r.op = "video_to_buffer" \/ r.op = "buffer_to_video" \/ r.op = "video_to_video"
  BY DEF Proper
<1> QED BY <1>1, FillSound, ToBufferSound, FromBufferSound, WithinVideoSound

\* The memories are there, and what is asked for next is proper.
BltType ==
  /\ video \in Memory(VideoPixels) /\ buffer \in Memory(BufferPixels) /\ transfer \in Transfers

\* Whatever is drawn, on a screen of any size and in a buffer of any pitch, is drawn
\* pixel by pixel, in the right colours for either order of the channels, and nothing
\* else changes (fb.c:239-264).
THEOREM TransfersDraw == BltSpec => []BltDraws
<1>1. BltInit => BltType
  BY DEF BltInit, BltType, Memory
<1>2. BltType /\ [Blit]_bltVars => BltType'
  <2> SUFFICES ASSUME BltType, [Blit]_bltVars PROVE BltType'
    OBVIOUS
  <2>1. CASE Blit
    <3>1. Proper(transfer)
      BY BltAssumption DEF BltType
    <3>2. TransferSound(transfer, video, buffer)
      BY <3>1, EveryTransfer DEF BltType
    <3>3. /\ video' = Transfer(transfer, video, buffer).video
          /\ buffer' = Transfer(transfer, video, buffer).buffer /\ transfer' \in Transfers
      BY <2>1 DEF Blit
    <3> QED BY <3>2, <3>3 DEF BltType, TransferSound
  <2>2. CASE UNCHANGED bltVars
    BY <2>2 DEF BltType, bltVars
  <2> QED BY <2>1, <2>2
<1>3. BltType => BltDraws
  <2> SUFFICES ASSUME BltType PROVE BltDraws
    OBVIOUS
  <2>1. Proper(transfer)
    BY BltAssumption DEF BltType
  <2>2. TransferSound(transfer, video, buffer)
    BY <2>1, EveryTransfer DEF BltType
  <2> QED BY <2>2 DEF TransferSound, BltDraws
<1> QED BY <1>1, <1>2, <1>3, PTL DEF BltSpec
=============================================================================
