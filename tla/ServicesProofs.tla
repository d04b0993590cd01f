--------------------------- MODULE ServicesProofs ---------------------------
(***************************************************************************)
(* Proofs that the service manager keeps what services depend on running,  *)
(* starts one graphics output at most and ends when a whole pass could     *)
(* start nothing, for every set of services, every order of their          *)
(* constructors and every failure.                                         *)
(*                                                                         *)
(* The invariant says that only the instance the loop is at is in one of   *)
(* its functions, that whatever was tried had what it needs, and why each  *)
(* instance passed in the current pass stays as it is while nothing starts.*)
(*                                                                         *)
(* And proof that the dependencies the services declare are enough: in     *)
(* every order they allow, a start function finds the tables it uses, and  *)
(* the checksums of what a program sees are right.                         *)
(*                                                                         *)
(* And proof that the allocator which context.c makes its pools of keeps   *)
(* its blocks apart, finds them again and never touches a program's data,  *)
(* for every size of a pool and every number of size classes.  The         *)
(* invariant says what the headers, the links and the free lists of a heap *)
(* are for its set of blocks and the free ones of them.  What each         *)
(* function does is stated for those sets: the words of memory are spoken  *)
(* of only where a block is split, merged or filled.                       *)
(***************************************************************************)
EXTENDS Services, Firmware, Tlsf, Lemmas

\* An instance has a status, a configuration without one has none.
Known == \A c \in Cfg : status[c] = "unknown" <=> c \notin Instances

\* Only the instance the start loop is at can be in one of its functions.
Calls ==
  \A c \in Cfg : status[c] \in {"conditioning", "starting"} =>
    mode = "starting" /\ pos <= Len(ins) /\ c = ins[pos]

\* Before the start loop no service has been tried.
Fresh ==
  mode \in {"constructors", "options", "installing"} =>
    \A c \in Cfg : status[c] \in {"unknown", "stopped"}

\* What was tried had, and has, what it needs.
Ran ==
  mode \in {"starting", "ready", "failed"} =>
    \A i \in Instances : status[i] \notin {"unknown", "stopped"} =>
      /\ DependsDone(i) /\ Svc(i) \notin disabled
      /\ status[i] \in {"conditioning", "skip"} => Svc(i) \in Conditional

\* While a graphics output starts, none runs.
Alone ==
  \A i, j \in Having(GraphicsGuid) : status[i] = "starting" => status[j] # "started"

\* Why instance number i, visited in a pass that started nothing, stays stopped.
Blocked(i) ==
  \/ \E g \in Depends[Svc(ins[i])] : ~Started(g)
  \/ \E g \in After[Svc(ins[i])] : \A j \in DOMAIN ins : ins[j] \in Having(g) =>
       \/ status[ins[j]] = "stopped"
       \/ status[ins[j]] \in {"skip", "conditioning", "starting"} /\ j > i

\* Instance number i stays as it is while nothing is started.
Settled(i) ==
  /\ status[ins[i]] = "skip" => ~Holds(ins[i])
  /\ status[ins[i]] = "stopped" /\ Svc(ins[i]) \notin disabled => Blocked(i)

\* In a pass that started nothing so far, this holds for those it visited,
PassInv ==
  mode = "starting" /\ ~round => \A i \in DOMAIN ins : i < pos => Settled(i)

\* and when the loop ends it holds for all, none of which is in a function.
Ended ==
  mode \in {"ready", "failed"} => \A i \in DOMAIN ins :
    /\ Settled(i)
    /\ status[ins[i]] \notin {"conditioning", "starting"}

\* The inductive invariant
ManagerInv ==
  /\ TypeOK /\ Known /\ Calls /\ Fresh /\ Ran /\ Alone /\ OneGraphics /\ PassInv /\ Ended

-----------------------------------------------------------------------------
(* Instances *)

\* The services of instances are services, and instances are configurations.
LEMMA Typed ==
  ASSUME TypeOK
  PROVE  /\ Instances \subseteq Cfg
         /\ DOMAIN ins = 1..Len(ins) /\ Len(ins) \in Nat /\ Len(cfgs) \in Nat /\ pos \in Nat \ {0}
         /\ \A i \in DOMAIN ins : ins[i] \in Instances /\ ins[i] \in Cfg
         /\ \A i, j \in DOMAIN ins : ins[i] = ins[j] => i = j
         /\ \A c \in Cfg : Svc(c) \in Service
<1>1. DOMAIN ins = 1..Len(ins) /\ Len(ins) \in Nat /\ Len(cfgs) \in Nat
  BY LenProperties DEF TypeOK
<1>2. \A i \in DOMAIN ins : ins[i] \in Cfg
  BY <1>1, LenProperties DEF TypeOK
<1>3. pos \in Nat \ {0}
  BY <1>1 DEF TypeOK
<1>4. \A c \in Cfg : Svc(c) \in Service
  BY ServiceAssumption DEF Svc
<1>5. \A i, j \in DOMAIN ins : ins[i] = ins[j] => i = j
  BY DEF TypeOK, IsInjective
<1>6. QED BY <1>1, <1>2, <1>3, <1>4, <1>5 DEF Instances, ToSet

\* A start that had what it needed keeps it as long as no service stops running
\* and none that was tried is as if it had not been.
LEMMA DependsStays ==
  ASSUME TypeOK, NEW i \in Instances, DependsDone(i),
         \A j \in Instances : /\ j \in Instances'
                              /\ status[j] = "started" => status'[j] = "started"
                              /\ status[j] \notin {"unknown", "stopped"} =>
                                   status'[j] \notin {"unknown", "stopped"}
  PROVE  DependsDone(i)'
<1>1. \A g : Started(g) => Started(g)'
  BY DEF Started, Having
<1>2. \A g : Tried(g) => Tried(g)'
  BY DEF Tried, Having
<1>3. QED BY <1>1, <1>2 DEF DependsDone

-----------------------------------------------------------------------------
(* Steps of the start loop that change the status of the instance it is at *)

\* The loop goes on at p, with status s for the instance it was at.
Step(s, p) ==
  /\ mode = "starting" /\ pos \in DOMAIN ins
  /\ status' = [status EXCEPT ![At] = s]
  /\ pos' \in {pos, pos + 1}
  /\ UNCHANGED <<cfgs, disabled, display, ins, mode>>
  /\ p = pos'

\* What all of them keep.
LEMMA StepKeeps ==
  ASSUME ManagerInv, NEW s \in Status \ {"unknown", "stopped"}, NEW p, Step(s, p),
         status[At] # "started",
         DependsDone(At), Svc(At) \notin disabled, round' \in BOOLEAN,
         s \in {"conditioning", "skip"} => Svc(At) \in Conditional
  PROVE  /\ TypeOK' /\ Known' /\ Fresh' /\ Ran' /\ Ended'
         /\ Instances' = Instances
         /\ \A c \in Cfg : status'[c] = IF c = At THEN s ELSE status[c]
<1>1. /\ Instances \subseteq Cfg /\ DOMAIN ins = 1..Len(ins) /\ Len(ins) \in Nat
      /\ At \in Cfg /\ At \in Instances /\ Instances' = Instances
  BY Typed DEF ManagerInv, Step, At, Instances
<1>2. status' \in [Cfg -> Status] /\ \A c \in Cfg : status'[c] = IF c = At THEN s ELSE status[c]
  BY <1>1 DEF ManagerInv, TypeOK, Step
<1>3. TypeOK'
  <2>1. pos' \in 1..(Len(ins') + 1)
    BY <1>1 DEF Step
  <2>2. mode' \notin Installing
    BY DEF Step, Installing
  <2>3. QED BY <1>2, <2>1, <2>2 DEF ManagerInv, TypeOK, Step
<1>4. Known'
  BY <1>1, <1>2 DEF ManagerInv, Known
<1>5. Fresh' /\ Ended'
  BY DEF Fresh, Ended, Step
<1>6. Ran'
  <2>1. SUFFICES ASSUME NEW i \in Instances, status'[i] \notin {"unknown", "stopped"}
                 PROVE  /\ DependsDone(i)' /\ Svc(i) \notin disabled
                        /\ status'[i] \in {"conditioning", "skip"} => Svc(i) \in Conditional
    BY <1>1 DEF Ran, Step
  <2>2. \A j \in Instances : /\ j \in Instances'
                             /\ status[j] = "started" => status'[j] = "started"
                             /\ status[j] \notin {"unknown", "stopped"} =>
                                  status'[j] \notin {"unknown", "stopped"}
    BY <1>1, <1>2
  <2>3. /\ DependsDone(i) /\ Svc(i) \notin disabled
        /\ status'[i] \in {"conditioning", "skip"} => Svc(i) \in Conditional
    <3>1. CASE i = At
      BY <1>1, <1>2, <3>1
    <3>2. CASE i # At
      BY <1>1, <1>2, <2>1, <3>2 DEF ManagerInv, Ran, Step
    <3>3. QED BY <3>1, <3>2
  <2>4. DependsDone(i)'
    BY <2>2, <2>3, DependsStays DEF ManagerInv
  <2>5. QED BY <2>3, <2>4
<1>7. QED BY <1>1, <1>2, <1>3, <1>4, <1>5, <1>6

\* If nothing is started the pass is as it was, but for the instance it is at.
LEMMA StepKeepsPass ==
  ASSUME ManagerInv, NEW s \in {"conditioning", "starting", "skip"}, NEW p, Step(s, p),
         status[At] # "started", round' = round,
         p = pos + 1 => s = "skip" /\ ~Holds(At)
  PROVE  PassInv' /\ OneGraphics'
<1>1. /\ Instances \subseteq Cfg /\ DOMAIN ins = 1..Len(ins) /\ Len(ins) \in Nat
      /\ pos \in DOMAIN ins /\ At \in Cfg /\ At \in Instances /\ Instances' = Instances
      /\ \A i \in DOMAIN ins : ins[i] \in Instances /\ ins[i] \in Cfg
      /\ \A i \in DOMAIN ins : ins[i] = At => i = pos
  BY Typed DEF ManagerInv, Step, At, Instances
<1>2. \A c \in Cfg : status'[c] = IF c = At THEN s ELSE status[c]
  BY <1>1 DEF ManagerInv, TypeOK, Step
<1>3. \A g : Having(g)' = Having(g)
  BY <1>1 DEF Having
<1>4. \A g : Started(g)' = Started(g)
  BY <1>1, <1>2, <1>3 DEF Started, Having
<1>5. OneGraphics'
  BY <1>1, <1>2, <1>3 DEF OneGraphics, ManagerInv, Having
<1>6. \A c : Holds(c)' = Holds(c)
  BY <1>4 DEF Holds, Step
<1>7. PassInv'
  <2>1. SUFFICES ASSUME ~round, NEW i \in DOMAIN ins, i < pos' PROVE Settled(i)'
    BY DEF PassInv, Step
  <2>2. CASE i < pos
    <3>1. i # pos /\ ins[i] # At /\ status'[ins[i]] = status[ins[i]]
      BY <1>1, <1>2, <2>2
    <3>2. Settled(i)
      BY <2>1, <2>2 DEF ManagerInv, PassInv, Step
    <3>3. Blocked(i) => Blocked(i)'
      <4>1. CASE \E g \in Depends[Svc(ins[i])] : ~Started(g)
        BY <1>4, <4>1 DEF Blocked, Step
      <4>2. ASSUME NEW g \in After[Svc(ins[i])],
                   \A j \in DOMAIN ins : ins[j] \in Having(g) =>
                     \/ status[ins[j]] = "stopped"
                     \/ status[ins[j]] \in {"skip", "conditioning", "starting"} /\ j > i
            PROVE  Blocked(i)'
        <5>1. ASSUME NEW j \in DOMAIN ins, ins[j] \in Having(g)
              PROVE  \/ status'[ins[j]] = "stopped"
                     \/ status'[ins[j]] \in {"skip", "conditioning", "starting"} /\ j > i
          <6>1. CASE ins[j] = At
            BY <1>1, <1>2, <2>2, <6>1
          <6>2. CASE ins[j] # At
            BY <1>1, <1>2, <4>2, <5>1, <6>2
          <6>3. QED BY <6>1, <6>2
        <5>2. QED BY <1>3, <5>1 DEF Blocked, Step
      <4>3. QED BY <4>1, <4>2 DEF Blocked
    <3>4. QED BY <1>6, <3>1, <3>2, <3>3 DEF Settled, Step
  <2>3. CASE ~(i < pos)
    <3>1. i = pos /\ p = pos + 1
      BY <1>1, <2>1, <2>3 DEF Step
    <3>2. ins[i] = At /\ status'[ins[i]] = "skip" /\ ~Holds(ins[i])
      BY <1>1, <1>2, <3>1 DEF At
    <3>3. QED BY <1>6, <3>2 DEF Settled, Step
  <2>4. QED BY <2>2, <2>3
<1>8. QED BY <1>5, <1>7
-----------------------------------------------------------------------------
(* The actions of the start loop *)

\* A condition is asked only of a service that has what it needs.
LEMMA BeginConditionKeeps ==
  ASSUME ManagerInv, BeginCondition
  PROVE  ManagerInv'
<1>1. /\ Step("conditioning", pos) /\ status[At] \in {"skip", "failed", "stopped"}
      /\ DependsDone(At) /\ Svc(At) \notin disabled /\ Svc(At) \in Conditional
      /\ round' = round /\ pos' = pos
  BY Typed DEF ManagerInv, BeginCondition, Visiting, Startable, CanCondition, Step
<1>2. /\ TypeOK' /\ Known' /\ Fresh' /\ Ran' /\ Ended' /\ Instances' = Instances
      /\ \A c \in Cfg : status'[c] = IF c = At THEN "conditioning" ELSE status[c]
  BY <1>1, StepKeeps DEF Status, ManagerInv, TypeOK
<1>3. pos # pos + 1
  BY Typed DEF ManagerInv
<1>4. PassInv' /\ OneGraphics'
  BY <1>1, <1>3, StepKeepsPass
<1>5. Calls'
  BY <1>1, <1>2, Typed DEF Calls, ManagerInv, Step, At
<1>6. Alone'
  BY <1>1, <1>2, Typed DEF Alone, Having, ManagerInv
<1>7. QED BY <1>2, <1>4, <1>5, <1>6 DEF ManagerInv

\* A graphics output is chosen only while none runs.
LEMMA ConditionReturnsKeeps ==
  ASSUME ManagerInv, ConditionReturns
  PROVE  ManagerInv'
<1>1. /\ status[At] = "conditioning" /\ round' = round /\ pos \in DOMAIN ins /\ At \in Instances
      /\ mode = "starting"
  BY Typed DEF ManagerInv, ConditionReturns, Visiting, At
<1>2. DependsDone(At) /\ Svc(At) \notin disabled /\ Svc(At) \in Conditional
  BY <1>1 DEF ManagerInv, Ran
<1>3. CASE Holds(At)
  <2>1. Step("starting", pos) /\ pos' = pos
    BY <1>1, <1>3 DEF ConditionReturns, Step
  <2>2. /\ TypeOK' /\ Known' /\ Fresh' /\ Ran' /\ Ended' /\ Instances' = Instances
        /\ \A c \in Cfg : status'[c] = IF c = At THEN "starting" ELSE status[c]
    BY <1>1, <1>2, <2>1, StepKeeps DEF Status, ManagerInv, TypeOK
  <2>3. pos # pos + 1
    BY Typed DEF ManagerInv
  <2>4. PassInv' /\ OneGraphics'
    BY <1>1, <2>1, <2>3, StepKeepsPass
  <2>5. Calls'
    BY <1>1, <2>1, <2>2, Typed DEF Calls, ManagerInv, Step, At
  <2>6. Alone'
    <3>1. \A j \in Having(GraphicsGuid) : status[j] # "started"
      BY <1>3 DEF Holds, Started
    <3>2. Having(GraphicsGuid)' = Having(GraphicsGuid) /\ Having(GraphicsGuid) \subseteq Cfg
      BY <2>2, Typed DEF Having, ManagerInv
    <3>3. QED BY <2>2, <3>1, <3>2 DEF Alone
  <2>7. QED BY <2>2, <2>4, <2>5, <2>6 DEF ManagerInv
<1>4. CASE ~Holds(At)
  <2>1. Step("skip", pos') /\ pos' = pos + 1
    BY <1>1, <1>4 DEF ConditionReturns, Step
  <2>2. /\ TypeOK' /\ Known' /\ Fresh' /\ Ran' /\ Ended' /\ Instances' = Instances
        /\ \A c \in Cfg : status'[c] = IF c = At THEN "skip" ELSE status[c]
    BY <1>1, <1>2, <2>1, StepKeeps DEF Status, ManagerInv, TypeOK
  <2>3. PassInv' /\ OneGraphics'
    BY <1>1, <1>4, <2>1, StepKeepsPass
  <2>4. Calls'
    BY <1>1, <2>1, <2>2, Typed DEF Calls, ManagerInv, Step, At
  <2>5. Alone'
    BY <2>2, Typed DEF Alone, Having, ManagerInv
  <2>6. QED BY <2>2, <2>3, <2>4, <2>5 DEF ManagerInv
<1>5. QED BY <1>3, <1>4

\* A service without a condition is no graphics output.
LEMMA BeginStartKeeps ==
  ASSUME ManagerInv, BeginStart
  PROVE  ManagerInv'
<1>1. /\ Step("starting", pos) /\ status[At] \in {"failed", "stopped"}
      /\ DependsDone(At) /\ Svc(At) \notin disabled /\ Svc(At) \notin Conditional
      /\ round' = round /\ pos' = pos
  BY Typed DEF ManagerInv, BeginStart, Visiting, Startable, CanStart, Step
<1>2. /\ TypeOK' /\ Known' /\ Fresh' /\ Ran' /\ Ended' /\ Instances' = Instances
      /\ \A c \in Cfg : status'[c] = IF c = At THEN "starting" ELSE status[c]
  BY <1>1, StepKeeps DEF Status, ManagerInv, TypeOK
<1>3. pos # pos + 1
  BY Typed DEF ManagerInv
<1>4. PassInv' /\ OneGraphics'
  BY <1>1, <1>3, StepKeepsPass
<1>5. Calls'
  BY <1>1, <1>2, Typed DEF Calls, ManagerInv, Step, At
<1>6. Alone'
  <2>1. At \notin Having(GraphicsGuid)
    BY <1>1, Typed, GraphicsAssumption DEF Having, ManagerInv
  <2>2. Having(GraphicsGuid)' = Having(GraphicsGuid) /\ Having(GraphicsGuid) \subseteq Cfg
    BY <1>2, Typed DEF Having, ManagerInv
  <2>3. QED BY <1>2, <2>1, <2>2 DEF Alone, ManagerInv
<1>7. QED BY <1>2, <1>4, <1>5, <1>6 DEF ManagerInv

\* A start function returns: its service runs, has failed, or is left for the next pass.
LEMMA StartReturnsKeeps ==
  ASSUME ManagerInv, StartReturns
  PROVE  ManagerInv'
<1>1. PICK outcome \in {"started", "failed"} : status' = [status EXCEPT ![At] = outcome]
  BY DEF StartReturns
<1>2. /\ Step(outcome, pos') /\ pos' = pos + 1 /\ round' = TRUE
      /\ status[At] = "starting" /\ At \in Instances
  <2>1. pos \in DOMAIN ins /\ ins[pos] \in Instances
    BY Typed DEF ManagerInv, StartReturns, Visiting
  <2>2. QED BY <1>1, <2>1 DEF StartReturns, Visiting, Step, At
<1>3. DependsDone(At) /\ Svc(At) \notin disabled
  BY <1>2 DEF ManagerInv, Ran, Step
<1>4. /\ TypeOK' /\ Known' /\ Fresh' /\ Ran' /\ Ended' /\ Instances' = Instances
      /\ \A c \in Cfg : status'[c] = IF c = At THEN outcome ELSE status[c]
  <2>1. outcome \in Status \ {"unknown", "stopped"} /\ outcome \notin {"conditioning", "skip"}
    BY DEF Status
  <2>2. QED BY <1>2, <1>3, <2>1, StepKeeps
<1>5. PassInv'
  BY <1>2 DEF PassInv
<1>6. Having(GraphicsGuid)' = Having(GraphicsGuid) /\ Having(GraphicsGuid) \subseteq Cfg
  BY <1>4, Typed DEF Having, ManagerInv
<1>7. OneGraphics'
  BY <1>2, <1>4, <1>6 DEF OneGraphics, Alone, ManagerInv
<1>8. Calls'
  BY <1>2, <1>4, Typed DEF Calls, ManagerInv, Step, At
<1>9. Alone'
  <2>1. \A j \in Having(GraphicsGuid) : status[j] = "starting" => j = At
    BY <1>6 DEF ManagerInv, Calls, At
  <2>2. QED BY <1>4, <1>6, <2>1 DEF Alone
<1>10. QED BY <1>4, <1>5, <1>7, <1>8, <1>9 DEF ManagerInv

\* An instance that is passed over is not skip, for what was skipped may always be tried
\* again; if it is stopped, what it needs or comes after is missing.
LEMMA PassOverKeeps ==
  ASSUME ManagerInv, PassOver
  PROVE  ManagerInv'
<1>1. /\ mode = "starting" /\ pos \in DOMAIN ins /\ pos' = pos + 1 /\ pos' \in 1..(Len(ins) + 1)
      /\ UNCHANGED <<cfgs, disabled, display, ins, status, mode, round>>
      /\ At \in Instances /\ At \in Cfg /\ At = ins[pos]
  BY Typed DEF ManagerInv, PassOver, Visiting, At
<1>2. ~InCall /\ ~(Startable /\ (CanCondition \/ CanStart))
  BY DEF PassOver
<1>3. TypeOK' /\ Known' /\ Fresh' /\ Ran' /\ Alone' /\ OneGraphics' /\ Ended'
  BY <1>1 DEF ManagerInv, TypeOK, Known, Fresh, Ran, Alone, OneGraphics, Ended, Installing,
              Instances, DependsDone, Started, Tried, Having
<1>4. Calls'
  <2>1. \A c \in Cfg : status[c] \notin {"conditioning", "starting"}
    BY <1>1, <1>2 DEF ManagerInv, Calls, InCall
  <2>2. QED BY <1>1, <2>1 DEF Calls
<1>5. Settled(pos)
  <2>1. status[At] # "skip"
    BY <1>1, <1>2 DEF ManagerInv, Ran, Startable, CanCondition
  <2>2. ASSUME status[At] = "stopped", Svc(At) \notin disabled PROVE Blocked(pos)
    <3>1. ~DependsDone(At)
      BY <1>2, <2>2 DEF Startable, CanCondition, CanStart
    <3>2. CASE \E g \in Depends[Svc(At)] : ~Started(g)
      BY <1>1, <3>2 DEF Blocked
    <3>3. ASSUME NEW g \in After[Svc(At)], ~Tried(g) PROVE Blocked(pos)
      <4>1. \A j \in DOMAIN ins : ins[j] \in Having(g) => status[ins[j]] = "stopped"
        <5>1. SUFFICES ASSUME NEW j \in DOMAIN ins, ins[j] \in Having(g)
                       PROVE  status[ins[j]] = "stopped"
          OBVIOUS
        <5>2. ins[j] \in Instances /\ ins[j] \in Cfg
          BY Typed DEF ManagerInv
        <5>3. QED BY <3>3, <5>1, <5>2 DEF Tried, ManagerInv, Known
      <4>2. QED BY <1>1, <3>3, <4>1 DEF Blocked
    <3>4. QED BY <3>1, <3>2, <3>3 DEF DependsDone
  <2>3. QED BY <1>1, <2>1, <2>2 DEF Settled
<1>6. PassInv'
  <2>1. \A i : Settled(i)' = Settled(i)
    BY <1>1 DEF Settled, Blocked, Holds, Started, Having, Instances
  <2>2. \A i \in DOMAIN ins : i < pos' => i < pos \/ i = pos
    BY <1>1, Typed DEF ManagerInv
  <2>3. QED BY <1>1, <1>5, <2>1, <2>2 DEF PassInv, ManagerInv
<1>7. QED BY <1>3, <1>4, <1>6 DEF ManagerInv
-----------------------------------------------------------------------------
(* The other actions *)

\* A pass that started something is followed by another, one that did not ends the loop.
LEMMA StartPassEndsKeeps ==
  ASSUME ManagerInv, StartPassEnds
  PROVE  ManagerInv'
<1>1. /\ mode = "starting" /\ \A i \in DOMAIN ins : i < pos
      /\ UNCHANGED <<cfgs, disabled, display, ins, status>>
  BY Typed DEF ManagerInv, StartPassEnds
<1>2. Known' /\ Alone' /\ OneGraphics' /\ \A i : Settled(i)' = Settled(i)
  BY <1>1 DEF ManagerInv, Known, Alone, OneGraphics, Settled, Blocked, Holds, Started, Having, Instances
<1>3. \A c \in Cfg : status[c] \notin {"conditioning", "starting"}
  <2>1. ~(pos <= Len(ins))
    BY Typed DEF ManagerInv, StartPassEnds
  <2>2. QED BY <2>1 DEF ManagerInv, Calls
<1>4. CASE round
  <2>1. mode' = mode /\ pos' = 1 /\ round' = FALSE
    BY <1>4 DEF StartPassEnds, PassEnds
  <2>2. TypeOK'
    <3>1. mode' \notin Installing /\ pos' \in 1..(Len(ins') + 1)
      BY <1>1, <2>1, Typed DEF ManagerInv, Installing
    <3>2. round' \in BOOLEAN
      BY <2>1
    <3>3. QED BY <1>1, <2>1, <3>1, <3>2 DEF ManagerInv, TypeOK
  <2>3. Calls' /\ Fresh' /\ Ended'
    BY <1>1, <1>3, <2>1 DEF Calls, Fresh, Ended
  <2>4. Ran'
    BY <1>1, <2>1 DEF ManagerInv, Ran, DependsDone, Started, Tried, Having, Instances
  <2>5. PassInv'
    BY <1>1, <2>1, Typed DEF PassInv, ManagerInv
  <2>6. QED BY <1>2, <2>2, <2>3, <2>4, <2>5 DEF ManagerInv
<1>5. CASE ~round
  <2>1. mode' \in {"ready", "failed"} /\ pos' = pos /\ round' = round
    BY <1>5 DEF StartPassEnds, PassEnds
  <2>2. TypeOK'
    BY <1>1, <2>1, Typed DEF ManagerInv, TypeOK, Mode, Installing
  <2>3. Calls' /\ Fresh' /\ PassInv'
    BY <1>1, <1>3, <2>1 DEF Calls, Fresh, PassInv
  <2>4. Ran'
    BY <1>1, <2>1 DEF ManagerInv, Ran, DependsDone, Started, Tried, Having, Instances
  <2>5. Ended'
    BY <1>1, <1>2, <1>3, <1>5, Typed DEF Ended, ManagerInv, PassInv
  <2>6. QED BY <1>2, <2>2, <2>3, <2>4, <2>5 DEF ManagerInv
<1>6. QED BY <1>4, <1>5

\* Outside the start loop nothing is in a function, and statuses only become stopped.
LEMMA OutsideKeeps ==
  ASSUME ManagerInv, TypeOK', Known', mode # "starting", mode' # "starting",
         mode' \in {"ready", "failed"} => UNCHANGED vars,
         mode' \in {"constructors", "options", "installing"} =>
           mode \in {"constructors", "options", "installing"},
         Instances' \subseteq Cfg,
         \A c \in Cfg : status'[c] = status[c] \/ status'[c] = "stopped"
  PROVE  ManagerInv'
<1>1. \A c \in Cfg : status[c] \notin {"conditioning", "starting"}
  BY DEF ManagerInv, Calls
<1>2. Calls' /\ Alone' /\ Fresh' /\ PassInv'
  BY <1>1 DEF ManagerInv, Calls, Alone, Fresh, PassInv, Having
<1>3. CASE UNCHANGED vars
  BY <1>2, <1>3 DEF vars, ManagerInv, Ran, Ended, OneGraphics, DependsDone, Settled, Blocked, Holds,
       Started, Tried, Having, Instances
<1>4. CASE mode' \notin {"ready", "failed"}
  <2>1. Ran' /\ Ended'
    BY <1>4 DEF Ran, Ended
  <2>2. OneGraphics'
    <3>1. SUFFICES ASSUME NEW i \in Having(GraphicsGuid)', NEW j \in Having(GraphicsGuid)',
                          status'[i] = "started", status'[j] = "started"
                   PROVE  i = j
      BY DEF OneGraphics
    <3>2. i \in Cfg /\ j \in Cfg /\ status[i] = "started" /\ status[j] = "started"
      BY <3>1 DEF Having
    <3>3. i \in Instances /\ j \in Instances
      BY <3>2 DEF ManagerInv, Known
    <3>4. i \in Having(GraphicsGuid) /\ j \in Having(GraphicsGuid)
      BY <3>1, <3>3 DEF Having
    <3>5. QED BY <3>2, <3>4 DEF ManagerInv, OneGraphics
  <2>3. QED BY <1>2, <2>1, <2>2 DEF ManagerInv
<1>5. QED BY <1>3, <1>4

\* The installation visits a service.
LEMMA InstallKeeps ==
  ASSUME ManagerInv, InstallVisit
  PROVE  ManagerInv'
<1> DEFINE c == cfgs[pos]
<1>1. /\ mode \in Installing /\ mode' = mode /\ cfgs' = cfgs /\ pos' = pos + 1
      /\ UNCHANGED <<disabled, display, round>> /\ pos \in 1..Len(cfgs)
  BY Typed, LenProperties DEF InstallVisit, ManagerInv, TypeOK
<1>2. c \in Cfg /\ Len(cfgs) \in Nat
  BY <1>1, LenProperties DEF ManagerInv, TypeOK
<1>3. pos' \in 1..(Len(cfgs') + 1)
  BY <1>1, <1>2
<1>4. CASE UNCHANGED <<ins, status>>
  <2>1. TypeOK' /\ Known' /\ Instances' = Instances
    BY <1>1, <1>3, <1>4 DEF ManagerInv, TypeOK, Known, Instances
  <2>2. QED BY <1>1, <1>4, <2>1, OutsideKeeps, Typed DEF Installing, ManagerInv
<1>5. CASE c \notin Instances /\ Add(c)
  <2>1. ins' = Append(ins, c) /\ status' = [status EXCEPT ![c] = "stopped"]
    BY <1>5 DEF Add
  <2>2. /\ ins' \in Seq(Cfg) /\ Len(ins) \in Nat /\ DOMAIN ins = 1..Len(ins)
        /\ DOMAIN ins' = 1..(Len(ins) + 1)
        /\ \A i \in 1..Len(ins) : ins'[i] = ins[i]
        /\ ins'[Len(ins) + 1] = c
        /\ Instances' = Instances \cup {c}
    BY <1>2, <2>1, Appended DEF ManagerInv, TypeOK, Instances
  <2>3. \A i \in 1..Len(ins) : ins'[i] # c
    BY <1>5, <2>2 DEF Instances, ToSet
  <2>4. IsInjective(ins')
    BY <2>2, <2>3, Typed DEF IsInjective, ManagerInv
  <2>5. /\ status' \in [Cfg -> Status]
        /\ \A d \in Cfg : status'[d] = IF d = c THEN "stopped" ELSE status[d]
    BY <1>2, <2>1 DEF ManagerInv, TypeOK, Status
  <2>6. TypeOK'
    BY <1>1, <1>3, <2>2, <2>4, <2>5 DEF ManagerInv, TypeOK
  <2>7. Known'
    BY <1>2, <2>2, <2>5 DEF ManagerInv, Known
  <2>8. Instances' \subseteq Cfg
    BY <1>2, <2>2, Typed DEF ManagerInv
  <2>9. QED BY <1>1, <2>5, <2>6, <2>7, <2>8, OutsideKeeps DEF Installing
<1>6. QED BY <1>4, <1>5 DEF InstallVisit

\* The installation has made its instances or has failed on one.
LEMMA InstallEndsKeeps ==
  ASSUME ManagerInv, InstallEnds
  PROVE  ManagerInv'
<1>1. /\ UNCHANGED <<cfgs, disabled, display, ins, status>> /\ pos' = 1 /\ round' = FALSE
      /\ Instances' = Instances
  BY DEF InstallEnds, Instances
<1>2. TypeOK' /\ Known'
  <2>1. mode' \in {"starting", "stopping"} /\ pos' \in 1..(Len(ins') + 1)
    BY <1>1, Typed DEF InstallEnds, ManagerInv
  <2>4. round' \in BOOLEAN
    BY <1>1
  <2>2. mode' \in Mode /\ mode' \notin Installing
    BY <2>1 DEF Mode, Installing
  <2>3. QED BY <1>1, <2>1, <2>2, <2>4 DEF ManagerInv, TypeOK, Known
<1>3. CASE mode = "reinstalling"
  <2>1. mode' = "stopping"
    BY <1>3 DEF InstallEnds
  <2>2. QED BY <1>1, <1>2, <1>3, <2>1, OutsideKeeps, Typed DEF ManagerInv
<1>4. CASE mode = "installing"
  <2>1. mode' = "starting" /\ \A c \in Cfg : status[c] \in {"unknown", "stopped"}
    BY <1>4 DEF InstallEnds, ManagerInv, Fresh
  <2>2. Calls' /\ Fresh' /\ Alone' /\ OneGraphics' /\ Ran' /\ Ended'
    BY <1>1, <2>1, Typed DEF Calls, Fresh, Alone, OneGraphics, Ran, Ended, Having, ManagerInv
  <2>3. PassInv'
    BY <1>1, Typed DEF PassInv, ManagerInv
  <2>4. QED BY <1>2, <2>2, <2>3 DEF ManagerInv
<1>5. QED BY <1>3, <1>4 DEF InstallEnds, Installing

\* The stop loop makes statuses stopped and nothing else.
LEMMA StopKeeps ==
  ASSUME ManagerInv, StopVisit \/ StopPassEnds
  PROVE  ManagerInv'
<1>1. /\ mode = "stopping" /\ mode' \in {"stopping", "destroyed"} /\ Instances' = Instances
      /\ UNCHANGED <<cfgs, disabled, display, ins>>
  BY DEF StopVisit, Visiting, StopPassEnds, PassEnds, Instances
<1>2. CASE StopVisit
  <2>1. pos \in DOMAIN ins /\ At \in Cfg /\ At \in Instances /\ pos' = pos + 1
    BY <1>2, Typed DEF ManagerInv, StopVisit, Visiting, At
  <2>2. /\ status' \in [Cfg -> Status]
        /\ \A c \in Cfg : status'[c] = status[c] \/ (c = At /\ status'[c] = "stopped")
    BY <1>2, <2>1 DEF StopVisit, Stop, ManagerInv, TypeOK, Status
  <2>3. round' \in BOOLEAN /\ mode' = mode
    BY <1>2 DEF StopVisit, ManagerInv, TypeOK
  <2>4. TypeOK'
    BY <1>1, <2>1, <2>2, <2>3, Typed DEF ManagerInv, TypeOK, Installing
  <2>5. Known'
    BY <1>1, <2>1, <2>2 DEF ManagerInv, Known
  <2>6. QED BY <1>1, <2>2, <2>4, <2>5, OutsideKeeps, Typed DEF ManagerInv
<1>3. CASE StopPassEnds
  <2>1. status' = status /\ round' \in BOOLEAN /\ pos' \in 1..(Len(ins) + 1)
    <3>1. pos \in 1..(Len(ins) + 1) /\ 1 \in 1..(Len(ins) + 1) /\ round \in BOOLEAN
      BY <1>1, Typed DEF ManagerInv, TypeOK, Installing
    <3>2. QED BY <1>3, <3>1 DEF StopPassEnds, PassEnds
  <2>2. TypeOK' /\ Known'
    BY <1>1, <2>1 DEF ManagerInv, TypeOK, Known, Mode, Installing
  <2>3. QED BY <1>1, <2>1, <2>2, OutsideKeeps, Typed DEF ManagerInv
<1>4. QED BY <1>2, <1>3

\* Configurations are registered, enabled and removed, contexts come and go.
LEMMA BeforeKeeps ==
  ASSUME ManagerInv,
         \/ \E c \in Cfg : Register(c)
         \/ \E s \in Enabled : Enable(s)
         \/ \E c \in Removed : Unregister(c)
         \/ NewContext \/ DestroyContext
  PROVE  ManagerInv'
<1>1. UNCHANGED <<display, ins, status, round>> /\ Instances' = Instances
  BY DEF Register, Enable, Unregister, NewContext, DestroyContext, BeginInstall, Instances
<1>2. Len(ins) \in Nat /\ Len(cfgs) \in Nat
  BY LenProperties DEF ManagerInv, TypeOK
<1>3. SUFFICES TypeOK' /\ mode # "starting" /\ mode' \notin {"starting", "ready", "failed"}
               /\ (mode' \in {"constructors", "options", "installing"} =>
                     mode \in {"constructors", "options", "installing"})
  <2>1. Known'
    BY <1>1 DEF ManagerInv, Known
  <2>2. Instances' \subseteq Cfg
    BY <1>1, Typed DEF ManagerInv
  <2>3. QED BY <1>1, <1>3, <2>1, <2>2, OutsideKeeps
<1>4. ASSUME NEW c \in Cfg, Register(c)
      PROVE  TypeOK' /\ mode = "constructors" /\ mode' \in {"constructors", "options"}
  <2>1. cfgs' \in Seq(Cfg)
    BY <1>4, Appended DEF Register, ManagerInv, TypeOK
  <2>2. /\ mode = "constructors" /\ mode' \in {"constructors", "options"}
        /\ disabled' = disabled /\ pos' = pos
    BY <1>4 DEF Register
  <2>3. QED BY <1>1, <1>2, <2>1, <2>2 DEF ManagerInv, TypeOK, Mode, Installing
<1>5. ASSUME NEW s \in Enabled, Enable(s)
      PROVE  TypeOK' /\ mode = "options" /\ mode' = mode
  <2>1. disabled' \in SUBSET Service
    BY <1>5 DEF Enable, ManagerInv, TypeOK
  <2>2. QED BY <1>1, <1>5, <2>1 DEF Enable, ManagerInv, TypeOK, Installing
<1>6. ASSUME NEW c \in Removed, Unregister(c)
      PROVE  TypeOK' /\ mode = "options" /\ mode' = mode
  <2>1. cfgs' \in Seq(Cfg)
    BY <1>6, RemovedAt DEF Unregister, ManagerInv, TypeOK
  <2>2. QED BY <1>1, <1>6, <2>1 DEF Unregister, ManagerInv, TypeOK, Installing
<1>7. ASSUME NewContext \/ DestroyContext
      PROVE  TypeOK' /\ \/ mode = "options" /\ mode' = "installing"
                        \/ mode = "ready" /\ mode' = "reinstalling"
  BY <1>2, <1>7 DEF NewContext, DestroyContext, BeginInstall, ManagerInv, TypeOK, Mode, Installing
<1>8. QED BY <1>4, <1>5, <1>6, <1>7

\* Nothing is known of any configuration at first.
LEMMA InitManager == Init => ManagerInv
<1> SUFFICES ASSUME Init PROVE ManagerInv
  OBVIOUS
<1>1. ins = <<>> /\ cfgs = <<>> /\ Len(ins) = 0 /\ Instances = {} /\ DOMAIN ins = {}
  BY DEF Init, Instances, ToSet
<1>2. <<>> \in Seq(Cfg) /\ IsInjective(ins)
  BY <1>1 DEF IsInjective
<1>3. TypeOK
  <2>1. mode \in Mode /\ mode \notin Installing /\ pos \in 1..(Len(ins) + 1)
    BY <1>1 DEF Init, Mode, Installing
  <2>4. round \in BOOLEAN
    BY DEF Init
  <2>2. disabled \in SUBSET Service /\ display \in BOOLEAN /\ status \in [Cfg -> Status]
    BY FlagAssumption DEF Init, Status
  <2>3. QED BY <1>1, <1>2, <2>1, <2>2, <2>4 DEF TypeOK
<1>4. Known /\ Calls /\ Fresh /\ Ran /\ Alone /\ OneGraphics /\ PassInv /\ Ended
  BY <1>1 DEF Init, Known, Calls, Fresh, Ran, Alone, OneGraphics, PassInv, Ended, Having
<1>5. QED BY <1>3, <1>4 DEF ManagerInv

\* Every action keeps the invariant.
LEMMA NextManager == ManagerInv /\ [Next]_vars => ManagerInv'
<1> SUFFICES ASSUME ManagerInv, [Next]_vars PROVE ManagerInv'
  OBVIOUS
<1>1. CASE UNCHANGED vars
  BY <1>1 DEF vars, ManagerInv, TypeOK, Known, Calls, Fresh, Ran, Alone, OneGraphics, PassInv, Ended,
       Settled, Blocked, Holds, DependsDone, Started, Tried, Having, Instances
<1>2. CASE Manager
  BY <1>2, BeginConditionKeeps, ConditionReturnsKeeps, BeginStartKeeps, StartReturnsKeeps,
     PassOverKeeps, StartPassEndsKeeps, InstallKeeps, InstallEndsKeeps, StopKeeps DEF Manager
<1>3. CASE ~Manager /\ Next
  BY <1>3, BeforeKeeps DEF Next
<1>4. QED BY <1>1, <1>2, <1>3

\* What the loops of the service manager keep, for every set of services.
THEOREM ManagerInvariant == Spec => []ManagerInv
<1>1. QED BY InitManager, NextManager, PTL DEF Spec

\* A service is only called and only runs while all that it depends on runs and all
\* that it comes after has been tried.
THEOREM DependenciesAlwaysRun == Spec => []DependenciesRun
<1>1. ManagerInv => DependenciesRun
  BY DEF ManagerInv, Ran, DependenciesRun, DependsDone
<1>2. QED BY <1>1, ManagerInvariant, PTL

\* One graphics output runs at most.
THEOREM OneGraphicsRuns == Spec => []OneGraphics
<1>1. ManagerInv => OneGraphics
  BY DEF ManagerInv
<1>2. QED BY <1>1, ManagerInvariant, PTL

\* When the start loop ends every instance has started, failed, or cannot start.
THEOREM NothingLeftToStart == Spec => []StartsAllItCan
<1>1. ASSUME ManagerInv PROVE StartsAllItCan
  <2>1. ASSUME mode \in {"ready", "failed"}, NEW i \in DOMAIN ins
        PROVE  /\ status[ins[i]] = "skip" => ~Holds(ins[i])
               /\ status[ins[i]] = "stopped" /\ Svc(ins[i]) \notin disabled
                    => \/ ~DependsDone(ins[i])
                       \/ \E g \in After[Svc(ins[i])] :
                            \A j \in DOMAIN ins : ins[j] \in Having(g) =>
                              status[ins[j]] = "stopped" \/ (status[ins[j]] = "skip" /\ j > i)
    <3>1. Settled(i) /\ \A j \in DOMAIN ins : status[ins[j]] \notin {"conditioning", "starting"}
      BY <1>1, <2>1 DEF ManagerInv, Ended
    <3>2. QED BY <3>1 DEF Settled, Blocked, DependsDone
  <2>2. QED BY <1>1, <2>1 DEF StartsAllItCan, ManagerInv
<1>2. QED BY <1>1, ManagerInvariant, PTL

-----------------------------------------------------------------------------
(* The tables the services make *)

\* The services start in any order.
FirmwareSpec == FirmwareInit /\ [][FirmwareNext]_firmwareVars

\* Boot services, runtime services, system table and DXE services
AllTables == {"bs", "rt", "st", "ds"}

\* A table is the context's from when the service that makes it runs.
MadeBy == [bs |-> "BootServices", rt |-> "RuntimeService", st |-> "SystemTable", ds |-> "DxeServices"]

\* The inductive invariant: what runs has what it declared, and a table is the
\* context's, with a right checksum, as soon as the service that makes it runs.
FirmwareInv ==
  /\ context \subseteq AllTables /\ running \subseteq DOMAIN NeedsOf
  /\ DOMAIN content = AllTables /\ DOMAIN summed = AllTables
  /\ \A t \in AllTables : t \in context <=> MadeBy[t] \in running
  /\ \A s \in running : NeedsOf[s] \subseteq running
  /\ \A t \in context : summed[t] = content[t]
  /\ \A t \in AllTables \ context : content[t] = Empty
  /\ "st" \in context => content["st"].tables = {"bs", "rt"}
  /\ answer = "success"

-----------------------------------------------------------------------------

\* The services and what they declare
LEMMA Declarations ==
  /\ DOMAIN NeedsOf = TableServices \cup ProtocolServices \cup Consoles
  /\ NeedsOf["BootServices"] = {} /\ NeedsOf["RuntimeService"] = {}
  /\ NeedsOf["SystemTable"] = {"BootServices", "RuntimeService"}
  /\ \A s \in DOMAIN NeedsOf \ {"BootServices", "RuntimeService", "SystemTable"} : NeedsOf[s] = OnTables
<1>1. DOMAIN NeedsOf = TableServices \cup ProtocolServices \cup Consoles
  BY DEF NeedsOf
<1>2. /\ "BootServices" \in DOMAIN NeedsOf /\ "RuntimeService" \in DOMAIN NeedsOf
      /\ "SystemTable" \in DOMAIN NeedsOf
  BY <1>1 DEF TableServices
<1>3. \A s \in DOMAIN NeedsOf :
        NeedsOf[s] = CASE s \in {"BootServices", "RuntimeService"} -> {}
                       [] s = "SystemTable" -> {"BootServices", "RuntimeService"}
                       [] OTHER -> OnTables
  BY DEF NeedsOf
<1>4. QED BY <1>1, <1>2, <1>3

\* Services that are not one of the four makers of tables
LEMMA Makers ==
  /\ \A t \in AllTables : MadeBy[t] \in TableServices
  /\ \A t, u \in AllTables : MadeBy[t] = MadeBy[u] => t = u
  /\ \A s \in Consoles \cup ProtocolServices \cup {"HobList", "MemoryTypeInformation"} :
       \A t \in AllTables : MadeBy[t] # s
  BY DEF AllTables, MadeBy, TableServices, Consoles, ProtocolServices, HiiServices

\* No table is anywhere at first.
LEMMA InitSound == FirmwareInit => FirmwareInv
<1> SUFFICES ASSUME FirmwareInit PROVE FirmwareInv
  OBVIOUS
<1>1. DOMAIN content = AllTables /\ DOMAIN summed = AllTables
  BY DEF FirmwareInit, AllTables
<1>2. QED BY <1>1 DEF FirmwareInit, FirmwareInv

\* A service has started, and made its table if it makes one.
LEMMA StartKeeps ==
  ASSUME FirmwareInv, NEW s \in DOMAIN NeedsOf, Declared(s), Answered(s),
         context' = context \cup {t \in AllTables : MadeBy[t] = s},
         DOMAIN content' = AllTables, DOMAIN summed' = AllTables,
         \A t \in context' : summed'[t] = content'[t],
         \A t \in AllTables \ context' : content'[t] = content[t],
         "st" \in context' => content'["st"].tables = {"bs", "rt"}
  PROVE  FirmwareInv'
<1>1. running' = running \cup {s} /\ answer' = "success" /\ NeedsOf[s] \subseteq running
  BY DEF Answered, Declared
<1>2. \A t \in AllTables : t \in context' <=> MadeBy[t] \in running'
  BY <1>1 DEF FirmwareInv
<1>3. \A r \in running' : NeedsOf[r] \subseteq running'
  BY <1>1 DEF FirmwareInv
<1>4. \A t \in AllTables \ context' : content'[t] = Empty
  BY DEF FirmwareInv
<1>5. QED BY <1>1, <1>2, <1>3, <1>4 DEF FirmwareInv

\* What a started service may rely on
LEMMA TablesFound ==
  ASSUME FirmwareInv, NEW s \in DOMAIN NeedsOf \ {"BootServices", "RuntimeService"}, Declared(s)
  PROVE  /\ "bs" \in context
         /\ s = "SystemTable" => "rt" \in context
         /\ s # "SystemTable" => "st" \in context
<1>1. s = "SystemTable" => {"BootServices", "RuntimeService"} \subseteq running
  BY Declarations DEF Declared
<1>2. s # "SystemTable" => {"BootServices", "SystemTable"} \subseteq running
  BY Declarations DEF Declared, OnTables
<1>3. QED BY <1>1, <1>2 DEF FirmwareInv, AllTables, MadeBy

\* The two tables without dependencies and the system table
LEMMA EnterKeeps ==
  ASSUME FirmwareInv, NEW t \in {"bs", "rt", "st"}, NEW held, Declared(MadeBy[t]),
         Enter(t, held), Answered(MadeBy[t]), t = "st" => held.tables = {"bs", "rt"}
  PROVE  FirmwareInv'
<1>1. t \in AllTables /\ MadeBy[t] \in DOMAIN NeedsOf
  BY Makers, Declarations DEF AllTables
<1>2. /\ context' = context \cup {t}
      /\ DOMAIN content' = AllTables /\ DOMAIN summed' = AllTables
      /\ content'[t] = held /\ summed'[t] = held
      /\ \A u \in AllTables \ {t} : content'[u] = content[u] /\ summed'[u] = summed[u]
  BY <1>1 DEF Enter, FirmwareInv
<1>3. {u \in AllTables : MadeBy[u] = MadeBy[t]} = {t}
  BY <1>1, Makers
<1>4. \A u \in context' : summed'[u] = content'[u]
  BY <1>2 DEF FirmwareInv
<1>5. "st" \in context' => content'["st"].tables = {"bs", "rt"}
  BY <1>2 DEF FirmwareInv, AllTables
<1>6. QED BY <1>1, <1>2, <1>3, <1>4, <1>5, StartKeeps

\* Services that at most put something into the system table
LEMMA SummedKeeps ==
  ASSUME FirmwareInv, NEW s \in DOMAIN NeedsOf, Declared(s), Answered(s), UNCHANGED context,
         \A t \in AllTables : MadeBy[t] # s,
         \/ UNCHANGED <<content, summed>>
         \/ "st" \in context /\ \E held : Summed("st", held) /\ held.tables = content["st"].tables
  PROVE  FirmwareInv'
<1>1. context' = context \cup {t \in AllTables : MadeBy[t] = s}
  OBVIOUS
<1>2. CASE UNCHANGED <<content, summed>>
  <2>1. \A t \in context' : summed'[t] = content'[t]
    BY <1>2 DEF FirmwareInv
  <2>2. QED BY <1>1, <1>2, <2>1, StartKeeps DEF FirmwareInv
<1>3. CASE "st" \in context /\ \E held : Summed("st", held) /\ held.tables = content["st"].tables
  <2>1. PICK held : Summed("st", held) /\ held.tables = content["st"].tables
    BY <1>3
  <2>2. /\ DOMAIN content' = AllTables /\ DOMAIN summed' = AllTables
        /\ content'["st"] = held /\ summed'["st"] = held
        /\ \A u \in AllTables \ {"st"} : content'[u] = content[u] /\ summed'[u] = summed[u]
    BY <2>1 DEF Summed, FirmwareInv, AllTables
  <2>3. \A t \in context' : summed'[t] = content'[t]
    BY <2>2 DEF FirmwareInv
  <2>4. "st" \in context' => content'["st"].tables = {"bs", "rt"}
    BY <2>1, <2>2 DEF FirmwareInv
  <2>5. QED BY <1>1, <2>2, <2>3, <2>4, StartKeeps
<1>4. QED BY <1>2, <1>3

\* Changing what is installed leaves the two tables the system table points to.
LEMMA InstalledKeepsTables ==
  ASSUME FirmwareInv, "st" \in context, NEW s, NEW c
  PROVE  /\ Configured(s).tables = content["st"].tables
         /\ [content["st"] EXCEPT !.consoles = @ \cup {c}].tables = content["st"].tables
  BY DEF Configured

\* Services that install a configuration table
LEMMA ConfiguredKeeps ==
  ASSUME FirmwareInv, NEW s \in {"HobList", "MemoryTypeInformation"}, StartConfigured(s)
  PROVE  FirmwareInv'
<1>1. s \in DOMAIN NeedsOf \ {"BootServices", "RuntimeService", "SystemTable"} /\ Declared(s)
  BY Declarations DEF TableServices, StartConfigured
<1>2. "bs" \in context /\ "st" \in context
  BY <1>1, TablesFound
<1>3. Summed("st", Configured(s)) /\ Answered(s) /\ UNCHANGED context
  BY <1>2 DEF StartConfigured
<1>4. Configured(s).tables = content["st"].tables
  BY <1>2, InstalledKeepsTables
<1>5. QED BY <1>1, <1>2, <1>3, <1>4, Makers, SummedKeeps

\* Services that install protocols only
LEMMA ProtocolKeeps ==
  ASSUME FirmwareInv, NEW s \in ProtocolServices, StartProtocol(s)
  PROVE  FirmwareInv'
<1>1. s \in DOMAIN NeedsOf \ {"BootServices", "RuntimeService"} /\ Declared(s)
  BY Declarations DEF ProtocolServices, HiiServices, StartProtocol
<1>2. Answered(s) /\ UNCHANGED <<context, content, summed>>
  BY <1>1, TablesFound DEF StartProtocol
<1>3. QED BY <1>1, <1>2, Makers, SummedKeeps

\* Services that put a console into the system table
LEMMA ConsoleKeeps ==
  ASSUME FirmwareInv, NEW c \in Consoles, StartConsole(c)
  PROVE  FirmwareInv'
<1>1. c \in DOMAIN NeedsOf \ {"BootServices", "RuntimeService", "SystemTable"} /\ Declared(c)
  BY Declarations DEF Consoles, StartConsole
<1>2. "bs" \in context /\ "st" \in context
  BY <1>1, TablesFound
<1>3. /\ Answered(c) /\ UNCHANGED context
      /\ \/ UNCHANGED <<content, summed>>
         \/ Summed("st", [content["st"] EXCEPT !.consoles = @ \cup {c}])
  BY <1>2 DEF StartConsole
<1>4. [content["st"] EXCEPT !.consoles = @ \cup {c}].tables = content["st"].tables
  BY <1>2, InstalledKeepsTables
<1>5. QED BY <1>1, <1>2, <1>3, <1>4, Makers, SummedKeeps

\* The service that makes the DXE services and installs their table
LEMMA DxeKeeps ==
  ASSUME FirmwareInv, StartDxeServices
  PROVE  FirmwareInv'
<1> DEFINE s == "DxeServices"
<1>1. s \in DOMAIN NeedsOf \ {"BootServices", "RuntimeService", "SystemTable"} /\ Declared(s)
  BY Declarations DEF TableServices, StartDxeServices
<1>2. "bs" \in context /\ "st" \in context /\ "ds" \notin context
  BY <1>1, TablesFound DEF FirmwareInv, AllTables, MadeBy, Declared
<1>3. /\ context' = context \cup {"ds"}
      /\ content' = [content EXCEPT !["st"] = Configured(s)]
      /\ summed' = [summed EXCEPT !["ds"] = Empty, !["st"] = Configured(s)]
      /\ Answered(s)
  BY <1>2 DEF StartDxeServices
<1>4. /\ DOMAIN content' = AllTables /\ DOMAIN summed' = AllTables
      /\ content'["st"] = Configured(s) /\ summed'["st"] = Configured(s)
      /\ content'["ds"] = content["ds"] /\ summed'["ds"] = Empty
      /\ \A t \in {"bs", "rt"} : content'[t] = content[t] /\ summed'[t] = summed[t]
  BY <1>3 DEF FirmwareInv, AllTables
<1>5. content["ds"] = Empty
  BY <1>2 DEF FirmwareInv, AllTables
<1>6. \A t \in context' : summed'[t] = content'[t]
  BY <1>3, <1>4, <1>5 DEF FirmwareInv, AllTables
<1>7. \A t \in AllTables \ context' : content'[t] = content[t]
  BY <1>2, <1>3, <1>4 DEF AllTables
<1>8. content'["st"].tables = {"bs", "rt"}
  BY <1>2, <1>4, InstalledKeepsTables DEF FirmwareInv
<1>9. context' = context \cup {t \in AllTables : MadeBy[t] = s}
  BY <1>3 DEF AllTables, MadeBy
<1>10. QED BY <1>1, <1>3, <1>4, <1>6, <1>7, <1>8, <1>9, StartKeeps

\* Every start function keeps the invariant.
LEMMA NextSound == FirmwareInv /\ [FirmwareNext]_firmwareVars => FirmwareInv'
<1> SUFFICES ASSUME FirmwareInv, [FirmwareNext]_firmwareVars PROVE FirmwareInv'
  OBVIOUS
<1>1. CASE StartBootServices
  <2>1. Declared("BootServices") /\ "bs" \notin context
    BY <1>1 DEF StartBootServices, FirmwareInv, AllTables, MadeBy, Declared
  <2>2. Enter("bs", Empty) /\ Answered("BootServices")
    BY <1>1, <2>1 DEF StartBootServices
  <2>3. MadeBy["bs"] = "BootServices"
    BY DEF MadeBy
  <2>4. QED BY <2>1, <2>2, <2>3, EnterKeeps
<1>2. CASE StartRuntimeService
  <2>1. Declared("RuntimeService") /\ "rt" \notin context
    BY <1>2 DEF StartRuntimeService, FirmwareInv, AllTables, MadeBy, Declared
  <2>2. Enter("rt", Empty) /\ Answered("RuntimeService")
    BY <1>2, <2>1 DEF StartRuntimeService
  <2>3. MadeBy["rt"] = "RuntimeService"
    BY DEF MadeBy
  <2>4. QED BY <2>1, <2>2, <2>3, EnterKeeps
<1>3. CASE StartSystemTable
  <2>1. Declared("SystemTable") /\ "st" \notin context
    BY <1>3 DEF StartSystemTable, FirmwareInv, AllTables, MadeBy, Declared
  <2>2. "SystemTable" \in DOMAIN NeedsOf
    BY Declarations DEF TableServices
  <2>3. "bs" \in context /\ "rt" \in context
    BY <2>1, <2>2, TablesFound
  <2>4. Enter("st", [Empty EXCEPT !.tables = {"bs", "rt"}]) /\ Answered("SystemTable")
    BY <1>3, <2>1, <2>3 DEF StartSystemTable
  <2>5. MadeBy["st"] = "SystemTable" /\ [Empty EXCEPT !.tables = {"bs", "rt"}].tables = {"bs", "rt"}
    BY DEF MadeBy, Empty
  <2>6. QED BY <2>1, <2>4, <2>5, EnterKeeps
<1>4. CASE StartDxeServices
  BY <1>4, DxeKeeps
<1>5. CASE StartHobList \/ StartMemoryTypes
  BY <1>5, ConfiguredKeeps DEF StartHobList, StartMemoryTypes
<1>6. CASE \/ StartHiiDatabase \/ StartHiiString \/ StartHiiFont \/ StartHiiImage
           \/ StartHiiConfigRouting \/ StartUnicodeCollation \/ StartDevicePathUtilities
           \/ StartPosixRoot
  BY <1>6, ProtocolKeeps
  DEF StartHiiDatabase, StartHiiString, StartHiiFont, StartHiiImage, StartHiiConfigRouting,
      StartUnicodeCollation, StartDevicePathUtilities, StartPosixRoot, ProtocolServices, HiiServices
<1>7. CASE \E c \in Consoles : StartConsole(c)
  BY <1>7, ConsoleKeeps
<1>8. CASE UNCHANGED firmwareVars
  BY <1>8 DEF firmwareVars, FirmwareInv
<1>9. QED
  BY <1>1, <1>2, <1>3, <1>4, <1>5, <1>6, <1>7, <1>8 DEF FirmwareNext

\* When no service is left to start, the makers of the four tables have run.
LEMMA InvSound == FirmwareInv => FirmwareSound
<1> SUFFICES ASSUME FirmwareInv PROVE FirmwareSound
  OBVIOUS
<1>1. ASSUME Finished PROVE Complete
  <2>1. "BootServices" \in running /\ "RuntimeService" \in running
    BY <1>1, Declarations DEF Finished, Declared, TableServices
  <2>2. "SystemTable" \in running
    BY <1>1, <2>1, Declarations DEF Finished, Declared, TableServices
  <2>3. "DxeServices" \in running
    BY <1>1, <2>1, <2>2, Declarations DEF Finished, Declared, TableServices, OnTables
  <2>4. QED BY <2>1, <2>2, <2>3 DEF FirmwareInv, AllTables, MadeBy, Complete
<1>2. "st" \in context => {"bs", "rt"} \subseteq context
  <2>1. "st" \in context => "SystemTable" \in running
    BY DEF FirmwareInv, AllTables, MadeBy
  <2>2. "SystemTable" \in running => {"BootServices", "RuntimeService"} \subseteq running
    BY Declarations DEF FirmwareInv
  <2>3. QED BY <2>1, <2>2 DEF FirmwareInv, AllTables, MadeBy
<1>3. QED BY <1>1, <1>2 DEF FirmwareInv, FirmwareSound

\* In every order the declared dependencies allow, the start functions find their
\* tables, the checksums are right and the context is complete (data/*.c, context.c:125).
THEOREM FirmwareAlwaysSound == FirmwareSpec => []FirmwareSound
<1>1. QED BY InitSound, NextSound, InvSound, PTL DEF FirmwareSpec

-----------------------------------------------------------------------------
(* Powers of two *)

\* The recursive definition gives numbers, each of which doubles the one before.
LEMMA Powers ==
  /\ Pow2[0] = 1
  /\ \A k \in Nat : Pow2[k] \in Nat /\ Pow2[k] >= 1 /\ Pow2[k + 1] = 2 * Pow2[k]
<1> DEFINE step == [x \in Nat |-> 2 * x]
           recursion(g) == [k \in Nat |-> IF k = 0 THEN 1 ELSE 2 * g[k - 1]]
           f == Orbit(step, 1)
           N == Nat
<1>1. 1 \in N /\ \A x \in N : step[x] \in N
  OBVIOUS
<1>2. f = [n \in Nat |-> f[n]] /\ f[0] = 1 /\ \A n \in Nat : f[n] \in N /\ f[n + 1] = step[f[n]]
  <2> HIDE DEF step, N
  <2> QED BY <1>1, OrbitIs
<1> HIDE DEF f
<1>3. \A k \in Nat : f[k] = IF k = 0 THEN 1 ELSE 2 * f[k - 1]
  <2> SUFFICES ASSUME NEW k \in Nat, k # 0 PROVE f[k] = 2 * f[k - 1]
    BY <1>2
  <2>1. k - 1 \in Nat /\ (k - 1) + 1 = k
    OBVIOUS
  <2>2. QED BY <1>2, <2>1
<1>4. f = recursion(f)
  <2>1. f = [k \in Nat |-> f[k]]
    BY <1>2
  <2>2. [k \in Nat |-> f[k]] = recursion(f)
    BY <1>3
  <2>3. QED BY <2>1, <2>2
<1>5. Pow2 = CHOOSE g : g = recursion(g)
  BY DEF Pow2
<1> HIDE DEF recursion
<1>6. Pow2 = recursion(Pow2)
  BY <1>4, <1>5
<1> USE DEF recursion
<1>7. \A k \in Nat : Pow2[k] = IF k = 0 THEN 1 ELSE 2 * Pow2[k - 1]
  BY <1>6
<1>8. \A k \in Nat : Pow2[k + 1] = 2 * Pow2[k]
  <2> SUFFICES ASSUME NEW k \in Nat PROVE Pow2[k + 1] = 2 * Pow2[k]
    OBVIOUS
  <2>1. k + 1 \in Nat /\ k + 1 # 0 /\ (k + 1) - 1 = k
    OBVIOUS
  <2>2. QED BY <1>7, <2>1
<1>9. Pow2[0] = 1
  BY <1>7
<1> DEFINE A == {k \in Nat : Pow2[k] \in Nat /\ Pow2[k] >= 1}
<1>10. 0 \in A
  BY <1>9
<1>11. ASSUME NEW k \in Nat, k \in A PROVE k + 1 \in A
  BY <1>8, <1>11
<1>12. A \subseteq Nat /\ \A k \in A : Pow2[k] \in Nat /\ Pow2[k] >= 1
  OBVIOUS
<1> HIDE DEF A
<1>13. Nat \subseteq A
  BY <1>10, <1>11, SetInduction
<1>14. QED BY <1>8, <1>9, <1>12, <1>13

\* Powers grow,
LEMMA PowersGrow ==
  ASSUME NEW k \in Nat, NEW m \in Nat, k <= m
  PROVE  Pow2[k] <= Pow2[m] /\ (k < m => 2 * Pow2[k] <= Pow2[m])
<1> DEFINE A == {d \in Nat : Pow2[k] <= Pow2[k + d] /\ (d > 0 => 2 * Pow2[k] <= Pow2[k + d])}
<1>1. 0 \in A
  BY Powers
<1>2. ASSUME NEW d \in Nat, d \in A PROVE d + 1 \in A
  <2>1. Pow2[k + (d + 1)] = 2 * Pow2[k + d] /\ Pow2[k + d] \in Nat /\ Pow2[k] \in Nat
    <3>1. k + d \in Nat /\ k + (d + 1) = (k + d) + 1
      OBVIOUS
    <3>2. QED BY <3>1, Powers
  <2>2. QED BY <1>2, <2>1
<1>3. A \subseteq Nat
  OBVIOUS
<1>4. m - k \in Nat /\ k + (m - k) = m
  OBVIOUS
<1>5. m - k \in A => Pow2[k] <= Pow2[m] /\ (k < m => 2 * Pow2[k] <= Pow2[m])
  BY <1>4
<1> HIDE DEF A
<1>6. Nat \subseteq A
  BY <1>1, <1>2, SetInduction
<1>7. QED BY <1>4, <1>5, <1>6

\* and that of a sum is a product.
LEMMA PowersMultiply ==
  ASSUME NEW k \in Nat, NEW m \in Nat
  PROVE  Pow2[k + m] = Pow2[k] * Pow2[m]
<1> DEFINE A == {d \in Nat : Pow2[k + d] = Pow2[k] * Pow2[d]}
<1>1. 0 \in A
  BY Powers
<1>2. ASSUME NEW d \in Nat, d \in A PROVE d + 1 \in A
  <2>1. Pow2[k + (d + 1)] = 2 * Pow2[k + d] /\ Pow2[d + 1] = 2 * Pow2[d]
        /\ Pow2[k] \in Nat /\ Pow2[d] \in Nat
    <3>1. k + d \in Nat /\ k + (d + 1) = (k + d) + 1
      OBVIOUS
    <3>2. QED BY <3>1, Powers
  <2>2. Pow2[k + d] = Pow2[k] * Pow2[d]
    BY <1>2
  <2>3. \A x, y \in Nat : 2 * (x * y) = x * (2 * y)
    OBVIOUS
  <2>4. QED BY <2>1, <2>2, <2>3
<1>3. A \subseteq Nat /\ (m \in A => Pow2[k + m] = Pow2[k] * Pow2[m])
  OBVIOUS
<1> HIDE DEF A
<1>4. Nat \subseteq A
  BY <1>1, <1>2, SetInduction
<1>5. QED BY <1>3, <1>4

-----------------------------------------------------------------------------
(* Sizes and their classes *)

\* The highest bit of a size
LEMMA FlsIs ==
  ASSUME NEW n \in Nat, 1 <= n, n < Pow2[FlLog2 + 1]
  PROVE  Fls(n) \in 0..FlLog2 /\ Pow2[Fls(n)] <= n /\ n < Pow2[Fls(n) + 1]
<1> DEFINE A == {m \in Nat : n < Pow2[m + 1] => \E k \in 0..m : Pow2[k] <= n /\ n < Pow2[k + 1]}
<1>1. 0 \in A
  BY Powers
<1>2. ASSUME NEW m \in Nat, m \in A PROVE m + 1 \in A
  <2>1. CASE n < Pow2[m + 1]
    <3>1. PICK k \in 0..m : Pow2[k] <= n /\ n < Pow2[k + 1]
      BY <1>2, <2>1
    <3>2. k \in 0..(m + 1)
      OBVIOUS
    <3>3. QED BY <3>1, <3>2
  <2>2. CASE ~(n < Pow2[m + 1])
    <3>1. Pow2[m + 1] \in Nat /\ m + 1 \in 0..(m + 1)
      BY Powers
    <3>2. Pow2[m + 1] <= n
      BY <2>2, <3>1
    <3>3. QED BY <3>1, <3>2
  <2>3. QED BY <2>1, <2>2
<1>3. A \subseteq Nat /\ FlLog2 \in Nat
  BY TlsfAssumption
<1>4. FlLog2 \in A => \E k \in 0..FlLog2 : Pow2[k] <= n /\ n < Pow2[k + 1]
  OBVIOUS
<1> HIDE DEF A
<1>5. Nat \subseteq A
  BY <1>1, <1>2, SetInduction
<1>6. \E k \in 0..FlLog2 : Pow2[k] <= n /\ n < Pow2[k + 1]
  BY <1>3, <1>4, <1>5
<1>7. QED BY <1>6 DEF Fls

\* The parameters of the allocator
LEMMA Parameters ==
  /\ SlLog2 \in Nat /\ FlLog2 \in Nat /\ 1 <= SlLog2 /\ SlLog2 < FlLog2
  /\ SmallBlock \in Nat /\ SmallBlock >= 2 /\ Pow2[FlLog2] \in Nat /\ Pow2[FlLog2 + 1] = 2 * Pow2[FlLog2]
  /\ FlCount \in Nat /\ FlCount = FlLog2 - SlLog2 + 1 /\ FlCount >= 2
  /\ SmallBlock <= Pow2[FlLog2]
<1>1. SlLog2 \in Nat /\ FlLog2 \in Nat /\ 1 <= SlLog2 /\ SlLog2 < FlLog2
  BY TlsfAssumption
<1>2. Pow2[1] = 2
  <2>1. Pow2[0 + 1] = 2 * Pow2[0]
    BY Powers
  <2>2. QED BY <2>1, Powers
<1>3. SmallBlock >= 2 /\ SmallBlock \in Nat /\ SmallBlock <= Pow2[FlLog2]
  BY <1>1, <1>2, Powers, PowersGrow DEF SmallBlock
<1>4. QED BY <1>1, <1>3, Powers DEF FlCount

\* A size and the part of it that its second-level class tells
LEMMA Granule ==
  ASSUME NEW n \in Nat, SmallBlock <= n, n < Pow2[FlLog2 + 1]
  PROVE  /\ Fls(n) \in SlLog2..FlLog2 /\ Fls(n) - SlLog2 \in Nat
         /\ Pow2[Fls(n) - SlLog2] \in Nat /\ Pow2[Fls(n) - SlLog2] >= 1
         /\ Pow2[Fls(n)] = SmallBlock * Pow2[Fls(n) - SlLog2]
         /\ Pow2[Fls(n) - SlLog2] <= n \div SmallBlock
         /\ n \div Pow2[Fls(n) - SlLog2] \in SmallBlock..(2 * SmallBlock - 1)
<1> DEFINE f == Fls(n)
           g == Pow2[f - SlLog2]
<1>1. f \in 0..FlLog2 /\ Pow2[f] <= n /\ n < Pow2[f + 1]
  BY FlsIs, Parameters
<1>2. f >= SlLog2
  <2>1. SUFFICES ASSUME f < SlLog2 PROVE FALSE
    BY <1>1, Parameters
  <2>2. f + 1 \in Nat /\ f + 1 <= SlLog2
    BY <1>1, <2>1, Parameters
  <2>3. Pow2[f + 1] <= SmallBlock
    BY <2>2, Parameters, PowersGrow DEF SmallBlock
  <2>4. f + 1 \in Nat /\ Pow2[f + 1] \in Nat
    BY <2>2, Powers
  <2>5. QED BY <1>1, <2>3, <2>4, Parameters
<1>3. f - SlLog2 \in Nat /\ f = SlLog2 + (f - SlLog2)
  BY <1>1, <1>2, Parameters
<1>4. g \in Nat /\ g >= 1 /\ Pow2[f] = SmallBlock * g /\ Pow2[f + 1] = 2 * (SmallBlock * g)
  <2>1. Pow2[f] = Pow2[SlLog2] * Pow2[f - SlLog2]
    <3>1. Pow2[SlLog2 + (f - SlLog2)] = Pow2[SlLog2] * Pow2[f - SlLog2]
      BY <1>3, PowersMultiply, Parameters
    <3>2. QED BY <1>3, <3>1
  <2>2. Pow2[f + 1] = 2 * Pow2[f] /\ g \in Nat /\ g >= 1
    BY <1>1, <1>3, Powers
  <2>3. QED BY <2>1, <2>2 DEF SmallBlock
<1> HIDE DEF f, g
<1>5. SmallBlock * g <= n /\ n < 2 * (SmallBlock * g)
  BY <1>1, <1>4
<1>6. ASSUME NEW s \in Nat, s >= 2, NEW d \in Nat, d >= 1, s * d <= n, n < 2 * (s * d)
      PROVE  d <= n \div s /\ n \div d \in s..(2 * s - 1)
  <2>1. /\ n \div s \in Nat /\ s * (n \div s) <= n /\ n < s * (n \div s) + s
        /\ n \div d \in Nat /\ d * (n \div d) <= n /\ n < d * (n \div d) + d
    BY <1>6
  <2>2. d <= n \div s
    <3>1. s * d < s * (n \div s + 1)
      BY <1>6, <2>1
    <3>2. d < n \div s + 1
      BY <1>6, <2>1, <3>1
    <3>3. QED BY <1>6, <2>1, <3>2
  <2>3. s <= n \div d
    <3>1. d * s < d * (n \div d + 1)
      BY <1>6, <2>1
    <3>2. s < n \div d + 1
      BY <1>6, <2>1, <3>1
    <3>3. QED BY <1>6, <2>1, <3>2
  <2>4. n \div d < 2 * s
    <3>1. d * (n \div d) < d * (2 * s)
      BY <1>6, <2>1
    <3>2. QED BY <1>6, <2>1, <3>1
  <2>5. QED BY <1>6, <2>1, <2>2, <2>3, <2>4
<1>7. g <= n \div SmallBlock /\ n \div g \in SmallBlock..(2 * SmallBlock - 1)
  BY <1>4, <1>5, <1>6, Parameters
<1>8. QED BY <1>1, <1>2, <1>3, <1>4, <1>7, Parameters DEF f, g

\* One class is below another.
Below(c, d) == c[1] < d[1] \/ (c[1] = d[1] /\ c[2] < d[2])

\* The class of a size
LEMMA ClassIs ==
  ASSUME NEW n \in Nat, 1 <= n, n < Pow2[FlLog2 + 1]
  PROVE  /\ n < SmallBlock => MappingInsert(n)[1] = 0 /\ MappingInsert(n)[2] = n
         /\ ~(n < SmallBlock) =>
              /\ MappingInsert(n)[1] = Fls(n) - SlLog2 + 1
              /\ MappingInsert(n)[2] = n \div Pow2[Fls(n) - SlLog2] - SmallBlock
         /\ MappingInsert(n)[1] \in Nat /\ MappingInsert(n)[2] \in 0..(SmallBlock - 1)
         /\ MappingInsert(n) = <<MappingInsert(n)[1], MappingInsert(n)[2]>>
         /\ n < Pow2[FlLog2] => MappingInsert(n) \in Classes
<1>1. CASE n < SmallBlock
  <2>1. MappingInsert(n) = <<0, n>>
    BY <1>1 DEF MappingInsert
  <2>2. 0 \in 0..(FlCount - 1) /\ n \in 0..(SmallBlock - 1)
    BY <1>1, Parameters
  <2>3. QED BY <1>1, <2>1, <2>2 DEF Classes
<1>2. CASE ~(n < SmallBlock)
  <2> DEFINE i == Fls(n) - SlLog2 + 1
             j == n \div Pow2[Fls(n) - SlLog2] - SmallBlock
  <2>1. MappingInsert(n) = <<i, j>>
    BY <1>2 DEF MappingInsert
  <2>2. Fls(n) \in SlLog2..FlLog2 /\ n \div Pow2[Fls(n) - SlLog2] \in SmallBlock..(2 * SmallBlock - 1)
    BY <1>2, Granule, Parameters
  <2>3. i \in Nat /\ j \in 0..(SmallBlock - 1)
    BY <2>2, Parameters
  <2>4. ASSUME n < Pow2[FlLog2] PROVE i \in 0..(FlCount - 1)
    <3>1. Fls(n) # FlLog2
      <4>1. Fls(n) = FlLog2 => Pow2[FlLog2] <= n
        BY FlsIs
      <4>2. QED BY <2>4, <4>1, Parameters
    <3>2. QED BY <2>2, <3>1, Parameters
  <2> HIDE DEF i, j
  <2>5. n < Pow2[FlLog2] => <<i, j>> \in Classes
    BY <2>3, <2>4 DEF Classes
  <2>6. QED BY <1>2, <2>1, <2>3, <2>5 DEF i, j
<1>3. QED BY <1>1, <1>2

\* Larger sizes have no lower class.
LEMMA ClassesGrow ==
  ASSUME NEW m \in Nat, NEW n \in Nat, 1 <= m, m <= n, n < Pow2[FlLog2 + 1]
  PROVE  ~Below(MappingInsert(n), MappingInsert(m))
<1> DEFINE c == MappingInsert(m)
           d == MappingInsert(n)
<1>0. Pow2[FlLog2 + 1] \in Nat /\ m < Pow2[FlLog2 + 1] /\ 1 <= n
  BY Parameters
<1>1. CASE m < SmallBlock /\ n < SmallBlock
  BY <1>0, <1>1, ClassIs DEF Below
<1>2. CASE m < SmallBlock /\ ~(n < SmallBlock)
  <2>1. c[1] = 0 /\ d[1] = Fls(n) - SlLog2 + 1 /\ Fls(n) \in SlLog2..FlLog2
    BY <1>0, <1>2, ClassIs, Granule, Parameters
  <2>2. QED BY <2>1, Parameters DEF Below
<1>3. CASE ~(m < SmallBlock)
  <2>1. ~(n < SmallBlock) /\ SmallBlock <= m /\ SmallBlock <= n
    BY <1>3, Parameters
  <2> DEFINE k == Fls(m)
             l == Fls(n)
  <2>2. /\ k \in SlLog2..FlLog2 /\ Pow2[k] <= m /\ m < Pow2[k + 1]
        /\ l \in SlLog2..FlLog2 /\ Pow2[l] <= n /\ n < Pow2[l + 1]
    BY <1>0, <2>1, FlsIs, Granule
  <2>3. k <= l
    <3>1. SUFFICES ASSUME l < k PROVE FALSE
      BY <2>2, Parameters
    <3>2. l + 1 \in Nat /\ k \in Nat /\ l + 1 <= k
      BY <2>2, <3>1, Parameters
    <3>3. Pow2[l + 1] <= Pow2[k] /\ Pow2[l + 1] \in Nat /\ Pow2[k] \in Nat
      BY <3>2, PowersGrow, Powers
    <3>4. QED BY <2>2, <3>3
  <2>4. c[1] = k - SlLog2 + 1 /\ d[1] = l - SlLog2 + 1
    <3>1. c[1] = k - SlLog2 + 1
      BY <1>0, <1>3, ClassIs
    <3>2. d[1] = l - SlLog2 + 1
      BY <1>0, <2>1, ClassIs
    <3>3. QED BY <3>1, <3>2
  <2>5. CASE k < l
    BY <2>2, <2>4, <2>5, Parameters DEF Below
  <2>6. CASE k = l
    <3> DEFINE g == Pow2[l - SlLog2]
    <3>1. g \in Nat /\ g >= 1
      BY <1>0, <2>1, Granule
    <3>2. c[2] = m \div g - SmallBlock /\ d[2] = n \div g - SmallBlock
      <4>1. c[2] = m \div Pow2[k - SlLog2] - SmallBlock
        BY <1>0, <1>3, ClassIs
      <4>2. d[2] = n \div Pow2[l - SlLog2] - SmallBlock
        BY <1>0, <2>1, ClassIs
      <4>3. QED BY <2>6, <4>1, <4>2
    <3> HIDE DEF g
    <3>3. m \div g <= n \div g /\ m \div g \in Nat /\ n \div g \in Nat
      <4>1. /\ m \div g \in Nat /\ g * (m \div g) <= m
            /\ n \div g \in Nat /\ n < g * (n \div g) + g
        BY <3>1
      <4>2. g * (m \div g) < g * (n \div g + 1)
        BY <3>1, <4>1
      <4>3. m \div g < n \div g + 1
        BY <3>1, <4>1, <4>2
      <4>4. QED BY <4>1, <4>3
    <3>4. QED BY <2>2, <2>4, <2>6, <3>2, <3>3, Parameters DEF Below
  <2>7. QED BY <2>2, <2>3, <2>5, <2>6
<1>4. QED BY <1>1, <1>2, <1>3

\* Larger sizes have no lower highest bit.
LEMMA FlsGrow ==
  ASSUME NEW m \in Nat, NEW n \in Nat, 1 <= m, m <= n, n < Pow2[FlLog2 + 1]
  PROVE  Fls(m) <= Fls(n)
<1> DEFINE k == Fls(m)
           l == Fls(n)
<1>1. m < Pow2[FlLog2 + 1] /\ 1 <= n
  BY Parameters
<1>2. /\ k \in 0..FlLog2 /\ Pow2[k] <= m /\ m < Pow2[k + 1]
      /\ l \in 0..FlLog2 /\ Pow2[l] <= n /\ n < Pow2[l + 1]
  BY <1>1, FlsIs
<1> HIDE DEF k, l
<1>3. SUFFICES ASSUME l < k PROVE k <= l
  BY <1>2, Parameters DEF k, l
<1>4. l + 1 \in Nat /\ k \in Nat /\ l + 1 <= k
  BY <1>2, <1>3, Parameters
<1>5. Pow2[l + 1] <= Pow2[k] /\ Pow2[l + 1] \in Nat /\ Pow2[k] \in Nat
  BY <1>4, PowersGrow, Powers
<1>6. QED BY <1>2, <1>5

\* What is searched for: a class above those of all smaller blocks,
LEMMA SearchLow ==
  ASSUME NEW size \in Nat, 1 <= size, size < Pow2[FlLog2], NEW s \in Nat, 1 <= s, s < size
  PROVE  Below(MappingInsert(s), MappingSearch(size))
<1>0. Pow2[FlLog2 + 1] \in Nat /\ size < Pow2[FlLog2 + 1] /\ s < Pow2[FlLog2 + 1]
  BY Parameters
<1>1. CASE size < SmallBlock
  <2>1. MappingSearch(size) = MappingInsert(size) /\ s < SmallBlock
    BY <1>1, Parameters DEF MappingSearch
  <2>2. MappingInsert(s)[1] = 0 /\ MappingInsert(s)[2] = s
    BY <1>0, <2>1, ClassIs
  <2>3. MappingInsert(size)[1] = 0 /\ MappingInsert(size)[2] = size
    BY <1>0, <1>1, ClassIs
  <2>4. QED BY <2>1, <2>2, <2>3 DEF Below
<1>2. CASE ~(size < SmallBlock)
  <2> DEFINE f == Fls(size)
             g == Pow2[f - SlLog2]
             n == size + g - 1
  <2>1. SmallBlock <= size
    BY <1>2, Parameters
  <2>2. /\ f \in SlLog2..FlLog2 /\ g \in Nat /\ g >= 1 /\ Pow2[f] = SmallBlock * g
        /\ g <= size \div SmallBlock
    BY <1>0, <2>1, Granule
  <2>3. MappingSearch(size) = MappingInsert(n)
    BY <1>2 DEF MappingSearch
  <2>4. size \div SmallBlock <= size
    BY Parameters
  <2>5. n \in Nat /\ size <= n /\ n < Pow2[FlLog2 + 1] /\ 1 <= n /\ SmallBlock <= n
    BY <1>0, <2>1, <2>2, <2>4, Parameters
  <2> DEFINE l == Fls(n)
             k == Fls(s)
  <2>6. f <= l
    BY <2>5, FlsGrow
  <2>7. MappingInsert(n)[1] = l - SlLog2 + 1 /\ MappingInsert(n)[2] = n \div Pow2[l - SlLog2] - SmallBlock
        /\ l \in SlLog2..FlLog2
    BY <2>5, ClassIs, Granule, Parameters
  <2>8. CASE s < SmallBlock
    <3>1. MappingInsert(s)[1] = 0
      BY <1>0, <2>8, ClassIs
    <3>2. QED BY <2>2, <2>3, <2>6, <2>7, <3>1, Parameters DEF Below
  <2>9. CASE ~(s < SmallBlock)
    <3>1. MappingInsert(s)[1] = k - SlLog2 + 1 /\ MappingInsert(s)[2] = s \div Pow2[k - SlLog2] - SmallBlock
          /\ k \in SlLog2..FlLog2
      BY <1>0, <2>9, ClassIs, Granule, Parameters
    <3>2. k <= f
      BY <1>0, FlsGrow
    <3>3. CASE k < l
      BY <2>3, <2>7, <3>1, <3>3, Parameters DEF Below
    <3>4. CASE k = l
      <4>1. l = f
        BY <2>2, <2>6, <2>7, <3>1, <3>2, <3>4, Parameters
      <4>2. MappingInsert(s)[2] = s \div g - SmallBlock /\ MappingInsert(n)[2] = n \div g - SmallBlock
        BY <2>7, <3>1, <3>4, <4>1
      <4> HIDE DEF g, f, l, k
      <4>3. s \div g < n \div g /\ s \div g \in Nat /\ n \div g \in Nat
        <5>1. s <= n - g /\ n \in Nat
          BY <2>2, <2>5
        <5> HIDE DEF n
        <5>2. /\ s \div g \in Nat /\ g * (s \div g) <= s
              /\ n \div g \in Nat /\ n < g * (n \div g) + g
          BY <2>2, <5>1
        <5>3. g * (s \div g) < g * (n \div g)
          BY <2>2, <5>1, <5>2
        <5>4. s \div g < n \div g
          BY <2>2, <5>2, <5>3
        <5>5. QED BY <5>2, <5>4
      <4>4. MappingInsert(s)[1] = MappingInsert(n)[1]
        BY <2>7, <3>1, <3>4 DEF f, l, k
      <4>5. MappingInsert(s)[2] < MappingInsert(n)[2]
        BY <4>2, <4>3, Parameters
      <4>6. QED BY <2>3, <4>4, <4>5 DEF Below
    <3>5. k < l \/ k = l
      <4> HIDE DEF k, l, f
      <4> QED BY <2>2, <2>6, <2>7, <3>1, <3>2, Parameters
    <3>6. QED BY <3>3, <3>4, <3>5
  <2>10. QED BY <2>8, <2>9
<1>3. QED BY <1>1, <1>2

\* and not above those of blocks larger by one part in SL_INDEX_COUNT.
LEMMA SearchHigh ==
  ASSUME NEW size \in Nat, 1 <= size, size < Pow2[FlLog2],
         NEW s \in Nat, s >= size + size \div SmallBlock, s < Pow2[FlLog2 + 1]
  PROVE  ~Below(MappingInsert(s), MappingSearch(size))
<1>0. Pow2[FlLog2 + 1] \in Nat /\ size < Pow2[FlLog2 + 1] /\ size \div SmallBlock \in Nat
  BY Parameters
<1>1. CASE size < SmallBlock
  <2>1. MappingSearch(size) = MappingInsert(size) /\ size <= s
    BY <1>0, <1>1, Parameters DEF MappingSearch
  <2>2. QED BY <2>1, ClassesGrow
<1>2. CASE ~(size < SmallBlock)
  <2> DEFINE g == Pow2[Fls(size) - SlLog2]
             n == size + g - 1
  <2>1. SmallBlock <= size
    BY <1>2, Parameters
  <2>2. g \in Nat /\ g >= 1 /\ g <= size \div SmallBlock
    BY <1>0, <2>1, Granule
  <2>3. MappingSearch(size) = MappingInsert(n)
    BY <1>2 DEF MappingSearch
  <2> HIDE DEF g
  <2>4. n \in Nat /\ 1 <= n /\ n <= s
    BY <1>0, <2>2
  <2>5. QED BY <2>3, <2>4, ClassesGrow
<1>3. QED BY <1>1, <1>2

\* The parts of what is searched for
LEMMA SearchIs ==
  ASSUME NEW size \in Nat, 1 <= size, size < Pow2[FlLog2]
  PROVE  MappingSearch(size)[1] \in Nat /\ MappingSearch(size)[2] \in 0..(SmallBlock - 1)
<1>0. Pow2[FlLog2 + 1] \in Nat /\ size < Pow2[FlLog2 + 1]
  BY Parameters
<1>1. CASE size < SmallBlock
  BY <1>0, <1>1, ClassIs DEF MappingSearch
<1>2. CASE ~(size < SmallBlock)
  <2> DEFINE g == Pow2[Fls(size) - SlLog2]
             n == size + g - 1
  <2>1. SmallBlock <= size
    BY <1>2, Parameters
  <2>2. g \in Nat /\ g >= 1 /\ g <= size \div SmallBlock
    BY <1>0, <2>1, Granule
  <2>3. MappingSearch(size) = MappingInsert(n)
    BY <1>2 DEF MappingSearch
  <2>4. size \div SmallBlock <= size
    BY Parameters
  <2> HIDE DEF g
  <2>5. n \in Nat /\ 1 <= n /\ n < Pow2[FlLog2 + 1]
    BY <1>0, <2>2, <2>4, Parameters
  <2>6. QED BY <2>3, <2>5, ClassIs
<1>3. QED BY <1>1, <1>2

\* search_suitable_block finds a list that has a block, of the class or above it,
\* if there is one.
LEMMA SearchSuitableIs ==
  ASSUME NEW h, h.sl \subseteq Classes, h.fl = {c[1] : c \in h.sl},
         NEW class, class[1] \in Nat, class[2] \in Nat
  PROVE  \/ SearchSuitable(h, class) = NONE /\ \A d \in h.sl : Below(d, class)
         \/ SearchSuitable(h, class) \in h.sl /\ ~Below(SearchSuitable(h, class), class)
<1> DEFINE here == {c \in h.sl : c[1] = class[1] /\ c[2] >= class[2]}
           higher == {i \in h.fl : i > class[1]}
           in == IF here # {} THEN here ELSE {c \in h.sl : c[1] = Min(higher)}
           found == CHOOSE c \in in : \A d \in in : c[2] <= d[2]
<1>1. \A c \in h.sl : c[1] \in Nat /\ c[2] \in Nat
  <2>1. \A c \in Classes : c[1] \in 0..(FlCount - 1) /\ c[2] \in 0..(SmallBlock - 1)
    BY DEF Classes
  <2>2. QED BY <2>1, Parameters
<1>2. CASE here = {} /\ higher = {}
  <2>1. SearchSuitable(h, class) = NONE
    BY <1>2 DEF SearchSuitable
  <2>2. ASSUME NEW d \in h.sl PROVE Below(d, class)
    <3>1. d[1] \in h.fl
      OBVIOUS
    <3>2. ~(d[1] > class[1])
      BY <1>2, <3>1
    <3>3. d[1] = class[1] => ~(d[2] >= class[2])
      BY <1>2
    <3>4. QED BY <1>1, <3>2, <3>3 DEF Below
  <2>3. QED BY <2>1, <2>2
<1>3. CASE ~(here = {} /\ higher = {})
  <2>1. SearchSuitable(h, class) = found
    BY <1>3 DEF SearchSuitable
  <2>2. in # {} /\ in \subseteq h.sl /\ \A c \in in : ~Below(c, class)
    <3>1. CASE here # {}
      BY <1>1, <3>1 DEF Below
    <3>2. CASE here = {}
      <4>1. higher # {} /\ higher \subseteq Nat
        BY <1>1, <1>3, <3>2
      <4>2. Min(higher) \in higher
        BY <4>1, MinOf
      <4>3. QED BY <1>1, <3>2, <4>2 DEF Below
    <3>3. QED BY <3>1, <3>2
  <2>3. \E c \in in : \A d \in in : c[2] <= d[2]
    <3> HIDE DEF in
    <3> DEFINE S == {c[2] : c \in in}
    <3>1. S # {} /\ S \subseteq Nat
      BY <1>1, <2>2
    <3>2. Min(S) \in S /\ \A y \in S : Min(S) <= y
      BY <3>1, MinOf
    <3>3. QED BY <3>2
  <2>4. found \in in
    BY <2>3
  <2>5. QED BY <2>1, <2>2, <2>4
<1>4. QED BY <1>2, <1>3

\* What block_locate_free finds
LEMMA ClassForIs ==
  ASSUME NEW h, h.sl \subseteq Classes, h.fl = {c[1] : c \in h.sl},
         NEW size \in Nat, 1 <= size, size < Pow2[FlLog2]
  PROVE  \/ ClassFor(h, size) = NONE /\ \A d \in h.sl : Below(d, MappingSearch(size))
         \/ /\ ClassFor(h, size) # NONE /\ ClassFor(h, size) \in h.sl
            /\ ~Below(ClassFor(h, size), MappingSearch(size))
<1>1. MappingSearch(size)[1] \in Nat /\ MappingSearch(size)[2] \in Nat
  BY SearchIs, Parameters
<1>2. CASE MappingSearch(size)[1] >= FlCount
  <2>1. ClassFor(h, size) = NONE
    BY <1>2 DEF ClassFor
  <2>2. \A d \in Classes : d[1] \in 0..(FlCount - 1)
    BY DEF Classes
  <2>3. QED BY <1>1, <1>2, <2>1, <2>2, Parameters DEF Below
<1>3. CASE ~(MappingSearch(size)[1] >= FlCount)
  <2>1. ClassFor(h, size) = SearchSuitable(h, MappingSearch(size))
    BY <1>3 DEF ClassFor
  <2>2. NONE \notin h.sl
    BY TlsfAssumption
  <2>3. QED BY <1>1, <2>1, <2>2, SearchSuitableIs
<1>4. QED BY <1>2, <1>3

-----------------------------------------------------------------------------
(* Heaps *)

\* A heap with words for a pool
Shaped(h) ==
  /\ h = [word |-> h.word, lists |-> h.lists, fl |-> h.fl, sl |-> h.sl, junk |-> h.junk]
  /\ h.word = [w \in 0..PoolWords |-> h.word[w]]
  /\ h.junk \in BOOLEAN

\* A block or the sentinel has a size and two flags.
Header(h, b) ==
  /\ h.word[b + 1] = <<"size", SizeOf(h, b), IsFree(h, b), IsPrevFree(h, b)>>
  /\ SizeOf(h, b) \in Nat /\ IsFree(h, b) \in BOOLEAN /\ IsPrevFree(h, b) \in BOOLEAN

\* The blocks B lie one behind the other up to the sentinel.
Tiled(h, B) ==
  /\ B \subseteq 0..(Sentinel - 1) /\ 0 \in B
  /\ \A b \in B \cup {Sentinel} : Header(h, b)
  /\ SizeOf(h, Sentinel) = 0 /\ ~IsFree(h, Sentinel)
  /\ \A b \in B : SizeOf(h, b) >= 3 /\ NextOf(h, b) \in B \cup {Sentinel}
  /\ \A b \in B, c \in B \cup {Sentinel} : b < c => NextOf(h, b) <= c

\* The blocks F are free, and those behind the blocks P are told that these are.
Flagged(h, B, F, P) ==
  /\ F \subseteq B /\ P \subseteq B /\ ~IsPrevFree(h, 0)
  /\ \A b \in B : IsFree(h, b) <=> b \in F
  /\ \A b \in B : IsPrevFree(h, NextOf(h, b)) <=> b \in P
  /\ \A b \in P : h.word[NextOf(h, b)] = <<"prev", b>>

\* A heap with another word
Put(h, i, v) == [h EXCEPT !.word[i] = v]

\* One word is changed.
LEMMA PutIs ==
  ASSUME NEW h, Shaped(h), NEW i \in 0..PoolWords, NEW v
  PROVE  /\ Shaped(Put(h, i, v)) /\ Put(h, i, v).word[i] = v
         /\ \A w \in 0..PoolWords : w # i => Put(h, i, v).word[w] = h.word[w]
         /\ Put(h, i, v).lists = h.lists /\ Put(h, i, v).fl = h.fl /\ Put(h, i, v).sl = h.sl
         /\ Put(h, i, v).junk = h.junk
<1> DEFINE word == h.word
           lists == h.lists
           fl == h.fl
           sl == h.sl
           junk == h.junk
           put == [w \in 0..PoolWords |-> IF w = i THEN v ELSE word[w]]
<1>1. h = [word |-> word, lists |-> lists, fl |-> fl, sl |-> sl, junk |-> junk]
  BY DEF Shaped
<1>2. word = [w \in 0..PoolWords |-> word[w]] /\ junk \in BOOLEAN
  BY DEF Shaped
<1> HIDE DEF word, lists, fl, sl, junk
<1>3. [word EXCEPT ![i] = v] = put
  BY <1>2
<1> HIDE DEF put
<1>4. Put(h, i, v) = [word |-> put, lists |-> lists, fl |-> fl, sl |-> sl, junk |-> junk]
  BY <1>1, <1>3 DEF Put
<1>5. put = [w \in 0..PoolWords |-> put[w]]
  BY DEF put
<1>6. Shaped(Put(h, i, v))
  BY <1>2, <1>4, <1>5 DEF Shaped
<1>7. put[i] = v /\ \A w \in 0..PoolWords : w # i => put[w] = word[w]
  BY DEF put
<1>8. QED BY <1>4, <1>6, <1>7 DEF word, lists, fl, sl, junk

\* block_set_size changes the size.
LEMMA SizePut ==
  ASSUME NEW h, Shaped(h), NEW b, b + 1 \in 0..PoolWords, Header(h, b), NEW v
  PROVE  SetSize(h, b, v) = Put(h, b + 1, <<"size", v, IsFree(h, b), IsPrevFree(h, b)>>)
<1> DEFINE x == SizeOf(h, b)
           y == IsFree(h, b)
           z == IsPrevFree(h, b)
<1>1. h.word[b + 1] = <<"size", x, y, z>>
  BY DEF Header
<1> HIDE DEF x, y, z
<1>2. [h.word[b + 1] EXCEPT ![2] = v] = <<"size", v, y, z>>
  BY <1>1
<1>3. SetSize(h, b, v) = [h EXCEPT !.word[b + 1] = [h.word[b + 1] EXCEPT ![2] = v]]
  BY DEF SetSize, Shaped
<1>4. QED BY <1>2, <1>3 DEF Put, y, z

\* block_set_free and block_set_used change the flag of the block.
LEMMA FreePut ==
  ASSUME NEW h, Shaped(h), NEW b, b + 1 \in 0..PoolWords, Header(h, b), NEW v
  PROVE  SetFree(h, b, v) = Put(h, b + 1, <<"size", SizeOf(h, b), v, IsPrevFree(h, b)>>)
<1> DEFINE x == SizeOf(h, b)
           y == IsFree(h, b)
           z == IsPrevFree(h, b)
<1>1. h.word[b + 1] = <<"size", x, y, z>>
  BY DEF Header
<1> HIDE DEF x, y, z
<1>2. [h.word[b + 1] EXCEPT ![3] = v] = <<"size", x, v, z>>
  BY <1>1
<1>3. SetFree(h, b, v) = [h EXCEPT !.word[b + 1] = [h.word[b + 1] EXCEPT ![3] = v]]
  BY DEF SetFree, Shaped
<1>4. QED BY <1>2, <1>3 DEF Put, x, z

\* block_set_prev_free and block_set_prev_used change the flag of its predecessor.
LEMMA PrevFreePut ==
  ASSUME NEW h, Shaped(h), NEW b, b + 1 \in 0..PoolWords, Header(h, b), NEW v
  PROVE  SetPrevFree(h, b, v) = Put(h, b + 1, <<"size", SizeOf(h, b), IsFree(h, b), v>>)
<1> DEFINE x == SizeOf(h, b)
           y == IsFree(h, b)
           z == IsPrevFree(h, b)
<1>1. h.word[b + 1] = <<"size", x, y, z>>
  BY DEF Header
<1> HIDE DEF x, y, z
<1>2. [h.word[b + 1] EXCEPT ![4] = v] = <<"size", x, y, v>>
  BY <1>1
<1>3. SetPrevFree(h, b, v) = [h EXCEPT !.word[b + 1] = [h.word[b + 1] EXCEPT ![4] = v]]
  BY DEF SetPrevFree, Shaped
<1>4. QED BY <1>2, <1>3 DEF Put, x, y

\* A word that is a header is one.
LEMMA HeaderWord ==
  ASSUME NEW h, NEW b, NEW x \in Nat, NEW y \in BOOLEAN, NEW z \in BOOLEAN,
         h.word[b + 1] = <<"size", x, y, z>>
  PROVE  Header(h, b) /\ SizeOf(h, b) = x /\ IsFree(h, b) = y /\ IsPrevFree(h, b) = z
BY DEF Header, SizeOf, IsFree, IsPrevFree

\* The sentinel is behind the blocks of a pool.
LEMMA Pool ==
  /\ PoolWords \in Nat /\ Sentinel \in Nat /\ Sentinel + 1 = PoolWords /\ Sentinel >= 4
  /\ Sentinel - 1 < Pow2[FlLog2]
<1>1. PoolWords - 2 \in 3..(Pow2[FlLog2] - 1) /\ PoolWords \in Nat
  BY TlsfAssumption
<1>2. QED BY <1>1, Parameters DEF Sentinel

\* Headers and data of blocks are apart.
LEMMA Apart ==
  ASSUME NEW h, NEW B, Tiled(h, B), NEW b \in B
  PROVE  /\ b \in Nat /\ SizeOf(h, b) \in Nat /\ SizeOf(h, b) >= 3 /\ NextOf(h, b) = b + 1 + SizeOf(h, b)
         /\ NextOf(h, b) \in B \cup {Sentinel} /\ NextOf(h, b) \in Nat /\ NextOf(h, b) <= Sentinel
         /\ SizeOf(h, b) < Pow2[FlLog2]
         /\ \A c \in B \cup {Sentinel} :
              /\ c \in Nat /\ c <= Sentinel /\ (b < c => NextOf(h, b) <= c)
              /\ \A w \in (b + 2)..NextOf(h, b) : w # c + 1
         /\ \A c \in B : c # b =>
              /\ NextOf(h, c) # NextOf(h, b)
              /\ \A w \in (b + 2)..NextOf(h, b) : w \notin (c + 2)..NextOf(h, c)
<1>1. \A c \in B : c \in Nat /\ c < Sentinel
  BY Pool DEF Tiled
<1>2. \A c \in B \cup {Sentinel} : SizeOf(h, c) \in Nat
  BY DEF Tiled, Header
<1>3. \A c \in B : /\ SizeOf(h, c) >= 3 /\ NextOf(h, c) = c + 1 + SizeOf(h, c) /\ NextOf(h, c) \in Nat
                   /\ NextOf(h, c) <= Sentinel /\ NextOf(h, c) \in B \cup {Sentinel}
  BY <1>1, <1>2, Pool DEF Tiled, NextOf
<1>4. SizeOf(h, b) < Pow2[FlLog2]
  BY <1>1, <1>2, <1>3, Pool, Parameters
<1>5. \A a \in B, c \in B \cup {Sentinel} : a < c => NextOf(h, a) <= c
  BY DEF Tiled
<1>6. ASSUME NEW c \in B \cup {Sentinel}
      PROVE  /\ c \in Nat /\ c <= Sentinel /\ (b < c => NextOf(h, b) <= c)
             /\ \A w \in (b + 2)..NextOf(h, b) : w # c + 1
  <2>1. c \in Nat /\ c <= Sentinel /\ (b < c => NextOf(h, b) <= c)
    BY <1>1, <1>5, Pool
  <2>2. QED BY <1>1, <1>3, <2>1
<1>7. ASSUME NEW c \in B, c # b
      PROVE  /\ NextOf(h, c) # NextOf(h, b)
             /\ \A w \in (b + 2)..NextOf(h, b) : w \notin (c + 2)..NextOf(h, c)
  <2>1. (b < c => NextOf(h, b) <= c) /\ (c < b => NextOf(h, c) <= b)
    BY <1>5
  <2> DEFINE x == NextOf(h, b)
             y == NextOf(h, c)
  <2>2. x \in Nat /\ y \in Nat /\ b < x /\ c < y /\ b \in Nat /\ c \in Nat
    <3>1. \A a \in B : NextOf(h, a) > a
      BY <1>1, <1>2, <1>3
    <3>2. QED BY <1>1, <1>3, <3>1
  <2>3. b < c \/ c < b
    BY <1>7, <2>2
  <2>4. (b < c => x <= c) /\ (c < b => y <= b)
    BY <2>1
  <2> HIDE DEF x, y
  <2>5. x # y /\ \A w \in (b + 2)..x : w \notin (c + 2)..y
    BY <2>2, <2>3, <2>4
  <2>6. QED BY <2>5 DEF x, y
<1>8. QED BY <1>1, <1>2, <1>3, <1>4, <1>6, <1>7

\* Blocks keep their places when they keep their sizes.
LEMMA TiledStill ==
  ASSUME NEW h, NEW B, Tiled(h, B), NEW s, ~IsFree(s, Sentinel),
         \A c \in B \cup {Sentinel} : Header(s, c) /\ SizeOf(s, c) = SizeOf(h, c)
  PROVE  Tiled(s, B) /\ \A b \in B : NextOf(s, b) = NextOf(h, b)
BY DEF Tiled, NextOf

\* A block is split in two.
LEMMA TiledSplit ==
  ASSUME NEW h, NEW B, Tiled(h, B), NEW b \in B, NEW size \in Nat, size >= 3, SizeOf(h, b) >= size + 4,
         NEW s, ~IsFree(s, Sentinel),
         \A c \in B \cup {Sentinel, b + 1 + size} : Header(s, c),
         SizeOf(s, b) = size, SizeOf(s, b + 1 + size) = SizeOf(h, b) - (size + 1),
         \A c \in B \cup {Sentinel} : c # b => SizeOf(s, c) = SizeOf(h, c)
  PROVE  /\ Tiled(s, B \cup {b + 1 + size}) /\ b + 1 + size \notin B \cup {Sentinel}
         /\ NextOf(s, b) = b + 1 + size /\ NextOf(s, b + 1 + size) = NextOf(h, b)
         /\ \A c \in B : c # b => NextOf(s, c) = NextOf(h, c)
<1> DEFINE r == b + 1 + size
           n == NextOf(h, b)
<1>1. /\ b \in Nat /\ SizeOf(h, b) \in Nat /\ n = b + 1 + SizeOf(h, b) /\ n \in B \cup {Sentinel}
      /\ n <= Sentinel /\ Sentinel \in Nat
  BY Apart, Pool
<1>2. \A a \in B, c \in B \cup {Sentinel} : a \in Nat /\ c \in Nat /\ (a < c => NextOf(h, a) <= c)
                                           /\ a < Sentinel
  BY Apart, Pool DEF Tiled
<1>3. r \in Nat /\ b < r /\ r + 4 <= n /\ r \notin B \cup {Sentinel}
  BY <1>1, <1>2
<1>4. NextOf(s, b) = r /\ NextOf(s, r) = n /\ \A c \in B : c # b => NextOf(s, c) = NextOf(h, c)
  BY <1>1 DEF NextOf
<1>5. B \cup {r} \subseteq 0..(Sentinel - 1) /\ 0 \in B \cup {r}
  BY <1>1, <1>3 DEF Tiled
<1>6. SizeOf(s, Sentinel) = 0
  BY <1>1, <1>2 DEF Tiled
<1>7. ASSUME NEW c \in B \cup {r} PROVE SizeOf(s, c) >= 3 /\ NextOf(s, c) \in B \cup {r, Sentinel}
  <2>1. CASE c = b
    BY <1>4, <2>1
  <2>2. CASE c = r
    BY <1>1, <1>4, <2>2
  <2>3. CASE c # b /\ c # r
    BY <1>4, <2>3 DEF Tiled
  <2>4. QED BY <2>1, <2>2, <2>3
<1>8. ASSUME NEW a \in B \cup {r}, NEW c \in B \cup {r, Sentinel}, a < c PROVE NextOf(s, a) <= c
  <2>1. CASE a = r
    <3>1. c \in B \cup {Sentinel} /\ b < c
      BY <1>1, <1>2, <1>3, <1>8, <2>1
    <3>2. QED BY <1>2, <1>4, <2>1, <3>1
  <2>2. CASE a = b
    <3>1. CASE c = r
      BY <1>3, <1>4, <2>2, <3>1
    <3>2. CASE c # r
      <4>1. n <= c
        BY <1>2, <1>8, <2>2, <3>2
      <4>2. QED BY <1>1, <1>2, <1>3, <1>4, <2>2, <3>2, <4>1
    <3>3. QED BY <3>1, <3>2
  <2>3. CASE a # r /\ a # b
    <3>1. a \in B /\ NextOf(s, a) = NextOf(h, a)
      BY <1>4, <2>3
    <3>2. CASE c # r
      BY <1>2, <1>8, <3>1, <3>2
    <3>3. CASE c = r
      <4>1. a < b \/ b < a
        BY <1>2, <2>3, <3>1
      <4>2. NextOf(h, a) <= b
        BY <1>1, <1>2, <1>3, <1>8, <3>1, <3>3, <4>1
      <4>3. NextOf(h, a) \in Nat
        BY <3>1, Apart
      <4>4. QED BY <1>1, <1>3, <3>1, <3>3, <4>2, <4>3
    <3>4. QED BY <3>2, <3>3
  <2>4. QED BY <2>1, <2>2, <2>3
<1>9. QED BY <1>3, <1>4, <1>5, <1>6, <1>7, <1>8 DEF Tiled

\* A block takes in the one behind it.
LEMMA TiledAbsorb ==
  ASSUME NEW h, NEW B, Tiled(h, B), NEW b \in B, NextOf(h, b) \in B,
         NEW s, ~IsFree(s, Sentinel),
         \A c \in (B \ {NextOf(h, b)}) \cup {Sentinel} : Header(s, c),
         SizeOf(s, b) = SizeOf(h, b) + SizeOf(h, NextOf(h, b)) + 1,
         \A c \in (B \ {NextOf(h, b)}) \cup {Sentinel} : c # b => SizeOf(s, c) = SizeOf(h, c)
  PROVE  /\ Tiled(s, B \ {NextOf(h, b)}) /\ NextOf(h, b) # b
         /\ NextOf(s, b) = NextOf(h, NextOf(h, b))
         /\ \A c \in B \ {NextOf(h, b)} : c # b => NextOf(s, c) = NextOf(h, c)
<1> DEFINE n == NextOf(h, b)
           C == B \ {n}
<1>1. /\ b \in Nat /\ SizeOf(h, b) \in Nat /\ n = b + 1 + SizeOf(h, b) /\ n \in Nat
      /\ SizeOf(h, n) \in Nat /\ NextOf(h, n) = n + 1 + SizeOf(h, n) /\ NextOf(h, n) \in B \cup {Sentinel}
      /\ SizeOf(h, b) >= 3 /\ SizeOf(h, n) >= 3 /\ Sentinel \in Nat
  BY Apart, Pool
<1>2. \A a \in B, c \in B \cup {Sentinel} : a \in Nat /\ c \in Nat /\ (a < c => NextOf(h, a) <= c)
                                           /\ NextOf(h, a) \in B \cup {Sentinel}
  BY Apart, Pool
<1>3. NextOf(s, b) = NextOf(h, n) /\ \A c \in C : c # b => NextOf(s, c) = NextOf(h, c)
  BY <1>1 DEF NextOf
<1>4. n # b /\ n # Sentinel /\ C \subseteq 0..(Sentinel - 1)
  <2>1. B \subseteq 0..(Sentinel - 1) /\ n \in B
    BY DEF Tiled
  <2>2. n # b
    BY <1>1
  <2>3. n # Sentinel
    BY <2>1, Pool
  <2>4. C \subseteq 0..(Sentinel - 1)
    BY <2>1
  <2>5. QED BY <2>2, <2>3, <2>4
<1>5. 0 \in C
  BY <1>1 DEF Tiled
<1>6. SizeOf(s, Sentinel) = 0
  <2>1. b # Sentinel
    BY Pool DEF Tiled
  <2>2. QED BY <1>4, <2>1 DEF Tiled
<1>7. ASSUME NEW c \in C PROVE SizeOf(s, c) >= 3 /\ NextOf(s, c) \in C \cup {Sentinel}
  <2>1. CASE c = b
    BY <1>1, <1>3, <2>1
  <2>2. CASE c # b
    <3>1. NextOf(h, c) # n
      BY <2>2, Apart
    <3>2. QED BY <1>2, <1>3, <2>2, <3>1 DEF Tiled
  <2>3. QED BY <2>1, <2>2
<1>8. ASSUME NEW a \in C, NEW c \in C \cup {Sentinel}, a < c PROVE NextOf(s, a) <= c
  <2>1. CASE a = b
    <3>1. n <= c /\ c # n
      BY <1>2, <1>4, <1>8, <2>1
    <3>2. n < c
      BY <1>1, <1>2, <3>1
    <3>3. QED BY <1>2, <1>3, <2>1, <3>2
  <2>2. CASE a # b
    BY <1>2, <1>3, <1>8, <2>2
  <2>3. QED BY <2>1, <2>2
<1>9. \A c \in C \cup {Sentinel} : Header(s, c)
  OBVIOUS
<1> HIDE DEF C
<1>10. Tiled(s, C)
  BY <1>4, <1>5, <1>6, <1>7, <1>8, <1>9 DEF Tiled
<1>11. QED BY <1>3, <1>4, <1>10 DEF C

-----------------------------------------------------------------------------
(* Words that are written *)

\* The blocks U keep their sizes and what their data is,
Keeps(h, s, U) ==
  \A u \in U : /\ SizeOf(s, u) = SizeOf(h, u)
               /\ \A w \in (u + 2)..NextOf(h, u) : s.word[w] = h.word[w]

\* and a block the first words of its data.
KeepsFirst(h, s, b, n) == \A w \in (b + 2)..(b + 1 + n) : s.word[w] = h.word[w]

\* The free lists stay as they are.
SameLists(h, s) == s.lists = h.lists /\ s.fl = h.fl /\ s.sl = h.sl

\* A header whose word is the same is the same.
LEMMA HeaderSame ==
  ASSUME NEW h, NEW s, NEW b, Header(h, b), s.word[b + 1] = h.word[b + 1]
  PROVE  Header(s, b) /\ SizeOf(s, b) = SizeOf(h, b) /\ IsFree(s, b) = IsFree(h, b)
         /\ IsPrevFree(s, b) = IsPrevFree(h, b)
BY DEF Header, SizeOf, IsFree, IsPrevFree

\* What block_mark_as_free writes: the link, and a flag in both headers
Marked(h, s, b, n) ==
  /\ Shaped(s) /\ SameLists(h, s) /\ s.junk = h.junk /\ s.word[n] = <<"prev", b>>
  /\ s.word[b + 1] = <<"size", SizeOf(h, b), TRUE, IsPrevFree(h, b)>>
  /\ s.word[n + 1] = <<"size", SizeOf(h, n), IsFree(h, n), TRUE>>
  /\ \A w \in 0..PoolWords : w \notin {n, b + 1, n + 1} => s.word[w] = h.word[w]

\* It does.
LEMMA MarkFreeWords ==
  ASSUME NEW h, Shaped(h), NEW b \in Nat, NEW n \in Nat, NextOf(h, b) = n, b + 4 <= n, n <= Sentinel,
         Header(h, b), Header(h, n)
  PROVE  Marked(h, MarkFree(h, b), b, n)
<1> DEFINE s1 == LinkNext(h, b)
           s2 == SetPrevFree(s1, n, TRUE)
           s3 == SetFree(s2, b, TRUE)
           there == <<"size", SizeOf(h, n), IsFree(h, n), TRUE>>
           here == <<"size", SizeOf(h, b), TRUE, IsPrevFree(h, b)>>
<1>1. n \in 0..PoolWords /\ n + 1 \in 0..PoolWords /\ b + 1 \in 0..PoolWords
      /\ n # n + 1 /\ n # b + 1 /\ n + 1 # b + 1
  BY Pool
<1>2. s1 = Put(h, n, <<"prev", b>>)
  BY DEF LinkNext, Put
<1> HIDE DEF s1
<1>3. /\ Shaped(s1) /\ SameLists(h, s1) /\ s1.junk = h.junk /\ s1.word[n] = <<"prev", b>>
      /\ \A w \in 0..PoolWords : w # n => s1.word[w] = h.word[w]
  BY <1>1, <1>2, PutIs DEF SameLists
<1>4. Header(s1, n) /\ SizeOf(s1, n) = SizeOf(h, n) /\ IsFree(s1, n) = IsFree(h, n)
  BY <1>1, <1>3, HeaderSame
<1>5. s2 = Put(s1, n + 1, there)
  <2>1. s2 = Put(s1, n + 1, <<"size", SizeOf(s1, n), IsFree(s1, n), TRUE>>)
    <3>1. Shaped(s1) /\ n + 1 \in 0..PoolWords /\ Header(s1, n)
      BY <1>1, <1>3, <1>4
    <3>2. QED BY <3>1, PrevFreePut
  <2>2. QED BY <2>1, <1>4
<1> HIDE DEF s2
<1>6. /\ Shaped(s2) /\ SameLists(h, s2) /\ s2.junk = h.junk
      /\ s2.word[n + 1] = there
      /\ \A w \in 0..PoolWords : w # n + 1 => s2.word[w] = s1.word[w]
  <2> HIDE DEF there
  <2> QED BY <1>1, <1>3, <1>5, PutIs DEF SameLists
<1>7. s2.word[b + 1] = h.word[b + 1]
  BY <1>1, <1>3, <1>6
<1>8. Header(s2, b) /\ SizeOf(s2, b) = SizeOf(h, b) /\ IsPrevFree(s2, b) = IsPrevFree(h, b)
  BY <1>7, HeaderSame
<1>9. s3 = Put(s2, b + 1, here)
  <2>1. s3 = Put(s2, b + 1, <<"size", SizeOf(s2, b), TRUE, IsPrevFree(s2, b)>>)
    BY <1>1, <1>6, <1>8, FreePut
  <2>2. QED BY <2>1, <1>8
<1> HIDE DEF s3
<1>10. /\ Shaped(s3) /\ SameLists(h, s3) /\ s3.junk = h.junk
       /\ s3.word[b + 1] = here
       /\ \A w \in 0..PoolWords : w # b + 1 => s3.word[w] = s2.word[w]
  <2> HIDE DEF here
  <2> QED BY <1>1, <1>6, <1>9, PutIs DEF SameLists
<1>11. MarkFree(h, b) = s3
  BY DEF MarkFree, s1, s2, s3
<1>12. \A w \in 0..PoolWords : w \notin {n, b + 1, n + 1} => s3.word[w] = h.word[w]
  BY <1>3, <1>6, <1>10
<1>13. s3.word[n] = <<"prev", b>> /\ s3.word[n + 1] = <<"size", SizeOf(h, n), IsFree(h, n), TRUE>>
  BY <1>1, <1>3, <1>6, <1>10
<1>14. Marked(h, s3, b, n)
  BY <1>10, <1>12, <1>13 DEF Marked
<1>15. QED BY <1>11, <1>14

\* The words that block_mark_as_used writes
LEMMA MarkUsedWords ==
  ASSUME NEW h, Shaped(h), NEW b \in Nat, NEW n \in Nat, NextOf(h, b) = n, b + 4 <= n, n <= Sentinel,
         Header(h, b), Header(h, n)
  PROVE  /\ Shaped(MarkUsed(h, b)) /\ SameLists(h, MarkUsed(h, b)) /\ MarkUsed(h, b).junk = h.junk
         /\ MarkUsed(h, b).word[b + 1] = <<"size", SizeOf(h, b), FALSE, IsPrevFree(h, b)>>
         /\ MarkUsed(h, b).word[n + 1] = <<"size", SizeOf(h, n), IsFree(h, n), FALSE>>
         /\ \A w \in 0..PoolWords : w \notin {b + 1, n + 1} => MarkUsed(h, b).word[w] = h.word[w]
<1> DEFINE s2 == SetPrevFree(h, n, FALSE)
           s3 == SetFree(s2, b, FALSE)
           there == <<"size", SizeOf(h, n), IsFree(h, n), FALSE>>
           here == <<"size", SizeOf(h, b), FALSE, IsPrevFree(h, b)>>
<1>1. n + 1 \in 0..PoolWords /\ b + 1 \in 0..PoolWords /\ n + 1 # b + 1
  BY Pool
<1>5. s2 = Put(h, n + 1, there)
  BY <1>1, PrevFreePut
<1> HIDE DEF s2
<1>6. /\ Shaped(s2) /\ SameLists(h, s2) /\ s2.junk = h.junk
      /\ s2.word[n + 1] = there
      /\ \A w \in 0..PoolWords : w # n + 1 => s2.word[w] = h.word[w]
  <2> HIDE DEF there
  <2> QED BY <1>1, <1>5, PutIs DEF SameLists
<1>7. s2.word[b + 1] = h.word[b + 1]
  BY <1>1, <1>6
<1>8. Header(s2, b) /\ SizeOf(s2, b) = SizeOf(h, b) /\ IsPrevFree(s2, b) = IsPrevFree(h, b)
  BY <1>7, HeaderSame
<1>9. s3 = Put(s2, b + 1, here)
  <2>1. s3 = Put(s2, b + 1, <<"size", SizeOf(s2, b), FALSE, IsPrevFree(s2, b)>>)
    BY <1>1, <1>6, <1>8, FreePut
  <2>2. QED BY <2>1, <1>8
<1> HIDE DEF s3
<1>10. /\ Shaped(s3) /\ SameLists(h, s3) /\ s3.junk = h.junk
       /\ s3.word[b + 1] = here
       /\ \A w \in 0..PoolWords : w # b + 1 => s3.word[w] = s2.word[w]
  <2> HIDE DEF here
  <2> QED BY <1>1, <1>6, <1>9, PutIs DEF SameLists
<1>11. MarkUsed(h, b) = s3
  BY DEF MarkUsed, s2, s3
<1>12. \A w \in 0..PoolWords : w \notin {b + 1, n + 1} => s3.word[w] = h.word[w]
  BY <1>6, <1>10
<1>13. s3.word[n + 1] = <<"size", SizeOf(h, n), IsFree(h, n), FALSE>>
  BY <1>1, <1>6, <1>10
<1>14. QED BY <1>10, <1>11, <1>12, <1>13

\* Words of a pool, none of which is a header's second one
LEMMA DataWords ==
  ASSUME NEW h, NEW B, Tiled(h, B), NEW b \in B
  PROVE  /\ \A w \in (b + 2)..NextOf(h, b) : w \in 0..PoolWords
         /\ NextOf(h, b) \in 0..PoolWords /\ NextOf(h, b) \in (b + 2)..NextOf(h, b)
         /\ \A c \in B \cup {Sentinel} : c + 1 \in 0..PoolWords
<1>1. b \in Nat /\ NextOf(h, b) \in Nat /\ NextOf(h, b) <= Sentinel /\ b + 4 <= NextOf(h, b)
  BY Apart
<1>2. \A c \in B \cup {Sentinel} : c \in Nat /\ c <= Sentinel
  BY Apart
<1>3. QED BY <1>1, <1>2, Pool

\* A block is marked as free.
LEMMA MarkFreeIs ==
  ASSUME NEW h, NEW B, NEW F, NEW P, Shaped(h), Tiled(h, B), Flagged(h, B, F, P), NEW b \in B
  PROVE  /\ Shaped(MarkFree(h, b)) /\ Tiled(MarkFree(h, b), B)
         /\ Flagged(MarkFree(h, b), B, F \cup {b}, P \cup {b})
         /\ \A c \in B : SizeOf(MarkFree(h, b), c) = SizeOf(h, c)
         /\ Keeps(h, MarkFree(h, b), B \ {b}) /\ SameLists(h, MarkFree(h, b))
<1> DEFINE s == MarkFree(h, b)
           n == NextOf(h, b)
           E == B \cup {Sentinel}
<1>1. b \in Nat /\ n \in Nat /\ b + 4 <= n /\ n <= Sentinel /\ n \in E
  BY Apart
<1>2. \A c \in E : Header(h, c)
  BY DEF Tiled
<1>3. /\ Shaped(s) /\ SameLists(h, s) /\ s.word[n] = <<"prev", b>>
      /\ s.word[b + 1] = <<"size", SizeOf(h, b), TRUE, IsPrevFree(h, b)>>
      /\ s.word[n + 1] = <<"size", SizeOf(h, n), IsFree(h, n), TRUE>>
      /\ \A w \in 0..PoolWords : w \notin {n, b + 1, n + 1} => s.word[w] = h.word[w]
  <2>1. Marked(h, s, b, n)
    BY <1>1, <1>2, MarkFreeWords
  <2> HIDE DEF s, n
  <2>2. QED BY <2>1 DEF Marked
<1> HIDE DEF s
<1>4. Header(s, b) /\ SizeOf(s, b) = SizeOf(h, b) /\ IsFree(s, b) = TRUE /\ IsPrevFree(s, b) = IsPrevFree(h, b)
  <2>1. SizeOf(h, b) \in Nat /\ IsPrevFree(h, b) \in BOOLEAN
    BY <1>2 DEF Header
  <2>2. QED BY <1>3, <2>1, HeaderWord
<1>5. Header(s, n) /\ SizeOf(s, n) = SizeOf(h, n) /\ IsFree(s, n) = IsFree(h, n) /\ IsPrevFree(s, n) = TRUE
  <2>1. SizeOf(h, n) \in Nat /\ IsFree(h, n) \in BOOLEAN
    BY <1>1, <1>2 DEF Header
  <2>2. QED BY <1>3, <2>1, HeaderWord
<1>6. ASSUME NEW c \in E, c # b, c # n
      PROVE  Header(s, c) /\ SizeOf(s, c) = SizeOf(h, c) /\ IsFree(s, c) = IsFree(h, c)
             /\ IsPrevFree(s, c) = IsPrevFree(h, c)
  <2>1. c + 1 \in 0..PoolWords /\ c \in Nat
    BY DataWords, Apart
  <2>2. n # c + 1
    <3>1. n \in (b + 2)..n
      BY <1>1
    <3>2. QED BY <3>1, Apart
  <2>3. c + 1 \notin {n, b + 1, n + 1}
    BY <1>1, <1>6, <2>1, <2>2
  <2>4. QED BY <1>2, <1>3, <2>1, <2>3, HeaderSame
<1>7. \A c \in E : Header(s, c) /\ SizeOf(s, c) = SizeOf(h, c)
  BY <1>4, <1>5, <1>6
<1>8. ~IsFree(s, Sentinel) /\ b # Sentinel
  <2>1. b # Sentinel /\ ~IsFree(h, Sentinel)
    BY Pool DEF Tiled
  <2>2. QED BY <1>5, <1>6, <2>1
<1>9. Tiled(s, B) /\ \A c \in B : NextOf(s, c) = NextOf(h, c)
  BY <1>7, <1>8, TiledStill
<1>10. ASSUME NEW c \in B, c # b PROVE NextOf(h, c) # n /\ NextOf(h, c) \in E /\ s.word[NextOf(h, c)] = h.word[NextOf(h, c)]
  <2> DEFINE m == NextOf(h, c)
  <2>1. m # n /\ m \in E /\ m \in (c + 2)..m /\ m \in 0..PoolWords
    BY <1>10, Apart, DataWords
  <2>2. m # b + 1 /\ m # n + 1
    BY <1>1, <2>1, Apart
  <2>3. QED BY <1>3, <2>1, <2>2
<1>11. Flagged(s, B, F \cup {b}, P \cup {b})
  <2>1. F \cup {b} \subseteq B /\ P \cup {b} \subseteq B
    BY DEF Flagged
  <2>2. ~IsPrevFree(s, 0)
    <3>1. 0 \in B /\ 0 # n
      BY <1>1 DEF Tiled
    <3>2. QED BY <1>4, <1>6, <3>1 DEF Flagged
  <2>3. ASSUME NEW c \in B PROVE IsFree(s, c) <=> c \in F \cup {b}
    BY <1>4, <1>5, <1>6 DEF Flagged
  <2>4. ASSUME NEW c \in B PROVE IsPrevFree(s, NextOf(s, c)) <=> c \in P \cup {b}
    <3>1. CASE c = b
      BY <1>5, <1>9, <3>1
    <3>2. CASE c # b
      <4>1. IsPrevFree(s, NextOf(h, c)) = IsPrevFree(h, NextOf(h, c))
        BY <1>4, <1>6, <1>10, <3>2
      <4>2. QED BY <1>9, <3>2, <4>1 DEF Flagged
    <3>3. QED BY <3>1, <3>2
  <2>5. ASSUME NEW c \in P \cup {b} PROVE s.word[NextOf(s, c)] = <<"prev", c>>
    <3>1. c \in B
      BY <2>1
    <3>2. CASE c = b
      BY <1>3, <1>9, <3>1, <3>2
    <3>3. CASE c # b
      BY <1>9, <1>10, <3>1, <3>3 DEF Flagged
    <3>4. QED BY <3>2, <3>3
  <2>6. QED BY <2>1, <2>2, <2>3, <2>4, <2>5 DEF Flagged
<1>12. Keeps(h, s, B \ {b})
  <2> SUFFICES ASSUME NEW u \in B \ {b}, NEW w \in (u + 2)..NextOf(h, u)
               PROVE  s.word[w] = h.word[w]
    BY <1>7 DEF Keeps
  <2>1. w \in 0..PoolWords /\ w # b + 1 /\ w # n + 1
    BY <1>1, Apart, DataWords
  <2>2. n \in (b + 2)..n
    BY <1>1
  <2>3. w # n
    BY <2>2, Apart
  <2>4. QED BY <1>3, <2>1, <2>3
<1>13. QED BY <1>3, <1>7, <1>9, <1>11, <1>12 DEF s

\* A block is marked as used.
LEMMA MarkUsedIs ==
  ASSUME NEW h, NEW B, NEW F, NEW P, Shaped(h), Tiled(h, B), Flagged(h, B, F, P), NEW b \in B
  PROVE  /\ Shaped(MarkUsed(h, b)) /\ Tiled(MarkUsed(h, b), B)
         /\ Flagged(MarkUsed(h, b), B, F \ {b}, P \ {b})
         /\ \A c \in B : SizeOf(MarkUsed(h, b), c) = SizeOf(h, c)
         /\ Keeps(h, MarkUsed(h, b), B) /\ SameLists(h, MarkUsed(h, b))
<1> DEFINE s == MarkUsed(h, b)
           n == NextOf(h, b)
           E == B \cup {Sentinel}
<1>1. b \in Nat /\ n \in Nat /\ b + 4 <= n /\ n <= Sentinel /\ n \in E
  BY Apart
<1>2. \A c \in E : Header(h, c)
  BY DEF Tiled
<1>3. /\ Shaped(s) /\ SameLists(h, s)
      /\ s.word[b + 1] = <<"size", SizeOf(h, b), FALSE, IsPrevFree(h, b)>>
      /\ s.word[n + 1] = <<"size", SizeOf(h, n), IsFree(h, n), FALSE>>
      /\ \A w \in 0..PoolWords : w \notin {b + 1, n + 1} => s.word[w] = h.word[w]
  BY <1>1, <1>2, MarkUsedWords
<1> HIDE DEF s
<1>4. Header(s, b) /\ SizeOf(s, b) = SizeOf(h, b) /\ IsFree(s, b) = FALSE /\ IsPrevFree(s, b) = IsPrevFree(h, b)
  <2>1. SizeOf(h, b) \in Nat /\ IsPrevFree(h, b) \in BOOLEAN
    BY <1>2 DEF Header
  <2>2. QED BY <1>3, <2>1, HeaderWord
<1>5. Header(s, n) /\ SizeOf(s, n) = SizeOf(h, n) /\ IsFree(s, n) = IsFree(h, n) /\ IsPrevFree(s, n) = FALSE
  <2>1. SizeOf(h, n) \in Nat /\ IsFree(h, n) \in BOOLEAN
    BY <1>1, <1>2 DEF Header
  <2>2. QED BY <1>3, <2>1, HeaderWord
<1>6. ASSUME NEW c \in E, c # b, c # n
      PROVE  Header(s, c) /\ SizeOf(s, c) = SizeOf(h, c) /\ IsFree(s, c) = IsFree(h, c)
             /\ IsPrevFree(s, c) = IsPrevFree(h, c)
  <2>1. c + 1 \in 0..PoolWords /\ c \in Nat
    BY DataWords, Apart
  <2>2. c + 1 \notin {b + 1, n + 1}
    BY <1>1, <1>6, <2>1
  <2>3. QED BY <1>2, <1>3, <2>1, <2>2, HeaderSame
<1>7. \A c \in E : Header(s, c) /\ SizeOf(s, c) = SizeOf(h, c)
  BY <1>4, <1>5, <1>6
<1>8. ~IsFree(s, Sentinel) /\ b # Sentinel
  <2>1. b # Sentinel /\ ~IsFree(h, Sentinel)
    BY Pool DEF Tiled
  <2>2. QED BY <1>5, <1>6, <2>1
<1>9. Tiled(s, B) /\ \A c \in B : NextOf(s, c) = NextOf(h, c)
  BY <1>7, <1>8, TiledStill
<1>10. Keeps(h, s, B)
  <2> SUFFICES ASSUME NEW u \in B, NEW w \in (u + 2)..NextOf(h, u)
               PROVE  s.word[w] = h.word[w]
    BY <1>7 DEF Keeps
  <2>1. w \in 0..PoolWords /\ w # b + 1 /\ w # n + 1
    BY <1>1, Apart, DataWords
  <2>2. QED BY <1>3, <2>1
<1>11. \A c \in B : s.word[NextOf(h, c)] = h.word[NextOf(h, c)]
  BY <1>10, DataWords DEF Keeps
<1>12. Flagged(s, B, F \ {b}, P \ {b})
  <2>1. F \ {b} \subseteq B /\ P \ {b} \subseteq B
    BY DEF Flagged
  <2>2. ~IsPrevFree(s, 0)
    <3>1. 0 \in B /\ 0 # n
      BY <1>1 DEF Tiled
    <3>2. QED BY <1>4, <1>6, <3>1 DEF Flagged
  <2>3. ASSUME NEW c \in B PROVE IsFree(s, c) <=> c \in F \ {b}
    BY <1>4, <1>5, <1>6 DEF Flagged
  <2>4. ASSUME NEW c \in B PROVE IsPrevFree(s, NextOf(s, c)) <=> c \in P \ {b}
    <3>1. CASE c = b
      BY <1>5, <1>9, <3>1
    <3>2. CASE c # b
      <4>1. NextOf(h, c) # n /\ NextOf(h, c) \in E
        BY <3>2, Apart
      <4>2. IsPrevFree(s, NextOf(h, c)) = IsPrevFree(h, NextOf(h, c))
        BY <1>4, <1>6, <4>1
      <4>3. QED BY <1>9, <3>2, <4>2 DEF Flagged
    <3>3. QED BY <3>1, <3>2
  <2>5. ASSUME NEW c \in P \ {b} PROVE s.word[NextOf(s, c)] = <<"prev", c>>
    <3>1. c \in B
      BY <2>1
    <3>2. QED BY <1>9, <1>11, <3>1 DEF Flagged
  <2>6. QED BY <2>1, <2>2, <2>3, <2>4, <2>5 DEF Flagged
<1>13. QED BY <1>3, <1>7, <1>9, <1>10, <1>12 DEF s

\* A block takes in the one behind it, and what follows is told where it begins.
LEMMA AbsorbIs ==
  ASSUME NEW h, NEW B, NEW F, NEW P, Shaped(h), Tiled(h, B), Flagged(h, B, F, P),
         NEW b \in B, NEW n, n = NextOf(h, b), n \in P
  PROVE  /\ Shaped(Absorb(h, b, n)) /\ Tiled(Absorb(h, b, n), B \ {n})
         /\ Flagged(Absorb(h, b, n), B \ {n}, F \ {n}, (P \ {n}) \cup {b})
         /\ SizeOf(Absorb(h, b, n), b) = SizeOf(h, b) + SizeOf(h, n) + 1
         /\ \A c \in B \ {n} : c # b => SizeOf(Absorb(h, b, n), c) = SizeOf(h, c)
         /\ Keeps(h, Absorb(h, b, n), B \ {b, n}) /\ KeepsFirst(h, Absorb(h, b, n), b, SizeOf(h, b))
         /\ SameLists(h, Absorb(h, b, n))
<1> DEFINE size == SizeOf(h, b) + SizeOf(h, n) + 1
           s1 == SetSize(h, b, size)
           s == Absorb(h, b, n)
           m == NextOf(h, n)
           E == B \cup {Sentinel}
<1>0. n \in B
  BY DEF Flagged
<1>1. /\ b \in Nat /\ n \in Nat /\ n = b + 1 + SizeOf(h, b) /\ SizeOf(h, b) \in Nat /\ SizeOf(h, n) \in Nat
      /\ m \in Nat /\ m = n + 1 + SizeOf(h, n) /\ m <= Sentinel /\ m \in E
      /\ SizeOf(h, b) >= 3 /\ SizeOf(h, n) >= 3
  BY <1>0, Apart
<1>2. \A c \in E : Header(h, c) /\ c + 1 \in 0..PoolWords /\ c \in Nat
  BY DataWords, Apart DEF Tiled
<1>3. /\ Shaped(s1) /\ SameLists(h, s1)
      /\ s1.word[b + 1] = <<"size", size, IsFree(h, b), IsPrevFree(h, b)>>
      /\ \A w \in 0..PoolWords : w # b + 1 => s1.word[w] = h.word[w]
  <2> HIDE DEF size
  <2>1. s1 = Put(h, b + 1, <<"size", size, IsFree(h, b), IsPrevFree(h, b)>>)
    BY <1>2, SizePut
  <2> DEFINE here == <<"size", size, IsFree(h, b), IsPrevFree(h, b)>>
  <2>2. s1 = Put(h, b + 1, here) /\ b + 1 \in 0..PoolWords
    BY <1>2, <2>1
  <2> HIDE DEF here, s1
  <2>3. /\ Shaped(s1) /\ SameLists(h, s1) /\ s1.word[b + 1] = here
        /\ \A w \in 0..PoolWords : w # b + 1 => s1.word[w] = h.word[w]
    BY <2>2, PutIs DEF SameLists
  <2>4. QED BY <2>3 DEF here
<1>4. SizeOf(s1, b) = size
  <2>1. s1.word[b + 1] = <<"size", size, IsFree(h, b), IsPrevFree(h, b)>>
    BY <1>3
  <2> HIDE DEF size, s1
  <2>2. QED BY ONLY <2>1 DEF SizeOf
<1>5. NextOf(s1, b) = m
  BY <1>1, <1>4 DEF NextOf
<1>6. s = Put(s1, m, <<"prev", b>>)
  <2>1. s = LinkNext(s1, b)
    BY DEF Absorb
  <2>2. QED BY <1>5, <2>1 DEF LinkNext, Put
<1>7. m \in 0..PoolWords /\ m # b + 1 /\ \A c \in E : m # c + 1
  <2>1. m \in (n + 2)..m
    BY <1>1
  <2>2. QED BY <1>0, <2>1, Apart, DataWords
<1> HIDE DEF s, s1
<1>8. /\ Shaped(s) /\ SameLists(h, s) /\ s.word[m] = <<"prev", b>>
      /\ s.word[b + 1] = <<"size", size, IsFree(h, b), IsPrevFree(h, b)>>
      /\ \A w \in 0..PoolWords : w # b + 1 /\ w # m => s.word[w] = h.word[w]
  <2>1. /\ Shaped(s) /\ SameLists(s1, s) /\ s.word[m] = <<"prev", b>>
        /\ \A w \in 0..PoolWords : w # m => s.word[w] = s1.word[w]
    BY <1>3, <1>6, <1>7, PutIs DEF SameLists
  <2>2. QED BY <1>2, <1>3, <1>7, <2>1 DEF SameLists
<1>9. Header(s, b) /\ SizeOf(s, b) = size /\ IsFree(s, b) = IsFree(h, b) /\ IsPrevFree(s, b) = IsPrevFree(h, b)
  <2>1. size \in Nat /\ IsFree(h, b) \in BOOLEAN /\ IsPrevFree(h, b) \in BOOLEAN
    BY <1>1, <1>2 DEF Header
  <2>2. QED BY <1>8, <2>1, HeaderWord
<1>10. ASSUME NEW c \in E, c # b
       PROVE  Header(s, c) /\ SizeOf(s, c) = SizeOf(h, c) /\ IsFree(s, c) = IsFree(h, c)
              /\ IsPrevFree(s, c) = IsPrevFree(h, c)
  <2>1. c + 1 # b + 1 /\ c + 1 # m
    BY <1>1, <1>2, <1>7, <1>10
  <2>2. QED BY <1>2, <1>8, <2>1, HeaderSame
<1>11. ~IsFree(s, Sentinel)
  <2>1. b # Sentinel /\ ~IsFree(h, Sentinel)
    BY Pool DEF Tiled
  <2>2. QED BY <1>10, <2>1
<1>12. /\ Tiled(s, B \ {n}) /\ n # b /\ NextOf(s, b) = m
       /\ \A c \in B \ {n} : c # b => NextOf(s, c) = NextOf(h, c)
  BY <1>0, <1>9, <1>10, <1>11, TiledAbsorb
<1>13. ASSUME NEW c \in B \ {b, n}
       PROVE  /\ \A w \in (c + 2)..NextOf(h, c) : s.word[w] = h.word[w]
              /\ NextOf(h, c) \in (c + 2)..NextOf(h, c) /\ NextOf(h, c) \in E \ {n, m}
  <2>1. ASSUME NEW w \in (c + 2)..NextOf(h, c) PROVE s.word[w] = h.word[w]
    <3>1. w \in 0..PoolWords /\ w # b + 1
      BY Apart, DataWords
    <3>2. m \in (n + 2)..m
      BY <1>1
    <3>3. w # m
      BY <1>0, <3>2, Apart
    <3>4. QED BY <1>8, <3>1, <3>3
  <2>2. NextOf(h, c) \in E \ {n, m} /\ NextOf(h, c) \in (c + 2)..NextOf(h, c)
    BY <1>0, Apart, DataWords
  <2>3. QED BY <2>1, <2>2
<1>14. Flagged(s, B \ {n}, F \ {n}, (P \ {n}) \cup {b})
  <2>1. F \ {n} \subseteq B \ {n} /\ (P \ {n}) \cup {b} \subseteq B \ {n}
    BY <1>12 DEF Flagged
  <2>2. ~IsPrevFree(s, 0)
    <3>1. 0 \in B
      BY DEF Tiled
    <3>2. QED BY <1>9, <1>10, <3>1 DEF Flagged
  <2>3. ASSUME NEW c \in B \ {n} PROVE IsFree(s, c) <=> c \in F \ {n}
    BY <1>9, <1>10 DEF Flagged
  <2>4. ASSUME NEW c \in B \ {n} PROVE IsPrevFree(s, NextOf(s, c)) <=> c \in (P \ {n}) \cup {b}
    <3>1. CASE c = b
      <4>1. m # b
        BY <1>1
      <4>2. IsPrevFree(s, m) = IsPrevFree(h, m)
        BY <1>1, <1>10, <4>1
      <4>3. QED BY <1>0, <1>12, <3>1, <4>2 DEF Flagged
    <3>2. CASE c # b
      <4>1. IsPrevFree(s, NextOf(h, c)) = IsPrevFree(h, NextOf(h, c))
        BY <1>9, <1>10, <1>13, <3>2
      <4>2. QED BY <1>12, <3>2, <4>1 DEF Flagged
    <3>3. QED BY <3>1, <3>2
  <2>5. ASSUME NEW c \in (P \ {n}) \cup {b} PROVE s.word[NextOf(s, c)] = <<"prev", c>>
    <3>1. CASE c = b
      BY <1>8, <1>12, <3>1
    <3>2. CASE c # b
      <4>1. c \in B \ {b, n}
        BY <2>1, <3>2
      <4>2. QED BY <1>12, <1>13, <4>1 DEF Flagged
    <3>3. QED BY <3>1, <3>2
  <2>6. QED BY <2>1, <2>2, <2>3, <2>4, <2>5 DEF Flagged
<1>15. Keeps(h, s, B \ {b, n})
  BY <1>10, <1>13 DEF Keeps
<1>16. KeepsFirst(h, s, b, SizeOf(h, b))
  <2> SUFFICES ASSUME NEW w \in (b + 2)..(b + 1 + SizeOf(h, b)) PROVE s.word[w] = h.word[w]
    BY DEF KeepsFirst
  <2>1. w \in 0..PoolWords /\ w # b + 1 /\ w # m
    BY <1>1, Pool
  <2>2. QED BY <1>8, <2>1
<1>17. QED BY <1>8, <1>9, <1>10, <1>12, <1>14, <1>15, <1>16 DEF s

-----------------------------------------------------------------------------
(* Blocks are split *)

\* The words that block_split writes: the headers of both parts, of which the flag
\* that the second has of the first is still junk, and the link behind them
IsSplit(h, s, b, r, n) ==
  /\ Shaped(s) /\ SameLists(h, s)
  /\ s.word[b + 1] = <<"size", r - b - 1, IsFree(h, b), IsPrevFree(h, b)>>
  /\ s.word[r + 1] = <<"size", n - r - 1, TRUE, h.junk>>
  /\ s.word[n] = <<"prev", r>>
  /\ s.word[n + 1] = <<"size", SizeOf(h, n), IsFree(h, n), TRUE>>
  /\ \A w \in 0..PoolWords : w \notin {b + 1, r + 1, n, n + 1} => s.word[w] = h.word[w]

\* They are.
LEMMA SplitWords ==
  ASSUME NEW h, NEW B, Shaped(h), Tiled(h, B), NEW b \in B, NEW size \in Nat, size >= 3,
         SizeOf(h, b) >= size + 4
  PROVE  IsSplit(h, Split(h, b, size), b, b + 1 + size, NextOf(h, b))
<1> DEFINE r == b + 1 + size
           n == NextOf(h, b)
           left == SizeOf(h, b) - (size + 1)
           there == <<"size", left, h.junk, h.junk>>
           here == <<"size", size, IsFree(h, b), IsPrevFree(h, b)>>
           s0 == Put(h, r + 1, there)
           s1 == SetSize(s0, b, size)
           s == MarkFree(s1, r)
<1>1. /\ b \in Nat /\ n \in Nat /\ n = b + 1 + SizeOf(h, b) /\ SizeOf(h, b) \in Nat
      /\ n <= Sentinel /\ n \in B \cup {Sentinel} /\ r \in Nat /\ left \in Nat /\ left >= 3
      /\ r + 1 + left = n /\ b + 4 <= r /\ r + 4 <= n
  BY Apart
<1>2. b + 1 \in 0..PoolWords /\ r + 1 \in 0..PoolWords /\ n + 1 \in 0..PoolWords /\ n \in 0..PoolWords
  BY <1>1, Pool
<1>3. Header(h, b) /\ Header(h, n) /\ h.junk \in BOOLEAN
  BY <1>1 DEF Tiled, Shaped
<1>4. Split(h, b, size) = s
  BY DEF Split, Put
<1>5. /\ Shaped(s0) /\ SameLists(h, s0) /\ s0.junk = h.junk /\ s0.word[r + 1] = there
      /\ \A w \in 0..PoolWords : w # r + 1 => s0.word[w] = h.word[w]
  <2> HIDE DEF there
  <2> QED BY <1>2, PutIs DEF SameLists
<1> HIDE DEF s0
<1>6. Header(s0, b) /\ IsFree(s0, b) = IsFree(h, b) /\ IsPrevFree(s0, b) = IsPrevFree(h, b)
  <2>1. b + 1 # r + 1
    BY <1>1
  <2>2. QED BY <1>2, <1>3, <1>5, <2>1, HeaderSame
<1>7. s1 = Put(s0, b + 1, here)
  <2>1. s1 = Put(s0, b + 1, <<"size", size, IsFree(s0, b), IsPrevFree(s0, b)>>)
    BY <1>2, <1>5, <1>6, SizePut
  <2>2. QED BY <1>6, <2>1
<1> HIDE DEF s1
<1>8. /\ Shaped(s1) /\ SameLists(h, s1) /\ s1.word[b + 1] = here
      /\ \A w \in 0..PoolWords : w # b + 1 => s1.word[w] = s0.word[w]
  <2> HIDE DEF here
  <2> QED BY <1>2, <1>5, <1>7, PutIs DEF SameLists
<1>9. Header(s1, r) /\ SizeOf(s1, r) = left /\ IsPrevFree(s1, r) = h.junk
  <2>1. s1.word[r + 1] = <<"size", left, h.junk, h.junk>> /\ left \in Nat /\ h.junk \in BOOLEAN
    BY <1>1, <1>2, <1>3, <1>5, <1>8
  <2> HIDE DEF left
  <2>2. QED BY ONLY <2>1, HeaderWord
<1>10. Header(s1, n) /\ SizeOf(s1, n) = SizeOf(h, n) /\ IsFree(s1, n) = IsFree(h, n)
  <2>1. s1.word[n + 1] = h.word[n + 1]
    BY <1>1, <1>2, <1>5, <1>8
  <2>2. QED BY <1>3, <2>1, HeaderSame
<1>11. NextOf(s1, r) = n
  BY <1>1, <1>9 DEF NextOf
<1>12. /\ Shaped(s) /\ SameLists(s1, s) /\ s.word[n] = <<"prev", r>>
       /\ s.word[r + 1] = <<"size", left, TRUE, h.junk>>
       /\ s.word[n + 1] = <<"size", SizeOf(h, n), IsFree(h, n), TRUE>>
       /\ \A w \in 0..PoolWords : w \notin {n, r + 1, n + 1} => s.word[w] = s1.word[w]
  <2>1. /\ Shaped(s) /\ SameLists(s1, s) /\ s.word[n] = <<"prev", r>>
        /\ s.word[r + 1] = <<"size", SizeOf(s1, r), TRUE, IsPrevFree(s1, r)>>
        /\ s.word[n + 1] = <<"size", SizeOf(s1, n), IsFree(s1, n), TRUE>>
        /\ \A w \in 0..PoolWords : w \notin {n, r + 1, n + 1} => s.word[w] = s1.word[w]
    <3> HIDE DEF s
    <3>1. r \in Nat /\ n \in Nat /\ NextOf(s1, r) = n /\ r + 4 <= n /\ n <= Sentinel
      BY <1>1, <1>11
    <3>2. Shaped(s1) /\ Header(s1, r) /\ Header(s1, n)
      BY <1>8, <1>9, <1>10
    <3>3. Marked(s1, s, r, n)
      BY <3>1, <3>2, MarkFreeWords DEF s
    <3>4. QED BY <3>3 DEF Marked
  <2>2. QED BY <1>9, <1>10, <2>1
<1> HIDE DEF s
<1>13. s.word[b + 1] = here
  BY <1>1, <1>2, <1>8, <1>12
<1>14. ASSUME NEW w \in 0..PoolWords, w \notin {b + 1, r + 1, n, n + 1} PROVE s.word[w] = h.word[w]
  BY <1>5, <1>8, <1>12, <1>14
<1>15. left = n - r - 1 /\ size = r - b - 1
  BY <1>1
<1> HIDE DEF left, r, n
<1>16. IsSplit(h, s, b, r, n)
  BY <1>8, <1>12, <1>13, <1>14, <1>15 DEF SameLists, IsSplit
<1>17. QED BY <1>4, <1>16 DEF r, n

\* What a split leaves when the second part knows whether the first is free
Divides(h, s, b, r, n) ==
  /\ s.word[b + 1] = <<"size", r - b - 1, IsFree(h, b), IsPrevFree(h, b)>>
  /\ Header(s, r) /\ SizeOf(s, r) = n - r - 1 /\ IsFree(s, r) /\ s.word[n] = <<"prev", r>>
  /\ s.word[n + 1] = <<"size", SizeOf(h, n), IsFree(h, n), TRUE>>
  /\ \A w \in 0..PoolWords : w \notin {b + 1, r, r + 1, n, n + 1} => s.word[w] = h.word[w]

\* The blocks P, and maybe b, are known to be free by those behind them.
KnownFree(s, b, r, P, Q) ==
  /\ IsPrevFree(s, r) <=> b \in Q
  /\ b \in Q => s.word[r] = <<"prev", b>>
  /\ Q \ {b} = (P \cup {r}) \ {b}

\* A block that is divided so leaves two.
LEMMA SplitIs ==
  ASSUME NEW h, NEW B, NEW F, NEW P, Tiled(h, B), Flagged(h, B, F, P), NEW b \in B, NEW r \in Nat,
         r - b - 1 >= 3, SizeOf(h, b) >= (r - b - 1) + 4, NEW n, n = NextOf(h, b), NEW s, NEW Q,
         Divides(h, s, b, r, n), KnownFree(s, b, r, P, Q)
  PROVE  /\ r \notin B \cup {Sentinel} /\ Tiled(s, B \cup {r}) /\ Flagged(s, B \cup {r}, F \cup {r}, Q)
         /\ SizeOf(s, b) = r - b - 1 /\ NextOf(s, b) = r /\ NextOf(s, r) = n
         /\ \A c \in B : c # b => SizeOf(s, c) = SizeOf(h, c)
         /\ Keeps(h, s, B \ {b}) /\ KeepsFirst(h, s, b, (r - b - 1) - 1)
<1> DEFINE size == r - b - 1
           left == SizeOf(h, b) - (size + 1)
           E == B \cup {Sentinel}
<1>0. /\ s.word[b + 1] = <<"size", r - b - 1, IsFree(h, b), IsPrevFree(h, b)>>
      /\ Header(s, r) /\ SizeOf(s, r) = n - r - 1 /\ IsFree(s, r) /\ s.word[n] = <<"prev", r>>
      /\ s.word[n + 1] = <<"size", SizeOf(h, n), IsFree(h, n), TRUE>>
      /\ \A w \in 0..PoolWords : w \notin {b + 1, r, r + 1, n, n + 1} => s.word[w] = h.word[w]
  BY DEF Divides
<1>0a. (IsPrevFree(s, r) <=> b \in Q) /\ (b \in Q => s.word[r] = <<"prev", b>>) /\ Q \ {b} = (P \cup {r}) \ {b}
  BY DEF KnownFree
<1>1. /\ b \in Nat /\ n \in Nat /\ n = b + 1 + SizeOf(h, b) /\ SizeOf(h, b) \in Nat
      /\ n <= Sentinel /\ n \in E /\ r \in Nat /\ left \in Nat /\ left >= 3
      /\ r + 1 + left = n /\ b + 4 <= r /\ r + 4 <= n
      /\ r = b + 1 + size /\ left = n - r - 1 /\ size \in Nat
  BY Apart
<1>2. \A c \in E : Header(h, c) /\ c + 1 \in 0..PoolWords /\ c \in Nat
  BY DataWords, Apart DEF Tiled
<1>3. r \in (b + 2)..n /\ r + 1 \in (b + 2)..n /\ n \in (b + 2)..n
  BY <1>1
<1>4. Header(s, b) /\ SizeOf(s, b) = size /\ IsFree(s, b) = IsFree(h, b) /\ IsPrevFree(s, b) = IsPrevFree(h, b)
  <2>1. /\ s.word[b + 1] = <<"size", size, IsFree(h, b), IsPrevFree(h, b)>> /\ size \in Nat
        /\ IsFree(h, b) \in BOOLEAN /\ IsPrevFree(h, b) \in BOOLEAN
    BY <1>0, <1>1, <1>2 DEF Header
  <2> HIDE DEF size
  <2>2. QED BY ONLY <2>1, HeaderWord
<1>5. Header(s, r) /\ SizeOf(s, r) = left /\ IsFree(s, r) /\ (IsPrevFree(s, r) <=> b \in Q)
  BY <1>0, <1>0a, <1>1
<1>6. Header(s, n) /\ SizeOf(s, n) = SizeOf(h, n) /\ IsFree(s, n) = IsFree(h, n) /\ IsPrevFree(s, n) = TRUE
  <2>1. /\ s.word[n + 1] = <<"size", SizeOf(h, n), IsFree(h, n), TRUE>>
        /\ SizeOf(h, n) \in Nat /\ IsFree(h, n) \in BOOLEAN /\ TRUE \in BOOLEAN
    BY <1>0, <1>1, <1>2 DEF Header
  <2>2. QED BY ONLY <2>1, HeaderWord
<1>7. ASSUME NEW c \in E, c # b, c # n
      PROVE  Header(s, c) /\ SizeOf(s, c) = SizeOf(h, c) /\ IsFree(s, c) = IsFree(h, c)
             /\ IsPrevFree(s, c) = IsPrevFree(h, c)
  <2>1. c + 1 # r /\ c + 1 # r + 1 /\ c + 1 # n
    BY <1>3, Apart
  <2>2. c + 1 \notin {b + 1, r, r + 1, n, n + 1}
    BY <1>1, <1>2, <1>7, <2>1
  <2>3. QED BY <1>0, <1>2, <2>2, HeaderSame
<1>8. ~IsFree(s, Sentinel) /\ b # Sentinel
  <2>1. b # Sentinel /\ ~IsFree(h, Sentinel)
    BY Pool DEF Tiled
  <2>2. QED BY <1>6, <1>7, <2>1
<1>9. n # b /\ \A c \in E : c # b => SizeOf(s, c) = SizeOf(h, c)
  BY <1>1, <1>6, <1>7
<1>10. /\ r \notin E /\ Tiled(s, B \cup {r}) /\ NextOf(s, b) = r /\ NextOf(s, r) = n
       /\ \A c \in B : c # b => NextOf(s, c) = NextOf(h, c)
  <2>1. \A c \in B \cup {Sentinel, b + 1 + size} : Header(s, c)
    BY <1>1, <1>4, <1>5, <1>6, <1>7
  <2>2. SizeOf(s, b + 1 + size) = SizeOf(h, b) - (size + 1) /\ size >= 3 /\ SizeOf(h, b) >= size + 4
    BY <1>1, <1>5
  <2>3. /\ Tiled(s, B \cup {b + 1 + size}) /\ b + 1 + size \notin B \cup {Sentinel}
        /\ NextOf(s, b) = b + 1 + size /\ NextOf(s, b + 1 + size) = NextOf(h, b)
        /\ \A c \in B : c # b => NextOf(s, c) = NextOf(h, c)
    <3>1. size \in Nat /\ SizeOf(s, b) = size
      BY <1>1, <1>4
    <3> HIDE DEF size
    <3>2. QED BY <1>8, <1>9, <2>1, <2>2, <3>1, TiledSplit
  <2>4. QED BY <1>1, <2>3
<1>11. ASSUME NEW c \in B \ {b}
       PROVE  /\ \A w \in (c + 2)..NextOf(h, c) : s.word[w] = h.word[w]
              /\ NextOf(h, c) \in (c + 2)..NextOf(h, c) /\ NextOf(h, c) \in E \ {n}
  <2>1. ASSUME NEW w \in (c + 2)..NextOf(h, c) PROVE s.word[w] = h.word[w]
    <3>1. w \in 0..PoolWords /\ w # b + 1 /\ w # n + 1
      BY <1>1, Apart, DataWords
    <3>2. w # r /\ w # r + 1 /\ w # n
      BY <1>3, Apart
    <3>3. QED BY <1>0, <3>1, <3>2
  <2>2. NextOf(h, c) \in E \ {n} /\ NextOf(h, c) \in (c + 2)..NextOf(h, c)
    BY Apart, DataWords
  <2>3. QED BY <2>1, <2>2
<1>12. Flagged(s, B \cup {r}, F \cup {r}, Q)
  <2>1. F \cup {r} \subseteq B \cup {r} /\ Q \subseteq B \cup {r}
    BY <1>0a DEF Flagged
  <2>2. ~IsPrevFree(s, 0)
    <3>1. 0 \in B /\ 0 # n
      BY <1>1 DEF Tiled
    <3>2. QED BY <1>4, <1>7, <3>1 DEF Flagged
  <2>3. ASSUME NEW c \in B \cup {r} PROVE IsFree(s, c) <=> c \in F \cup {r}
    BY <1>4, <1>5, <1>6, <1>7, <1>10 DEF Flagged
  <2>4. ASSUME NEW c \in B \cup {r} PROVE IsPrevFree(s, NextOf(s, c)) <=> c \in Q
    <3>1. CASE c = b
      BY <1>0a, <1>1, <1>5, <1>10, <3>1
    <3>2. CASE c = r
      BY <1>0a, <1>1, <1>6, <1>10, <3>2
    <3>3. CASE c # b /\ c # r
      <4>1. IsPrevFree(s, NextOf(h, c)) = IsPrevFree(h, NextOf(h, c))
        BY <1>4, <1>7, <1>11, <3>3
      <4>2. c \in Q <=> c \in P
        BY <1>0a, <3>3
      <4>3. QED BY <1>10, <3>3, <4>1, <4>2 DEF Flagged
    <3>4. QED BY <3>1, <3>2, <3>3
  <2>5. ASSUME NEW c \in Q PROVE s.word[NextOf(s, c)] = <<"prev", c>>
    <3>1. CASE c = b
      BY <1>0a, <1>1, <1>10, <2>5, <3>1
    <3>2. CASE c = r
      BY <1>0, <1>10, <3>2
    <3>3. CASE c # b /\ c # r
      <4>1. c \in P /\ c \in B \ {b}
        BY <1>0a, <2>1, <2>5, <3>3
      <4>2. QED BY <1>10, <1>11, <4>1 DEF Flagged
    <3>4. QED BY <3>1, <3>2, <3>3
  <2>6. QED BY <2>1, <2>2, <2>3, <2>4, <2>5 DEF Flagged
<1>13. Keeps(h, s, B \ {b})
  BY <1>9, <1>11 DEF Keeps
<1>14. KeepsFirst(h, s, b, size - 1)
  <2> SUFFICES ASSUME NEW w \in (b + 2)..(b + 1 + (size - 1)) PROVE s.word[w] = h.word[w]
    BY DEF KeepsFirst
  <2>1. w \in 0..PoolWords /\ w \notin {b + 1, r, r + 1, n, n + 1}
    BY <1>1, Pool
  <2>2. QED BY <1>0, <2>1
<1>15. QED BY <1>4, <1>9, <1>10, <1>12, <1>13, <1>14

\* What splitting block b at r leaves
Halved(h, s, B, F, Q, b, r, size) ==
  /\ r \notin B \cup {Sentinel} /\ Shaped(s) /\ Tiled(s, B \cup {r}) /\ SameLists(h, s)
  /\ Flagged(s, B \cup {r}, F \cup {r}, Q)
  /\ SizeOf(s, b) = size /\ NextOf(s, r) = NextOf(h, b)
  /\ \A c \in B : c # b => SizeOf(s, c) = SizeOf(h, c)
  /\ Keeps(h, s, B \ {b})

\* A free block is split: the second part is told that the first is free.
LEMMA SplitFreeIs ==
  ASSUME NEW h, NEW B, NEW F, NEW P, Shaped(h), Tiled(h, B), Flagged(h, B, F, P), NEW b \in B,
         NEW size \in Nat, size >= 3, SizeOf(h, b) >= size + 4, NEW r, r = b + 1 + size,
         NEW s, s = SetPrevFree(LinkNext(Split(h, b, size), b), r, TRUE)
  PROVE  Halved(h, s, B, F, P \cup {b, r}, b, r, size)
<1> DEFINE x == Split(h, b, size)
           y == LinkNext(x, b)
           n == NextOf(h, b)
           left == SizeOf(h, b) - (size + 1)
           there == <<"size", left, TRUE, TRUE>>
           link == <<"prev", b>>
<1>0. /\ b \in Nat /\ n \in Nat /\ n = b + 1 + SizeOf(h, b) /\ SizeOf(h, b) \in Nat
      /\ n <= Sentinel /\ r \in Nat /\ left \in Nat /\ b + 4 <= r /\ r + 4 <= n
      /\ r - b - 1 = size /\ left = n - r - 1 /\ r - b - 1 >= 3 /\ SizeOf(h, b) >= (r - b - 1) + 4
  BY Apart
<1>1. /\ Shaped(x) /\ SameLists(h, x)
      /\ x.word[b + 1] = <<"size", size, IsFree(h, b), IsPrevFree(h, b)>>
      /\ x.word[r + 1] = <<"size", left, TRUE, h.junk>>
      /\ x.word[n] = <<"prev", r>>
      /\ x.word[n + 1] = <<"size", SizeOf(h, n), IsFree(h, n), TRUE>>
      /\ \A w \in 0..PoolWords : w \notin {b + 1, r + 1, n, n + 1} => x.word[w] = h.word[w]
  <2>1. IsSplit(h, x, b, r, n)
    BY SplitWords
  <2> HIDE DEF x, left, n
  <2>2. QED BY <1>0, <2>1 DEF IsSplit
<1> HIDE DEF x
<1>2. /\ b \in Nat /\ n \in Nat /\ n = b + 1 + SizeOf(h, b) /\ SizeOf(h, b) \in Nat
      /\ n <= Sentinel /\ r \in Nat /\ left \in Nat /\ b + 4 <= r /\ r + 4 <= n
  BY Apart
<1>3. {b + 1, r, r + 1, n, n + 1} \subseteq 0..PoolWords
  BY <1>2, Pool
<1>4. y = Put(x, r, link)
  <2>1. SizeOf(x, b) = size
    BY <1>1 DEF SizeOf
  <2>2. NextOf(x, b) = r
    BY <2>1 DEF NextOf
  <2>3. QED BY <2>2 DEF LinkNext, Put
<1> HIDE DEF y
<1>5. /\ Shaped(y) /\ SameLists(h, y) /\ y.word[r] = link
      /\ \A w \in 0..PoolWords : w # r => y.word[w] = x.word[w]
  <2> HIDE DEF link
  <2> QED BY <1>1, <1>3, <1>4, PutIs DEF SameLists
<1>6. Header(y, r) /\ SizeOf(y, r) = left /\ IsFree(y, r) = TRUE
  <2>1. y.word[r + 1] = x.word[r + 1]
    BY <1>2, <1>3, <1>5
  <2>2. h.junk \in BOOLEAN
    BY DEF Shaped
  <2>3. /\ y.word[r + 1] = <<"size", left, TRUE, h.junk>>
        /\ left \in Nat /\ TRUE \in BOOLEAN /\ h.junk \in BOOLEAN
    BY <1>1, <1>2, <2>1, <2>2
  <2> HIDE DEF left
  <2>4. QED BY ONLY <2>3, HeaderWord
<1>7. s = Put(y, r + 1, there)
  <2>1. Shaped(y) /\ r + 1 \in 0..PoolWords /\ Header(y, r)
    BY <1>3, <1>5, <1>6
  <2>2. SetPrevFree(y, r, TRUE) = Put(y, r + 1, <<"size", SizeOf(y, r), IsFree(y, r), TRUE>>)
    BY <2>1, PrevFreePut
  <2>3. QED BY <1>6, <2>2 DEF y, x
<1>8. /\ Shaped(s) /\ SameLists(h, s) /\ s.word[r + 1] = there
      /\ \A w \in 0..PoolWords : w # r + 1 => s.word[w] = y.word[w]
  <2>1. Shaped(y) /\ r + 1 \in 0..PoolWords /\ SameLists(h, y)
    BY <1>3, <1>5
  <2> HIDE DEF there
  <2>2. QED BY ONLY <1>7, <2>1, PutIs DEF SameLists
<1>9. /\ s.word[b + 1] = <<"size", size, IsFree(h, b), IsPrevFree(h, b)>>
      /\ s.word[r] = <<"prev", b>> /\ s.word[n] = <<"prev", r>>
      /\ s.word[n + 1] = <<"size", SizeOf(h, n), IsFree(h, n), TRUE>>
      /\ \A w \in 0..PoolWords : w \notin {b + 1, r, r + 1, n, n + 1} => s.word[w] = h.word[w]
  <2>1. b + 1 # r /\ b + 1 # r + 1 /\ r # r + 1 /\ n # r /\ n # r + 1 /\ n + 1 # r /\ n + 1 # r + 1
    BY <1>2
  <2>2. QED BY <1>1, <1>3, <1>5, <1>8, <2>1
<1>10. Header(s, r) /\ SizeOf(s, r) = left /\ IsFree(s, r) /\ IsPrevFree(s, r)
  <2>1. /\ s.word[r + 1] = <<"size", left, TRUE, TRUE>>
        /\ left \in Nat /\ TRUE \in BOOLEAN /\ FALSE \in BOOLEAN
    BY <1>0, <1>8
  <2> HIDE DEF left
  <2>2. QED BY ONLY <2>1, HeaderWord
<1> DEFINE Q == P \cup {b, r}
<1>11. b \in Q /\ Q \ {b} = (P \cup {r}) \ {b}
  OBVIOUS
<1> HIDE DEF Q
<1>12. /\ r \notin B \cup {Sentinel} /\ Tiled(s, B \cup {r}) /\ Flagged(s, B \cup {r}, F \cup {r}, Q)
       /\ SizeOf(s, b) = r - b - 1 /\ NextOf(s, b) = r /\ NextOf(s, r) = n
       /\ \A c \in B : c # b => SizeOf(s, c) = SizeOf(h, c)
       /\ Keeps(h, s, B \ {b}) /\ KeepsFirst(h, s, b, (r - b - 1) - 1)
  <2>1. Divides(h, s, b, r, n)
    <3> HIDE DEF n, left
    <3> QED BY <1>0, <1>9, <1>10 DEF Divides
  <2>2. KnownFree(s, b, r, P, Q)
    BY <1>9, <1>10, <1>11 DEF KnownFree
  <2>3. /\ Tiled(h, B) /\ Flagged(h, B, F, P) /\ b \in B /\ r \in Nat /\ r - b - 1 >= 3
        /\ SizeOf(h, b) >= (r - b - 1) + 4
    BY <1>0
  <2>4. QED BY ONLY <2>1, <2>2, <2>3, SplitIs
<1>13. SizeOf(s, b) = size
  BY <1>0, <1>12
<1>14. QED BY <1>8, <1>12, <1>13 DEF Q, Halved, n

\* A used block is split: the second part is told that the first is used.
LEMMA SplitUsedIs ==
  ASSUME NEW h, NEW B, NEW F, NEW P, Shaped(h), Tiled(h, B), Flagged(h, B, F, P), NEW b \in B,
         NEW size \in Nat, size >= 3, SizeOf(h, b) >= size + 4, NEW r, r = b + 1 + size,
         NEW s, s = SetPrevFree(Split(h, b, size), r, FALSE)
  PROVE  Halved(h, s, B, F, (P \cup {r}) \ {b}, b, r, size) /\ KeepsFirst(h, s, b, size)
<1> DEFINE x == Split(h, b, size)
           n == NextOf(h, b)
           left == SizeOf(h, b) - (size + 1)
           there == <<"size", left, TRUE, FALSE>>
<1>0. /\ b \in Nat /\ n \in Nat /\ n = b + 1 + SizeOf(h, b) /\ SizeOf(h, b) \in Nat
      /\ n <= Sentinel /\ r \in Nat /\ left \in Nat /\ b + 4 <= r /\ r + 4 <= n
      /\ r - b - 1 = size /\ left = n - r - 1 /\ r - b - 1 >= 3 /\ SizeOf(h, b) >= (r - b - 1) + 4
  BY Apart
<1>1. /\ Shaped(x) /\ SameLists(h, x)
      /\ x.word[b + 1] = <<"size", size, IsFree(h, b), IsPrevFree(h, b)>>
      /\ x.word[r + 1] = <<"size", left, TRUE, h.junk>>
      /\ x.word[n] = <<"prev", r>>
      /\ x.word[n + 1] = <<"size", SizeOf(h, n), IsFree(h, n), TRUE>>
      /\ \A w \in 0..PoolWords : w \notin {b + 1, r + 1, n, n + 1} => x.word[w] = h.word[w]
  <2>1. IsSplit(h, x, b, r, n)
    BY SplitWords
  <2> HIDE DEF x, left, n
  <2>2. QED BY <1>0, <2>1 DEF IsSplit
<1> HIDE DEF x
<1>2. /\ b \in Nat /\ n \in Nat /\ n = b + 1 + SizeOf(h, b) /\ SizeOf(h, b) \in Nat
      /\ n <= Sentinel /\ r \in Nat /\ left \in Nat /\ b + 4 <= r /\ r + 4 <= n
  BY Apart
<1>3. {b + 1, r, r + 1, n, n + 1} \subseteq 0..PoolWords
  BY <1>2, Pool
<1>6. Header(x, r) /\ SizeOf(x, r) = left /\ IsFree(x, r) = TRUE
  <2>1. h.junk \in BOOLEAN
    BY DEF Shaped
  <2>2. /\ x.word[r + 1] = <<"size", left, TRUE, h.junk>>
        /\ left \in Nat /\ TRUE \in BOOLEAN /\ h.junk \in BOOLEAN
    BY <1>1, <1>2, <2>1
  <2> HIDE DEF left
  <2>3. QED BY ONLY <2>2, HeaderWord
<1>7. s = Put(x, r + 1, there)
  <2>1. Shaped(x) /\ r + 1 \in 0..PoolWords /\ Header(x, r)
    BY <1>1, <1>3, <1>6
  <2>2. SetPrevFree(x, r, FALSE) = Put(x, r + 1, <<"size", SizeOf(x, r), IsFree(x, r), FALSE>>)
    BY <2>1, PrevFreePut
  <2>3. QED BY <1>6, <2>2 DEF x
<1>8. /\ Shaped(s) /\ SameLists(h, s) /\ s.word[r + 1] = there
      /\ \A w \in 0..PoolWords : w # r + 1 => s.word[w] = x.word[w]
  <2>1. Shaped(x) /\ r + 1 \in 0..PoolWords /\ SameLists(h, x)
    BY <1>1, <1>3
  <2> HIDE DEF there
  <2>2. QED BY ONLY <1>7, <2>1, PutIs DEF SameLists
<1>9. /\ s.word[b + 1] = <<"size", size, IsFree(h, b), IsPrevFree(h, b)>>
      /\ s.word[r] = h.word[r] /\ s.word[n] = <<"prev", r>>
      /\ s.word[n + 1] = <<"size", SizeOf(h, n), IsFree(h, n), TRUE>>
      /\ \A w \in 0..PoolWords : w \notin {b + 1, r, r + 1, n, n + 1} => s.word[w] = h.word[w]
  <2>1. b + 1 # r /\ b + 1 # r + 1 /\ r # r + 1 /\ n # r /\ n # r + 1 /\ n + 1 # r /\ n + 1 # r + 1
    BY <1>2
  <2>2. QED BY <1>1, <1>3, <1>8, <2>1
<1>10. Header(s, r) /\ SizeOf(s, r) = left /\ IsFree(s, r) /\ ~IsPrevFree(s, r)
  <2>1. /\ s.word[r + 1] = <<"size", left, TRUE, FALSE>>
        /\ left \in Nat /\ TRUE \in BOOLEAN /\ FALSE \in BOOLEAN
    BY <1>0, <1>8
  <2> HIDE DEF left
  <2>2. QED BY ONLY <2>1, HeaderWord
<1> DEFINE Q == (P \cup {r}) \ {b}
<1>11. b \notin Q /\ Q \ {b} = (P \cup {r}) \ {b}
  OBVIOUS
<1> HIDE DEF Q
<1>12. /\ r \notin B \cup {Sentinel} /\ Tiled(s, B \cup {r}) /\ Flagged(s, B \cup {r}, F \cup {r}, Q)
       /\ SizeOf(s, b) = r - b - 1 /\ NextOf(s, b) = r /\ NextOf(s, r) = n
       /\ \A c \in B : c # b => SizeOf(s, c) = SizeOf(h, c)
       /\ Keeps(h, s, B \ {b}) /\ KeepsFirst(h, s, b, (r - b - 1) - 1)
  <2>1. Divides(h, s, b, r, n)
    <3> HIDE DEF n, left
    <3> QED BY <1>0, <1>9, <1>10 DEF Divides
  <2>2. KnownFree(s, b, r, P, Q)
    BY <1>9, <1>10, <1>11 DEF KnownFree
  <2>3. /\ Tiled(h, B) /\ Flagged(h, B, F, P) /\ b \in B /\ r \in Nat /\ r - b - 1 >= 3
        /\ SizeOf(h, b) >= (r - b - 1) + 4
    BY <1>0
  <2>4. QED BY ONLY <2>1, <2>2, <2>3, SplitIs
<1>13. KeepsFirst(h, s, b, size)
  <2> SUFFICES ASSUME NEW w \in (b + 2)..(b + 1 + size) PROVE s.word[w] = h.word[w]
    BY DEF KeepsFirst
  <2>1. w = r \/ w \in (b + 2)..(b + 1 + ((r - b - 1) - 1))
    BY <1>0
  <2>2. QED BY <1>9, <1>12, <2>1 DEF KeepsFirst
<1>14. SizeOf(s, b) = size
  BY <1>0, <1>12
<1>15. QED BY <1>8, <1>12, <1>13, <1>14 DEF Q, Halved, n

-----------------------------------------------------------------------------
(* Free lists *)

\* The free lists hold the blocks L, each in that of its class and once, and the bits
\* are those of the lists that have blocks.
Listed(h, L) ==
  /\ h.lists \in [Classes -> Seq(Nat)]
  /\ \A c \in Classes : /\ ToSet(h.lists[c]) = {b \in L : MappingInsert(SizeOf(h, b)) = c}
                        /\ IsInjective(h.lists[c])
  /\ h.sl = {c \in Classes : h.lists[c] # <<>>}
  /\ h.fl = {c[1] : c \in h.sl}

\* They do while they and the sizes stay the same.
LEMMA ListedStill ==
  ASSUME NEW h, NEW L, Listed(h, L), NEW s, SameLists(h, s), \A b \in L : SizeOf(s, b) = SizeOf(h, b)
  PROVE  Listed(s, L)
<1>1. \A c \in Classes : {b \in L : MappingInsert(SizeOf(s, b)) = c} = {b \in L : MappingInsert(SizeOf(h, b)) = c}
  OBVIOUS
<1>2. s.lists = h.lists /\ s.sl = h.sl /\ s.fl = h.fl
  BY DEF SameLists
<1>3. QED BY <1>1, <1>2 DEF Listed

\* A block of the list of a class has that class.
LEMMA ListedHas ==
  ASSUME NEW h, NEW L, Listed(h, L), NEW c \in h.sl
  PROVE  /\ c \in Classes /\ Head(h.lists[c]) \in L /\ MappingInsert(SizeOf(h, Head(h.lists[c]))) = c
<1>1. c \in Classes /\ h.lists[c] # <<>> /\ h.lists[c] \in Seq(Nat)
  BY DEF Listed
<1>2. Head(h.lists[c]) \in ToSet(h.lists[c])
  <2> DEFINE q == h.lists[c]
  <2>1. q \in Seq(Nat) /\ q # <<>>
    BY <1>1
  <2> HIDE DEF q
  <2>2. ToSet(q) = ToSet(Tail(q)) \cup {Head(q)}
    BY <2>1, HeadAndTail
  <2>3. Head(q) \in ToSet(q)
    BY <2>2
  <2>4. QED BY <2>3 DEF q
<1>3. QED BY <1>1, <1>2 DEF Listed

\* A block is taken from the list of its class.
LEMMA RemoveFreeIs ==
  ASSUME NEW h, Shaped(h), NEW L, Listed(h, L), NEW b \in L, NEW class \in Classes,
         class = MappingInsert(SizeOf(h, b))
  PROVE  /\ Shaped(RemoveFree(h, b, class)) /\ RemoveFree(h, b, class).word = h.word
         /\ Listed(RemoveFree(h, b, class), L \ {b})
<1> DEFINE list == h.lists[class]
           at == CHOOSE i \in DOMAIN list : list[i] = b
           rest == RemoveAt(list, at)
           sl == IF rest = <<>> THEN h.sl \ {class} ELSE h.sl
           fl == IF \E c \in sl : c[1] = class[1] THEN h.fl ELSE h.fl \ {class[1]}
           lists == [h.lists EXCEPT ![class] = rest]
           s == RemoveFree(h, b, class)
<1>1. /\ h.lists \in [Classes -> Seq(Nat)] /\ list \in Seq(Nat) /\ IsInjective(list)
      /\ ToSet(list) = {x \in L : MappingInsert(SizeOf(h, x)) = class}
      /\ h.sl = {c \in Classes : h.lists[c] # <<>>} /\ h.fl = {c[1] : c \in h.sl}
  BY DEF Listed
<1>2. at \in DOMAIN list /\ list[at] = b
  <2>1. b \in ToSet(list)
    BY <1>1
  <2>2. \E i \in DOMAIN list : list[i] = b
    BY <2>1 DEF ToSet
  <2>3. QED BY <2>2
<1>3. rest \in Seq(Nat) /\ IsInjective(rest) /\ ToSet(rest) = ToSet(list) \ {b}
  <2> HIDE DEF at, list
  <2> QED BY <1>1, <1>2, RemovedFrom
<1>4. list # <<>>
  <2>1. DOMAIN list # {}
    BY <1>2
  <2>2. QED BY <2>1
<1>5. s = [word |-> h.word, lists |-> lists, fl |-> fl, sl |-> sl, junk |-> h.junk]
  <2> DEFINE x1 == [h EXCEPT !.lists[class] = rest]
             x2 == [x1 EXCEPT !.sl = sl]
             x3 == [x2 EXCEPT !.fl = fl]
             word == h.word
             old == h.lists
             oldfl == h.fl
             oldsl == h.sl
             junk == h.junk
  <2>1. s = x3
    BY DEF RemoveFree
  <2>2. h = [word |-> word, lists |-> old, fl |-> oldfl, sl |-> oldsl, junk |-> junk]
    BY DEF Shaped
  <2>3. lists = [old EXCEPT ![class] = rest]
    OBVIOUS
  <2> HIDE DEF word, old, oldfl, oldsl, junk, lists, fl, sl, rest
  <2>4. x1 = [word |-> word, lists |-> lists, fl |-> oldfl, sl |-> oldsl, junk |-> junk]
    BY <2>2, <2>3
  <2> HIDE DEF x1
  <2>5. x2 = [word |-> word, lists |-> lists, fl |-> oldfl, sl |-> sl, junk |-> junk]
    BY <2>4
  <2> HIDE DEF x2
  <2>6. x3 = [word |-> word, lists |-> lists, fl |-> fl, sl |-> sl, junk |-> junk]
    BY <2>5
  <2> HIDE DEF x3
  <2>7. QED BY <2>1, <2>6 DEF word, junk
<1> HIDE DEF s, lists, fl, at, list
<1>6. s.word = h.word /\ s.lists = lists /\ s.fl = fl /\ s.sl = sl /\ s.junk = h.junk
  BY <1>5
<1>7. Shaped(s)
  BY <1>5, <1>6 DEF Shaped
<1> HIDE DEF rest, sl
<1>8. /\ lists \in [Classes -> Seq(Nat)] /\ lists[class] = rest
      /\ \A c \in Classes : c # class => lists[c] = h.lists[c]
  BY <1>1, <1>3 DEF lists
<1>9. \A x : SizeOf(s, x) = SizeOf(h, x)
  BY <1>6 DEF SizeOf
<1>10. ASSUME NEW c \in Classes
       PROVE  /\ ToSet(lists[c]) = {x \in L \ {b} : MappingInsert(SizeOf(s, x)) = c}
              /\ IsInjective(lists[c])
  <2>1. CASE c = class
    BY <1>1, <1>3, <1>8, <1>9, <2>1
  <2>2. CASE c # class
    <3>1. /\ ToSet(h.lists[c]) = {x \in L : MappingInsert(SizeOf(h, x)) = c} /\ IsInjective(h.lists[c])
      BY DEF Listed
    <3>2. QED BY <1>8, <1>9, <2>2, <3>1
  <2>3. QED BY <2>1, <2>2
<1>11. sl = {c \in Classes : lists[c] # <<>>}
  BY <1>1, <1>4, <1>8 DEF sl, list
<1>12. fl = {c[1] : c \in sl}
  <2>1. sl \subseteq h.sl /\ h.sl \subseteq sl \cup {class}
    BY DEF sl
  <2>2. CASE \E c \in sl : c[1] = class[1]
    <3>1. fl = h.fl
      BY <2>2 DEF fl
    <3>2. {c[1] : c \in h.sl} = {c[1] : c \in sl}
      BY <2>1, <2>2
    <3>3. QED BY <1>1, <3>1, <3>2
  <2>3. CASE ~\E c \in sl : c[1] = class[1]
    <3>1. fl = h.fl \ {class[1]}
      BY <2>3 DEF fl
    <3>2. {c[1] : c \in h.sl} \ {class[1]} = {c[1] : c \in sl}
      BY <2>1, <2>3
    <3>3. QED BY <1>1, <3>1, <3>2
  <2>4. QED BY <2>2, <2>3
<1>13. Listed(s, L \ {b})
  BY <1>6, <1>8, <1>10, <1>11, <1>12 DEF Listed
<1>14. QED BY <1>6, <1>7, <1>13 DEF s

\* Tiles and flags stay while the words do that headers and the links to free blocks are.
LEMMA KeyWords ==
  ASSUME NEW h, NEW B, NEW F, NEW P, Tiled(h, B), Flagged(h, B, F, P), NEW s,
         \A c \in B \cup {Sentinel} : s.word[c + 1] = h.word[c + 1],
         \A c \in P : s.word[NextOf(h, c)] = h.word[NextOf(h, c)]
  PROVE  Tiled(s, B) /\ Flagged(s, B, F, P)
         /\ \A c \in B : SizeOf(s, c) = SizeOf(h, c) /\ NextOf(s, c) = NextOf(h, c)
<1>1. ASSUME NEW c \in B \cup {Sentinel}
      PROVE  Header(s, c) /\ SizeOf(s, c) = SizeOf(h, c) /\ IsFree(s, c) = IsFree(h, c)
             /\ IsPrevFree(s, c) = IsPrevFree(h, c)
  <2>1. Header(h, c)
    BY DEF Tiled
  <2>2. QED BY <2>1, HeaderSame
<1>2. ~IsFree(s, Sentinel)
  BY <1>1 DEF Tiled
<1>3. Tiled(s, B) /\ \A c \in B : NextOf(s, c) = NextOf(h, c)
  BY <1>1, <1>2, TiledStill
<1>4. 0 \in B /\ \A c \in B : NextOf(h, c) \in B \cup {Sentinel}
  BY DEF Tiled
<1>5. Flagged(s, B, F, P)
  <2>1. F \subseteq B /\ P \subseteq B /\ ~IsPrevFree(s, 0)
    BY <1>1, <1>4 DEF Flagged
  <2>2. \A c \in B : (IsFree(s, c) <=> c \in F) /\ (IsPrevFree(s, NextOf(s, c)) <=> c \in P)
    BY <1>1, <1>3, <1>4 DEF Flagged
  <2>3. \A c \in P : s.word[NextOf(s, c)] = <<"prev", c>>
    BY <1>3, <2>1 DEF Flagged
  <2>4. QED BY <2>1, <2>2, <2>3 DEF Flagged
<1>6. QED BY <1>1, <1>3, <1>5

\* A block is put into the list of its class: its links are written.
LEMMA InsertWords ==
  ASSUME NEW h, NEW B, Shaped(h), Tiled(h, B), NEW L, Listed(h, L), L \subseteq B, NEW b \in B \ L
  PROVE  /\ Shaped(BlockInsert(h, b)) /\ Listed(BlockInsert(h, b), L \cup {b})
         /\ \A w \in 0..PoolWords : w # b + 2 /\ w # b + 3 => BlockInsert(h, b).word[w] = h.word[w]
<1> DEFINE class == MappingInsert(SizeOf(h, b))
           lists == [h.lists EXCEPT ![class] = <<b>> \o h.lists[class]]
           fl == h.fl \cup {class[1]}
           sl == h.sl \cup {class}
           word == [h.word EXCEPT ![b + 2] = <<"link">>, ![b + 3] = <<"link">>]
           s == BlockInsert(h, b)
<1>1. class \in Classes
  <2>1. SizeOf(h, b) \in Nat /\ SizeOf(h, b) >= 3 /\ SizeOf(h, b) < Pow2[FlLog2]
    BY Apart
  <2>2. SizeOf(h, b) < Pow2[FlLog2 + 1]
    BY <2>1, Parameters
  <2>3. QED BY <2>1, <2>2, ClassIs
<1>2. s = [word |-> word, lists |-> lists, fl |-> fl, sl |-> sl, junk |-> h.junk]
  <2> DEFINE new == <<b>> \o h.lists[class]
             x1 == [h EXCEPT !.lists[class] = new]
             x2 == [x1 EXCEPT !.fl = fl]
             x3 == [x2 EXCEPT !.sl = sl]
             x4 == [x3 EXCEPT !.word[b + 2] = <<"link">>]
             x5 == [x4 EXCEPT !.word[b + 3] = <<"link">>]
             word1 == [h.word EXCEPT ![b + 2] = <<"link">>]
             old == h.lists
             oldword == h.word
             oldfl == h.fl
             oldsl == h.sl
             junk == h.junk
  <2>1. s = x5
    BY DEF BlockInsert
  <2>2. h = [word |-> oldword, lists |-> old, fl |-> oldfl, sl |-> oldsl, junk |-> junk]
    BY DEF Shaped
  <2>3. /\ lists = [old EXCEPT ![class] = new] /\ word1 = [oldword EXCEPT ![b + 2] = <<"link">>]
        /\ word = [word1 EXCEPT ![b + 3] = <<"link">>]
    OBVIOUS
  <2> HIDE DEF word, word1, oldword, old, oldfl, oldsl, junk, lists, fl, sl, new, class
  <2>4. x1 = [word |-> oldword, lists |-> lists, fl |-> oldfl, sl |-> oldsl, junk |-> junk]
    BY <2>2, <2>3
  <2> HIDE DEF x1
  <2>5. x2 = [word |-> oldword, lists |-> lists, fl |-> fl, sl |-> oldsl, junk |-> junk]
    BY <2>4
  <2> HIDE DEF x2
  <2>6. x3 = [word |-> oldword, lists |-> lists, fl |-> fl, sl |-> sl, junk |-> junk]
    BY <2>5
  <2> HIDE DEF x3
  <2>7. x4 = [word |-> word1, lists |-> lists, fl |-> fl, sl |-> sl, junk |-> junk]
    BY <2>3, <2>6
  <2> HIDE DEF x4
  <2>8. x5 = [word |-> word, lists |-> lists, fl |-> fl, sl |-> sl, junk |-> junk]
    BY <2>3, <2>7
  <2> HIDE DEF x5, s
  <2>9. QED BY <2>1, <2>8 DEF junk
<1> HIDE DEF s, word, lists, class, fl, sl
<1>3. s.word = word /\ s.lists = lists /\ s.fl = fl /\ s.sl = sl /\ s.junk = h.junk
  BY <1>2
<1>4. h.word = [w \in 0..PoolWords |-> h.word[w]] /\ h.junk \in BOOLEAN
  BY DEF Shaped
<1>5. word = [w \in 0..PoolWords |-> word[w]]
      /\ \A w \in 0..PoolWords : w # b + 2 /\ w # b + 3 => word[w] = h.word[w]
  BY <1>4 DEF word
<1>6. Shaped(s)
  BY <1>2, <1>3, <1>4, <1>5 DEF Shaped
<1>7. b \in Nat /\ NextOf(h, b) \in Nat /\ b + 4 <= NextOf(h, b)
  BY Apart
<1>8. b + 2 \in (b + 2)..NextOf(h, b) /\ b + 3 \in (b + 2)..NextOf(h, b)
  BY <1>7
<1>9. ASSUME NEW c \in B \cup {Sentinel} PROVE s.word[c + 1] = h.word[c + 1]
  <2>1. c + 1 \in 0..PoolWords /\ c + 1 # b + 2 /\ c + 1 # b + 3
    BY <1>8, Apart, DataWords
  <2>2. QED BY <1>3, <1>5, <2>1
<1>12. \A c \in B : SizeOf(s, c) = SizeOf(h, c)
  BY <1>9, HeaderSame DEF Tiled
<1>14. /\ h.lists \in [Classes -> Seq(Nat)] /\ h.lists[class] \in Seq(Nat) /\ IsInjective(h.lists[class])
       /\ ToSet(h.lists[class]) = {x \in L : MappingInsert(SizeOf(h, x)) = class}
       /\ h.sl = {c \in Classes : h.lists[c] # <<>>} /\ h.fl = {c[1] : c \in h.sl}
  BY <1>1 DEF Listed
<1> DEFINE new == <<b>> \o h.lists[class]
<1>15. /\ new \in Seq(Nat) /\ new # <<>> /\ IsInjective(new)
       /\ ToSet(new) = ToSet(h.lists[class]) \cup {b}
  <2>1. <<b>> \in Seq(Nat) /\ ToSet(<<b>>) = {b} /\ IsInjective(<<b>>) /\ Len(<<b>>) = 1
    BY <1>7 DEF ToSet, IsInjective
  <2>2. ToSet(<<b>>) \cap ToSet(h.lists[class]) = {}
    BY <1>14, <2>1
  <2>3. /\ new \in Seq(Nat) /\ ToSet(new) = ToSet(<<b>>) \cup ToSet(h.lists[class])
        /\ Len(h.lists[class]) \in Nat /\ DOMAIN new = 1..(Len(<<b>>) + Len(h.lists[class]))
        /\ IsInjective(new)
    <3> DEFINE one == <<b>>
               others == h.lists[class]
    <3>1. /\ one \in Seq(Nat) /\ others \in Seq(Nat) /\ IsInjective(one) /\ IsInjective(others)
          /\ ToSet(one) \cap ToSet(others) = {}
      BY <1>14, <2>1, <2>2
    <3> HIDE DEF one, others
    <3>2. /\ one \o others \in Seq(Nat) /\ ToSet(one \o others) = ToSet(one) \cup ToSet(others)
          /\ Len(others) \in Nat /\ DOMAIN (one \o others) = 1..(Len(one) + Len(others))
          /\ IsInjective(one \o others)
      BY <3>1, Concatenated
    <3>3. QED BY <3>2 DEF one, others
  <2>4. new # <<>>
    <3>1. b \in ToSet(new)
      BY <2>1, <2>3
    <3>2. DOMAIN new # {}
      BY <3>1 DEF ToSet
    <3>3. QED BY <3>2
  <2>5. QED BY <2>1, <2>3, <2>4
<1> HIDE DEF new
<1>16. /\ lists \in [Classes -> Seq(Nat)] /\ lists[class] = new
       /\ \A c \in Classes : c # class => lists[c] = h.lists[c]
  <2>1. lists = [h.lists EXCEPT ![class] = new]
    BY DEF lists, new
  <2>2. QED BY <1>1, <1>14, <1>15, <2>1
<1>17. ASSUME NEW c \in Classes
       PROVE  /\ ToSet(lists[c]) = {x \in L \cup {b} : MappingInsert(SizeOf(s, x)) = c}
              /\ IsInjective(lists[c])
  <2>0. {x \in L \cup {b} : MappingInsert(SizeOf(s, x)) = c} = {x \in L \cup {b} : MappingInsert(SizeOf(h, x)) = c}
    BY <1>12
  <2>1. CASE c = class
    <3>1. ToSet(lists[c]) = {x \in L : MappingInsert(SizeOf(h, x)) = class} \cup {b}
      BY <1>14, <1>15, <1>16, <2>1
    <3>2. MappingInsert(SizeOf(h, b)) = class
      BY DEF class
    <3>3. QED BY <1>15, <1>16, <2>0, <2>1, <3>1, <3>2
  <2>2. CASE c # class
    <3>1. /\ ToSet(h.lists[c]) = {x \in L : MappingInsert(SizeOf(h, x)) = c} /\ IsInjective(h.lists[c])
      BY DEF Listed
    <3>2. MappingInsert(SizeOf(h, b)) # c
      BY <2>2 DEF class
    <3>3. QED BY <1>16, <2>0, <2>2, <3>1, <3>2
  <2>3. QED BY <2>1, <2>2
<1>18. sl = {c \in Classes : lists[c] # <<>>}
  BY <1>1, <1>14, <1>15, <1>16 DEF sl
<1>19. fl = {c[1] : c \in sl}
  BY <1>14 DEF fl, sl
<1>20. Listed(s, L \cup {b})
  BY <1>3, <1>16, <1>17, <1>18, <1>19 DEF Listed
<1>21. QED BY <1>3, <1>5, <1>6, <1>20 DEF s

\* The other blocks are as they were.
LEMMA BlockInsertIs ==
  ASSUME NEW h, NEW B, NEW F, NEW P, Shaped(h), Tiled(h, B), Flagged(h, B, F, P),
         NEW L, Listed(h, L), L \subseteq B, NEW b \in B \ L
  PROVE  /\ Shaped(BlockInsert(h, b)) /\ Tiled(BlockInsert(h, b), B)
         /\ Flagged(BlockInsert(h, b), B, F, P) /\ Listed(BlockInsert(h, b), L \cup {b})
         /\ \A c \in B : SizeOf(BlockInsert(h, b), c) = SizeOf(h, c)
         /\ Keeps(h, BlockInsert(h, b), B \ {b})
<1> DEFINE s == BlockInsert(h, b)
<1> HIDE DEF s
<1>6. /\ Shaped(s) /\ Listed(s, L \cup {b})
      /\ \A w \in 0..PoolWords : w # b + 2 /\ w # b + 3 => s.word[w] = h.word[w]
  BY InsertWords DEF s
<1>7. b \in Nat /\ NextOf(h, b) \in Nat /\ b + 4 <= NextOf(h, b)
  BY Apart
<1>8. b + 2 \in (b + 2)..NextOf(h, b) /\ b + 3 \in (b + 2)..NextOf(h, b)
  BY <1>7
<1>9. ASSUME NEW c \in B \cup {Sentinel} PROVE s.word[c + 1] = h.word[c + 1]
  <2>1. c + 1 \in 0..PoolWords /\ c + 1 # b + 2 /\ c + 1 # b + 3
    BY <1>8, Apart, DataWords
  <2>2. QED BY <1>6, <2>1
<1>10. ASSUME NEW u \in B \ {b}, NEW w \in (u + 2)..NextOf(h, u) PROVE s.word[w] = h.word[w]
  <2>1. w \in 0..PoolWords /\ w # b + 2 /\ w # b + 3
    BY <1>8, Apart, DataWords
  <2>2. QED BY <1>6, <2>1
<1>11. ASSUME NEW c \in P PROVE s.word[NextOf(h, c)] = h.word[NextOf(h, c)]
  <2>1. c \in B
    BY DEF Flagged
  <2>2. NextOf(h, c) \in 0..PoolWords /\ NextOf(h, c) \in (c + 2)..NextOf(h, c)
    BY <2>1, DataWords
  <2>3. CASE c = b
    BY <1>6, <1>7, <2>2, <2>3
  <2>4. CASE c # b
    BY <1>10, <2>1, <2>2, <2>4
  <2>5. QED BY <2>3, <2>4
<1>12. Tiled(s, B) /\ Flagged(s, B, F, P) /\ \A c \in B : SizeOf(s, c) = SizeOf(h, c)
  BY <1>9, <1>11, KeyWords
<1>13. Keeps(h, s, B \ {b})
  BY <1>10, <1>12 DEF Keeps
<1>14. QED BY <1>6, <1>12, <1>13 DEF s

-----------------------------------------------------------------------------
(* Heaps in order, and ones that are worked on *)

\* No two blocks of L are adjacent.
Sparse(h, L) == \A a \in L : NextOf(h, a) \notin L

\* The heap has the blocks B, the free ones of which are F.
Good(h, B, F) ==
  /\ Shaped(h) /\ Tiled(h, B) /\ Flagged(h, B, F, F) /\ Listed(h, F) /\ Sparse(h, F)

\* A heap that is worked on: all is well but for block b, which is in no list.
Open(h, B, L, b, F, P) ==
  /\ Shaped(h) /\ Tiled(h, B) /\ Flagged(h, B, F, P) /\ Listed(h, L) /\ Sparse(h, L)
  /\ b \in B \ L /\ F \ {b} = L /\ P \ {b} = L

\* Blocks that are kept as they are twice are.
LEMMA KeepsTwice ==
  ASSUME NEW h, NEW s, NEW t, NEW U, Keeps(h, s, U), Keeps(s, t, U)
  PROVE  Keeps(h, t, U)
<1>1. \A u \in U : NextOf(s, u) = NextOf(h, u)
  BY DEF Keeps, NextOf
<1>2. QED BY <1>1 DEF Keeps

\* The blocks kept include those of a smaller set.
LEMMA KeepsFewer ==
  ASSUME NEW h, NEW s, NEW U, Keeps(h, s, U), NEW V, V \subseteq U
  PROVE  Keeps(h, s, V)
BY DEF Keeps

\* A block behind the first one is behind another.
LEMMA Predecessor ==
  ASSUME NEW h, NEW B, Tiled(h, B), NEW b \in B \cup {Sentinel}, b # 0
  PROVE  \E p \in B : NextOf(h, p) = b
<1> DEFINE S == {k \in 1..b : b - k \in B}
<1>1. b \in Nat /\ 0 \in B /\ b <= Sentinel
  BY Apart DEF Tiled
<1>2. b \in S /\ S \subseteq Nat
  BY <1>1
<1>3. PICK k \in S : \A j \in S : k <= j
  <2> HIDE DEF S
  <2>1. S # {}
    BY <1>2
  <2>2. Min(S) \in S /\ \A j \in S : Min(S) <= j
    BY <1>2, <2>1, MinOf
  <2>3. QED BY <2>2
<1> DEFINE p == b - k
<1>4. p \in B /\ k \in 1..b
  OBVIOUS
<1>5. /\ NextOf(h, p) \in B \cup {Sentinel} /\ NextOf(h, p) \in Nat /\ NextOf(h, p) > p /\ p \in Nat
      /\ NextOf(h, p) <= b
  BY <1>1, <1>4, Apart
<1>6. CASE NextOf(h, p) = b
  BY <1>4, <1>6
<1>7. CASE NextOf(h, p) # b
  <2>1. NextOf(h, p) < b /\ NextOf(h, p) \in B
    BY <1>1, <1>5, <1>7, Pool
  <2>2. b - NextOf(h, p) \in S
    BY <1>1, <1>5, <2>1
  <2>3. b - NextOf(h, p) < k
    BY <1>1, <1>4, <1>5
  <2> HIDE DEF p, S
  <2>4. k \in Nat
    BY <1>4
  <2>5. k <= b - NextOf(h, p)
    BY <1>3, <2>2
  <2>6. QED BY <1>1, <1>5, <2>3, <2>4, <2>5
<1>8. QED BY <1>6, <1>7

\* The block that a link leads to
LEMMA PrevIs ==
  ASSUME NEW h, NEW B, NEW F, NEW P, Tiled(h, B), Flagged(h, B, F, P), NEW b \in B, IsPrevFree(h, b)
  PROVE  PrevOf(h, b) \in P /\ NextOf(h, PrevOf(h, b)) = b
<1>1. b # 0
  BY DEF Flagged
<1>2. PICK p \in B : NextOf(h, p) = b
  BY <1>1, Predecessor
<1>3. p \in P /\ h.word[b] = <<"prev", p>>
  BY <1>2 DEF Flagged
<1>4. PrevOf(h, b) = p
  BY <1>3 DEF PrevOf
<1>5. QED BY <1>2, <1>3, <1>4

\* A free block is taken out of its list.
LEMMA BlockRemoveIs ==
  ASSUME NEW h, Shaped(h), NEW B, Tiled(h, B), NEW L, Listed(h, L), L \subseteq B, NEW b \in L
  PROVE  /\ Shaped(BlockRemove(h, b)) /\ BlockRemove(h, b).word = h.word
         /\ Listed(BlockRemove(h, b), L \ {b})
<1> DEFINE class == MappingInsert(SizeOf(h, b))
<1>1. class \in Classes
  <2>1. SizeOf(h, b) \in Nat /\ SizeOf(h, b) >= 3 /\ SizeOf(h, b) < Pow2[FlLog2]
    BY Apart
  <2>2. SizeOf(h, b) < Pow2[FlLog2 + 1]
    BY <2>1, Parameters
  <2>3. QED BY <2>1, <2>2, ClassIs
<1>2. BlockRemove(h, b) = RemoveFree(h, b, class)
  BY DEF BlockRemove
<1> HIDE DEF class
<1>3. class = MappingInsert(SizeOf(h, b))
  BY DEF class
<1>4. QED BY <1>1, <1>2, <1>3, RemoveFreeIs

\* What is said of the words is true of a heap with the same ones.
LEMMA SameWords ==
  ASSUME NEW h, NEW s, s.word = h.word
  PROVE  /\ \A b : SizeOf(s, b) = SizeOf(h, b) /\ NextOf(s, b) = NextOf(h, b)
         /\ \A b : IsFree(s, b) = IsFree(h, b) /\ IsPrevFree(s, b) = IsPrevFree(h, b)
         /\ \A B : Tiled(h, B) => Tiled(s, B)
         /\ \A B, F, P : Flagged(h, B, F, P) => Flagged(s, B, F, P)
         /\ \A B : Keeps(h, s, B)
         /\ \A t, B : Keeps(s, t, B) => Keeps(h, t, B)
         /\ \A t, b, n : KeepsFirst(s, t, b, n) => KeepsFirst(h, t, b, n)
<1>1. \A b : /\ SizeOf(s, b) = SizeOf(h, b) /\ NextOf(s, b) = NextOf(h, b)
             /\ IsFree(s, b) = IsFree(h, b) /\ IsPrevFree(s, b) = IsPrevFree(h, b)
             /\ (Header(h, b) <=> Header(s, b))
  BY DEF SizeOf, NextOf, IsFree, IsPrevFree, Header
<1>2. \A B : Tiled(h, B) => Tiled(s, B)
  BY <1>1 DEF Tiled
<1>3. \A B, F, P : Flagged(h, B, F, P) => Flagged(s, B, F, P)
  BY <1>1 DEF Flagged
<1>4. QED BY <1>1, <1>2, <1>3 DEF Keeps, KeepsFirst

-----------------------------------------------------------------------------
(* Blocks are merged *)

\* What a block b that took in n leaves
Absorbed(h, s, B, F, P, b, n) ==
  /\ Shaped(s) /\ Tiled(s, B \ {n})
  /\ Flagged(s, B \ {n}, F \ {n}, (P \ {n}) \cup {b})
  /\ SizeOf(s, b) = SizeOf(h, b) + SizeOf(h, n) + 1
  /\ \A c \in B \ {n} : c # b => SizeOf(s, c) = SizeOf(h, c)
  /\ Keeps(h, s, B \ {b, n}) /\ KeepsFirst(h, s, b, SizeOf(h, b))
  /\ SameLists(h, s)

\* block_absorb leaves that.
LEMMA AbsorbLeaves ==
  ASSUME NEW h, NEW B, NEW F, NEW P, Shaped(h), Tiled(h, B), Flagged(h, B, F, P),
         NEW b \in B, NEW n, n = NextOf(h, b), n \in P, NEW s, s = Absorb(h, b, n)
  PROVE  Absorbed(h, s, B, F, P, b, n)
<1> DEFINE a == Absorb(h, b, n)
<1>1. /\ Shaped(a) /\ Tiled(a, B \ {n})
      /\ Flagged(a, B \ {n}, F \ {n}, (P \ {n}) \cup {b})
      /\ SizeOf(a, b) = SizeOf(h, b) + SizeOf(h, n) + 1
      /\ \A c \in B \ {n} : c # b => SizeOf(a, c) = SizeOf(h, c)
      /\ Keeps(h, a, B \ {b, n}) /\ KeepsFirst(h, a, b, SizeOf(h, b))
      /\ SameLists(h, a)
  BY AbsorbIs
<1> HIDE DEF a
<1>2. s = a
  BY DEF a
<1>3. QED BY <1>1, <1>2 DEF Absorbed

\* What merging block b with the one behind it leaves: D has that one if it was free.
Merged(h, s, B, L, b, F, D) ==
  /\ D \subseteq L
  /\ \E Q : Open(s, B \ D, L \ D, b, F \ D, Q) /\ (IsPrevFree(h, NextOf(h, b)) => b \in Q)
  /\ NextOf(s, b) \notin L \ D
  /\ \A c \in B \ D : c # b => NextOf(s, c) = NextOf(h, c)
  /\ Keeps(h, s, B \ (L \cup {b})) /\ KeepsFirst(h, s, b, SizeOf(h, b))
  /\ SizeOf(s, b) = IF IsFree(h, NextOf(h, b)) THEN SizeOf(h, b) + SizeOf(h, NextOf(h, b)) + 1
                    ELSE SizeOf(h, b)

\* A block is merged with a free one behind it.
LEMMA MergeNextIs ==
  ASSUME NEW h, NEW B, NEW L, NEW b, NEW F, NEW P, Open(h, B, L, b, F, P)
  PROVE  \E D : Merged(h, MergeNext(h, b), B, L, b, F, D)
<1> DEFINE n == NextOf(h, b)
           s == MergeNext(h, b)
<1>1. /\ Shaped(h) /\ Tiled(h, B) /\ Flagged(h, B, F, P) /\ Listed(h, L) /\ Sparse(h, L)
      /\ b \in B /\ b \notin L /\ F \ {b} = L /\ P \ {b} = L /\ F \subseteq B /\ P \subseteq B
  BY DEF Open, Flagged
<1>2. /\ n \in B \cup {Sentinel} /\ n # b /\ b \in Nat /\ SizeOf(h, b) \in Nat
      /\ (IsPrevFree(h, n) <=> b \in P)
  BY <1>1, Apart DEF Flagged
<1>3. CASE IsFree(h, n)
  <2> DEFINE m == BlockRemove(h, n)
  <2>1. n \in L /\ n \in B /\ n \in P
    <3>1. n \in B
      BY <1>1, <1>2, <1>3 DEF Tiled
    <3>2. n \in F
      BY <1>1, <1>3, <3>1 DEF Flagged
    <3>3. QED BY <1>1, <1>2, <3>1, <3>2
  <2>2. s = Absorb(m, b, n)
    BY <1>3 DEF MergeNext
  <2>3. L \subseteq B
    BY <1>1
  <2>4. Shaped(m) /\ m.word = h.word /\ Listed(m, L \ {n})
    BY <1>1, <2>1, <2>3, BlockRemoveIs
  <2> HIDE DEF m, s, n
  <2>5. /\ Tiled(m, B) /\ Flagged(m, B, F, P) /\ \A c : SizeOf(m, c) = SizeOf(h, c) /\ NextOf(m, c) = NextOf(h, c)
        /\ \A t, U : Keeps(m, t, U) => Keeps(h, t, U)
        /\ \A t, c, k : KeepsFirst(m, t, c, k) => KeepsFirst(h, t, c, k)
    BY <1>1, <2>4, SameWords
  <2>6. n = NextOf(m, b)
    BY <2>5 DEF n
  <2>7. /\ Shaped(s) /\ Tiled(s, B \ {n})
        /\ Flagged(s, B \ {n}, F \ {n}, (P \ {n}) \cup {b})
        /\ SizeOf(s, b) = SizeOf(m, b) + SizeOf(m, n) + 1
        /\ \A c \in B \ {n} : c # b => SizeOf(s, c) = SizeOf(m, c)
        /\ Keeps(m, s, B \ {b, n}) /\ KeepsFirst(m, s, b, SizeOf(m, b))
        /\ SameLists(m, s)
    <3>1. /\ Shaped(m) /\ Tiled(m, B) /\ Flagged(m, B, F, P) /\ b \in B /\ n = NextOf(m, b) /\ n \in P
          /\ s = Absorb(m, b, n)
      BY <1>1, <2>1, <2>2, <2>4, <2>5, <2>6
    <3>2. Absorbed(m, s, B, F, P, b, n)
      BY ONLY <3>1, AbsorbLeaves
    <3>3. QED BY <3>2 DEF Absorbed
  <2>8. Listed(s, L \ {n})
    <3>1. \A c \in L \ {n} : SizeOf(s, c) = SizeOf(m, c)
      BY <1>1, <2>3, <2>7
    <3>2. QED BY <2>4, <2>7, <3>1, ListedStill
  <2>9. \A c \in B \ {n} : c # b => NextOf(s, c) = NextOf(h, c)
    BY <2>5, <2>7 DEF NextOf
  <2>10. NextOf(s, b) = NextOf(h, n)
    <3>1. n \in Nat /\ n = b + 1 + SizeOf(h, b) /\ SizeOf(h, n) \in Nat /\ NextOf(h, n) = n + 1 + SizeOf(h, n)
      BY <1>1, <2>1, Apart DEF n
    <3>2. SizeOf(s, b) = SizeOf(h, b) + SizeOf(h, n) + 1
      BY <2>5, <2>7
    <3>3. QED BY <1>2, <3>1, <3>2 DEF NextOf
  <2>11. NextOf(s, b) \notin L
    BY <1>1, <2>1, <2>10 DEF Sparse
  <2>12. Open(s, B \ {n}, L \ {n}, b, F \ {n}, (P \ {n}) \cup {b})
    <3>1. Sparse(s, L \ {n})
      BY <1>1, <2>3, <2>9 DEF Sparse
    <3>2. /\ b \in (B \ {n}) \ (L \ {n}) /\ (F \ {n}) \ {b} = L \ {n}
          /\ ((P \ {n}) \cup {b}) \ {b} = L \ {n}
      BY <1>1, <1>2 DEF n
    <3>3. QED BY <2>7, <2>8, <3>1, <3>2 DEF Open
  <2>13. Keeps(h, s, B \ (L \cup {b})) /\ KeepsFirst(h, s, b, SizeOf(h, b))
    <3>1. Keeps(h, s, B \ {b, n}) /\ KeepsFirst(h, s, b, SizeOf(h, b))
      BY <2>5, <2>7
    <3>2. B \ (L \cup {b}) \subseteq B \ {b, n}
      BY <2>1
    <3>3. QED BY <3>1, <3>2, KeepsFewer
  <2>14. SizeOf(s, b) = IF IsFree(h, n) THEN SizeOf(h, b) + SizeOf(h, n) + 1 ELSE SizeOf(h, b)
    BY <1>3, <2>5, <2>7
  <2>15. Merged(h, s, B, L, b, F, {n})
    BY <2>1, <2>9, <2>11, <2>12, <2>13, <2>14 DEF Merged, n
  <2>16. QED BY <2>15 DEF s
<1>4. CASE ~IsFree(h, n)
  <2>1. s = h
    BY <1>4 DEF MergeNext
  <2>2. n \notin L
    BY <1>1, <1>4 DEF Flagged
  <2>3. B \ {} = B /\ L \ {} = L /\ F \ {} = F
    OBVIOUS
  <2>4. Keeps(h, h, B \ (L \cup {b})) /\ KeepsFirst(h, h, b, SizeOf(h, b))
    BY DEF Keeps, KeepsFirst
  <2>5. Merged(h, h, B, L, b, F, {})
    BY <1>2, <1>4, <2>2, <2>3, <2>4 DEF Merged
  <2>6. QED BY <2>1, <2>5
<1>5. QED BY <1>3, <1>4

\* What merging block b with the one before leaves: block p, and D has b if that is another.
MergedPrev(h, r, B, L, b, p, M, D) ==
  /\ r[2] = p
  /\ Open(r[1], B \ D, M, p, M \cup {p}, M \cup {p})
  /\ (B \ D) \ (M \cup {p}) = B \ (L \cup {b})
  /\ \A a \in M : NextOf(r[1], a) # p
  /\ Keeps(h, r[1], B \ (L \cup {b}))

\* A free block is merged with a free one before it.
LEMMA MergePrevIs ==
  ASSUME NEW h, NEW B, NEW L, NEW b, Open(h, B, L, b, L \cup {b}, L \cup {b})
  PROVE  \E p, M, D : MergedPrev(h, MergePrev(h, b), B, L, b, p, M, D)
<1> DEFINE p == PrevOf(h, b)
           F == L \cup {b}
<1>1. /\ Shaped(h) /\ Tiled(h, B) /\ Flagged(h, B, F, F) /\ Listed(h, L) /\ Sparse(h, L)
      /\ b \in B /\ b \notin L /\ F \subseteq B /\ L \subseteq B /\ F \ {b} = L
  BY DEF Open, Flagged
<1>2. CASE IsPrevFree(h, b)
  <2> DEFINE m == BlockRemove(h, p)
             s == Absorb(m, p, b)
  <2>1. p \in F /\ NextOf(h, p) = b /\ NextOf(h, b) # b
    <3>1. p \in F /\ NextOf(h, p) = b
      BY <1>1, <1>2, PrevIs
    <3>2. b \in Nat /\ NextOf(h, b) = b + 1 + SizeOf(h, b) /\ SizeOf(h, b) \in Nat
      BY <1>1, Apart
    <3>3. QED BY <3>1, <3>2
  <2>2. p \in L /\ p # b /\ p \in B
    BY <1>1, <2>1
  <2>3. MergePrev(h, b) = <<s, p>>
    BY <1>2 DEF MergePrev
  <2>4. Shaped(m) /\ m.word = h.word /\ Listed(m, L \ {p})
    BY <1>1, <2>2, BlockRemoveIs
  <2> HIDE DEF m, F, p
  <2>5. /\ Tiled(m, B) /\ Flagged(m, B, F, F) /\ \A c : SizeOf(m, c) = SizeOf(h, c) /\ NextOf(m, c) = NextOf(h, c)
        /\ \A t, U : Keeps(m, t, U) => Keeps(h, t, U)
    BY <1>1, <2>4, SameWords
  <2>6. b = NextOf(m, p) /\ b \in F
    BY <2>1, <2>5 DEF F
  <2> HIDE DEF s
  <2>7. /\ Shaped(s) /\ Tiled(s, B \ {b})
        /\ Flagged(s, B \ {b}, F \ {b}, (F \ {b}) \cup {p})
        /\ \A c \in B \ {b} : c # p => SizeOf(s, c) = SizeOf(m, c)
        /\ Keeps(m, s, B \ {p, b})
        /\ SameLists(m, s)
    <3>1. s = Absorb(m, p, b)
      BY DEF s
    <3>2. /\ Shaped(m) /\ Tiled(m, B) /\ Flagged(m, B, F, F) /\ p \in B /\ b = NextOf(m, p) /\ b \in F
      BY <2>2, <2>4, <2>5, <2>6
    <3>3. Absorbed(m, s, B, F, F, p, b)
      BY ONLY <3>1, <3>2, AbsorbLeaves
    <3>4. QED BY <3>3 DEF Absorbed
  <2> DEFINE M == L \ {p}
  <2>8. Listed(s, M)
    <3>1. \A c \in M : SizeOf(s, c) = SizeOf(m, c)
      BY <1>1, <2>7
    <3>2. QED BY <2>4, <2>7, <3>1, ListedStill
  <2>9. \A a \in M : NextOf(s, a) = NextOf(h, a)
    <3>1. \A a \in M : SizeOf(s, a) = SizeOf(h, a)
      BY <1>1, <2>5, <2>7
    <3>2. QED BY <3>1 DEF NextOf
  <2>10. F \ {b} = M \cup {p} /\ (F \ {b}) \cup {p} = M \cup {p}
    BY <1>1, <2>2
  <2>11. Open(s, B \ {b}, M, p, M \cup {p}, M \cup {p})
    <3>1. Sparse(s, M)
      BY <1>1, <2>9 DEF Sparse
    <3>2. p \in (B \ {b}) \ M /\ (M \cup {p}) \ {p} = M
      BY <2>2
    <3>3. Flagged(s, B \ {b}, M \cup {p}, M \cup {p})
      BY <2>7, <2>10
    <3> HIDE DEF M
    <3>4. QED BY <2>7, <2>8, <3>1, <3>2, <3>3 DEF Open
  <2>12. \A a \in M : NextOf(s, a) # p
    BY <1>1, <2>2, <2>9 DEF Sparse
  <2>13. (B \ {b}) \ (M \cup {p}) = B \ (L \cup {b})
    BY <2>2
  <2>14. Keeps(h, s, B \ (L \cup {b}))
    <3>1. Keeps(h, s, B \ {p, b}) /\ B \ (L \cup {b}) \subseteq B \ {p, b}
      BY <2>2, <2>5, <2>7
    <3>2. QED BY <3>1, KeepsFewer
  <2>15. MergedPrev(h, <<s, p>>, B, L, b, p, M, {b})
    BY <2>11, <2>12, <2>13, <2>14 DEF MergedPrev
  <2>16. QED BY <2>3, <2>15
<1>3. CASE ~IsPrevFree(h, b)
  <2>1. MergePrev(h, b) = <<h, b>>
    BY <1>3 DEF MergePrev
  <2>2. \A a \in L : NextOf(h, a) # b
    BY <1>1, <1>3 DEF Flagged
  <2>3. B \ {} = B /\ Keeps(h, h, B \ (L \cup {b}))
    BY DEF Keeps
  <2>4. MergedPrev(h, <<h, b>>, B, L, b, b, L, {})
    BY <2>2, <2>3 DEF MergedPrev
  <2>5. QED BY <2>1, <2>4
<1>4. QED BY <1>2, <1>3

-----------------------------------------------------------------------------
(* Blocks are put back in the free lists *)

\* Blocks have the same successors where they have the same sizes.
LEMMA SparseStill ==
  ASSUME NEW h, NEW s, NEW L, Sparse(h, L), \A c \in L : SizeOf(s, c) = SizeOf(h, c)
  PROVE  Sparse(s, L)
BY DEF Sparse, NextOf

\* A used block is marked as free.
LEMMA OpenFree ==
  ASSUME NEW h, NEW B, NEW F, Good(h, B, F), NEW b \in B \ F
  PROVE  /\ Open(MarkFree(h, b), B, F, b, F \cup {b}, F \cup {b})
         /\ Keeps(h, MarkFree(h, b), B \ {b})
<1> DEFINE s == MarkFree(h, b)
<1>1. Shaped(h) /\ Tiled(h, B) /\ Flagged(h, B, F, F) /\ Listed(h, F) /\ Sparse(h, F) /\ b \in B
  BY DEF Good
<1>2. /\ Shaped(s) /\ Tiled(s, B) /\ Flagged(s, B, F \cup {b}, F \cup {b})
      /\ \A c \in B : SizeOf(s, c) = SizeOf(h, c)
      /\ Keeps(h, s, B \ {b}) /\ SameLists(h, s)
  BY <1>1, MarkFreeIs
<1> HIDE DEF s
<1>3. F \subseteq B
  BY <1>1 DEF Flagged
<1>4. Listed(s, F) /\ Sparse(s, F)
  BY <1>1, <1>2, <1>3, ListedStill, SparseStill
<1>5. (F \cup {b}) \ {b} = F
  OBVIOUS
<1>6. Open(s, B, F, b, F \cup {b}, F \cup {b})
  BY <1>2, <1>4, <1>5 DEF Open
<1>7. QED BY <1>2, <1>6 DEF s

\* The block that is worked on is marked as used.
LEMMA CloseUsed ==
  ASSUME NEW h, NEW B, NEW L, NEW b, NEW F, NEW P, Open(h, B, L, b, F, P)
  PROVE  /\ Good(MarkUsed(h, b), B, L) /\ Keeps(h, MarkUsed(h, b), B)
         /\ SizeOf(MarkUsed(h, b), b) = SizeOf(h, b)
<1> DEFINE s == MarkUsed(h, b)
<1>1. /\ Shaped(h) /\ Tiled(h, B) /\ Flagged(h, B, F, P) /\ Listed(h, L) /\ Sparse(h, L)
      /\ b \in B /\ F \ {b} = L /\ P \ {b} = L
  BY DEF Open
<1>2. /\ Shaped(s) /\ Tiled(s, B) /\ Flagged(s, B, F \ {b}, P \ {b})
      /\ \A c \in B : SizeOf(s, c) = SizeOf(h, c)
      /\ Keeps(h, s, B) /\ SameLists(h, s)
  BY <1>1, MarkUsedIs
<1> HIDE DEF s
<1>3. L \subseteq B
  BY <1>1 DEF Flagged
<1>4. Listed(s, L) /\ Sparse(s, L)
  BY <1>1, <1>2, <1>3, ListedStill, SparseStill
<1>5. Flagged(s, B, L, L)
  BY <1>1, <1>2
<1>6. Good(s, B, L)
  BY <1>2, <1>4, <1>5 DEF Good
<1>7. QED BY <1>1, <1>2, <1>6 DEF s

\* What putting b into a list leaves
Inserted(h, s, B, F, P, L, b) ==
  /\ Shaped(s) /\ Tiled(s, B) /\ Flagged(s, B, F, P) /\ Listed(s, L \cup {b})
  /\ \A c \in B : SizeOf(s, c) = SizeOf(h, c)
  /\ Keeps(h, s, B \ {b})

\* block_insert leaves that.
LEMMA InsertLeaves ==
  ASSUME NEW h, NEW B, NEW F, NEW P, Shaped(h), Tiled(h, B), Flagged(h, B, F, P),
         NEW L, Listed(h, L), L \subseteq B, NEW b \in B, b \notin L
  PROVE  Inserted(h, BlockInsert(h, b), B, F, P, L, b)
<1>1. b \in B \ L
  OBVIOUS
<1>2. QED BY <1>1, BlockInsertIs DEF Inserted

\* The block that is worked on is put into a list: it is free and so is none beside it.
LEMMA CloseFree ==
  ASSUME NEW h, NEW B, NEW L, NEW b, NEW P, NEW F, Open(h, B, L, b, F, P), F = L \cup {b}, P = L \cup {b},
         NextOf(h, b) \notin L, \A a \in L : NextOf(h, a) # b
  PROVE  /\ Good(BlockInsert(h, b), B, L \cup {b}) /\ Keeps(h, BlockInsert(h, b), B \ {b})
         /\ \A c \in B : SizeOf(BlockInsert(h, b), c) = SizeOf(h, c)
<1> DEFINE s == BlockInsert(h, b)
<1>1. /\ Shaped(h) /\ Tiled(h, B) /\ Flagged(h, B, F, F) /\ Listed(h, L) /\ Sparse(h, L)
      /\ b \in B \ L /\ L \subseteq B
  BY DEF Open, Flagged
<1>2. /\ Shaped(s) /\ Tiled(s, B) /\ Flagged(s, B, F, F) /\ Listed(s, L \cup {b})
      /\ \A c \in B : SizeOf(s, c) = SizeOf(h, c)
      /\ Keeps(h, s, B \ {b})
  <2>1. Shaped(h) /\ Tiled(h, B) /\ Flagged(h, B, F, F) /\ Listed(h, L) /\ L \subseteq B /\ b \in B /\ b \notin L
    BY <1>1
  <2>2. Inserted(h, s, B, F, F, L, b)
    BY ONLY <2>1, InsertLeaves DEF s
  <2>3. QED BY <2>2 DEF Inserted
<1> HIDE DEF s
<1>3. NextOf(h, b) # b
  <2>1. b \in Nat /\ NextOf(h, b) = b + 1 + SizeOf(h, b) /\ SizeOf(h, b) \in Nat
    BY <1>1, Apart
  <2>2. QED BY <2>1
<1>4. Sparse(h, F)
  BY <1>1, <1>3 DEF Sparse
<1>5. Sparse(s, F)
  <2>1. \A c \in F : SizeOf(s, c) = SizeOf(h, c)
    BY <1>1, <1>2
  <2>2. QED BY <1>4, <2>1, SparseStill
<1>6. Good(s, B, F)
  BY <1>2, <1>5 DEF Good
<1>7. QED BY <1>2, <1>6 DEF s

\* A free block in no list, none before which is free
Loose(h, A, M, p) == Open(h, A, M, p, M \cup {p}, M \cup {p}) /\ \A a \in M : NextOf(h, a) # p

\* The heap is in order again, has the used blocks U and kept them as they were.
Restored(h, s, U) == \E C, G : Good(s, C, G) /\ C \ G = U /\ Keeps(h, s, U)

\* Such a block is merged with one behind it and put into a list.
LEMMA MergeClose ==
  ASSUME NEW h, NEW A, NEW M, NEW p, Loose(h, A, M, p)
  PROVE  Restored(h, BlockInsert(MergeNext(h, p), p), A \ (M \cup {p}))
<1> DEFINE N == M \cup {p}
<1>a. N = M \cup {p} /\ Open(h, A, M, p, N, N) /\ \A a \in M : NextOf(h, a) # p
  BY DEF Loose
<1> HIDE DEF N
<1> DEFINE t == MergeNext(h, p)
           s == BlockInsert(t, p)
<1> HIDE DEF t
<1>1. PICK E : Merged(h, t, A, M, p, N, E)
  BY <1>a, MergeNextIs DEF t
<1> DEFINE C == A \ E
           L == M \ E
<1>2. /\ E \subseteq M
      /\ \A c \in C : c # p => NextOf(t, c) = NextOf(h, c)
      /\ NextOf(t, p) \notin L /\ Keeps(h, t, A \ N)
  BY <1>a, <1>1 DEF Merged
<1>3. PICK Q : Open(t, C, L, p, N \ E, Q) /\ (IsPrevFree(h, NextOf(h, p)) => p \in Q)
  BY <1>1 DEF Merged
<1>4. p \in A /\ p \notin M /\ M \subseteq A /\ IsPrevFree(h, NextOf(h, p))
  <2>1. Flagged(h, A, N, N) /\ p \in A \ M
    BY <1>a DEF Open
  <2>2. p \in N /\ M \subseteq N
    BY <1>a
  <2>3. QED BY <2>1, <2>2 DEF Flagged
<1>5. N \ E = L \cup {p} /\ Q = L \cup {p}
  <2>1. Q \ {p} = L /\ p \in Q
    BY <1>3, <1>4 DEF Open
  <2>2. N \ E = L \cup {p}
    BY <1>a, <1>2, <1>4
  <2>3. QED BY <2>1, <2>2
<1>6. \A a \in L : NextOf(t, a) # p
  BY <1>a, <1>2, <1>4
<1>7. C \ (L \cup {p}) = A \ N
  BY <1>a, <1>2, <1>4
<1>8. Open(t, C, L, p, N \ E, Q) /\ N \ E = L \cup {p} /\ Q = L \cup {p} /\ NextOf(t, p) \notin L
  BY <1>2, <1>3, <1>5
<1> HIDE DEF C, L
<1>9. Good(BlockInsert(t, p), C, L \cup {p}) /\ Keeps(t, BlockInsert(t, p), C \ {p})
  BY <1>6, <1>8, CloseFree
<1> HIDE DEF s
<1>10. Good(s, C, L \cup {p}) /\ Keeps(t, s, C \ {p})
  BY <1>9 DEF s
<1>11. Keeps(t, s, A \ N)
  <2>1. A \ N \subseteq C \ {p}
    BY <1>7
  <2>2. QED BY <1>10, <2>1, KeepsFewer
<1>12. Keeps(h, s, A \ N)
  BY <1>2, <1>11, KeepsTwice
<1>13. Restored(h, s, A \ N)
  BY <1>7, <1>10, <1>12 DEF Restored
<1>14. QED BY <1>13 DEF s, t, N

\* tlsf_free: the block is no longer used, and the others are as they were.
LEMMA FreeIs ==
  ASSUME NEW h, NEW B, NEW F, Good(h, B, F), NEW b \in B \ F, NEW ptr, ptr - 2 = b
  PROVE  Restored(h, TlsfFree(h, ptr), (B \ F) \ {b})
<1> DEFINE x == MarkFree(h, b)
           r == MergePrev(x, b)
           s == BlockInsert(MergeNext(r[1], r[2]), r[2])
           U == (B \ F) \ {b}
<1>1. TlsfFree(h, ptr) = s
  BY DEF TlsfFree
<1>2. Open(x, B, F, b, F \cup {b}, F \cup {b}) /\ Keeps(h, x, U)
  <2>1. Open(x, B, F, b, F \cup {b}, F \cup {b}) /\ Keeps(h, x, B \ {b})
    BY OpenFree
  <2> HIDE DEF x
  <2>2. U \subseteq B \ {b}
    OBVIOUS
  <2> HIDE DEF U
  <2>3. QED BY <2>1, <2>2, KeepsFewer
<1> HIDE DEF x
<1>3. PICK p, M, D : MergedPrev(x, r, B, F, b, p, M, D)
  BY <1>2, MergePrevIs
<1> HIDE DEF r
<1> DEFINE y == r[1]
           A == B \ D
           N == M \cup {p}
<1>4. /\ r[2] = p /\ Open(y, A, M, p, N, N) /\ A \ N = U
      /\ \A a \in M : NextOf(y, a) # p
      /\ Keeps(x, y, U)
  <2>1. B \ (F \cup {b}) = U
    OBVIOUS
  <2> HIDE DEF U
  <2>2. QED BY <1>3, <2>1 DEF MergedPrev
<1>5. s = BlockInsert(MergeNext(y, p), p)
  BY <1>4
<1> HIDE DEF y, A, U, s
<1>6. Restored(y, s, U)
  <2>1. Loose(y, A, M, p)
    BY <1>4 DEF Loose
  <2>2. Restored(y, BlockInsert(MergeNext(y, p), p), A \ (M \cup {p}))
    BY <2>1, MergeClose
  <2>3. QED BY <1>4, <1>5, <2>2
<1> HIDE DEF N
<1>7. Keeps(h, y, U)
  BY <1>2, <1>4, KeepsTwice
<1>8. Restored(h, s, U)
  BY <1>6, <1>7, KeepsTwice DEF Restored
<1>9. QED BY <1>1, <1>8 DEF U

-----------------------------------------------------------------------------
(* What is not needed of a block is cut off *)

\* A free block in hand is cut to a size.
LEMMA TrimFreeIs ==
  ASSUME NEW h, NEW B, NEW L, NEW b, NEW F, F = L \cup {b}, Open(h, B, L, b, F, F), NextOf(h, b) \notin L,
         NEW size \in Nat, size >= 3, SizeOf(h, b) >= size
  PROVE  \E D : /\ Open(TrimFree(h, b, size), B \cup D, L \cup D, b, F \cup D, F \cup D) /\ D \cap B = {}
                /\ SizeOf(TrimFree(h, b, size), b) >= size /\ Keeps(h, TrimFree(h, b, size), B \ {b})
<1> DEFINE r == b + 1 + size
           t == SetPrevFree(LinkNext(Split(h, b, size), b), r, TRUE)
           s == TrimFree(h, b, size)
           C == B \cup {r}
           G == F \cup {r}
           U == B \ {b}
<1>1. /\ Shaped(h) /\ Tiled(h, B) /\ Flagged(h, B, F, F) /\ Listed(h, L) /\ Sparse(h, L)
      /\ b \in B /\ b \notin L /\ L \subseteq B /\ F \subseteq B
  BY DEF Open, Flagged
<1>2. CASE ~CanSplit(h, b, size)
  <2>1. s = h
    BY <1>2 DEF TrimFree
  <2>2. B \cup {} = B /\ L \cup {} = L /\ F \cup {} = F /\ {} \cap B = {} /\ Keeps(h, h, B \ {b})
    BY DEF Keeps
  <2> HIDE DEF s
  <2>3. Open(s, B \cup {}, L \cup {}, b, F \cup {}, F \cup {})
    BY <2>1, <2>2
  <2>4. QED BY <2>1, <2>2, <2>3 DEF s
<1>3. CASE CanSplit(h, b, size)
  <2>1. s = BlockInsert(t, r) /\ SizeOf(h, b) >= size + 4
    BY <1>3 DEF TrimFree, CanSplit
  <2>2. /\ r \notin B \cup {Sentinel} /\ Shaped(t) /\ Tiled(t, C) /\ SameLists(h, t)
        /\ Flagged(t, C, G, F \cup {b, r})
        /\ SizeOf(t, b) = size /\ NextOf(t, r) = NextOf(h, b)
        /\ \A c \in B : c # b => SizeOf(t, c) = SizeOf(h, c)
        /\ Keeps(h, t, U)
    <3>1. SizeOf(h, b) >= size + 4 /\ b \in B /\ r = b + 1 + size
      BY <1>1, <2>1
    <3> HIDE DEF t, r
    <3>2. t = SetPrevFree(LinkNext(Split(h, b, size), b), r, TRUE)
      BY DEF t
    <3>3. Shaped(h) /\ Tiled(h, B) /\ Flagged(h, B, F, F) /\ size \in Nat /\ size >= 3
      BY <1>1
    <3>4. Halved(h, t, B, F, F \cup {b, r}, b, r, size)
      BY ONLY <3>1, <3>2, <3>3, SplitFreeIs
    <3>5. QED BY <3>4 DEF Halved
  <2> HIDE DEF t, r, s
  <2>3. F \cup {b, r} = G /\ r \notin L /\ r \in C /\ L \subseteq C /\ C = B \cup {r}
    BY <1>1, <2>2
  <2>4. \A c \in L : SizeOf(t, c) = SizeOf(h, c)
    BY <1>1, <2>2
  <2>5. Listed(t, L) /\ Sparse(t, L)
    BY <1>1, <2>2, <2>4, ListedStill, SparseStill
  <2> HIDE DEF C, G
  <2>6. Inserted(t, s, C, G, G, L, r)
    <3>1. Shaped(t) /\ Tiled(t, C) /\ Flagged(t, C, G, G) /\ Listed(t, L) /\ L \subseteq C /\ r \in C /\ r \notin L
      BY <2>2, <2>3, <2>5
    <3>2. Inserted(t, BlockInsert(t, r), C, G, G, L, r)
      BY ONLY <3>1, InsertLeaves
    <3>3. QED BY <2>1, <3>2
  <2>7. /\ Shaped(s) /\ Tiled(s, C) /\ Flagged(s, C, G, G) /\ Listed(s, L \cup {r})
        /\ \A c \in C : SizeOf(s, c) = SizeOf(t, c)
        /\ Keeps(t, s, C \ {r})
    BY <2>6 DEF Inserted
  <2>8. NextOf(h, b) \in B \cup {Sentinel} /\ \A a \in L : NextOf(h, a) \in B \cup {Sentinel}
    BY <1>1, Apart
  <2>9. Sparse(s, L \cup {r})
    <3>1. NextOf(s, r) = NextOf(h, b)
      BY <2>2, <2>3, <2>7 DEF NextOf
    <3>2. \A a \in L : NextOf(s, a) = NextOf(h, a)
      BY <2>3, <2>4, <2>7 DEF NextOf
    <3>3. NextOf(s, r) \notin L \cup {r}
      BY <2>2, <2>8, <3>1
    <3>4. \A a \in L : NextOf(s, a) \notin L \cup {r}
      BY <1>1, <2>2, <2>8, <3>2 DEF Sparse
    <3>5. QED BY <3>3, <3>4 DEF Sparse
  <2>10. Open(s, C, L \cup {r}, b, G, G)
    <3>1. r # b /\ b \in C \ (L \cup {r}) /\ G \ {b} = L \cup {r}
      BY <1>1, <2>2, <2>3 DEF G
    <3>2. QED BY <2>7, <2>9, <3>1 DEF Open
  <2>11. Keeps(h, s, U)
    <3>1. U \subseteq C \ {r}
      BY <2>2, <2>3
    <3>2. Keeps(t, s, U)
      BY <2>7, <3>1, KeepsFewer
    <3> HIDE DEF U
    <3>3. QED BY <2>2, <3>2, KeepsTwice
  <2>12. SizeOf(s, b) >= size
    BY <1>1, <2>2, <2>3, <2>7
  <2>13. Open(s, B \cup {r}, L \cup {r}, b, F \cup {r}, F \cup {r}) /\ {r} \cap B = {}
    BY <2>2, <2>3, <2>10 DEF G
  <2>14. QED BY <2>11, <2>12, <2>13 DEF s
<1>4. QED BY <1>2, <1>3

\* Of the used blocks U, which are the same as before, b has some size, and kept some words.
Resized(h, s, U, b, size, n) ==
  \E C, G : /\ Good(s, C, G) /\ C \ G = U /\ SizeOf(s, b) >= size
            /\ Keeps(h, s, U \ {b}) /\ KeepsFirst(h, s, b, n)

\* A used block is cut to a size.
LEMMA TrimUsedIs ==
  ASSUME NEW h, NEW B, NEW F, Good(h, B, F), NEW b \in B \ F,
         NEW size \in Nat, size >= 3, SizeOf(h, b) >= size
  PROVE  Resized(h, TrimUsed(h, b, size), B \ F, b, size, size)
<1> DEFINE r == b + 1 + size
           t == SetPrevFree(Split(h, b, size), r, FALSE)
           s == TrimUsed(h, b, size)
           A == B \cup {r}
           N == F \cup {r}
           U == B \ F
<1>1. /\ Shaped(h) /\ Tiled(h, B) /\ Flagged(h, B, F, F) /\ Listed(h, F) /\ Sparse(h, F)
      /\ b \in B /\ b \notin F /\ F \subseteq B /\ b \in Nat
  BY Apart DEF Good, Flagged
<1>2. CASE ~CanSplit(h, b, size)
  <2>1. s = h
    BY <1>2 DEF TrimUsed
  <2>2. Keeps(h, h, (B \ F) \ {b}) /\ KeepsFirst(h, h, b, size)
    BY DEF Keeps, KeepsFirst
  <2> HIDE DEF s
  <2>3. Resized(h, h, B \ F, b, size, size)
    BY <2>2 DEF Resized
  <2>4. QED BY <2>1, <2>3 DEF s
<1>3. CASE CanSplit(h, b, size)
  <2>1. s = BlockInsert(MergeNext(t, r), r) /\ SizeOf(h, b) >= size + 4
    BY <1>3 DEF TrimUsed, CanSplit
  <2>2. /\ r \notin B \cup {Sentinel} /\ Shaped(t) /\ Tiled(t, A) /\ SameLists(h, t)
        /\ Flagged(t, A, N, (F \cup {r}) \ {b})
        /\ SizeOf(t, b) = size
        /\ \A c \in B : c # b => SizeOf(t, c) = SizeOf(h, c)
        /\ Keeps(h, t, B \ {b}) /\ KeepsFirst(h, t, b, size)
    <3>1. SizeOf(h, b) >= size + 4 /\ b \in B /\ r = b + 1 + size
      BY <1>1, <2>1
    <3> HIDE DEF t, r
    <3>2. t = SetPrevFree(Split(h, b, size), r, FALSE)
      BY DEF t
    <3>3. Shaped(h) /\ Tiled(h, B) /\ Flagged(h, B, F, F) /\ size \in Nat /\ size >= 3
      BY <1>1
    <3>4. Halved(h, t, B, F, (F \cup {r}) \ {b}, b, r, size) /\ KeepsFirst(h, t, b, size)
      BY ONLY <3>1, <3>2, <3>3, SplitUsedIs
    <3>5. QED BY <3>4 DEF Halved
  <2>3. r \in Nat /\ r = b + 1 + size
    BY <1>1
  <2> HIDE DEF t, r, s
  <2>4. r # b /\ (F \cup {r}) \ {b} = N /\ r \in A \ F /\ N \ {r} = F /\ A \ N = U
    BY <1>1, <2>2
  <2>5. \A c \in F : SizeOf(t, c) = SizeOf(h, c)
    BY <1>1, <2>2
  <2>6. Listed(t, F) /\ Sparse(t, F)
    <3>1. Listed(h, F) /\ Sparse(h, F) /\ SameLists(h, t)
      BY <1>1, <2>2
    <3>2. QED BY ONLY <2>5, <3>1, ListedStill, SparseStill
  <2>7. N = F \cup {r}
    OBVIOUS
  <2> HIDE DEF A, N
  <2>8. Open(t, A, F, r, N, N)
    BY <2>2, <2>4, <2>6 DEF Open
  <2>9. \A a \in F : NextOf(t, a) # r
    <3>1. \A a \in F : NextOf(h, a) \in B \cup {Sentinel}
      BY <1>1, Apart
    <3>2. \A a \in F : NextOf(t, a) = NextOf(h, a)
      BY <2>5 DEF NextOf
    <3>3. QED BY <2>2, <3>1, <3>2
  <2>10. PICK C, G : Good(s, C, G) /\ C \ G = A \ N /\ Keeps(t, s, A \ N)
    <3>1. Loose(t, A, F, r)
      BY <2>7, <2>8, <2>9 DEF Loose
    <3>2. Restored(t, s, A \ (F \cup {r}))
      BY <2>1, <3>1, MergeClose
    <3>3. QED BY <2>7, <3>2 DEF Restored
  <2>11. b \in U /\ SizeOf(s, b) = size /\ \A w \in (b + 2)..NextOf(t, b) : s.word[w] = t.word[w]
    BY <1>1, <2>2, <2>4, <2>10 DEF Keeps
  <2>12. KeepsFirst(h, s, b, size)
    <3>1. NextOf(t, b) = b + 1 + size
      BY <2>2 DEF NextOf
    <3>2. QED BY <2>2, <2>11, <3>1 DEF KeepsFirst
  <2>13. Keeps(h, s, U \ {b})
    <3> DEFINE V == U \ {b}
    <3>1. V \subseteq B \ {b} /\ V \subseteq A \ N
      BY <2>4
    <3> HIDE DEF V
    <3>2. Keeps(h, t, V) /\ Keeps(t, s, V)
      BY <2>2, <2>10, <3>1, KeepsFewer
    <3>3. Keeps(h, s, V)
      BY <3>2, KeepsTwice
    <3>4. QED BY <3>3 DEF V
  <2>14. SizeOf(s, b) >= size
    BY <2>11
  <2>15. Resized(h, s, U, b, size, size)
    BY <2>4, <2>10, <2>12, <2>13, <2>14 DEF Resized
  <2>16. QED BY <2>15 DEF s
<1>4. QED BY <1>2, <1>3

-----------------------------------------------------------------------------
(* tlsf_malloc *)

\* Sizes that are asked for are rounded up to that of the smallest block.
LEMMA AdjustIs ==
  ASSUME NEW size \in 1..(Pow2[FlLog2] - 1)
  PROVE  /\ AdjustRequest(size) \in Nat /\ AdjustRequest(size) >= 3 /\ AdjustRequest(size) >= size
         /\ AdjustRequest(size) < Pow2[FlLog2]
<1>1. Pow2[FlLog2] \in Nat /\ PoolWords - 2 \in 3..(Pow2[FlLog2] - 1) /\ PoolWords \in Nat
  BY Parameters, TlsfAssumption
<1>2. 3 < Pow2[FlLog2]
  BY <1>1
<1>3. QED BY <1>1, <1>2 DEF AdjustRequest, Min3

\* What is found for a size is a free block that is large enough, and where nothing
\* is found no free block is larger than it by one part in SL_INDEX_COUNT.
LEMMA Found ==
  ASSUME NEW h, NEW B, NEW F, Tiled(h, B), F \subseteq B, Listed(h, F),
         NEW size \in Nat, 1 <= size, size < Pow2[FlLog2]
  PROVE  \/ /\ ClassFor(h, size) = NONE
            /\ \A b \in F : SizeOf(h, b) < size + size \div SmallBlock
         \/ /\ ClassFor(h, size) # NONE /\ ClassFor(h, size) \in Classes
            /\ Head(h.lists[ClassFor(h, size)]) \in F
            /\ MappingInsert(SizeOf(h, Head(h.lists[ClassFor(h, size)]))) = ClassFor(h, size)
            /\ SizeOf(h, Head(h.lists[ClassFor(h, size)])) >= size
<1> DEFINE class == ClassFor(h, size)
           search == MappingSearch(size)
<1>1. h.sl = {c \in Classes : h.lists[c] # <<>>} /\ h.fl = {c[1] : c \in h.sl} /\ h.sl \subseteq Classes
  BY DEF Listed
<1>2. \/ class = NONE /\ \A d \in h.sl : Below(d, search)
      \/ class # NONE /\ class \in h.sl /\ ~Below(class, search)
  BY <1>1, ClassForIs
<1>3. \A b \in F : SizeOf(h, b) \in Nat /\ SizeOf(h, b) >= 3 /\ SizeOf(h, b) < Pow2[FlLog2]
  BY Apart
<1>4. Pow2[FlLog2 + 1] = 2 * Pow2[FlLog2] /\ Pow2[FlLog2] \in Nat
  BY Parameters
<1> HIDE DEF class, search
<1>5. CASE class = NONE /\ \A d \in h.sl : Below(d, search)
  <2> SUFFICES ASSUME NEW b \in F, ~(SizeOf(h, b) < size + size \div SmallBlock) PROVE FALSE
    BY <1>5 DEF class
  <2> DEFINE n == SizeOf(h, b)
  <2>1. n \in Nat /\ 1 <= n /\ n < Pow2[FlLog2] /\ n < Pow2[FlLog2 + 1]
    BY <1>3, <1>4
  <2>2. n >= size + size \div SmallBlock
    <3>1. SmallBlock \in Nat /\ SmallBlock >= 2
      BY Parameters
    <3> HIDE DEF n
    <3>2. ~(n < size + size \div SmallBlock)
      BY DEF n
    <3>3. QED BY <2>1, <3>1, <3>2
  <2>3. MappingInsert(n) \in Classes
    BY <2>1, ClassIs
  <2>4. ~Below(MappingInsert(n), search)
    <3> HIDE DEF n
    <3>1. QED BY <2>1, <2>2, SearchHigh DEF search
  <2>5. h.lists[MappingInsert(n)] # <<>>
    <3>1. b \in ToSet(h.lists[MappingInsert(n)])
      BY <2>3 DEF Listed
    <3>2. QED BY <3>1 DEF ToSet
  <2>6. MappingInsert(n) \in h.sl
    BY <1>1, <2>3, <2>5
  <2>7. QED BY <1>5, <2>4, <2>6
<1>6. CASE class # NONE /\ class \in h.sl /\ ~Below(class, search)
  <2> DEFINE b == Head(h.lists[class])
             n == SizeOf(h, b)
  <2>1. class \in Classes /\ b \in F /\ MappingInsert(n) = class
    BY <1>6, ListedHas
  <2>2. n \in Nat /\ 1 <= n /\ n < Pow2[FlLog2]
    BY <1>3, <2>1
  <2> HIDE DEF n, b
  <2>3. n >= size
    <3>1. CASE n < size
      <4>1. Below(MappingInsert(n), search)
        BY <2>2, <3>1, SearchLow DEF search
      <4>2. QED BY <1>6, <2>1, <4>1
    <3>2. QED BY <2>2, <3>1
  <2>4. QED BY <1>6, <2>1, <2>3 DEF n, b, class
<1>7. QED BY <1>2, <1>5, <1>6

\* The heap is in order, and besides the used blocks U has c, large enough for size.
Provided(h, s, U, c, size) ==
  /\ \E C, G : Good(s, C, G) /\ C \ G = U \cup {c}
  /\ c \in Nat /\ c \notin U /\ SizeOf(s, c) >= size /\ Keeps(h, s, U)

\* tlsf_malloc: there is one used block more, which is large enough.
LEMMA MallocIs ==
  ASSUME NEW h, NEW B, NEW F, Good(h, B, F), NEW size \in 1..(Pow2[FlLog2] - 1)
  PROVE  \/ TlsfMalloc(h, size) = <<h, NONE>>
         \/ \E c \in Nat : /\ TlsfMalloc(h, size) = <<TlsfMalloc(h, size)[1], c + 2>>
                           /\ Provided(h, TlsfMalloc(h, size)[1], B \ F, c, size)
<1> DEFINE adjust == AdjustRequest(size)
           class == ClassFor(h, adjust)
           b == Head(h.lists[class])
           x == RemoveFree(h, b, class)
           y == TrimFree(x, b, adjust)
           s == MarkUsed(y, b)
           L == F \ {b}
           U == B \ F
<1>1. /\ Shaped(h) /\ Tiled(h, B) /\ Flagged(h, B, F, F) /\ Listed(h, F) /\ Sparse(h, F)
      /\ F \subseteq B
  BY DEF Good, Flagged
<1>2. adjust \in Nat /\ adjust >= 3 /\ adjust >= size /\ adjust < Pow2[FlLog2] /\ size \in Nat
  BY AdjustIs
<1> HIDE DEF adjust
<1>3. CASE class = NONE
  BY <1>3 DEF TlsfMalloc, adjust
<1>4. CASE class # NONE
  <2>1. /\ class \in Classes /\ b \in F /\ MappingInsert(SizeOf(h, b)) = class /\ SizeOf(h, b) >= adjust
    <3>1. 1 <= adjust
      BY <1>2
    <3>2. QED BY <1>1, <1>2, <1>4, <3>1, Found
  <2>2. TlsfMalloc(h, size) = <<s, b + 2>>
    BY <1>4 DEF TlsfMalloc, PtrOf, adjust
  <2> HIDE DEF class, b
  <2>3. Shaped(x) /\ x.word = h.word /\ Listed(x, L)
    BY <1>1, <2>1, RemoveFreeIs
  <2> HIDE DEF x
  <2>4. /\ Tiled(x, B) /\ Flagged(x, B, F, F) /\ \A c : SizeOf(x, c) = SizeOf(h, c) /\ NextOf(x, c) = NextOf(h, c)
        /\ Keeps(h, x, U)
    BY <1>1, <2>3, SameWords
  <2>5. F = L \cup {b} /\ b \notin L /\ b \in B
    BY <1>1, <2>1
  <2>6. Sparse(x, L) /\ NextOf(x, b) \notin L
    BY <1>1, <2>1, <2>4 DEF Sparse
  <2> HIDE DEF L
  <2>7. Open(x, B, L, b, F, F)
    BY <2>3, <2>4, <2>5, <2>6 DEF Open
  <2>8. SizeOf(x, b) >= adjust
    BY <2>1, <2>4
  <2>9. PICK D : /\ Open(y, B \cup D, L \cup D, b, F \cup D, F \cup D) /\ D \cap B = {}
                 /\ SizeOf(y, b) >= adjust /\ Keeps(x, y, B \ {b})
    BY <1>2, <2>5, <2>6, <2>7, <2>8, TrimFreeIs
  <2> HIDE DEF y
  <2> DEFINE C == B \cup D
             G == L \cup D
  <2>10. C \ G = U \cup {b} /\ b \notin U /\ U \subseteq B \ {b} /\ U \subseteq C
    BY <1>1, <2>1, <2>5, <2>9
  <2> HIDE DEF C, G, U
  <2>11. Open(y, C, G, b, F \cup D, F \cup D)
    BY <2>9 DEF C, G
  <2>12. Good(s, C, G) /\ Keeps(y, s, C) /\ SizeOf(s, b) = SizeOf(y, b)
    BY <2>11, CloseUsed
  <2> HIDE DEF s
  <2>13. Keeps(h, s, U)
    <3>1. Keeps(x, y, U) /\ Keeps(y, s, U)
      BY <2>9, <2>10, <2>12, KeepsFewer
    <3>2. Keeps(h, y, U)
      BY <2>4, <3>1, KeepsTwice
    <3>3. QED BY <3>1, <3>2, KeepsTwice
  <2>14. b \in Nat /\ SizeOf(y, b) \in Nat
    <3>1. Tiled(y, C) /\ b \in C
      BY <2>11 DEF Open
    <3>2. QED BY <3>1, Apart
  <2>15. SizeOf(s, b) >= size
    BY <1>2, <2>9, <2>12, <2>14
  <2>16. Provided(h, s, U, b, size)
    BY <2>10, <2>12, <2>13, <2>14, <2>15 DEF Provided
  <2>17. TlsfMalloc(h, size) = <<TlsfMalloc(h, size)[1], b + 2>> /\ Provided(h, TlsfMalloc(h, size)[1], U, b, size)
    BY <2>2, <2>16
  <2>18. QED BY <2>14, <2>17 DEF U
<1>5. QED BY <1>3, <1>4

-----------------------------------------------------------------------------
(* The data of the program *)

\* A heap stays in order while the words do that it relies on.
LEMMA Rewritten ==
  ASSUME NEW h, NEW B, NEW F, Good(h, B, F), NEW s, Shaped(s), SameLists(h, s),
         \A c \in B \cup {Sentinel} : s.word[c + 1] = h.word[c + 1],
         \A c \in F : s.word[NextOf(h, c)] = h.word[NextOf(h, c)]
  PROVE  Good(s, B, F) /\ \A c \in B : SizeOf(s, c) = SizeOf(h, c) /\ NextOf(s, c) = NextOf(h, c)
<1>1. Tiled(h, B) /\ Flagged(h, B, F, F) /\ Listed(h, F) /\ Sparse(h, F) /\ F \subseteq B
  BY DEF Good, Flagged
<1>2. /\ Tiled(s, B) /\ Flagged(s, B, F, F)
      /\ \A c \in B : SizeOf(s, c) = SizeOf(h, c) /\ NextOf(s, c) = NextOf(h, c)
  BY <1>1, KeyWords
<1>3. \A c \in F : SizeOf(s, c) = SizeOf(h, c)
  BY <1>1, <1>2
<1>4. Listed(s, F) /\ Sparse(s, F)
  BY <1>1, <1>3, ListedStill, SparseStill
<1>5. QED BY <1>2, <1>4 DEF Good

\* Nothing but the data of block b is written to.
WritesTo(h, s, b) ==
  /\ Shaped(s) /\ SameLists(h, s)
  /\ \A w \in 0..PoolWords : w \notin (b + 2)..NextOf(h, b) => s.word[w] = h.word[w]

\* All is as it was but for the data of block b.
AsBefore(h, s, B, F, b) ==
  /\ Good(s, B, F) /\ Keeps(h, s, B \ {b})
  /\ \A c \in B : SizeOf(s, c) = SizeOf(h, c) /\ NextOf(s, c) = NextOf(h, c)

\* A used block is written to.
LEMMA Written ==
  ASSUME NEW h, NEW B, NEW F, Good(h, B, F), NEW b \in B, b \notin F, NEW s, WritesTo(h, s, b)
  PROVE  AsBefore(h, s, B, F, b)
<1>0. /\ Shaped(s) /\ SameLists(h, s)
      /\ \A w \in 0..PoolWords : w \notin (b + 2)..NextOf(h, b) => s.word[w] = h.word[w]
  BY DEF WritesTo
<1>1. Tiled(h, B) /\ F \subseteq B /\ b \in B /\ b \notin F
  BY DEF Good, Flagged
<1>2. ASSUME NEW c \in B \cup {Sentinel} PROVE s.word[c + 1] = h.word[c + 1]
  <2>1. c + 1 \in 0..PoolWords /\ c + 1 \notin (b + 2)..NextOf(h, b)
    BY <1>1, Apart, DataWords
  <2>2. QED BY <1>0, <2>1
<1>3. ASSUME NEW c \in B, c # b, NEW w \in (c + 2)..NextOf(h, c) PROVE s.word[w] = h.word[w]
  <2>1. w \in 0..PoolWords /\ w \notin (b + 2)..NextOf(h, b)
    BY <1>1, <1>3, Apart, DataWords
  <2>2. QED BY <1>0, <2>1
<1>4. ASSUME NEW c \in F PROVE s.word[NextOf(h, c)] = h.word[NextOf(h, c)]
  <2>1. c \in B /\ c # b /\ NextOf(h, c) \in (c + 2)..NextOf(h, c)
    BY <1>1, DataWords
  <2>2. QED BY <1>3, <2>1
<1>5. Good(s, B, F) /\ \A c \in B : SizeOf(s, c) = SizeOf(h, c) /\ NextOf(s, c) = NextOf(h, c)
  BY <1>0, <1>2, <1>4, Rewritten
<1>6. Keeps(h, s, B \ {b})
  BY <1>3, <1>5 DEF Keeps
<1>7. QED BY <1>5, <1>6 DEF AsBefore

\* A memory
IsMemory(word) == word = [w \in 0..PoolWords |-> word[w]]

\* A heap with that memory
WithMemory(h, word) == [h EXCEPT !.word = word]

\* Some of the words get values.
LEMMA ChangedIs ==
  ASSUME NEW h, Shaped(h), NEW word, IsMemory(word), NEW s, s = WithMemory(h, word)
  PROVE  Shaped(s) /\ SameLists(h, s) /\ s.word = word
<1> DEFINE old == h.word
           lists == h.lists
           fl == h.fl
           sl == h.sl
           junk == h.junk
<1>1. h = [word |-> old, lists |-> lists, fl |-> fl, sl |-> sl, junk |-> junk] /\ junk \in BOOLEAN
  BY DEF Shaped
<1> HIDE DEF old, lists, fl, sl, junk
<1>2. s = [word |-> word, lists |-> lists, fl |-> fl, sl |-> sl, junk |-> junk]
  BY <1>1 DEF WithMemory
<1>3. s.word = word /\ s.lists = lists /\ s.fl = fl /\ s.sl = sl /\ s.junk = junk
  BY <1>2
<1>4. Shaped(s)
  BY <1>1, <1>2, <1>3 DEF Shaped, IsMemory
<1>5. QED BY <1>3, <1>4 DEF SameLists, lists, fl, sl

\* memcpy
LEMMA CopiedIs ==
  ASSUME NEW h, Shaped(h), NEW to, NEW from, NEW size, NEW s, s = Copied(h, to, from, size)
  PROVE  /\ Shaped(s) /\ SameLists(h, s)
         /\ \A w \in 0..PoolWords :
              s.word[w] = IF w \in to..(to + size - 1) THEN h.word[w - to + from] ELSE h.word[w]
<1> DEFINE old == h.word
           word == [w \in DOMAIN old |-> IF w \in to..(to + size - 1) THEN old[w - to + from] ELSE old[w]]
<1>1. DOMAIN old = 0..PoolWords
  BY DEF Shaped
<1>2. s = WithMemory(h, word)
  BY DEF Copied, WithMemory
<1> HIDE DEF old
<1>3. /\ IsMemory(word)
      /\ \A w \in 0..PoolWords : word[w] = IF w \in to..(to + size - 1) THEN old[w - to + from] ELSE old[w]
  BY <1>1 DEF IsMemory
<1> HIDE DEF word
<1>4. Shaped(s) /\ SameLists(h, s) /\ s.word = word
  BY <1>2, <1>3, ChangedIs
<1>5. QED BY <1>3, <1>4 DEF old

\* The program fills its block.
LEMMA FilledIs ==
  ASSUME NEW h, Shaped(h), NEW id, NEW ptr, NEW size, NEW s, s = Filled(h, id, ptr, size)
  PROVE  /\ Shaped(s) /\ SameLists(h, s)
         /\ \A w \in 0..PoolWords :
              s.word[w] = IF w \in ptr..(ptr + size - 1) THEN <<"data", id>> ELSE h.word[w]
<1> DEFINE old == h.word
           new == <<"data", id>>
           word == [w \in DOMAIN old |-> IF w \in ptr..(ptr + size - 1) THEN new ELSE old[w]]
<1>1. DOMAIN old = 0..PoolWords
  BY DEF Shaped
<1>2. s = WithMemory(h, word)
  BY DEF Filled, WithMemory
<1> HIDE DEF old, new
<1>3. /\ IsMemory(word)
      /\ \A w \in 0..PoolWords : word[w] = IF w \in ptr..(ptr + size - 1) THEN new ELSE old[w]
  BY <1>1 DEF IsMemory
<1> HIDE DEF word
<1>4. Shaped(s) /\ SameLists(h, s) /\ s.word = word
  BY <1>2, <1>3, ChangedIs
<1>5. QED BY <1>3, <1>4 DEF old, new

\* Words from one block are the first ones of another.
Carries(h, s, b, c, n) == \A i \in 0..(n - 1) : s.word[c + 2 + i] = h.word[b + 2 + i]

\* What tlsf_realloc does where it has to move the block
LEMMA MovedIs ==
  ASSUME NEW h, NEW B, NEW F, Good(h, B, F), NEW b \in B \ F, NEW ptr, ptr = b + 2,
         NEW x, NEW c \in Nat, NEW size \in Nat, Provided(h, x, B \ F, c, size),
         NEW n \in Nat, n <= size, n <= SizeOf(h, b)
  PROVE  /\ Provided(h, TlsfFree(Copied(x, c + 2, ptr, n), ptr), (B \ F) \ {b}, c, size)
         /\ Carries(h, TlsfFree(Copied(x, c + 2, ptr, n), ptr), b, c, n)
<1> DEFINE U == B \ F
           V == U \ {b}
           y == Copied(x, c + 2, ptr, n)
           s == TlsfFree(y, ptr)
<1>1. /\ Tiled(h, B) /\ b \in B /\ b \in Nat /\ SizeOf(h, b) \in Nat /\ NextOf(h, b) = b + 1 + SizeOf(h, b)
      /\ ptr - 2 = b
  BY Apart DEF Good
<1>2. PICK C, G : Good(x, C, G) /\ C \ G = U \cup {c}
  BY DEF Provided
<1>3. c \notin U /\ SizeOf(x, c) >= size /\ Keeps(h, x, U) /\ b \in U /\ c # b
  BY DEF Provided
<1>4. Shaped(x) /\ Tiled(x, C) /\ c \in C /\ c \notin G
  BY <1>2 DEF Good
<1>5. SizeOf(x, c) \in Nat /\ NextOf(x, c) = c + 1 + SizeOf(x, c) /\ NextOf(x, c) <= Sentinel
      /\ \A w \in (c + 2)..NextOf(x, c) : w \in 0..PoolWords
  BY <1>4, Apart, DataWords
<1> HIDE DEF y
<1>6. /\ Shaped(y) /\ SameLists(x, y)
      /\ \A w \in 0..PoolWords :
           y.word[w] = IF w \in (c + 2)..(c + 2 + n - 1) THEN x.word[w - (c + 2) + ptr] ELSE x.word[w]
  BY <1>4, CopiedIs DEF y
<1>7. (c + 2)..(c + 2 + n - 1) \subseteq (c + 2)..NextOf(x, c)
  BY <1>3, <1>5
<1>8. \A w \in 0..PoolWords : w \notin (c + 2)..NextOf(x, c) => y.word[w] = x.word[w]
  BY <1>6, <1>7
<1>9. /\ Good(y, C, G) /\ Keeps(x, y, C \ {c})
      /\ \A a \in C : SizeOf(y, a) = SizeOf(x, a) /\ NextOf(y, a) = NextOf(x, a)
  <2>1. WritesTo(x, y, c)
    BY <1>6, <1>8 DEF WritesTo
  <2>2. AsBefore(x, y, C, G, c)
    BY <1>2, <1>4, <2>1, Written
  <2>3. QED BY <2>2 DEF AsBefore
<1>10. b \in C \ G /\ (C \ G) \ {b} = V \cup {c} /\ V \subseteq C \ {c} /\ c \notin V /\ V \subseteq U
  BY <1>2, <1>3
<1> HIDE DEF U, V
<1>11. Restored(y, s, V \cup {c})
  <2>1. Restored(y, s, (C \ G) \ {b})
    BY <1>1, <1>9, <1>10, FreeIs
  <2>2. QED BY <1>10, <2>1
<1> HIDE DEF s
<1>12. PICK D, H : Good(s, D, H) /\ D \ H = V \cup {c} /\ Keeps(y, s, V \cup {c})
  BY <1>11 DEF Restored
<1>13. Keeps(h, s, V)
  <2>1. Keeps(h, x, V) /\ Keeps(x, y, V) /\ Keeps(y, s, V)
    BY <1>3, <1>9, <1>10, <1>12, KeepsFewer
  <2>2. Keeps(h, y, V)
    BY <2>1, KeepsTwice
  <2>3. QED BY <2>1, <2>2, KeepsTwice
<1>14. SizeOf(s, c) >= size /\ \A w \in (c + 2)..NextOf(x, c) : s.word[w] = y.word[w]
  BY <1>3, <1>4, <1>9, <1>12 DEF Keeps
<1>15. Provided(h, s, V, c, size)
  BY <1>10, <1>12, <1>13, <1>14 DEF Provided
<1>16. Carries(h, s, b, c, n)
  <2> SUFFICES ASSUME NEW i \in 0..(n - 1) PROVE s.word[c + 2 + i] = h.word[b + 2 + i]
    BY DEF Carries
  <2>1. i \in Nat /\ c + 2 + i \in (c + 2)..(c + 2 + n - 1) /\ b + 2 + i \in (b + 2)..NextOf(h, b)
        /\ (c + 2 + i) - (c + 2) + ptr = b + 2 + i
    BY <1>1
  <2>2. s.word[c + 2 + i] = y.word[c + 2 + i] /\ c + 2 + i \in 0..PoolWords
    BY <1>5, <1>7, <1>14, <2>1
  <2>3. y.word[c + 2 + i] = x.word[b + 2 + i]
    BY <1>6, <2>1, <2>2
  <2>4. x.word[b + 2 + i] = h.word[b + 2 + i]
    BY <1>3, <2>1 DEF Keeps
  <2>5. QED BY <2>2, <2>3, <2>4
<1>17. QED BY <1>15, <1>16 DEF s, y, U, V

-----------------------------------------------------------------------------
(* tlsf_realloc *)

\* A used block that is merged with a free one behind it stays used.
LEMMA GrownIs ==
  ASSUME NEW h, NEW B, NEW F, Good(h, B, F), NEW b \in B \ F, IsFree(h, NextOf(h, b))
  PROVE  Resized(h, MarkUsed(MergeNext(h, b), b), B \ F, b,
                 SizeOf(h, b) + SizeOf(h, NextOf(h, b)) + 1, SizeOf(h, b))
<1> DEFINE y == MergeNext(h, b)
           s == MarkUsed(y, b)
           V == (B \ F) \ {b}
           n == NextOf(h, b)
<1>1. /\ Shaped(h) /\ Tiled(h, B) /\ Flagged(h, B, F, F) /\ Listed(h, F) /\ Sparse(h, F) /\ F \subseteq B
      /\ b \in B /\ b \in Nat /\ SizeOf(h, b) \in Nat
  BY Apart DEF Good, Flagged
<1>2. F \ {b} = F
  OBVIOUS
<1>3. Open(h, B, F, b, F, F)
  BY <1>1, <1>2 DEF Open
<1> HIDE DEF y
<1>4. PICK D : Merged(h, y, B, F, b, F, D)
  BY <1>3, MergeNextIs DEF y
<1> DEFINE C == B \ D
           G == F \ D
<1>5. PICK Q : Open(y, C, G, b, G, Q)
  BY <1>4 DEF Merged
<1>6. /\ D \subseteq F /\ Keeps(h, y, B \ (F \cup {b})) /\ KeepsFirst(h, y, b, SizeOf(h, b))
      /\ SizeOf(y, b) = SizeOf(h, b) + SizeOf(h, n) + 1
  BY <1>4 DEF Merged
<1>7. C \ G = B \ F /\ V \subseteq C /\ V = B \ (F \cup {b}) /\ b \in C
  BY <1>1, <1>6
<1> HIDE DEF C, G, V
<1>8. Good(s, C, G) /\ Keeps(y, s, C) /\ SizeOf(s, b) = SizeOf(y, b)
  BY <1>5, CloseUsed
<1> HIDE DEF s
<1>9. Keeps(h, s, V)
  <2>1. Keeps(h, y, V) /\ Keeps(y, s, V)
    BY <1>6, <1>7, <1>8, KeepsFewer
  <2>2. QED BY <2>1, KeepsTwice
<1>10. KeepsFirst(h, s, b, SizeOf(h, b))
  <2>1. SizeOf(h, n) \in Nat
    <3>1. n \in B \cup {Sentinel}
      BY <1>1 DEF Tiled, n
    <3> HIDE DEF n
    <3>2. Header(h, n)
      BY <1>1, <3>1 DEF Tiled
    <3>3. QED BY <3>2 DEF Header
  <2>2. NextOf(y, b) >= b + 1 + SizeOf(h, b) /\ NextOf(y, b) \in Nat
    BY <1>1, <1>6, <2>1 DEF NextOf
  <2>3. \A w \in (b + 2)..NextOf(y, b) : s.word[w] = y.word[w]
    BY <1>7, <1>8 DEF Keeps
  <2>4. \A w \in (b + 2)..(b + 1 + SizeOf(h, b)) : w \in (b + 2)..NextOf(y, b)
    BY <1>1, <2>2
  <2>5. QED BY <1>6, <2>3, <2>4 DEF KeepsFirst
<1> DEFINE size == SizeOf(h, b) + SizeOf(h, n) + 1
<1>11. size \in Nat
  <2>1. SizeOf(h, n) \in Nat
    <3>1. n \in B \cup {Sentinel}
      BY <1>1 DEF Tiled, n
    <3> HIDE DEF n
    <3>2. Header(h, n)
      BY <1>1, <3>1 DEF Tiled
    <3>3. QED BY <3>2 DEF Header
  <2>2. QED BY <1>1, <2>1
<1>12. SizeOf(s, b) >= size
  BY <1>6, <1>8, <1>11
<1> HIDE DEF size
<1>13. Resized(h, s, B \ F, b, size, SizeOf(h, b))
  BY <1>7, <1>8, <1>9, <1>10, <1>12 DEF Resized, V
<1>14. QED BY <1>13 DEF s, y, n, size

\* tlsf_realloc: the block is where it was or another, which is large enough, and has
\* the first words of what it had.
LEMMA ReallocIs ==
  ASSUME NEW h, NEW B, NEW F, Good(h, B, F), NEW b \in B \ F, NEW size \in 1..(Pow2[FlLog2] - 1),
         NEW ptr, ptr = b + 2, NEW n \in Nat, n <= size, n <= SizeOf(h, b)
  PROVE  \/ TlsfRealloc(h, ptr, size) = <<h, NONE>>
         \/ \E c \in Nat : /\ TlsfRealloc(h, ptr, size) = <<TlsfRealloc(h, ptr, size)[1], c + 2>>
                           /\ Provided(h, TlsfRealloc(h, ptr, size)[1], (B \ F) \ {b}, c, size)
                           /\ Carries(h, TlsfRealloc(h, ptr, size)[1], b, c, n)
<1> DEFINE next == NextOf(h, b)
           adjust == AdjustRequest(size)
           cursize == SizeOf(h, b)
           combined == cursize + SizeOf(h, next) + 1
           new == TlsfMalloc(h, size)
           grown == IF adjust > cursize THEN MarkUsed(MergeNext(h, b), b) ELSE h
           moves == adjust > cursize /\ (~IsFree(h, next) \/ adjust > combined)
           k == IF cursize < size THEN cursize ELSE size
           r == TlsfRealloc(h, ptr, size)
           V == (B \ F) \ {b}
<1>1. /\ Tiled(h, B) /\ b \in B /\ b \notin F /\ b \in Nat /\ cursize \in Nat /\ ptr - 2 = b /\ size \in Nat
      /\ next = b + 1 + cursize /\ next \in B \cup {Sentinel} /\ cursize >= 3
  BY Apart DEF Good
<1>2. adjust \in Nat /\ adjust >= 3 /\ adjust >= size
  BY AdjustIs
<1>3. SizeOf(h, next) \in Nat
  BY <1>1 DEF Tiled, Header
<1>4. r = IF moves
          THEN IF new[2] = NONE THEN new
               ELSE <<TlsfFree(Copied(new[1], new[2], ptr, k), ptr), new[2]>>
          ELSE <<TrimUsed(grown, b, adjust), ptr>>
  BY <1>1 DEF TlsfRealloc
<1> HIDE DEF r
<1>5. CASE moves
  <2> HIDE DEF moves, adjust, cursize, next, k
  <2>1. CASE new = <<h, NONE>>
    <3> HIDE DEF new
    <3>1. new[2] = NONE
      BY <2>1
    <3>2. QED BY <1>4, <1>5, <2>1, <3>1 DEF r
  <2>2. CASE \E c \in Nat : new = <<new[1], c + 2>> /\ Provided(h, new[1], B \ F, c, size)
    <3>1. PICK c \in Nat : new = <<new[1], c + 2>> /\ Provided(h, new[1], B \ F, c, size)
      BY <2>2
    <3> DEFINE x == new[1]
               s == TlsfFree(Copied(x, c + 2, ptr, k), ptr)
    <3> HIDE DEF new
    <3>2. new[2] = c + 2 /\ new[2] # NONE
      <4>1. c + 2 \in Nat /\ NONE \notin Nat
        BY TlsfAssumption
      <4>2. new[2] = c + 2
        BY <3>1
      <4>3. QED BY <4>1, <4>2
    <3>3. r = <<s, c + 2>>
      BY <1>4, <1>5, <3>2
    <3>4. k \in Nat /\ k <= size /\ k <= cursize /\ n <= k
      BY <1>1 DEF k, cursize
    <3>5. Provided(h, s, V, c, size) /\ Carries(h, s, b, c, k)
      <4> DEFINE y == new[1]
      <4>1. Provided(h, y, B \ F, c, size) /\ k <= SizeOf(h, b)
        BY <3>1, <3>4 DEF cursize
      <4> HIDE DEF y
      <4>2. /\ Provided(h, TlsfFree(Copied(y, c + 2, ptr, k), ptr), (B \ F) \ {b}, c, size)
            /\ Carries(h, TlsfFree(Copied(y, c + 2, ptr, k), ptr), b, c, k)
        BY <1>1, <3>4, <4>1, MovedIs
      <4>3. QED BY <4>2 DEF y
    <3> HIDE DEF s, V
    <3>6. Carries(h, s, b, c, n)
      BY <3>4, <3>5 DEF Carries
    <3>7. r = <<r[1], c + 2>> /\ r[1] = s
      BY <3>3
    <3>8. \E a \in Nat : r = <<r[1], a + 2>> /\ Provided(h, r[1], V, a, size) /\ Carries(h, r[1], b, a, n)
      BY <3>5, <3>6, <3>7
    <3>9. QED BY <3>8 DEF r, V
  <2>3. QED BY <2>1, <2>2, MallocIs
<1>6. CASE ~moves
  <2> DEFINE s == TrimUsed(grown, b, adjust)
  <2>1. r = <<s, b + 2>>
    BY <1>4, <1>6
  <2>2. PICK C, G : /\ Good(grown, C, G) /\ C \ G = B \ F /\ SizeOf(grown, b) >= adjust
                    /\ Keeps(h, grown, V) /\ KeepsFirst(h, grown, b, n)
    <3>1. CASE adjust > cursize
      <4>1. IsFree(h, next) /\ ~(adjust > combined)
        BY <1>6, <3>1
      <4> DEFINE g == MarkUsed(MergeNext(h, b), b)
      <4>2. Resized(h, g, B \ F, b, combined, cursize)
        BY <4>1, GrownIs
      <4>3. grown = g
        BY <3>1
      <4> HIDE DEF g, V
      <4>4. combined >= adjust
        BY <1>1, <1>2, <1>3, <4>1
      <4>5. \A w \in (b + 2)..(b + 1 + n) : w \in (b + 2)..(b + 1 + cursize)
        BY <1>1
      <4>6. combined \in Nat
        BY <1>1, <1>3
      <4> HIDE DEF grown, cursize, combined, adjust
      <4>7. PICK C, G : /\ Good(g, C, G) /\ C \ G = B \ F /\ SizeOf(g, b) >= combined
                        /\ Keeps(h, g, (B \ F) \ {b}) /\ KeepsFirst(h, g, b, cursize)
        BY <4>2 DEF Resized
      <4>8. SizeOf(g, b) \in Nat
        <5>1. Tiled(g, C) /\ b \in C
          BY <4>7 DEF Good
        <5>2. QED BY <5>1, Apart
      <4>9. SizeOf(g, b) >= adjust
        BY <1>2, <4>4, <4>6, <4>7, <4>8
      <4>10. QED BY <4>3, <4>5, <4>7, <4>9 DEF KeepsFirst, V
    <3>2. CASE ~(adjust > cursize)
      <4>1. grown = h
        BY <3>2
      <4>2. cursize >= adjust
        BY <1>1, <1>2, <3>2
      <4> HIDE DEF grown, adjust
      <4>3. Keeps(h, h, V) /\ KeepsFirst(h, h, b, n)
        BY DEF Keeps, KeepsFirst
      <4>4. QED BY <4>1, <4>2, <4>3
    <3>3. QED BY <3>1, <3>2
  <2> HIDE DEF grown, adjust, V, s
  <2>3. b \in C \ G
    BY <1>1, <2>2
  <2>4. PICK D, H : /\ Good(s, D, H) /\ D \ H = C \ G /\ SizeOf(s, b) >= adjust
                    /\ Keeps(grown, s, (C \ G) \ {b}) /\ KeepsFirst(grown, s, b, adjust)
    <3>1. Resized(grown, s, C \ G, b, adjust, adjust)
      BY <1>2, <2>2, <2>3, TrimUsedIs DEF s
    <3>2. QED BY <3>1 DEF Resized
  <2>5. SizeOf(s, b) \in Nat
    <3>1. Tiled(s, D) /\ b \in D
      BY <2>3, <2>4 DEF Good
    <3>2. QED BY <3>1, Apart
  <2>6. (C \ G) \ {b} = V /\ D \ H = V \cup {b} /\ b \notin V
    BY <2>2, <2>3, <2>4 DEF V
  <2>7. Keeps(h, s, V)
    BY <2>2, <2>4, <2>6, KeepsTwice
  <2>8. Provided(h, s, V, b, size)
    <3>1. SizeOf(s, b) >= size
      BY <1>1, <1>2, <2>4, <2>5
    <3>2. QED BY <1>1, <2>4, <2>6, <2>7, <3>1 DEF Provided
  <2>9. Carries(h, s, b, b, n)
    <3> SUFFICES ASSUME NEW i \in 0..(n - 1) PROVE s.word[b + 2 + i] = h.word[b + 2 + i]
      BY DEF Carries
    <3>1. b + 2 + i \in (b + 2)..(b + 1 + n) /\ b + 2 + i \in (b + 2)..(b + 1 + adjust)
      BY <1>1, <1>2
    <3>2. s.word[b + 2 + i] = grown.word[b + 2 + i]
      BY <2>4, <3>1 DEF KeepsFirst
    <3>3. grown.word[b + 2 + i] = h.word[b + 2 + i]
      BY <2>2, <3>1 DEF KeepsFirst
    <3>4. QED BY <3>2, <3>3
  <2>10. r = <<r[1], b + 2>> /\ r[1] = s
    BY <2>1
  <2>11. \E a \in Nat : r = <<r[1], a + 2>> /\ Provided(h, r[1], V, a, size) /\ Carries(h, r[1], b, a, n)
    BY <1>1, <2>8, <2>9, <2>10
  <2>12. QED BY <2>11 DEF r, V
<1>7. QED BY <1>5, <1>6

-----------------------------------------------------------------------------
(* The walk from header to header *)

\* What the walk does in a step
Ahead(h, b) == IF SizeOf(h, b) = 0 THEN b ELSE NextOf(h, b)

\* The walk is what its definition says.
LEMMA WalkedIs ==
  ASSUME NEW h, NEW B, Tiled(h, B)
  PROVE  /\ Most \in Nat /\ Walked(h)[0] = 0
         /\ \A i \in 0..Most : Walked(h)[i] \in B \cup {Sentinel}
         /\ \A i \in Nat : i + 1 \in 0..Most => Walked(h)[i + 1] = Ahead(h, Walked(h)[i])
<1> DEFINE E == B \cup {Sentinel}
           step == [x \in E |-> Ahead(h, x)]
           f == Orbit(step, 0)
           recursion(g) == [i \in 0..Most |-> IF i = 0 THEN 0 ELSE Ahead(h, g[i - 1])]
           at == [i \in 0..Most |-> f[i]]
<1>1. Most \in Nat
  <2>1. PoolWords \in Nat
    BY Pool
  <2>2. QED BY <2>1 DEF Most
<1>2. 0 \in E /\ \A x \in E : Ahead(h, x) \in E
  BY Apart DEF Tiled, Ahead
<1> HIDE DEF E
<1>3. \A x \in E : step[x] = Ahead(h, x) /\ step[x] \in E
  BY <1>2
<1> HIDE DEF step
<1>4. f[0] = 0 /\ \A n \in Nat : f[n] \in E /\ f[n + 1] = step[f[n]]
  BY <1>2, <1>3, OrbitIs
<1> HIDE DEF f
<1>5. \A n \in Nat : f[n + 1] = Ahead(h, f[n])
  BY <1>3, <1>4
<1>6. at = recursion(at)
  <2> SUFFICES ASSUME NEW i \in 0..Most
               PROVE  f[i] = IF i = 0 THEN 0 ELSE Ahead(h, at[i - 1])
    OBVIOUS
  <2>1. CASE i = 0
    BY <1>4, <2>1
  <2>2. CASE i # 0
    <3>1. i - 1 \in Nat /\ (i - 1) + 1 = i /\ i - 1 \in 0..Most
      BY <1>1, <2>2
    <3>2. f[i] = Ahead(h, f[i - 1])
      BY <1>5, <3>1
    <3>3. at[i - 1] = f[i - 1]
      BY <3>1
    <3>4. QED BY <2>2, <3>2, <3>3
  <2>3. QED BY <2>1, <2>2
<1>7. Walked(h) = CHOOSE g : g = recursion(g)
  BY DEF Walked, Ahead
<1>8. \E g : g = recursion(g)
  BY <1>6
<1> DEFINE w == Walked(h)
<1>9. w = recursion(w)
  <2> HIDE DEF recursion
  <2>1. QED BY <1>7, <1>8
<1> HIDE DEF w
<1>10. /\ w[0] = 0
       /\ \A i \in Nat : i + 1 \in 0..Most => w[i + 1] = Ahead(h, w[i])
  <2>1. \A i \in 0..Most : w[i] = IF i = 0 THEN 0 ELSE Ahead(h, w[i - 1])
    BY <1>9
  <2>2. 0 \in 0..Most
    BY <1>1
  <2>3. ASSUME NEW i \in Nat, i + 1 \in 0..Most PROVE w[i + 1] = Ahead(h, w[i])
    <3>1. i + 1 # 0 /\ (i + 1) - 1 = i
      OBVIOUS
    <3>2. w[i + 1] = Ahead(h, w[(i + 1) - 1])
      BY <2>1, <2>3, <3>1
    <3>3. QED BY <3>1, <3>2
  <2>4. QED BY <2>1, <2>2, <2>3
<1>11. \A i \in 0..Most : w[i] \in E
  <2> DEFINE S == {i \in Nat : i \in 0..Most => w[i] \in E}
  <2>1. 0 \in S
    BY <1>2, <1>10
  <2>2. \A i \in Nat : i \in S => i + 1 \in S
    BY <1>1, <1>2, <1>10
  <2> HIDE DEF S
  <2>3. Nat \subseteq S
    BY <2>1, <2>2, SetInduction
  <2>4. QED BY <1>1, <2>3 DEF S
<1>12. QED BY <1>1, <1>10, <1>11 DEF w, E

\* The walk meets all blocks and ends at the sentinel.
LEMMA BlocksAre ==
  ASSUME NEW h, NEW B, Tiled(h, B)
  PROVE  Blocks(h) = B /\ Walked(h)[Most] = Sentinel
<1> DEFINE at == Walked(h)
           E == B \cup {Sentinel}
<1>1. /\ Most \in Nat /\ at[0] = 0
      /\ \A i \in 0..Most : at[i] \in B \cup {Sentinel}
      /\ \A i \in Nat : i + 1 \in 0..Most => at[i + 1] = Ahead(h, at[i])
  BY WalkedIs
<1> HIDE DEF at
<1>2. /\ \A b \in B : /\ b \in Nat /\ SizeOf(h, b) \in Nat /\ SizeOf(h, b) >= 3 /\ NextOf(h, b) = b + 1 + SizeOf(h, b)
                      /\ NextOf(h, b) <= Sentinel /\ NextOf(h, b) \in E
      /\ \A b \in B, c \in E : c \in Nat /\ c <= Sentinel /\ (b < c => NextOf(h, b) <= c)
      /\ Sentinel \in Nat /\ Sentinel + 1 = PoolWords /\ PoolWords \in Nat /\ SizeOf(h, Sentinel) = 0
  <2>1. ASSUME NEW b \in B
        PROVE  /\ b \in Nat /\ SizeOf(h, b) \in Nat /\ SizeOf(h, b) >= 3 /\ NextOf(h, b) = b + 1 + SizeOf(h, b)
               /\ NextOf(h, b) <= Sentinel /\ NextOf(h, b) \in E
               /\ \A c \in E : c \in Nat /\ c <= Sentinel /\ (b < c => NextOf(h, b) <= c)
    BY Apart
  <2>2. Sentinel \in Nat /\ Sentinel + 1 = PoolWords /\ PoolWords \in Nat /\ SizeOf(h, Sentinel) = 0
    BY Pool DEF Tiled
  <2>3. QED BY <2>1, <2>2
<1>3. \A b \in B : Ahead(h, b) = NextOf(h, b) /\ Ahead(h, b) >= b + 4
  BY <1>2 DEF Ahead
<1>4. Ahead(h, Sentinel) = Sentinel
  BY <1>2 DEF Ahead
<1> DEFINE Far(i) == at[i] = Sentinel \/ at[i] >= 4 * i
           Met(i) == \A c \in E : c <= at[i] => \E j \in 0..i : at[j] = c
           S == {i \in Nat : i \in 0..Most => Far(i) /\ Met(i)}
<1>5. 0 \in S
  <2>1. Met(0)
    <3>1. \A c \in E : c <= 0 => c = 0
      BY <1>2
    <3>2. QED BY <1>1, <3>1
  <2>2. Far(0)
    BY <1>1
  <2>3. QED BY <2>1, <2>2
<1>6. ASSUME NEW i \in Nat, i \in S PROVE i + 1 \in S
  <2> SUFFICES ASSUME i + 1 \in 0..Most PROVE Far(i + 1) /\ Met(i + 1)
    OBVIOUS
  <2>1. i \in 0..Most /\ at[i + 1] = Ahead(h, at[i]) /\ at[i] \in E
    BY <1>1
  <2>2. Far(i) /\ Met(i)
    BY <1>6, <2>1
  <2>3. CASE at[i] = Sentinel
    <3>1. at[i + 1] = at[i]
      BY <1>4, <2>1, <2>3
    <3>2. Met(i + 1)
      BY <2>2, <3>1
    <3>3. QED BY <2>3, <3>1, <3>2
  <2>4. CASE at[i] # Sentinel
    <3>1. at[i] \in B /\ at[i] >= 4 * i
      BY <2>1, <2>2, <2>4
    <3>2. at[i + 1] = NextOf(h, at[i]) /\ at[i + 1] >= at[i] + 4 /\ at[i] \in Nat /\ at[i + 1] \in Nat
      BY <1>2, <1>3, <2>1, <3>1
    <3>3. Far(i + 1)
      BY <3>1, <3>2
    <3>4. ASSUME NEW c \in E, c <= at[i + 1] PROVE \E j \in 0..(i + 1) : at[j] = c
      <4>1. c \in Nat /\ (at[i] < c => NextOf(h, at[i]) <= c)
        BY <1>2, <3>1
      <4>2. c <= at[i] \/ c = at[i + 1]
        BY <3>2, <3>4, <4>1
      <4>3. CASE c <= at[i]
        <5>1. PICK j \in 0..i : at[j] = c
          BY <2>2, <4>3
        <5>2. QED BY <5>1
      <4>4. CASE c = at[i + 1]
        BY <4>4
      <4>5. QED BY <4>2, <4>3, <4>4
    <3>5. QED BY <3>3, <3>4
  <2>5. QED BY <2>3, <2>4
<1>7. Most \in S
  <2> HIDE DEF S
  <2>1. Nat \subseteq S
    BY <1>5, <1>6, SetInduction
  <2>2. QED BY <1>1, <2>1
<1>8. Far(Most) /\ Met(Most)
  BY <1>1, <1>7
<1>9. at[Most] = Sentinel
  <2>1. 4 * Most >= PoolWords - 3
    BY <1>2 DEF Most
  <2>2. CASE at[Most] # Sentinel
    <3>1. at[Most] \in B /\ at[Most] >= 4 * Most
      BY <1>1, <1>8, <2>2
    <3>2. at[Most] \in Nat /\ NextOf(h, at[Most]) >= at[Most] + 4 /\ NextOf(h, at[Most]) \in Nat
          /\ NextOf(h, at[Most]) <= Sentinel
      BY <1>2, <3>1
    <3>3. QED BY <1>1, <1>2, <2>1, <3>1, <3>2
  <2>3. QED BY <2>2
<1>10. \A c \in B : \E j \in 0..Most : at[j] = c
  BY <1>2, <1>8, <1>9
<1>11. \A i \in 0..Most : SizeOf(h, at[i]) # 0 <=> at[i] \in B
  BY <1>1, <1>2
<1>12. B = {b \in {at[i] : i \in 0..Most} : SizeOf(h, b) # 0}
  BY <1>10, <1>11
<1>13. QED BY <1>9, <1>12 DEF Blocks, at

-----------------------------------------------------------------------------
(* The inductive invariant *)

\* A block of the program, r, is large enough and holds what the program wrote.
IsBlock(h, r, id) ==
  /\ r.ptr \in Nat /\ r.size \in Requests /\ SizeOf(h, r.ptr - 2) >= r.size
  /\ \A w \in r.ptr..(r.ptr + r.size - 1) : h.word[w] = <<"data", id>>

\* So are those of ids, which are U.
Placed(h, g, ids, U) ==
  ids \subseteq Ids /\ U = {g[i].ptr - 2 : i \in ids} /\ \A i \in ids : IsBlock(h, g[i], i)

\* The inductive invariant: the used blocks are those of the program.
Sound(h, g) == \E B, F : Good(h, B, F) /\ Placed(h, g, DOMAIN g, B \ F)

\* It holds of the heap that the program uses.
HeapInv == Sound(heap, given)

\* Requests can be made.
LEMMA RequestIs ==
  ASSUME NEW size \in Requests
  PROVE  size \in Nat /\ size >= 1 /\ size \in 1..(Pow2[FlLog2] - 1)
BY TlsfAssumption, Parameters

\* Blocks of the program are kept with the used blocks.
LEMMA PlacedStill ==
  ASSUME NEW h, NEW B, Tiled(h, B), NEW s, NEW g, NEW ids, NEW U, Placed(h, g, ids, U), U \subseteq B, Keeps(h, s, U)
  PROVE  Placed(s, g, ids, U)
<1> SUFFICES ASSUME NEW i \in ids PROVE IsBlock(s, g[i], i)
  BY DEF Placed
<1> DEFINE r == g[i]
           ptr == r.ptr
           size == r.size
           b == ptr - 2
<1>1. /\ ptr \in Nat /\ size \in Requests /\ SizeOf(h, b) >= size /\ b \in U
      /\ \A w \in ptr..(ptr + size - 1) : h.word[w] = <<"data", i>>
  BY DEF Placed, IsBlock
<1> HIDE DEF b, ptr, size
<1>2. size \in Nat /\ b = ptr - 2
  BY <1>1, RequestIs DEF b
<1>3. SizeOf(h, b) \in Nat /\ NextOf(h, b) = b + 1 + SizeOf(h, b)
  BY <1>1, Apart
<1>4. SizeOf(s, b) = SizeOf(h, b) /\ \A w \in (b + 2)..NextOf(h, b) : s.word[w] = h.word[w]
  BY <1>1 DEF Keeps
<1>5. \A w \in ptr..(ptr + size - 1) : w \in (b + 2)..NextOf(h, b)
  BY <1>1, <1>2, <1>3
<1>6. SizeOf(s, b) >= size /\ \A w \in ptr..(ptr + size - 1) : s.word[w] = <<"data", i>>
  BY <1>1, <1>4, <1>5
<1>7. QED BY <1>1, <1>6 DEF IsBlock, b, ptr, size

\* No two blocks of the program are the same.
LEMMA Others ==
  ASSUME NEW h, NEW g, NEW ids, NEW U, Placed(h, g, ids, U), NEW id \in ids
  PROVE  Placed(h, g, ids \ {id}, U \ {g[id].ptr - 2})
<1>1. \A i \in ids : /\ g[i].ptr \in Nat /\ g[i].size \in Nat /\ g[i].size >= 1
                     /\ \A w \in g[i].ptr..(g[i].ptr + g[i].size - 1) : h.word[w] = <<"data", i>>
  BY RequestIs DEF Placed, IsBlock
<1>2. \A i \in ids : g[i].ptr \in g[i].ptr..(g[i].ptr + g[i].size - 1)
  BY <1>1
<1>3. \A i \in ids : h.word[g[i].ptr] = <<"data", i>>
  BY <1>1, <1>2
<1>4. \A i \in ids : i # id => g[i].ptr # g[id].ptr
  BY <1>3
<1>5. \A i \in ids : i # id => g[i].ptr - 2 # g[id].ptr - 2
  BY <1>1, <1>4
<1>6. U = {g[i].ptr - 2 : i \in ids} /\ ids \subseteq Ids /\ \A i \in ids : IsBlock(h, g[i], i)
  BY DEF Placed
<1> DEFINE b == g[id].ptr - 2
           B(i) == g[i].ptr - 2
<1>7. U = {B(i) : i \in ids} /\ \A i \in ids : i # id => B(i) # b
  BY <1>5, <1>6
<1>8. B(id) = b
  OBVIOUS
<1> HIDE DEF b, B
<1>9. U \ {b} = {B(i) : i \in ids \ {id}}
  BY <1>7, <1>8
<1>10. QED BY <1>6, <1>9 DEF Placed, b, B

\* The program has the blocks of ids, V, and gets c, which has from words of its data.
Gets(h, g, ids, V, x, id, c, size, from) ==
  /\ \E B : Tiled(h, B) /\ V \subseteq B
  /\ Placed(h, g, ids, V) /\ id \notin ids /\ Provided(h, x, V, c, size) /\ from <= size
  /\ \A w \in (c + 2)..(c + 1 + from) : x.word[w] = <<"data", id>>

\* What it then has
WithBlock(g, ids, id, c, size) ==
  [i \in ids \cup {id} |-> IF i = id THEN [ptr |-> c + 2, size |-> size] ELSE g[i]]

\* A block that the program got and fills is one of its blocks.
LEMMA GotIs ==
  ASSUME NEW h, NEW g, NEW id \in Ids, NEW ids, NEW V, NEW x, NEW c \in Nat, NEW size \in Requests,
         NEW from \in Nat, Gets(h, g, ids, V, x, id, c, size, from)
  PROVE  Sound(Filled(x, id, c + 2 + from, size - from), WithBlock(g, ids, id, c, size))
<1> DEFINE k == WithBlock(g, ids, id, c, size)
<1>a. PICK B : Tiled(h, B) /\ V \subseteq B
  BY DEF Gets
<1>b. Placed(h, g, ids, V) /\ id \notin ids /\ Provided(h, x, V, c, size) /\ from <= size
      /\ \A w \in (c + 2)..(c + 1 + from) : x.word[w] = <<"data", id>>
  BY DEF Gets
<1> DEFINE t == Filled(x, id, c + 2 + from, size - from)
           mine == <<"data", id>>
<1>1. size \in Nat /\ size >= 1
  BY RequestIs
<1>2. PICK C, G : Good(x, C, G) /\ C \ G = V \cup {c}
  BY <1>b DEF Provided
<1>3. c \notin V /\ SizeOf(x, c) >= size /\ Keeps(h, x, V)
  BY <1>b DEF Provided
<1>4. Shaped(x) /\ Tiled(x, C) /\ c \in C \ G /\ V \subseteq C /\ V \subseteq C \ {c}
  BY <1>2, <1>3 DEF Good
<1>5. SizeOf(x, c) \in Nat /\ NextOf(x, c) = c + 1 + SizeOf(x, c)
      /\ \A w \in (c + 2)..NextOf(x, c) : w \in 0..PoolWords
  BY <1>4, Apart, DataWords
<1> HIDE DEF t
<1>6. /\ Shaped(t) /\ SameLists(x, t)
      /\ \A w \in 0..PoolWords :
           t.word[w] = IF w \in (c + 2 + from)..(c + 2 + from + (size - from) - 1) THEN mine ELSE x.word[w]
  BY <1>4, FilledIs DEF t
<1>7. \A w \in 0..PoolWords : w \notin (c + 2)..NextOf(x, c) => t.word[w] = x.word[w]
  <2>1. \A w \in (c + 2 + from)..(c + 2 + from + (size - from) - 1) : w \in (c + 2)..NextOf(x, c)
    BY <1>1, <1>3, <1>5, <1>b
  <2>2. QED BY <1>6, <2>1
<1>8. /\ Good(t, C, G) /\ Keeps(x, t, C \ {c})
      /\ \A a \in C : SizeOf(t, a) = SizeOf(x, a) /\ NextOf(t, a) = NextOf(x, a)
  <2>1. WritesTo(x, t, c)
    BY <1>6, <1>7 DEF WritesTo
  <2>2. AsBefore(x, t, C, G, c)
    BY <1>2, <1>4, <2>1, Written
  <2>3. QED BY <2>2 DEF AsBefore
<1>9. Placed(t, g, ids, V)
  <2>1. Keeps(x, t, V)
    BY <1>4, <1>8, KeepsFewer
  <2>2. Keeps(h, t, V)
    BY <1>3, <2>1, KeepsTwice
  <2>3. QED BY <1>a, <1>b, <2>2, PlacedStill
<1> DEFINE r == [ptr |-> c + 2, size |-> size]
<1>10. r.ptr = c + 2 /\ r.size = size /\ c + 2 \in Nat /\ (c + 2) - 2 = c
  OBVIOUS
<1> HIDE DEF r, mine
<1>11. IsBlock(t, r, id)
  <2>1. SizeOf(t, c) >= size
    BY <1>3, <1>4, <1>8
  <2>2. ASSUME NEW w \in (c + 2)..(c + 2 + size - 1) PROVE t.word[w] = mine
    <3>1. w \in 0..PoolWords
      BY <1>1, <1>3, <1>5
    <3>2. w \in (c + 2)..(c + 1 + from) \/ w \in (c + 2 + from)..(c + 2 + from + (size - from) - 1)
      BY <1>1, <1>b
    <3>3. QED BY <1>6, <1>b, <3>1, <3>2 DEF mine
  <2>3. QED BY <1>10, <2>1, <2>2 DEF IsBlock, mine
<1>12. Placed(t, k, DOMAIN k, C \ G)
  <2>1. k = [i \in ids \cup {id} |-> IF i = id THEN r ELSE g[i]]
    BY DEF r, WithBlock
  <2> HIDE DEF k
  <2>2. DOMAIN k = ids \cup {id} /\ k[id] = r /\ \A i \in ids : k[i] = g[i]
    BY <1>b, <2>1
  <2>3. ids \subseteq Ids /\ V = {g[i].ptr - 2 : i \in ids} /\ \A i \in ids : IsBlock(t, g[i], i)
    BY <1>9 DEF Placed
  <2>4. C \ G = {k[i].ptr - 2 : i \in ids \cup {id}}
    <3>1. V = {k[i].ptr - 2 : i \in ids}
      BY <2>2, <2>3
    <3>2. k[id].ptr - 2 = c
      BY <1>10, <2>2
    <3>3. QED BY <1>2, <3>1, <3>2
  <2>5. QED BY <1>11, <2>2, <2>3, <2>4 DEF Placed
<1>13. QED BY <1>8, <1>12 DEF Sound, t

\* The words that are kept include those of headers, of links to free blocks and of the
\* blocks of the program.
LEMMA LiveHas ==
  ASSUME NEW s, NEW g, NEW C, NEW G, Tiled(s, C), Flagged(s, C, G, G)
  PROVE  /\ \A c \in C \cup {Sentinel} : c + 1 \in Live(s, g)
         /\ \A c \in G : NextOf(s, c) \in Live(s, g)
         /\ \A i \in DOMAIN g : \A w \in g[i].ptr..(g[i].ptr + g[i].size - 1) : w \in Live(s, g)
<1> DEFINE bs == Blocks(s)
           data == DataOf(g)
           links == LinksOf(s, bs)
<1>1. bs = C
  BY BlocksAre
<1>2. Live(s, g) = {b + 1 : b \in bs} \cup data \cup links \cup {PoolWords}
  BY DEF Live
<1> HIDE DEF bs
<1>3. Sentinel + 1 = PoolWords
  BY Pool
<1>4. \A c \in C \cup {Sentinel} : c + 1 \in {b + 1 : b \in bs} \cup {PoolWords}
  BY <1>1, <1>3
<1>5. \A c \in G : NextOf(s, c) \in links
  <2>1. \A c \in G : c \in {d \in bs : IsFree(s, d)}
    BY <1>1 DEF Flagged
  <2>2. \A c \in G : NextOf(s, c) \in {c + 2, c + 3, NextOf(s, c)}
    OBVIOUS
  <2>3. QED BY <2>1, <2>2 DEF LinksOf
<1>6. \A i \in DOMAIN g : \A w \in g[i].ptr..(g[i].ptr + g[i].size - 1) : w \in data
  BY DEF DataOf
<1> HIDE DEF data, links
<1>7. QED BY <1>2, <1>4, <1>5, <1>6

\* Clearing the others changes nothing that matters.
LEMMA BecomeIs ==
  ASSUME NEW s, NEW g, Sound(s, g), Become(s, g)
  PROVE  HeapInv'
<1> DEFINE live == Live(s, g)
           old == s.word
           lists == s.lists
           fl == s.fl
           sl == s.sl
           word == [w \in DOMAIN old |-> IF w \in live THEN old[w] ELSE <<"none">>]
           no == FALSE
           t == [s EXCEPT !.junk = no, !.word = word]
           t1 == [s EXCEPT !.junk = no]
<1>1. PICK C, G : Good(s, C, G) /\ Placed(s, g, DOMAIN g, C \ G)
  BY DEF Sound
<1>2. heap' = t /\ given' = g
  BY DEF Become
<1>3. /\ Tiled(s, C) /\ Flagged(s, C, G, G) /\ G \subseteq C
      /\ s = [word |-> old, lists |-> lists, fl |-> fl, sl |-> sl, junk |-> s.junk] /\ DOMAIN old = 0..PoolWords
  BY <1>1 DEF Good, Flagged, Shaped
<1>4. /\ \A c \in C \cup {Sentinel} : c + 1 \in live
      /\ \A c \in G : NextOf(s, c) \in live
      /\ \A i \in DOMAIN g : \A w \in g[i].ptr..(g[i].ptr + g[i].size - 1) : w \in live
  BY <1>3, LiveHas
<1> HIDE DEF old, live
<1>5. /\ word = [w \in 0..PoolWords |-> word[w]]
      /\ \A w \in 0..PoolWords : w \in live => word[w] = old[w]
  BY <1>3
<1> HIDE DEF word, lists, fl, sl, no
<1>6. t = [t1 EXCEPT !.word = word]
  OBVIOUS
<1>7. t1 = [word |-> old, lists |-> lists, fl |-> fl, sl |-> sl, junk |-> no]
  BY <1>3
<1> HIDE DEF t1, t
<1>8. t = [word |-> word, lists |-> lists, fl |-> fl, sl |-> sl, junk |-> no]
  BY <1>6, <1>7
<1>9. t.word = word /\ t.lists = lists /\ t.fl = fl /\ t.sl = sl /\ t.junk = no
  BY <1>8
<1>10. Shaped(t)
  <2>1. no \in BOOLEAN
    BY DEF no
  <2>2. QED BY <1>5, <1>8, <1>9, <2>1 DEF Shaped
<1>11. SameLists(s, t)
  BY <1>9 DEF SameLists, lists, fl, sl
<1>12. \A w \in 0..PoolWords : w \in live => t.word[w] = s.word[w]
  BY <1>5, <1>9 DEF old
<1>13. \A c \in C : /\ c \in Nat /\ SizeOf(s, c) \in Nat /\ NextOf(s, c) = c + 1 + SizeOf(s, c)
                    /\ NextOf(s, c) \in 0..PoolWords /\ \A w \in (c + 2)..NextOf(s, c) : w \in 0..PoolWords
  BY <1>3, Apart, DataWords
<1>14. \A c \in C \cup {Sentinel} : c + 1 \in 0..PoolWords
  BY <1>13, Pool, <1>3, Apart DEF Tiled
<1>15. Good(t, C, G) /\ \A c \in C : SizeOf(t, c) = SizeOf(s, c)
  <2>1. \A c \in C \cup {Sentinel} : t.word[c + 1] = s.word[c + 1]
    BY <1>4, <1>12, <1>14
  <2>2. \A c \in G : t.word[NextOf(s, c)] = s.word[NextOf(s, c)]
    BY <1>3, <1>4, <1>12, <1>13
  <2>3. QED BY <1>1, <1>10, <1>11, <2>1, <2>2, Rewritten
<1>16. ASSUME NEW i \in DOMAIN g PROVE IsBlock(t, g[i], i)
  <2> DEFINE r == g[i]
             b == r.ptr - 2
             size == r.size
  <2>1. /\ r.ptr \in Nat /\ size \in Requests /\ SizeOf(s, b) >= size /\ b \in C
        /\ \A w \in r.ptr..(r.ptr + size - 1) : s.word[w] = <<"data", i>> /\ w \in live
    BY <1>1, <1>4 DEF Placed, IsBlock
  <2> HIDE DEF r, size
  <2>2. size \in Nat /\ b = r.ptr - 2
    BY <2>1, RequestIs
  <2> HIDE DEF b
  <2>3. \A w \in r.ptr..(r.ptr + size - 1) : w \in 0..PoolWords
    <3>1. \A w \in r.ptr..(r.ptr + size - 1) : w \in (b + 2)..NextOf(s, b)
      BY <1>13, <2>1, <2>2
    <3>2. QED BY <1>13, <2>1, <3>1
  <2>4. \A w \in r.ptr..(r.ptr + size - 1) : t.word[w] = <<"data", i>>
    BY <1>12, <2>1, <2>3
  <2>5. SizeOf(t, b) >= size
    BY <1>15, <2>1
  <2>6. QED BY <2>1, <2>4, <2>5 DEF IsBlock, r, b, size
<1>17. Placed(t, g, DOMAIN g, C \ G)
  BY <1>1, <1>16 DEF Placed
<1>18. Sound(t, g)
  BY <1>15, <1>17 DEF Sound
<1>19. QED BY <1>2, <1>18 DEF HeapInv

\* The flags that uninitialised memory has are in no word that matters.
LEMMA JunkIs ==
  ASSUME NEW h, NEW B, NEW F, Good(h, B, F), NEW junk, junk \in BOOLEAN, NEW s, s = [h EXCEPT !.junk = junk]
  PROVE  Good(s, B, F) /\ s.word = h.word
<1> DEFINE word == h.word
           lists == h.lists
           fl == h.fl
           sl == h.sl
<1>0. word = [w \in 0..PoolWords |-> word[w]]
  BY DEF Good, Shaped
<1>1. h = [word |-> word, lists |-> lists, fl |-> fl, sl |-> sl, junk |-> h.junk]
  BY DEF Good, Shaped
<1> HIDE DEF word, lists, fl, sl
<1>a. s = [h EXCEPT !.junk = junk]
  OBVIOUS
<1>2. s = [word |-> word, lists |-> lists, fl |-> fl, sl |-> sl, junk |-> junk]
  BY ONLY <1>1, <1>a
<1>3. s.word = word /\ s.lists = lists /\ s.fl = fl /\ s.sl = sl /\ s.junk = junk
  BY ONLY <1>2
<1>4. Shaped(s) /\ SameLists(h, s) /\ s.word = h.word
  BY <1>0, <1>1, <1>2, <1>3 DEF Shaped, SameLists, word, lists, fl, sl
<1>5. Good(s, B, F)
  BY <1>4, Rewritten
<1>6. QED BY <1>4, <1>5

-----------------------------------------------------------------------------
(* It holds at first *)

\* The pool is one free block at first.
LEMMA NewHeapIs == Good(NewHeap, {0}, {0})
<1> DEFINE size == PoolWords - 2
           none == [w \in 0..PoolWords |-> <<"none">>]
           no == [c \in Classes |-> <<>>]
           block == [word |-> none, lists |-> no, fl |-> {}, sl |-> {}, junk |-> FALSE]
           x == <<"size", size, TRUE, FALSE>>
           y == <<"size", 0, FALSE, TRUE>>
           one == Put(block, 1, x)
           free == Put(one, size + 2, y)
           s == BlockInsert(free, 0)
           n == LinkNext(s, 0)
<1>1. /\ size \in Nat /\ size >= 3 /\ size + 2 = PoolWords /\ PoolWords \in Nat /\ PoolWords >= 5
      /\ Sentinel = size + 1 /\ Sentinel + 1 = PoolWords /\ Sentinel \in Nat /\ size + 2 = Sentinel + 1
  <2>1. PoolWords - 2 \in 3..(Pow2[FlLog2] - 1) /\ PoolWords \in Nat
    BY TlsfAssumption
  <2>2. QED BY <2>1, Pool DEF Sentinel
<1>2. NewHeap = n
  BY DEF NewHeap, Put
<1>3. /\ block.word = none /\ block.lists = no /\ block.fl = {} /\ block.sl = {} /\ block.junk = FALSE
      /\ block = [word |-> none, lists |-> no, fl |-> {}, sl |-> {}, junk |-> FALSE]
  OBVIOUS
<1>4. Shaped(block)
  <2>1. none = [w \in 0..PoolWords |-> none[w]]
    OBVIOUS
  <2> HIDE DEF none, no, block
  <2>2. block.word = [w \in 0..PoolWords |-> block.word[w]] /\ block.junk \in BOOLEAN
    BY <1>3, <2>1
  <2>3. block = [word |-> block.word, lists |-> block.lists, fl |-> block.fl, sl |-> block.sl, junk |-> block.junk]
    BY <1>3
  <2>4. QED BY <2>2, <2>3 DEF Shaped
<1>5. no \in [Classes -> Seq(Nat)] /\ \A c \in Classes : no[c] = <<>>
  OBVIOUS
<1> HIDE DEF block, none, no, x, y
<1>6. /\ Shaped(one) /\ one.word[1] = x /\ one.lists = no /\ one.fl = {} /\ one.sl = {}
  <2>1. 1 \in 0..PoolWords
    BY <1>1
  <2> HIDE DEF one
  <2>2. one = Put(block, 1, x)
    BY DEF one
  <2>3. Shaped(one) /\ one.word[1] = x /\ one.lists = block.lists /\ one.fl = block.fl /\ one.sl = block.sl
    BY <1>4, <2>1, <2>2, PutIs
  <2>4. QED BY <1>3, <2>3
<1> HIDE DEF one
<1>7. /\ Shaped(free) /\ free.word[1] = x /\ free.word[PoolWords] = y
      /\ free.lists = no /\ free.fl = {} /\ free.sl = {}
  <2>1. size + 2 \in 0..PoolWords /\ 1 \in 0..PoolWords /\ size + 2 # 1
    BY <1>1
  <2> HIDE DEF free, size
  <2>2. free = Put(one, size + 2, y)
    BY DEF free
  <2>3. /\ Shaped(free) /\ free.word[size + 2] = y /\ free.lists = one.lists /\ free.fl = one.fl /\ free.sl = one.sl
        /\ free.word[1] = one.word[1]
    BY <1>6, <2>1, <2>2, PutIs
  <2>4. QED BY <1>1, <1>6, <2>3
<1> HIDE DEF free
<1>8. ASSUME NEW h, h.word[1] = x, h.word[PoolWords] = y
      PROVE  /\ Header(h, 0) /\ SizeOf(h, 0) = size /\ IsFree(h, 0) = TRUE /\ IsPrevFree(h, 0) = FALSE
             /\ Header(h, Sentinel) /\ SizeOf(h, Sentinel) = 0 /\ IsFree(h, Sentinel) = FALSE
             /\ IsPrevFree(h, Sentinel) = TRUE
             /\ NextOf(h, 0) = Sentinel /\ Tiled(h, {0})
  <2> HIDE DEF size
  <2>a. h.word[0 + 1] = x /\ h.word[Sentinel + 1] = y
    BY <1>1, <1>8
  <2>b. size \in Nat /\ 0 \in Nat /\ TRUE \in BOOLEAN /\ FALSE \in BOOLEAN
    BY <1>1
  <2>1. h.word[0 + 1] = <<"size", size, TRUE, FALSE>>
    BY <2>a DEF x
  <2>2. h.word[Sentinel + 1] = <<"size", 0, FALSE, TRUE>>
    BY <2>a DEF y
  <2>3. Header(h, 0) /\ SizeOf(h, 0) = size /\ IsFree(h, 0) = TRUE /\ IsPrevFree(h, 0) = FALSE
    BY ONLY <2>1, <2>b, HeaderWord
  <2>4. Header(h, Sentinel) /\ SizeOf(h, Sentinel) = 0 /\ IsFree(h, Sentinel) = FALSE /\ IsPrevFree(h, Sentinel) = TRUE
    BY ONLY <2>2, <2>b, HeaderWord
  <2>5. NextOf(h, 0) = Sentinel
    BY <1>1, <2>3 DEF NextOf
  <2>6. \A b \in {0}, c \in {0} \cup {Sentinel} : b < c => NextOf(h, b) <= c
    BY <1>1, <2>5
  <2>7. {0} \subseteq 0..(Sentinel - 1)
    BY <1>1
  <2>8. Tiled(h, {0})
    BY <1>1, <2>3, <2>4, <2>5, <2>6, <2>7 DEF Tiled
  <2>9. QED BY <2>3, <2>4, <2>5, <2>8
<1> HIDE DEF size
<1>9. Listed(free, {})
  <2>1. \A c \in Classes : ToSet(no[c]) = {} /\ IsInjective(no[c])
    BY <1>5 DEF ToSet, IsInjective
  <2>2. QED BY <1>5, <1>7, <2>1 DEF Listed
<1>10. /\ Shaped(s) /\ Listed(s, {0}) /\ s.word[1] = x /\ s.word[PoolWords] = y
  <2>1. 0 \in {0} \ {} /\ {} \subseteq {0} /\ {} \cup {0} = {0}
    OBVIOUS
  <2>2. Tiled(free, {0})
    BY <1>7, <1>8
  <2>3. /\ Shaped(s) /\ Listed(s, {} \cup {0})
        /\ \A w \in 0..PoolWords : w # 0 + 2 /\ w # 0 + 3 => s.word[w] = free.word[w]
    BY <1>7, <1>9, <2>1, <2>2, InsertWords
  <2>4. 1 \in 0..PoolWords /\ PoolWords \in 0..PoolWords /\ PoolWords # 0 + 2 /\ PoolWords # 0 + 3
    BY <1>1
  <2> HIDE DEF s
  <2>5. QED BY <1>7, <2>1, <2>3, <2>4
<1> HIDE DEF s
<1>11. SizeOf(s, 0) = size /\ NextOf(s, 0) = Sentinel
  BY <1>8, <1>10
<1>12. /\ Shaped(n) /\ n.word[Sentinel] = <<"prev", 0>> /\ n.word[1] = x /\ n.word[PoolWords] = y
       /\ SameLists(s, n)
  <2> DEFINE link == <<"prev", 0>>
  <2>1. n = Put(s, Sentinel, link)
    BY <1>11 DEF LinkNext, Put
  <2>2. Sentinel \in 0..PoolWords /\ 1 \in 0..PoolWords /\ PoolWords \in 0..PoolWords
        /\ 1 # Sentinel /\ PoolWords # Sentinel
    BY <1>1
  <2> HIDE DEF link, n
  <2>3. /\ Shaped(n) /\ n.word[Sentinel] = link /\ n.word[1] = s.word[1] /\ n.word[PoolWords] = s.word[PoolWords]
        /\ n.lists = s.lists /\ n.fl = s.fl /\ n.sl = s.sl
    BY <1>10, <2>1, <2>2, PutIs
  <2>4. QED BY <1>10, <2>3 DEF SameLists, link
<1> HIDE DEF n
<1>13. /\ SizeOf(n, 0) = size /\ IsFree(n, 0) = TRUE /\ IsPrevFree(n, 0) = FALSE
       /\ IsPrevFree(n, Sentinel) = TRUE /\ NextOf(n, 0) = Sentinel /\ Tiled(n, {0})
  BY <1>8, <1>12
<1>14. Listed(n, {0})
  <2>1. \A b \in {0} : SizeOf(n, b) = SizeOf(s, b)
    BY <1>11, <1>13
  <2>2. QED BY <1>10, <1>12, <2>1, ListedStill
<1>15. Flagged(n, {0}, {0}, {0})
  BY <1>12, <1>13 DEF Flagged
<1>16. Sparse(n, {0})
  BY <1>1, <1>13 DEF Sparse
<1>17. QED BY <1>2, <1>12, <1>13, <1>14, <1>15, <1>16 DEF Good

\* The program begins with the whole pool free.
LEMMA HeapStarts == TlsfInit => HeapInv
<1> SUFFICES ASSUME TlsfInit PROVE HeapInv
  OBVIOUS
<1>1. heap = NewHeap /\ given = << >>
  BY DEF TlsfInit
<1>2. DOMAIN given = {}
  BY <1>1
<1>3. Placed(heap, given, DOMAIN given, {0} \ {0})
  BY <1>2 DEF Placed
<1>4. Good(heap, {0}, {0})
  BY <1>1, NewHeapIs
<1>5. QED BY <1>3, <1>4 DEF HeapInv, Sound

-----------------------------------------------------------------------------
(* The steps of the program *)

\* A heap in order stays so as memory it does not use changes.
LEMMA SoundJunk ==
  ASSUME NEW B, NEW F, Good(heap, B, F), Placed(heap, given, DOMAIN given, B \ F),
         NEW junk \in BOOLEAN, NEW h, h = [heap EXCEPT !.junk = junk]
  PROVE  /\ Good(h, B, F) /\ Tiled(h, B) /\ B \ F \subseteq B
         /\ Placed(h, given, DOMAIN given, B \ F)
<1>1. Good(h, B, F) /\ h.word = heap.word
  BY JunkIs
<1>2. Tiled(heap, B) /\ Tiled(h, B) /\ B \ F \subseteq B
  BY <1>1 DEF Good
<1> DEFINE U == B \ F
<1>3. Keeps(heap, h, U)
  <2> HIDE DEF U
  <2>1. QED BY <1>1, SameWords
<1> HIDE DEF U
<1>4. Placed(h, given, DOMAIN given, U)
  BY <1>2, <1>3, PlacedStill DEF U
<1>5. QED BY <1>1, <1>2, <1>4 DEF U

\* The program gets another block.
LEMMA MallocKeeps ==
  ASSUME HeapInv, NEW id \in Ids, NEW size \in Requests, Malloc(id, size)
  PROVE  HeapInv'
<1>1. PICK B, F : Good(heap, B, F) /\ Placed(heap, given, DOMAIN given, B \ F)
  BY DEF HeapInv, Sound
<1>2. PICK junk \in BOOLEAN : Got(id, TlsfMalloc([heap EXCEPT !.junk = junk], size), size, 0)
  BY DEF Malloc
<1>3. id \notin DOMAIN given
  BY DEF Malloc
<1> DEFINE h == [heap EXCEPT !.junk = junk]
           r == TlsfMalloc(h, size)
           x == r[1]
           U == B \ F
           ids == DOMAIN given
<1>4. Good(h, B, F) /\ Tiled(h, B) /\ U \subseteq B /\ Placed(h, given, ids, U)
  BY <1>1, SoundJunk
<1>5. Got(id, r, size, 0)
  BY <1>2
<1> HIDE DEF h
<1>6. size \in Nat /\ size >= 1 /\ size \in 1..(Pow2[FlLog2] - 1)
  BY RequestIs
<1>7. \/ r = <<h, NONE>>
      \/ \E c \in Nat : r = <<x, c + 2>> /\ Provided(h, x, U, c, size)
  BY <1>4, <1>6, MallocIs
<1> HIDE DEF r, U
<1>8. r[2] # NONE
  BY <1>5 DEF Got
<1>9. PICK c \in Nat : r = <<x, c + 2>> /\ Provided(h, x, U, c, size)
  BY <1>7, <1>8
<1>10. r[2] = c + 2
  BY <1>9
<1> HIDE DEF x
<1> DEFINE k == WithBlock(given, ids, id, c, size)
           s == Filled(x, id, c + 2 + 0, size - 0)
<1>11. Become(s, k)
  BY <1>5, <1>10 DEF Got, WithBlock, x
<1>12. Sound(s, k)
  <2>1. \A w \in (c + 2)..(c + 1 + 0) : x.word[w] = <<"data", id>>
    OBVIOUS
  <2>2. 0 \in Nat /\ 0 <= size
    BY <1>6
  <2>3. Gets(h, given, ids, U, x, id, c, size, 0)
    BY <1>3, <1>4, <1>9, <2>1, <2>2 DEF Gets
  <2>4. QED BY <2>2, <2>3, GotIs
<1> HIDE DEF s, k
<1>13. QED BY <1>11, <1>12, BecomeIs

\* The program gives a block back.
LEMMA ReleaseKeeps ==
  ASSUME HeapInv, NEW id \in DOMAIN given, Release(id)
  PROVE  HeapInv'
<1>1. PICK B, F : Good(heap, B, F) /\ Placed(heap, given, DOMAIN given, B \ F)
  BY DEF HeapInv, Sound
<1> DEFINE ptr == given[id].ptr
           b == ptr - 2
           s == TlsfFree(heap, ptr)
           U == B \ F
           ids == DOMAIN given \ {id}
           k == [i \in ids |-> given[i]]
<1>2. Become(s, k)
  BY DEF Release
<1>3. Tiled(heap, B) /\ b \in U
  BY <1>1 DEF Good, Placed
<1>4. Placed(heap, given, ids, U \ {b})
  BY <1>1, Others
<1> HIDE DEF s
<1>5. Restored(heap, s, U \ {b})
  BY <1>1, <1>3, FreeIs DEF s
<1>6. PICK C, G : Good(s, C, G) /\ C \ G = U \ {b} /\ Keeps(heap, s, U \ {b})
  BY <1>5 DEF Restored
<1>7. U \ {b} \subseteq B
  OBVIOUS
<1> DEFINE V == U \ {b}
<1>8. Placed(s, given, ids, V)
  <2> HIDE DEF U, ids, b
  <2>1. Keeps(heap, s, V) /\ V \subseteq B /\ Placed(heap, given, ids, V)
    BY <1>4, <1>6, <1>7
  <2> HIDE DEF V
  <2>2. QED BY <1>3, <2>1, PlacedStill
<1>9. Placed(s, k, DOMAIN k, V)
  <2>1. DOMAIN k = ids /\ \A i \in ids : k[i] = given[i]
    OBVIOUS
  <2> HIDE DEF V, k, ids
  <2>2. QED BY <1>8, <2>1 DEF Placed
<1> HIDE DEF k, U, b
<1>10. Sound(s, k)
  BY <1>6, <1>9 DEF Sound
<1>11. QED BY <1>2, <1>10, BecomeIs

\* The program resizes a block.
LEMMA ResizeKeeps ==
  ASSUME HeapInv, NEW id \in DOMAIN given, NEW size \in Requests, Resize(id, size)
  PROVE  HeapInv'
<1>1. PICK B, F : Good(heap, B, F) /\ Placed(heap, given, DOMAIN given, B \ F)
  BY DEF HeapInv, Sound
<1> DEFINE had == given[id].size
           ptr == given[id].ptr
           n == Min({had, size})
           b == ptr - 2
<1>2. PICK junk \in BOOLEAN : Got(id, TlsfRealloc([heap EXCEPT !.junk = junk], ptr, size), size, n)
  BY DEF Resize
<1> DEFINE h == [heap EXCEPT !.junk = junk]
           r == TlsfRealloc(h, ptr, size)
           x == r[1]
           U == B \ F
           ids == DOMAIN given
<1>3. Good(h, B, F) /\ Tiled(h, B) /\ U \subseteq B /\ Placed(h, given, ids, U)
  BY <1>1, SoundJunk
<1>4. Got(id, r, size, n)
  BY <1>2
<1> HIDE DEF h
<1>5. size \in Nat /\ size >= 1 /\ size \in 1..(Pow2[FlLog2] - 1)
  BY RequestIs
<1>6. /\ ids \subseteq Ids /\ ptr \in Nat /\ had \in Requests /\ SizeOf(h, b) >= had /\ b \in U
      /\ \A w \in ptr..(ptr + had - 1) : h.word[w] = <<"data", id>>
  BY <1>3 DEF Placed, IsBlock
<1>7. had \in Nat /\ SizeOf(h, b) \in Nat
  BY <1>3, <1>6, RequestIs, Apart
<1> HIDE DEF had, ptr
<1>8. n \in Nat /\ n <= size /\ n <= had
  <2>1. {had, size} \subseteq Nat /\ {had, size} # {}
    BY <1>5, <1>7
  <2>2. n \in {had, size} /\ \A y \in {had, size} : n <= y
    BY <2>1, MinOf
  <2>3. QED BY <1>5, <1>7, <2>2
<1> HIDE DEF n
<1>9. n <= SizeOf(h, b) /\ ptr = b + 2
  BY <1>6, <1>7, <1>8
<1> HIDE DEF b
<1>10. \/ r = <<h, NONE>>
       \/ \E c \in Nat : r = <<x, c + 2>> /\ Provided(h, x, U \ {b}, c, size) /\ Carries(h, x, b, c, n)
  BY <1>3, <1>5, <1>6, <1>8, <1>9, ReallocIs
<1> HIDE DEF r
<1>11. r[2] # NONE
  BY <1>4 DEF Got
<1>12. PICK c \in Nat : r = <<x, c + 2>> /\ Provided(h, x, U \ {b}, c, size) /\ Carries(h, x, b, c, n)
  BY <1>10, <1>11
<1>13. r[2] = c + 2
  BY <1>12
<1> HIDE DEF x
<1> DEFINE rest == ids \ {id}
           k == WithBlock(given, rest, id, c, size)
           s == Filled(x, id, c + 2 + n, size - n)
<1>14. Become(s, k)
  <2>1. rest \cup {id} = ids \cup {id}
    OBVIOUS
  <2>2. k = [i \in ids \cup {id} |-> IF i = id THEN [ptr |-> r[2], size |-> size] ELSE given[i]]
    BY <1>13, <2>1 DEF WithBlock
  <2> HIDE DEF k
  <2>3. QED BY <1>4, <1>13, <2>2 DEF Got, x
<1>15. Sound(s, k)
  <2>1. ASSUME NEW w \in (c + 2)..(c + 1 + n) PROVE x.word[w] = <<"data", id>>
    <3> DEFINE i == w - (c + 2)
    <3>1. i \in 0..(n - 1) /\ c + 2 + i = w /\ b + 2 + i \in ptr..(ptr + had - 1)
      BY <1>6, <1>7, <1>8, <1>9
    <3> HIDE DEF i
    <3>2. x.word[w] = h.word[b + 2 + i]
      BY <1>12, <3>1 DEF Carries
    <3>3. QED BY <1>6, <3>1, <3>2
  <2>2. Placed(h, given, rest, U \ {b})
    BY <1>3, Others DEF b, ptr
  <2>3. U \ {b} \subseteq B
    OBVIOUS
  <2>4. Gets(h, given, rest, U \ {b}, x, id, c, size, n)
    BY <1>3, <1>8, <1>12, <2>1, <2>2, <2>3 DEF Gets
  <2>5. QED BY <1>6, <1>8, <2>4, GotIs
<1> HIDE DEF s, k
<1>16. QED BY <1>14, <1>15, BecomeIs

\* The invariant is inductive.
LEMMA HeapSteps == HeapInv /\ [TlsfNext]_heapVars => HeapInv'
<1> SUFFICES ASSUME HeapInv, [TlsfNext]_heapVars PROVE HeapInv'
  OBVIOUS
<1>1. ASSUME NEW id \in Ids, NEW size \in Requests, Malloc(id, size) PROVE HeapInv'
  BY <1>1, MallocKeeps
<1>2. ASSUME NEW id \in DOMAIN given, Release(id) PROVE HeapInv'
  BY <1>2, ReleaseKeeps
<1>3. ASSUME NEW id \in DOMAIN given, NEW size \in Requests, Resize(id, size) PROVE HeapInv'
  BY <1>3, ResizeKeeps
<1>4. CASE UNCHANGED heapVars
  BY <1>4 DEF heapVars, HeapInv
<1>5. QED BY <1>1, <1>2, <1>3, <1>4 DEF TlsfNext

-----------------------------------------------------------------------------
(* What the pools rely on *)

\* The blocks of a heap in order are B, the free ones F, the used ones the others.
LEMMA GoodHas ==
  ASSUME NEW h, NEW B, NEW F, Good(h, B, F)
  PROVE  /\ Blocks(h) = B /\ {b \in Blocks(h) : IsFree(h, b)} = F
         /\ {b \in Blocks(h) : ~IsFree(h, b)} = B \ F
<1>1. Tiled(h, B) /\ Flagged(h, B, F, F)
  BY DEF Good
<1>2. Blocks(h) = B
  BY <1>1, BlocksAre
<1>3. F \subseteq B /\ \A b \in B : IsFree(h, b) <=> b \in F
  BY <1>1 DEF Flagged
<1>4. QED BY <1>2, <1>3

\* A heap in order is tiled.
LEMMA TiledIs ==
  ASSUME NEW B, NEW F, Good(heap, B, F)
  PROVE  IsTiled
<1>1. Tiled(heap, B) /\ Flagged(heap, B, F, F) /\ Sparse(heap, F) /\ Blocks(heap) = B
  BY GoodHas DEF Good
<1>2. Walked(heap)[Most] = Sentinel /\ SizeOf(heap, Sentinel) = 0 /\ ~IsFree(heap, Sentinel) /\ ~IsPrevFree(heap, 0)
  BY <1>1, BlocksAre DEF Tiled, Flagged
<1>3. ASSUME NEW b \in B
      PROVE  /\ IsPrevFree(heap, NextOf(heap, b)) = IsFree(heap, b)
             /\ IsFree(heap, b) => PrevOf(heap, NextOf(heap, b)) = b /\ ~IsFree(heap, NextOf(heap, b))
  <2> DEFINE next == NextOf(heap, b)
  <2>1. next \in B \cup {Sentinel}
    BY <1>1 DEF Tiled
  <2>2. Header(heap, b) /\ Header(heap, next)
    BY <1>1, <2>1 DEF Tiled
  <2>3. (IsFree(heap, b) <=> b \in F) /\ (IsPrevFree(heap, next) <=> b \in F)
    BY <1>1 DEF Flagged
  <2> HIDE DEF next
  <2>4. IsFree(heap, b) \in BOOLEAN /\ IsPrevFree(heap, next) \in BOOLEAN
    BY <2>2 DEF Header
  <2>5. IsPrevFree(heap, next) = IsFree(heap, b)
    BY <2>3, <2>4
  <2>6. b \in F => PrevOf(heap, next) = b
    <3>1. b \in F => heap.word[next] = <<"prev", b>>
      BY <1>1 DEF Flagged, next
    <3>2. QED BY <3>1 DEF PrevOf
  <2>7. b \in F => ~IsFree(heap, next)
    <3>1. b \in F => next \notin F
      BY <1>1 DEF Sparse, next
    <3>2. next = Sentinel => ~IsFree(heap, next)
      BY <1>2
    <3>3. next \in B => (IsFree(heap, next) <=> next \in F)
      BY <1>1 DEF Flagged
    <3>4. QED BY <2>1, <3>1, <3>2, <3>3
  <2>8. QED BY <2>3, <2>5, <2>6, <2>7 DEF next
<1>4. QED BY <1>1, <1>2, <1>3 DEF IsTiled

\* Its free lists are those of its free blocks.
LEMMA ListsAre ==
  ASSUME NEW B, NEW F, Good(heap, B, F)
  PROVE  ListsAgree
<1>1. Listed(heap, F) /\ {b \in Blocks(heap) : IsFree(heap, b)} = F
  BY GoodHas DEF Good
<1>2. ASSUME NEW c \in Classes
      PROVE  /\ Len(heap.lists[c]) = Cardinality(ToSet(heap.lists[c]))
             /\ ToSet(heap.lists[c]) = {b \in F : MappingInsert(SizeOf(heap, b)) = c}
  <2>1. heap.lists[c] \in Seq(Nat) /\ IsInjective(heap.lists[c])
    BY <1>1 DEF Listed
  <2>2. QED BY <1>1, <2>1, EachOnce DEF Listed
<1>3. heap.sl = {c \in Classes : heap.lists[c] # <<>>} /\ heap.fl = {c[1] : c \in heap.sl}
  BY <1>1 DEF Listed
<1>4. QED BY <1>1, <1>2, <1>3 DEF ListsAgree

\* Its used blocks are those of the program.
LEMMA DataIs ==
  ASSUME NEW B, NEW F, Good(heap, B, F), Placed(heap, given, DOMAIN given, B \ F)
  PROVE  DataKept
<1>1. {b \in Blocks(heap) : ~IsFree(heap, b)} = B \ F
  BY GoodHas
<1> DEFINE U == B \ F
<1> HIDE DEF U
<1>2. U = {given[id].ptr - 2 : id \in DOMAIN given}
      /\ \A id \in DOMAIN given : IsBlock(heap, given[id], id)
  BY DEF Placed, U
<1>3. {b \in Blocks(heap) : ~IsFree(heap, b)} = U
  BY <1>1 DEF U
<1>4. \A id \in DOMAIN given :
        /\ SizeOf(heap, given[id].ptr - 2) >= given[id].size
        /\ \A w \in given[id].ptr..(given[id].ptr + given[id].size - 1) : heap.word[w] = <<"data", id>>
  BY <1>2 DEF IsBlock
<1>5. QED BY <1>2, <1>3, <1>4 DEF DataKept

\* It has room for a request unless no free block is larger than that by one part in
\* SL_INDEX_COUNT.
LEMMA RoomIs ==
  ASSUME NEW B, NEW F, Good(heap, B, F)
  PROVE  FindsRoom
<1>1. Tiled(heap, B) /\ F \subseteq B /\ Listed(heap, F)
  BY DEF Good, Flagged
<1>2. {b \in Blocks(heap) : IsFree(heap, b)} = F
  BY GoodHas
<1> DEFINE Room(size) ==
             IF ClassFor(heap, size) = NONE THEN \A b \in F : SizeOf(heap, b) < size + size \div SmallBlock
             ELSE SizeOf(heap, Head(heap.lists[ClassFor(heap, size)])) >= size
<1>3. ASSUME NEW n \in Requests PROVE Room(AdjustRequest(n))
  <2> DEFINE size == AdjustRequest(n)
  <2>1. size \in Nat /\ 1 <= size /\ size < Pow2[FlLog2]
    <3>1. n \in 1..(Pow2[FlLog2] - 1)
      BY RequestIs
    <3>2. size \in Nat /\ size >= 3 /\ size < Pow2[FlLog2]
      BY <3>1, AdjustIs
    <3>3. QED BY <3>2
  <2> HIDE DEF size
  <2>2. \/ ClassFor(heap, size) = NONE /\ \A b \in F : SizeOf(heap, b) < size + size \div SmallBlock
        \/ ClassFor(heap, size) # NONE /\ SizeOf(heap, Head(heap.lists[ClassFor(heap, size)])) >= size
    BY <1>1, <2>1, Found
  <2>3. Room(size)
    BY <2>2
  <2>4. QED BY <2>3 DEF size
<1>4. \A size \in {AdjustRequest(n) : n \in Requests} : Room(size)
  <2> HIDE DEF Room
  <2>1. QED BY <1>3
<1>5. QED BY <1>2, <1>4 DEF FindsRoom

\* A heap in order is what the pools rely on.
LEMMA HeapFits == HeapInv => HeapSound
<1> SUFFICES ASSUME HeapInv PROVE HeapSound
  OBVIOUS
<1>1. PICK B, F : Good(heap, B, F) /\ Placed(heap, given, DOMAIN given, B \ F)
  BY DEF HeapInv, Sound
<1>2. IsTiled /\ ListsAgree /\ DataKept /\ FindsRoom
  BY <1>1, TiledIs, ListsAre, DataIs, RoomIs
<1>3. QED BY <1>2 DEF HeapSound

\* The allocator keeps its blocks and those of the program apart and finds them again.
THEOREM HeapIsSound == TlsfSpec => []HeapSound
<1>1. TlsfInit => HeapInv
  BY HeapStarts
<1>2. HeapInv /\ [TlsfNext]_heapVars => HeapInv'
  BY HeapSteps
<1>3. HeapInv => HeapSound
  BY HeapFits
<1>4. QED BY <1>1, <1>2, <1>3, PTL DEF TlsfSpec
=============================================================================
