------------------------------- MODULE Events -------------------------------
(***************************************************************************)
(* The event services of efi-wrapper/efi/tables/event.c: event objects,    *)
(* the current task priority level, the queue of pending notifications and *)
(* the dispatcher that runs their notification functions.                  *)
(*                                                                         *)
(* The emulator has one thread here.  What interleaves is the program's    *)
(* own code: a notification function runs in the middle of a service call  *)
(* and may itself call any service, which dispatches further functions.    *)
(* The C call stack is therefore a variable: a "run" frame is a call of a  *)
(* notification function by efi_run_event_queue, an "image" frame the run  *)
(* of a program started by another, and the other kinds are service calls  *)
(* whose loop is interrupted by such a dispatch.  Exit, which a function   *)
(* may call too, jumps out of the innermost program and cuts every loop    *)
(* above its frame.                                                        *)
(***************************************************************************)
EXTENDS Integers, Sequences, FiniteSets, SequencesExt

CONSTANTS
  Event,       \* the event objects that may be created
  Request,     \* the arguments CreateEvent(Ex) may be called with
  WaitList,    \* the event arrays WaitForEvent may be called with
  TplArg,      \* the levels RaiseTPL and RestoreTPL may be called with
  MaxNotifies, \* bound on the protocol notifications registered
  MaxImages,   \* bound on the programs started by others, at one time
  MayExhaust,  \* may the allocation of a queue node fail?
  NestedReads, \* do notification functions read the input devices?
  Balanced,    \* does every notification function return at its own TPL?
  Group,       \* the event group GUIDs
  Nil, NoGroup, ExitBootServicesGuid, VirtualAddressChangeGuid

APPLICATION == 4
CALLBACK    == 8
NOTIFY      == 16
HIGH_LEVEL  == 31

\* An event type is the set of its flag bits.
Flag == {"timer", "wait", "signal", "exit_bs", "vac"}

\* Callers create their events at one of the levels that exist.
ASSUME RequestAssumption ==
  Request \subseteq [type : SUBSET Flag, tpl : 0 .. HIGH_LEVEL, func : BOOLEAN,
                     group : Group \cup {NoGroup}]
ASSUME GroupAssumption ==
  /\ {ExitBootServicesGuid, VirtualAddressChangeGuid} \subseteq Group
  /\ NoGroup \notin Group
ASSUME WaitAssumption == WaitList \subseteq Seq(Event)
ASSUME TplAssumption  == TplArg \subseteq Nat
ASSUME BoundAssumption == MaxNotifies \in Nat /\ MaxImages \in Nat
ASSUME ChoiceAssumption ==
  MayExhaust \in BOOLEAN /\ NestedReads \in BOOLEAN /\ Balanced \in BOOLEAN
ASSUME NilAssumption  == Nil \notin Event

VARIABLES
  events,    \* ctx->events, in creation order
  shape,     \* the type, tpl, func and group of each event
  signaled,  \* event->signaled
  queue,     \* ctx->event_queue: a list node is named by its event
  tpl,       \* ctx->tpl
  stack,     \* the service and notification calls in progress, innermost last
  notifies,  \* ctx->notifies of one protocol: the events to signal
  stranded   \* history: signalled events an Exit kept a loop from queueing

vars == <<events, shape, signaled, queue, tpl, stack, notifies, stranded>>

TplRange == 0 .. HIGH_LEVEL

Shape == [type : SUBSET Flag, tpl : TplRange, func : BOOLEAN,
          group : Group \cup {NoGroup}]

Unshaped == [type |-> {}, tpl |-> 0, func |-> FALSE, group |-> NoGroup]

Frame == [kind : {"run", "group", "wait", "install", "image"},
          cur  : Event \cup {Nil},    \* the node l, or the event signalled
          next : Event \cup {Nil},    \* the node n, saved before the call
          old  : TplRange,            \* old_tpl, or the level of StartImage
          evs  : Seq(Event),          \* the array given to WaitForEvent
          pos  : Nat \ {0}]           \* the loop index

RunFrame(e, n, t) ==
  [kind |-> "run", cur |-> e, next |-> n, old |-> t, evs |-> <<>>, pos |-> 1]
GroupFrame(e) ==
  [kind |-> "group", cur |-> e, next |-> Nil, old |-> 0, evs |-> <<>>, pos |-> 1]
WaitFrame(es) ==
  [kind |-> "wait", cur |-> Nil, next |-> Nil, old |-> 0, evs |-> es, pos |-> 1]
InstallFrame ==
  [kind |-> "install", cur |-> Nil, next |-> Nil, old |-> 0, evs |-> <<>>, pos |-> 1]
ImageFrame(t) ==
  [kind |-> "image", cur |-> Nil, next |-> Nil, old |-> t, evs |-> <<>>, pos |-> 1]

-----------------------------------------------------------------------------
(* Reading the state *)

Created  == ToSet(events)
Queued   == ToSet(queue)
Level(e) == shape[e].tpl
Notifies(e)   == "signal" \in shape[e].type
PureSignal(e) == shape[e].type = {"signal"}
SameGroup(e, f) == shape[e].group # NoGroup /\ shape[f].group = shape[e].group

Top == stack[Len(stack)]
TopIs(kind) == stack # <<>> /\ Top.kind = kind
Advanced == [stack EXCEPT ![Len(stack)].pos = @ + 1]

\* The application that main runs, a program started by another one or a
\* notification function has the processor.
ClientRuns == stack = <<>> \/ TopIs("run") \/ TopIs("image")

\* The level a client was entered at: it never goes below it by itself.
EntryTpl == IF stack = <<>> THEN APPLICATION
            ELSE IF Top.kind = "image" THEN Top.old
            ELSE Level(Top.cur)

\* A group loop, in frame f or in a frame of stack s, still has to reach e.
Reaches(f, e) ==
  /\ f.kind = "group" /\ SameGroup(f.cur, e)
  /\ \E k \in DOMAIN events : k >= f.pos /\ events[k] = e
ComingOn(s, e) == \E i \in 1 .. Len(s) : Reaches(s[i], e)
Coming(e) == ComingOn(stack, e)

First(q) == IF q = <<>> THEN Nil ELSE Head(q)
Index(q, e) == CHOOSE i \in DOMAIN q : q[i] = e
Successor(q, e) == IF Index(q, e) = Len(q) THEN Nil ELSE q[Index(q, e) + 1]

\* Faulty variant of InsertPos: equals are passed.
BeforeEquals(q, e, i) ==
  /\ \A j \in 1 .. i - 1 : Level(q[j]) > Level(e)
  /\ i <= Len(q) => Level(q[i]) <= Level(e)

\* Place i is that of the first node of a lower level, or the end of the list.
InsertPos(q, e, i) ==
  /\ \A j \in 1 .. i - 1 : Level(q[j]) >= Level(e)
  /\ i <= Len(q) => Level(q[i]) < Level(e)

Deleted(q, e) == RemoveAt(q, Index(q, e))

-----------------------------------------------------------------------------
(* Pieces of service calls.  Each takes the call stack s of its caller.    *)

\* Faulty variant of RunQueue: an event interrupts code of its own level.
RunQueueAtOwnLevel(q, l, t, s) ==
  IF l # Nil /\ t <= Level(l)
  THEN /\ tpl' = Level(l)
       /\ stack' = Append(s, RunFrame(l, Successor(q, l), t))
  ELSE /\ tpl' = t
       /\ stack' = s

\* One turn of the loop of efi_run_event_queue, at node l of list q with the
\* current level t: the loop calls l's function or returns to its caller.
RunQueue(q, l, t, s) ==
  IF l # Nil /\ t < Level(l)
  THEN /\ tpl' = Level(l)
       /\ stack' = Append(s, RunFrame(l, Successor(q, l), t))
  ELSE /\ tpl' = t
       /\ stack' = s

\* Faulty variant of TimerRun: only timers are looked at.
TimersOnly(t, s) == tpl' = t /\ stack' = s

\* Nothing in the program sets ctx->timer, so efi_timer_run only runs the queue.
TimerRun(t, s) == RunQueue(queue, First(queue), t, s)

AddToQueue(e, s) ==
  \/ /\ shape[e].func /\ e \notin Queued
     /\ \E i \in 1 .. Len(queue) + 1 :
          InsertPos(queue, e, i) /\ queue' = InsertAt(queue, i, e)
     /\ RunQueue(queue', First(queue'), tpl, s)
  \/ /\ ~shape[e].func \/ e \in Queued \/ MayExhaust
     /\ stack' = s
     /\ UNCHANGED <<queue, tpl>>

\* SignalEvent(e) from the signal states sig.
SignalFrom(sig, e, s) ==
  \/ /\ sig[e]
     /\ signaled' = sig /\ stack' = s
     /\ UNCHANGED <<queue, tpl, stranded>>
  \/ /\ ~sig[e] /\ shape[e].group # NoGroup
     /\ signaled' = [f \in Event |-> sig[f] \/ (f \in Created /\ SameGroup(e, f))]
     /\ stack' = Append(s, GroupFrame(e))
     /\ stranded' = {f \in stranded : ~SameGroup(e, f)}
     /\ UNCHANGED <<queue, tpl>>
  \/ /\ ~sig[e] /\ shape[e].group = NoGroup
     /\ signaled' = [sig EXCEPT ![e] = TRUE]
     /\ stranded' = stranded \ {e}
     /\ AddToQueue(e, s)

-----------------------------------------------------------------------------
(* Services called by the application or by a notification function *)

ValidType(type) ==
  type \in {{}, {"timer"}, {"signal"}, {"timer", "signal"}, {"wait"},
            {"timer", "wait"}, {"signal", "exit_bs"}, {"signal", "vac"}}

ValidRequest(r) ==
  /\ ValidType(r.type)
  /\ r.type \cap {"wait", "signal"} # {} => r.func /\ r.tpl \in {CALLBACK, NOTIFY}
  /\ r.type \cap {"exit_bs", "vac"} # {} => r.group = NoGroup

GroupOf(r) == IF "exit_bs" \in r.type THEN ExitBootServicesGuid
              ELSE IF "vac" \in r.type THEN VirtualAddressChangeGuid
              ELSE r.group
ShapeOf(r) == [r EXCEPT !.group = GroupOf(r)]

CreateEvent(e, r) ==
  /\ ClientRuns /\ e \notin Created
  /\ ValidRequest(r)
  /\ shape' = [shape EXCEPT ![e] = ShapeOf(r)]
  /\ events' = Append(events, e)
  /\ UNCHANGED <<signaled, queue, tpl, stack, notifies, stranded>>

\* The pool is exhausted.  When only the list node cannot be allocated the call
\* still succeeds, with an event no other service accepts.
CreateEventExhausted(r) ==
  /\ ClientRuns /\ ValidRequest(r) /\ MayExhaust
  /\ UNCHANGED vars

RefuseCreateEvent(r) ==
  /\ ClientRuns /\ ~ValidRequest(r)
  /\ UNCHANGED vars

SignalEvent(e) ==
  /\ ClientRuns /\ e \in Created
  /\ SignalFrom(signaled, e, stack)
  /\ UNCHANGED <<events, shape, notifies>>

\* An event that is not on ctx->events is refused.
RefuseEvent(e) ==
  /\ ClientRuns /\ e \notin Created
  /\ UNCHANGED vars

WaitForEvent(es) ==
  /\ ClientRuns
  /\ stack' = IF es = <<>> \/ tpl # APPLICATION THEN stack
              ELSE Append(stack, WaitFrame(es))
  /\ UNCHANGED <<events, shape, signaled, queue, tpl, notifies, stranded>>

\* The guard each of these three starts with is inverted: with a context they
\* answer EFI_NOT_READY before they look at their arguments.
NotReady == ClientRuns /\ UNCHANGED vars

\* Variant of CloseEvent with its guard the right way round: the body unlinks
\* and frees the event and its queue node, also under the dispatcher.
ClosingEvent ==
  /\ ClientRuns
  /\ \E e \in Created :
       /\ events' = RemoveAt(events, Index(events, e))
       /\ queue' = IF e \in Queued THEN Deleted(queue, e) ELSE queue
       /\ notifies' = SelectSeq(notifies, LAMBDA f : f # e)
  /\ UNCHANGED <<shape, signaled, tpl, stack, stranded>>

CloseEvent == NotReady

CheckEvent == NotReady
SetTimer   == NotReady

Clamped(t) == IF t > HIGH_LEVEL THEN HIGH_LEVEL ELSE t

\* Callers respect the rule of task priorities: RaiseTPL does not lower the
\* level, RestoreTPL does not raise it nor go below the caller's own level.
RaiseTPL(t) ==
  /\ ClientRuns /\ t >= tpl
  /\ tpl' = Clamped(t)
  /\ UNCHANGED <<events, shape, signaled, queue, stack, notifies, stranded>>

RestoreTPL(t) ==
  /\ ClientRuns /\ t <= tpl /\ t >= EntryTpl
  /\ TimerRun(Clamped(t), stack)
  /\ UNCHANGED <<events, shape, signaled, queue, notifies, stranded>>

Stall ==
  /\ ClientRuns
  /\ TimerRun(tpl, stack)
  /\ UNCHANGED <<events, shape, signaled, queue, notifies, stranded>>

\* The key and pointer readers of sdl2.c reset the event of their device.
ReadDevice(e) ==
  /\ ClientRuns
  /\ stack = <<>> \/ NestedReads
  /\ e \in Created /\ "wait" \in shape[e].type
  /\ signaled' = [signaled EXCEPT ![e] = FALSE]
  /\ UNCHANGED <<events, shape, queue, tpl, stack, notifies, stranded>>

RegisterProtocolNotify(e) ==
  /\ ClientRuns /\ e \in Created /\ Len(notifies) < MaxNotifies
  /\ notifies' = Append(notifies, e)
  /\ UNCHANGED <<events, shape, signaled, queue, tpl, stack, stranded>>

\* As for CreateEvent: the node alone may fail, and the call still succeeds.
RegisterExhausted(e) ==
  /\ ClientRuns /\ e \in Created /\ MayExhaust
  /\ UNCHANGED vars

InstallProtocol ==
  /\ ClientRuns
  /\ stack' = Append(stack, InstallFrame)
  /\ UNCHANGED <<events, shape, signaled, queue, tpl, notifies, stranded>>

\* An image that was loaded runs: the C stack holds its entry point.
StartImage ==
  /\ ClientRuns
  /\ Cardinality({i \in DOMAIN stack : stack[i].kind = "image"}) < MaxImages
  /\ stack' = Append(stack, ImageFrame(tpl))
  /\ UNCHANGED <<events, shape, signaled, queue, tpl, notifies, stranded>>

\* The entry point returns, at whatever level it has come to.
ImageReturns ==
  /\ TopIs("image")
  /\ stack' = Front(stack)
  /\ UNCHANGED <<events, shape, signaled, queue, tpl, notifies, stranded>>

\* The innermost program exits, from its own code or from a function called
\* above it: longjmp leaves the frames below that program's, and main goes on
\* with its next file after the outermost one.  Nothing else is put right: the
\* level stays, the node of a function that was cut stays queued, and what a cut
\* group loop has not queued stays signalled.
Exit ==
  /\ ClientRuns
  /\ \E n \in 0 .. Len(stack) - 1 :
       /\ n = 0 \/ stack[n + 1].kind = "image"
       /\ \A i \in n + 2 .. Len(stack) : stack[i].kind # "image"
       /\ stack' = SubSeq(stack, 1, n)
  /\ stranded' = stranded \cup
       {e \in Created : /\ PureSignal(e) /\ signaled[e] /\ e \notin Queued
                        /\ Coming(e) /\ ~ComingOn(stack', e)}
  /\ UNCHANGED <<events, shape, signaled, queue, tpl, notifies>>

-----------------------------------------------------------------------------
(* Steps of service calls in progress *)

\* Faulty variant of Unlinked: the signal is reset before it is looked at.
UnlinkedAfterReset(e) ==
  IF signaled[e] /\ ~PureSignal(e) THEN Deleted(queue, e) ELSE queue

\* The queue and the signals after the function of e returned.
Unlinked(e) == IF signaled[e] THEN Deleted(queue, e) ELSE queue

Reset(e) == [signaled EXCEPT ![e] = @ /\ ~PureSignal(e)]

CallbackReturn ==
  /\ TopIs("run")
  /\ Balanced => tpl = Level(Top.cur)
  /\ queue' = Unlinked(Top.cur)
  /\ signaled' = Reset(Top.cur)
  /\ RunQueue(queue', Top.next, IF tpl = Level(Top.cur) THEN Top.old ELSE tpl,
              Front(stack))
  /\ UNCHANGED <<events, shape, notifies, stranded>>

GroupNext ==
  /\ TopIs("group") /\ Top.pos <= Len(events)
  /\ IF SameGroup(Top.cur, events[Top.pos])
     THEN AddToQueue(events[Top.pos], Advanced)
     ELSE stack' = Advanced /\ UNCHANGED <<queue, tpl>>
  /\ UNCHANGED <<events, shape, signaled, notifies, stranded>>

InstallNext ==
  /\ TopIs("install") /\ Top.pos <= Len(notifies)
  /\ SignalFrom([signaled EXCEPT ![notifies[Top.pos]] = FALSE],
                notifies[Top.pos], Advanced)
  /\ UNCHANGED <<events, shape, notifies>>

LoopEnd ==
  /\ \/ TopIs("group") /\ Top.pos > Len(events)
     \/ TopIs("install") /\ Top.pos > Len(notifies)
  /\ stack' = Front(stack)
  /\ UNCHANGED <<events, shape, signaled, queue, tpl, notifies, stranded>>

Waitable(e) == e \in Created /\ shape[e].type # {} /\ ~Notifies(e)

WaitEnqueue ==
  /\ TopIs("wait") /\ Top.pos <= Len(Top.evs)
  /\ LET e == Top.evs[Top.pos]
     IN \/ /\ ~Waitable(e)
           /\ stack' = Front(stack)
           /\ UNCHANGED <<queue, tpl>>
        \/ /\ Waitable(e)
           /\ IF signaled[e] THEN stack' = Advanced /\ UNCHANGED <<queue, tpl>>
                             ELSE AddToQueue(e, Advanced)
  /\ UNCHANGED <<events, shape, signaled, notifies, stranded>>

Polling == TopIs("wait") /\ Top.pos > Len(Top.evs)

WaitReturn ==
  /\ Polling
  /\ \E i \in DOMAIN Top.evs :
       /\ signaled[Top.evs[i]]
       /\ \A j \in 1 .. i - 1 : ~signaled[Top.evs[j]]
       /\ signaled' = [signaled EXCEPT ![Top.evs[i]] = FALSE]
  /\ stack' = Front(stack)
  /\ UNCHANGED <<events, shape, queue, tpl, notifies, stranded>>

\* Faulty variant of WaitPoll: it sleeps and looks at the signals again.
WaitSleep ==
  /\ Polling
  /\ \A i \in DOMAIN Top.evs : ~signaled[Top.evs[i]]
  /\ UNCHANGED vars

WaitPoll ==
  /\ Polling
  /\ \A i \in DOMAIN Top.evs : ~signaled[Top.evs[i]]
  /\ TimerRun(tpl, stack)
  /\ UNCHANGED <<events, shape, signaled, queue, notifies, stranded>>

-----------------------------------------------------------------------------

Init ==
  /\ events = <<>>
  /\ shape = [e \in Event |-> Unshaped]
  /\ signaled = [e \in Event |-> FALSE]
  /\ queue = <<>>
  /\ tpl = APPLICATION
  /\ stack = <<>>
  /\ notifies = <<>>
  /\ stranded = {}

Client ==
  \/ \E e \in Event, r \in Request : CreateEvent(e, r)
  \/ \E r \in Request : CreateEventExhausted(r)
  \/ \E r \in Request : RefuseCreateEvent(r)
  \/ \E e \in Event : SignalEvent(e)
  \/ \E e \in Event : RefuseEvent(e)
  \/ \E es \in WaitList : WaitForEvent(es)
  \/ CloseEvent
  \/ CheckEvent
  \/ SetTimer
  \/ \E t \in TplArg : RaiseTPL(t)
  \/ \E t \in TplArg : RestoreTPL(t)
  \/ Stall
  \/ \E e \in Event : ReadDevice(e)
  \/ \E e \in Event : RegisterProtocolNotify(e)
  \/ \E e \in Event : RegisterExhausted(e)
  \/ InstallProtocol
  \/ StartImage
  \/ ImageReturns
  \/ Exit

Internal == GroupNext \/ InstallNext \/ LoopEnd \/ WaitEnqueue \/ WaitReturn \/ WaitPoll

Next == Client \/ CallbackReturn \/ Internal

Spec == Init /\ [][Next]_vars

\* What the program must do for a notification to be delivered: its functions
\* restore their level and return, and the application comes back to
\* TPL_APPLICATION.  The function of
\* an event that is waited for signals it when its device is ready, and the
\* device is ready again and again.
AppRestores == stack = <<>> /\ RestoreTPL(APPLICATION)
Runs(e) == TopIs("run") /\ Top.cur = e
Restores(e) == Runs(e) /\ RestoreTPL(EntryTpl)
Returns(e) == Runs(e) /\ CallbackReturn
DeviceReady(e) == Runs(e) /\ "wait" \in shape[e].type /\ SignalEvent(e)

Fairness ==
  /\ WF_vars(Internal)
  /\ SF_vars(AppRestores)
  /\ SF_vars(ImageReturns)
  /\ \A e \in Event :
       SF_vars(Restores(e)) /\ SF_vars(Returns(e)) /\ SF_vars(DeviceReady(e))

FairSpec == Spec /\ Fairness

-----------------------------------------------------------------------------
(* Properties *)

\* The type of every variable; ctx->tpl is one of the 32 levels, whatever RaiseTPL
\* and RestoreTPL are called with.
TypeOK ==
  /\ events \in Seq(Event)
  /\ shape \in [Event -> Shape]
  /\ signaled \in [Event -> BOOLEAN]
  /\ queue \in Seq(Event)
  /\ tpl \in TplRange
  /\ stack \in Seq(Frame)
  /\ notifies \in Seq(Event)
  /\ stranded \in SUBSET Event

\* efi_add_event_queue keeps the list sorted by falling level although it stops
\* at the first lower node, queues no event twice and none without a function.
QueueOrdered ==
  /\ \A i, j \in DOMAIN queue :
       i < j => queue[i] # queue[j] /\ Level(queue[i]) >= Level(queue[j])
  /\ \A i \in DOMAIN queue : queue[i] \in Created /\ shape[queue[i]].func

\* Events of one level are dispatched in the order they were queued: a step
\* keeps the order of the queue and puts a new node behind its equals.
FirstComeFirstServed ==
  [][\A e \in Queued, f \in Queued' :
       /\ e \in Queued' /\ f \in Queued /\ Index(queue, e) < Index(queue, f)
            => Index(queue', e) < Index(queue', f)
       /\ e \in Queued' /\ f \notin Queued /\ Level(e) >= Level(f)
            => Index(queue', e) < Index(queue', f)]_vars

Running == {i \in DOMAIN stack : stack[i].kind = "run"}
LevelAt(i) == Level(stack[i].cur)

\* A notification function only interrupts code of a lower level, also when
\* functions raise and do not restore the level, so the levels on the call
\* stack rise strictly and no function is entered again before it returns.
NoReentry ==
  /\ \A i, j \in Running : i < j => LevelAt(i) < LevelAt(j)
  /\ \A i \in Running : LevelAt(i) <= tpl /\ stack[i].old < LevelAt(i)

\* The dispatcher holds two list nodes across the call of a notification
\* function, the current one and the one after it.  Whatever the function does,
\* neither is unlinked and freed before the dispatcher uses it again.
NodesAlive ==
  \A i \in Running :
    /\ stack[i].cur \in Queued
    /\ stack[i].next # Nil => /\ stack[i].next \in Queued
                              /\ stack[i].next # stack[i].cur
                              /\ Level(stack[i].next) <= LevelAt(i)

\* SignalEvent ignores an event that is already signalled.  That loses nothing,
\* because a signalled EVT_NOTIFY_SIGNAL event is queued or about to be, unless
\* Exit cut the group loop on its way to it: these are lost until another member
\* of the group is signalled, and no others are.  None outside a group is queued,
\* to be called, without having been signalled.
NoLostSignal ==
  /\ ~MayExhaust =>
       \A e \in Created : PureSignal(e) =>
         /\ signaled[e] => e \in Queued \/ Coming(e) \/ e \in stranded
         /\ e \in Queued /\ shape[e].group = NoGroup => signaled[e]
  /\ \A e \in stranded : signaled[e] /\ e \notin Queued /\ ~Coming(e)

\* A signalled event is notified, also when it was queued at a level its caller
\* masked, behind the node the dispatcher had already saved, or when a function
\* exits from the dispatch; only what Exit kept a group loop from queueing waits
\* for another signal to the group.
SignalIsNotified ==
  \A e \in Event : signaled[e] /\ PureSignal(e) ~> ~signaled[e] \/ e \in stranded

\* WaitForEvent on events whose device becomes ready returns.
WaitForEventReturns ==
  stack # <<>> /\ stack[1].kind = "wait" ~> stack = <<>>
=============================================================================
