------------------------------- MODULE Display -------------------------------
(***************************************************************************)
(* The SDL2 console of efi-wrapper/efi/protocols/graphics_output/sdl2.c:   *)
(* the graphics output, keyboard and pointers of a window.  Two threads    *)
(* share it, guarded by the mutex fb_lock: the one the program runs in,    *)
(* which calls the protocols, and update_thread, which draws the frame     *)
(* buffer and moves the user's input from SDL's queue to event_queue.      *)
(*                                                                         *)
(* A section under fb_lock that the other thread cannot see the middle of  *)
(* is one step.  SetMode and the drawing, which must not overlap, take and *)
(* release the lock in steps of their own.                                 *)
(***************************************************************************)
EXTENDS Integers, Sequences, FiniteSets, SequencesExt

CONSTANTS
  Mode,       \* the entries of efi_gop_modes
  Size,       \* width * height * 4 of each
  FirstMode,  \* &efi_gop_modes[0]
  NoMode,     \* the NULL configuration of the block transfers
  Kinds,      \* the kinds of SDL events the user may cause
  MaxInput,   \* bound on the SDL events
  MayExhaust  \* may mappings and allocations fail?

\* Kinds of events, by the protocol that takes them.
Taken ==
  [key |-> {"key_down"}, simple |-> {"left_button", "motion"}, abs |-> {"finger"}]
Device == DOMAIN Taken

\* A released key and the buttons that are neither left nor right are queued,
\* but no protocol takes them.
QueuedKind == (UNION {Taken[d] : d \in Device}) \cup {"key_up", "other_button"}
Kind == QueuedKind \cup {"quit", "expose", "other"}

ASSUME ModeAssumption ==
  /\ FirstMode \in Mode /\ NoMode \notin Mode
  /\ Size \in [Mode -> Nat \ {0}]
ASSUME InputAssumption == Kinds \subseteq Kind /\ MaxInput \in Nat
ASSUME ChoiceAssumption == MayExhaust \in BOOLEAN

VARIABLES
  gop,      \* the private data of the graphics output
  lock,     \* who holds fb_lock
  program,  \* where the program's thread is
  update,   \* where update_thread is
  sem,      \* the semaphore p->update
  sdl,      \* SDL's queue
  queue,    \* event_queue
  dangling, \* does event_queue point at freed nodes?
  broken,   \* was memory accessed that is not the frame buffer's?
  signaled, \* the devices whose event is signalled
  painted,  \* history: was the buffer changed since it was drawn?
  input,    \* history: the kinds of the SDL events so far; an event is its number
  taken     \* history: the events each protocol returned

inputVars == <<sdl, queue, dangling, signaled, input, taken>>
screenVars == <<gop, broken, painted, sem>>
vars == <<lock, program, update, inputVars, screenVars>>

\* The process runs on: nothing undefined happened and nobody closed the window.
Alive == ~dangling /\ ~broken /\ update # "exited"

-----------------------------------------------------------------------------
(* The graphics output *)

\* The mutex is not recursive.
Acquire(t) == lock = "free" /\ lock' = t
Release == lock' = "free"

ProgramRuns == Alive /\ program = "running"

\* Faulty variant of SetMode: it does not take the lock.
SetModeUnlocked(m) ==
  /\ ProgramRuns
  /\ program' = "resizing"
  /\ gop' = [gop EXCEPT !.next = m]
  /\ UNCHANGED <<lock, update, broken, painted, sem>> /\ UNCHANGED inputVars

SetMode(m) ==
  /\ ProgramRuns /\ Acquire("program")
  /\ program' = "resizing"
  /\ gop' = [gop EXCEPT !.next = m]
  /\ UNCHANGED <<update, broken, painted, sem>> /\ UNCHANGED inputVars

\* efi_update_size: a buffer of another size is mapped anew and cleared up to
\* the old size.  A configuration is made for another mode only; for the same
\* one it becomes NULL.
UpdateSize ==
  LET m == gop.next
      same == Size[m] = gop.size
  IN  /\ Alive /\ program = "resizing"
      /\ broken' = (~same /\ gop.size > Size[m])
      /\ gop' = [gop EXCEPT !.buffer = IF same THEN @ ELSE Size[m], !.size = Size[m],
                            !.cfg = IF m = gop.cur THEN NoMode ELSE m, !.ok = TRUE]
      /\ program' = "resized"
      /\ UNCHANGED <<lock, update, painted, sem>> /\ UNCHANGED inputVars

MappingFails ==
  /\ MayExhaust /\ Alive /\ program = "resizing" /\ Size[gop.next] # gop.size
  /\ gop' = [gop EXCEPT !.ok = FALSE]
  /\ program' = "resized"
  /\ UNCHANGED <<lock, update, broken, painted, sem>> /\ UNCHANGED inputVars

\* There is no room for the configuration: the old buffer is unmapped by then.
SetupFails ==
  LET same == Size[gop.next] = gop.size
  IN  /\ MayExhaust /\ Alive /\ program = "resizing" /\ gop.next # gop.cur
      /\ broken' = (~same /\ gop.size > Size[gop.next])
      /\ gop' = [gop EXCEPT !.buffer = IF same THEN @ ELSE 0, !.ok = FALSE]
      /\ program' = "resized"
      /\ UNCHANGED <<lock, update, painted, sem>> /\ UNCHANGED inputVars

SetModeEnds ==
  LET m == IF gop.ok THEN gop.next ELSE gop.cur
  IN  /\ Alive /\ program = "resized"
      /\ gop' = [gop EXCEPT !.cur = m, !.next = m, !.texture = m, !.ok = TRUE]
      /\ program' = "running" /\ Release
      /\ UNCHANGED <<update, broken, painted, sem>> /\ UNCHANGED inputVars

\* Faulty variant of Blt: the thread is not told.
BltUntold ==
  /\ ProgramRuns /\ lock = "free" /\ gop.cfg # NoMode
  /\ broken' = (gop.buffer < Size[gop.cfg])
  /\ painted' = TRUE
  /\ UNCHANGED <<gop, lock, program, update, sem>> /\ UNCHANGED inputVars

\* A transfer to the screen; without a configuration it is refused.
Blt ==
  /\ ProgramRuns /\ lock = "free" /\ gop.cfg # NoMode
  /\ broken' = (gop.buffer < Size[gop.cfg])
  /\ painted' = TRUE
  /\ sem' = IF sem = 0 THEN 1 ELSE sem
  /\ UNCHANGED <<gop, lock, program, update>> /\ UNCHANGED inputVars

-----------------------------------------------------------------------------
(* Keyboard and pointers *)

\* list_free_all_def frees the nodes and leaves p->event_queue as it is.
ResetDevice ==
  /\ ProgramRuns /\ lock = "free"
  /\ dangling' = (queue # <<>>)
  /\ UNCHANGED <<lock, program, update, sdl, queue, signaled, input, taken>>
  /\ UNCHANGED screenVars

\* Faulty variant of DevicesOf: only events that are taken signal a device.
DevicesOfTaken(kind) == {d \in Device : kind \in Taken[d]}

\* The devices whose events are signalled for an event of the queue.
DevicesOf(kind) ==
  CASE kind \in {"left_button", "other_button", "motion"} -> {"simple"}
    [] kind = "finger" -> {"abs"}
    [] kind \in {"key_down", "key_up"} -> {"key"}

\* sdl2_wait_for_event, the function of the events of all devices: whichever
\* of them is polled, those of the first event in the queue are signalled.
WaitForEvent ==
  /\ ProgramRuns /\ lock = "free"
  /\ signaled' = signaled \cup (IF queue = <<>> THEN {} ELSE DevicesOf(input[Head(queue)]))
  /\ UNCHANGED <<lock, program, update, sdl, queue, dangling, input, taken>>
  /\ UNCHANGED screenVars

\* Where the first event in the queue is that the protocol of d takes.
FirstFor(d) == Min({k \in DOMAIN queue : input[queue[k]] \in Taken[d]})

\* ReadKeyStroke and the two GetState.
ReadDevice(d) ==
  /\ ProgramRuns /\ lock = "free"
  /\ signaled' = signaled \ {d}
  /\ IF \E k \in DOMAIN queue : input[queue[k]] \in Taken[d]
     THEN /\ taken' = [taken EXCEPT ![d] = Append(@, queue[FirstFor(d)])]
          /\ queue' = RemoveAt(queue, FirstFor(d))
     ELSE UNCHANGED <<queue, taken>>
  /\ UNCHANGED <<lock, program, update, sdl, dangling, input>>
  /\ UNCHANGED screenVars

-----------------------------------------------------------------------------
(* The user and update_thread *)

UserInput(kind) ==
  /\ Alive /\ Len(input) < MaxInput
  /\ input' = Append(input, kind)
  /\ sdl' = Append(sdl, Len(input'))
  /\ UNCHANGED <<lock, program, update, queue, dangling, signaled, taken>>
  /\ UNCHANGED screenVars

\* The time of sem_timedwait is long past: the thread does not wait.  It draws
\* when it was told to, and in any case while a program has a context, whose
\* timer is never set; between programs there is none.
WaitUpdate ==
  /\ Alive /\ update = "idle"
  /\ \E context \in BOOLEAN :
       update' = IF sem > 0 \/ context THEN "to_draw" ELSE "to_poll"
  /\ sem' = IF sem > 0 THEN sem - 1 ELSE 0
  /\ UNCHANGED <<gop, lock, program, broken, painted>> /\ UNCHANGED inputVars

DrawBegins ==
  /\ Alive /\ update = "to_draw" /\ Acquire("update")
  /\ update' = "drawing"
  /\ UNCHANGED program /\ UNCHANGED screenVars /\ UNCHANGED inputVars

\* SDL copies as many rows as the texture has, each as long as the mode's.
Draw ==
  /\ Alive /\ update = "drawing"
  /\ broken' = (gop.buffer < Size[gop.cur])
  /\ painted' = FALSE
  /\ update' = "to_poll" /\ Release
  /\ UNCHANGED <<gop, program, sem>> /\ UNCHANGED inputVars

PollBegins ==
  /\ Alive /\ update = "to_poll" /\ Acquire("update")
  /\ update' = "polling"
  /\ UNCHANGED program /\ UNCHANGED screenVars /\ UNCHANGED inputVars

\* Faulty variant of Poll: the event becomes the list.
PollOverwrites ==
  /\ Alive /\ update = "polling" /\ sdl # <<>>
  /\ sdl' = Tail(sdl)
  /\ queue' = IF input[Head(sdl)] \in QueuedKind THEN <<Head(sdl)>> ELSE queue
  /\ UNCHANGED <<lock, program, update, dangling, signaled, input, taken>>
  /\ UNCHANGED screenVars

\* One turn of the loop over SDL_PollEvent.
Poll ==
  /\ Alive /\ update = "polling" /\ sdl # <<>>
  /\ sdl' = Tail(sdl)
  /\ queue' = IF input[Head(sdl)] \in QueuedKind THEN Append(queue, Head(sdl)) ELSE queue
  /\ sem' = IF input[Head(sdl)] = "expose" THEN sem + 1 ELSE sem
  /\ update' = IF input[Head(sdl)] = "quit" THEN "exited" ELSE update
  /\ UNCHANGED <<gop, lock, program, dangling, broken, signaled, painted, input, taken>>

PollEnds ==
  /\ Alive /\ update = "polling" /\ sdl = <<>>
  /\ update' = "idle" /\ Release
  /\ UNCHANGED program /\ UNCHANGED screenVars /\ UNCHANGED inputVars

-----------------------------------------------------------------------------
Init ==
  /\ gop = [cur |-> FirstMode, next |-> FirstMode, size |-> Size[FirstMode],
            buffer |-> Size[FirstMode], cfg |-> FirstMode, texture |-> FirstMode,
            ok |-> TRUE]
  /\ lock = "free" /\ program = "running" /\ update = "idle" /\ sem = 0
  /\ sdl = <<>> /\ queue = <<>> /\ input = <<>>
  /\ taken = [d \in Device |-> <<>>]
  /\ dangling = FALSE /\ broken = FALSE /\ painted = FALSE
  /\ signaled = {}

SetModeGoesOn == UpdateSize \/ MappingFails \/ SetupFails \/ SetModeEnds

Program ==
  \/ \E m \in Mode : SetMode(m)
  \/ SetModeGoesOn
  \/ Blt \/ ResetDevice \/ WaitForEvent
  \/ \E d \in Device : ReadDevice(d)

Thread == WaitUpdate \/ DrawBegins \/ Draw \/ PollBegins \/ Poll \/ PollEnds

\* After an access to freed memory, or the exit, nothing is said.
Over == ~Alive /\ UNCHANGED vars

Next == Program \/ Thread \/ (\E kind \in Kinds : UserInput(kind)) \/ Over

Spec == Init /\ [][Next]_vars

\* The thread loops for ever and gets the lock if it is free again and again.
\* A program that is interested in its devices polls them and reads those
\* that are signalled.
Fairness ==
  /\ WF_vars(SetModeGoesOn)
  /\ SF_vars(Thread)
  /\ SF_vars(WaitForEvent)
  /\ \A d \in Device : SF_vars(d \in signaled /\ ReadDevice(d))

FairSpec == Spec /\ Fairness

-----------------------------------------------------------------------------
(* Properties *)

\* The type of every variable, a part of NothingLost.
TypeOK ==
  /\ gop \in [cur : Mode, next : Mode, size : Nat, buffer : Nat,
              cfg : Mode \cup {NoMode}, texture : Mode, ok : BOOLEAN]
  /\ lock \in {"free", "program", "update"}
  /\ program \in {"running", "resizing", "resized"}
  /\ update \in {"idle", "to_draw", "drawing", "to_poll", "polling", "exited"}
  /\ sem \in Nat
  /\ input \in Seq(Kind)
  /\ sdl \in Seq(DOMAIN input) /\ queue \in Seq(DOMAIN input)
  /\ taken \in [Device -> Seq(DOMAIN input)]
  /\ signaled \in SUBSET Device
  /\ {dangling, broken, painted} \subseteq BOOLEAN

\* The thread draws with the mode, the buffer and the texture of one SetMode,
\* never with some of the old ones and some of the new ones, whenever it runs
\* (sdl2.c:121-155 against 555-563).  A SetMode that failed after it unmapped
\* the buffer is left out: there the thread reads memory that is gone.
DrawsOneMode ==
  Alive /\ update = "drawing" /\ gop.buffer # 0 =>
    /\ gop.buffer = Size[gop.cur] /\ gop.texture = gop.cur
    /\ gop.cfg \in {gop.cur, NoMode}

\* A protocol takes the event.
For(e, d) == e \in DOMAIN input /\ input[e] \in Taken[d]

\* Events in the order the user caused them
Rising(events) == \A i, j \in DOMAIN events : i < j => events[i] < events[j]

\* Every event the user caused is in one place: SDL's queue, the event queue,
\* or returned by one call of one protocol.  Whichever thread is in the middle
\* of what, and whatever other protocols took from the queue, a protocol returns
\* its events in the user's order.
NothingLost ==
  LET places == taken.key \o taken.simple \o taken.abs \o queue \o sdl
      left == queue \o sdl
  IN  /\ TypeOK
      /\ Alive =>
           /\ IsInjective(places)
           /\ \A e \in DOMAIN input : input[e] \in QueuedKind => Contains(places, e)
           /\ \A d \in Device :
                /\ Rising(taken[d])
                /\ \A j \in DOMAIN left : For(left[j], d) =>
                     /\ \A i \in DOMAIN taken[d] : taken[d][i] < left[j]
                     /\ \A i \in 1 .. j - 1 : For(left[i], d) => left[i] < left[j]

\* What is transferred to the screen is seen on it, although Blt only posts
\* the semaphore when it is 0 and the thread may take it just before.
ScreenFollows == painted ~> ~painted \/ ~Alive

\* The event at the head of the queue is one no protocol takes: the devices it
\* is not for are never signalled again.
Blocked(d) ==
  /\ queue # <<>>
  /\ \/ input[Head(queue)] = "key_up" /\ d # "key"
     \/ input[Head(queue)] = "other_button" /\ d # "simple"

\* A program that polls and reads gets each event of a device, although only
\* the first event of the queue signals anything and the devices share it,
\* unless an event that is never taken blocks the queue.
EventsArrive ==
  \A e \in 1 .. MaxInput :
    (Contains(queue, e) /\ \E d \in Device : For(e, d))
      ~> \/ ~Alive
         \/ \E d \in Device : For(e, d) /\ (Contains(taken[d], e) \/ Blocked(d))
=============================================================================
