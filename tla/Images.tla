-------------------------------- MODULE Images --------------------------------
(***************************************************************************)
(* Programs and how they run: main loads and runs the files of its command *)
(* line one after the other, a program loads and starts others, and each   *)
(* ends by returning from its entry point or by Exit, which jumps over     *)
(* whatever the C stack holds above it (efi/tables/image.c, loader/,       *)
(* main.c).  A fatal signal ends the process (loader/crash.c).             *)
(*                                                                         *)
(* There is one thread.  Programs interleave with the notification         *)
(* functions they registered, which the dispatcher of module Events calls  *)
(* in the middle of a service, also after the program has ended and while  *)
(* main is between two programs.  The C stack is a variable: an "image"    *)
(* frame is a call of efi_run_with, a "load" frame one of add_loaded_image *)
(* and a "notify" frame the call of a notification function.               *)
(***************************************************************************)
EXTENDS Integers, Sequences, FiniteSets, SequencesExt

CONSTANTS
  CommandLines, \* the lists of files main may be given
  MaxFiles,     \* bound on the efi_file objects
  MaxDepth,     \* bound on the C stack
  Levels        \* the levels of the notification functions

APPLICATION == 4
NOTIFY == 16

\* What a file on the command line is: it runs, it opens but is no program of
\* this machine, or it cannot be opened or is too short to be looked at.
Quality == {"good", "malformed", "missing"}
File == 1 .. MaxFiles
NoFile == 0

ASSUME CommandAssumption == CommandLines \subseteq Seq(Quality)
ASSUME LevelAssumption == Levels \subseteq (APPLICATION + 1) .. 31
ASSUME BoundAssumption == MaxFiles \in Nat /\ MaxDepth \in Nat

VARIABLES
  arguments, \* the files on the command line
  position,  \* main's index i of the one at hand
  mainFile,  \* the variable f of main
  main,      \* where main is
  files,     \* the efi_file objects
  created,   \* how many of them there are
  running,   \* efi_running_stack
  stack,     \* the C stack above main, innermost last
  context,   \* efi_current_ctx
  tpl,       \* ctx->tpl
  handler,   \* what the process does with a fatal signal
  crash,     \* where signal_hand is
  caught,    \* its variable catch
  end,       \* how the process ended
  misfreed,  \* was exit data that was given away given or freed once more?
  restarted, \* history: in which states were images that were started again?
  ran        \* history: the positions of the files that main ran

mainVars == <<arguments, position, mainFile, main, ran>>
imageVars == <<files, created, running, stack, context, misfreed, restarted>>
signalVars == <<handler, crash, caught, end>>
vars == <<mainVars, imageVars, signalVars, tpl>>

\* Faulty variant of NewFile: the object is not cleared.
Uncleared == [data |-> FALSE, handle |-> FALSE, started |-> FALSE, jmp |-> 0,
              old |-> "default", exit |-> "garbage"]

\* exit: is file->exit_data NULL, its own memory, memory it gave to the caller
\* of StartImage, or memory that caller has freed?
NewFile == [data |-> FALSE, handle |-> FALSE, started |-> FALSE, jmp |-> 0,
            old |-> "default", exit |-> "null"]

FileObject == [data : BOOLEAN, handle : BOOLEAN, started : BOOLEAN, jmp : Nat,
               old : {"default", "ours"}, exit : {"null", "own", "given", "freed"}]

Context == {"null", "ctx"}
Frame == [kind : {"image", "load", "notify"}, file : File \cup {NoFile},
          context : Context, tpl : Nat, level : Nat]
ImageFrame(f) ==
  [kind |-> "image", file |-> f, context |-> context, tpl |-> 0, level |-> 0]
LoadFrame(f) ==
  [kind |-> "load", file |-> f, context |-> context, tpl |-> 0, level |-> 0]
NotifyFrame(l) ==
  [kind |-> "notify", file |-> NoFile, context |-> "null", tpl |-> tpl, level |-> l]

Alive == end = "no" /\ crash = "no" /\ ~misfreed
TopIs(kind) == stack # <<>> /\ Last(stack).kind = kind

\* A program or a notification function has the processor.
ClientRuns == Alive /\ (TopIs("image") \/ TopIs("notify"))

\* efi_running_get
Innermost == IF running = <<>> THEN NoFile ELSE Last(running)

Images == {f \in 1 .. created : files[f].handle}

-----------------------------------------------------------------------------
(* Loading *)

\* efi_file_get_image_handle makes the handle and installs its protocols: the
\* events registered for these are signalled while add_loaded_image runs.
GetImageHandle(f, fs) ==
  /\ files' = [fs EXCEPT ![f].handle = TRUE]
  /\ stack' = Append(stack, LoadFrame(f))
  /\ context' = "ctx"

\* main makes an object unless it kept one whose file failed.
FileToLoad == IF mainFile = NoFile THEN created + 1 ELSE mainFile

\* An object whose data is set accepts no other file.
MainLoads ==
  LET f == FileToLoad
      fs == IF f > created THEN [files EXCEPT ![f] = NewFile] ELSE files
      opened == arguments[position] # "missing" /\ ~fs[f].data
      filled == [fs EXCEPT ![f].data = @ \/ opened]
  IN  /\ Alive /\ main = "next" /\ position <= Len(arguments) /\ f <= MaxFiles
      /\ created' = IF f > created THEN f ELSE created
      /\ mainFile' = f
      /\ IF opened /\ arguments[position] = "good"
         THEN /\ GetImageHandle(f, filled)
              /\ main' = "running"
              /\ UNCHANGED position
         ELSE /\ files' = filled
              /\ position' = position + 1
              /\ UNCHANGED <<main, stack, context>>
      /\ UNCHANGED <<arguments, running, misfreed, restarted, tpl, ran>> /\ UNCHANGED signalVars

MainReturns ==
  /\ Alive /\ main = "next" /\ position > Len(arguments)
  /\ end' = "done"
  /\ UNCHANGED <<handler, crash, caught, tpl>>
  /\ UNCHANGED mainVars /\ UNCHANGED imageVars

\* A load that fails leaves an object nobody refers to, and is left out.
LoadImage ==
  /\ ClientRuns /\ Innermost # NoFile /\ tpl < NOTIFY
  /\ created < MaxFiles /\ Len(stack) < MaxDepth
  /\ created' = created + 1
  /\ GetImageHandle(created', [files EXCEPT ![created'] = [NewFile EXCEPT !.data = TRUE]])
  /\ UNCHANGED <<running, misfreed, restarted, tpl>>
  /\ UNCHANGED mainVars /\ UNCHANGED signalVars

-----------------------------------------------------------------------------
(* Starting and ending *)

\* Faulty variants of Enter: the image may be pushed twice; the handlers are
\* saved when the image runs for the first time only.
EnterTwice(f) ==
  /\ files' = [files EXCEPT ![f].old = handler, ![f].started = TRUE,
                            ![f].jmp = Len(stack) + 1]
  /\ running' = Append(running, f) /\ stack' = Append(stack, ImageFrame(f))
  /\ context' = "ctx" /\ handler' = "ours"

EnterSavingOnce(f) ==
  /\ ~Contains(running, f)
  /\ files' = [files EXCEPT ![f].old = IF files[f].started THEN @ ELSE handler,
                            ![f].started = TRUE, ![f].jmp = Len(stack) + 1]
  /\ running' = Append(running, f) /\ stack' = Append(stack, ImageFrame(f))
  /\ context' = "ctx" /\ handler' = "ours"

\* efi_run_with as far as the entry point.  The handlers are saved in the file.
Enter(f) ==
  /\ ~Contains(running, f)
  /\ files' = [files EXCEPT ![f].old = handler, ![f].started = TRUE,
                            ![f].jmp = Len(stack) + 1]
  /\ running' = Append(running, f) /\ stack' = Append(stack, ImageFrame(f))
  /\ context' = "ctx" /\ handler' = "ours"

\* Faulty variant of Leave: the context of the file stays.
LeaveInContext(d) ==
  LET f == stack[d].file
  IN  /\ stack' = SubSeq(stack, 1, d - 1) /\ running' = RemoveFirst(running, f)
      /\ handler' = files[f].old
      /\ UNCHANGED context

\* The rest of efi_run_with in frame d: what is above it is gone.  The level
\* stays as it is.
Leave(d) ==
  LET f == stack[d].file
  IN  /\ stack' = SubSeq(stack, 1, d - 1) /\ running' = RemoveFirst(running, f)
      /\ handler' = files[f].old
      /\ context' = stack[d].context

\* StartImage hands file->exit_data, of whichever run they are, to a caller
\* that asks for them.
GiveExitData(f, fs, bad) ==
  \/ files' = fs /\ misfreed' = bad
  \/ /\ fs[f].exit # "null"
     /\ files' = [fs EXCEPT ![f].exit = "given"]
     /\ misfreed' = (bad \/ fs[f].exit # "own")

\* Faulty variant of BackInMain: the object is kept.
BackWithFile ==
  /\ position' = position + 1 /\ main' = "next"
  /\ UNCHANGED <<arguments, mainFile, ran>>

\* The loop of main goes on after efi_run.
BackInMain ==
  /\ position' = position + 1 /\ main' = "next" /\ mainFile' = NoFile
  /\ UNCHANGED <<arguments, ran>>

\* The image of frame d ends, in main or in StartImage.
Finish(d, fs, bad) ==
  /\ Leave(d)
  /\ \/ d = 1 /\ BackInMain /\ files' = fs /\ misfreed' = bad
     \/ d > 1 /\ GiveExitData(stack[d].file, fs, bad) /\ UNCHANGED mainVars
  /\ UNCHANGED <<created, restarted, tpl, crash, caught, end>>

StateOf(f) == IF Contains(running, f) THEN {"running"}
              ELSE IF files[f].started THEN {"ended"} ELSE {}

MainStarts ==
  /\ Alive /\ main = "running" /\ stack = <<>>
  /\ Enter(mainFile)
  /\ ran' = ran \cup {position}
  /\ restarted' = restarted \cup StateOf(mainFile)
  /\ UNCHANGED <<arguments, position, mainFile, main, created, misfreed, tpl>>
  /\ UNCHANGED <<crash, caught, end>>

StartImage(f) ==
  /\ ClientRuns /\ f \in Images /\ Len(stack) < MaxDepth
  /\ Enter(f)
  /\ restarted' = restarted \cup StateOf(f)
  /\ UNCHANGED <<created, misfreed, tpl, crash, caught, end>> /\ UNCHANGED mainVars

\* An image that runs already is not called, but efi_run_with saves the
\* handlers once more, in the place of those it has to restore.
StartRunning(f) ==
  /\ ClientRuns /\ Contains(running, f)
  /\ GiveExitData(f, [files EXCEPT ![f].old = handler], FALSE)
  /\ restarted' = restarted \cup StateOf(f)
  /\ UNCHANGED <<created, running, stack, context, tpl>>
  /\ UNCHANGED mainVars /\ UNCHANGED signalVars

\* The installation is over.  LoadImage returns; main starts its image.
LoadEnds ==
  /\ Alive /\ TopIs("load")
  /\ stack' = Front(stack)
  /\ context' = Last(stack).context
  /\ UNCHANGED <<files, created, running, misfreed, restarted, tpl>>
  /\ UNCHANGED mainVars /\ UNCHANGED signalVars

EntryReturns ==
  /\ Alive /\ TopIs("image")
  /\ Finish(Len(stack), files, FALSE)

\* Exit, of the innermost image only, and ResetSystem, which calls it.  Exit
\* data of an earlier run are freed even if they were given away.
Exit(withData) ==
  LET f == Innermost
  IN  /\ ClientRuns /\ f # NoFile
      /\ Finish(files[f].jmp,
                IF withData THEN [files EXCEPT ![f].exit = "own"] ELSE files,
                withData /\ files[f].exit \notin {"null", "own"})

\* The caller of StartImage frees what it was given.
FreeExitData(f) ==
  /\ ClientRuns /\ f \in Images /\ files[f].exit = "given"
  /\ files' = [files EXCEPT ![f].exit = "freed"]
  /\ UNCHANGED <<created, running, stack, context, misfreed, restarted, tpl>>
  /\ UNCHANGED mainVars /\ UNCHANGED signalVars

-----------------------------------------------------------------------------
(* Notification functions *)

\* A service, the installation among them, dispatches an event of level l,
\* which a program that was started has created.
NotifyBegins(l) ==
  /\ Alive /\ stack # <<>> /\ tpl < l /\ Len(stack) < MaxDepth
  /\ \E f \in File : files[f].started
  /\ stack' = Append(stack, NotifyFrame(l))
  /\ tpl' = l
  /\ UNCHANGED <<files, created, running, context, misfreed, restarted>>
  /\ UNCHANGED mainVars /\ UNCHANGED signalVars

NotifyReturns ==
  /\ Alive /\ TopIs("notify")
  /\ stack' = Front(stack)
  /\ tpl' = IF tpl = Last(stack).level THEN Last(stack).tpl ELSE tpl
  /\ UNCHANGED <<files, created, running, context, misfreed, restarted>>
  /\ UNCHANGED mainVars /\ UNCHANGED signalVars

-----------------------------------------------------------------------------
(* Fatal signals *)

\* Faulty variant of Deliver: signal_hand does not look at catch.
DeliverAgain ==
  IF handler = "default"
  THEN end' = "core" /\ crash' = "no" /\ UNCHANGED caught
  ELSE crash' = "handling" /\ caught' = TRUE /\ UNCHANGED end

\* The kernel delivers the signal: by default it dumps a core.
Deliver ==
  IF handler = "default"
  THEN end' = "core" /\ crash' = "no" /\ UNCHANGED caught
  ELSE IF caught THEN end' = "quit" /\ crash' = "no" /\ UNCHANGED caught
  ELSE crash' = "handling" /\ caught' = TRUE /\ UNCHANGED end

\* A signal the emulation of instructions does not take care of.
Fault ==
  /\ Alive
  /\ Deliver
  /\ UNCHANGED <<handler, tpl>> /\ UNCHANGED mainVars /\ UNCHANGED imageVars

\* signal_hand restores the handlers the innermost image saved and raises the
\* signal again, which is blocked until it returns.
RaiseAgain ==
  /\ crash = "handling"
  /\ handler' = IF Innermost = NoFile THEN handler ELSE files[Innermost].old
  /\ crash' = "raised"
  /\ UNCHANGED <<caught, end, tpl>> /\ UNCHANGED mainVars /\ UNCHANGED imageVars

HandlerReturns ==
  /\ crash = "raised"
  /\ Deliver
  /\ UNCHANGED <<handler, tpl>> /\ UNCHANGED mainVars /\ UNCHANGED imageVars

-----------------------------------------------------------------------------
Init ==
  /\ arguments \in CommandLines /\ position = 1
  /\ mainFile = NoFile /\ main = "next"
  /\ files = [f \in File |-> NewFile] /\ created = 0
  /\ running = <<>> /\ stack = <<>>
  /\ context = "null" /\ tpl = APPLICATION
  /\ handler = "default" /\ crash = "no" /\ caught = FALSE /\ end = "no"
  /\ misfreed = FALSE /\ restarted = {} /\ ran = {}

\* After the end, or an access to freed memory, nothing is said.
Over == (end # "no" \/ misfreed) /\ UNCHANGED vars

Next ==
  \/ MainLoads \/ MainStarts \/ MainReturns
  \/ LoadImage \/ LoadEnds
  \/ \E f \in File : StartImage(f) \/ StartRunning(f)
  \/ EntryReturns
  \/ \E withData \in BOOLEAN : Exit(withData)
  \/ \E f \in File : FreeExitData(f)
  \/ \E l \in Levels : NotifyBegins(l)
  \/ NotifyReturns
  \/ Fault \/ RaiseAgain \/ HandlerReturns
  \/ Over

Spec == Init /\ [][Next]_vars

\* Programs may run for ever; the signal handler does not.
FairSpec == Spec /\ WF_vars(RaiseAgain \/ HandlerReturns)

-----------------------------------------------------------------------------
(* Properties *)

\* The type of every variable.
TypeOK ==
  /\ arguments \in CommandLines /\ position \in 1 .. Len(arguments) + 1
  /\ mainFile \in File \cup {NoFile} /\ main \in {"next", "running"}
  /\ ran \subseteq DOMAIN arguments
  /\ files \in [File -> FileObject]
  /\ created \in 0 .. MaxFiles
  /\ running \in Seq(File) /\ stack \in Seq(Frame)
  /\ context \in Context /\ caught \in BOOLEAN /\ misfreed \in BOOLEAN
  /\ tpl \in {APPLICATION} \cup Levels
  /\ handler \in {"default", "ours"} /\ crash \in {"no", "handling", "raised"}
  /\ end \in {"no", "done", "core", "quit"}
  /\ restarted \subseteq {"running", "ended"}

\* The frame of efi_run_with for image f.
FrameOf(f, d) ==
  d \in DOMAIN stack /\ stack[d].kind = "image" /\ stack[d].file = f

\* The run stack, which tells Exit, HandleProtocol and LoadImage whose call it
\* is, holds the images that are on the C stack, in its order and each once,
\* and an Exit jumps to the live frame of its own image, whatever functions
\* and images it jumps over (execute.c:12-24, running.c).
RunStack ==
  /\ \A i \in DOMAIN running : FrameOf(running[i], files[running[i]].jmp)
  /\ \A i, j \in DOMAIN running :
       i < j => files[running[i]].jmp < files[running[j]].jmp
  /\ \A d \in DOMAIN stack : stack[d].kind = "image" =>
       \E i \in DOMAIN running :
         running[i] = stack[d].file /\ files[running[i]].jmp = d

\* Every program and notification function finds the current context, and
\* main has none between two programs, however the last one ended.
ContextHeld == context = IF stack # <<>> THEN "ctx" ELSE "null"

\* Whatever ends a program, an Exit over several frames too, what it leaves fits
\* the C stack: the run stack, the jump targets and the current context.
RunsHeld == RunStack /\ ContextHeld

\* The handlers of fatal signals are installed exactly while images run, if
\* none was started while it ran: that start loses the saved ones.
HandlersKept ==
  ~caught /\ "running" \notin restarted =>
    (handler = "ours" <=> running # <<>>)

\* Exit data are neither freed nor given to two callers if no image is started
\* again after its end, whatever it does while it runs.
ExitDataSafe == misfreed => "ended" \in restarted

\* A process that ends in main has run each program of its command line that
\* no file before it spoilt: after a malformed one the object is kept, and
\* accepts no other file.
ArgumentsRun ==
  end = "done" => \A i \in DOMAIN arguments :
    \/ arguments[i] = "good" => i \in ran
    \/ \E j \in 1 .. i - 1 : arguments[j] = "malformed"

\* A process that gets a fatal signal ends, although the handler of an image
\* another image started restores itself (crash.c:128-131).
CrashEnds == crash # "no" ~> end # "no"
=============================================================================
