---------------------------- MODULE ImagesProofs ----------------------------
(***************************************************************************)
(* Proofs about Images, for every value of its constants.                  *)
(*                                                                         *)
(* RunStack is nearly inductive: the image that ends is the last one of    *)
(* the run stack, because jump targets grow along it, so taking the first  *)
(* occurrence off it is taking its last element off.  What else is needed  *)
(* says where main is, which objects exist, what each frame has saved and  *)
(* what the files of running images hold.                                  *)
(*                                                                         *)
(* Then come the headers of what is loaded, for every file, and the        *)
(* registers that are emulated for what runs.                              *)
(*                                                                         *)
(* The last part is about Lists, on which all of the wrapper stands: its   *)
(* pointers implement the sequences of ListSpec.  Every list is a chain of *)
(* its own, a sequence of nodes linked in order both ways; each operation  *)
(* turns one chain into the one the abstract operation asks for.           *)
(***************************************************************************)
EXTENDS Images, Headers, FakeRegisters, Lists, Lemmas

-----------------------------------------------------------------------------
(* The inductive invariant *)

\* main waits while something is on the stack, with an object for its file.
MainOK ==
  /\ main = "next" => stack = <<>>
  /\ main = "running" => position \in DOMAIN arguments /\ mainFile # NoFile
  /\ mainFile <= created

\* Running images are objects that were made and started.
RunningOK ==
  \A i \in DOMAIN running :
    running[i] <= created /\ files[running[i]].started

\* What the frames restore.
FramesOK ==
  \A d \in DOMAIN stack :
    /\ stack[d].kind = "notify" =>
         d > 1 /\ stack[d].tpl \in {APPLICATION} \cup Levels
    /\ stack[d].kind # "notify" => stack[d].context = IF d > 1 THEN "ctx" ELSE "null"

IInv == TypeOK /\ MainOK /\ RunningOK /\ FramesOK /\ RunStack /\ ContextHeld

\* signal_hand runs once catch is set.
CrashOK == crash # "no" => caught

\* The first running image has saved the default handlers, the others ours.
HandlersOK ==
  ~caught /\ "running" \notin restarted =>
    /\ handler = "ours" <=> running # <<>>
    /\ \A i \in DOMAIN running :
         files[running[i]].old = IF i = 1 THEN "default" ELSE "ours"

\* Nobody has exit data of an image that has not ended yet.
ExitOK ==
  "ended" \notin restarted =>
    /\ ~misfreed
    /\ \A f \in File :
         ~files[f].started \/ Contains(running, f) => files[f].exit = "null"

\* What is known of the files main is done with, and of the object it kept.
ArgumentsOK ==
  /\ \A i \in DOMAIN arguments : i < position /\ arguments[i] = "good" =>
       i \in ran \/ \E j \in 1 .. i - 1 : arguments[j] = "malformed"
  /\ main = "next" /\ mainFile # NoFile /\ files[mainFile].data =>
       \E j \in 1 .. position - 1 : arguments[j] = "malformed"
  /\ stack # <<>> /\ stack[1].kind = "image" => position \in ran
  /\ end = "done" => position > Len(arguments)

-----------------------------------------------------------------------------
(* Sequences *)

LEMMA RemoveLast ==
  ASSUME NEW S, NEW q \in Seq(S), q # <<>>,
         \A j \in 1 .. Len(q) - 1 : q[j] # q[Len(q)]
  PROVE  RemoveFirst(q, q[Len(q)]) = SubSeq(q, 1, Len(q) - 1)
<1> DEFINE n == Len(q)
           e == q[n]
           I == {i \in 1 .. Len(q) : q[i] = e}
<1>1. n \in Nat /\ n > 0 /\ \A j \in 1 .. n : q[j] \in S
  BY LenProperties, EmptySeq
<1>2. I = {n}
  BY <1>1
<1>3. SelectInSeq(q, LAMBDA v : v = e) = Min({n})
  BY <1>2 DEF SelectInSeq
<1>4. Min({n}) = n
  BY <1>1 DEF Min
<1>5. RemoveFirst(q, e) = RemoveAt(q, n)
  BY <1>1, <1>3, <1>4 DEF RemoveFirst
<1>6. SubSeq(q, n + 1, n) = <<>>
  BY <1>1, SubSeqEmpty
<1>7. SubSeq(q, 1, n - 1) \in Seq(S)
  BY <1>1, SubSeqProperties, Z3
<1>8. RemoveAt(q, n) = SubSeq(q, 1, n - 1) \o <<>>
  BY <1>6 DEF RemoveAt
<1>9. QED BY <1>5, <1>7, <1>8, ConcatEmptySeq

LEMMA PrefixFacts ==
  ASSUME NEW S, NEW q \in Seq(S), NEW n \in 0 .. Len(q)
  PROVE  /\ SubSeq(q, 1, n) \in Seq(S)
         /\ Len(SubSeq(q, 1, n)) = n
         /\ DOMAIN SubSeq(q, 1, n) = 1 .. n
         /\ \A i \in 1 .. n : SubSeq(q, 1, n)[i] = q[i]
<1>1. Len(q) \in Nat /\ \A i \in 1 .. Len(q) : q[i] \in S
  BY LenProperties
<1>2. /\ SubSeq(q, 1, n) \in Seq(S)
      /\ Len(SubSeq(q, 1, n)) = IF 1 <= n THEN n - 1 + 1 ELSE 0
      /\ \A i \in 1 .. n - 1 + 1 : SubSeq(q, 1, n)[i] = q[1 + i - 1]
  BY <1>1, SubSeqProperties, Z3
<1>3. DOMAIN SubSeq(q, 1, n) = 1 .. Len(SubSeq(q, 1, n))
  BY <1>2, LenProperties
<1>4. QED BY <1>1, <1>2, <1>3, Z3

LEMMA AppendFacts ==
  ASSUME NEW S, NEW q \in Seq(S), NEW x \in S
  PROVE  /\ Append(q, x) \in Seq(S)
         /\ Append(q, x) # <<>>
         /\ DOMAIN q = 1 .. Len(q) /\ Len(q) \in Nat
         /\ DOMAIN Append(q, x) = 1 .. Len(q) + 1
         /\ \A i \in 1 .. Len(q) + 1 :
              Append(q, x)[i] = IF i = Len(q) + 1 THEN x ELSE q[i]
BY AppendProperties, LenProperties

LEMMA FrontFacts ==
  ASSUME NEW S, NEW q \in Seq(S), q # <<>>
  PROVE  /\ Front(q) = SubSeq(q, 1, Len(q) - 1)
         /\ Len(q) \in Nat \ {0} /\ DOMAIN q = 1 .. Len(q)
         /\ Front(q) \in Seq(S) /\ Last(q) \in S
         /\ DOMAIN Front(q) = 1 .. Len(q) - 1
         /\ \A i \in 1 .. Len(q) - 1 : Front(q)[i] = q[i]
<1>1. Len(q) \in Nat \ {0} /\ \A i \in 1 .. Len(q) : q[i] \in S
  BY LenProperties, EmptySeq
<1>2. Len(q) - 1 \in 0 .. Len(q)
  BY <1>1
<1>3. QED BY <1>1, <1>2, PrefixFacts, LenProperties DEF Front, Last

-----------------------------------------------------------------------------
(* What the end of an image does *)

\* An image that returns from its entry point is the last one on the run stack.
LEMMA TopIsInnermost ==
  ASSUME IInv, TopIs("image")
  PROVE  /\ running # <<>>
         /\ Last(stack).file = Innermost
         /\ files[Innermost].jmp = Len(stack)
<1> DEFINE n == Len(stack)
           m == Len(running)
<1>1. /\ stack \in Seq(Frame) /\ running \in Seq(File) /\ n \in Nat /\ m \in Nat
      /\ DOMAIN stack = 1 .. n /\ DOMAIN running = 1 .. m /\ n > 0
      /\ stack[n].kind = "image"
  BY LenProperties, EmptySeq DEF IInv, TypeOK, TopIs, Last
<1> HIDE DEF n, m
<1>2. PICK i \in 1 .. m : running[i] = stack[n].file /\ files[running[i]].jmp = n
  BY <1>1 DEF IInv, RunStack
<1>3. \A j \in 1 .. m : files[running[j]].jmp \in 1 .. n
  BY <1>1 DEF IInv, RunStack, FrameOf
<1>4. ~(i < m)
  BY <1>1, <1>2, <1>3 DEF IInv, RunStack
<1>5. i = m /\ m > 0
  BY <1>1, <1>2, <1>4
<1>6. running # <<>>
  BY <1>1, <1>5, EmptySeq
<1>7. QED BY <1>2, <1>5, <1>6 DEF Innermost, Last, n, m

\* The last image on the run stack is there once, and ends in its own frame.
LEMMA LeaveFacts ==
  ASSUME IInv, running # <<>>, Leave(files[Innermost].jmp)
  PROVE  LET d == files[Innermost].jmp
             m == Len(running)
         IN  /\ m \in Nat \ {0} /\ Innermost = running[m] /\ Innermost \in File
             /\ d \in 1 .. Len(stack) /\ Len(stack) \in Nat
             /\ stack[d].kind = "image" /\ stack[d].file = Innermost
             /\ stack' = SubSeq(stack, 1, d - 1)
             /\ running' = SubSeq(running, 1, m - 1)
             /\ handler' = files[Innermost].old
             /\ context' = stack[d].context
             /\ \A j \in 1 .. m - 1 : running[j] # Innermost
<1> DEFINE d == files[Innermost].jmp
           m == Len(running)
<1>1. /\ stack \in Seq(Frame) /\ running \in Seq(File)
      /\ Len(stack) \in Nat /\ m \in Nat \ {0}
      /\ DOMAIN stack = 1 .. Len(stack) /\ DOMAIN running = 1 .. m
      /\ \A i \in 1 .. m : running[i] \in File
  BY LenProperties, EmptySeq DEF IInv, TypeOK
<1>2. Innermost = running[m]
  BY DEF Innermost, Last
<1>3. d \in 1 .. Len(stack) /\ stack[d].kind = "image" /\ stack[d].file = Innermost
  BY <1>1, <1>2 DEF IInv, RunStack, FrameOf
<1>4. \A j \in 1 .. m - 1 : running[j] # running[m]
  <2> SUFFICES ASSUME NEW j \in 1 .. m - 1, running[j] = running[m]
               PROVE  FALSE
    OBVIOUS
  <2>1. files[running[j]].jmp < files[running[m]].jmp
    BY <1>1 DEF IInv, RunStack
  <2>2. files[running[m]].jmp \in 1 .. Len(stack)
    BY <1>2, <1>3
  <2>3. QED BY <1>1, <2>1, <2>2
<1>5. RemoveFirst(running, running[m]) = SubSeq(running, 1, m - 1)
  BY <1>1, <1>4, RemoveLast
<1>6. QED BY <1>1, <1>2, <1>3, <1>4, <1>5 DEF Leave

-----------------------------------------------------------------------------
(* Types *)

LEMMA FrameTypes ==
  ASSUME TypeOK
  PROVE  /\ \A f \in File : ImageFrame(f) \in Frame /\ LoadFrame(f) \in Frame
         /\ \A l \in Levels : NotifyFrame(l) \in Frame /\ l \in Nat
         /\ NewFile \in FileObject
<1> USE DEF APPLICATION, File, NoFile, Context
<1>1. context \in Context /\ tpl \in Nat /\ \A l \in Levels : l \in Nat
  BY LevelAssumption DEF TypeOK
<1>2. ASSUME NEW f \in File
      PROVE  ImageFrame(f) \in Frame /\ LoadFrame(f) \in Frame
  BY <1>1 DEF ImageFrame, LoadFrame, Frame
<1>3. ASSUME NEW l \in Levels
      PROVE  NotifyFrame(l) \in Frame
  BY <1>1 DEF NotifyFrame, Frame
<1>4. NewFile \in FileObject
  BY DEF NewFile, FileObject
<1>5. QED BY <1>1, <1>2, <1>3, <1>4

LEMMA FileUpdates ==
  ASSUME NEW fs \in [File -> FileObject], NEW f \in File
  PROVE  /\ \A x \in BOOLEAN : [fs EXCEPT ![f].data = x] \in [File -> FileObject]
         /\ \A x \in BOOLEAN : [fs EXCEPT ![f].handle = x] \in [File -> FileObject]
         /\ \A x \in {"default", "ours"} :
              [fs EXCEPT ![f].old = x] \in [File -> FileObject]
         /\ \A x \in {"null", "own", "given", "freed"} :
              [fs EXCEPT ![f].exit = x] \in [File -> FileObject]
         /\ \A x \in {"default", "ours"}, n \in Nat :
              [fs EXCEPT ![f].old = x, ![f].started = TRUE, ![f].jmp = n]
                \in [File -> FileObject]
<1>0. fs[f] \in FileObject
  OBVIOUS
<1>1. ASSUME NEW x \in BOOLEAN
      PROVE  [fs EXCEPT ![f].data = x] \in [File -> FileObject]
  BY <1>0 DEF FileObject
<1>2. ASSUME NEW x \in BOOLEAN
      PROVE  [fs EXCEPT ![f].handle = x] \in [File -> FileObject]
  BY <1>0 DEF FileObject
<1>3. ASSUME NEW x \in {"default", "ours"}
      PROVE  [fs EXCEPT ![f].old = x] \in [File -> FileObject]
  BY <1>0 DEF FileObject
<1>4. ASSUME NEW x \in {"null", "own", "given", "freed"}
      PROVE  [fs EXCEPT ![f].exit = x] \in [File -> FileObject]
  BY <1>0 DEF FileObject
<1>5. ASSUME NEW x \in {"default", "ours"}, NEW n \in Nat
      PROVE  [fs EXCEPT ![f].old = x, ![f].started = TRUE, ![f].jmp = n]
                \in [File -> FileObject]
  BY <1>0 DEF FileObject
<1>6. QED BY <1>1, <1>2, <1>3, <1>4, <1>5

LEMMA GiveTypes ==
  ASSUME NEW fs \in [File -> FileObject], NEW f \in File, NEW bad \in BOOLEAN,
         GiveExitData(f, fs, bad)
  PROVE  files' \in [File -> FileObject] /\ misfreed' \in BOOLEAN
<1>1. [fs EXCEPT ![f].exit = "given"] \in [File -> FileObject]
  BY FileUpdates
<1>2. misfreed' \in BOOLEAN
  BY DEF GiveExitData
<1>3. QED BY <1>1, <1>2 DEF GiveExitData

LEMMA TypeStep ==
  ASSUME IInv, [Next]_vars
  PROVE  TypeOK'
<1> USE DEF mainVars, imageVars, signalVars, Context
<1>0. /\ TypeOK /\ MainOK
      /\ running \in Seq(File) /\ stack \in Seq(Frame)
      /\ files \in [File -> FileObject] /\ Len(stack) \in Nat
      /\ MaxFiles \in Nat /\ context \in Context /\ handler \in {"default", "ours"}
  BY BoundAssumption, LenProperties DEF IInv, TypeOK
<1>1. CASE MainLoads
  <2> DEFINE f == FileToLoad
             fs == IF f > created THEN [files EXCEPT ![f] = NewFile] ELSE files
             opened == arguments[position] # "missing" /\ ~fs[f].data
             filled == [fs EXCEPT ![f].data = @ \/ opened]
  <2>1. f \in File /\ created \in 0 .. MaxFiles /\ arguments \in Seq(Quality)
    BY <1>0, <1>1, CommandAssumption DEF MainLoads, FileToLoad, TypeOK, File, NoFile
  <2>2. fs \in [File -> FileObject]
    BY <1>0, <2>1, FrameTypes
  <2>3. opened \in BOOLEAN
    OBVIOUS
  <2> HIDE DEF fs, opened, f
  <2>4. fs[f].data \in BOOLEAN
    BY <2>1, <2>2 DEF FileObject
  <2>5. filled \in [File -> FileObject]
        /\ [filled EXCEPT ![f].handle = TRUE] \in [File -> FileObject]
    <3>1. filled = [fs EXCEPT ![f].data = fs[f].data \/ opened]
      OBVIOUS
    <3>2. (fs[f].data \/ opened) \in BOOLEAN
      BY <2>3, <2>4
    <3> HIDE DEF filled
    <3>3. filled \in [File -> FileObject]
      BY <2>1, <2>2, <3>1, <3>2, FileUpdates
    <3>4. QED BY <2>1, <3>3, FileUpdates
  <2>6. files' = filled \/ files' = [filled EXCEPT ![f].handle = TRUE]
    BY <1>1 DEF MainLoads, GetImageHandle, f, fs, opened, filled
  <2>7. files' \in [File -> FileObject] /\ created' \in 0 .. MaxFiles /\ mainFile' \in File
    <3> HIDE DEF filled
    <3>1. files' \in [File -> FileObject]
      BY <2>5, <2>6
    <3>2. created' = (IF f > created THEN f ELSE created) /\ mainFile' = f
      BY <1>1 DEF MainLoads, f
    <3>3. created' \in 0 .. MaxFiles
      BY <1>0, <2>1, <3>2 DEF File
    <3>4. QED BY <2>1, <3>1, <3>2, <3>3
  <2>8. stack' \in Seq(Frame) /\ context' \in Context /\ main' \in {"next", "running"}
    <3>1. \/ stack' = Append(stack, LoadFrame(f)) /\ context' = "ctx" /\ main' = "running"
          \/ UNCHANGED <<main, stack, context>>
      BY <1>1 DEF MainLoads, GetImageHandle, f
    <3>2. LoadFrame(f) \in Frame
      BY <1>0, <2>1, FrameTypes
    <3>3. Append(stack, LoadFrame(f)) \in Seq(Frame)
      BY <1>0, <3>2, AppendFacts
    <3>4. CASE stack' = Append(stack, LoadFrame(f)) /\ context' = "ctx" /\ main' = "running"
      BY <3>3, <3>4
    <3>5. CASE UNCHANGED <<main, stack, context>>
      BY <1>0, <3>5 DEF TypeOK
    <3>6. QED BY <3>1, <3>4, <3>5
  <2>9. position \in 1 .. Len(arguments) /\ Len(arguments) \in Nat
    BY <1>0, <1>1, <2>1, LenProperties DEF MainLoads, TypeOK
  <2>10. position' \in 1 .. Len(arguments') + 1 /\ arguments' = arguments
    BY <1>1, <2>9 DEF MainLoads
  <2>11. QED BY <1>0, <1>1, <2>7, <2>8, <2>10 DEF MainLoads, TypeOK
<1>2. CASE MainReturns
  BY <1>0, <1>2 DEF MainReturns, TypeOK
<1>3. CASE LoadImage
  <2>1. created' \in File /\ created' \in 0 .. MaxFiles
    BY <1>0, <1>3 DEF LoadImage, TypeOK, File
  <2>2. [NewFile EXCEPT !.data = TRUE] \in FileObject
    BY FrameTypes, <1>0 DEF FileObject
  <2>3. files' \in [File -> FileObject]
    BY <1>0, <1>3, <2>1, <2>2 DEF LoadImage, GetImageHandle, FileObject
  <2>4. stack' \in Seq(Frame)
    BY <1>0, <1>3, <2>1, FrameTypes, AppendFacts DEF LoadImage, GetImageHandle
  <2>5. QED BY <1>0, <1>3, <2>1, <2>3, <2>4 DEF LoadImage, GetImageHandle, TypeOK
<1>4. ASSUME NEW f \in File, Enter(f)
      PROVE  /\ files' \in [File -> FileObject] /\ stack' \in Seq(Frame)
             /\ running' \in Seq(File) /\ context' \in Context
             /\ handler' \in {"default", "ours"}
  <2>1. files' \in [File -> FileObject]
    <3>1. Len(stack) + 1 \in Nat
      BY <1>0
    <3>2. QED BY <1>0, <1>4, <3>1, FileUpdates DEF Enter
  <2>2. stack' \in Seq(Frame) /\ running' \in Seq(File)
    BY <1>0, <1>4, FrameTypes, AppendFacts DEF Enter
  <2>3. QED BY <1>4, <2>1, <2>2 DEF Enter
<1>5. CASE MainStarts
  <2>1. mainFile \in File /\ position \in DOMAIN arguments
    BY <1>0, <1>5 DEF MainStarts, MainOK, TypeOK
  <2>2. QED BY <1>0, <1>4, <1>5, <2>1 DEF MainStarts, TypeOK, StateOf
<1>6. ASSUME NEW f \in File, StartImage(f)
      PROVE  TypeOK'
  BY <1>0, <1>4, <1>6 DEF StartImage, TypeOK, StateOf
<1>7. ASSUME NEW f \in File, StartRunning(f)
      PROVE  TypeOK'
  <2>1. [files EXCEPT ![f].old = handler] \in [File -> FileObject]
    BY <1>0, FileUpdates
  <2>2. files' \in [File -> FileObject] /\ misfreed' \in BOOLEAN
    BY <1>7, <2>1, GiveTypes DEF StartRunning
  <2>3. QED BY <1>0, <1>7, <2>2 DEF StartRunning, TypeOK, StateOf
<1>8. CASE LoadEnds
  <2>1. stack # <<>>
    BY <1>8 DEF LoadEnds, TopIs
  <2>2. stack' \in Seq(Frame) /\ Last(stack) \in Frame
    BY <1>0, <1>8, <2>1, FrontFacts DEF LoadEnds
  <2>3. context' \in Context
    BY <1>8, <2>2 DEF LoadEnds, Frame
  <2>4. QED BY <1>0, <1>8, <2>2, <2>3 DEF LoadEnds, TypeOK
<1>9. ASSUME NEW d, NEW fs, NEW bad, running # <<>>, d = files[Innermost].jmp,
             fs \in [File -> FileObject], bad \in BOOLEAN, Finish(d, fs, bad)
      PROVE  TypeOK'
  <2>1. /\ Innermost \in File /\ d \in 1 .. Len(stack)
        /\ stack[d].file = Innermost /\ stack[d].kind = "image"
        /\ stack' = SubSeq(stack, 1, d - 1)
        /\ running' = SubSeq(running, 1, Len(running) - 1)
        /\ handler' = files[Innermost].old /\ context' = stack[d].context
        /\ Len(running) - 1 \in 0 .. Len(running)
    BY <1>9, LeaveFacts DEF Finish
  <2>2. stack[d] \in Frame
    BY <1>0, <2>1, LenProperties
  <2>3. context' \in Context /\ handler' \in {"default", "ours"}
    BY <1>0, <2>1, <2>2 DEF Frame, FileObject
  <2>4. stack' \in Seq(Frame) /\ running' \in Seq(File)
    BY <1>0, <2>1, PrefixFacts
  <2>5. files' \in [File -> FileObject] /\ misfreed' \in BOOLEAN
    BY <1>9, <2>1, GiveTypes DEF Finish
  <2>6. /\ arguments' = arguments /\ ran' = ran /\ main' \in {"next", "running"}
        /\ position' \in 1 .. Len(arguments) + 1
        /\ mainFile' \in File \cup {NoFile}
    <3>1. CASE d = 1 /\ BackInMain
      <4>1. stack # <<>>
        BY <1>0, <2>1, EmptySeq
      <4>2. position \in DOMAIN arguments /\ arguments \in Seq(Quality)
        BY <1>0, <4>1, CommandAssumption DEF MainOK, TypeOK
      <4>3. position + 1 \in 1 .. Len(arguments) + 1
        BY <4>2, LenProperties
      <4>4. QED BY <3>1, <4>3 DEF BackInMain
    <3>2. CASE UNCHANGED mainVars
      BY <1>0, <3>2 DEF TypeOK
    <3>3. QED BY <1>9, <3>1, <3>2 DEF Finish
  <2>7. UNCHANGED <<created, restarted, tpl, crash, caught, end>>
    BY <1>9 DEF Finish
  <2>8. QED BY <1>0, <2>3, <2>4, <2>5, <2>6, <2>7 DEF TypeOK
<1>10. CASE EntryReturns
  <2>1. running # <<>> /\ files[Innermost].jmp = Len(stack)
    BY <1>10, TopIsInnermost DEF EntryReturns
  <2>2. QED BY <1>0, <1>9, <1>10, <2>1 DEF EntryReturns
<1>11. ASSUME NEW withData \in BOOLEAN, Exit(withData)
       PROVE  TypeOK'
  <2> DEFINE fs == IF withData THEN [files EXCEPT ![Innermost].exit = "own"] ELSE files
             bad == withData /\ files[Innermost].exit \notin {"null", "own"}
  <2>1. running # <<>>
    BY <1>11 DEF Exit, Innermost
  <2>2. fs \in [File -> FileObject] /\ bad \in BOOLEAN
    BY <1>0 DEF FileObject
  <2>3. Finish(files[Innermost].jmp, fs, bad)
    BY <1>11 DEF Exit
  <2> HIDE DEF fs, bad
  <2>4. QED BY <1>9, <2>1, <2>2, <2>3
<1>12. ASSUME NEW f \in File, FreeExitData(f)
       PROVE  TypeOK'
  <2>1. files' \in [File -> FileObject]
    BY <1>0, <1>12 DEF FreeExitData, FileObject
  <2>2. QED BY <1>0, <1>12, <2>1 DEF FreeExitData, TypeOK
<1>13. ASSUME NEW l \in Levels, NotifyBegins(l)
       PROVE  TypeOK'
  <2>1. stack' \in Seq(Frame)
    BY <1>0, <1>13, FrameTypes, AppendFacts DEF NotifyBegins
  <2>2. QED BY <1>0, <1>13, <2>1 DEF NotifyBegins, TypeOK
<1>14. CASE NotifyReturns
  <2>1. stack # <<>> /\ Last(stack).kind = "notify"
    BY <1>14 DEF NotifyReturns, TopIs
  <2>2. stack' \in Seq(Frame)
    BY <1>0, <1>14, <2>1, FrontFacts DEF NotifyReturns
  <2>3. Last(stack).tpl \in {APPLICATION} \cup Levels
    BY <1>0, <2>1, FrontFacts DEF IInv, FramesOK, Last
  <2>4. QED BY <1>0, <1>14, <2>2, <2>3 DEF NotifyReturns, TypeOK
<1>15. CASE Fault
  BY <1>0, <1>15 DEF Fault, Deliver, TypeOK
<1>16. CASE RaiseAgain
  <2>1. handler' \in {"default", "ours"}
    <3>1. CASE running = <<>>
      BY <1>0, <1>16, <3>1 DEF RaiseAgain, Innermost, TypeOK
    <3>2. CASE running # <<>>
      <4>1. Innermost \in File
        BY <1>0, <3>2, FrontFacts DEF Innermost
      <4>2. files[Innermost].old \in {"default", "ours"}
        BY <1>0, <4>1 DEF FileObject
      <4>3. QED BY <1>0, <1>16, <4>2 DEF RaiseAgain, TypeOK
    <3>3. QED BY <3>1, <3>2
  <2>2. QED BY <1>0, <1>16, <2>1 DEF RaiseAgain, TypeOK
<1>17. CASE HandlerReturns
  BY <1>0, <1>17 DEF HandlerReturns, Deliver, TypeOK
<1>18. CASE UNCHANGED vars
  BY <1>0, <1>18 DEF TypeOK, vars
<1>19. CASE Over
  BY <1>18, <1>19 DEF Over
<1>20. QED
  BY <1>1, <1>2, <1>3, <1>5, <1>6, <1>7, <1>8, <1>10, <1>11, <1>12, <1>13, <1>14,
     <1>15, <1>16, <1>17, <1>18, <1>19 DEF Next

-----------------------------------------------------------------------------
(* Where main is, and what the frames restore *)

\* A step that leaves main, its object and its file alone keeps MainOK as long
\* as nothing is created and main was not between two files.
LEMMA MainStep ==
  ASSUME IInv, [Next]_vars
  PROVE  MainOK'
<1> USE DEF mainVars, imageVars, signalVars, Context
<1>0. /\ TypeOK /\ MainOK /\ stack \in Seq(Frame) /\ created \in 0 .. MaxFiles
      /\ MaxFiles \in Nat /\ mainFile \in File \cup {NoFile}
      /\ \A fr \in Frame : Append(stack, fr) # <<>>
  BY BoundAssumption, AppendFacts DEF IInv, TypeOK
<1>1. CASE MainLoads
  <2>1. FileToLoad \in 1 .. MaxFiles /\ (FileToLoad > created => FileToLoad = created + 1)
    BY <1>0, <1>1 DEF MainLoads, FileToLoad, MainOK, File, NoFile
  <2>2. created' = (IF FileToLoad > created THEN FileToLoad ELSE created) /\ mainFile' = FileToLoad
    BY <1>1 DEF MainLoads
  <2>3. mainFile' <= created' /\ mainFile' # NoFile
    BY <1>0, <2>1, <2>2 DEF NoFile
  <2>4. main = "next" /\ stack = <<>> /\ position \in DOMAIN arguments /\ arguments' = arguments
    <3>1. arguments \in Seq(Quality) /\ position \in 1 .. Len(arguments)
      BY <1>0, <1>1, CommandAssumption, LenProperties DEF MainLoads, TypeOK
    <3>2. QED BY <1>0, <1>1, <3>1, LenProperties DEF MainLoads, MainOK
  <2>5. \/ main' = "running" /\ position' = position
        \/ main' = main /\ stack' = stack
    BY <1>1 DEF MainLoads
  <2>6. QED BY <2>3, <2>4, <2>5 DEF MainOK
<1>2. CASE MainReturns
  BY <1>0, <1>2 DEF MainReturns, MainOK
<1>3. ClientRuns => main = "running"
  BY <1>0 DEF ClientRuns, TopIs, MainOK, TypeOK
<1>4. CASE LoadImage
  <2>1. created' = created + 1 /\ UNCHANGED mainVars /\ ClientRuns
    BY <1>4 DEF LoadImage
  <2>2. mainFile <= created'
    BY <1>0, <2>1 DEF MainOK, File, NoFile
  <2>3. QED BY <1>0, <1>3, <2>1, <2>2 DEF MainOK
<1>5. CASE MainStarts
  BY <1>0, <1>5 DEF MainStarts, MainOK
<1>6. ASSUME NEW f \in File, StartImage(f) \/ StartRunning(f) \/ FreeExitData(f)
      PROVE  MainOK'
  BY <1>0, <1>3, <1>6 DEF StartImage, StartRunning, FreeExitData, MainOK
<1>7. CASE LoadEnds \/ NotifyReturns
  <2>1. main = "running"
    BY <1>0, <1>7 DEF LoadEnds, NotifyReturns, TopIs, MainOK, TypeOK
  <2>2. QED BY <1>0, <1>7, <2>1 DEF LoadEnds, NotifyReturns, MainOK
<1>8. ASSUME NEW d, NEW fs, NEW bad, running # <<>>, d = files[Innermost].jmp,
             Finish(d, fs, bad)
      PROVE  MainOK'
  <2>1. d \in 1 .. Len(stack) /\ Len(stack) \in Nat /\ stack' = SubSeq(stack, 1, d - 1)
    BY <1>8, LeaveFacts DEF Finish
  <2>2. stack # <<>> /\ main = "running"
    BY <1>0, <2>1, EmptySeq DEF MainOK, TypeOK
  <2>3. CASE d = 1 /\ BackInMain
    <3>1. stack' = <<>>
      BY <2>1, <2>3, SubSeqEmpty
    <3>2. main' = "next" /\ mainFile' = NoFile /\ created' = created
      BY <1>8, <2>3 DEF Finish, BackInMain
    <3>3. QED BY <1>0, <3>1, <3>2 DEF MainOK, NoFile
  <2>4. CASE UNCHANGED mainVars
    BY <1>0, <1>8, <2>2, <2>4 DEF MainOK, Finish
  <2>5. QED BY <1>8, <2>3, <2>4 DEF Finish
<1>9. CASE EntryReturns
  <2>1. running # <<>> /\ files[Innermost].jmp = Len(stack)
    BY <1>9, TopIsInnermost DEF EntryReturns
  <2>2. QED BY <1>8, <1>9, <2>1 DEF EntryReturns
<1>10. ASSUME NEW withData \in BOOLEAN, Exit(withData)
       PROVE  MainOK'
  <2>1. running # <<>>
    BY <1>10 DEF Exit, Innermost
  <2>2. QED BY <1>8, <1>10, <2>1 DEF Exit
<1>11. ASSUME NEW l \in Levels, NotifyBegins(l)
       PROVE  MainOK'
  <2>1. main = "running"
    BY <1>0, <1>11 DEF NotifyBegins, MainOK, TypeOK
  <2>2. QED BY <1>0, <1>11, <2>1 DEF NotifyBegins, MainOK
<1>12. CASE Fault \/ RaiseAgain \/ HandlerReturns \/ Over \/ UNCHANGED vars
  BY <1>0, <1>12 DEF Fault, RaiseAgain, HandlerReturns, Over, MainOK, vars
<1>13. QED
  BY <1>1, <1>2, <1>4, <1>5, <1>6, <1>7, <1>9, <1>10, <1>11, <1>12 DEF Next

LEMMA FramesStep ==
  ASSUME IInv, [Next]_vars
  PROVE  FramesOK' /\ ContextHeld'
<1> USE DEF mainVars, imageVars, signalVars, Context
<1>0. /\ TypeOK /\ FramesOK /\ ContextHeld /\ stack \in Seq(Frame)
      /\ Len(stack) \in Nat /\ DOMAIN stack = 1 .. Len(stack)
      /\ (stack # <<>> <=> Len(stack) > 0)
      /\ tpl \in {APPLICATION} \cup Levels
  BY LenProperties, EmptySeq DEF IInv, TypeOK
<1>1. ASSUME NEW fr \in Frame, stack' = Append(stack, fr), context' = "ctx",
             fr.kind = "notify" =>
               stack # <<>> /\ fr.tpl \in {APPLICATION} \cup Levels,
             fr.kind # "notify" => fr.context = context
      PROVE  FramesOK' /\ ContextHeld'
  <2> DEFINE n == Len(stack)
  <2>1. /\ stack' # <<>> /\ DOMAIN stack' = 1 .. n + 1
        /\ \A i \in 1 .. n + 1 : stack'[i] = IF i = n + 1 THEN fr ELSE stack[i]
    BY <1>0, <1>1, AppendFacts
  <2>2. fr.kind # "notify" => fr.context = IF n + 1 > 1 THEN "ctx" ELSE "null"
    BY <1>0, <1>1 DEF ContextHeld
  <2>3. fr.kind = "notify" => n + 1 > 1
    BY <1>0, <1>1
  <2> HIDE DEF n
  <2>4. ASSUME NEW d \in 1 .. n + 1
        PROVE  /\ stack'[d].kind = "notify" =>
                    d > 1 /\ stack'[d].tpl \in {APPLICATION} \cup Levels
               /\ stack'[d].kind # "notify" => stack'[d].context = IF d > 1 THEN "ctx" ELSE "null"
    <3>1. CASE d = n + 1
      BY <1>1, <2>1, <2>2, <2>3, <3>1
    <3>2. CASE d # n + 1
      <4>1. d \in DOMAIN stack /\ stack'[d] = stack[d]
        BY <1>0, <2>1, <3>2 DEF n
      <4>2. QED BY <1>0, <4>1 DEF FramesOK
    <3>3. QED BY <3>1, <3>2
  <2>5. QED BY <1>1, <2>1, <2>4 DEF FramesOK, ContextHeld
<1>2. ASSUME NEW k \in 0 .. Len(stack), stack' = SubSeq(stack, 1, k),
             context' = IF k > 0 THEN "ctx" ELSE "null"
      PROVE  FramesOK' /\ ContextHeld'
  <2>1. /\ stack' \in Seq(Frame) /\ DOMAIN stack' = 1 .. k /\ Len(stack') = k
        /\ \A i \in 1 .. k : stack'[i] = stack[i]
    BY <1>0, <1>2, PrefixFacts
  <2>2. stack' # <<>> <=> k > 0
    BY <1>0, <2>1, EmptySeq
  <2>3. QED BY <1>0, <1>2, <2>1, <2>2 DEF FramesOK, ContextHeld
<1>3. ASSUME UNCHANGED <<stack, context>>
      PROVE  FramesOK' /\ ContextHeld'
  BY <1>0, <1>3 DEF FramesOK, ContextHeld
<1>4. \A f \in File :
        /\ ImageFrame(f) \in Frame /\ LoadFrame(f) \in Frame
        /\ ImageFrame(f).kind = "image" /\ ImageFrame(f).context = context
        /\ LoadFrame(f).kind = "load" /\ LoadFrame(f).context = context
  BY <1>0, FrameTypes DEF ImageFrame, LoadFrame
<1>5. ASSUME NEW f \in File, Enter(f)
      PROVE  FramesOK' /\ ContextHeld'
  BY <1>1, <1>4, <1>5 DEF Enter
<1>6. CASE MainLoads
  <2>1. FileToLoad \in File
    BY <1>0, <1>6, BoundAssumption DEF MainLoads, FileToLoad, TypeOK, File, NoFile
  <2>2. \/ stack' = Append(stack, LoadFrame(FileToLoad)) /\ context' = "ctx"
        \/ UNCHANGED <<stack, context>>
    BY <1>6 DEF MainLoads, GetImageHandle
  <2>3. QED BY <1>1, <1>3, <1>4, <2>1, <2>2
<1>7. CASE LoadImage
  <2>1. created' \in File
    BY <1>0, <1>7, BoundAssumption DEF LoadImage, TypeOK, File
  <2>2. QED BY <1>1, <1>4, <1>7, <2>1 DEF LoadImage, GetImageHandle
<1>8. CASE MainStarts
  <2>1. mainFile \in File
    BY <1>8 DEF MainStarts, IInv, MainOK, TypeOK
  <2>2. QED BY <1>5, <1>8, <2>1 DEF MainStarts
<1>9. ASSUME NEW f \in File, StartImage(f)
      PROVE  FramesOK' /\ ContextHeld'
  BY <1>5, <1>9 DEF StartImage
<1>10. CASE LoadEnds
  <2>1. /\ stack # <<>> /\ Last(stack) = stack[Len(stack)]
        /\ stack[Len(stack)].kind = "load"
    BY <1>10 DEF LoadEnds, TopIs, Last
  <2>2. stack[Len(stack)].context = IF Len(stack) > 1 THEN "ctx" ELSE "null"
    BY <1>0, <2>1 DEF FramesOK
  <2>3. /\ Len(stack) - 1 \in 0 .. Len(stack) /\ stack' = SubSeq(stack, 1, Len(stack) - 1)
        /\ context' = IF Len(stack) - 1 > 0 THEN "ctx" ELSE "null"
    BY <1>0, <1>10, <2>1, <2>2 DEF LoadEnds, Front
  <2>4. QED BY <1>2, <2>3
<1>11. ASSUME NEW d, NEW fs, NEW bad, running # <<>>, d = files[Innermost].jmp,
              Finish(d, fs, bad)
       PROVE  FramesOK' /\ ContextHeld'
  <2>1. /\ d \in 1 .. Len(stack) /\ stack[d].kind = "image"
        /\ stack' = SubSeq(stack, 1, d - 1) /\ context' = stack[d].context
    BY <1>11, LeaveFacts DEF Finish
  <2>2. stack[d].context = IF d > 1 THEN "ctx" ELSE "null"
    BY <1>0, <2>1 DEF FramesOK
  <2>3. d - 1 \in 0 .. Len(stack) /\ context' = IF d - 1 > 0 THEN "ctx" ELSE "null"
    BY <1>0, <2>1, <2>2
  <2>4. QED BY <1>2, <2>1, <2>3
<1>12. CASE EntryReturns
  <2>1. running # <<>> /\ files[Innermost].jmp = Len(stack)
    BY <1>12, TopIsInnermost DEF EntryReturns
  <2>2. QED BY <1>11, <1>12, <2>1 DEF EntryReturns
<1>13. ASSUME NEW withData \in BOOLEAN, Exit(withData)
       PROVE  FramesOK' /\ ContextHeld'
  <2>1. running # <<>>
    BY <1>13 DEF Exit, Innermost
  <2>2. QED BY <1>11, <1>13, <2>1 DEF Exit
<1>14. ASSUME NEW l \in Levels, NotifyBegins(l)
       PROVE  FramesOK' /\ ContextHeld'
  <2>1. NotifyFrame(l) \in Frame /\ NotifyFrame(l).kind = "notify" /\ NotifyFrame(l).tpl = tpl
    BY <1>0, FrameTypes DEF NotifyFrame
  <2>2. context' = "ctx" /\ stack' = Append(stack, NotifyFrame(l)) /\ stack # <<>>
    BY <1>0, <1>14 DEF NotifyBegins, ContextHeld, TypeOK
  <2>3. QED BY <1>0, <1>1, <2>1, <2>2
<1>15. CASE NotifyReturns
  <2>1. /\ stack # <<>> /\ context' = context /\ stack' = SubSeq(stack, 1, Len(stack) - 1)
        /\ stack[Len(stack)].kind = "notify"
    BY <1>15 DEF NotifyReturns, TopIs, Front, Last
  <2>2. Len(stack) > 1
    BY <1>0, <2>1 DEF FramesOK
  <2>3. /\ Len(stack) - 1 \in 0 .. Len(stack)
        /\ context' = IF Len(stack) - 1 > 0 THEN "ctx" ELSE "null"
    BY <1>0, <2>1, <2>2 DEF ContextHeld
  <2>4. QED BY <1>2, <2>1, <2>3
<1>16. ASSUME NEW f \in File, StartRunning(f) \/ FreeExitData(f)
       PROVE  FramesOK' /\ ContextHeld'
  BY <1>3, <1>16 DEF StartRunning, FreeExitData
<1>17. CASE MainReturns \/ Fault \/ RaiseAgain \/ HandlerReturns \/ Over \/ UNCHANGED vars
  BY <1>3, <1>17 DEF MainReturns, Fault, RaiseAgain, HandlerReturns, Over, vars
<1>18. QED
  BY <1>6, <1>7, <1>8, <1>9, <1>10, <1>12, <1>13, <1>14, <1>15, <1>16, <1>17 DEF Next

-----------------------------------------------------------------------------
(* The run stack and the C stack *)

\* Steps that leave the run stack alone, and jump targets and states of the
\* images on it: frames of other kinds come and go above all of theirs.
LEMMA RunStackKept ==
  ASSUME IInv, running' = running, created <= created', created' \in Nat,
         \A i \in DOMAIN running :
           /\ files'[running[i]].jmp = files[running[i]].jmp
           /\ files'[running[i]].started = files[running[i]].started,
         \/ stack' = stack
         \/ \E fr \in Frame : fr.kind # "image" /\ stack' = Append(stack, fr)
         \/ /\ stack # <<>> /\ Last(stack).kind # "image"
            /\ stack' = Front(stack)
  PROVE  RunningOK' /\ RunStack'
<1> DEFINE m == Len(running)
           n == Len(stack)
<1>0. stack \in Seq(Frame)
  BY DEF IInv, TypeOK
<1>1. /\ n \in Nat /\ DOMAIN stack = 1 .. n
      /\ m \in Nat /\ DOMAIN running = 1 .. m /\ \A i \in 1 .. m : running[i] \in File
      /\ created \in 0 .. MaxFiles /\ MaxFiles \in Nat
  BY LenProperties, BoundAssumption DEF IInv, TypeOK
<1>2. /\ \A i \in 1 .. m : FrameOf(running[i], files[running[i]].jmp)
      /\ \A i, j \in 1 .. m : i < j => files[running[i]].jmp < files[running[j]].jmp
      /\ \A d \in 1 .. n : stack[d].kind = "image" =>
           \E i \in 1 .. m : running[i] = stack[d].file /\ files[running[i]].jmp = d
  BY <1>1 DEF IInv, RunStack
<1>3. \A i \in 1 .. m :
        /\ files'[running'[i]].jmp = files[running[i]].jmp
        /\ files'[running'[i]].started = files[running[i]].started
        /\ running'[i] = running[i]
  BY <1>1
<1>4. RunningOK'
  <2>1. \A i \in 1 .. m : running[i] <= created /\ files[running[i]].started
    BY <1>1 DEF IInv, RunningOK
  <2>2. \A i \in 1 .. m : running[i] <= created'
    BY <1>1, <2>1 DEF File
  <2>3. QED BY <1>1, <1>3, <2>1, <2>2 DEF RunningOK
<1>5. \A d \in 1 .. n : stack[d].kind = "image" =>
        d \in DOMAIN stack' /\ stack'[d] = stack[d]
  <2>1. CASE stack' = stack
    BY <1>1, <2>1
  <2>2. ASSUME NEW fr \in Frame, stack' = Append(stack, fr)
        PROVE  \A d \in 1 .. n : d \in DOMAIN stack' /\ stack'[d] = stack[d]
    <3>1. /\ DOMAIN stack' = 1 .. n + 1
          /\ \A d \in 1 .. n + 1 : stack'[d] = IF d = n + 1 THEN fr ELSE stack[d]
      BY <1>0, <2>2, AppendFacts
    <3> HIDE DEF n
    <3>2. QED BY <1>1, <3>1
  <2>3. CASE stack # <<>> /\ Last(stack).kind # "image" /\ stack' = Front(stack)
    <3>1. /\ stack[n].kind # "image" /\ DOMAIN stack' = 1 .. n - 1
          /\ \A d \in 1 .. n - 1 : stack'[d] = stack[d]
      BY <1>0, <1>1, <2>3, FrontFacts DEF Last
    <3> HIDE DEF n
    <3>2. QED BY <1>1, <3>1
  <2>4. QED BY <2>1, <2>2, <2>3
<1>6. \A d \in DOMAIN stack' : stack'[d].kind = "image" =>
        d \in 1 .. n /\ stack'[d] = stack[d]
  <2>1. CASE stack' = stack
    BY <1>1, <2>1
  <2>2. ASSUME NEW fr \in Frame, fr.kind # "image", stack' = Append(stack, fr)
        PROVE  \A d \in DOMAIN stack' : stack'[d].kind = "image" =>
                 d \in 1 .. n /\ stack'[d] = stack[d]
    <3>1. /\ DOMAIN stack' = 1 .. n + 1
          /\ \A d \in 1 .. n + 1 : stack'[d] = IF d = n + 1 THEN fr ELSE stack[d]
          /\ fr.kind # "image"
      BY <1>0, <2>2, AppendFacts
    <3> HIDE DEF n
    <3>2. QED BY <1>1, <3>1
  <2>3. CASE stack # <<>> /\ Last(stack).kind # "image" /\ stack' = Front(stack)
    <3>1. /\ stack[n].kind # "image" /\ DOMAIN stack' = 1 .. n - 1
          /\ \A d \in 1 .. n - 1 : stack'[d] = stack[d]
      BY <1>0, <1>1, <2>3, FrontFacts DEF Last
    <3> HIDE DEF n
    <3>2. QED BY <1>1, <3>1
  <2>4. QED BY <2>1, <2>2, <2>3
<1> HIDE DEF m, n
<1>7. \A i \in DOMAIN running' :
        FrameOf(running[i], files[running[i]].jmp)'
  BY <1>1, <1>2, <1>3, <1>5 DEF FrameOf
<1>8. \A d \in DOMAIN stack' : stack'[d].kind = "image" =>
        \E i \in DOMAIN running' :
          running'[i] = stack'[d].file /\ files'[running'[i]].jmp = d
  BY <1>1, <1>2, <1>3, <1>6
<1>9. \A i, j \in DOMAIN running' :
        i < j => files'[running'[i]].jmp < files'[running'[j]].jmp
  BY <1>1, <1>2, <1>3
<1>10. QED BY <1>4, <1>7, <1>8, <1>9 DEF RunStack

\* An image that starts is on top of both.
LEMMA RunStackEntered ==
  ASSUME IInv, NEW f \in File, f <= created, Enter(f), created' = created
  PROVE  RunningOK' /\ RunStack'
<1> DEFINE m == Len(running)
           n == Len(stack)
<1>1. /\ stack \in Seq(Frame) /\ n \in Nat /\ DOMAIN stack = 1 .. n
      /\ running \in Seq(File) /\ m \in Nat /\ DOMAIN running = 1 .. m
      /\ \A i \in 1 .. m : running[i] \in File
      /\ files \in [File -> FileObject]
  BY LenProperties DEF IInv, TypeOK
<1>2. /\ \A i \in 1 .. m : FrameOf(running[i], files[running[i]].jmp)
      /\ \A i, j \in 1 .. m : i < j => files[running[i]].jmp < files[running[j]].jmp
      /\ \A d \in 1 .. n : stack[d].kind = "image" =>
           \E i \in 1 .. m : running[i] = stack[d].file /\ files[running[i]].jmp = d
      /\ \A i \in 1 .. m : running[i] <= created /\ files[running[i]].started
  BY <1>1 DEF IInv, RunStack, RunningOK
<1>3. \A i \in 1 .. m : running[i] # f
  BY <1>1 DEF Enter, Contains
<1>4. /\ DOMAIN running' = 1 .. m + 1
      /\ \A i \in 1 .. m + 1 : running'[i] = IF i = m + 1 THEN f ELSE running[i]
  BY <1>1, AppendFacts DEF Enter
<1>5. /\ DOMAIN stack' = 1 .. n + 1
      /\ \A d \in 1 .. n + 1 : stack'[d] = IF d = n + 1 THEN ImageFrame(f) ELSE stack[d]
  <2>1. ImageFrame(f) \in Frame
    BY FrameTypes DEF IInv
  <2>2. QED BY <1>1, <2>1, AppendFacts DEF Enter
<1>6. /\ files'[f].jmp = n + 1 /\ files'[f].started
      /\ \A g \in File : g # f => files'[g] = files[g]
  <2>1. files[f] \in FileObject
    BY <1>1
  <2>2. QED BY <1>1, <2>1 DEF Enter, FileObject
<1>7. ImageFrame(f).kind = "image" /\ ImageFrame(f).file = f
  BY DEF ImageFrame
<1> HIDE DEF m, n
<1>8. \A i \in 1 .. m : files'[running'[i]] = files[running[i]] /\ running'[i] = running[i]
  BY <1>1, <1>3, <1>4, <1>6
<1>9. files'[running'[m + 1]].jmp = n + 1 /\ files'[running'[m + 1]].started /\ running'[m + 1] = f
  BY <1>1, <1>4, <1>6
<1>10. RunningOK'
  <2>1. ASSUME NEW i \in 1 .. m + 1
        PROVE  running'[i] <= created' /\ files'[running'[i]].started
    <3>1. CASE i = m + 1
      BY <1>9, <3>1
    <3>2. CASE i \in 1 .. m
      BY <1>2, <1>8, <3>2
    <3>3. QED BY <1>1, <3>1, <3>2
  <2>2. QED BY <1>4, <2>1 DEF RunningOK
<1>11. ASSUME NEW i \in 1 .. m + 1
       PROVE  FrameOf(running[i], files[running[i]].jmp)'
  <2>1. CASE i = m + 1
    BY <1>1, <1>5, <1>7, <1>9, <2>1 DEF FrameOf
  <2>2. CASE i \in 1 .. m
    <3>1. /\ files[running[i]].jmp \in 1 .. n
          /\ stack[files[running[i]].jmp].kind = "image"
          /\ stack[files[running[i]].jmp].file = running[i]
      BY <1>1, <1>2, <2>2 DEF FrameOf
    <3>2. stack'[files[running[i]].jmp] = stack[files[running[i]].jmp]
      BY <1>1, <1>5, <3>1
    <3>3. QED BY <1>1, <1>5, <1>8, <2>2, <3>1, <3>2 DEF FrameOf
  <2>3. QED BY <1>1, <2>1, <2>2
<1>12. ASSUME NEW i \in 1 .. m + 1, NEW j \in 1 .. m + 1, i < j
       PROVE  files'[running'[i]].jmp < files'[running'[j]].jmp
  <2>1. i \in 1 .. m /\ files[running[i]].jmp \in 1 .. n
    BY <1>1, <1>2, <1>12 DEF FrameOf
  <2>2. CASE j = m + 1
    BY <1>1, <1>8, <1>9, <2>1, <2>2
  <2>3. CASE j \in 1 .. m
    BY <1>2, <1>8, <1>12, <2>1, <2>3
  <2>4. QED BY <1>1, <2>2, <2>3
<1>13. ASSUME NEW d \in 1 .. n + 1, stack'[d].kind = "image"
       PROVE  \E i \in 1 .. m + 1 :
                running'[i] = stack'[d].file /\ files'[running'[i]].jmp = d
  <2>1. CASE d = n + 1
    <3>1. m + 1 \in 1 .. m + 1
      BY <1>1
    <3>2. QED BY <1>1, <1>5, <1>7, <1>9, <2>1, <3>1
  <2>2. CASE d \in 1 .. n
    <3>1. stack'[d] = stack[d]
      BY <1>1, <1>5, <2>2
    <3>2. PICK i \in 1 .. m : running[i] = stack[d].file /\ files[running[i]].jmp = d
      BY <1>2, <1>13, <2>2, <3>1
    <3>3. i \in 1 .. m + 1
      BY <1>1
    <3>4. QED BY <1>8, <3>1, <3>2, <3>3
  <2>3. QED BY <1>1, <2>1, <2>2
<1>14. QED BY <1>4, <1>5, <1>10, <1>11, <1>12, <1>13 DEF RunStack

\* An image that ends takes its own frame along, and those above it, which
\* belong to no other image.
LEMMA RunStackLeft ==
  ASSUME IInv, running # <<>>, Leave(files[Innermost].jmp), created' = created,
         \A i \in DOMAIN running :
           /\ files'[running[i]].jmp = files[running[i]].jmp
           /\ files'[running[i]].started = files[running[i]].started
  PROVE  RunningOK' /\ RunStack'
<1> DEFINE m == Len(running)
           n == Len(stack)
           e == files[Innermost].jmp
<1>1. /\ stack \in Seq(Frame) /\ n \in Nat /\ DOMAIN stack = 1 .. n
      /\ running \in Seq(File) /\ m \in Nat /\ DOMAIN running = 1 .. m
  BY LenProperties DEF IInv, TypeOK
<1>2. /\ \A i \in 1 .. m : FrameOf(running[i], files[running[i]].jmp)
      /\ \A i, j \in 1 .. m : i < j => files[running[i]].jmp < files[running[j]].jmp
      /\ \A d \in 1 .. n : stack[d].kind = "image" =>
           \E i \in 1 .. m : running[i] = stack[d].file /\ files[running[i]].jmp = d
      /\ \A i \in 1 .. m : running[i] <= created /\ files[running[i]].started
  BY <1>1 DEF IInv, RunStack, RunningOK
<1>3. /\ m \in Nat \ {0} /\ Innermost = running[m]
      /\ e \in 1 .. n /\ e = files[running[m]].jmp
      /\ stack' = SubSeq(stack, 1, e - 1)
      /\ running' = SubSeq(running, 1, m - 1)
  BY LeaveFacts
<1>4. m - 1 \in 0 .. m /\ e - 1 \in 0 .. n
  BY <1>1, <1>3
<1>5. /\ DOMAIN running' = 1 .. m - 1
      /\ \A i \in 1 .. m - 1 : running'[i] = running[i]
  BY <1>1, <1>3, <1>4, PrefixFacts
<1>6. /\ DOMAIN stack' = 1 .. e - 1
      /\ \A d \in 1 .. e - 1 : stack'[d] = stack[d]
  BY <1>1, <1>3, <1>4, PrefixFacts
<1>7. \A i \in 1 .. m :
        /\ files'[running[i]].jmp = files[running[i]].jmp
        /\ files'[running[i]].started = files[running[i]].started
  BY <1>1
<1> HIDE DEF m, n, e
<1>8. RunningOK'
  <2>1. ASSUME NEW i \in 1 .. m - 1
        PROVE  running'[i] <= created' /\ files'[running'[i]].started
    <3>1. i \in 1 .. m
      BY <1>3
    <3>2. QED BY <1>2, <1>5, <1>7, <3>1
  <2>2. QED BY <1>5, <2>1 DEF RunningOK
<1>9. ASSUME NEW i \in 1 .. m - 1
      PROVE  FrameOf(running[i], files[running[i]].jmp)'
  <2>1. i \in 1 .. m /\ i < m /\ m \in 1 .. m
    BY <1>3
  <2>2. /\ files[running[i]].jmp \in 1 .. n
        /\ stack[files[running[i]].jmp].kind = "image"
        /\ stack[files[running[i]].jmp].file = running[i]
    BY <1>1, <1>2, <2>1 DEF FrameOf
  <2>3. files[running[i]].jmp < e
    BY <1>2, <1>3, <2>1
  <2>4. files[running[i]].jmp \in 1 .. e - 1
    BY <1>1, <1>3, <2>2, <2>3
  <2>5. files'[running'[i]].jmp = files[running[i]].jmp /\ running'[i] = running[i]
    BY <1>5, <1>7, <2>1
  <2>6. QED BY <1>6, <2>2, <2>4, <2>5 DEF FrameOf
<1>10. ASSUME NEW i \in 1 .. m - 1, NEW j \in 1 .. m - 1, i < j
       PROVE  files'[running'[i]].jmp < files'[running'[j]].jmp
  <2>1. i \in 1 .. m /\ j \in 1 .. m
    BY <1>3
  <2>2. QED BY <1>2, <1>5, <1>7, <1>10, <2>1
<1>11. ASSUME NEW d \in 1 .. e - 1, stack'[d].kind = "image"
       PROVE  \E i \in 1 .. m - 1 :
                running'[i] = stack'[d].file /\ files'[running'[i]].jmp = d
  <2>1. d \in 1 .. n /\ d < e /\ stack'[d] = stack[d]
    BY <1>1, <1>3, <1>6
  <2>2. PICK i \in 1 .. m : running[i] = stack[d].file /\ files[running[i]].jmp = d
    BY <1>2, <1>11, <2>1
  <2>3. i # m
    BY <1>3, <2>1, <2>2
  <2>4. i \in 1 .. m - 1
    BY <1>3, <2>2, <2>3
  <2>5. QED BY <1>5, <1>7, <2>1, <2>2, <2>4
<1>12. QED BY <1>5, <1>6, <1>8, <1>9, <1>10, <1>11 DEF RunStack

LEMMA RunStackStep ==
  ASSUME IInv, [Next]_vars
  PROVE  RunningOK' /\ RunStack'
<1> USE DEF mainVars, imageVars, signalVars
<1>0. /\ TypeOK /\ MainOK /\ RunningOK /\ files \in [File -> FileObject]
      /\ created \in 0 .. MaxFiles /\ MaxFiles \in Nat /\ created <= created
      /\ running \in Seq(File) /\ DOMAIN running = 1 .. Len(running)
      /\ \A i \in DOMAIN running : running[i] \in File /\ running[i] <= created
  BY BoundAssumption, LenProperties DEF IInv, TypeOK, RunningOK
<1>1. ASSUME UNCHANGED <<files, created, running, stack>>
      PROVE  RunningOK' /\ RunStack'
  <2>1. created' \in Nat /\ created <= created'
    BY <1>0, <1>1
  <2>2. QED BY <1>0, <1>1, <2>1, RunStackKept DEF IInv
<1>2. CASE MainLoads
  <2> DEFINE f == FileToLoad
             fs == IF f > created THEN [files EXCEPT ![f] = NewFile] ELSE files
             opened == arguments[position] # "missing" /\ ~fs[f].data
             filled == [fs EXCEPT ![f].data = @ \/ opened]
  <2>1. f \in File /\ (f > created => f = created + 1)
    BY <1>0, <1>2 DEF MainLoads, FileToLoad, TypeOK, File, NoFile, MainOK
  <2>2. /\ created' = IF f > created THEN f ELSE created
        /\ files' = filled \/ files' = [filled EXCEPT ![f].handle = TRUE]
        /\ running' = running
        /\ stack' = stack \/ stack' = Append(stack, LoadFrame(f))
    BY <1>2 DEF MainLoads, GetImageHandle
  <2>3. LoadFrame(f) \in Frame /\ LoadFrame(f).kind # "image" /\ NewFile \in FileObject
    BY <2>1, FrameTypes DEF IInv, LoadFrame
  <2> HIDE DEF f
  <2>4. fs \in [File -> FileObject] /\ \A g \in File : g <= created => fs[g] = files[g]
    BY <1>0, <2>1, <2>3 DEF File
  <2> HIDE DEF fs, opened
  <2>5. /\ DOMAIN filled = File
        /\ \A g \in File : filled[g].jmp = fs[g].jmp /\ filled[g].started = fs[g].started
        /\ \A g \in File : {"jmp", "started"} \subseteq DOMAIN filled[g]
    BY <2>1, <2>4 DEF FileObject
  <2> HIDE DEF filled
  <2>6. ASSUME NEW g \in File, g <= created
        PROVE  files'[g].jmp = files[g].jmp /\ files'[g].started = files[g].started
    <3>1. fs[g] = files[g]
      BY <2>4, <2>6
    <3>2. files'[g].jmp = filled[g].jmp /\ files'[g].started = filled[g].started
      BY <2>1, <2>2, <2>5
    <3>3. QED BY <2>5, <3>1, <3>2
  <2>7. created' \in Nat /\ created <= created'
    BY <1>0, <2>1, <2>2 DEF File
  <2>8. QED BY <1>0, <2>2, <2>3, <2>6, <2>7, RunStackKept
<1>3. CASE LoadImage
  <2>1. /\ created' = created + 1 /\ created' \in File /\ created' \in Nat
        /\ running' = running /\ stack' = Append(stack, LoadFrame(created'))
        /\ files' = [[files EXCEPT ![created'] = [NewFile EXCEPT !.data = TRUE]]
                       EXCEPT ![created'].handle = TRUE]
    BY <1>0, <1>3 DEF LoadImage, GetImageHandle, File
  <2>2. \A g \in File : g <= created => files'[g] = files[g]
    BY <1>0, <2>1 DEF File
  <2>3. LoadFrame(created') \in Frame /\ LoadFrame(created').kind # "image"
    BY <2>1, FrameTypes DEF IInv, LoadFrame
  <2>4. created <= created'
    BY <1>0, <2>1
  <2>5. QED BY <1>0, <2>1, <2>2, <2>3, <2>4, RunStackKept
<1>4. CASE MainStarts
  <2>1. mainFile \in File /\ mainFile <= created
    BY <1>0, <1>4 DEF MainStarts, MainOK, TypeOK
  <2>2. QED BY <1>4, <2>1, RunStackEntered DEF MainStarts
<1>5. ASSUME NEW f \in File, StartImage(f)
      PROVE  RunningOK' /\ RunStack'
  <2>1. f <= created
    BY <1>0, <1>5 DEF StartImage, Images
  <2>2. QED BY <1>5, <2>1, RunStackEntered DEF StartImage
<1>6. ASSUME NEW f \in File, NEW fs \in [File -> FileObject], NEW bad,
             GiveExitData(f, fs, bad)
      PROVE  \A g \in File :
               files'[g].jmp = fs[g].jmp /\ files'[g].started = fs[g].started
  BY <1>6 DEF GiveExitData, FileObject
<1>7. ASSUME NEW f \in File, StartRunning(f)
      PROVE  RunningOK' /\ RunStack'
  <2> DEFINE fs == [files EXCEPT ![f].old = handler]
  <2>1. fs \in [File -> FileObject]
    BY <1>0, FileUpdates DEF TypeOK
  <2>2. \A g \in File : fs[g].jmp = files[g].jmp /\ fs[g].started = files[g].started
    BY <1>0 DEF FileObject
  <2>3. GiveExitData(f, fs, FALSE) /\ UNCHANGED <<created, running, stack>>
    BY <1>7 DEF StartRunning
  <2> HIDE DEF fs
  <2>4. \A g \in File :
          files'[g].jmp = files[g].jmp /\ files'[g].started = files[g].started
    BY <1>6, <2>1, <2>2, <2>3
  <2>5. created' \in Nat /\ created <= created'
    BY <1>0, <2>3
  <2>6. QED BY <1>0, <2>3, <2>4, <2>5, RunStackKept
<1>8. CASE LoadEnds
  <2>1. /\ UNCHANGED <<files, created, running>>
        /\ stack # <<>> /\ Last(stack).kind # "image" /\ stack' = Front(stack)
    BY <1>8 DEF LoadEnds, TopIs
  <2>2. created' \in Nat /\ created <= created'
    BY <1>0, <2>1
  <2>3. QED BY <1>0, <2>1, <2>2, RunStackKept
<1>9. ASSUME NEW d, NEW fs \in [File -> FileObject], NEW bad,
             running # <<>>, d = files[Innermost].jmp,
             \A g \in File : fs[g].jmp = files[g].jmp /\ fs[g].started = files[g].started,
             Finish(d, fs, bad)
      PROVE  RunningOK' /\ RunStack'
  <2>1. Leave(d) /\ created' = created
    BY <1>9 DEF Finish
  <2>2. Innermost \in File /\ stack[d].file = Innermost
    BY <1>9, <2>1, LeaveFacts
  <2>3. files' = fs \/ GiveExitData(Innermost, fs, bad)
    BY <1>9, <2>2 DEF Finish
  <2>4. \A g \in File :
          files'[g].jmp = files[g].jmp /\ files'[g].started = files[g].started
    <3>1. CASE files' = fs
      BY <1>9, <3>1
    <3>2. CASE GiveExitData(Innermost, fs, bad)
      BY <1>6, <1>9, <2>2, <3>2
    <3>3. QED BY <2>3, <3>1, <3>2
  <2>5. QED BY <1>0, <1>9, <2>1, <2>4, RunStackLeft
<1>10. CASE EntryReturns
  <2>1. running # <<>> /\ files[Innermost].jmp = Len(stack)
    BY <1>10, TopIsInnermost DEF EntryReturns
  <2>2. QED BY <1>0, <1>9, <1>10, <2>1 DEF EntryReturns
<1>11. ASSUME NEW withData \in BOOLEAN, Exit(withData)
       PROVE  RunningOK' /\ RunStack'
  <2> DEFINE fs == IF withData THEN [files EXCEPT ![Innermost].exit = "own"] ELSE files
             bad == withData /\ files[Innermost].exit \notin {"null", "own"}
  <2>1. running # <<>> /\ Finish(files[Innermost].jmp, fs, bad)
    BY <1>11 DEF Exit, Innermost
  <2>2. Innermost \in File
    BY <1>0, <2>1, FrontFacts DEF Innermost
  <2>3. /\ fs \in [File -> FileObject]
        /\ \A g \in File : fs[g].jmp = files[g].jmp /\ fs[g].started = files[g].started
    BY <1>0, <2>2 DEF FileObject
  <2> HIDE DEF fs, bad
  <2>4. QED BY <1>9, <2>1, <2>3
<1>12. ASSUME NEW f \in File, FreeExitData(f)
       PROVE  RunningOK' /\ RunStack'
  <2>1. /\ files' = [files EXCEPT ![f].exit = "freed"]
        /\ UNCHANGED <<created, running, stack>>
    BY <1>12 DEF FreeExitData
  <2>2. \A g \in File :
          files'[g].jmp = files[g].jmp /\ files'[g].started = files[g].started
    BY <1>0, <2>1 DEF FileObject
  <2>3. created' \in Nat /\ created <= created'
    BY <1>0, <2>1
  <2>4. QED BY <1>0, <2>1, <2>2, <2>3, RunStackKept
<1>13. ASSUME NEW l \in Levels, NotifyBegins(l)
       PROVE  RunningOK' /\ RunStack'
  <2>1. NotifyFrame(l) \in Frame /\ NotifyFrame(l).kind # "image"
    BY FrameTypes DEF IInv, NotifyFrame
  <2>2. UNCHANGED <<files, created, running>> /\ stack' = Append(stack, NotifyFrame(l))
    BY <1>13 DEF NotifyBegins
  <2>3. created' \in Nat /\ created <= created'
    BY <1>0, <2>2
  <2>4. QED BY <1>0, <2>1, <2>2, <2>3, RunStackKept
<1>14. CASE NotifyReturns
  <2>1. /\ UNCHANGED <<files, created, running>>
        /\ stack # <<>> /\ Last(stack).kind # "image" /\ stack' = Front(stack)
    BY <1>14 DEF NotifyReturns, TopIs
  <2>2. created' \in Nat /\ created <= created'
    BY <1>0, <2>1
  <2>3. QED BY <1>0, <2>1, <2>2, RunStackKept
<1>15. CASE MainReturns \/ Fault \/ RaiseAgain \/ HandlerReturns \/ Over \/ UNCHANGED vars
  BY <1>1, <1>15 DEF MainReturns, Fault, RaiseAgain, HandlerReturns, Over, vars
<1>16. QED
  BY <1>2, <1>3, <1>4, <1>5, <1>7, <1>8, <1>10, <1>11, <1>12, <1>13, <1>14, <1>15 DEF Next

-----------------------------------------------------------------------------
(* The theorems *)

LEMMA InitHolds == Init => IInv
<1> SUFFICES ASSUME Init
             PROVE  IInv
  OBVIOUS
<1>1. /\ running = <<>> /\ stack = <<>>
      /\ running \in Seq(File) /\ stack \in Seq(Frame)
      /\ DOMAIN running = {} /\ DOMAIN stack = {}
  BY EmptySeq DEF Init
<1>2. TypeOK
  <2>1. arguments \in Seq(Quality)
    BY CommandAssumption DEF Init
  <2>2. position \in 1 .. Len(arguments) + 1
    BY <2>1, LenProperties DEF Init
  <2>3. NewFile \in FileObject
    BY DEF NewFile, FileObject
  <2>4. files \in [File -> FileObject] /\ created \in 0 .. MaxFiles
    BY <2>3, BoundAssumption DEF Init
  <2>5. QED BY <1>1, <2>2, <2>4 DEF Init, TypeOK, Context
<1>3. MainOK
  BY DEF Init, MainOK, NoFile
<1>4. RunningOK /\ FramesOK /\ RunStack /\ ContextHeld
  BY <1>1 DEF Init, RunningOK, FramesOK, RunStack, ContextHeld
<1>5. QED BY <1>2, <1>3, <1>4 DEF IInv

\* IInv holds in every state a process can be in (image.c, loader/, main.c).
THEOREM StackInvariant == Spec => []IInv
<1>1. IInv /\ [Next]_vars => IInv'
  BY TypeStep, MainStep, FramesStep, RunStackStep DEF IInv
<1>2. QED BY InitHolds, <1>1, PTL DEF Spec

\* Every variable keeps its type.
THEOREM TypeCorrect == Spec => []TypeOK
<1>1. IInv => TypeOK
  BY DEF IInv
<1>2. QED BY <1>1, StackInvariant, PTL

\* The run stack agrees with the C stack, whatever images and functions an
\* Exit jumps over: no jump goes to a frame that has returned.
THEOREM RunStackAgrees == Spec => []RunStack
<1>1. IInv => RunStack
  BY DEF IInv
<1>2. QED BY <1>1, StackInvariant, PTL

\* The current context is set while anything runs, and only then.
THEOREM ContextRestored == Spec => []ContextHeld
<1>1. IInv => ContextHeld
  BY DEF IInv
<1>2. QED BY <1>1, StackInvariant, PTL

\* Whatever ends a program leaves the run stack, the jump targets and the current
\* context as the C stack that is left needs them.
THEOREM RunsAlwaysHeld == Spec => []RunsHeld
<1>1. IInv => RunsHeld
  BY DEF IInv, RunsHeld
<1>2. QED BY <1>1, StackInvariant, PTL

-----------------------------------------------------------------------------
(* The handlers of fatal signals *)

LEMMA HandlersStep ==
  ASSUME IInv, CrashOK, HandlersOK, [Next]_vars
  PROVE  CrashOK' /\ HandlersOK'
<1> USE DEF mainVars, imageVars, signalVars
<1> DEFINE m == Len(running)
<1>0. /\ TypeOK /\ files \in [File -> FileObject] /\ created \in 0 .. MaxFiles
      /\ MaxFiles \in Nat /\ handler \in {"default", "ours"}
      /\ running \in Seq(File) /\ m \in Nat /\ DOMAIN running = 1 .. m
      /\ \A i \in 1 .. m : running[i] \in File /\ running[i] <= created
      /\ (running # <<>> <=> m > 0)
  BY BoundAssumption, LenProperties, EmptySeq DEF IInv, TypeOK, RunningOK
<1>1. ASSUME UNCHANGED <<running, handler, crash, caught>>,
             restarted \subseteq restarted',
             \A i \in 1 .. m : files'[running[i]].old = files[running[i]].old
      PROVE  CrashOK' /\ HandlersOK'
  BY <1>0, <1>1 DEF CrashOK, HandlersOK
<1>2. CASE MainLoads
  <2> DEFINE f == FileToLoad
             fs == IF f > created THEN [files EXCEPT ![f] = NewFile] ELSE files
             opened == arguments[position] # "missing" /\ ~fs[f].data
             filled == [fs EXCEPT ![f].data = @ \/ opened]
  <2>1. f \in File
    BY <1>0, <1>2 DEF MainLoads, FileToLoad, TypeOK, File, NoFile
  <2>2. files' = filled \/ files' = [filled EXCEPT ![f].handle = TRUE]
    BY <1>2 DEF MainLoads, GetImageHandle
  <2> HIDE DEF f
  <2>3. fs \in [File -> FileObject] /\ \A g \in File : g <= created => fs[g] = files[g]
    BY <1>0, <2>1, FrameTypes DEF File
  <2> HIDE DEF fs, opened
  <2>4. /\ DOMAIN filled = File
        /\ \A g \in File : filled[g].old = fs[g].old /\ "old" \in DOMAIN filled[g]
    BY <2>1, <2>3 DEF FileObject
  <2> HIDE DEF filled
  <2>5. \A g \in File : g <= created => files'[g].old = files[g].old
    BY <2>1, <2>2, <2>3, <2>4
  <2>6. UNCHANGED <<running, handler, crash, caught, restarted>>
    BY <1>2 DEF MainLoads
  <2>7. QED BY <1>0, <1>1, <2>5, <2>6
<1>3. CASE LoadImage
  <2>1. /\ created' = created + 1
        /\ files' = [[files EXCEPT ![created'] = [NewFile EXCEPT !.data = TRUE]]
                       EXCEPT ![created'].handle = TRUE]
        /\ UNCHANGED <<running, handler, crash, caught, restarted>>
    BY <1>3 DEF LoadImage, GetImageHandle
  <2>2. \A g \in File : g <= created => files'[g] = files[g]
    BY <1>0, <2>1 DEF File
  <2>3. QED BY <1>0, <1>1, <2>1, <2>2
<1>4. ASSUME NEW f \in File, Enter(f), UNCHANGED <<crash, caught>>,
             restarted \subseteq restarted'
      PROVE  CrashOK' /\ HandlersOK'
  <2>1. /\ DOMAIN running' = 1 .. m + 1 /\ running' # <<>>
        /\ \A i \in 1 .. m + 1 : running'[i] = IF i = m + 1 THEN f ELSE running[i]
    BY <1>0, <1>4, AppendFacts DEF Enter
  <2>2. \A i \in 1 .. m : running[i] # f
    BY <1>0, <1>4 DEF Enter, Contains
  <2>3. files'[f].old = handler /\ \A g \in File : g # f => files'[g] = files[g]
    <3>1. files[f] \in FileObject
      BY <1>0
    <3>2. QED BY <1>0, <1>4, <3>1 DEF Enter, FileObject
  <2>4. handler' = "ours"
    BY <1>4 DEF Enter
  <2> HIDE DEF m
  <2>5. ASSUME ~caught, "running" \notin restarted, NEW i \in 1 .. m + 1
        PROVE  files'[running'[i]].old = IF i = 1 THEN "default" ELSE "ours"
    <3>1. CASE i = m + 1
      BY <1>0, <2>1, <2>3, <2>5, <3>1 DEF HandlersOK
    <3>2. CASE i \in 1 .. m
      BY <1>0, <2>1, <2>2, <2>3, <2>5, <3>2 DEF HandlersOK
    <3>3. QED BY <1>0, <3>1, <3>2
  <2>6. QED BY <1>4, <2>1, <2>4, <2>5 DEF CrashOK, HandlersOK
<1>5. CASE MainStarts
  <2>1. mainFile \in File
    BY <1>5 DEF MainStarts, IInv, MainOK, TypeOK
  <2>2. QED BY <1>4, <1>5, <2>1 DEF MainStarts
<1>6. ASSUME NEW f \in File, StartImage(f)
      PROVE  CrashOK' /\ HandlersOK'
  BY <1>4, <1>6 DEF StartImage
<1>7. ASSUME NEW f \in File, StartRunning(f)
      PROVE  CrashOK' /\ HandlersOK'
  BY <1>7 DEF StartRunning, StateOf, CrashOK, HandlersOK
<1>8. CASE LoadEnds \/ NotifyReturns \/ \E l \in Levels : NotifyBegins(l)
  BY <1>0, <1>1, <1>8 DEF LoadEnds, NotifyReturns, NotifyBegins
<1>9. ASSUME NEW d, NEW fs \in [File -> FileObject], NEW bad,
             running # <<>>, d = files[Innermost].jmp,
             \A g \in File : fs[g].old = files[g].old,
             Finish(d, fs, bad)
      PROVE  CrashOK' /\ HandlersOK'
  <2>1. /\ m \in Nat \ {0} /\ Innermost = running[m] /\ Innermost \in File
        /\ stack[d].file = Innermost /\ running' = SubSeq(running, 1, m - 1)
        /\ handler' = files[Innermost].old
    BY <1>9, LeaveFacts DEF Finish
  <2>2. /\ DOMAIN running' = 1 .. m - 1 /\ running' \in Seq(File) /\ Len(running') = m - 1
        /\ \A i \in 1 .. m - 1 : running'[i] = running[i]
    BY <1>0, <2>1, PrefixFacts
  <2>3. running' # <<>> <=> m - 1 > 0
    <3>1. running' # <<>> <=> Len(running') # 0
      BY <2>2, EmptySeq
    <3>2. QED BY <2>1, <2>2, <3>1
  <2>4. \A g \in File : files'[g].old = files[g].old
    <3>1. files' = fs \/ files' = [fs EXCEPT ![Innermost].exit = "given"]
      BY <1>9, <2>1 DEF Finish, GiveExitData
    <3>2. QED BY <1>9, <2>1, <3>1 DEF FileObject
  <2>5. UNCHANGED <<crash, caught, restarted>>
    BY <1>9 DEF Finish
  <2> HIDE DEF m
  <2>6. QED BY <1>0, <2>1, <2>2, <2>3, <2>4, <2>5 DEF CrashOK, HandlersOK
<1>10. CASE EntryReturns
  <2>1. running # <<>> /\ files[Innermost].jmp = Len(stack)
    BY <1>10, TopIsInnermost DEF EntryReturns
  <2>2. QED BY <1>0, <1>9, <1>10, <2>1 DEF EntryReturns
<1>11. ASSUME NEW withData \in BOOLEAN, Exit(withData)
       PROVE  CrashOK' /\ HandlersOK'
  <2> DEFINE fs == IF withData THEN [files EXCEPT ![Innermost].exit = "own"] ELSE files
             bad == withData /\ files[Innermost].exit \notin {"null", "own"}
  <2>1. running # <<>> /\ Finish(files[Innermost].jmp, fs, bad)
    BY <1>11 DEF Exit, Innermost
  <2>2. Innermost \in File
    BY <1>0, <2>1, FrontFacts DEF Innermost
  <2>3. fs \in [File -> FileObject] /\ \A g \in File : fs[g].old = files[g].old
    BY <1>0, <2>2 DEF FileObject
  <2> HIDE DEF fs, bad
  <2>4. QED BY <1>9, <2>1, <2>3
<1>12. ASSUME NEW f \in File, FreeExitData(f)
       PROVE  CrashOK' /\ HandlersOK'
  <2>1. /\ files' = [files EXCEPT ![f].exit = "freed"]
        /\ UNCHANGED <<running, handler, crash, caught, restarted>>
    BY <1>12 DEF FreeExitData
  <2>2. \A g \in File : files'[g].old = files[g].old
    BY <1>0, <2>1 DEF FileObject
  <2>3. QED BY <1>0, <1>1, <2>1, <2>2
<1>13. CASE Fault \/ HandlerReturns
  BY <1>13 DEF Fault, HandlerReturns, Deliver, CrashOK, HandlersOK
<1>14. CASE RaiseAgain
  BY <1>14 DEF RaiseAgain, CrashOK, HandlersOK
<1>15. CASE MainReturns \/ Over \/ UNCHANGED vars
  BY <1>0, <1>1, <1>15 DEF MainReturns, Over, vars
<1>16. QED
  BY <1>2, <1>3, <1>5, <1>6, <1>7, <1>8, <1>10, <1>11, <1>12, <1>13, <1>14, <1>15 DEF Next

\* The process takes care of fatal signals exactly while images run, as long
\* as no image was started while it ran and no fatal signal came.
THEOREM HandlersBalanced == Spec => []HandlersKept
<1> DEFINE J == CrashOK /\ HandlersOK
<1>1. Init => J
  BY DEF Init, CrashOK, HandlersOK
<1>2. IInv /\ J /\ [Next]_vars => J'
  BY HandlersStep
<1>3. J => HandlersKept
  BY DEF HandlersOK, HandlersKept
<1> HIDE DEF J
<1>4. QED BY <1>1, <1>2, <1>3, StackInvariant, PTL DEF Spec

-----------------------------------------------------------------------------
(* Exit data *)

LEMMA ExitStep ==
  ASSUME IInv, ExitOK, [Next]_vars
  PROVE  ExitOK'
<1> USE DEF mainVars, imageVars, signalVars
<1> DEFINE m == Len(running)
           Free(f) == ~files[f].started \/ Contains(running, f)
<1>0. /\ TypeOK /\ RunningOK /\ files \in [File -> FileObject] /\ created \in 0 .. MaxFiles
      /\ MaxFiles \in Nat
      /\ running \in Seq(File) /\ m \in Nat /\ DOMAIN running = 1 .. m
      /\ \A i \in 1 .. m : running[i] \in File /\ files[running[i]].started
  BY BoundAssumption, LenProperties DEF IInv, TypeOK, RunningOK
<1>1. ASSUME UNCHANGED <<running, misfreed>>, restarted \subseteq restarted',
             \A f \in File : /\ files'[f].started = files[f].started
                             /\ Free(f) => files'[f].exit = files[f].exit
      PROVE  ExitOK'
  BY <1>1 DEF ExitOK
<1>2. CASE MainLoads
  <2> DEFINE f == FileToLoad
             fs == IF f > created THEN [files EXCEPT ![f] = NewFile] ELSE files
             opened == arguments[position] # "missing" /\ ~fs[f].data
             filled == [fs EXCEPT ![f].data = @ \/ opened]
  <2>1. f \in File
    BY <1>0, <1>2 DEF MainLoads, FileToLoad, TypeOK, File, NoFile
  <2>2. files' = filled \/ files' = [filled EXCEPT ![f].handle = TRUE]
    BY <1>2 DEF MainLoads, GetImageHandle
  <2> HIDE DEF f
  <2>3. /\ fs \in [File -> FileObject]
        /\ \A g \in File : fs[g] = files[g] \/ (~fs[g].started /\ fs[g].exit = "null")
    BY <1>0, <2>1, FrameTypes DEF NewFile
  <2> HIDE DEF fs, opened
  <2>4. /\ DOMAIN filled = File
        /\ \A g \in File :
             /\ filled[g].exit = fs[g].exit /\ filled[g].started = fs[g].started
             /\ {"exit", "started"} \subseteq DOMAIN filled[g]
    BY <2>1, <2>3 DEF FileObject
  <2> HIDE DEF filled
  <2>5. \A g \in File : files'[g].exit = fs[g].exit /\ files'[g].started = fs[g].started
    BY <2>1, <2>2, <2>4
  <2>6. UNCHANGED <<running, misfreed, restarted>>
    BY <1>2 DEF MainLoads
  <2>7. QED BY <2>3, <2>5, <2>6 DEF ExitOK
<1>3. CASE LoadImage
  <2>1. created' \in File /\ UNCHANGED <<running, misfreed, restarted>>
    BY <1>0, <1>3 DEF LoadImage, File
  <2>2. files' = [[files EXCEPT ![created'] = [NewFile EXCEPT !.data = TRUE]]
                     EXCEPT ![created'].handle = TRUE]
    BY <1>3 DEF LoadImage, GetImageHandle
  <2>3. \A g \in File : \/ files'[g] = files[g]
                        \/ ~files'[g].started /\ files'[g].exit = "null"
    BY <1>0, <2>1, <2>2 DEF NewFile
  <2>4. QED BY <2>1, <2>3 DEF ExitOK
<1>4. ASSUME NEW f \in File, Enter(f), misfreed' = misfreed,
             restarted' = restarted \cup StateOf(f)
      PROVE  ExitOK'
  <2>1. \A g \in File : Contains(running, g)' => Contains(running, g) \/ g = f
    BY <1>0, <1>4, AppendFacts DEF Enter, Contains
  <2>2. /\ files'[f].exit = files[f].exit
        /\ \A g \in File : g # f => files'[g] = files[g]
    <3>1. files[f] \in FileObject
      BY <1>0
    <3>2. QED BY <1>0, <1>4, <3>1 DEF Enter, FileObject
  <2>3. files[f].started => "ended" \in restarted'
    BY <1>4 DEF Enter, StateOf
  <2>4. files'[f].started
    BY <1>0, <1>4 DEF Enter, FileObject
  <2>5. QED BY <1>4, <2>1, <2>2, <2>3, <2>4 DEF ExitOK
<1>5. CASE MainStarts
  <2>1. mainFile \in File
    BY <1>5 DEF MainStarts, IInv, MainOK, TypeOK
  <2>2. QED BY <1>4, <1>5, <2>1 DEF MainStarts
<1>6. ASSUME NEW f \in File, StartImage(f)
      PROVE  ExitOK'
  BY <1>4, <1>6 DEF StartImage
<1>7. ASSUME NEW f \in File, StartRunning(f)
      PROVE  ExitOK'
  <2> DEFINE fs == [files EXCEPT ![f].old = handler]
  <2>1. \A g \in File : fs[g].exit = files[g].exit /\ fs[g].started = files[g].started
    BY <1>0 DEF FileObject
  <2>2. /\ (files' = fs /\ misfreed' = FALSE) \/ fs[f].exit # "null"
        /\ UNCHANGED running /\ restarted \subseteq restarted' /\ Free(f)
    BY <1>7 DEF StartRunning, GiveExitData
  <2> HIDE DEF fs
  <2>3. QED BY <2>1, <2>2 DEF ExitOK
<1>8. CASE LoadEnds \/ NotifyReturns \/ \E l \in Levels : NotifyBegins(l)
  BY <1>1, <1>8 DEF LoadEnds, NotifyReturns, NotifyBegins
<1>9. ASSUME NEW d, NEW fs \in [File -> FileObject], NEW bad \in BOOLEAN,
             running # <<>>, d = files[Innermost].jmp,
             \A g \in File : /\ fs[g].started = files[g].started
                             /\ g # Innermost => fs[g].exit = files[g].exit,
             \/ bad = FALSE /\ fs[Innermost].exit \in {"own", files[Innermost].exit}
             \/ files[Innermost].exit # "null",
             Finish(d, fs, bad)
      PROVE  ExitOK'
  <2>1. /\ m \in Nat \ {0} /\ Innermost = running[m] /\ Innermost \in File
        /\ stack[d].file = Innermost /\ running' = SubSeq(running, 1, m - 1)
        /\ \A i \in 1 .. m - 1 : running[i] # Innermost
    BY <1>9, LeaveFacts DEF Finish
  <2>2. /\ DOMAIN running' = 1 .. m - 1 /\ Len(running') = m - 1
        /\ \A i \in 1 .. m - 1 : running'[i] = running[i]
    BY <1>0, <2>1, PrefixFacts
  <2>3. Free(Innermost) /\ files[Innermost].started
    BY <1>0, <2>1 DEF Contains
  <2> HIDE DEF m
  <2>4. /\ ~Contains(running', Innermost)
        /\ \A g \in File : Contains(running, g)' => Contains(running, g)
    BY <1>0, <2>1, <2>2 DEF Contains
  <2>5. \/ files' = fs /\ misfreed' = bad
        \/ /\ fs[Innermost].exit # "null"
           /\ files' = [fs EXCEPT ![Innermost].exit = "given"]
           /\ misfreed' = (bad \/ fs[Innermost].exit # "own")
    BY <1>9, <2>1 DEF Finish, GiveExitData
  <2>6. \A g \in File : /\ files'[g].started = files[g].started
                        /\ g # Innermost => files'[g].exit = files[g].exit
    <3>1. \A g \in File : /\ fs[g].started = files[g].started
                          /\ g # Innermost => fs[g].exit = files[g].exit
      BY <1>9
    <3>2. CASE files' = fs
      BY <3>1, <3>2
    <3>3. CASE files' = [fs EXCEPT ![Innermost].exit = "given"]
      BY <2>1, <3>1, <3>3 DEF FileObject
    <3>4. QED BY <2>5, <3>2, <3>3
  <2>7. restarted' = restarted
    BY <1>9 DEF Finish
  <2>8. ASSUME "ended" \notin restarted
        PROVE  ~misfreed'
    <3>1. files[Innermost].exit = "null"
      BY <2>1, <2>3, <2>8 DEF ExitOK
    <3>2. QED BY <1>9, <2>5, <3>1
  <2>9. QED BY <2>3, <2>4, <2>6, <2>7, <2>8 DEF ExitOK
<1>10. CASE EntryReturns
  <2>1. running # <<>> /\ files[Innermost].jmp = Len(stack)
    BY <1>10, TopIsInnermost DEF EntryReturns
  <2>2. Finish(files[Innermost].jmp, files, FALSE)
    BY <1>10, <2>1 DEF EntryReturns
  <2>3. files[Innermost].exit \in {"own", files[Innermost].exit}
    OBVIOUS
  <2>4. QED BY <1>0, <1>9, <2>1, <2>2, <2>3
<1>11. ASSUME NEW withData \in BOOLEAN, Exit(withData)
       PROVE  ExitOK'
  <2> DEFINE fs == IF withData THEN [files EXCEPT ![Innermost].exit = "own"] ELSE files
             bad == withData /\ files[Innermost].exit \notin {"null", "own"}
  <2>1. running # <<>> /\ Finish(files[Innermost].jmp, fs, bad)
    BY <1>11 DEF Exit, Innermost
  <2>2. Innermost \in File
    BY <1>0, <2>1, FrontFacts DEF Innermost
  <2>3. fs \in [File -> FileObject] /\ bad \in BOOLEAN
    <3>1. files \in [File -> FileObject] /\ files[Innermost] \in FileObject
      BY <1>0, <2>2
    <3>2. [files[Innermost] EXCEPT !.exit = "own"] \in FileObject
      BY <3>1 DEF FileObject
    <3>3. [files EXCEPT ![Innermost].exit = "own"] \in [File -> FileObject]
      BY <3>1, <3>2
    <3>4. QED BY <3>1, <3>3
  <2>4. \A g \in File : /\ fs[g].started = files[g].started
                        /\ g # Innermost => fs[g].exit = files[g].exit
    BY <1>0, <2>2 DEF FileObject
  <2>5. fs[Innermost].exit \in {"own", files[Innermost].exit}
    BY <1>0, <2>2 DEF FileObject
  <2>6. bad = FALSE \/ files[Innermost].exit # "null"
    OBVIOUS
  <2> HIDE DEF fs, bad
  <2>7. QED BY <1>9, <2>1, <2>3, <2>4, <2>5, <2>6
<1>12. ASSUME NEW f \in File, FreeExitData(f)
       PROVE  ExitOK'
  <2>1. /\ files' = [files EXCEPT ![f].exit = "freed"] /\ files[f].exit # "null"
        /\ UNCHANGED <<running, misfreed, restarted>>
    BY <1>12 DEF FreeExitData
  <2>2. \A g \in File : /\ files'[g].started = files[g].started
                        /\ g # f => files'[g].exit = files[g].exit
    BY <1>0, <2>1 DEF FileObject
  <2>3. QED BY <2>1, <2>2 DEF ExitOK
<1>13. CASE MainReturns \/ Fault \/ RaiseAgain \/ HandlerReturns \/ Over \/ UNCHANGED vars
  BY <1>1, <1>13 DEF MainReturns, Fault, RaiseAgain, HandlerReturns, Over, vars
<1>14. QED
  BY <1>2, <1>3, <1>5, <1>6, <1>7, <1>8, <1>10, <1>11, <1>12, <1>13 DEF Next

\* No exit data are freed, or given to a caller, twice, as long as no image is
\* started again after its end.
THEOREM ExitDataFreedOnce == Spec => []ExitDataSafe
<1>1. Init => ExitOK
  BY DEF Init, ExitOK, NewFile
<1>2. IInv /\ ExitOK /\ [Next]_vars => ExitOK'
  BY ExitStep
<1>3. ExitOK => ExitDataSafe
  BY DEF ExitOK, ExitDataSafe
<1>4. QED BY <1>1, <1>2, <1>3, StackInvariant, PTL DEF Spec

-----------------------------------------------------------------------------
(* The command line *)

LEMMA ArgumentsStep ==
  ASSUME IInv, ArgumentsOK, [Next]_vars
  PROVE  ArgumentsOK'
<1> USE DEF mainVars, imageVars, signalVars
<1>0. /\ TypeOK /\ MainOK /\ files \in [File -> FileObject] /\ created \in 0 .. MaxFiles
      /\ MaxFiles \in Nat /\ stack \in Seq(Frame) /\ Len(stack) \in Nat
      /\ DOMAIN stack = 1 .. Len(stack) /\ (stack # <<>> <=> Len(stack) > 0)
      /\ arguments \in Seq(Quality) /\ DOMAIN arguments = 1 .. Len(arguments)
      /\ Len(arguments) \in Nat /\ position \in 1 .. Len(arguments) + 1
  BY BoundAssumption, CommandAssumption, LenProperties, EmptySeq DEF IInv, TypeOK
<1>1. ASSUME UNCHANGED mainVars, main = "running", end' \in {end, "core", "quit"},
             stack' # <<>> => stack # <<>> /\ stack'[1] = stack[1]
      PROVE  ArgumentsOK'
  BY <1>1 DEF ArgumentsOK
<1>2. ASSUME UNCHANGED mainVars, UNCHANGED <<files, stack>>,
             end' \in {end, "core", "quit"}
      PROVE  ArgumentsOK'
  BY <1>2 DEF ArgumentsOK
<1>3. ASSUME stack # <<>>, NEW fr \in Frame, stack' = Append(stack, fr)
      PROVE  main = "running" /\ stack'[1] = stack[1]
  BY <1>0, <1>3, AppendFacts DEF MainOK, TypeOK
<1>4. CASE MainLoads
  <2> DEFINE f == FileToLoad
             fs == IF f > created THEN [files EXCEPT ![f] = NewFile] ELSE files
             opened == arguments[position] # "missing" /\ ~fs[f].data
             filled == [fs EXCEPT ![f].data = @ \/ opened]
             Malformed(n) == \E j \in 1 .. n - 1 : arguments[j] = "malformed"
  <2>1. f \in File /\ (f > created => f = created + 1)
    BY <1>0, <1>4 DEF MainLoads, FileToLoad, TypeOK, File, NoFile, MainOK
  <2>2. /\ main = "next" /\ stack = <<>> /\ position \in 1 .. Len(arguments)
        /\ UNCHANGED <<arguments, ran, end>> /\ mainFile' = f /\ end = "no"
    BY <1>0, <1>4 DEF MainLoads, MainOK, Alive
  <2>3. fs \in [File -> FileObject]
    BY <1>0, <2>1, FrameTypes
  <2>4. fs[f].data => Malformed(position)
    <3>1. CASE f > created
      BY <1>0, <2>1, <3>1 DEF NewFile
    <3>2. CASE ~(f > created)
      <4>1. mainFile # NoFile /\ f = mainFile /\ fs = files
        BY <1>0, <2>1, <3>2 DEF FileToLoad
      <4>2. QED BY <2>2, <4>1 DEF ArgumentsOK
    <3>3. QED BY <3>1, <3>2
  <2>5. CASE opened /\ arguments[position] = "good"
    <3>1. /\ stack' = Append(stack, LoadFrame(f)) /\ main' = "running"
          /\ position' = position
      BY <1>4, <2>5 DEF MainLoads, GetImageHandle
    <3>2. LoadFrame(f) \in Frame /\ LoadFrame(f).kind = "load"
      BY <1>0, <2>1, FrameTypes DEF LoadFrame
    <3>3. stack'[1] = LoadFrame(f)
      BY <1>0, <2>2, <3>1, <3>2, AppendFacts
    <3>4. QED BY <2>2, <3>1, <3>2, <3>3 DEF ArgumentsOK
  <2>6. CASE ~(opened /\ arguments[position] = "good")
    <3>1. files' = filled /\ position' = position + 1 /\ stack' = stack /\ main' = main
      BY <1>4, <2>6 DEF MainLoads
    <3>2. filled[f].data => Malformed(position + 1)
      <4>1. filled[f].data = (fs[f].data \/ opened)
        BY <2>1, <2>3 DEF FileObject
      <4>2. CASE fs[f].data
        BY <1>0, <2>2, <2>4, <4>2
      <4>3. CASE opened
        <5>1. arguments[position] = "malformed"
          BY <1>0, <2>2, <2>6, <4>3 DEF Quality
        <5>2. position \in 1 .. position + 1 - 1
          BY <2>2
        <5>3. QED BY <5>1, <5>2
      <4>4. QED BY <4>1, <4>2, <4>3
    <3>3. ASSUME NEW i \in DOMAIN arguments, i < position + 1, arguments[i] = "good"
          PROVE  i \in ran \/ Malformed(i)
      <4>1. CASE i < position
        BY <3>3, <4>1 DEF ArgumentsOK
      <4>2. CASE i = position
        BY <2>4, <2>6, <3>3, <4>2
      <4>3. QED BY <1>0, <3>3, <4>1, <4>2
    <3> HIDE DEF f, fs, opened, filled
    <3>4. QED BY <2>2, <3>1, <3>2, <3>3 DEF ArgumentsOK
  <2>7. QED BY <2>5, <2>6
<1>5. CASE LoadImage
  <2>1. created' \in File
    BY <1>0, <1>5 DEF LoadImage, File
  <2>2. LoadFrame(created') \in Frame /\ stack' = Append(stack, LoadFrame(created'))
    BY <1>0, <1>5, <2>1, FrameTypes DEF LoadImage, GetImageHandle
  <2>3. stack # <<>> /\ UNCHANGED mainVars /\ end' = end
    BY <1>5 DEF LoadImage, ClientRuns, TopIs
  <2>4. QED BY <1>1, <1>3, <2>2, <2>3
<1>6. CASE MainStarts
  <2>1. /\ ran' = ran \cup {position} /\ main = "running"
        /\ UNCHANGED <<arguments, position, mainFile, main, end>>
    BY <1>6 DEF MainStarts
  <2>2. QED BY <2>1 DEF ArgumentsOK
<1>7. ASSUME NEW f \in File, StartImage(f)
      PROVE  ArgumentsOK'
  <2>1. ImageFrame(f) \in Frame /\ stack' = Append(stack, ImageFrame(f))
    BY <1>0, <1>7, FrameTypes DEF StartImage, Enter
  <2>2. stack # <<>> /\ UNCHANGED mainVars /\ end' = end
    BY <1>7 DEF StartImage, ClientRuns, TopIs
  <2>3. QED BY <1>1, <1>3, <2>1, <2>2
<1>8. ASSUME NEW f \in File, StartRunning(f) \/ FreeExitData(f)
      PROVE  ArgumentsOK'
  <2>1. stack # <<>> /\ UNCHANGED mainVars /\ end' = end /\ stack' = stack
    BY <1>8 DEF StartRunning, FreeExitData, ClientRuns, TopIs
  <2>2. QED BY <1>0, <1>1, <2>1 DEF MainOK, TypeOK
<1>9. CASE LoadEnds \/ NotifyReturns
  <2>1. stack # <<>> /\ UNCHANGED mainVars /\ end' = end /\ stack' = Front(stack)
    BY <1>9 DEF LoadEnds, NotifyReturns, TopIs
  <2>2. Front(stack) # <<>> => Front(stack)[1] = stack[1]
    <3>1. /\ Front(stack) \in Seq(Frame) /\ DOMAIN Front(stack) = 1 .. Len(stack) - 1
          /\ \A i \in 1 .. Len(stack) - 1 : Front(stack)[i] = stack[i]
      BY <1>0, <2>1, FrontFacts
    <3>2. Front(stack) # <<>> => 1 \in DOMAIN Front(stack)
      BY <3>1, LenProperties, EmptySeq
    <3>3. QED BY <3>1, <3>2
  <2>3. QED BY <1>0, <1>1, <2>1, <2>2 DEF MainOK, TypeOK
<1>10. ASSUME NEW d, NEW fs, NEW bad, running # <<>>, d = files[Innermost].jmp,
              Finish(d, fs, bad)
       PROVE  ArgumentsOK'
  <2>1. /\ d \in 1 .. Len(stack) /\ stack[d].kind = "image"
        /\ stack' = SubSeq(stack, 1, d - 1)
    BY <1>10, LeaveFacts DEF Finish
  <2>2. d - 1 \in 0 .. Len(stack) /\ stack # <<>> /\ main = "running"
    BY <1>0, <2>1 DEF MainOK, TypeOK
  <2>3. CASE d = 1 /\ BackInMain
    <3>1. stack' = <<>>
      BY <1>0, <2>1, <2>3, SubSeqEmpty
    <3>2. /\ position' = position + 1 /\ mainFile' = NoFile
          /\ UNCHANGED <<arguments, ran, end>>
      BY <1>10, <2>3 DEF Finish, BackInMain
    <3>3. position \in ran
      BY <2>1, <2>2, <2>3 DEF ArgumentsOK
    <3>4. ASSUME NEW i \in DOMAIN arguments, i < position + 1, arguments[i] = "good"
          PROVE  i \in ran \/ \E j \in 1 .. i - 1 : arguments[j] = "malformed"
      <4>1. CASE i < position
        BY <3>4, <4>1 DEF ArgumentsOK
      <4>2. CASE i = position
        BY <3>3, <4>2
      <4>3. QED BY <1>0, <3>4, <4>1, <4>2
    <3>5. end = "done" => position + 1 > Len(arguments)
      BY <1>0 DEF ArgumentsOK
    <3>6. QED BY <3>1, <3>2, <3>4, <3>5 DEF ArgumentsOK
  <2>4. CASE UNCHANGED mainVars
    <3>1. /\ stack' \in Seq(Frame) /\ DOMAIN stack' = 1 .. d - 1 /\ Len(stack') = d - 1
          /\ \A i \in 1 .. d - 1 : stack'[i] = stack[i]
      BY <1>0, <2>1, <2>2, PrefixFacts
    <3>2. stack' # <<>> => 1 \in DOMAIN stack'
      <4>1. stack' # <<>> => Len(stack') # 0
        BY <3>1, EmptySeq
      <4>2. QED BY <2>2, <3>1, <4>1
    <3>3. end' = end
      BY <1>10 DEF Finish
    <3>4. QED BY <1>1, <2>2, <2>4, <3>1, <3>2, <3>3
  <2>5. QED BY <1>10, <2>3, <2>4 DEF Finish
<1>11. CASE EntryReturns
  <2>1. running # <<>> /\ files[Innermost].jmp = Len(stack)
    BY <1>11, TopIsInnermost DEF EntryReturns
  <2>2. QED BY <1>10, <1>11, <2>1 DEF EntryReturns
<1>12. ASSUME NEW withData \in BOOLEAN, Exit(withData)
       PROVE  ArgumentsOK'
  <2>1. running # <<>>
    BY <1>12 DEF Exit, Innermost
  <2>2. QED BY <1>10, <1>12, <2>1 DEF Exit
<1>13. ASSUME NEW l \in Levels, NotifyBegins(l)
       PROVE  ArgumentsOK'
  <2>1. NotifyFrame(l) \in Frame /\ stack' = Append(stack, NotifyFrame(l))
    BY <1>0, <1>13, FrameTypes DEF NotifyBegins
  <2>2. stack # <<>> /\ UNCHANGED mainVars /\ end' = end
    BY <1>13 DEF NotifyBegins
  <2>3. QED BY <1>1, <1>3, <2>1, <2>2
<1>14. CASE MainReturns
  BY <1>0, <1>14 DEF MainReturns, ArgumentsOK
<1>15. CASE Fault \/ RaiseAgain \/ HandlerReturns \/ Over \/ UNCHANGED vars
  BY <1>2, <1>15 DEF Fault, RaiseAgain, HandlerReturns, Deliver, Over, vars
<1>16. QED
  BY <1>4, <1>5, <1>6, <1>7, <1>8, <1>9, <1>11, <1>12, <1>13, <1>14, <1>15 DEF Next

\* Every program of the command line that no malformed file precedes has run
\* when main returns.
THEOREM ProgramsRun == Spec => []ArgumentsRun
<1>1. Init => ArgumentsOK
  BY CommandAssumption, LenProperties, EmptySeq DEF Init, ArgumentsOK
<1>2. IInv /\ ArgumentsOK /\ [Next]_vars => ArgumentsOK'
  BY ArgumentsStep
<1>3. IInv /\ ArgumentsOK => ArgumentsRun
  <2>1. IInv => arguments \in Seq(Quality) /\ position \in Nat
    BY CommandAssumption, LenProperties DEF IInv, TypeOK
  <2>2. QED BY <2>1, LenProperties DEF ArgumentsOK, ArgumentsRun
<1>4. QED BY <1>1, <1>2, <1>3, StackInvariant, PTL DEF Spec

-----------------------------------------------------------------------------
(* The headers of a file that is loaded *)

\* What the headers of a file say, whatever its bytes are
HeaderRecords ==
  [length : Nat, pe : Nat, opt : Nat, kind : STRING, sections : Nat, table : Nat, symbols : Nat,
   signature : BOOLEAN, machine : BOOLEAN, executable : BOOLEAN]

\* A part of a file lies in it if it ends in it.
LEMMA BytesInside ==
  ASSUME NEW at \in Nat, NEW size \in Nat, NEW length \in Nat
  PROVE  Bytes(at, size) \subseteq 0..(length - 1) <=> size = 0 \/ at + size <= length
<1>1. CASE size = 0
  BY <1>1 DEF Bytes
<1>2. CASE size # 0
  <2>1. Bytes(at, size) = at..(at + size - 1)
    BY <1>2 DEF Bytes
  <2>2. ASSUME at + size <= length PROVE Bytes(at, size) \subseteq 0..(length - 1)
    BY <2>1, <2>2
  <2>3. ASSUME Bytes(at, size) \subseteq 0..(length - 1) PROVE at + size <= length
    <3>1. at + size - 1 \in at..(at + size - 1)
      BY <1>2
    <3>2. at + size - 1 \in 0..(length - 1)
      BY <2>1, <2>3, <3>1
    <3>3. QED BY <3>2
  <2>4. QED BY <1>2, <2>2, <2>3
<1>3. QED BY <1>1, <1>2

\* What LoadByData tells of an image
LEMMA LoadedIs ==
  ASSUME NEW a, NEW b
  PROVE  [file |-> a, loaded |-> b].loaded = b
OBVIOUS

\* For every file, of any size and whatever its headers say: the parser accepts a file
\* only if all that is read of it lies in it and its optional header is complete, it
\* accepts every such file that goes on behind its section headers, and a file is loaded
\* once (parser.c:19-100, file.c:36-60).
THEOREM HeadersAlwaysSound == \A f \in HeaderRecords : HeadersSound(f)
<1> SUFFICES ASSUME NEW f \in HeaderRecords PROVE HeadersSound(f)
  OBVIOUS
<1> DEFINE inside == ReadOf(f) \subseteq 0..(f.length - 1)
           complete == \/ f.kind = "PE32" /\ f.opt \in Least32..Most32
                       \/ f.kind = "PE32+" /\ f.opt \in Least64..Most64
           once == LoadByData("empty", f, TRUE)
<1>1. /\ f.length \in Nat /\ f.pe \in Nat /\ f.opt \in Nat /\ f.sections \in Nat
      /\ f.table \in Nat /\ f.symbols \in Nat
      /\ OptAt(f) = f.pe + 24 /\ SectionsAt(f) = f.pe + 24 + f.opt
      /\ SectionsEnd(f) = f.pe + 24 + f.opt + f.sections * 40
  BY DEF HeaderRecords, OptAt, SectionsAt, SectionsEnd, FileHeader, SectionHeader
<1>2. Least32 = 96 /\ Least64 = 112 /\ Most32 = 224 /\ Most64 = 240 /\ Largest = 240 /\ Common = 24
  BY DEF Least32, Least64, Most32, Most64, Largest, Common, Directories
<1>3. inside <=> /\ 64 <= f.length
                 /\ f.pe + 24 <= f.length
                 /\ f.opt = 0 \/ f.pe + 24 + f.opt <= f.length
                 /\ f.sections = 0 \/ f.pe + 24 + f.opt + f.sections * 40 <= f.length
                 /\ HasSymbols(f) => f.table + f.symbols * 18 <= f.length
  <2>1. Bytes(60, 4) \subseteq 0..(f.length - 1) <=> 64 <= f.length
    BY <1>1, BytesInside
  <2>2. Bytes(f.pe, FileHeader) \subseteq 0..(f.length - 1) <=> f.pe + 24 <= f.length
    <3>1. FileHeader \in Nat /\ FileHeader = 24
      BY DEF FileHeader
    <3>2. Bytes(f.pe, FileHeader) \subseteq 0..(f.length - 1)
            <=> FileHeader = 0 \/ f.pe + FileHeader <= f.length
      BY <1>1, <3>1, BytesInside
    <3>3. QED BY <3>1, <3>2
  <2>3. Bytes(OptAt(f), f.opt) \subseteq 0..(f.length - 1) <=> f.opt = 0 \/ f.pe + 24 + f.opt <= f.length
    <3>1. OptAt(f) \in Nat
      BY <1>1
    <3>2. Bytes(OptAt(f), f.opt) \subseteq 0..(f.length - 1) <=> f.opt = 0 \/ OptAt(f) + f.opt <= f.length
      BY <1>1, <3>1, BytesInside
    <3>3. QED BY <1>1, <3>2
  <2>4. Bytes(SectionsAt(f), f.sections * SectionHeader) \subseteq 0..(f.length - 1)
          <=> f.sections = 0 \/ f.pe + 24 + f.opt + f.sections * 40 <= f.length
    <3>1. SectionsAt(f) \in Nat /\ f.sections * SectionHeader \in Nat
          /\ f.sections * SectionHeader = f.sections * 40
      BY <1>1 DEF SectionHeader
    <3>2. Bytes(SectionsAt(f), f.sections * SectionHeader) \subseteq 0..(f.length - 1)
            <=> \/ f.sections * SectionHeader = 0
                \/ SectionsAt(f) + f.sections * SectionHeader <= f.length
      BY <1>1, <3>1, BytesInside
    <3>3. f.sections * SectionHeader = 0 <=> f.sections = 0
      BY <1>1 DEF SectionHeader
    <3>4. QED BY <1>1, <3>1, <3>2, <3>3
  <2>5. HasSymbols(f) =>
          (Bytes(f.table, f.symbols * Symbol) \subseteq 0..(f.length - 1)
             <=> f.table + f.symbols * 18 <= f.length)
    <3>1. f.symbols * Symbol \in Nat /\ f.symbols * Symbol = f.symbols * 18
      BY <1>1 DEF Symbol
    <3>2. HasSymbols(f) => f.symbols * Symbol # 0
      BY <1>1 DEF Symbol, HasSymbols
    <3>3. QED BY <1>1, <3>1, <3>2, BytesInside
  <2>6. ReadOf(f) \subseteq 0..(f.length - 1)
          <=> /\ Bytes(60, 4) \subseteq 0..(f.length - 1)
              /\ Bytes(f.pe, FileHeader) \subseteq 0..(f.length - 1)
              /\ Bytes(OptAt(f), f.opt) \subseteq 0..(f.length - 1)
              /\ Bytes(SectionsAt(f), f.sections * SectionHeader) \subseteq 0..(f.length - 1)
              /\ HasSymbols(f) => Bytes(f.table, f.symbols * Symbol) \subseteq 0..(f.length - 1)
    BY DEF ReadOf
  <2>7. QED BY <2>1, <2>2, <2>3, <2>4, <2>5, <2>6
<1>4. once.loaded <=> f.length > 64 /\ Parse(f)
  <2>1. f.length > 64 <=> ~(f.length <= 64)
    BY <1>1
  <2>2. CASE f.length <= 64
    <3>1. once = [file |-> "empty", loaded |-> FALSE]
      BY <2>2 DEF LoadByData
    <3>2. once.loaded = FALSE
      BY <3>1, LoadedIs, Zenon
    <3>3. QED BY <2>1, <2>2, <3>2, Zenon
  <2>3. CASE ~(f.length <= 64)
    <3>1. once = [file |-> "filled", loaded |-> Parse(f) /\ TRUE]
      BY <2>3 DEF LoadByData
    <3>2. once.loaded = (Parse(f) /\ TRUE)
      BY <3>1, LoadedIs, Zenon
    <3>3. QED BY <2>1, <2>3, <3>2, Zenon
  <2>4. QED BY <2>2, <2>3
<1>5. Parse(f) <=> /\ f.pe + 24 < f.length /\ f.signature /\ f.machine /\ f.executable
                   /\ f.pe + 24 + f.opt < f.length /\ complete
                   /\ f.pe + 24 + f.opt + f.sections * 40 < f.length
                   /\ HasSymbols(f) => f.table + f.symbols * 18 <= f.length
  <2>1. complete => f.opt > Common /\ f.opt <= Largest
    BY <1>1, <1>2
  <2>2. QED BY <1>1, <2>1 DEF Parse, LoadFileHeader, LoadOptHeader, LoadSectionHeaders, LoadSymbols, Symbol
<1>8. once.file = "filled" => ~LoadByData(once.file, f, TRUE).loaded
  BY DEF LoadByData
<1>9. HeadersSound(f) <=> /\ once.loaded => inside /\ complete
                          /\ inside /\ complete /\ f.signature /\ f.machine /\ f.executable
                               /\ SectionsEnd(f) < f.length => once.loaded
                          /\ once.file = "filled" => ~LoadByData(once.file, f, TRUE).loaded
  BY Zenon DEF HeadersSound
<1>10. complete => f.opt >= 96 /\ f.opt \in Nat
  BY <1>1, <1>2
<1> HIDE DEF inside, complete, once
<1>6. once.loaded => inside /\ complete
  BY <1>1, <1>3, <1>4, <1>5
<1>7. inside /\ complete /\ f.signature /\ f.machine /\ f.executable /\ SectionsEnd(f) < f.length
        => once.loaded
  BY <1>1, <1>3, <1>4, <1>5, <1>10
<1>11. QED BY <1>6, <1>7, <1>8, <1>9

-----------------------------------------------------------------------------
(* The emulated registers *)

\* What the program last asked for is what the context keeps, or would make first.
RegistersInv ==
  /\ asked = Current
  /\ DOMAIN asked = Registers
  /\ asked["currentel"] = 4
  /\ fake # NotMade /\ ~crashed => pc = 4

\* A system register is given a value in both places.
LEMMA RegisterSet ==
  ASSUME RegistersInv, NEW r \in Registers, r # "currentel", NEW v,
         Handled([Current EXCEPT ![r] = v]), asked' = [asked EXCEPT ![r] = v]
  PROVE  RegistersInv'
<1>1. fake' = [Current EXCEPT ![r] = v] /\ pc' = 4 /\ "currentel" \in Registers
  BY DEF Handled, Registers, ReadOnly
<1>2. asked' = fake'
  BY <1>1 DEF RegistersInv
<1>3. DOMAIN asked' = Registers /\ asked'["currentel"] = 4
  BY <1>1 DEF RegistersInv
<1>4. fake' # NotMade
  <2>1. DOMAIN NotMade = {}
    BY DEF NotMade
  <2>2. QED BY <1>1, <1>2, <1>3, <2>1
<1>5. Current' = fake'
  BY <1>4 DEF Current
<1>6. QED BY <1>1, <1>2, <1>3, <1>5 DEF RegistersInv

\* An instruction that is handled or not leaves the registers as they were.
LEMMA RegistersStay ==
  ASSUME RegistersInv, fake' = Current, asked' = asked, crashed' = TRUE \/ pc' = 4
  PROVE  RegistersInv'
<1>1. fake' = asked'
  BY DEF RegistersInv
<1>2. DOMAIN NotMade = {} /\ Registers # {}
  BY DEF NotMade, Registers, ReadOnly
<1>3. fake' # NotMade
  BY <1>1, <1>2 DEF RegistersInv
<1>4. Current' = fake'
  BY <1>3 DEF Current
<1>5. QED BY <1>1, <1>4 DEF RegistersInv

\* For every set of instructions, of general registers and of their values: an emulated
\* register reads as what the program last made it, through whatever instruction, the
\* exception level stays the one it was told first, and the program goes on only behind
\* an instruction that had its effect (fake_ins_aarch64.c:82-143).
THEOREM RegistersAlwaysKept == FakeSpec => []RegistersKept
<1>1. FakeInit => RegistersInv
  BY DEF FakeInit, RegistersInv, Current, Fresh, Registers, ReadOnly, NotMade
<1>2. RegistersInv /\ [FakeNext]_fakeVars => RegistersInv'
  <2> SUFFICES ASSUME RegistersInv, [FakeNext]_fakeVars PROVE RegistersInv'
    OBVIOUS
  <2>1. CASE UNCHANGED fakeVars
    BY <2>1 DEF fakeVars, RegistersInv, Current, NotMade
  <2>2. ASSUME NEW ins \in Instructions, Execute(ins) PROVE RegistersInv'
    <3>1. /\ "daif" \in Registers /\ "par_el1" \in Registers
          /\ WriteOnly \cup Both \subseteq Registers /\ "currentel" \notin WriteOnly \cup Both
      BY DEF Registers, WriteOnly, ReadOnly, Both
    <3>2. ASSUME Crash PROVE RegistersInv'
      BY <3>2, RegistersStay DEF Crash
    <3>3. CASE MaskInterrupts(ins)
      BY <3>1, <3>3, RegisterSet DEF MaskInterrupts, RegistersInv
    <3>4. CASE MoveToSystem(ins)
      BY <3>1, <3>2, <3>4, RegisterSet DEF MoveToSystem
    <3>5. CASE MoveFromSystem(ins)
      BY <3>2, <3>5, RegistersStay DEF MoveFromSystem, Handled
    <3>6. CASE Maintain(ins)
      BY <3>1, <3>2, <3>6, RegisterSet DEF Maintain
    <3>7. CASE Other(ins)
      BY <3>2, <3>7 DEF Other
    <3>8. QED BY <2>2, <3>3, <3>4, <3>5, <3>6, <3>7 DEF Execute
  <2>3. QED BY <2>1, <2>2 DEF FakeNext
<1>3. RegistersInv => RegistersKept
  BY DEF RegistersInv, RegistersKept, Current
<1>4. QED BY <1>1, <1>2, <1>3, PTL DEF FakeSpec

-----------------------------------------------------------------------------
(* Lists: chains of nodes and the walks along them *)

\* struct list: the pointers of every node
LinksType == [prev : [Nodes -> Nodes \cup {NIL}], next : [Nodes -> Nodes \cup {NIL}]]

\* c holds, in their order, the nodes of a list of h.
IsChain(h, c) ==
  /\ c \in Seq(Nodes)
  /\ \A i, j \in 1..Len(c) : c[i] = c[j] => i = j
  /\ \A i \in 1..Len(c) : h.next[c[i]] = IF i = Len(c) THEN NIL ELSE c[i + 1]
  /\ \A i \in 1..Len(c) : h.prev[c[i]] = IF i = 1 THEN NIL ELSE c[i - 1]

\* The nodes a walk through f meets, Members for a walk from the first node.
MetBy(f, p) ==
  LET at == Chase(f, p)
  IN {at[i] : i \in DOMAIN at} \ {NIL}

\* A function on 1..m is a sequence of length m.
LEMMA FunctionIsSequence ==
  ASSUME NEW S, NEW m \in Nat, NEW d \in [1..m -> S]
  PROVE  d \in Seq(S) /\ Len(d) = m
<1>1. d \in Seq(S)
  <2>1. \E n \in Nat : d \in [1..n -> S]
    OBVIOUS
  <2>2. d \in UNION {[1..n -> S] : n \in Nat}
    BY ONLY <2>1
  <2>3. QED BY ONLY <2>2, SeqDef
<1>2. 1..Len(d) = 1..m /\ Len(d) \in Nat
  BY <1>1, LenProperties
<1>3. (Len(d) > m => Len(d) \in 1..Len(d)) /\ (m > Len(d) => m \in 1..m)
  BY <1>2
<1>4. QED
  <2>1. ~(Len(d) > m)
    BY <1>2, <1>3
  <2>2. ~(m > Len(d))
    BY <1>2, <1>3
  <2>3. QED BY <1>1, <1>2, <2>1, <2>2

\* A chain is no longer than there are nodes.
LEMMA ChainLength ==
  ASSUME NEW c \in Seq(Nodes), \A i, j \in 1..Len(c) : c[i] = c[j] => i = j
  PROVE  Len(c) \in Nat /\ Cardinality(Nodes) \in Nat /\ Len(c) <= Cardinality(Nodes)
<1>1. Len(c) \in Nat /\ c \in [1..Len(c) -> Nodes]
  BY LenProperties
<1>2. c \in Injection(1..Len(c), Nodes)
  BY <1>1 DEF Injection, IsInjective
<1>3. IsFiniteSet(Nodes) /\ Cardinality(Nodes) \in Nat
  BY NodesAssumption, FS_CardinalityType
<1>4. Cardinality(1..Len(c)) <= Cardinality(Nodes)
  BY <1>2, <1>3, FS_Injection
<1>5. Cardinality(1..Len(c)) = Len(c)
  <2>1. Cardinality(1..Len(c)) = IF 1 > Len(c) THEN 0 ELSE Len(c) - 1 + 1
    BY <1>1, FS_Interval
  <2>2. QED BY <1>1, <2>1
<1>6. QED BY <1>1, <1>3, <1>4, <1>5

\* A walk through f that follows d: it is at d[i] until d ends, and NIL from there on.
LEMMA Chased ==
  ASSUME NEW f, NEW d \in Seq(Nodes), Len(d) >= 1,
         \A i \in 1..Len(d) : f[d[i]] = IF i = Len(d) THEN NIL ELSE d[i + 1]
  PROVE  Chase(f, d[1]) = [i \in 0..Cardinality(Nodes) |-> IF i < Len(d) THEN d[i + 1] ELSE NIL]
<1> DEFINE N == Cardinality(Nodes)
           walk == [i \in 0..N |-> IF i < Len(d) THEN d[i + 1] ELSE NIL]
           step(g) == [i \in 0..N |-> IF i = 0 THEN d[1] ELSE IF g[i - 1] = NIL THEN NIL ELSE f[g[i - 1]]]
<1>1. N \in Nat /\ Len(d) \in Nat /\ \A i \in 1..Len(d) : d[i] \in Nodes /\ d[i] # NIL
  BY NodesAssumption, FS_CardinalityType, LenProperties
<1>2. Chase(f, d[1]) = CHOOSE g : g = step(g)
  BY DEF Chase
<1>3. walk = step(walk)
  <2> SUFFICES ASSUME NEW i \in 0..N
               PROVE  walk[i] = (IF i = 0 THEN d[1] ELSE IF walk[i - 1] = NIL THEN NIL ELSE f[walk[i - 1]])
    OBVIOUS
  <2>1. CASE i = 0
    BY <1>1, <2>1
  <2>2. CASE i # 0 /\ i - 1 < Len(d)
    <3>1. i - 1 \in 0..N /\ i \in 1..Len(d) /\ walk[i - 1] = d[i]
      BY <1>1, <2>2
    <3>2. f[d[i]] = walk[i]
      BY <1>1, <3>1
    <3>3. QED BY <1>1, <2>2, <3>1, <3>2
  <2>3. CASE i # 0 /\ ~(i - 1 < Len(d))
    <3>1. i - 1 \in 0..N /\ ~(i < Len(d)) /\ walk[i - 1] = NIL
      BY <1>1, <2>3
    <3>2. QED BY <2>3, <3>1
  <2>4. QED BY <2>1, <2>2, <2>3
<1>4. ASSUME NEW g, g = step(g) PROVE g = walk
  <2> DEFINE S == {i \in Nat : i \in 0..N => g[i] = walk[i]}
  <2> HIDE DEF walk
  <2>1. \A i \in 0..N : g[i] = (IF i = 0 THEN d[1] ELSE IF g[i - 1] = NIL THEN NIL ELSE f[g[i - 1]])
    BY <1>4
  <2>2. \A i \in 0..N : walk[i] = (IF i = 0 THEN d[1] ELSE IF walk[i - 1] = NIL THEN NIL ELSE f[walk[i - 1]])
    BY <1>3
  <2>3. 0 \in S
    BY <1>1, <2>1, <2>2
  <2>4. ASSUME NEW i \in Nat, i \in S PROVE i + 1 \in S
    <3>1. SUFFICES ASSUME i + 1 \in 0..N PROVE g[i + 1] = walk[i + 1]
      OBVIOUS
    <3>2. i \in 0..N /\ (i + 1) - 1 = i /\ i + 1 # 0
      BY <1>1, <3>1
    <3>3. g[i] = walk[i]
      BY <2>4, <3>2
    <3>4. QED BY <2>1, <2>2, <3>1, <3>2, <3>3
  <2>5. Nat \subseteq S
    <3> HIDE DEF S
    <3> QED BY <2>3, <2>4, SetInduction
  <2>6. \A i \in 0..N : g[i] = walk[i]
    BY <2>5
  <2>7. g = [i \in 0..N |-> g[i]]
    BY <1>4
  <2>8. walk = [i \in 0..N |-> walk[i]]
    BY DEF walk
  <2>9. QED BY <2>6, <2>7, <2>8
<1>5. QED
  <2> HIDE DEF step, walk
  <2>1. (CHOOSE g : g = step(g)) = step(CHOOSE g : g = step(g))
    BY <1>3
  <2>2. (CHOOSE g : g = step(g)) = walk
    BY <1>4, <2>1
  <2>3. QED BY <1>2, <2>2 DEF walk

\* Such a walk ends at the last node of d and meets no other node.
LEMMA WalkEnds ==
  ASSUME NEW f, NEW d \in Seq(Nodes), Len(d) >= 1, Len(d) <= Cardinality(Nodes),
         \A i \in 1..Len(d) : f[d[i]] = IF i = Len(d) THEN NIL ELSE d[i + 1]
  PROVE  /\ EndOf(f, d[1]) = d[Len(d)]
         /\ MetBy(f, d[1]) = {d[i] : i \in 1..Len(d)}
<1> DEFINE N == Cardinality(Nodes)
           at == Chase(f, d[1])
<1>1. N \in Nat /\ Len(d) \in Nat /\ \A i \in 1..Len(d) : d[i] \in Nodes /\ d[i] # NIL
  BY NodesAssumption, FS_CardinalityType, LenProperties
<1>2. at = [i \in 0..N |-> IF i < Len(d) THEN d[i + 1] ELSE NIL]
  BY Chased
<1> HIDE DEF at
<1>3. {at[i] : i \in DOMAIN at} \ {NIL} = {d[i] : i \in 1..Len(d)}
  <2>1. DOMAIN at = 0..N
    BY <1>2
  <2>2. ASSUME NEW i \in 0..N, at[i] # NIL PROVE at[i] \in {d[j] : j \in 1..Len(d)}
    <3>1. i < Len(d) /\ at[i] = d[i + 1] /\ i + 1 \in 1..Len(d)
      BY <1>1, <1>2, <2>2
    <3>2. QED BY <3>1
  <2>3. ASSUME NEW j \in 1..Len(d) PROVE d[j] \in {at[i] : i \in 0..N} /\ d[j] # NIL
    <3>1. j - 1 \in 0..N /\ (j - 1) + 1 = j /\ j - 1 < Len(d)
      BY <1>1
    <3>2. at[j - 1] = d[j]
      BY <1>2, <3>1
    <3>3. QED BY <1>1, <3>1, <3>2
  <2>4. {at[i] : i \in DOMAIN at} \ {NIL} \subseteq {d[i] : i \in 1..Len(d)}
    BY <2>1, <2>2
  <2>5. {d[i] : i \in 1..Len(d)} \subseteq {at[i] : i \in DOMAIN at} \ {NIL}
    BY <2>1, <2>3
  <2>6. QED BY <2>4, <2>5
<1>4. {n \in {at[i] : i \in DOMAIN at} \ {NIL} : f[n] = NIL} = {d[Len(d)]}
  <2>1. \A i \in 1..Len(d) : f[d[i]] = NIL <=> i = Len(d)
    <3>1. \A i \in 1..Len(d) : i # Len(d) => i + 1 \in 1..Len(d)
      BY <1>1
    <3>2. QED BY <1>1, <3>1
  <2>2. Len(d) \in 1..Len(d)
    BY <1>1
  <2>3. QED BY <1>3, <2>1, <2>2, ZenonT(60)
<1>5. d[1] # NIL
  BY <1>1
<1>6. EndOf(f, d[1]) = d[Len(d)]
  BY <1>4, <1>5 DEF EndOf, at
<1>7. QED BY <1>3, <1>6 DEF at, MetBy

\* The nodes of a chain
Of(c) == {c[i] : i \in 1..Len(c)}

\* From every node of a chain the ends of the chain are found, and all its nodes.
LEMMA ChainWalked ==
  ASSUME NEW h, NEW c, IsChain(h, c), NEW k \in 1..Len(c)
  PROVE  /\ Len(c) \in Nat /\ Len(c) >= 1 /\ c[1] \in Nodes /\ c[1] # NIL
         /\ LastOf(h, c[k]) = c[Len(c)]
         /\ FirstOf(h, c[k]) = c[1]
         /\ Members(h, c[k]) = Of(c)
         /\ Items(h, c[k]) = c
<1>1. /\ Len(c) \in Nat /\ Len(c) <= Cardinality(Nodes) /\ Len(c) >= 1 /\ 1 \in 1..Len(c)
      /\ \A i \in 1..Len(c) : c[i] \in Nodes /\ c[i] # NIL
  BY ChainLength, NodesAssumption, LenProperties DEF IsChain
<1>2. LastOf(h, c[k]) = c[Len(c)]
  <2> DEFINE m == Len(c) - k + 1
             d == [i \in 1..m |-> c[k + i - 1]]
  <2>1. m \in Nat /\ m >= 1 /\ m <= Len(c) /\ \A i \in 1..m : k + i - 1 \in 1..Len(c)
    BY <1>1
  <2>2. d \in Seq(Nodes) /\ Len(d) = m
    <3>1. \A i \in 1..m : c[k + i - 1] \in Nodes
      BY <1>1, <2>1
    <3>2. d \in [1..m -> Nodes]
      BY <3>1
    <3> HIDE DEF d, m
    <3>3. QED BY <2>1, <3>2, FunctionIsSequence
  <2>3. ASSUME NEW i \in 1..m PROVE h.next[d[i]] = IF i = m THEN NIL ELSE d[i + 1]
    <3>1. k + i - 1 \in 1..Len(c) /\ (k + i - 1 = Len(c) <=> i = m) /\ k + i - 1 + 1 = k + (i + 1) - 1
      BY <1>1
    <3>2. i # m => i + 1 \in 1..m
      BY <2>1
    <3>3. h.next[c[k + i - 1]] = IF k + i - 1 = Len(c) THEN NIL ELSE c[k + i - 1 + 1]
      BY <3>1 DEF IsChain
    <3>4. d[i] = c[k + i - 1] /\ (i # m => d[i + 1] = c[k + (i + 1) - 1])
      BY <3>2
    <3> HIDE DEF m, d
    <3>5. QED BY <3>1, <3>3, <3>4
  <2>4. d[1] = c[k] /\ d[m] = c[Len(c)]
    <3>1. k + 1 - 1 = k /\ k + m - 1 = Len(c) /\ 1 \in 1..m /\ m \in 1..m
      BY <1>1
    <3>2. d[1] = c[k + 1 - 1] /\ d[m] = c[k + m - 1]
      BY <3>1
    <3>3. QED BY <3>1, <3>2
  <2> HIDE DEF d, m
  <2>5. Len(d) >= 1 /\ Len(d) <= Cardinality(Nodes)
    <3>1. Cardinality(Nodes) \in Nat
      BY NodesAssumption, FS_CardinalityType
    <3>2. QED BY <1>1, <2>1, <2>2, <3>1
  <2>6. EndOf(h.next, d[1]) = d[Len(d)]
    BY <2>2, <2>3, <2>5, WalkEnds
  <2>7. QED BY <2>2, <2>4, <2>6 DEF LastOf
<1>3. FirstOf(h, c[k]) = c[1]
  <2> DEFINE d == [i \in 1..k |-> c[k + 1 - i]]
  <2>1. k \in Nat /\ k >= 1 /\ k <= Len(c) /\ \A i \in 1..k : k + 1 - i \in 1..Len(c)
    BY <1>1
  <2>2. d \in Seq(Nodes) /\ Len(d) = k
    <3>1. \A i \in 1..k : c[k + 1 - i] \in Nodes
      BY <1>1, <2>1
    <3>2. d \in [1..k -> Nodes]
      BY <3>1
    <3> HIDE DEF d
    <3>3. QED BY <2>1, <3>2, FunctionIsSequence
  <2>3. ASSUME NEW i \in 1..k PROVE h.prev[d[i]] = IF i = k THEN NIL ELSE d[i + 1]
    <3>1. k + 1 - i \in 1..Len(c) /\ (k + 1 - i = 1 <=> i = k) /\ k + 1 - i - 1 = k + 1 - (i + 1)
      BY <1>1
    <3>2. i # k => i + 1 \in 1..k
      BY <2>1
    <3>3. h.prev[c[k + 1 - i]] = IF k + 1 - i = 1 THEN NIL ELSE c[k + 1 - i - 1]
      BY <3>1 DEF IsChain
    <3>4. d[i] = c[k + 1 - i] /\ (i # k => d[i + 1] = c[k + 1 - (i + 1)])
      BY <3>2
    <3> HIDE DEF d
    <3>5. QED BY <3>1, <3>3, <3>4
  <2>4. d[1] = c[k] /\ d[k] = c[1]
    <3>1. k + 1 - 1 = k /\ k + 1 - k = 1 /\ 1 \in 1..k /\ k \in 1..k
      BY <2>1
    <3>2. d[1] = c[k + 1 - 1] /\ d[k] = c[k + 1 - k]
      BY <3>1
    <3>3. QED BY <3>1, <3>2
  <2> HIDE DEF d
  <2>5. Len(d) >= 1 /\ Len(d) <= Cardinality(Nodes)
    <3>1. Cardinality(Nodes) \in Nat
      BY NodesAssumption, FS_CardinalityType
    <3>2. QED BY <1>1, <2>1, <2>2, <3>1
  <2>6. EndOf(h.prev, d[1]) = d[Len(d)]
    BY <2>2, <2>3, <2>5, WalkEnds
  <2>7. QED BY <2>2, <2>4, <2>6 DEF FirstOf
<1>4. Members(h, c[k]) = {c[i] : i \in 1..Len(c)}
  <2>1. MetBy(h.next, c[1]) = {c[i] : i \in 1..Len(c)}
    <3>1. c \in Seq(Nodes) /\ \A i \in 1..Len(c) : h.next[c[i]] = IF i = Len(c) THEN NIL ELSE c[i + 1]
      BY DEF IsChain
    <3>2. QED BY <1>1, <3>1, WalkEnds
  <2>2. c[k] # NIL
    BY <1>1
  <2>3. QED BY <1>3, <2>1, <2>2 DEF Members, MetBy
<1>5. Items(h, c[k]) = c
  <2>1. c \in Seq(Nodes) /\ IsInjective(c) /\ c = [i \in 1..Len(c) |-> c[i]] /\ ToSet(c) = {c[i] : i \in 1..Len(c)}
    BY LenProperties DEF IsChain, IsInjective, ToSet
  <2>2. Cardinality(Members(h, c[k])) = Len(c)
    BY <1>4, <2>1, EachOnce
  <2>3. Chase(h.next, c[1]) = [i \in 0..Cardinality(Nodes) |-> IF i < Len(c) THEN c[i + 1] ELSE NIL]
    <3>1. \A i \in 1..Len(c) : h.next[c[i]] = IF i = Len(c) THEN NIL ELSE c[i + 1]
      BY DEF IsChain
    <3>2. c \in Seq(Nodes) /\ Len(c) >= 1
      BY <1>1, <2>1
    <3>3. QED BY ONLY <3>1, <3>2, Chased
  <2>4. ASSUME NEW i \in 1..Len(c) PROVE Chase(h.next, c[1])[i - 1] = c[i]
    <3>1. i - 1 \in 0..Cardinality(Nodes) /\ i - 1 < Len(c) /\ (i - 1) + 1 = i
      BY <1>1, NodesAssumption, FS_CardinalityType
    <3>2. QED BY <2>3, <3>1
  <2>5. Items(h, c[k]) = [i \in 1..Len(c) |-> Chase(h.next, c[1])[i - 1]]
    BY <1>3, <2>2 DEF Items
  <2>6. QED BY <2>1, <2>4, <2>5
<1>6. QED BY <1>1, <1>2, <1>3, <1>4, <1>5 DEF Of

\* What a chain is, without its definition
LEMMA ChainFacts ==
  ASSUME NEW h, NEW c, IsChain(h, c)
  PROVE  /\ c \in Seq(Nodes) /\ Len(c) \in Nat /\ c = [i \in 1..Len(c) |-> c[i]]
         /\ \A i \in 1..Len(c) : c[i] \in Nodes /\ c[i] # NIL /\ c[i] \in Of(c)
         /\ ToSet(c) = Of(c) /\ Of(c) \subseteq Nodes
BY LenProperties, NodesAssumption DEF IsChain, Of, ToSet

\* A list whose nodes keep their links stays the list it was.
LEMMA ChainStays ==
  ASSUME NEW h, NEW g, NEW c, IsChain(h, c),
         \A n \in Of(c) : g.next[n] = h.next[n] /\ g.prev[n] = h.prev[n]
  PROVE  IsChain(g, c)
BY DEF IsChain, Of

\* A node without links is a list.
LEMMA AloneIsChain ==
  ASSUME NEW h, NEW x \in Nodes, h.next[x] = NIL, h.prev[x] = NIL
  PROVE  IsChain(h, <<x>>) /\ Of(<<x>>) = {x}
BY DEF IsChain, Of

\* A sequence with an element put before its place i
LEMMA Inserted ==
  ASSUME NEW c \in Seq(Nodes), NEW i \in 1..(Len(c) + 1), NEW x \in Nodes
  PROVE  /\ InsertAt(c, i, x) \in Seq(Nodes) /\ Len(c) \in Nat /\ Len(InsertAt(c, i, x)) = Len(c) + 1
         /\ \A j \in 1..(Len(c) + 1) :
              InsertAt(c, i, x)[j] = IF j < i THEN c[j] ELSE IF j = i THEN x ELSE c[j - 1]
<1> DEFINE a == SubSeq(c, 1, i - 1)
           b == SubSeq(c, i, Len(c))
           m == a \o <<x>>
<1>1. Len(c) \in Nat /\ \A j \in 1..Len(c) : c[j] \in Nodes
  BY LenProperties
<1>2. /\ a \in Seq(Nodes) /\ Len(a) = i - 1
      /\ \A j \in 1..(i - 1) : a[j] = c[j]
  <2>1. 1 \in Int /\ i - 1 \in Int /\ \A j \in 1..(i - 1) : c[j] \in Nodes
    BY <1>1
  <2>2. /\ a \in Seq(Nodes)
        /\ Len(a) = IF 1 <= i - 1 THEN i - 1 - 1 + 1 ELSE 0
        /\ \A j \in 1..(i - 1 - 1 + 1) : a[j] = c[1 + j - 1]
    BY <2>1, SubSeqProperties
  <2>3. QED BY <1>1, <2>2
<1>3. /\ b \in Seq(Nodes) /\ Len(b) = Len(c) - i + 1
      /\ \A j \in 1..(Len(c) - i + 1) : b[j] = c[i + j - 1]
  <2>1. i \in Int /\ Len(c) \in Int /\ \A j \in i..Len(c) : c[j] \in Nodes
    BY <1>1
  <2>2. /\ b \in Seq(Nodes)
        /\ Len(b) = IF i <= Len(c) THEN Len(c) - i + 1 ELSE 0
        /\ \A j \in 1..(Len(c) - i + 1) : b[j] = c[i + j - 1]
    BY <2>1, SubSeqProperties
  <2>3. QED BY <1>1, <2>2
<1>4. InsertAt(c, i, x) = m \o b
  BY DEF InsertAt
<1> HIDE DEF a, b
<1>5. <<x>> \in Seq(Nodes) /\ Len(<<x>>) = 1 /\ <<x>>[1] = x
  OBVIOUS
<1>6. /\ m \in Seq(Nodes) /\ Len(m) = i
      /\ \A j \in 1..i : m[j] = IF j < i THEN c[j] ELSE x
  <2>1. /\ m \in Seq(Nodes) /\ Len(m) = Len(a) + Len(<<x>>)
        /\ \A j \in 1..(Len(a) + Len(<<x>>)) : m[j] = IF j <= Len(a) THEN a[j] ELSE <<x>>[j - Len(a)]
    BY <1>2, <1>5, ConcatProperties
  <2> HIDE DEF m
  <2>2. Len(a) + Len(<<x>>) = i
    BY <1>1, <1>2, <1>5
  <2>3. ASSUME NEW j \in 1..i PROVE m[j] = IF j < i THEN c[j] ELSE x
    <3>1. CASE j < i
      <4>1. j \in 1..(i - 1) /\ j <= Len(a)
        BY <1>1, <1>2, <3>1
      <4>2. QED BY <1>2, <2>1, <2>2, <3>1, <4>1
    <3>2. CASE ~(j < i)
      <4>1. j = i /\ ~(j <= Len(a)) /\ j - Len(a) = 1
        BY <1>1, <1>2, <3>2
      <4>2. QED BY <1>5, <2>1, <2>2, <3>2, <4>1
    <3>3. QED BY <3>1, <3>2
  <2>4. QED BY <2>1, <2>2, <2>3
<1> HIDE DEF m
<1>7. /\ m \o b \in Seq(Nodes) /\ Len(m \o b) = Len(m) + Len(b)
      /\ \A j \in 1..(Len(m) + Len(b)) : (m \o b)[j] = IF j <= Len(m) THEN m[j] ELSE b[j - Len(m)]
  BY <1>3, <1>6, ConcatProperties
<1>8. Len(m) + Len(b) = Len(c) + 1
  BY <1>1, <1>3, <1>6
<1>9. ASSUME NEW j \in 1..(Len(c) + 1)
      PROVE  InsertAt(c, i, x)[j] = IF j < i THEN c[j] ELSE IF j = i THEN x ELSE c[j - 1]
  <2>1. CASE j <= i
    <3>1. j \in 1..i /\ j <= Len(m)
      BY <1>1, <1>6, <2>1
    <3>2. QED BY <1>4, <1>6, <1>7, <1>8, <2>1, <3>1
  <2>2. CASE ~(j <= i)
    <3>1. j - i \in 1..(Len(c) - i + 1) /\ ~(j <= Len(m)) /\ i + (j - i) - 1 = j - 1 /\ ~(j < i) /\ j # i
      BY <1>1, <1>6, <2>2
    <3>2. (m \o b)[j] = b[j - i]
      BY <1>6, <1>7, <1>8, <3>1
    <3>3. QED BY <1>3, <1>4, <3>1, <3>2
  <2>3. QED BY <2>1, <2>2
<1>10. QED BY <1>1, <1>4, <1>7, <1>8, <1>9

-----------------------------------------------------------------------------
(* What the operations on pointers do to a chain *)

\* A node without a list is linked in before the place i of a list.
LEMMA ChainInserted ==
  ASSUME NEW h, NEW c, IsChain(h, c), NEW x \in Nodes, x \notin Of(c), NEW i \in 1..(Len(c) + 1), NEW g,
         g.next[x] = IF i <= Len(c) THEN c[i] ELSE NIL,
         g.prev[x] = IF i > 1 THEN c[i - 1] ELSE NIL,
         \A j \in 1..Len(c) : g.next[c[j]] = IF j = i - 1 THEN x ELSE h.next[c[j]],
         \A j \in 1..Len(c) : g.prev[c[j]] = IF j = i THEN x ELSE h.prev[c[j]]
  PROVE  IsChain(g, InsertAt(c, i, x)) /\ Of(InsertAt(c, i, x)) = Of(c) \cup {x}
<1> DEFINE n == Len(c)
           e == InsertAt(c, i, x)
<1>1. n \in Nat /\ c \in Seq(Nodes) /\ \A j \in 1..n : c[j] \in Of(c)
  BY ChainFacts
<1>2. /\ e \in Seq(Nodes) /\ Len(e) = n + 1
      /\ \A j \in 1..(n + 1) : e[j] = IF j < i THEN c[j] ELSE IF j = i THEN x ELSE c[j - 1]
  BY <1>1, Inserted
<1> HIDE DEF e
<1>3. \A j \in 1..(n + 1) : \/ j < i /\ j \in 1..n /\ e[j] = c[j]
                            \/ j = i /\ e[j] = x
                            \/ j > i /\ j - 1 \in 1..n /\ e[j] = c[j - 1]
  BY <1>1, <1>2
<1>4. \A j, k \in 1..n : c[j] = c[k] => j = k
  BY DEF IsChain
<1>5. ASSUME NEW j \in 1..(n + 1), NEW k \in 1..(n + 1), e[j] = e[k] PROVE j = k
  BY <1>1, <1>3, <1>4, <1>5
<1>6. ASSUME NEW j \in 1..(n + 1) PROVE g.next[e[j]] = IF j = n + 1 THEN NIL ELSE e[j + 1]
  <2>1. CASE j < i
    <3>1. j \in 1..n /\ j + 1 \in 1..(n + 1) /\ j # n + 1 /\ e[j] = c[j]
      BY <1>1, <1>3, <2>1
    <3>2. CASE j = i - 1
      BY <1>2, <3>1, <3>2
    <3>3. CASE j # i - 1
      <4>1. j # n /\ j + 1 < i
        BY <1>1, <2>1, <3>3
      <4>2. g.next[c[j]] = c[j + 1]
        BY <3>1, <3>3, <4>1 DEF IsChain
      <4>3. QED BY <1>2, <3>1, <4>1, <4>2
    <3>4. QED BY <3>2, <3>3
  <2>2. CASE j = i
    <3>1. CASE i <= n
      <4>1. i + 1 \in 1..(n + 1) /\ ~(i + 1 < i) /\ i + 1 # i /\ (i + 1) - 1 = i /\ j # n + 1
        BY <1>1, <2>2, <3>1
      <4>2. e[j] = x /\ e[j + 1] = c[i]
        BY <1>2, <2>2, <4>1
      <4>3. QED BY <3>1, <4>1, <4>2
    <3>2. CASE ~(i <= n)
      <4>1. j = n + 1 /\ e[j] = x
        BY <1>1, <1>2, <2>2, <3>2
      <4>2. QED BY <3>2, <4>1
    <3>3. QED BY <3>1, <3>2
  <2>3. CASE j > i
    <3>1. j - 1 \in 1..n /\ j - 1 # i - 1 /\ e[j] = c[j - 1] /\ (j - 1) + 1 = j
      BY <1>1, <1>2, <2>3
    <3>2. g.next[c[j - 1]] = IF j - 1 = n THEN NIL ELSE c[j]
      <4>1. g.next[c[j - 1]] = h.next[c[j - 1]]
        BY <3>1
      <4>2. h.next[c[j - 1]] = IF j - 1 = n THEN NIL ELSE c[(j - 1) + 1]
        BY <3>1 DEF IsChain
      <4>3. QED BY <3>1, <4>1, <4>2
    <3>3. j # n + 1 => j + 1 \in 1..(n + 1) /\ j + 1 > i /\ (j + 1) - 1 = j
      BY <1>1, <2>3
    <3>4. j # n + 1 => e[j + 1] = c[j]
      BY <1>2, <3>3
    <3>5. QED BY <1>1, <3>1, <3>2, <3>4
  <2>4. QED BY <1>1, <2>1, <2>2, <2>3
<1>7. ASSUME NEW j \in 1..(n + 1) PROVE g.prev[e[j]] = IF j = 1 THEN NIL ELSE e[j - 1]
  <2>1. CASE j < i
    <3>1. j \in 1..n /\ j # i /\ e[j] = c[j] /\ (j # 1 => j - 1 \in 1..(n + 1) /\ j - 1 < i)
      BY <1>1, <1>3, <2>1
    <3>2. g.prev[c[j]] = IF j = 1 THEN NIL ELSE c[j - 1]
      BY <3>1 DEF IsChain
    <3>3. j # 1 => e[j - 1] = c[j - 1]
      BY <1>2, <3>1
    <3>4. QED BY <3>1, <3>2, <3>3
  <2>2. CASE j = i
    <3>1. i > 1 => i - 1 \in 1..(n + 1) /\ i - 1 < i
      BY <1>1
    <3>2. i > 1 => e[i - 1] = c[i - 1]
      BY <1>2, <3>1
    <3>3. e[j] = x /\ (i = 1 <=> ~(i > 1))
      BY <1>1, <1>2, <2>2
    <3>4. QED BY <2>2, <3>2, <3>3
  <2>3. CASE j > i
    <3>1. j - 1 \in 1..n /\ e[j] = c[j - 1] /\ j # 1 /\ j - 1 \in 1..(n + 1)
      BY <1>1, <1>2, <2>3
    <3>2. CASE j - 1 = i
      <4>1. e[j - 1] = x
        BY <1>2, <3>2
      <4>2. QED BY <3>1, <3>2, <4>1
    <3>3. CASE j - 1 # i
      <4>1. j - 1 > i /\ j - 1 # 1 /\ e[j - 1] = c[(j - 1) - 1]
        BY <1>1, <1>2, <2>3, <3>1, <3>3
      <4>2. g.prev[c[j - 1]] = c[(j - 1) - 1]
        BY <3>1, <3>3, <4>1 DEF IsChain
      <4>3. QED BY <3>1, <4>1, <4>2
    <3>4. QED BY <3>2, <3>3
  <2>4. QED BY <1>1, <2>1, <2>2, <2>3
<1>8. IsChain(g, e)
  BY <1>2, <1>5, <1>6, <1>7 DEF IsChain
<1>9. Of(e) = Of(c) \cup {x}
  <2>1. ASSUME NEW j \in 1..(n + 1) PROVE e[j] \in Of(c) \cup {x}
    BY <1>1, <1>3
  <2>2. ASSUME NEW j \in 1..n PROVE \E k \in 1..(n + 1) : e[k] = c[j]
    <3>1. CASE j < i
      <4>1. j \in 1..(n + 1) /\ e[j] = c[j]
        BY <1>1, <1>2, <3>1
      <4>2. QED BY <4>1
    <3>2. CASE ~(j < i)
      <4>1. j + 1 \in 1..(n + 1) /\ ~(j + 1 < i) /\ j + 1 # i /\ (j + 1) - 1 = j
        BY <1>1, <3>2
      <4>2. e[j + 1] = c[j]
        BY <1>2, <4>1
      <4>3. QED BY <4>1, <4>2
    <3>3. QED BY <3>1, <3>2
  <2>3. e[i] = x /\ i \in 1..(n + 1)
    BY <1>2
  <2>4. QED BY <1>2, <2>1, <2>2, <2>3 DEF Of
<1>10. QED BY <1>8, <1>9 DEF e

\* A node is taken out of a list.
LEMMA ChainDeleted ==
  ASSUME NEW h, NEW c, IsChain(h, c), NEW k \in 1..Len(c), NEW g,
         \A j \in 1..Len(c) : j # k => g.next[c[j]] = IF j = k - 1 THEN h.next[c[k]] ELSE h.next[c[j]],
         \A j \in 1..Len(c) : j # k => g.prev[c[j]] = IF j = k + 1 THEN h.prev[c[k]] ELSE h.prev[c[j]]
  PROVE  IsChain(g, RemoveAt(c, k)) /\ Of(RemoveAt(c, k)) = Of(c) \ {c[k]}
<1> DEFINE n == Len(c)
           e == RemoveAt(c, k)
<1>1. n \in Nat /\ c \in Seq(Nodes) /\ DOMAIN c = 1..n /\ ToSet(c) = Of(c) /\ k \in 1..n /\ k \in DOMAIN c
  BY ChainFacts, LenProperties
<1>2. /\ e \in Seq(Nodes) /\ Len(e) = n - 1
      /\ \A j \in 1..(n - 1) : e[j] = IF j < k THEN c[j] ELSE c[j + 1]
  <2>1. c \in Seq(Nodes) /\ k \in DOMAIN c
    BY <1>1
  <2> HIDE DEF e
  <2>2. /\ RemoveAt(c, k) \in Seq(Nodes) /\ Len(RemoveAt(c, k)) = Len(c) - 1
        /\ \A j \in 1..(Len(c) - 1) : RemoveAt(c, k)[j] = IF j < k THEN c[j] ELSE c[j + 1]
    BY ONLY <2>1, RemovedAt
  <2>3. QED BY <2>2 DEF e
<1>3. IsInjective(c)
  BY <1>1 DEF IsChain, IsInjective
<1>4. IsInjective(e) /\ ToSet(e) = ToSet(c) \ {c[k]}
  BY <1>1, <1>3, RemovedFrom
<1> HIDE DEF e
<1>5. DOMAIN e = 1..(n - 1)
  BY <1>2, LenProperties
<1>6. ASSUME NEW j \in 1..(n - 1) PROVE g.next[e[j]] = IF j = n - 1 THEN NIL ELSE e[j + 1]
  <2>1. CASE j < k
    <3>1. j \in 1..n /\ j # k /\ j # n /\ e[j] = c[j]
      <4>1. n \in Nat /\ k \in 1..n /\ j \in 1..(n - 1) /\ j < k
        BY <1>1, <2>1
      <4>2. j \in 1..n /\ j # k /\ j # n
        BY ONLY <4>1
      <4>3. QED BY <1>2, <2>1, <4>2
    <3>2. CASE j = k - 1
      <4>1. g.next[c[j]] = IF k = n THEN NIL ELSE c[k + 1]
        BY <3>1, <3>2 DEF IsChain
      <4>2. j + 1 = k /\ (j = n - 1 <=> k = n) /\ (j # n - 1 => j + 1 \in 1..(n - 1))
        BY <1>1, <3>2
      <4>3. j # n - 1 => ~(j + 1 < k)
        BY <4>2
      <4>4. j # n - 1 => e[j + 1] = c[k + 1]
        BY <1>2, <4>2, <4>3
      <4>5. QED BY <3>1, <4>1, <4>2, <4>4
    <3>3. CASE j # k - 1
      <4>1. g.next[c[j]] = c[j + 1]
        BY <3>1, <3>3 DEF IsChain
      <4>2. j # n - 1 /\ j + 1 \in 1..(n - 1) /\ j + 1 < k
        <5>1. n \in Nat /\ k \in 1..n /\ j \in 1..(n - 1) /\ j < k /\ j # k - 1
          BY <1>1, <2>1, <3>3
        <5>2. QED BY ONLY <5>1
      <4>3. QED BY <1>2, <3>1, <4>1, <4>2
    <3>4. QED BY <3>2, <3>3
  <2>2. CASE ~(j < k)
    <3>1. j + 1 \in 1..n /\ j + 1 # k /\ j + 1 # k - 1 /\ e[j] = c[j + 1] /\ (j + 1 = n <=> j = n - 1)
      BY <1>1, <1>2, <2>2
    <3>2. g.next[c[j + 1]] = IF j + 1 = n THEN NIL ELSE c[(j + 1) + 1]
      BY <3>1 DEF IsChain
    <3>3. j # n - 1 => j + 1 \in 1..(n - 1) /\ ~(j + 1 < k)
      <4>1. n \in Nat /\ k \in 1..n /\ j \in 1..(n - 1) /\ ~(j < k)
        BY <1>1, <2>2
      <4>2. QED BY ONLY <4>1
    <3>4. j # n - 1 => e[j + 1] = c[(j + 1) + 1]
      BY <1>2, <3>3
    <3>5. QED BY <3>1, <3>2, <3>4
  <2>3. QED BY <2>1, <2>2
<1>7. ASSUME NEW j \in 1..(n - 1) PROVE g.prev[e[j]] = IF j = 1 THEN NIL ELSE e[j - 1]
  <2>1. CASE j < k
    <3>1. j \in 1..n /\ j # k /\ j # k + 1 /\ e[j] = c[j]
      BY <1>1, <1>2, <2>1
    <3>2. g.prev[c[j]] = IF j = 1 THEN NIL ELSE c[j - 1]
      BY <3>1 DEF IsChain
    <3>3. j # 1 => j - 1 \in 1..(n - 1) /\ j - 1 < k
      BY <1>1, <2>1
    <3>4. j # 1 => e[j - 1] = c[j - 1]
      BY <1>2, <3>3
    <3>5. QED BY <3>1, <3>2, <3>4
  <2>2. CASE ~(j < k)
    <3>1. j + 1 \in 1..n /\ j + 1 # k /\ e[j] = c[j + 1] /\ (j + 1) - 1 = j
      BY <1>1, <1>2, <2>2
    <3>2. CASE j = k
      <4>1. g.prev[c[j + 1]] = IF k = 1 THEN NIL ELSE c[k - 1]
        BY <3>1, <3>2 DEF IsChain
      <4>2. j # 1 => j - 1 \in 1..(n - 1) /\ j - 1 < k
        BY <1>1, <3>2
      <4>3. j # 1 => e[j - 1] = c[k - 1]
        BY <1>2, <3>2, <4>2
      <4>4. QED BY <3>1, <3>2, <4>1, <4>3
    <3>3. CASE j # k
      <4>0. j + 1 # k + 1 /\ j + 1 # 1
        BY <3>3
      <4>1. g.prev[c[j + 1]] = c[j]
        <5>1. g.prev[c[j + 1]] = h.prev[c[j + 1]]
          BY <3>1, <4>0
        <5>2. h.prev[c[j + 1]] = IF j + 1 = 1 THEN NIL ELSE c[(j + 1) - 1]
          BY <3>1 DEF IsChain
        <5>3. QED BY <3>1, <4>0, <5>1, <5>2
      <4>2. j # 1 /\ j - 1 \in 1..(n - 1) /\ ~(j - 1 < k) /\ (j - 1) + 1 = j
        BY <1>1, <2>2, <3>3
      <4>3. QED BY <1>2, <3>1, <4>1, <4>2
    <3>4. QED BY <3>2, <3>3
  <2>3. QED BY <2>1, <2>2
<1>8. IsChain(g, e)
  BY <1>2, <1>4, <1>5, <1>6, <1>7 DEF IsChain, IsInjective
<1>9. Of(e) = ToSet(e)
  BY <1>2, <1>5 DEF Of, ToSet
<1>10. QED BY <1>1, <1>4, <1>8, <1>9 DEF e

\* What occurs in e occurs in c.
LEMMA OfWithin ==
  ASSUME NEW e, NEW c, \A j \in 1..Len(e) : \E i \in 1..Len(c) : c[i] = e[j]
  PROVE  Of(e) \subseteq Of(c)
BY DEF Of

\* A sequence with x in the place of the element at k
Replaced(c, k, x) == [c EXCEPT ![k] = x]

\* A node without a list takes the place of the node at k.
LEMMA ChainReplaced ==
  ASSUME NEW h, NEW c, IsChain(h, c), NEW k \in 1..Len(c), NEW x \in Nodes, x \notin Of(c), NEW g,
         g.next[x] = h.next[c[k]], g.prev[x] = h.prev[c[k]],
         \A j \in 1..Len(c) : j # k => g.next[c[j]] = IF j = k - 1 THEN x ELSE h.next[c[j]],
         \A j \in 1..Len(c) : j # k => g.prev[c[j]] = IF j = k + 1 THEN x ELSE h.prev[c[j]]
  PROVE  IsChain(g, Replaced(c, k, x)) /\ Of(Replaced(c, k, x)) = (Of(c) \ {c[k]}) \cup {x}
<1> DEFINE n == Len(c)
           e == Replaced(c, k, x)
<1>1. n \in Nat /\ c \in [1..n -> Nodes] /\ k \in 1..n /\ \A j \in 1..n : c[j] \in Of(c)
  BY ChainFacts, LenProperties
<1>2. /\ e \in [1..n -> Nodes] /\ e[k] = x
      /\ \A j \in 1..n : j # k => e[j] = c[j]
  BY <1>1 DEF Replaced
<1> HIDE DEF e
<1>3. e \in Seq(Nodes) /\ Len(e) = n
  BY <1>1, <1>2, FunctionIsSequence
<1>4. \A j, i \in 1..n : c[j] = c[i] => j = i
  BY DEF IsChain
<1>5. ASSUME NEW j \in 1..n, NEW i \in 1..n, e[j] = e[i] PROVE j = i
  BY <1>1, <1>2, <1>4, <1>5
<1>6. ASSUME NEW j \in 1..n PROVE g.next[e[j]] = IF j = n THEN NIL ELSE e[j + 1]
  <2>1. h.next[c[j]] = IF j = n THEN NIL ELSE c[j + 1]
    BY DEF IsChain
  <2>2. j # n => j + 1 \in 1..n
    BY <1>1
  <2>3. CASE j = k
    <3>1. j + 1 # k
      BY <2>3
    <3>2. g.next[e[j]] = h.next[c[j]]
      BY <1>2, <2>3
    <3>3. QED BY <1>2, <2>1, <2>2, <3>1, <3>2
  <2>4. CASE j # k /\ j = k - 1
    <3>1. j + 1 = k /\ j # n
      BY <1>1, <2>4
    <3>2. QED BY <1>2, <2>4, <3>1
  <2>5. CASE j # k /\ j # k - 1
    <3>1. j + 1 # k
      BY <1>1, <2>5
    <3>2. g.next[e[j]] = h.next[c[j]]
      BY <1>2, <2>5
    <3>3. QED BY <1>2, <2>1, <2>2, <3>1, <3>2
  <2>6. QED BY <2>3, <2>4, <2>5
<1>7. ASSUME NEW j \in 1..n PROVE g.prev[e[j]] = IF j = 1 THEN NIL ELSE e[j - 1]
  <2>1. h.prev[c[j]] = IF j = 1 THEN NIL ELSE c[j - 1]
    BY DEF IsChain
  <2>2. j # 1 => j - 1 \in 1..n
    BY <1>1
  <2>3. CASE j = k
    <3>1. j - 1 # k
      BY <2>3
    <3>2. g.prev[e[j]] = h.prev[c[j]]
      BY <1>2, <2>3
    <3>3. QED BY <1>2, <2>1, <2>2, <3>1, <3>2
  <2>4. CASE j # k /\ j = k + 1
    <3>1. j - 1 = k /\ j # 1
      BY <1>1, <2>4
    <3>2. QED BY <1>2, <2>4, <3>1
  <2>5. CASE j # k /\ j # k + 1
    <3>1. j - 1 # k
      BY <1>1, <2>5
    <3>2. g.prev[e[j]] = h.prev[c[j]]
      BY <1>2, <2>5
    <3>3. QED BY <1>2, <2>1, <2>2, <3>1, <3>2
  <2>6. QED BY <2>3, <2>4, <2>5
<1>8. IsChain(g, e)
  BY <1>3, <1>5, <1>6, <1>7 DEF IsChain
<1>9. Of(e) = (Of(c) \ {c[k]}) \cup {x}
  <2>1. Of(e) = {e[j] : j \in 1..n} /\ Of(c) = {c[j] : j \in 1..n}
    BY <1>3 DEF Of
  <2>2. QED BY <1>1, <1>2, <1>4, <2>1
<1>10. QED BY <1>8, <1>9 DEF e

\* Two neighbours change places.
Swapped(c, k) == [c EXCEPT ![k] = c[k + 1], ![k + 1] = c[k]]

\* What a sequence holds after that
LEMMA SwappedFacts ==
  ASSUME NEW c \in Seq(Nodes), NEW k \in 1..(Len(c) - 1)
  PROVE  /\ Swapped(c, k) \in Seq(Nodes) /\ Len(Swapped(c, k)) = Len(c) /\ Len(c) \in Nat
         /\ k \in 1..Len(c) /\ k + 1 \in 1..Len(c) /\ k + 1 # k
         /\ Swapped(c, k)[k] = c[k + 1] /\ Swapped(c, k)[k + 1] = c[k]
         /\ \A j \in 1..Len(c) : j # k /\ j # k + 1 => Swapped(c, k)[j] = c[j]
<1> DEFINE n == Len(c)
           e == Swapped(c, k)
<1>1. n \in Nat /\ c \in [1..n -> Nodes]
  BY LenProperties
<1>2. k \in 1..n /\ k + 1 \in 1..n /\ k + 1 # k
  BY <1>1
<1>3. c[k] \in Nodes /\ c[k + 1] \in Nodes
  BY <1>1, <1>2
<1>4. e \in [1..n -> Nodes] /\ e[k] = c[k + 1] /\ e[k + 1] = c[k]
  BY <1>1, <1>2, <1>3 DEF Swapped
<1>5. \A j \in 1..n : j # k /\ j # k + 1 => e[j] = c[j]
  BY <1>1, <1>2 DEF Swapped
<1> HIDE DEF e
<1>6. e \in Seq(Nodes) /\ Len(e) = n
  BY <1>1, <1>4, FunctionIsSequence
<1>7. QED BY <1>1, <1>2, <1>4, <1>5, <1>6 DEF e

\* The links g are those of h, but for what swapping the nodes at k and k + 1 of c changes.
HasSwapped(h, c, k, g) ==
  /\ g.next[c[k]] = h.next[c[k + 1]] /\ g.next[c[k + 1]] = c[k]
  /\ g.prev[c[k + 1]] = h.prev[c[k]] /\ g.prev[c[k]] = c[k + 1]
  /\ \A j \in 1..Len(c) : j # k /\ j # k + 1 => g.next[c[j]] = IF j = k - 1 THEN c[k + 1] ELSE h.next[c[j]]
  /\ \A j \in 1..Len(c) : j # k /\ j # k + 1 => g.prev[c[j]] = IF j = k + 2 THEN c[k] ELSE h.prev[c[j]]

\* What list_swap_neighbor does to the list of two nodes
LEMMA ChainSwapped ==
  ASSUME NEW h, NEW c, IsChain(h, c), NEW k \in 1..(Len(c) - 1), NEW g, HasSwapped(h, c, k, g)
  PROVE  IsChain(g, Swapped(c, k)) /\ Of(Swapped(c, k)) = Of(c)
<1> USE DEF HasSwapped
<1> DEFINE n == Len(c)
           e == Swapped(c, k)
<1>1. n \in Nat /\ c \in Seq(Nodes)
  BY ChainFacts
<1>2. /\ e \in Seq(Nodes) /\ Len(e) = n /\ k \in 1..n /\ k + 1 \in 1..n /\ k + 1 # k
      /\ e[k] = c[k + 1] /\ e[k + 1] = c[k]
      /\ \A j \in 1..n : j # k /\ j # k + 1 => e[j] = c[j]
  BY <1>1, SwappedFacts
<1> HIDE DEF e
<1>4. \A j, i \in 1..n : c[j] = c[i] => j = i
  BY DEF IsChain
<1>5. ASSUME NEW j \in 1..n, NEW i \in 1..n, e[j] = e[i] PROVE j = i
  BY <1>2, <1>4, <1>5
<1>6. ASSUME NEW j \in 1..n PROVE g.next[e[j]] = IF j = n THEN NIL ELSE e[j + 1]
  <2>1. h.next[c[j]] = IF j = n THEN NIL ELSE c[j + 1]
    BY DEF IsChain
  <2>2. j # n => j + 1 \in 1..n
    BY <1>1
  <2>3. CASE j = k
    <3>1. j # n
      BY <1>1, <1>2, <2>3
    <3>2. QED BY <1>2, <2>3, <3>1
  <2>4. CASE j = k + 1
    <3>1. j # n => j + 1 \in 1..n /\ j + 1 # k /\ j + 1 # k + 1
      BY <2>2, <2>4
    <3>2. g.next[e[j]] = h.next[c[j]]
      BY <1>2, <2>4
    <3>3. QED BY <1>2, <2>1, <3>1, <3>2
  <2>5. CASE j # k /\ j # k + 1 /\ j = k - 1
    <3>1. j + 1 = k /\ j # n
      BY <1>1, <1>2, <2>5
    <3>2. g.next[e[j]] = c[k + 1]
      BY <1>2, <2>5
    <3>3. QED BY <1>2, <3>1, <3>2
  <2>6. CASE j # k /\ j # k + 1 /\ j # k - 1
    <3>1. j + 1 # k /\ j + 1 # k + 1
      BY <1>1, <2>6
    <3>2. g.next[e[j]] = h.next[c[j]]
      BY <1>2, <2>6
    <3>3. QED BY <1>2, <2>1, <2>2, <3>1, <3>2
  <2>7. QED BY <2>3, <2>4, <2>5, <2>6
<1>7. ASSUME NEW j \in 1..n PROVE g.prev[e[j]] = IF j = 1 THEN NIL ELSE e[j - 1]
  <2>1. h.prev[c[j]] = IF j = 1 THEN NIL ELSE c[j - 1]
    BY DEF IsChain
  <2>2. j # 1 => j - 1 \in 1..n
    BY <1>1
  <2>3. CASE j = k
    <3>1. j # 1 => j - 1 \in 1..n /\ j - 1 # k /\ j - 1 # k + 1
      BY <2>2, <2>3
    <3>2. g.prev[e[j]] = h.prev[c[j]]
      BY <1>2, <2>3
    <3>3. QED BY <1>2, <2>1, <3>1, <3>2
  <2>4. CASE j = k + 1
    <3>1. j # 1 /\ j - 1 = k
      BY <1>1, <2>4
    <3>2. QED BY <1>2, <2>4, <3>1
  <2>5. CASE j # k /\ j # k + 1 /\ j = k + 2
    <3>1. j - 1 = k + 1 /\ j # 1
      BY <1>1, <1>2, <2>5
    <3>2. g.prev[e[j]] = c[k]
      BY <1>2, <2>5
    <3>3. QED BY <1>2, <3>1, <3>2
  <2>6. CASE j # k /\ j # k + 1 /\ j # k + 2
    <3>1. j - 1 # k /\ j - 1 # k + 1
      BY <1>1, <2>6
    <3>2. g.prev[e[j]] = h.prev[c[j]]
      BY <1>2, <2>6
    <3>3. QED BY <1>2, <2>1, <2>2, <3>1, <3>2
  <2>7. QED BY <2>3, <2>4, <2>5, <2>6
<1>8. IsChain(g, e)
  BY <1>2, <1>5, <1>6, <1>7 DEF IsChain
<1>9. Of(e) = Of(c)
  <2>1. ASSUME NEW j \in 1..n PROVE \E i \in 1..n : e[i] = c[j]
    BY <1>2
  <2>2. ASSUME NEW j \in 1..n PROVE \E i \in 1..n : c[i] = e[j]
    BY <1>2
  <2>3. Of(e) \subseteq Of(c) /\ Of(c) \subseteq Of(e)
    BY <1>2, <2>1, <2>2, OfWithin
  <2>4. QED BY <2>3
<1>10. QED BY <1>8, <1>9 DEF e

\* Every node of a list changes its links.
LEMMA ChainReversed ==
  ASSUME NEW h, NEW c, IsChain(h, c), NEW g,
         \A j \in 1..Len(c) : g.next[c[j]] = h.prev[c[j]] /\ g.prev[c[j]] = h.next[c[j]]
  PROVE  IsChain(g, Reverse(c)) /\ Of(Reverse(c)) = Of(c)
<1> DEFINE n == Len(c)
           e == Reverse(c)
<1>1. n \in Nat /\ c \in Seq(Nodes) /\ \A j \in 1..n : c[j] \in Nodes
  BY ChainFacts
<1>2. \A j \in 1..n : n - j + 1 \in 1..n
  BY <1>1
<1>3. e = [j \in 1..n |-> c[n - j + 1]]
  BY DEF Reverse
<1>4. e \in [1..n -> Nodes] /\ \A j \in 1..n : e[j] = c[n - j + 1]
  BY <1>1, <1>2, <1>3
<1> HIDE DEF e
<1>5. e \in Seq(Nodes) /\ Len(e) = n
  BY <1>1, <1>4, FunctionIsSequence
<1>6. ASSUME NEW j \in 1..n, NEW i \in 1..n, e[j] = e[i] PROVE j = i
  <2>1. c[n - j + 1] = c[n - i + 1] /\ n - j + 1 \in 1..n /\ n - i + 1 \in 1..n
    BY <1>2, <1>4, <1>6
  <2>2. n - j + 1 = n - i + 1
    BY <2>1 DEF IsChain
  <2>3. QED BY <1>1, <2>2
<1>7. ASSUME NEW j \in 1..n PROVE g.next[e[j]] = IF j = n THEN NIL ELSE e[j + 1]
  <2>1. g.next[c[n - j + 1]] = IF n - j + 1 = 1 THEN NIL ELSE c[(n - j + 1) - 1]
    BY <1>2 DEF IsChain
  <2>2. (n - j + 1 = 1 <=> j = n) /\ (n - j + 1) - 1 = n - (j + 1) + 1 /\ (j # n => j + 1 \in 1..n)
    BY <1>1
  <2>3. QED BY <1>4, <2>1, <2>2
<1>8. ASSUME NEW j \in 1..n PROVE g.prev[e[j]] = IF j = 1 THEN NIL ELSE e[j - 1]
  <2>1. g.prev[c[n - j + 1]] = IF n - j + 1 = n THEN NIL ELSE c[(n - j + 1) + 1]
    BY <1>2 DEF IsChain
  <2>2. (n - j + 1 = n <=> j = 1) /\ (n - j + 1) + 1 = n - (j - 1) + 1 /\ (j # 1 => j - 1 \in 1..n)
    BY <1>1
  <2>3. QED BY <1>4, <2>1, <2>2
<1>9. IsChain(g, e)
  BY <1>5, <1>6, <1>7, <1>8 DEF IsChain
<1>10. Of(e) = Of(c)
  <2>1. ASSUME NEW j \in 1..n PROVE \E i \in 1..n : e[i] = c[j]
    <3>1. n - j + 1 \in 1..n /\ n - (n - j + 1) + 1 = j
      BY <1>1
    <3>2. e[n - j + 1] = c[j]
      BY <1>4, <3>1
    <3>3. QED BY <3>1, <3>2
  <2>2. ASSUME NEW j \in 1..n PROVE \E i \in 1..n : c[i] = e[j]
    BY <1>2, <1>4
  <2>3. Of(e) \subseteq Of(c) /\ Of(c) \subseteq Of(e)
    BY <1>5, <2>1, <2>2, OfWithin
  <2>4. QED BY <2>3
<1>11. QED BY <1>9, <1>10 DEF e

\* The last node of one list is linked to the first of another.
LEMMA ChainsJoined ==
  ASSUME NEW h, NEW c, IsChain(h, c), NEW d, IsChain(h, d), Of(c) \cap Of(d) = {}, c # <<>>, d # <<>>, NEW g,
         \A j \in 1..Len(c) : /\ g.next[c[j]] = IF j = Len(c) THEN d[1] ELSE h.next[c[j]]
                              /\ g.prev[c[j]] = h.prev[c[j]],
         \A j \in 1..Len(d) : /\ g.next[d[j]] = h.next[d[j]]
                              /\ g.prev[d[j]] = IF j = 1 THEN c[Len(c)] ELSE h.prev[d[j]]
  PROVE  IsChain(g, c \o d) /\ Of(c \o d) = Of(c) \cup Of(d)
<1> DEFINE n == Len(c)
           m == Len(d)
           e == c \o d
<1>1. /\ n \in Nat /\ c \in Seq(Nodes) /\ m \in Nat /\ d \in Seq(Nodes)
      /\ \A j \in 1..n : c[j] \in Of(c)
      /\ \A j \in 1..m : d[j] \in Of(d)
  BY ChainFacts
<1>2. n # 0 /\ m # 0
  BY <1>1, EmptySeq
<1>3. /\ e \in Seq(Nodes) /\ Len(e) = n + m
      /\ \A j \in 1..(n + m) : e[j] = IF j <= n THEN c[j] ELSE d[j - n]
  BY <1>1, ConcatProperties
<1> HIDE DEF e
<1>4. \A j \in 1..(n + m) : \/ j \in 1..n /\ e[j] = c[j]
                            \/ j \notin 1..n /\ j - n \in 1..m /\ e[j] = d[j - n]
  BY <1>1, <1>3
<1>5. ASSUME NEW j \in 1..(n + m), NEW i \in 1..(n + m), e[j] = e[i] PROVE j = i
  <2>1. CASE j \in 1..n
    <3>1. i \in 1..n /\ c[j] = c[i]
      BY <1>1, <1>4, <1>5, <2>1
    <3>2. QED BY <2>1, <3>1 DEF IsChain
  <2>2. CASE j \notin 1..n
    <3>1. j - n \in 1..m /\ i - n \in 1..m /\ d[j - n] = d[i - n]
      BY <1>1, <1>4, <1>5, <2>2
    <3>2. j - n = i - n
      BY <3>1 DEF IsChain
    <3>3. QED BY <1>1, <3>2
  <2>3. QED BY <2>1, <2>2
<1>6. ASSUME NEW j \in 1..(n + m) PROVE g.next[e[j]] = IF j = n + m THEN NIL ELSE e[j + 1]
  <2>1. CASE j \in 1..n /\ j # n
    <3>1. e[j] = c[j] /\ j + 1 \in 1..n /\ j + 1 \in 1..(n + m) /\ j # n + m
      BY <1>1, <1>4, <2>1
    <3>2. g.next[c[j]] = c[j + 1]
      BY <2>1 DEF IsChain
    <3>3. QED BY <1>4, <3>1, <3>2
  <2>2. CASE j = n
    <3>1. j \in 1..n /\ e[j] = c[j] /\ j + 1 \in 1..(n + m) /\ j + 1 \notin 1..n /\ (j + 1) - n = 1 /\ j # n + m
      BY <1>1, <1>2, <1>4, <2>2
    <3>2. e[j + 1] = d[1]
      BY <1>4, <3>1
    <3>3. QED BY <2>2, <3>1, <3>2
  <2>3. CASE j \notin 1..n
    <3>1. j - n \in 1..m /\ e[j] = d[j - n]
      BY <1>4, <2>3
    <3>2. g.next[d[j - n]] = IF j - n = m THEN NIL ELSE d[(j - n) + 1]
      <4>1. ASSUME NEW i \in 1..m PROVE h.next[d[i]] = (IF i = m THEN NIL ELSE d[i + 1]) /\ g.next[d[i]] = h.next[d[i]]
        BY DEF IsChain
      <4>2. QED BY <3>1, <4>1
    <3>3. /\ j - n = m <=> j = n + m
          /\ j # n + m => j + 1 \in 1..(n + m) /\ j + 1 \notin 1..n /\ (j + 1) - n = (j - n) + 1
      <4>1. n \in Nat /\ m \in Nat /\ j \in 1..(n + m) /\ j \notin 1..n
        BY <1>1, <2>3
      <4>2. QED BY ONLY <4>1
    <3>4. j # n + m => e[j + 1] = d[(j - n) + 1]
      BY <1>4, <3>3
    <3>5. QED BY <3>1, <3>2, <3>3, <3>4
  <2>4. QED BY <2>1, <2>2, <2>3
<1>7. ASSUME NEW j \in 1..(n + m) PROVE g.prev[e[j]] = IF j = 1 THEN NIL ELSE e[j - 1]
  <2>1. CASE j \in 1..n
    <3>1. e[j] = c[j] /\ (j # 1 => j - 1 \in 1..n /\ j - 1 \in 1..(n + m))
      BY <1>1, <1>4, <2>1
    <3>2. g.prev[c[j]] = IF j = 1 THEN NIL ELSE c[j - 1]
      BY <2>1 DEF IsChain
    <3>3. j # 1 => e[j - 1] = c[j - 1]
      BY <1>4, <3>1
    <3>4. QED BY <3>1, <3>2, <3>3
  <2>2. CASE j = n + 1
    <3>1. j \notin 1..n /\ j - n = 1 /\ j - 1 = n /\ j - 1 \in 1..n /\ j - 1 \in 1..(n + m) /\ j # 1 /\ 1 \in 1..m
      BY <1>1, <1>2, <2>2
    <3>2. e[j] = d[1] /\ e[j - 1] = c[n]
      BY <1>4, <3>1
    <3>3. QED BY <3>1, <3>2
  <2>3. CASE j \notin 1..n /\ j # n + 1
    <3>1. j - n \in 1..m /\ e[j] = d[j - n]
      BY <1>4, <2>3
    <3>2. j - n # 1 /\ j # 1 /\ j - 1 \in 1..(n + m) /\ j - 1 \notin 1..n /\ (j - 1) - n = (j - n) - 1
      BY <1>1, <2>3
    <3>3. g.prev[d[j - n]] = d[(j - n) - 1]
      BY <3>1, <3>2 DEF IsChain
    <3>4. e[j - 1] = d[(j - n) - 1]
      BY <1>4, <3>2
    <3>5. QED BY <3>1, <3>2, <3>3, <3>4
  <2>4. QED BY <2>1, <2>2, <2>3
<1>8. IsChain(g, e)
  BY <1>3, <1>5, <1>6, <1>7 DEF IsChain
<1>9. Of(e) = Of(c) \cup Of(d)
  <2>1. ASSUME NEW j \in 1..n PROVE \E i \in 1..(n + m) : e[i] = c[j]
    <3>1. j \in 1..(n + m)
      BY <1>1
    <3>2. QED BY <1>4, <3>1
  <2>2. ASSUME NEW j \in 1..m PROVE \E i \in 1..(n + m) : e[i] = d[j]
    <3>1. j + n \in 1..(n + m) /\ j + n \notin 1..n /\ (j + n) - n = j
      BY <1>1
    <3>2. QED BY <1>4, <3>1
  <2>3. Of(c) \subseteq Of(e) /\ Of(d) \subseteq Of(e)
    <3>1. Of(c) \subseteq Of(e)
      <4>1. \A j \in 1..Len(c) : \E i \in 1..Len(e) : e[i] = c[j]
        BY <1>3, <2>1
      <4>2. QED BY ONLY <4>1, OfWithin
    <3>2. Of(d) \subseteq Of(e)
      <4>1. \A j \in 1..Len(d) : \E i \in 1..Len(e) : e[i] = d[j]
        BY <1>3, <2>2
      <4>2. QED BY ONLY <4>1, OfWithin
    <3>3. QED BY <3>1, <3>2
  <2>4. \A j \in 1..(n + m) : e[j] \in Of(c) \cup Of(d)
    BY <1>1, <1>4
  <2>5. Of(e) \subseteq Of(c) \cup Of(d)
    BY <1>3, <2>4 DEF Of
  <2>6. QED BY <2>3, <2>5
<1>10. QED BY <1>8, <1>9 DEF e

-----------------------------------------------------------------------------
(* Lists: what the operations of Links do to a chain *)

\* g keeps d where h keeps c, and nothing else is touched: what left the list is cleared, but for kept.
Turned(h, c, g, d, kept) ==
  /\ g \in LinksType
  /\ IsChain(g, d)
  /\ \A n \in Nodes \ (Of(c) \cup Of(d)) : g.next[n] = h.next[n] /\ g.prev[n] = h.prev[n]
  /\ \A n \in Of(c) \ (Of(d) \cup kept) : g.next[n] = NIL /\ g.prev[n] = NIL

\* x has been linked between a and b, one of which may be NIL.
PutIn(h, g, a, x, b) ==
  /\ g \in LinksType
  /\ g.next[x] = b /\ g.prev[x] = a
  /\ \A n \in Nodes \ {x} : g.next[n] = IF n = a THEN x ELSE h.next[n]
  /\ \A n \in Nodes \ {x} : g.prev[n] = IF n = b THEN x ELSE h.prev[n]

\* x has been unlinked from its neighbours, which are linked to each other.
TakenOut(h, g, x) ==
  /\ g \in LinksType
  /\ g.next[x] = NIL /\ g.prev[x] = NIL
  /\ \A n \in Nodes \ {x} : g.next[n] = IF n = h.prev[x] THEN h.next[x] ELSE h.next[n]
  /\ \A n \in Nodes \ {x} : g.prev[n] = IF n = h.next[x] THEN h.prev[x] ELSE h.prev[n]

\* Pointers lead to nodes.
LEMMA LinksFacts ==
  ASSUME NEW h \in LinksType
  PROVE  /\ h.next \in [Nodes -> Nodes \cup {NIL}] /\ h.prev \in [Nodes -> Nodes \cup {NIL}]
         /\ h = [prev |-> h.prev, next |-> h.next]
         /\ \A n \in Nodes : h.next[n] \in Nodes \cup {NIL} /\ h.prev[n] \in Nodes \cup {NIL}
BY DEF LinksType

\* Pointers from a function for each direction
LEMMA LinksMade ==
  ASSUME NEW nx \in [Nodes -> Nodes \cup {NIL}], NEW pv \in [Nodes -> Nodes \cup {NIL}]
  PROVE  /\ [prev |-> pv, next |-> nx] \in LinksType
         /\ [prev |-> pv, next |-> nx].next = nx /\ [prev |-> pv, next |-> nx].prev = pv
BY DEF LinksType

\* In g a is linked to b.
AreLinked(h, g, a, b) ==
  /\ g \in LinksType
  /\ \A n \in Nodes : g.next[n] = IF n = a THEN b ELSE h.next[n]
  /\ \A n \in Nodes : g.prev[n] = IF n = b THEN a ELSE h.prev[n]

\* What Link changes
LEMMA Linked ==
  ASSUME NEW h \in LinksType, NEW a \in Nodes, NEW b \in Nodes
  PROVE  AreLinked(h, Link(h, a, b), a, b)
<1> DEFINE nx == [h.next EXCEPT ![a] = b]
           pv == [h.prev EXCEPT ![b] = a]
<1>1. nx \in [Nodes -> Nodes \cup {NIL}] /\ pv \in [Nodes -> Nodes \cup {NIL}]
  BY LinksFacts
<1>2. Link(h, a, b) = [prev |-> pv, next |-> nx]
  <2>1. h = [prev |-> h.prev, next |-> h.next]
    BY LinksFacts
  <2>2. ASSUME NEW g, g = Link(h, a, b) PROVE g = [prev |-> pv, next |-> nx]
    BY <2>1, <2>2 DEF Link
  <2>3. QED BY <2>2
<1>3. /\ \A n \in Nodes : nx[n] = IF n = a THEN b ELSE h.next[n]
      /\ \A n \in Nodes : pv[n] = IF n = b THEN a ELSE h.prev[n]
  BY LinksFacts
<1> HIDE DEF nx, pv
<1>4. QED BY <1>1, <1>2, <1>3, LinksMade DEF AreLinked

\* A node without links is the first and the last of its list.
LEMMA AloneWalked ==
  ASSUME NEW h, NEW x \in Nodes, h.next[x] = NIL, h.prev[x] = NIL
  PROVE  FirstOf(h, x) = x /\ LastOf(h, x) = x
<1>1. IsChain(h, <<x>>)
  BY AloneIsChain
<1>2. ASSUME NEW c, c = <<x>>, NEW k, k = 1 PROVE FirstOf(h, x) = x /\ LastOf(h, x) = x
  <2>1. IsChain(h, c) /\ Len(c) = 1 /\ c[1] = x
    BY <1>1, <1>2
  <2>2. k \in 1..Len(c)
    BY <1>2, <2>1
  <2>3. LastOf(h, c[k]) = c[Len(c)] /\ FirstOf(h, c[k]) = c[1]
    BY ONLY <2>1, <2>2, ChainWalked
  <2>4. QED BY <1>2, <2>1, <2>3
<1>3. QED BY <1>2

\* list_add_to, of a node without links after p
LEMMA AddToPuts ==
  ASSUME NEW h \in LinksType, NEW p \in Nodes, NEW x \in Nodes, p # x, h.next[p] # x,
         h.next[x] = NIL, h.prev[x] = NIL
  PROVE  PutIn(h, AddTo(h, p, x), p, x, h.next[p])
<1> DEFINE q == h.next[p]
           g == AddTo(h, p, x)
<1>1. p # NIL /\ x # NIL /\ NIL \notin Nodes /\ q \in Nodes \cup {NIL}
  BY NodesAssumption, LinksFacts
<1>2. CASE q = NIL
  <2>1. g = Link(h, p, x)
    BY <1>1, <1>2 DEF AddTo
  <2> HIDE DEF g
  <2>2. /\ g \in LinksType
        /\ \A n \in Nodes : g.next[n] = IF n = p THEN x ELSE h.next[n]
        /\ \A n \in Nodes : g.prev[n] = IF n = x THEN p ELSE h.prev[n]
    <3>1. AreLinked(h, g, p, x)
      BY <2>1, Linked
    <3>2. QED BY <3>1 DEF AreLinked
  <2>3. PutIn(h, g, p, x, q)
    BY <1>1, <1>2, <2>2 DEF PutIn
  <2>4. QED BY <2>3 DEF g
<1>3. CASE q # NIL
  <2> DEFINE m == Link(h, x, q)
  <2>1. q \in Nodes /\ q # x
    BY <1>1, <1>3
  <2>2. g = Link(m, p, x)
    BY <1>1, <1>3, AloneWalked DEF AddTo
  <2> HIDE DEF g, q
  <2>3. /\ m \in LinksType
        /\ \A n \in Nodes : m.next[n] = IF n = x THEN q ELSE h.next[n]
        /\ \A n \in Nodes : m.prev[n] = IF n = q THEN x ELSE h.prev[n]
    <3>1. AreLinked(h, m, x, q)
      BY <2>1, Linked
    <3>2. QED BY ONLY <3>1 DEF AreLinked
  <2> HIDE DEF m
  <2>4. /\ g \in LinksType
        /\ \A n \in Nodes : g.next[n] = IF n = p THEN x ELSE m.next[n]
        /\ \A n \in Nodes : g.prev[n] = IF n = x THEN p ELSE m.prev[n]
    <3>1. AreLinked(m, g, p, x)
      BY <2>2, <2>3, Linked
    <3>2. QED BY <3>1 DEF AreLinked
  <2>5. PutIn(h, g, p, x, q)
    BY <2>1, <2>3, <2>4 DEF PutIn
  <2>6. QED BY <2>5 DEF g, q
<1>4. QED BY <1>2, <1>3

\* list_insert_to, of a node without links before p
LEMMA InsertToPuts ==
  ASSUME NEW h \in LinksType, NEW p \in Nodes, NEW x \in Nodes, p # x, h.prev[p] # x,
         h.next[x] = NIL, h.prev[x] = NIL
  PROVE  PutIn(h, InsertTo(h, p, x), h.prev[p], x, p)
<1> DEFINE q == h.prev[p]
           g == InsertTo(h, p, x)
<1>1. p # NIL /\ x # NIL /\ NIL \notin Nodes /\ q \in Nodes \cup {NIL} /\ FirstOf(h, x) = x /\ LastOf(h, x) = x
  BY NodesAssumption, LinksFacts, AloneWalked
<1>2. CASE q = NIL
  <2>1. g = Link(h, x, p)
    BY <1>1, <1>2 DEF InsertTo
  <2> HIDE DEF g
  <2>2. /\ g \in LinksType
        /\ \A n \in Nodes : g.next[n] = IF n = x THEN p ELSE h.next[n]
        /\ \A n \in Nodes : g.prev[n] = IF n = p THEN x ELSE h.prev[n]
    <3>1. AreLinked(h, g, x, p)
      BY <2>1, Linked
    <3>2. QED BY <3>1 DEF AreLinked
  <2>3. PutIn(h, g, q, x, p)
    BY <1>1, <1>2, <2>2 DEF PutIn
  <2>4. QED BY <2>3 DEF g
<1>3. CASE q # NIL
  <2> DEFINE m == Link(h, q, x)
  <2>1. q \in Nodes /\ q # x
    BY <1>1, <1>3
  <2>2. g = Link(m, x, p)
    BY <1>1, <1>3 DEF InsertTo
  <2> HIDE DEF g, q
  <2>3. /\ m \in LinksType
        /\ \A n \in Nodes : m.next[n] = IF n = q THEN x ELSE h.next[n]
        /\ \A n \in Nodes : m.prev[n] = IF n = x THEN q ELSE h.prev[n]
    <3>1. AreLinked(h, m, q, x)
      BY <2>1, Linked
    <3>2. QED BY ONLY <3>1 DEF AreLinked
  <2> HIDE DEF m
  <2>4. /\ g \in LinksType
        /\ \A n \in Nodes : g.next[n] = IF n = x THEN p ELSE m.next[n]
        /\ \A n \in Nodes : g.prev[n] = IF n = p THEN x ELSE m.prev[n]
    <3>1. AreLinked(m, g, x, p)
      BY <2>2, <2>3, Linked
    <3>2. QED BY <3>1 DEF AreLinked
  <2>5. PutIn(h, g, q, x, p)
    BY <2>1, <2>3, <2>4 DEF PutIn
  <2>6. QED BY <2>5 DEF g, q
<1>4. QED BY <1>2, <1>3

\* A node linked before the place i of a list
LEMMA PutInChain ==
  ASSUME NEW h \in LinksType, NEW c, IsChain(h, c), NEW x \in Nodes, x \notin Of(c), NEW i \in 1..(Len(c) + 1),
         NEW a, a = (IF i > 1 THEN c[i - 1] ELSE NIL), NEW b, b = (IF i <= Len(c) THEN c[i] ELSE NIL),
         NEW g, PutIn(h, g, a, x, b)
  PROVE  Turned(h, c, g, InsertAt(c, i, x), {}) /\ Of(InsertAt(c, i, x)) = Of(c) \cup {x}
<1> DEFINE n == Len(c)
<1>1. /\ n \in Nat /\ c \in Seq(Nodes) /\ Of(c) \subseteq Nodes /\ NIL \notin Nodes
      /\ \A j \in 1..n : c[j] \in Nodes /\ c[j] \in Of(c) /\ c[j] # x
  BY ChainFacts, NodesAssumption
<1>2. \A j, k \in 1..n : c[j] = c[k] => j = k
  BY DEF IsChain
<1>3. (i > 1 => i - 1 \in 1..n) /\ (i <= n => i \in 1..n)
  BY <1>1
<1>4. \A j \in 1..n : (c[j] = a <=> j = i - 1) /\ (c[j] = b <=> j = i)
  BY <1>1, <1>2, <1>3
<1>5. a \in Of(c) \cup {NIL} /\ b \in Of(c) \cup {NIL}
  BY <1>1, <1>3
<1>6. g.next[x] = b /\ g.prev[x] = a /\ g \in LinksType
  BY DEF PutIn
<1>7. /\ \A m \in Nodes \ {x} : g.next[m] = IF m = a THEN x ELSE h.next[m]
      /\ \A m \in Nodes \ {x} : g.prev[m] = IF m = b THEN x ELSE h.prev[m]
  BY DEF PutIn
<1>8. /\ \A j \in 1..n : g.next[c[j]] = IF j = i - 1 THEN x ELSE h.next[c[j]]
      /\ \A j \in 1..n : g.prev[c[j]] = IF j = i THEN x ELSE h.prev[c[j]]
  BY <1>1, <1>4, <1>7
<1>9. \A m \in Nodes \ (Of(c) \cup {x}) : g.next[m] = h.next[m] /\ g.prev[m] = h.prev[m]
  BY <1>1, <1>5, <1>7
<1>10. IsChain(g, InsertAt(c, i, x)) /\ Of(InsertAt(c, i, x)) = Of(c) \cup {x}
  BY <1>6, <1>8, ChainInserted
<1>11. QED BY <1>6, <1>9, <1>10 DEF Turned

\* A node taken out of a list
LEMMA TakenOutOfChain ==
  ASSUME NEW h \in LinksType, NEW c, IsChain(h, c), NEW k \in 1..Len(c), NEW g, TakenOut(h, g, c[k])
  PROVE  Turned(h, c, g, RemoveAt(c, k), {}) /\ Of(RemoveAt(c, k)) = Of(c) \ {c[k]}
<1> DEFINE n == Len(c)
           x == c[k]
<1>1. /\ n \in Nat /\ Of(c) \subseteq Nodes /\ NIL \notin Nodes
      /\ \A j \in 1..n : c[j] \in Nodes /\ c[j] \in Of(c)
  BY ChainFacts, NodesAssumption
<1>2. \A j, i \in 1..n : c[j] = c[i] => j = i
  BY DEF IsChain
<1>3. h.next[x] = (IF k = n THEN NIL ELSE c[k + 1]) /\ h.prev[x] = (IF k = 1 THEN NIL ELSE c[k - 1])
  BY DEF IsChain
<1>4. (k # n => k + 1 \in 1..n) /\ (k # 1 => k - 1 \in 1..n) /\ k \in 1..n /\ n + 1 \notin 1..n /\ 1 - 1 \notin 1..n
  BY <1>1
<1>5. \A j \in 1..n : c[j] = h.prev[x] <=> j = k - 1
  BY <1>1, <1>2, <1>3, <1>4
<1>6. \A j \in 1..n : c[j] = h.next[x] <=> j = k + 1
  BY <1>1, <1>2, <1>3, <1>4
<1>7. h.prev[x] \in Of(c) \cup {NIL} /\ h.next[x] \in Of(c) \cup {NIL}
  BY <1>1, <1>3, <1>4
<1>8. \A j \in 1..n : j # k => c[j] # x
  BY <1>2
<1>9. g.next[x] = NIL /\ g.prev[x] = NIL /\ g \in LinksType
  BY DEF TakenOut
<1>10. /\ \A m \in Nodes \ {x} : g.next[m] = IF m = h.prev[x] THEN h.next[x] ELSE h.next[m]
       /\ \A m \in Nodes \ {x} : g.prev[m] = IF m = h.next[x] THEN h.prev[x] ELSE h.prev[m]
  BY DEF TakenOut
<1> HIDE DEF x
<1>11. /\ \A j \in 1..n : j # k => g.next[c[j]] = IF j = k - 1 THEN h.next[x] ELSE h.next[c[j]]
       /\ \A j \in 1..n : j # k => g.prev[c[j]] = IF j = k + 1 THEN h.prev[x] ELSE h.prev[c[j]]
  BY <1>1, <1>5, <1>6, <1>8, <1>10
<1>12. x \in Of(c)
  BY <1>1 DEF x
<1>13. \A m \in Nodes \ Of(c) : g.next[m] = h.next[m] /\ g.prev[m] = h.prev[m]
  BY <1>1, <1>7, <1>10, <1>12
<1>14. IsChain(g, RemoveAt(c, k)) /\ Of(RemoveAt(c, k)) = Of(c) \ {c[k]}
  BY <1>11, ChainDeleted DEF x
<1>15. QED BY <1>9, <1>13, <1>14 DEF Turned, x

\* list_remove
LEMMA RemoveFromTakes ==
  ASSUME NEW h \in LinksType, NEW x \in Nodes, h.next[x] # x, h.prev[x] # x
  PROVE  TakenOut(h, RemoveFrom(h, x), x)
<1> DEFINE p == h.prev[x]
           q == h.next[x]
           g == RemoveFrom(h, x)
           joined == IF p # NIL /\ q # NIL THEN Link(h, p, q)
                     ELSE IF q # NIL THEN [h EXCEPT !.prev[q] = NIL]
                     ELSE IF p # NIL THEN [h EXCEPT !.next[p] = NIL]
                     ELSE h
<1>1. NIL \notin Nodes /\ p \in Nodes \cup {NIL} /\ q \in Nodes \cup {NIL}
  BY NodesAssumption, LinksFacts
<1>2. AreLinked(h, joined, p, q)
  <2>1. CASE p # NIL /\ q # NIL
    <3>1. joined = Link(h, p, q) /\ p \in Nodes /\ q \in Nodes
      BY <1>1, <2>1
    <3> HIDE DEF joined, p, q
    <3>2. QED BY <3>1, Linked
  <2>2. CASE p = NIL /\ q # NIL
    <3> DEFINE pv == [h.prev EXCEPT ![q] = NIL]
    <3>1. joined = [prev |-> pv, next |-> h.next] /\ q \in Nodes
      BY <1>1, <2>2 DEF LinksType
    <3>2. pv \in [Nodes -> Nodes \cup {NIL}] /\ \A n \in Nodes : pv[n] = IF n = q THEN NIL ELSE h.prev[n]
      BY LinksFacts
    <3>3. h.next \in [Nodes -> Nodes \cup {NIL}]
      BY LinksFacts
    <3> HIDE DEF joined, p, q, pv
    <3>4. joined \in LinksType /\ joined.next = h.next /\ joined.prev = pv
      BY <3>1, <3>2, <3>3, LinksMade
    <3>5. QED BY <1>1, <2>2, <3>2, <3>4 DEF AreLinked
  <2>3. CASE p # NIL /\ q = NIL
    <3> DEFINE nx == [h.next EXCEPT ![p] = NIL]
    <3>1. joined = [prev |-> h.prev, next |-> nx] /\ p \in Nodes
      BY <1>1, <2>3 DEF LinksType
    <3>2. nx \in [Nodes -> Nodes \cup {NIL}] /\ \A n \in Nodes : nx[n] = IF n = p THEN NIL ELSE h.next[n]
      BY LinksFacts
    <3>3. h.prev \in [Nodes -> Nodes \cup {NIL}]
      BY LinksFacts
    <3> HIDE DEF joined, p, q, nx
    <3>4. joined \in LinksType /\ joined.next = nx /\ joined.prev = h.prev
      BY <3>1, <3>2, <3>3, LinksMade
    <3>5. QED BY <1>1, <2>3, <3>2, <3>4 DEF AreLinked
  <2>4. CASE p = NIL /\ q = NIL
    <3>1. joined = h
      BY <2>4
    <3> HIDE DEF joined, p, q
    <3>2. QED BY <1>1, <2>4, <3>1 DEF AreLinked
  <2>5. QED BY <2>1, <2>2, <2>3, <2>4
<1>3. g = [joined EXCEPT !.prev[x] = NIL, !.next[x] = NIL]
  BY DEF RemoveFrom
<1> HIDE DEF joined, g
<1> DEFINE pv == [joined.prev EXCEPT ![x] = NIL]
           nx == [joined.next EXCEPT ![x] = NIL]
<1>4. joined \in LinksType
  BY <1>2 DEF AreLinked
<1>5. g = [prev |-> pv, next |-> nx]
  BY <1>3, <1>4 DEF LinksType
<1>6. /\ pv \in [Nodes -> Nodes \cup {NIL}] /\ \A n \in Nodes : pv[n] = IF n = x THEN NIL ELSE joined.prev[n]
      /\ nx \in [Nodes -> Nodes \cup {NIL}] /\ \A n \in Nodes : nx[n] = IF n = x THEN NIL ELSE joined.next[n]
  BY <1>4, LinksFacts
<1> HIDE DEF pv, nx
<1>7. g \in LinksType /\ g.next = nx /\ g.prev = pv
  BY <1>5, <1>6, LinksMade
<1>8. TakenOut(h, g, x)
  BY <1>2, <1>6, <1>7 DEF TakenOut, AreLinked
<1>9. QED BY <1>8 DEF g

\* A node taken out of its list is cleared once more when it is freed.
LEMMA FreeItemTakes ==
  ASSUME NEW h \in LinksType, NEW x \in Nodes, NEW g, TakenOut(h, g, x)
  PROVE  TakenOut(h, FreeItem(g, x), x)
<1> DEFINE pv == [m \in Nodes |-> IF m \in {x, NIL} THEN NIL ELSE g.prev[m]]
           nx == [m \in Nodes |-> IF m \in {x, NIL} THEN NIL ELSE g.next[m]]
           f == FreeItem(g, x)
<1>1. g \in LinksType /\ g.prev[x] = NIL /\ g.next[x] = NIL /\ NIL \notin Nodes
  BY NodesAssumption DEF TakenOut
<1>2. f = [prev |-> pv, next |-> nx]
  BY <1>1 DEF FreeItem
<1> HIDE DEF f
<1>3. /\ pv \in [Nodes -> Nodes \cup {NIL}] /\ \A m \in Nodes : pv[m] = g.prev[m]
      /\ nx \in [Nodes -> Nodes \cup {NIL}] /\ \A m \in Nodes : nx[m] = g.next[m]
  BY <1>1, LinksFacts
<1> HIDE DEF pv, nx
<1>4. f \in LinksType /\ f.next = nx /\ f.prev = pv
  BY <1>2, <1>3, LinksMade
<1>5. TakenOut(h, f, x)
  BY <1>3, <1>4 DEF TakenOut
<1>6. QED BY <1>5 DEF f

\* The links e hold the nodes of the chain c of h with x in the place of the node at k.
HasReplaced(h, c, k, x, e, kept) ==
  Turned(h, c, e, Replaced(c, k, x), kept) /\ Of(Replaced(c, k, x)) = (Of(c) \ kept) \cup {x}

\* list_obj_replace, by a node without links
LEMMA ReplaceTurns ==
  ASSUME NEW h \in LinksType, NEW c, IsChain(h, c), NEW k \in 1..Len(c), NEW x \in Nodes, x \notin Of(c),
         h.next[x] = NIL, h.prev[x] = NIL, NEW e, e = ObjReplace(h, c[k], x), NEW kept, kept = {c[k]}
  PROVE  HasReplaced(h, c, k, x, e, kept)
<1> DEFINE n == Len(c)
           old == c[k]
           g == RemoveFrom(h, x)
           a == h.prev[old]
           b == h.next[old]
           r == ObjReplace(h, old, x)
           d == Replaced(c, k, x)
<1>1. /\ n \in Nat /\ Of(c) \subseteq Nodes /\ NIL \notin Nodes
      /\ \A j \in 1..n : c[j] \in Nodes /\ c[j] \in Of(c) /\ c[j] # x
  BY ChainFacts, NodesAssumption
<1>2. \A j, i \in 1..n : c[j] = c[i] => j = i
  BY DEF IsChain
<1>3. b = (IF k = n THEN NIL ELSE c[k + 1]) /\ a = (IF k = 1 THEN NIL ELSE c[k - 1])
  BY DEF IsChain
<1>4. (k # n => k + 1 \in 1..n) /\ (k # 1 => k - 1 \in 1..n) /\ k \in 1..n /\ n + 1 \notin 1..n /\ 1 - 1 \notin 1..n
  BY <1>1
<1>5. \A j \in 1..n : (c[j] = a <=> j = k - 1) /\ (c[j] = b <=> j = k + 1)
  BY <1>1, <1>2, <1>3, <1>4
<1>6. a \in Of(c) \cup {NIL} /\ b \in Of(c) \cup {NIL} /\ old \in Of(c)
  BY <1>1, <1>3, <1>4
<1>7. /\ g \in LinksType
      /\ \A m \in Nodes : g.next[m] = h.next[m] /\ g.prev[m] = h.prev[m]
  <2>1. h.next[x] # x /\ h.prev[x] # x
    BY <1>1
  <2> HIDE DEF g
  <2>2. TakenOut(h, g, x)
    BY <2>1, RemoveFromTakes DEF g
  <2>3. QED BY <1>1, <2>2 DEF TakenOut
<1> DEFINE pi == [g.prev EXCEPT ![x] = g.prev[old]]
           ni == [g.next EXCEPT ![x] = g.next[old]]
           pv == IF b = NIL THEN pi ELSE [pi EXCEPT ![b] = x]
           nx == IF a = NIL THEN ni ELSE [ni EXCEPT ![a] = x]
<1>8. g.prev[old] = a /\ g.next[old] = b
  BY <1>1, <1>7
<1>9. r = [prev |-> pv, next |-> nx]
  <2>1. r = [prev |-> IF g.next[old] = NIL THEN pi ELSE [pi EXCEPT ![g.next[old]] = x],
             next |-> IF g.prev[old] = NIL THEN ni ELSE [ni EXCEPT ![g.prev[old]] = x]]
    BY DEF ObjReplace
  <2> HIDE DEF r, pi, ni, g, a, b, old
  <2>2. QED BY <1>8, <2>1
<1> HIDE DEF r, g, a, b, old, n
<1>10. /\ pi \in [Nodes -> Nodes \cup {NIL}] /\ \A m \in Nodes : pi[m] = IF m = x THEN a ELSE h.prev[m]
       /\ ni \in [Nodes -> Nodes \cup {NIL}] /\ \A m \in Nodes : ni[m] = IF m = x THEN b ELSE h.next[m]
  <2>1. g.prev \in [Nodes -> Nodes \cup {NIL}] /\ g.next \in [Nodes -> Nodes \cup {NIL}]
    BY <1>7, LinksFacts
  <2>2. a \in Nodes \cup {NIL} /\ b \in Nodes \cup {NIL}
    BY <1>1, <1>6
  <2>3. QED BY <1>7, <1>8, <2>1, <2>2
<1> HIDE DEF pi, ni
<1>11. /\ pv \in [Nodes -> Nodes \cup {NIL}]
       /\ \A m \in Nodes : pv[m] = IF m = b THEN x ELSE pi[m]
  BY <1>1, <1>6, <1>10
<1>12. /\ nx \in [Nodes -> Nodes \cup {NIL}]
       /\ \A m \in Nodes : nx[m] = IF m = a THEN x ELSE ni[m]
  BY <1>1, <1>6, <1>10
<1> HIDE DEF pv, nx
<1>13. r \in LinksType /\ r.next = nx /\ r.prev = pv
  BY <1>9, <1>11, <1>12, LinksMade
<1>14. a # x /\ b # x
  BY <1>1, <1>6
<1>15. r.next[x] = b /\ r.prev[x] = a
  BY <1>10, <1>11, <1>12, <1>13, <1>14
<1>16. \A m \in Nodes \ {x} : /\ r.next[m] = IF m = a THEN x ELSE h.next[m]
                              /\ r.prev[m] = IF m = b THEN x ELSE h.prev[m]
  BY <1>10, <1>11, <1>12, <1>13
<1>17. /\ \A j \in 1..n : j # k => r.next[c[j]] = IF j = k - 1 THEN x ELSE h.next[c[j]]
       /\ \A j \in 1..n : j # k => r.prev[c[j]] = IF j = k + 1 THEN x ELSE h.prev[c[j]]
  BY <1>1, <1>5, <1>16
<1>18. IsChain(r, d) /\ Of(d) = (Of(c) \ {old}) \cup {x}
  <2>1. IsChain(h, c) /\ k \in 1..Len(c) /\ x \in Nodes /\ x \notin Of(c)
    OBVIOUS
  <2>2. r.next[x] = h.next[c[k]] /\ r.prev[x] = h.prev[c[k]]
    BY <1>15 DEF a, b, old
  <2>3. /\ \A j \in 1..Len(c) : j # k => r.next[c[j]] = IF j = k - 1 THEN x ELSE h.next[c[j]]
        /\ \A j \in 1..Len(c) : j # k => r.prev[c[j]] = IF j = k + 1 THEN x ELSE h.prev[c[j]]
    BY <1>17 DEF n
  <2>4. IsChain(r, Replaced(c, k, x)) /\ Of(Replaced(c, k, x)) = (Of(c) \ {c[k]}) \cup {x}
    BY ONLY <2>1, <2>2, <2>3, ChainReplaced
  <2>5. QED BY <2>4 DEF old
<1>19. \A m \in Nodes \ (Of(c) \cup Of(d)) : r.next[m] = h.next[m] /\ r.prev[m] = h.prev[m]
  BY <1>1, <1>6, <1>16, <1>18
<1>20. Turned(h, c, r, d, {old})
  BY <1>13, <1>18, <1>19 DEF Turned
<1>21. QED BY <1>18, <1>20 DEF r, old, HasReplaced

\* list_swap_neighbor
LEMMA SwapTurns ==
  ASSUME NEW h \in LinksType, NEW c, IsChain(h, c), NEW k \in 1..(Len(c) - 1)
  PROVE  /\ Turned(h, c, SwapNeighbor(h, c[k], c[k + 1]), Swapped(c, k), {})
         /\ Of(Swapped(c, k)) = Of(c)
<1> DEFINE n == Len(c)
           a == c[k]
           b == c[k + 1]
           p == h.prev[a]
           q == h.next[b]
           po == IF q = NIL THEN h.prev ELSE [h.prev EXCEPT ![q] = a]
           no == IF p = NIL THEN h.next ELSE [h.next EXCEPT ![p] = b]
           pv == [po EXCEPT ![b] = p, ![a] = b]
           nx == [no EXCEPT ![a] = q, ![b] = a]
           g == SwapNeighbor(h, a, b)
<1>1. /\ n \in Nat /\ Of(c) \subseteq Nodes /\ NIL \notin Nodes
      /\ \A j \in 1..n : c[j] \in Nodes /\ c[j] \in Of(c)
  BY ChainFacts, NodesAssumption
<1>2. \A j, i \in 1..n : c[j] = c[i] => j = i
  BY DEF IsChain
<1>3. k \in 1..n /\ k + 1 \in 1..n /\ k # k + 1
  BY <1>1
<1>4. q = (IF k + 1 = n THEN NIL ELSE c[k + 2]) /\ p = (IF k = 1 THEN NIL ELSE c[k - 1])
  <2>1. q = (IF k + 1 = n THEN NIL ELSE c[(k + 1) + 1])
    BY <1>3 DEF IsChain
  <2>2. p = (IF k = 1 THEN NIL ELSE c[k - 1])
    BY <1>3 DEF IsChain
  <2>3. (k + 1) + 1 = k + 2
    BY <1>3
  <2>4. QED BY <2>1, <2>2, <2>3
<1>5. (k + 1 # n => k + 2 \in 1..n) /\ (k # 1 => k - 1 \in 1..n) /\ (k + 1 = n => k + 2 \notin 1..n) /\ 1 - 1 \notin 1..n
  BY <1>1, <1>3
<1>6. \A j \in 1..n : (c[j] = p <=> j = k - 1) /\ (c[j] = q <=> j = k + 2)
  BY <1>1, <1>2, <1>4, <1>5
<1>7. p \in Of(c) \cup {NIL} /\ q \in Of(c) \cup {NIL} /\ a \in Of(c) /\ b \in Of(c) /\ a # b
  BY <1>1, <1>2, <1>3, <1>4, <1>5
<1>8. p # a /\ p # b /\ q # a /\ q # b
  <2>1. k # k - 1 /\ k + 1 # k - 1 /\ k # k + 2 /\ k + 1 # k + 2
    BY <1>3
  <2>2. QED BY <1>3, <1>6, <2>1
<1>9. g = [prev |-> pv, next |-> nx]
  BY DEF SwapNeighbor
<1> HIDE DEF g, a, b, p, q, n
<1>10. /\ po \in [Nodes -> Nodes \cup {NIL}] /\ \A m \in Nodes : po[m] = IF m = q THEN a ELSE h.prev[m]
       /\ no \in [Nodes -> Nodes \cup {NIL}] /\ \A m \in Nodes : no[m] = IF m = p THEN b ELSE h.next[m]
  BY <1>1, <1>7, LinksFacts
<1> HIDE DEF po, no
<1>11. /\ pv \in [Nodes -> Nodes \cup {NIL}]
       /\ \A m \in Nodes : pv[m] = IF m = a THEN b ELSE IF m = b THEN p ELSE po[m]
  BY <1>1, <1>7, <1>10
<1>12. /\ nx \in [Nodes -> Nodes \cup {NIL}]
       /\ \A m \in Nodes : nx[m] = IF m = b THEN a ELSE IF m = a THEN q ELSE no[m]
  BY <1>1, <1>7, <1>10
<1> HIDE DEF pv, nx
<1>13. g \in LinksType /\ g.next = nx /\ g.prev = pv
  BY <1>9, <1>11, <1>12, LinksMade
<1>14. a \in Nodes /\ b \in Nodes
  BY <1>1, <1>7
<1>15. g.next[a] = q /\ g.next[b] = a /\ g.prev[b] = p /\ g.prev[a] = b
  BY <1>7, <1>11, <1>12, <1>13, <1>14
<1>16. \A m \in Nodes \ {a, b} : /\ g.next[m] = IF m = p THEN b ELSE h.next[m]
                                 /\ g.prev[m] = IF m = q THEN a ELSE h.prev[m]
  BY <1>10, <1>11, <1>12, <1>13
<1>17. \A j \in 1..n : j # k /\ j # k + 1 => c[j] \in Nodes \ {a, b}
  BY <1>1, <1>2, <1>3 DEF a, b
<1>18. /\ \A j \in 1..n : j # k /\ j # k + 1 => g.next[c[j]] = IF j = k - 1 THEN b ELSE h.next[c[j]]
       /\ \A j \in 1..n : j # k /\ j # k + 1 => g.prev[c[j]] = IF j = k + 2 THEN a ELSE h.prev[c[j]]
  BY <1>6, <1>16, <1>17
<1>19. IsChain(g, Swapped(c, k)) /\ Of(Swapped(c, k)) = Of(c)
  <2>1. /\ g.next[c[k]] = h.next[c[k + 1]] /\ g.next[c[k + 1]] = c[k]
        /\ g.prev[c[k + 1]] = h.prev[c[k]] /\ g.prev[c[k]] = c[k + 1]
    BY <1>15 DEF a, b, p, q
  <2>2. /\ \A j \in 1..Len(c) : j # k /\ j # k + 1 => g.next[c[j]] = IF j = k - 1 THEN c[k + 1] ELSE h.next[c[j]]
        /\ \A j \in 1..Len(c) : j # k /\ j # k + 1 => g.prev[c[j]] = IF j = k + 2 THEN c[k] ELSE h.prev[c[j]]
    BY <1>18 DEF n, a, b
  <2>3. HasSwapped(h, c, k, g)
    BY ONLY <2>1, <2>2 DEF HasSwapped
  <2>4. IsChain(h, c) /\ k \in 1..(Len(c) - 1)
    OBVIOUS
  <2>5. QED BY ONLY <2>3, <2>4, ChainSwapped
<1>20. \A m \in Nodes \ Of(c) : g.next[m] = h.next[m] /\ g.prev[m] = h.prev[m]
  BY <1>1, <1>7, <1>16
<1>21. Turned(h, c, g, Swapped(c, k), {})
  BY <1>13, <1>19, <1>20 DEF Turned
<1>22. QED BY <1>19, <1>21 DEF g, a, b

\* list_reverse, of the list that p is in
LEMMA ReverseTurns ==
  ASSUME NEW h \in LinksType, NEW c, IsChain(h, c), NEW k \in 1..Len(c)
  PROVE  Turned(h, c, ReverseList(h, c[k]), Reverse(c), {}) /\ Of(Reverse(c)) = Of(c)
<1> DEFINE pv == [n \in Nodes |-> IF n \in Of(c) THEN h.next[n] ELSE h.prev[n]]
           nx == [n \in Nodes |-> IF n \in Of(c) THEN h.prev[n] ELSE h.next[n]]
           g == ReverseList(h, c[k])
<1>1. Members(h, c[k]) = Of(c)
  BY ChainWalked
<1>2. g = [prev |-> pv, next |-> nx]
  BY <1>1 DEF ReverseList
<1> HIDE DEF g
<1>3. /\ pv \in [Nodes -> Nodes \cup {NIL}] /\ nx \in [Nodes -> Nodes \cup {NIL}]
      /\ \A n \in Nodes \cap Of(c) : nx[n] = h.prev[n] /\ pv[n] = h.next[n]
      /\ \A n \in Nodes \ Of(c) : nx[n] = h.next[n] /\ pv[n] = h.prev[n]
  BY LinksFacts
<1> HIDE DEF pv, nx
<1>4. g \in LinksType /\ g.next = nx /\ g.prev = pv
  BY <1>2, <1>3, LinksMade
<1>5. \A j \in 1..Len(c) : c[j] \in Nodes \cap Of(c)
  BY ChainFacts
<1>6. \A j \in 1..Len(c) : g.next[c[j]] = h.prev[c[j]] /\ g.prev[c[j]] = h.next[c[j]]
  BY <1>3, <1>4, <1>5
<1>7. IsChain(g, Reverse(c)) /\ Of(Reverse(c)) = Of(c)
  BY <1>6, ChainReversed
<1>8. Turned(h, c, g, Reverse(c), {})
  BY <1>3, <1>4, <1>7 DEF Turned
<1>9. QED BY <1>7, <1>8 DEF g

\* The pointers when the first i nodes of a list have been freed
Cut(h, c, i) ==
  [prev |-> [m \in Nodes |-> IF \E j \in 1..Len(c) : j <= i + 1 /\ c[j] = m THEN NIL ELSE h.prev[m]],
   next |-> [m \in Nodes |-> IF \E j \in 1..Len(c) : j <= i /\ c[j] = m THEN NIL ELSE h.next[m]]]

\* At first none has.
LEMMA NothingCut ==
  ASSUME NEW h \in LinksType, NEW c, IsChain(h, c)
  PROVE  Cut(h, c, 0) = h
<1> DEFINE pv == [m \in Nodes |-> IF \E j \in 1..Len(c) : j <= 0 + 1 /\ c[j] = m THEN NIL ELSE h.prev[m]]
           nx == [m \in Nodes |-> IF \E j \in 1..Len(c) : j <= 0 /\ c[j] = m THEN NIL ELSE h.next[m]]
<1>1. Len(c) \in Nat
  BY ChainFacts
<1>2. \A j \in 1..Len(c) : ~(j <= 0) /\ (j <= 0 + 1 => j = 1)
  BY <1>1
<1>3. nx = h.next
  BY <1>2, LinksFacts
<1>4. \A m \in Nodes : (\E j \in 1..Len(c) : j <= 0 + 1 /\ c[j] = m) => h.prev[m] = NIL
  BY <1>2 DEF IsChain
<1>5. pv = h.prev
  BY <1>4, LinksFacts
<1>6. Cut(h, c, 0) = [prev |-> pv, next |-> nx]
  BY DEF Cut
<1> HIDE DEF pv, nx
<1>7. QED BY <1>3, <1>5, <1>6, LinksFacts

\* Then the next one is.
LEMMA NextCut ==
  ASSUME NEW h \in LinksType, NEW c, IsChain(h, c), NEW i \in 1..Len(c)
  PROVE  FreeItem(Cut(h, c, i - 1), c[i]) = Cut(h, c, i)
<1> DEFINE n == Len(c)
           g == Cut(h, c, i - 1)
           x == c[i]
           q == g.next[x]
<1>1. n \in Nat /\ NIL \notin Nodes /\ x \in Nodes
  BY ChainFacts, NodesAssumption
<1>2. \A j, k \in 1..n : c[j] = c[k] => j = k
  BY DEF IsChain
<1>3. /\ \A m \in Nodes : g.prev[m] = IF \E j \in 1..n : j <= (i - 1) + 1 /\ c[j] = m THEN NIL ELSE h.prev[m]
      /\ \A m \in Nodes : g.next[m] = IF \E j \in 1..n : j <= i - 1 /\ c[j] = m THEN NIL ELSE h.next[m]
  BY DEF Cut
<1>4. i <= (i - 1) + 1 /\ ~(i <= i - 1) /\ i \in 1..n
  BY <1>1
<1>5. g.prev[x] = NIL
  BY <1>1, <1>3, <1>4
<1>6. q = h.next[x]
  <2>1. ~\E j \in 1..n : j <= i - 1 /\ c[j] = x
    BY <1>2, <1>4
  <2>2. QED BY <1>1, <1>3, <2>1
<1>7. q = IF i = n THEN NIL ELSE c[i + 1]
  BY <1>6 DEF IsChain
<1> DEFINE pv == [m \in Nodes |-> IF m \in {x, q} THEN NIL ELSE g.prev[m]]
           nx == [m \in Nodes |-> IF m \in {x, NIL} THEN NIL ELSE g.next[m]]
           pd == [m \in Nodes |-> IF \E j \in 1..n : j <= i + 1 /\ c[j] = m THEN NIL ELSE h.prev[m]]
           nd == [m \in Nodes |-> IF \E j \in 1..n : j <= i /\ c[j] = m THEN NIL ELSE h.next[m]]
<1>8. FreeItem(g, x) = [prev |-> pv, next |-> nx] /\ Cut(h, c, i) = [prev |-> pd, next |-> nd]
  BY <1>5 DEF FreeItem, Cut
<1> HIDE DEF g, q
<1>9. ASSUME NEW m \in Nodes PROVE pv[m] = pd[m]
  <2>1. (\E j \in 1..n : j <= i + 1 /\ c[j] = m) <=> m = q \/ (\E j \in 1..n : j <= (i - 1) + 1 /\ c[j] = m)
    <3>1. (i - 1) + 1 = i /\ (i # n => i + 1 \in 1..n) /\ \A j \in 1..n : j <= i + 1 <=> j <= i \/ (j = i + 1 /\ i # n)
      BY <1>1
    <3>2. m # NIL
      BY <1>1
    <3>3. QED BY <1>7, <3>1, <3>2
  <2>2. m = x => \E j \in 1..n : j <= (i - 1) + 1 /\ c[j] = m
    BY <1>4
  <2>3. QED BY <1>3, <2>1, <2>2
<1>10. ASSUME NEW m \in Nodes PROVE nx[m] = nd[m]
  <2>1. (\E j \in 1..n : j <= i /\ c[j] = m) <=> m = x \/ (\E j \in 1..n : j <= i - 1 /\ c[j] = m)
    <3>1. \A j \in 1..n : j <= i <=> j <= i - 1 \/ j = i
      BY <1>1
    <3>2. QED BY <1>4, <3>1
  <2>2. QED BY <1>1, <1>3, <2>1
<1>11. pv = pd /\ nx = nd
  BY <1>9, <1>10
<1> HIDE DEF pv, nx, pd, nd
<1>12. QED BY <1>8, <1>11 DEF g

\* list_free_all, of the list that p is in
LEMMA FreeTurns ==
  ASSUME NEW h \in LinksType, NEW c, IsChain(h, c), NEW k \in 1..Len(c)
  PROVE  Turned(h, c, FreeList(h, c[k]), <<>>, {}) /\ Of(<<>>) = {}
<1> DEFINE n == Len(c)
           step(f) == [i \in 0..n |-> IF i = 0 THEN h ELSE FreeItem(f[i - 1], c[i])]
           cuts == [i \in 0..n |-> Cut(h, c, i)]
<1>1. n \in Nat /\ Items(h, c[k]) = c
  BY ChainFacts, ChainWalked
<1>2. FreeList(h, c[k]) = (CHOOSE f : f = step(f))[n]
  BY <1>1 DEF FreeList
<1>3. cuts = step(cuts)
  <2>1. ASSUME NEW i \in 0..n
        PROVE  cuts[i] = IF i = 0 THEN h ELSE FreeItem(cuts[i - 1], c[i])
    <3>1. CASE i = 0
      BY <3>1, NothingCut
    <3>2. CASE i # 0
      <4>1. i \in 1..n /\ i - 1 \in 0..n
        BY <1>1, <3>2
      <4>2. FreeItem(Cut(h, c, i - 1), c[i]) = Cut(h, c, i)
        BY <4>1, NextCut
      <4>3. cuts[i - 1] = Cut(h, c, i - 1)
        BY <4>1
      <4> HIDE DEF n
      <4>4. QED BY <3>2, <4>2, <4>3
    <3>3. QED BY <3>1, <3>2
  <2>2. QED BY <2>1
<1>4. ASSUME NEW f, f = step(f) PROVE f[n] = Cut(h, c, n)
  <2> DEFINE S == {i \in Nat : i \in 0..n => f[i] = Cut(h, c, i)}
  <2>1. \A i \in 0..n : f[i] = IF i = 0 THEN h ELSE FreeItem(f[i - 1], c[i])
    BY <1>4
  <2> HIDE DEF n
  <2>2. 0 \in S
    BY <1>1, <2>1, NothingCut
  <2>3. ASSUME NEW i \in Nat, i \in S PROVE i + 1 \in S
    <3>1. SUFFICES ASSUME i + 1 \in 0..n PROVE f[i + 1] = Cut(h, c, i + 1)
      OBVIOUS
    <3>2. i \in 0..n /\ (i + 1) - 1 = i /\ i + 1 # 0 /\ i + 1 \in 1..n
      BY <1>1, <3>1
    <3>3. f[i] = Cut(h, c, i)
      BY <2>3, <3>2
    <3>4. FreeItem(Cut(h, c, (i + 1) - 1), c[i + 1]) = Cut(h, c, i + 1)
      BY <3>2, NextCut DEF n
    <3>5. f[i + 1] = FreeItem(f[i], c[i + 1])
      BY <2>1, <3>1, <3>2
    <3>6. QED BY <3>2, <3>3, <3>4, <3>5
  <2>4. Nat \subseteq S
    <3> HIDE DEF S
    <3> QED BY <2>2, <2>3, SetInduction
  <2>5. n \in 0..n
    BY <1>1
  <2>6. QED BY <1>1, <2>4, <2>5
<1>5. FreeList(h, c[k]) = Cut(h, c, n)
  <2> HIDE DEF step, cuts, n
  <2>1. (CHOOSE f : f = step(f)) = step(CHOOSE f : f = step(f))
    BY <1>3
  <2>2. QED BY <1>2, <1>4, <2>1
<1> DEFINE g == Cut(h, c, n)
           pv == [m \in Nodes |-> IF m \in Of(c) THEN NIL ELSE h.prev[m]]
           nx == [m \in Nodes |-> IF m \in Of(c) THEN NIL ELSE h.next[m]]
<1>6. \A m \in Nodes : /\ (\E j \in 1..n : j <= n + 1 /\ c[j] = m) <=> m \in Of(c)
                       /\ (\E j \in 1..n : j <= n /\ c[j] = m) <=> m \in Of(c)
  <2>1. \A j \in 1..n : j <= n /\ j <= n + 1
    BY <1>1
  <2>2. QED BY <2>1 DEF Of
<1>7. g = [prev |-> pv, next |-> nx]
  BY <1>6 DEF Cut
<1>8. pv \in [Nodes -> Nodes \cup {NIL}] /\ nx \in [Nodes -> Nodes \cup {NIL}]
  BY LinksFacts
<1>9. /\ \A m \in Nodes \cap Of(c) : nx[m] = NIL /\ pv[m] = NIL
      /\ \A m \in Nodes \ Of(c) : nx[m] = h.next[m] /\ pv[m] = h.prev[m]
  OBVIOUS
<1> HIDE DEF g, pv, nx
<1>10. g \in LinksType /\ g.next = nx /\ g.prev = pv
  BY <1>7, <1>8, LinksMade
<1>11. IsChain(g, <<>>) /\ Of(<<>>) = {}
  BY DEF IsChain, Of
<1>12. Of(c) \subseteq Nodes
  BY ChainFacts
<1>13. Turned(h, c, g, <<>>, {})
  BY <1>9, <1>10, <1>11, <1>12 DEF Turned
<1>14. QED BY <1>5, <1>11, <1>13 DEF g

-----------------------------------------------------------------------------
(* Lists: the invariant and what it says *)

\* The lists of C are what the pointers h and the list** variables hold; s has been replaced.
Holds(h, held, s, C) ==
  /\ h \in LinksType /\ held \in [Names -> Nodes \cup {NIL}] /\ s \subseteq Nodes /\ C \in [Names -> Seq(Nodes)]
  /\ \A l \in Names : IsChain(h, C[l])
  /\ \A l \in Names : IF C[l] = <<>> THEN held[l] = NIL ELSE held[l] \in Of(C[l])
  /\ \A l, m \in Names : l # m => Of(C[l]) \cap Of(C[m]) = {}
  /\ \A l \in Names : Of(C[l]) \cap s = {}
  /\ \A n \in Nodes : n \notin s /\ (\A l \in Names : n \notin Of(C[l])) => h.next[n] = NIL /\ h.prev[n] = NIL

\* What the user sees
Seen == [l \in Names |-> Items(links, lst[l])]

\* The invariant: every list is a chain of its own, and nodes in no list are not linked.
ListsInvariant == Holds(links, lst, stale, Seen)

\* The nodes of a list** that holds a list
LEMMA HeldItems ==
  ASSUME NEW h, NEW held, NEW s, NEW C, Holds(h, held, s, C), NEW l \in Names
  PROVE  Items(h, held[l]) = C[l] /\ Members(h, held[l]) = Of(C[l])
<1>1. IsChain(h, C[l]) /\ IF C[l] = <<>> THEN held[l] = NIL ELSE held[l] \in Of(C[l])
  BY DEF Holds
<1>2. CASE C[l] = <<>>
  <2>1. Members(h, NIL) = {} /\ Cardinality({}) = 0 /\ Of(<<>>) = {}
    BY FS_EmptySet DEF Members, Of
  <2>2. Items(h, NIL) = <<>>
    BY <2>1 DEF Items
  <2>3. QED BY <1>1, <1>2, <2>1, <2>2
<1>3. CASE C[l] # <<>>
  <2>1. PICK k \in 1..Len(C[l]) : held[l] = C[l][k]
    BY <1>1, <1>3 DEF Of
  <2>2. QED BY <1>1, <2>1, ChainWalked
<1>4. QED BY <1>2, <1>3

\* Once it is known what the lists are after a step, it is known what the user sees.
LEMMA SeenNext ==
  ASSUME NEW C, Holds(links', lst', stale', C)
  PROVE  ListsInvariant' /\ Seen' = C
<1>1. \A l \in Names : Items(links', lst'[l]) = C[l]
  BY HeldItems
<1>2. C = [l \in Names |-> C[l]]
  BY DEF Holds
<1>3. Seen' = C
  BY <1>1, <1>2 DEF Seen
<1>4. QED BY <1>3 DEF ListsInvariant

\* One list turns into another, the others stay.
LEMMA OneTurns ==
  ASSUME NEW h, NEW held, NEW s, NEW C, Holds(h, held, s, C), NEW l \in Names, NEW g, NEW d, NEW kept, NEW p,
         Turned(h, C[l], g, d, kept), kept \subseteq Of(C[l]),
         IF d = <<>> THEN p = NIL ELSE p \in Of(d),
         \A m \in Names : m # l => Of(d) \cap Of(C[m]) = {},
         Of(d) \cap (s \cup kept) = {}
  PROVE  Holds(g, [held EXCEPT ![l] = p], s \cup kept, [C EXCEPT ![l] = d])
<1> DEFINE D == [C EXCEPT ![l] = d]
           holding == [held EXCEPT ![l] = p]
<1>1. /\ g \in LinksType /\ IsChain(g, d) /\ d \in Seq(Nodes) /\ Of(d) \subseteq Nodes /\ Of(C[l]) \subseteq Nodes
      /\ \A n \in Nodes \ (Of(C[l]) \cup Of(d)) : g.next[n] = h.next[n] /\ g.prev[n] = h.prev[n]
      /\ \A n \in Of(C[l]) \ (Of(d) \cup kept) : g.next[n] = NIL /\ g.prev[n] = NIL
  <2>1. IsChain(g, d) /\ IsChain(h, C[l])
    BY DEF Turned, Holds
  <2>2. d \in Seq(Nodes) /\ Of(d) \subseteq Nodes /\ Of(C[l]) \subseteq Nodes
    BY <2>1, ChainFacts
  <2>3. QED BY <2>1, <2>2 DEF Turned
<1>2. /\ D \in [Names -> Seq(Nodes)] /\ D[l] = d
      /\ \A m \in Names : m # l => D[m] = C[m]
  BY <1>1 DEF Holds
<1>3. /\ holding \in [Names -> Nodes \cup {NIL}] /\ holding[l] = p
      /\ \A m \in Names : m # l => holding[m] = held[m]
  BY <1>1 DEF Holds
<1> HIDE DEF D, holding
<1>4. ASSUME NEW m \in Names PROVE IsChain(g, D[m])
  <2>1. CASE m = l
    BY <1>1, <1>2, <2>1
  <2>2. CASE m # l
    <3>1. IsChain(h, C[m]) /\ Of(C[m]) \cap Of(C[l]) = {} /\ Of(C[m]) \cap Of(d) = {}
      BY <2>2 DEF Holds
    <3>2. Of(C[m]) \subseteq Nodes
      BY <3>1, ChainFacts
    <3>3. \A n \in Of(C[m]) : g.next[n] = h.next[n] /\ g.prev[n] = h.prev[n]
      BY <1>1, <3>1, <3>2
    <3>4. QED BY <1>2, <2>2, <3>1, <3>3, ChainStays
  <2>3. QED BY <2>1, <2>2
<1>5. ASSUME NEW m \in Names PROVE IF D[m] = <<>> THEN holding[m] = NIL ELSE holding[m] \in Of(D[m])
  BY <1>2, <1>3 DEF Holds
<1>6. ASSUME NEW m \in Names, NEW k \in Names, m # k PROVE Of(D[m]) \cap Of(D[k]) = {}
  <2>1. CASE m = l
    BY <1>2, <1>6, <2>1
  <2>2. CASE k = l
    BY <1>2, <1>6, <2>2
  <2>3. CASE m # l /\ k # l
    BY <1>2, <1>6, <2>3 DEF Holds
  <2>4. QED BY <2>1, <2>2, <2>3
<1>7. ASSUME NEW m \in Names PROVE Of(D[m]) \cap (s \cup kept) = {}
  <2>1. CASE m = l
    BY <1>2, <2>1
  <2>2. CASE m # l
    <3>1. Of(C[m]) \cap Of(C[l]) = {} /\ Of(C[m]) \cap s = {}
      BY <2>2 DEF Holds
    <3>2. QED BY <1>2, <2>2, <3>1
  <2>3. QED BY <2>1, <2>2
<1>8. ASSUME NEW n \in Nodes, n \notin s \cup kept, \A m \in Names : n \notin Of(D[m])
      PROVE  g.next[n] = NIL /\ g.prev[n] = NIL
  <2>1. n \notin Of(d) /\ \A m \in Names : m # l => n \notin Of(C[m])
    BY <1>2, <1>8
  <2>2. CASE n \in Of(C[l])
    BY <1>1, <1>8, <2>1, <2>2
  <2>3. CASE n \notin Of(C[l])
    <3>1. h.next[n] = NIL /\ h.prev[n] = NIL
      BY <1>8, <2>1, <2>3 DEF Holds
    <3>2. QED BY <1>1, <2>1, <2>3, <3>1
  <2>4. QED BY <2>2, <2>3
<1>9. s \cup kept \subseteq Nodes
  BY <1>1 DEF Holds
<1>10. Holds(g, holding, s \cup kept, D)
  BY <1>1, <1>2, <1>3, <1>4, <1>5, <1>6, <1>7, <1>8, <1>9 DEF Holds
<1>11. QED BY <1>10 DEF D, holding

\* What the invariant says of one list
LEMMA SeenFacts ==
  ASSUME ListsInvariant, NEW l \in Names
  PROVE  /\ links \in LinksType /\ lst \in [Names -> Nodes \cup {NIL}] /\ Seen \in [Names -> Seq(Nodes)] /\ NIL \notin Nodes
         /\ IsChain(links, Seen[l]) /\ InList(l) = Of(Seen[l]) /\ ToSet(Seen[l]) = Of(Seen[l])
         /\ Seen[l] \in Seq(Nodes) /\ Len(Seen[l]) \in Nat
         /\ IF Seen[l] = <<>> THEN lst[l] = NIL ELSE lst[l] \in Of(Seen[l])
         /\ Of(Seen[l]) \cap stale = {}
         /\ \A m \in Names : m # l => Of(Seen[l]) \cap Of(Seen[m]) = {}
<1>1. IsChain(links, Seen[l]) /\ Seen[l] \in Seq(Nodes)
  BY DEF ListsInvariant, Holds
<1>2. Len(Seen[l]) \in Nat /\ ToSet(Seen[l]) = Of(Seen[l])
  BY <1>1, ChainFacts
<1>3. InList(l) = Of(Seen[l])
  BY HeldItems DEF ListsInvariant, InList
<1>4. QED BY <1>1, <1>2, <1>3, NodesAssumption DEF ListsInvariant, Holds

\* A node in no list and not replaced has no links.
LEMMA SpareFacts ==
  ASSUME ListsInvariant, NEW x \in Spare
  PROVE  /\ x \in Nodes /\ x \notin stale /\ links.next[x] = NIL /\ links.prev[x] = NIL
         /\ \A l \in Names : x \notin Of(Seen[l])
         /\ x \in Sequences!Unused
<1>1. x \in Nodes /\ x \notin stale /\ \A l \in Names : x \notin InList(l)
  BY DEF Spare
<1>2. \A l \in Names : x \notin Of(Seen[l]) /\ ToSet(Seen[l]) = Of(Seen[l])
  BY <1>1, SeenFacts
<1>3. links.next[x] = NIL /\ links.prev[x] = NIL
  BY <1>1, <1>2 DEF ListsInvariant, Holds
<1>4. x \notin UNION {ToSet(Seen[l]) : l \in Names}
  BY <1>2
<1>5. Sequences!Unused = Nodes \ UNION {ToSet(Seen[l]) : l \in Names}
  <2>1. Sequences!Used = UNION {ToSet(Seen[l]) : l \in Names}
    BY DEF Sequences!Used, Sequences!ToSet, ToSet, Seen
  <2>2. QED BY <2>1 DEF Sequences!Unused
<1>6. QED BY <1>1, <1>2, <1>3, <1>4, <1>5

-----------------------------------------------------------------------------
(* Lists: every operation on the pointers is one on the sequences *)

\* The abstract operations are those of the community modules, too.
LEMMA SameOperations ==
  ASSUME NEW s, NEW i, NEW x
  PROVE  /\ Sequences!InsertAt(s, i, x) = InsertAt(s, i, x)
         /\ Sequences!RemoveAt(s, i) = RemoveAt(s, i)
         /\ Sequences!Reverse(s) = Reverse(s)
<1>1. Sequences!InsertAt(s, i, x) = InsertAt(s, i, x)
  BY DEF Sequences!InsertAt, InsertAt
<1>2. Sequences!RemoveAt(s, i) = RemoveAt(s, i)
  BY DEF Sequences!RemoveAt, RemoveAt
<1>3. Sequences!Reverse(s) = Reverse(s)
  BY DEF Sequences!Reverse, Reverse
<1>4. QED BY <1>1, <1>2, <1>3

\* A list turns into another: what follows for the step
LEMMA ListTurns ==
  ASSUME ListsInvariant, NEW l \in Names, NEW d, NEW kept, NEW p,
         Turned(links, Seen[l], links', d, kept), kept \subseteq Of(Seen[l]),
         IF d = <<>> THEN p = NIL ELSE p \in Of(d),
         \A m \in Names : m # l => Of(d) \cap Of(Seen[m]) = {},
         Of(d) \cap (stale \cup kept) = {},
         lst' = [lst EXCEPT ![l] = p], stale' = stale \cup kept
  PROVE  ListsInvariant' /\ Seen' = [Seen EXCEPT ![l] = d]
<1>1. Holds(links, lst, stale, Seen)
  BY DEF ListsInvariant
<1>2. Holds(links', [lst EXCEPT ![l] = p], stale \cup kept, [Seen EXCEPT ![l] = d])
  BY <1>1, OneTurns
<1>3. QED BY <1>2, SeenNext

\* A node that is in no list is put before the place i of one.
LEMMA PutStep ==
  ASSUME ListsInvariant, NEW l \in Names, NEW x \in Spare, NEW i \in 1..(Len(Seen[l]) + 1),
         NEW a, a = (IF i > 1 THEN Seen[l][i - 1] ELSE NIL), NEW b, b = (IF i <= Len(Seen[l]) THEN Seen[l][i] ELSE NIL),
         PutIn(links, links', a, x, b),
         NEW p, p \in Of(Seen[l]) \cup {x}, lst' = [lst EXCEPT ![l] = p], stale' = stale
  PROVE  ListsInvariant' /\ Sequences!Next
<1> DEFINE c == Seen[l]
           d == InsertAt(c, i, x)
<1>1. links \in LinksType /\ IsChain(links, c) /\ c \in Seq(Nodes)
  BY SeenFacts
<1>2. x \in Nodes /\ x \notin stale /\ x \in Sequences!Unused /\ \A m \in Names : x \notin Of(Seen[m])
  BY SpareFacts
<1>3. Turned(links, c, links', d, {}) /\ Of(d) = Of(c) \cup {x}
  <2>1. links \in LinksType /\ IsChain(links, c) /\ x \in Nodes /\ x \notin Of(c) /\ i \in 1..(Len(c) + 1)
    BY <1>1, <1>2
  <2>2. a = (IF i > 1 THEN c[i - 1] ELSE NIL) /\ b = (IF i <= Len(c) THEN c[i] ELSE NIL) /\ PutIn(links, links', a, x, b)
    OBVIOUS
  <2> HIDE DEF c
  <2>3. QED BY ONLY <2>1, <2>2, PutInChain
<1>4. d # <<>>
  <2>1. Of(<<>>) = {}
    BY DEF Of
  <2> HIDE DEF d
  <2>2. QED BY <1>3, <2>1
<1>5. Of(d) \cap (stale \cup {}) = {} /\ \A m \in Names : m # l => Of(d) \cap Of(Seen[m]) = {}
  <2>1. Of(c) \cap stale = {}
    BY SeenFacts
  <2>2. \A m \in Names : m # l => Of(c) \cap Of(Seen[m]) = {}
    BY SeenFacts
  <2> HIDE DEF c, d
  <2>3. QED BY <1>2, <1>3, <2>1, <2>2
<1> HIDE DEF c, d
<1>6. ListsInvariant' /\ Seen' = [Seen EXCEPT ![l] = d]
  <2>1. stale' = stale \cup {} /\ {} \subseteq Of(c)
    OBVIOUS
  <2>2. IF d = <<>> THEN p = NIL ELSE p \in Of(d)
    BY <1>3, <1>4 DEF c
  <2>3. QED BY <1>3, <1>5, <2>1, <2>2, ListTurns DEF c
<1>7. Sequences!InsertItem(l, i, x)
  <2>1. Sequences!InsertItem(l, i, x) <=> Seen' = [Seen EXCEPT ![l] = Sequences!InsertAt(Seen[l], i, x)]
    BY DEF Sequences!InsertItem, Seen
  <2>2. Sequences!InsertAt(Seen[l], i, x) = d
    BY SameOperations DEF c, d
  <2>3. QED BY <1>6, <2>1, <2>2
<1>8. QED
  <2>1. i \in 1..(Len([m \in Names |-> Items(links, lst[m])][l]) + 1)
    BY DEF Seen
  <2>2. QED BY <1>2, <1>6, <1>7, <2>1 DEF Sequences!Next

\* Where in its list a node is, and what it is linked to
LEMMA PlaceOf ==
  ASSUME ListsInvariant, NEW l \in Names, NEW p \in Of(Seen[l])
  PROVE  \E k \in 1..Len(Seen[l]) :
           /\ p = Seen[l][k] /\ p \in Nodes
           /\ links.next[p] = (IF k = Len(Seen[l]) THEN NIL ELSE Seen[l][k + 1])
           /\ links.prev[p] = (IF k = 1 THEN NIL ELSE Seen[l][k - 1])
           /\ FirstOf(links, p) = Seen[l][1] /\ LastOf(links, p) = Seen[l][Len(Seen[l])]
           /\ Items(links, p) = Seen[l] /\ Members(links, p) = Of(Seen[l])
<1>1. IsChain(links, Seen[l])
  BY SeenFacts
<1>2. PICK k \in 1..Len(Seen[l]) : p = Seen[l][k]
  BY DEF Of
<1>3. p \in Nodes
  BY <1>1, ChainFacts
<1>4. /\ links.next[p] = (IF k = Len(Seen[l]) THEN NIL ELSE Seen[l][k + 1])
      /\ links.prev[p] = (IF k = 1 THEN NIL ELSE Seen[l][k - 1])
  BY <1>1, <1>2 DEF IsChain
<1>5. /\ FirstOf(links, p) = Seen[l][1] /\ LastOf(links, p) = Seen[l][Len(Seen[l])]
      /\ Items(links, p) = Seen[l] /\ Members(links, p) = Of(Seen[l])
  BY <1>1, <1>2, ChainWalked
<1>6. QED BY <1>2, <1>3, <1>4, <1>5

\* The first item of an empty list
LEMMA PutFirst ==
  ASSUME ListsInvariant, NEW l \in Names, NEW x \in Spare, Seen[l] = <<>>,
         links' = links, lst' = [lst EXCEPT ![l] = x], stale' = stale
  PROVE  ListsInvariant' /\ Sequences!Next
<1>1. x \in Nodes /\ links.next[x] = NIL /\ links.prev[x] = NIL /\ NIL \notin Nodes /\ links \in LinksType
  BY SpareFacts, SeenFacts
<1>2. PutIn(links, links', NIL, x, NIL)
  BY <1>1 DEF PutIn
<1>3. /\ Len(Seen[l]) = 0 /\ 1 \in 1..(Len(Seen[l]) + 1) /\ x \in Of(Seen[l]) \cup {x}
      /\ NIL = (IF 1 > 1 THEN Seen[l][1 - 1] ELSE NIL) /\ NIL = (IF 1 <= Len(Seen[l]) THEN Seen[l][1] ELSE NIL)
  OBVIOUS
<1>4. QED BY <1>2, <1>3, PutStep

\* list_obj_add
LEMMA AddStep ==
  ASSUME ListsInvariant, NEW l \in Names, NEW x \in Spare, Add(l, x)
  PROVE  ListsInvariant' /\ Sequences!Next
<1> DEFINE c == Seen[l]
           n == Len(c)
<1>1. CASE c = <<>>
  <2>1. lst[l] = NIL
    BY <1>1, SeenFacts
  <2>2. links' = links /\ lst' = [lst EXCEPT ![l] = x] /\ stale' = stale
    BY <2>1 DEF Add, ObjAdd, ObjAddTo
  <2>3. QED BY <1>1, <2>2, PutFirst
<1>2. CASE c # <<>>
  <2>1. lst[l] \in Of(c) /\ n \in Nat /\ NIL \notin Nodes /\ links \in LinksType /\ IsChain(links, c)
    BY <1>2, SeenFacts
  <2>2. LastOf(links, lst[l]) = c[n] /\ lst[l] \in Nodes /\ n >= 1
    BY <2>1, PlaceOf
  <2>3. x \in Nodes /\ x \notin Of(c) /\ links.next[x] = NIL /\ links.prev[x] = NIL
    BY SpareFacts
  <2>4. c[n] \in Nodes /\ c[n] # x /\ links.next[c[n]] = NIL
    <3>1. n \in 1..n
      BY <2>1, <2>2
    <3>2. c[n] \in Of(c) /\ c[n] \in Nodes
      BY <2>1, <3>1, ChainFacts
    <3>3. QED BY <2>1, <2>3, <3>1, <3>2 DEF IsChain
  <2>5. /\ links' = AddTo(links, c[n], x) /\ stale' = stale /\ lst' = [lst EXCEPT ![l] = lst[l]]
    BY <2>1, <2>2 DEF Add, ObjAdd, ObjAddTo
  <2>6. PutIn(links, links', c[n], x, NIL)
    BY <2>1, <2>3, <2>4, <2>5, AddToPuts
  <2>7. /\ n + 1 \in 1..(n + 1) /\ lst[l] \in Of(c) \cup {x}
        /\ c[n] = (IF n + 1 > 1 THEN c[(n + 1) - 1] ELSE NIL) /\ NIL = (IF n + 1 <= n THEN c[n + 1] ELSE NIL)
    BY <2>1, <2>2
  <2>8. QED BY <2>5, <2>6, <2>7, PutStep
<1>3. QED BY <1>1, <1>2

\* list_obj_insert
LEMMA InsertStep ==
  ASSUME ListsInvariant, NEW l \in Names, NEW x \in Spare, InsertFirst(l, x)
  PROVE  ListsInvariant' /\ Sequences!Next
<1> DEFINE c == Seen[l]
           n == Len(c)
<1>0. x \in Nodes /\ x \notin Of(c) /\ links.next[x] = NIL /\ links.prev[x] = NIL /\ links \in LinksType
      /\ lst \in [Names -> Nodes \cup {NIL}] /\ NIL \notin Nodes
  BY SpareFacts, SeenFacts
<1>1. CASE c = <<>>
  <2>1. lst[l] = NIL
    BY <1>1, SeenFacts
  <2>2. FirstOf(links, x) = x
    BY <1>0, AloneWalked
  <2>3. links' = links /\ lst' = [lst EXCEPT ![l] = x] /\ stale' = stale
    BY <2>1, <2>2 DEF InsertFirst, ObjInsert, ObjInsertTo, ObjAddTo
  <2>4. QED BY <1>1, <2>3, PutFirst
<1>2. CASE c # <<>>
  <2>1. lst[l] \in Of(c) /\ n \in Nat /\ IsChain(links, c)
    BY <1>2, SeenFacts
  <2>2. FirstOf(links, lst[l]) = c[1] /\ lst[l] \in Nodes /\ n >= 1
    BY <2>1, PlaceOf
  <2>3. 1 \in 1..n
    BY <2>1, <2>2
  <2>4. c[1] \in Nodes /\ c[1] # x /\ links.prev[c[1]] = NIL /\ c[1] \in Of(c)
    <3>1. c[1] \in Of(c) /\ c[1] \in Nodes
      BY <2>1, <2>3, ChainFacts
    <3>2. links.prev[c[1]] = NIL
      BY <2>1, <2>3 DEF IsChain
    <3>3. QED BY <1>0, <3>1, <3>2
  <2>5. lst[l] # NIL
    BY <1>0, <2>2
  <2>6. /\ links' = InsertTo(links, c[1], x) /\ stale' = stale
        /\ lst' = [lst EXCEPT ![l] = FirstOf(links', lst[l])]
    BY <1>0, <2>2, <2>5 DEF InsertFirst, ObjInsert, ObjInsertTo, ObjAddTo
  <2>7. PutIn(links, links', NIL, x, c[1])
    <3>1. PutIn(links, InsertTo(links, c[1], x), links.prev[c[1]], x, c[1])
      BY <1>0, <2>4, InsertToPuts
    <3>2. QED BY <2>4, <2>6, <3>1
  <2>8. /\ 1 \in 1..(n + 1)
        /\ NIL = (IF 1 > 1 THEN c[1 - 1] ELSE NIL) /\ c[1] = (IF 1 <= n THEN c[1] ELSE NIL)
    BY <2>1, <2>2
  <2>9. FirstOf(links', lst[l]) = x
    <3> DEFINE d == InsertAt(c, 1, x)
    <3>1. Turned(links, c, links', d, {}) /\ Of(d) = Of(c) \cup {x}
      <4> HIDE DEF c, n, d
      <4>1. IsChain(links, c) /\ x \in Nodes /\ x \notin Of(c) /\ links \in LinksType /\ 1 \in 1..(Len(c) + 1)
        BY <1>0, <2>1, <2>8 DEF n
      <4>2. NIL = (IF 1 > 1 THEN c[1 - 1] ELSE NIL) /\ c[1] = (IF 1 <= Len(c) THEN c[1] ELSE NIL)
        BY <2>8 DEF n
      <4>3. ASSUME NEW i, i = 1
            PROVE  Turned(links, c, links', InsertAt(c, i, x), {}) /\ Of(InsertAt(c, i, x)) = Of(c) \cup {x}
        <5>1. /\ i \in 1..(Len(c) + 1)
              /\ NIL = (IF i > 1 THEN c[i - 1] ELSE NIL) /\ c[1] = (IF i <= Len(c) THEN c[i] ELSE NIL)
          BY <4>1, <4>2, <4>3
        <5>2. QED BY ONLY <2>7, <4>1, <5>1, PutInChain
      <4>4. QED BY <4>3 DEF d
    <3>2. d[1] = x
      <4>1. c \in Seq(Nodes) /\ x \in Nodes /\ 1 \in 1..(Len(c) + 1)
        BY <1>0, <2>8, SeenFacts
      <4> HIDE DEF c
      <4>2. ASSUME NEW i, i = 1 PROVE InsertAt(c, i, x)[i] = x
        <5>1. i \in 1..(Len(c) + 1)
          BY <4>1, <4>2
        <5>2. ~(i < i)
          BY ONLY <4>2
        <5>3. QED BY ONLY <4>1, <5>1, <5>2, Inserted
      <4>3. QED BY <4>2
    <3> HIDE DEF d
    <3>3. PICK k \in 1..Len(d) : lst[l] = d[k]
      BY <2>1, <3>1 DEF Of
    <3>4. IsChain(links', d)
      BY <3>1 DEF Turned
    <3>5. FirstOf(links', d[k]) = d[1]
      BY <3>4, ChainWalked
    <3>6. QED BY <3>2, <3>3, <3>5
  <2>10. x \in Of(c) \cup {x} /\ lst' = [lst EXCEPT ![l] = x] /\ stale' = stale
    BY <2>6, <2>9
  <2>11. QED BY <2>7, <2>8, <2>10, PutStep
<1>3. QED BY <1>1, <1>2

\* list_add_to and list_insert_to, next to a node of a list
LEMMA NextToStep ==
  ASSUME ListsInvariant, NEW l \in Names, NEW p \in InList(l), NEW x \in Spare, AddAfter(p, x) \/ InsertBefore(p, x)
  PROVE  ListsInvariant' /\ Sequences!Next
<1> DEFINE c == Seen[l]
           n == Len(c)
<1>1. /\ x \in Nodes /\ x \notin Of(c) /\ links.next[x] = NIL /\ links.prev[x] = NIL /\ links \in LinksType
      /\ NIL \notin Nodes /\ n \in Nat /\ p \in Of(c) /\ IsChain(links, c) /\ lst \in [Names -> Nodes \cup {NIL}]
  BY SpareFacts, SeenFacts
<1>2. lst[l] \in Of(c) \cup {x} /\ lst = [lst EXCEPT ![l] = lst[l]]
  <2>1. c # <<>>
    BY <1>1 DEF Of
  <2>2. QED BY <1>1, <2>1, SeenFacts
<1>3. PICK k \in 1..n : /\ p = c[k] /\ p \in Nodes
                        /\ links.next[p] = (IF k = n THEN NIL ELSE c[k + 1])
                        /\ links.prev[p] = (IF k = 1 THEN NIL ELSE c[k - 1])
  BY <1>1, PlaceOf
<1>4. (k # n => k + 1 \in 1..n) /\ (k # 1 => k - 1 \in 1..n)
  BY <1>1
<1>5. p # x /\ links.next[p] # x /\ links.prev[p] # x
  <2>1. \A j \in 1..n : c[j] # x
    BY <1>1 DEF Of
  <2>2. QED BY <1>1, <1>3, <1>4, <2>1
<1>6. CASE AddAfter(p, x)
  <2>1. PutIn(links, links', p, x, links.next[p]) /\ lst' = [lst EXCEPT ![l] = lst[l]] /\ stale' = stale
    BY <1>1, <1>2, <1>3, <1>5, <1>6, AddToPuts DEF AddAfter
  <2>2. /\ k + 1 \in 1..(n + 1)
        /\ p = (IF k + 1 > 1 THEN c[(k + 1) - 1] ELSE NIL)
        /\ links.next[p] = (IF k + 1 <= n THEN c[k + 1] ELSE NIL)
    BY <1>1, <1>3, <1>4
  <2>3. QED BY <1>2, <2>1, <2>2, PutStep
<1>7. CASE InsertBefore(p, x)
  <2>1. PutIn(links, links', links.prev[p], x, p) /\ lst' = [lst EXCEPT ![l] = lst[l]] /\ stale' = stale
    BY <1>1, <1>2, <1>3, <1>5, <1>7, InsertToPuts DEF InsertBefore
  <2>2. /\ k \in 1..(n + 1)
        /\ links.prev[p] = (IF k > 1 THEN c[k - 1] ELSE NIL)
        /\ p = (IF k <= n THEN c[k] ELSE NIL)
    BY <1>1, <1>3, <1>4
  <2>3. QED BY <1>2, <2>1, <2>2, PutStep
<1>8. QED BY <1>6, <1>7

\* list_obj_del
LEMMA DeleteStep ==
  ASSUME ListsInvariant, NEW l \in Names, NEW x \in InList(l), Delete(l, x)
  PROVE  ListsInvariant' /\ Sequences!Next
<1> DEFINE c == Seen[l]
           n == Len(c)
<1>1. /\ links \in LinksType /\ NIL \notin Nodes /\ n \in Nat /\ x \in Of(c) /\ IsChain(links, c) /\ c \in Seq(Nodes)
      /\ lst \in [Names -> Nodes \cup {NIL}]
  BY SeenFacts
<1>2. PICK k \in 1..n : /\ x = c[k] /\ x \in Nodes
                        /\ links.next[x] = (IF k = n THEN NIL ELSE c[k + 1])
                        /\ links.prev[x] = (IF k = 1 THEN NIL ELSE c[k - 1])
  BY <1>1, PlaceOf
<1>3. lst[l] \in Of(c)
  <2>1. c # <<>>
    BY <1>1 DEF Of
  <2>2. QED BY <2>1, SeenFacts
<1>4. PICK j \in 1..n : /\ lst[l] = c[j] /\ lst[l] \in Nodes
                        /\ links.next[lst[l]] = (IF j = n THEN NIL ELSE c[j + 1])
                        /\ links.prev[lst[l]] = (IF j = 1 THEN NIL ELSE c[j - 1])
  BY <1>3, PlaceOf
<1>5. \A i \in 1..n : c[i] \in Of(c) /\ c[i] \in Nodes /\ c[i] # NIL
  BY <1>1, ChainFacts
<1>6. ~(IsAlone(links, lst[l]) /\ lst[l] # x)
  <2> SUFFICES ASSUME IsAlone(links, lst[l]), lst[l] # x PROVE FALSE
    OBVIOUS
  <2>1. links.next[lst[l]] = NIL /\ links.prev[lst[l]] = NIL
    BY DEF IsAlone
  <2>2. (j # n => j + 1 \in 1..n) /\ (j # 1 => j - 1 \in 1..n)
    BY <1>1
  <2>3. j = n /\ j = 1
    BY <1>4, <1>5, <2>1, <2>2
  <2>4. k = j
    BY <1>1, <2>3
  <2>5. QED BY <1>2, <1>4, <2>4
<1>7. links.next[x] # x /\ links.prev[x] # x
  <2>1. \A i, m \in 1..n : c[i] = c[m] => i = m
    BY <1>1 DEF IsChain
  <2>2. (k # n => k + 1 \in 1..n /\ k + 1 # k) /\ (k # 1 => k - 1 \in 1..n /\ k - 1 # k)
    BY <1>1
  <2>3. QED BY <1>1, <1>2, <2>1, <2>2
<1>8. TakenOut(links, links', x)
  <2>1. links' = FreeItem(RemoveFrom(links, x), x)
    BY <1>6 DEF Delete, ObjDel, ObjStrip
  <2>2. QED BY <1>1, <1>2, <1>7, <2>1, RemoveFromTakes, FreeItemTakes
<1> DEFINE d == RemoveAt(c, k)
           p == ObjStripTo(links, lst[l], x)
<1>9. Turned(links, c, links', d, {}) /\ Of(d) = Of(c) \ {x}
  <2>1. links \in LinksType /\ IsChain(links, c) /\ k \in 1..Len(c) /\ TakenOut(links, links', c[k])
    BY <1>1, <1>2, <1>8
  <2> HIDE DEF c
  <2>2. Turned(links, c, links', d, {}) /\ Of(d) = Of(c) \ {c[k]}
    BY ONLY <2>1, TakenOutOfChain DEF d
  <2>3. QED BY <1>2, <2>2
<1>10. (k # n => k + 1 \in 1..n /\ k + 1 # k) /\ (k # 1 => k - 1 \in 1..n /\ k - 1 # k)
  BY <1>1
<1>11. \A i \in 1..n : i # k => c[i] \in Of(c) \ {x} /\ c[i] # NIL
  BY <1>1, <1>2, <1>5 DEF IsChain
<1>12. IF d = <<>> THEN p = NIL ELSE p \in Of(d)
  <2>1. p = (IF lst[l] # x THEN lst[l] ELSE IF links.next[x] # NIL THEN links.next[x] ELSE links.prev[x])
    BY DEF ObjStripTo
  <2>2. p \in Of(d) \/ (p = NIL /\ k = n /\ k = 1)
    <3>1. CASE lst[l] # x
      BY <1>3, <1>9, <2>1, <3>1
    <3>2. CASE lst[l] = x /\ k # n
      BY <1>2, <1>9, <1>10, <1>11, <2>1, <3>2
    <3>3. CASE lst[l] = x /\ k = n /\ k # 1
      BY <1>2, <1>9, <1>10, <1>11, <2>1, <3>3
    <3>4. CASE lst[l] = x /\ k = n /\ k = 1
      BY <1>2, <2>1, <3>4
    <3>5. QED BY <3>1, <3>2, <3>3, <3>4
  <2>3. k = n /\ k = 1 => d = <<>>
    <3>1. k \in DOMAIN c
      BY <1>1, LenProperties
    <3>2. d \in Seq(Nodes) /\ Len(d) = n - 1
      BY <1>1, <3>1, RemovedAt
    <3> HIDE DEF d
    <3>3. QED BY <3>2, EmptySeq
  <2>4. Of(<<>>) = {}
    BY DEF Of
  <2> HIDE DEF d, p
  <2>5. QED BY <2>2, <2>3, <2>4
<1>13. Of(d) \cap (stale \cup {}) = {} /\ \A m \in Names : m # l => Of(d) \cap Of(Seen[m]) = {}
  <2>1. Of(c) \cap stale = {}
    BY SeenFacts
  <2>2. \A m \in Names : m # l => Of(c) \cap Of(Seen[m]) = {}
    BY SeenFacts
  <2> HIDE DEF c, d
  <2>3. QED BY <1>9, <2>1, <2>2
<1>14. lst' = [lst EXCEPT ![l] = p] /\ stale' = stale \cup {} /\ {} \subseteq Of(Seen[l])
  BY DEF Delete
<1> HIDE DEF d, p
<1>15. ListsInvariant' /\ Seen' = [Seen EXCEPT ![l] = d]
  BY <1>9, <1>12, <1>13, <1>14, ListTurns
<1>16. Sequences!RemoveItem(l, k)
  <2>1. Sequences!RemoveItem(l, k) <=> Seen' = [Seen EXCEPT ![l] = Sequences!RemoveAt(Seen[l], k)]
    BY DEF Sequences!RemoveItem, Seen
  <2>2. Sequences!RemoveAt(Seen[l], k) = d
    BY SameOperations DEF d
  <2>3. QED BY <1>15, <2>1, <2>2
<1>17. QED
  <2>1. k \in 1..Len([m \in Names |-> Items(links, lst[m])][l])
    BY DEF Seen
  <2>2. QED BY <1>15, <1>16, <2>1 DEF Sequences!Next

\* list_obj_del, of the first item a comparator accepts
LEMMA DeleteFoundStep ==
  ASSUME ListsInvariant, NEW l \in Names, NEW r, DeleteFound(l, r)
  PROVE  ListsInvariant' /\ Sequences!Next
<1> DEFINE x == Search(links, lst[l], LAMBDA n : Rank[n] = r)
           all == Items(links, lst[l])
           I == {i \in 1..Len(all) : Rank[all[i]] = r}
<1>1. all = Seen[l] /\ InList(l) = Of(Seen[l])
  BY SeenFacts DEF Seen
<1>2. x # NIL /\ Delete(l, x)
  BY DEF DeleteFound
<1>3. x = IF (IF I # {} THEN Min(I) ELSE 0) = 0 THEN NIL ELSE all[IF I # {} THEN Min(I) ELSE 0]
  BY DEF Search, SelectInSeq
<1>4. I # {}
  BY <1>2, <1>3
<1>5. Len(all) \in Nat
  BY <1>1, SeenFacts
<1>6. I \subseteq Nat
  BY <1>5
<1>7. Min(I) \in I
  <2> HIDE DEF I
  <2>1. QED BY <1>4, <1>6, MinOf
<1>8. x = all[Min(I)] /\ Min(I) \in 1..Len(all)
  BY <1>2, <1>3, <1>4, <1>7
<1> HIDE DEF x, all, I
<1>9. x \in InList(l)
  BY <1>1, <1>8 DEF Of
<1>10. QED BY <1>2, <1>9, DeleteStep

\* list_obj_replace
LEMMA ReplaceStep ==
  ASSUME ListsInvariant, NEW l \in Names, NEW old \in InList(l), NEW x \in Spare, Replace(l, old, x)
  PROVE  ListsInvariant' /\ Sequences!Next
<1> DEFINE c == Seen[l]
           n == Len(c)
<1>1. /\ links \in LinksType /\ n \in Nat /\ old \in Of(c) /\ IsChain(links, c) /\ lst \in [Names -> Nodes \cup {NIL}]
      /\ x \in Nodes /\ x \notin stale /\ x \notin Of(c) /\ links.next[x] = NIL /\ links.prev[x] = NIL
      /\ x \in Sequences!Unused /\ \A m \in Names : x \notin Of(Seen[m])
  BY SeenFacts, SpareFacts
<1>2. PICK k \in 1..n : old = c[k]
  BY <1>1 DEF Of
<1>3. lst[l] \in Of(c)
  <2>1. c # <<>>
    BY <1>1 DEF Of
  <2>2. QED BY <2>1, SeenFacts
<1> DEFINE d == Replaced(c, k, x)
           p == IF lst[l] = old THEN x ELSE lst[l]
<1>4. Turned(links, c, links', d, {old}) /\ Of(d) = (Of(c) \ {old}) \cup {x}
  <2>1. /\ links \in LinksType /\ IsChain(links, c) /\ k \in 1..Len(c) /\ x \in Nodes /\ x \notin Of(c)
        /\ links.next[x] = NIL /\ links.prev[x] = NIL
    BY <1>1
  <2>2. links' = ObjReplace(links, c[k], x)
    BY <1>2 DEF Replace
  <2> HIDE DEF c
  <2>3. ASSUME NEW kept, kept = {c[k]}, NEW e, e = ObjReplace(links, c[k], x)
        PROVE  HasReplaced(links, c, k, x, e, kept)
    BY ONLY <2>1, <2>3, ReplaceTurns
  <2>4. Turned(links, c, links', d, {c[k]}) /\ Of(d) = (Of(c) \ {c[k]}) \cup {x}
    BY <2>2, <2>3 DEF d, HasReplaced
  <2>5. QED BY <1>2, <2>4
<1>5. p \in Of(d) /\ d # <<>>
  <2>1. Of(<<>>) = {}
    BY DEF Of
  <2> HIDE DEF d, c
  <2>2. QED BY <1>3, <1>4, <2>1
<1>6. Of(d) \cap (stale \cup {old}) = {} /\ \A m \in Names : m # l => Of(d) \cap Of(Seen[m]) = {}
  <2>1. Of(c) \cap stale = {}
    BY SeenFacts
  <2>2. \A m \in Names : m # l => Of(c) \cap Of(Seen[m]) = {}
    BY SeenFacts
  <2>3. old # x
    BY <1>1
  <2> HIDE DEF c, d
  <2>4. QED BY <1>1, <1>4, <2>1, <2>2, <2>3
<1>7. lst' = [lst EXCEPT ![l] = p] /\ stale' = stale \cup {old} /\ {old} \subseteq Of(Seen[l])
  BY <1>1 DEF Replace
<1> HIDE DEF d, p
<1>8. ListsInvariant' /\ Seen' = [Seen EXCEPT ![l] = d]
  <2>1. IF d = <<>> THEN p = NIL ELSE p \in Of(d)
    BY <1>5
  <2>2. QED BY <1>4, <1>6, <1>7, <2>1, ListTurns
<1>9. Sequences!ReplaceItem(l, k, x)
  <2>1. Sequences!ReplaceItem(l, k, x) <=> Seen' = [Seen EXCEPT ![l] = [Seen[l] EXCEPT ![k] = x]]
    BY DEF Sequences!ReplaceItem, Seen
  <2>2. QED BY <1>8, <2>1 DEF d, Replaced
<1>10. QED
  <2>1. k \in 1..Len([m \in Names |-> Items(links, lst[m])][l])
    BY DEF Seen
  <2>2. QED BY <1>1, <1>8, <1>9, <2>1 DEF Sequences!Next

\* A list whose nodes change places keeps its list**.
LEMMA OrderStep ==
  ASSUME ListsInvariant, NEW l \in Names, NEW d, Turned(links, Seen[l], links', d, {}), Of(d) = Of(Seen[l]),
         Seen[l] # <<>>, lst' = lst, stale' = stale
  PROVE  ListsInvariant' /\ Seen' = [Seen EXCEPT ![l] = d]
<1>1. lst[l] \in Of(d) /\ Of(<<>>) = {} /\ lst' = [lst EXCEPT ![l] = lst[l]] /\ stale' = stale \cup {} /\ {} \subseteq Of(Seen[l])
  <2>1. lst \in [Names -> Nodes \cup {NIL}] /\ lst[l] \in Of(Seen[l])
    BY SeenFacts
  <2>2. Of(<<>>) = {}
    BY DEF Of
  <2>3. lst = [lst EXCEPT ![l] = lst[l]]
    BY <2>1
  <2>4. QED BY <2>1, <2>2, <2>3
<1>2. Of(d) \cap (stale \cup {}) = {} /\ \A m \in Names : m # l => Of(d) \cap Of(Seen[m]) = {}
  BY SeenFacts
<1>3. IF d = <<>> THEN lst[l] = NIL ELSE lst[l] \in Of(d)
  BY <1>1
<1>4. QED BY <1>1, <1>2, <1>3, ListTurns

\* list_swap_neighbor
LEMMA SwapStep ==
  ASSUME ListsInvariant, NEW l \in Names, NEW x \in InList(l), SwapNext(x)
  PROVE  ListsInvariant' /\ Sequences!Next
<1> DEFINE c == Seen[l]
           n == Len(c)
<1>1. links \in LinksType /\ n \in Nat /\ x \in Of(c) /\ IsChain(links, c) /\ c \in Seq(Nodes) /\ c \in [1..n -> Nodes]
  BY SeenFacts, LenProperties
<1>2. PICK k \in 1..n : x = c[k] /\ links.next[x] = (IF k = n THEN NIL ELSE c[k + 1])
  BY <1>1, PlaceOf
<1>3. links.next[x] # NIL /\ links' = SwapNeighbor(links, x, links.next[x]) /\ lst' = lst /\ stale' = stale
  BY DEF SwapNext
<1>4. k \in 1..(n - 1) /\ k + 1 \in 1..n /\ k # k + 1
  BY <1>1, <1>2, <1>3
<1>5. links' = SwapNeighbor(links, c[k], c[k + 1])
  BY <1>2, <1>3
<1>6. Turned(links, c, links', Swapped(c, k), {}) /\ Of(Swapped(c, k)) = Of(c)
  BY <1>1, <1>4, <1>5, SwapTurns
<1>7. c # <<>>
  BY <1>1 DEF Of
<1>8. ListsInvariant' /\ Seen' = [Seen EXCEPT ![l] = Swapped(Seen[l], k)]
  BY <1>3, <1>6, <1>7, OrderStep
<1>9. Sequences!SwapItems(l, k)
  <2>1. Sequences!SwapItems(l, k) <=>
          Seen' = [Seen EXCEPT ![l] = [Seen[l] EXCEPT ![k] = Seen[l][k + 1]],
                               ![l] = [[Seen[l] EXCEPT ![k] = Seen[l][k + 1]] EXCEPT ![k + 1] = Seen[l][k]]]
    BY DEF Sequences!SwapItems, Seen
  <2>2. QED BY <1>8, <2>1 DEF Swapped
<1>10. QED
  <2>1. k \in 1..(Len([m \in Names |-> Items(links, lst[m])][l]) - 1)
    BY <1>4 DEF Seen
  <2>2. QED BY <1>8, <1>9, <2>1 DEF Sequences!Next

\* list_reverse
LEMMA ReverseStep ==
  ASSUME ListsInvariant, NEW l \in Names, lst[l] # NIL, ReverseOrder(l)
  PROVE  ListsInvariant' /\ Sequences!Next
<1> DEFINE c == Seen[l]
<1>1. links \in LinksType /\ IsChain(links, c) /\ c # <<>> /\ lst[l] \in Of(c)
  BY SeenFacts
<1>2. PICK k \in 1..Len(c) : lst[l] = c[k]
  BY <1>1 DEF Of
<1>3. links' = ReverseList(links, c[k]) /\ lst' = lst /\ stale' = stale
  BY <1>2 DEF ReverseOrder
<1>4. Turned(links, c, links', Reverse(c), {}) /\ Of(Reverse(c)) = Of(c)
  BY <1>1, <1>3, ReverseTurns
<1>5. ListsInvariant' /\ Seen' = [Seen EXCEPT ![l] = Reverse(c)]
  BY <1>1, <1>3, <1>4, OrderStep
<1>6. Sequences!ReverseItems(l)
  <2>1. Sequences!ReverseItems(l) <=> Seen' = [Seen EXCEPT ![l] = Sequences!Reverse(Seen[l])]
    BY DEF Sequences!ReverseItems, Seen
  <2>2. QED BY <1>5, <2>1, SameOperations
<1>7. QED BY <1>5, <1>6 DEF Sequences!Next

\* list_free_all
LEMMA FreeStep ==
  ASSUME ListsInvariant, NEW l \in Names, lst[l] # NIL, FreeAll(l)
  PROVE  ListsInvariant' /\ Sequences!Next
<1> DEFINE c == Seen[l]
<1>1. links \in LinksType /\ IsChain(links, c) /\ c # <<>> /\ lst[l] \in Of(c)
  BY SeenFacts
<1>2. PICK k \in 1..Len(c) : lst[l] = c[k]
  BY <1>1 DEF Of
<1>3. links' = FreeList(links, c[k]) /\ lst' = [lst EXCEPT ![l] = NIL] /\ stale' = stale \cup {}
  BY <1>2 DEF FreeAll
<1>4. Turned(links, c, links', <<>>, {}) /\ Of(<<>>) = {}
  BY <1>1, <1>3, FreeTurns
<1>5. /\ {} \subseteq Of(Seen[l]) /\ Of(<<>>) \cap (stale \cup {}) = {}
      /\ \A m \in Names : m # l => Of(<<>>) \cap Of(Seen[m]) = {}
  BY <1>4
<1>6. ASSUME NEW d, d = <<>> PROVE ListsInvariant' /\ Seen' = [Seen EXCEPT ![l] = d]
  <2>1. /\ Turned(links, Seen[l], links', d, {}) /\ {} \subseteq Of(Seen[l])
        /\ IF d = <<>> THEN NIL = NIL ELSE NIL \in Of(d)
        /\ Of(d) \cap (stale \cup {}) = {} /\ \A m \in Names : m # l => Of(d) \cap Of(Seen[m]) = {}
    BY <1>4, <1>5, <1>6
  <2>2. QED BY <1>3, <2>1, ListTurns
<1>7. Sequences!Clear(l)
  <2>1. Sequences!Clear(l) <=> Seen' = [Seen EXCEPT ![l] = <<>>]
    BY DEF Sequences!Clear, Seen
  <2>2. QED BY <1>6, <2>1
<1>8. QED BY <1>6, <1>7 DEF Sequences!Next

\* list_merge, whose caller gives up the second list**
LEMMA MergeStep ==
  ASSUME ListsInvariant, NEW l \in Names, NEW m \in Names \ {l}, Merge(l, m)
  PROVE  ListsInvariant' /\ Sequences!Next
<1> DEFINE c == Seen[l]
           d == Seen[m]
           n == Len(c)
           D == [Seen EXCEPT ![l] = c \o d, ![m] = <<>>]
<1>1. /\ links \in LinksType /\ lst \in [Names -> Nodes \cup {NIL}] /\ NIL \notin Nodes /\ Seen \in [Names -> Seq(Nodes)]
      /\ n \in Nat /\ IsChain(links, c) /\ IsChain(links, d) /\ c \in Seq(Nodes) /\ d \in Seq(Nodes) /\ Len(d) \in Nat
      /\ Of(c) \cap Of(d) = {}
  BY SeenFacts
<1>2. c # <<>> /\ lst[l] \in Of(c) /\ d # <<>> /\ lst[m] \in Of(d)
  BY SeenFacts DEF Merge
<1>3. LastOf(links, lst[l]) = c[n]
  BY <1>2, PlaceOf
<1>4. FirstOf(links, lst[m]) = d[1]
  BY <1>2, PlaceOf
<1>5. n \in 1..n /\ 1 \in 1..Len(d)
  <2>1. n # 0 /\ Len(d) # 0
    BY <1>1, <1>2, EmptySeq
  <2>2. QED BY <1>1, <2>1
<1>6. /\ \A j \in 1..n : c[j] \in Of(c) /\ c[j] \in Nodes /\ c[j] # NIL
      /\ \A j \in 1..Len(d) : d[j] \in Of(d) /\ d[j] \in Nodes /\ d[j] # NIL
      /\ Of(c) \subseteq Nodes /\ Of(d) \subseteq Nodes
  BY <1>1, ChainFacts
<1>7. c[n] # d[1] /\ links.next[c[n]] = NIL
  <2>1. links.next[c[n]] = NIL
    BY <1>1, <1>5 DEF IsChain
  <2>2. QED BY <1>1, <1>5, <1>6, <2>1
<1>8. links' = Link(links, c[n], d[1])
  BY <1>3, <1>4, <1>5, <1>6, <1>7 DEF Merge, AddTo
<1>9. AreLinked(links, links', c[n], d[1])
  BY <1>1, <1>5, <1>6, <1>8, Linked
<1>10. \A j \in 1..n : c[j] = c[n] => j = n
  BY <1>1, <1>5 DEF IsChain
<1>11. \A j \in 1..Len(d) : d[j] = d[1] => j = 1
  BY <1>1, <1>5 DEF IsChain
<1> HIDE DEF c, d, n
<1>12. /\ \A j \in 1..n : /\ links'.next[c[j]] = IF j = n THEN d[1] ELSE links.next[c[j]]
                          /\ links'.prev[c[j]] = links.prev[c[j]]
       /\ \A j \in 1..Len(d) : /\ links'.next[d[j]] = links.next[d[j]]
                               /\ links'.prev[d[j]] = IF j = 1 THEN c[n] ELSE links.prev[d[j]]
  BY <1>1, <1>5, <1>6, <1>9, <1>10, <1>11 DEF AreLinked
<1>13. IsChain(links', c \o d) /\ Of(c \o d) = Of(c) \cup Of(d)
  <2>1. IsChain(links, c) /\ IsChain(links, d) /\ Of(c) \cap Of(d) = {} /\ c # <<>> /\ d # <<>>
    BY <1>1, <1>2 DEF c, d
  <2>2. /\ \A j \in 1..Len(c) : /\ links'.next[c[j]] = IF j = Len(c) THEN d[1] ELSE links.next[c[j]]
                               /\ links'.prev[c[j]] = links.prev[c[j]]
        /\ \A j \in 1..Len(d) : /\ links'.next[d[j]] = links.next[d[j]]
                               /\ links'.prev[d[j]] = IF j = 1 THEN c[Len(c)] ELSE links.prev[d[j]]
    BY <1>12 DEF n
  <2>3. IsChain(links', c \o d)
    BY ONLY <2>1, <2>2, ChainsJoined
  <2>4. Of(c \o d) = Of(c) \cup Of(d)
    <3>1. ToSet(c) = Of(c) /\ ToSet(d) = Of(d) /\ ToSet(c \o d) = Of(c \o d)
      BY <2>1, <2>3, ChainFacts
    <3>2. c \in Seq(Nodes) /\ d \in Seq(Nodes)
      BY <1>1 DEF c, d
    <3>3. ToSet(c \o d) = ToSet(c) \cup ToSet(d)
      BY <3>2, Concatenated
    <3>4. QED BY <3>1, <3>3
  <2>5. QED BY <2>3, <2>4
<1>14. \A x \in Nodes \ (Of(c) \cup Of(d)) : links'.next[x] = links.next[x] /\ links'.prev[x] = links.prev[x]
  BY <1>5, <1>6, <1>9 DEF AreLinked
<1>15. lst' = [lst EXCEPT ![m] = NIL] /\ stale' = stale
  BY DEF Merge
<1>16. c \o d \in Seq(Nodes) /\ <<>> \in Seq(Nodes)
  BY <1>1, ConcatProperties
<1>17. /\ D \in [Names -> Seq(Nodes)] /\ D[l] = c \o d /\ D[m] = <<>>
       /\ \A k \in Names : k # l /\ k # m => D[k] = Seen[k]
  BY <1>1, <1>16
<1>18. /\ lst' \in [Names -> Nodes \cup {NIL}] /\ lst'[m] = NIL
       /\ \A k \in Names : k # m => lst'[k] = lst[k]
  BY <1>1, <1>15
<1> HIDE DEF D
<1>19. Of(<<>>) = {} /\ IsChain(links', <<>>)
  BY DEF Of, IsChain
<1>20. /\ Of(D[l]) = Of(c) \cup Of(d) /\ Of(D[m]) = {}
       /\ \A k \in Names : k # l /\ k # m => Of(D[k]) = Of(Seen[k]) /\ Of(D[k]) \cap (Of(c) \cup Of(d)) = {}
  <2>1. ASSUME NEW k \in Names, k # l, k # m PROVE Of(Seen[k]) \cap (Of(c) \cup Of(d)) = {}
    <3>1. Of(Seen[k]) \cap Of(c) = {} /\ Of(Seen[k]) \cap Of(d) = {}
      BY <2>1, SeenFacts DEF c, d
    <3>2. QED BY <3>1
  <2>2. QED BY <1>13, <1>17, <1>19, <2>1
<1>21. ASSUME NEW k \in Names PROVE IsChain(links', D[k])
  <2>1. CASE k # l /\ k # m
    <3>1. IsChain(links, Seen[k])
      BY SeenFacts
    <3>2. Of(Seen[k]) \subseteq Nodes
      BY <3>1, ChainFacts
    <3>3. \A x \in Of(Seen[k]) : links'.next[x] = links.next[x] /\ links'.prev[x] = links.prev[x]
      BY <1>14, <1>20, <2>1, <3>2
    <3>4. QED BY <1>17, <2>1, <3>1, <3>3, ChainStays
  <2>2. QED BY <1>13, <1>17, <1>19, <2>1
<1>22. ASSUME NEW k \in Names PROVE IF D[k] = <<>> THEN lst'[k] = NIL ELSE lst'[k] \in Of(D[k])
  <2>1. CASE k = l
    <3>1. lst'[k] \in Of(D[k])
      BY <1>2, <1>18, <1>20, <2>1 DEF c
    <3>2. D[k] # <<>>
      BY <1>19, <3>1
    <3>3. QED BY <3>1, <3>2
  <2>2. CASE k = m
    BY <1>17, <1>18, <2>2
  <2>3. CASE k # l /\ k # m
    <3>1. IF Seen[k] = <<>> THEN lst[k] = NIL ELSE lst[k] \in Of(Seen[k])
      BY SeenFacts
    <3>2. D[k] = Seen[k] /\ lst'[k] = lst[k]
      BY <1>17, <1>18, <2>3
    <3>3. QED BY <3>1, <3>2
  <2>4. QED BY <2>1, <2>2, <2>3
<1>23. ASSUME NEW j \in Names, NEW k \in Names, j # k PROVE Of(D[j]) \cap Of(D[k]) = {}
  <2>1. CASE j = m \/ k = m
    BY <1>20, <2>1
  <2>2. CASE j = l /\ k # m
    BY <1>20, <1>23, <2>2
  <2>3. CASE k = l /\ j # m
    BY <1>20, <1>23, <2>3
  <2>4. CASE j # l /\ j # m /\ k # l /\ k # m
    <3>1. Of(Seen[j]) \cap Of(Seen[k]) = {}
      BY <1>23, SeenFacts
    <3>2. QED BY <1>20, <2>4, <3>1
  <2>5. QED BY <2>1, <2>2, <2>3, <2>4
<1>24. ASSUME NEW k \in Names PROVE Of(D[k]) \cap stale' = {}
  <2>1. Of(c) \cap stale = {} /\ Of(d) \cap stale = {} /\ Of(Seen[k]) \cap stale = {}
    BY SeenFacts DEF c, d
  <2>2. QED BY <1>15, <1>20, <2>1
<1>25. ASSUME NEW x \in Nodes, x \notin stale', \A k \in Names : x \notin Of(D[k])
       PROVE  links'.next[x] = NIL /\ links'.prev[x] = NIL
  <2>1. x \notin Of(c) \cup Of(d) /\ \A k \in Names : k # l /\ k # m => x \notin Of(Seen[k])
    BY <1>20, <1>25
  <2>2. \A k \in Names : x \notin Of(Seen[k])
    BY <2>1 DEF c, d
  <2>3. links.next[x] = NIL /\ links.prev[x] = NIL
    BY <1>15, <1>25, <2>2 DEF ListsInvariant, Holds
  <2>4. QED BY <1>14, <2>1, <2>3
<1>26. links' \in LinksType /\ stale' \subseteq Nodes
  BY <1>9, <1>15 DEF AreLinked, ListsInvariant, Holds
<1>27. Holds(links', lst', stale', D)
  BY <1>17, <1>18, <1>21, <1>22, <1>23, <1>24, <1>25, <1>26 DEF Holds
<1>28. ListsInvariant' /\ Seen' = D
  BY <1>27, SeenNext
<1>29. Sequences!Concatenate(l, m)
  <2>1. Sequences!Concatenate(l, m) <=> Seen' = [Seen EXCEPT ![l] = Seen[l] \o Seen[m], ![m] = <<>>]
    BY DEF Sequences!Concatenate, Seen
  <2>2. QED BY <1>28, <2>1 DEF D, c, d
<1>30. QED BY <1>28, <1>29 DEF Sequences!Next

\* A replaced node is freed, and cleared when it is allocated again.
LEMMA RenewStep ==
  ASSUME ListsInvariant, NEW x \in stale, Renew(x)
  PROVE  ListsInvariant' /\ Seen' = Seen
<1> DEFINE pv == [links.prev EXCEPT ![x] = NIL]
           nx == [links.next EXCEPT ![x] = NIL]
<1>1. links \in LinksType /\ lst \in [Names -> Nodes \cup {NIL}] /\ stale \subseteq Nodes /\ Seen \in [Names -> Seq(Nodes)]
  BY DEF ListsInvariant, Holds
<1>2. links' = [prev |-> pv, next |-> nx] /\ stale' = stale \ {x} /\ lst' = lst
  BY DEF Renew
<1>3. /\ pv \in [Nodes -> Nodes \cup {NIL}] /\ \A n \in Nodes : pv[n] = IF n = x THEN NIL ELSE links.prev[n]
      /\ nx \in [Nodes -> Nodes \cup {NIL}] /\ \A n \in Nodes : nx[n] = IF n = x THEN NIL ELSE links.next[n]
  BY <1>1, LinksFacts
<1> HIDE DEF pv, nx
<1>4. links' \in LinksType /\ links'.next = nx /\ links'.prev = pv
  BY <1>2, <1>3, LinksMade
<1>5. \A l \in Names : x \notin Of(Seen[l]) /\ Of(Seen[l]) \subseteq Nodes
  <2>1. \A l \in Names : Of(Seen[l]) \cap stale = {} /\ IsChain(links, Seen[l])
    BY SeenFacts
  <2>2. QED BY <2>1, ChainFacts
<1>6. ASSUME NEW l \in Names PROVE IsChain(links', Seen[l])
  <2>1. IsChain(links, Seen[l])
    BY SeenFacts
  <2>2. \A n \in Of(Seen[l]) : links'.next[n] = links.next[n] /\ links'.prev[n] = links.prev[n]
    BY <1>3, <1>4, <1>5
  <2>3. QED BY <2>1, <2>2, ChainStays
<1>7. ASSUME NEW n \in Nodes, n \notin stale', \A l \in Names : n \notin Of(Seen[l])
      PROVE  links'.next[n] = NIL /\ links'.prev[n] = NIL
  <2>1. n # x => links.next[n] = NIL /\ links.prev[n] = NIL
    BY <1>2, <1>7 DEF ListsInvariant, Holds
  <2>2. QED BY <1>3, <1>4, <2>1
<1>8. Holds(links', lst', stale', Seen)
  <2>1. /\ \A l \in Names : IF Seen[l] = <<>> THEN lst[l] = NIL ELSE lst[l] \in Of(Seen[l])
        /\ \A l, m \in Names : l # m => Of(Seen[l]) \cap Of(Seen[m]) = {}
        /\ \A l \in Names : Of(Seen[l]) \cap stale' = {}
    BY <1>2 DEF ListsInvariant, Holds
  <2>2. QED BY <1>1, <1>2, <1>4, <1>6, <1>7, <2>1 DEF Holds
<1>9. QED BY <1>8, SeenNext

\* At first every list is empty.
LEMMA ListsBegin ==
  ASSUME ListsInit
  PROVE  ListsInvariant /\ Sequences!Init
<1> DEFINE C == [l \in Names |-> <<>>]
           none == [n \in Nodes |-> NIL]
<1>1. links = [prev |-> none, next |-> none] /\ lst = [l \in Names |-> NIL] /\ stale = {}
  BY DEF ListsInit, Unlinked
<1>2. none \in [Nodes -> Nodes \cup {NIL}] /\ \A n \in Nodes : none[n] = NIL
  OBVIOUS
<1> HIDE DEF none
<1>3. links \in LinksType /\ links.next = none /\ links.prev = none
  BY <1>1, <1>2, LinksMade
<1>4. C \in [Names -> Seq(Nodes)] /\ \A l \in Names : C[l] = <<>>
  <2>1. <<>> \in Seq(Nodes)
    OBVIOUS
  <2>2. QED BY <2>1
<1> HIDE DEF C
<1>5. IsChain(links, <<>>) /\ Of(<<>>) = {}
  BY DEF IsChain, Of
<1>6. Holds(links, lst, stale, C)
  BY <1>1, <1>2, <1>3, <1>4, <1>5 DEF Holds
<1>7. Seen = C
  <2>1. \A l \in Names : Items(links, lst[l]) = C[l]
    BY <1>6, HeldItems
  <2>2. C = [l \in Names |-> C[l]]
    BY DEF C
  <2>3. QED BY <2>1, <2>2 DEF Seen
<1>8. Sequences!Init
  BY <1>7 DEF Sequences!Init, Seen, C
<1>9. QED BY <1>6, <1>7, <1>8 DEF ListsInvariant

-----------------------------------------------------------------------------
(* Lists: the sorter, each of whose passes leaves fewer pairs in the wrong order *)

\* The pairs of nodes that are in the wrong order
Wrong(c) ==
  {w \in Nodes \X Nodes : \E i, j \in 1..Len(c) : i < j /\ c[i] = w[1] /\ c[j] = w[2] /\ Swaps(w[1], w[2])}

\* d has fewer of them than c.
Better(d, c) == Wrong(d) \subseteq Wrong(c) /\ Wrong(d) # Wrong(c)

\* A swap that the sorter asks for puts one pair right and no other one wrong.
LEMMA SwapHelps ==
  ASSUME NEW c \in Seq(Nodes), \A i, j \in 1..Len(c) : c[i] = c[j] => i = j,
         NEW k \in 1..(Len(c) - 1), Swaps(c[k], c[k + 1])
  PROVE  Better(Swapped(c, k), c)
<1> DEFINE n == Len(c)
           e == Swapped(c, k)
<1>1. /\ Len(e) = n /\ n \in Nat /\ k \in 1..n /\ k + 1 \in 1..n /\ k + 1 # k /\ e[k] = c[k + 1] /\ e[k + 1] = c[k]
      /\ \A j \in 1..n : j # k /\ j # k + 1 => e[j] = c[j]
  BY SwappedFacts
<1> HIDE DEF e
<1>2. c[k] \in Nodes /\ c[k + 1] \in Nodes
  BY <1>1, LenProperties
<1>3. Rank[c[k]] \in Nat /\ Rank[c[k + 1]] \in Nat /\ Rank[c[k]] > Rank[c[k + 1]]
  BY <1>2, RankAssumption DEF Swaps
<1>4. ~Swaps(c[k + 1], c[k])
  BY <1>3 DEF Swaps
<1>5. ASSUME NEW w \in Wrong(e) PROVE w \in Wrong(c) /\ w # <<c[k], c[k + 1]>>
  <2>1. PICK i \in 1..n, j \in 1..n : i < j /\ e[i] = w[1] /\ e[j] = w[2] /\ Swaps(w[1], w[2])
    BY <1>1 DEF Wrong
  <2>2. w \in Nodes \X Nodes
    BY DEF Wrong
  <2>3. ~(i = k /\ j = k + 1)
    BY <1>1, <1>4, <2>1
  <2>4. \E a, b \in 1..n : a < b /\ c[a] = w[1] /\ c[b] = w[2]
    <3>1. CASE i = k
      <4>1. j # k /\ j # k + 1 /\ k + 1 < j
        BY <1>1, <2>1, <2>3, <3>1
      <4>2. c[k + 1] = w[1] /\ c[j] = w[2]
        BY <1>1, <2>1, <3>1, <4>1
      <4>3. QED BY <1>1, <4>1, <4>2
    <3>2. CASE i = k + 1
      <4>1. j # k /\ j # k + 1 /\ k < j
        BY <1>1, <2>1, <3>2
      <4>2. c[k] = w[1] /\ c[j] = w[2]
        BY <1>1, <2>1, <3>2, <4>1
      <4>3. QED BY <1>1, <4>1, <4>2
    <3>3. CASE i # k /\ i # k + 1 /\ j = k
      <4>1. i < k + 1 /\ c[i] = w[1] /\ c[k + 1] = w[2]
        BY <1>1, <2>1, <3>3
      <4>2. QED BY <1>1, <4>1
    <3>4. CASE i # k /\ i # k + 1 /\ j = k + 1
      <4>1. i < k /\ c[i] = w[1] /\ c[k] = w[2]
        BY <1>1, <2>1, <3>4
      <4>2. QED BY <1>1, <4>1
    <3>5. CASE i # k /\ i # k + 1 /\ j # k /\ j # k + 1
      BY <1>1, <2>1, <3>5
    <3>6. QED BY <3>1, <3>2, <3>3, <3>4, <3>5
  <2>5. w \in Wrong(c)
    BY <2>1, <2>2, <2>4 DEF Wrong
  <2>6. w # <<c[k], c[k + 1]>>
    <3> SUFFICES ASSUME w = <<c[k], c[k + 1]>> PROVE FALSE
      OBVIOUS
    <3>1. e[i] = c[k] /\ e[j] = c[k + 1]
      BY <2>1
    <3>2. i = k + 1
      BY <1>1, <3>1
    <3>3. j = k
      BY <1>1, <3>1
    <3>4. QED BY <1>1, <2>1, <3>2, <3>3
  <2>7. QED BY <2>5, <2>6
<1>6. <<c[k], c[k + 1]>> \in Wrong(c)
  <2>1. k < k + 1
    BY <1>1
  <2>2. <<c[k], c[k + 1]>> \in Nodes \X Nodes /\ <<c[k], c[k + 1]>>[1] = c[k] /\ <<c[k], c[k + 1]>>[2] = c[k + 1]
    BY <1>2
  <2>3. QED BY <1>1, <2>1, <2>2 DEF Wrong
<1>7. Better(e, c)
  BY <1>5, <1>6 DEF Better
<1>8. QED BY <1>7 DEF e

\* What has got better twice, or once, is better.
LEMMA BetterAgain ==
  ASSUME NEW b, NEW c, NEW d, Better(d, c), Better(c, b) \/ c = b
  PROVE  Better(d, b)
BY DEF Better

\* A list that has turned twice has turned.
LEMMA TurnedTwice ==
  ASSUME NEW h, NEW c, NEW g, NEW d, Turned(h, c, g, d, {}), Of(d) = Of(c),
         NEW f, NEW e, Turned(g, d, f, e, {}), Of(e) = Of(d)
  PROVE  Turned(h, c, f, e, {})
BY DEF Turned

\* So has one that has not turned at all.
LEMMA NotTurned ==
  ASSUME NEW h \in LinksType, NEW c, IsChain(h, c)
  PROVE  Turned(h, c, h, c, {})
BY DEF Turned

\* s in a pass through c: the list has got better, or the first i pairs were in order.
InPass(h, c, s, i) ==
  /\ s.at \in Of(c) \cup {NIL}
  /\ \E d : /\ Turned(h, c, s.h, d, {}) /\ Of(d) = Of(c)
            /\ \/ Better(d, c)
               \/ /\ s.h = h /\ d = c
                  /\ s.at = IF i < Len(c) THEN c[i + 1] ELSE NIL
                  /\ \A j \in 1..(Len(c) - 1) : j <= i => ~Swaps(c[j], c[j + 1])

\* What holds after a pass
PassDone(h, c, g) ==
  \E d : /\ Turned(h, c, g, d, {}) /\ Of(d) = Of(c)
         /\ \/ Better(d, c)
            \/ /\ g = h /\ d = c
               /\ \A j \in 1..(Len(c) - 1) : ~Swaps(c[j], c[j + 1])

\* A step of a pass
LEMMA SortStepInPass ==
  ASSUME NEW h \in LinksType, NEW c, IsChain(h, c), NEW s, NEW i \in Nat, InPass(h, c, s, i)
  PROVE  InPass(h, c, SortStep(s), i + 1)
<1>1. PICK d : /\ Turned(h, c, s.h, d, {}) /\ Of(d) = Of(c)
               /\ \/ Better(d, c)
                  \/ /\ s.h = h /\ d = c
                     /\ s.at = IF i < Len(c) THEN c[i + 1] ELSE NIL
                     /\ \A j \in 1..(Len(c) - 1) : j <= i => ~Swaps(c[j], c[j + 1])
  BY DEF InPass
<1>2. s.at \in Of(c) \cup {NIL}
  BY DEF InPass
<1>3. /\ NIL \notin Nodes /\ s.h \in LinksType /\ IsChain(s.h, d) /\ d \in Seq(Nodes) /\ Len(d) \in Nat /\ Of(d) \subseteq Nodes
      /\ \A j \in 1..Len(d) : d[j] \in Of(d)
      /\ Len(c) \in Nat /\ \A j \in 1..Len(c) : c[j] \in Nodes
  <2>1. s.h \in LinksType /\ IsChain(s.h, d)
    BY <1>1 DEF Turned
  <2>2. QED BY <2>1, ChainFacts, NodesAssumption
<1>4. CASE s.at = NIL
  <2>1. SortStep(s) = s
    BY <1>4 DEF SortStep
  <2>2. CASE Better(d, c)
    BY <1>1, <1>2, <2>1, <2>2 DEF InPass
  <2>3. CASE ~Better(d, c)
    <3>1. /\ s.h = h /\ d = c /\ ~(i < Len(c))
          /\ \A j \in 1..(Len(c) - 1) : j <= i => ~Swaps(c[j], c[j + 1])
      <4>1. i < Len(c) => i + 1 \in 1..Len(c)
        BY <1>3
      <4>2. i < Len(c) => c[i + 1] # NIL
        BY <1>3, <4>1
      <4>3. QED BY <1>1, <1>4, <2>3, <4>2
    <3>2. ~(i + 1 < Len(c)) /\ \A j \in 1..(Len(c) - 1) : j <= i + 1 => j <= i
      BY <1>3, <3>1
    <3>3. QED BY <1>1, <1>2, <1>4, <2>1, <3>1, <3>2 DEF InPass
  <2>4. QED BY <2>2, <2>3
<1>5. CASE s.at # NIL
  <2>1. s.at \in Of(d)
    BY <1>1, <1>2, <1>5
  <2>2. PICK k \in 1..Len(d) : s.at = d[k]
    BY <2>1 DEF Of
  <2> DEFINE n == s.h.next[s.at]
  <2>3. n = (IF k = Len(d) THEN NIL ELSE d[k + 1])
    BY <1>3, <2>2 DEF IsChain
  <2>4. k # Len(d) => k \in 1..(Len(d) - 1) /\ k + 1 \in 1..Len(d)
    BY <1>3
  <2>5. CASE n # NIL /\ Swaps(s.at, n)
    <3> DEFINE f == SwapNeighbor(s.h, s.at, n)
               e == Swapped(d, k)
    <3>1. k # Len(d) /\ n = d[k + 1]
      BY <2>3, <2>5
    <3>2. SortStep(s) = [h |-> f, at |-> f.next[s.at]]
      BY <1>5, <2>5 DEF SortStep
    <3>3. Turned(s.h, d, f, e, {}) /\ Of(e) = Of(d)
      BY <1>3, <2>2, <2>4, <3>1, SwapTurns
    <3> HIDE DEF f
    <3>4. Turned(h, c, f, e, {}) /\ Of(e) = Of(c)
      BY <1>1, <3>3, TurnedTwice
    <3>5. Better(e, d)
      <4>1. \A a, b \in 1..Len(d) : d[a] = d[b] => a = b
        BY <1>3 DEF IsChain
      <4>2. Swaps(d[k], d[k + 1])
        BY <2>2, <2>5, <3>1
      <4>3. QED BY <1>3, <2>4, <3>1, <4>1, <4>2, SwapHelps
    <3>6. Better(e, c)
      BY <1>1, <3>5, BetterAgain
    <3>7. f.next[s.at] \in Of(c) \cup {NIL}
      <4>1. e[k + 1] = s.at /\ Len(e) = Len(d) /\ k + 1 \in 1..Len(e)
        BY <1>3, <2>2, <2>4, <3>1, SwappedFacts
      <4> HIDE DEF e
      <4>2. IsChain(f, e)
        BY <3>4 DEF Turned
      <4>3. f.next[s.at] = IF k + 1 = Len(e) THEN NIL ELSE e[(k + 1) + 1]
        BY <4>1, <4>2 DEF IsChain
      <4>4. k + 1 # Len(e) => (k + 1) + 1 \in 1..Len(e)
        BY <1>3, <4>1
      <4>5. QED BY <3>4, <4>2, <4>3, <4>4, ChainFacts
    <3> HIDE DEF e
    <3>8. QED BY <3>2, <3>4, <3>6, <3>7 DEF InPass
  <2>6. CASE ~(n # NIL /\ Swaps(s.at, n))
    <3>1. SortStep(s) = [h |-> s.h, at |-> n]
      BY <1>5, <2>6 DEF SortStep
    <3>2. n \in Of(c) \cup {NIL}
      BY <1>1, <1>3, <2>3, <2>4
    <3>3. CASE Better(d, c)
      BY <1>1, <3>1, <3>2, <3>3 DEF InPass
    <3>4. CASE ~Better(d, c)
      <4>1. /\ s.h = h /\ d = c /\ i < Len(c) /\ s.at = c[i + 1]
            /\ \A j \in 1..(Len(c) - 1) : j <= i => ~Swaps(c[j], c[j + 1])
        BY <1>1, <1>5, <3>4
      <4>2. k = i + 1
        <5>1. i + 1 \in 1..Len(c)
          BY <1>3, <4>1
        <5>2. QED BY <1>3, <2>2, <4>1, <5>1 DEF IsChain
      <4>3. n = IF i + 1 < Len(c) THEN c[(i + 1) + 1] ELSE NIL
        BY <1>3, <2>3, <4>1, <4>2
      <4>4. ASSUME NEW j \in 1..(Len(c) - 1), j <= i + 1 PROVE ~Swaps(c[j], c[j + 1])
        <5>1. CASE j <= i
          BY <4>1, <5>1
        <5>2. CASE ~(j <= i)
          <6>1. j = i + 1 /\ i + 1 < Len(c) /\ j + 1 = (i + 1) + 1 /\ (i + 1) + 1 \in 1..Len(c)
            BY <1>3, <4>4, <5>2
          <6>2. n = c[j + 1] /\ n # NIL /\ s.at = c[j]
            BY <1>3, <4>1, <4>3, <6>1
          <6>3. QED BY <2>6, <6>2
        <5>3. QED BY <5>1, <5>2
      <4> HIDE DEF n
      <4>5. QED BY <1>1, <3>1, <3>2, <4>1, <4>3, <4>4 DEF InPass
    <3>5. QED BY <3>3, <3>4
  <2>7. QED BY <2>5, <2>6
<1>6. QED BY <1>4, <1>5

\* A pass makes the list better, or finds every pair of neighbours in order.
LEMMA SortPassDoes ==
  ASSUME NEW h \in LinksType, NEW c, IsChain(h, c), NEW k \in 1..Len(c)
  PROVE  PassDone(h, c, SortPass(h, c[k]))
<1> DEFINE N == Cardinality(Nodes)
           first == [h |-> h, at |-> FirstOf(h, c[k])]
           step(f) == [i \in 0..N |-> IF i = 0 THEN first ELSE SortStep(f[i - 1])]
           S == {s \in [h : LinksType, at : Nodes \cup {NIL}] : \E i \in Nat : InPass(h, c, s, i)}
           move == [s \in S |-> SortStep(s)]
           walk == [i \in 0..N |-> Orbit(move, first)[i]]
<1>1. /\ N \in Nat /\ Len(c) \in Nat /\ Len(c) <= N /\ c[1] \in Nodes /\ c[1] \in Of(c) /\ 1 <= Len(c)
      /\ FirstOf(h, c[k]) = c[1] /\ Of(c) \subseteq Nodes
  <2>1. /\ c \in Seq(Nodes) /\ Of(c) \subseteq Nodes /\ \A i, j \in 1..Len(c) : c[i] = c[j] => i = j
        /\ FirstOf(h, c[k]) = c[1] /\ Len(c) >= 1 /\ Len(c) \in Nat
    <3>1. \A i, j \in 1..Len(c) : c[i] = c[j] => i = j
      BY DEF IsChain
    <3>2. QED BY <3>1, ChainFacts, ChainWalked
  <2>2. N \in Nat /\ Len(c) <= N
    BY <2>1, ChainLength
  <2>3. c[1] \in Of(c)
    BY <2>1, ChainFacts
  <2>4. QED BY <2>1, <2>2, <2>3
<1>2. SortPass(h, c[k]) = (CHOOSE f : f = step(f))[N].h
  BY DEF SortPass
<1>3. first.h = h /\ first.at = c[1] /\ first \in [h : LinksType, at : Nodes \cup {NIL}]
  BY <1>1
<1> HIDE DEF first
<1>4. InPass(h, c, first, 0)
  <2>1. Turned(h, c, h, c, {})
    BY NotTurned
  <2>2. \A j \in 1..(Len(c) - 1) : j <= 0 => ~Swaps(c[j], c[j + 1])
    BY <1>1
  <2>3. first.at = IF 0 < Len(c) THEN c[0 + 1] ELSE NIL
    BY <1>1, <1>3
  <2>4. QED BY <1>1, <1>3, <2>1, <2>2, <2>3 DEF InPass
<1>5. first \in S
  BY <1>3, <1>4
<1>6. ASSUME NEW s \in S PROVE SortStep(s) \in S
  <2>1. PICK i \in Nat : InPass(h, c, s, i)
    OBVIOUS
  <2>2. InPass(h, c, SortStep(s), i + 1) /\ i + 1 \in Nat
    BY <2>1, SortStepInPass
  <2>3. SortStep(s).h \in LinksType /\ SortStep(s).at \in Nodes \cup {NIL}
    BY <1>1, <2>2 DEF InPass, Turned
  <2>4. SortStep(s) \in [h : LinksType, at : Nodes \cup {NIL}]
    <3>1. CASE s.at = NIL
      BY <3>1 DEF SortStep
    <3>2. CASE s.at # NIL
      <4>1. \E g, x : SortStep(s) = [h |-> g, at |-> x]
        BY <3>2 DEF SortStep
      <4>2. QED BY <2>3, <4>1
    <3>3. QED BY <3>1, <3>2
  <2>5. QED BY <2>2, <2>4
<1>7. \A s \in S : move[s] = SortStep(s) /\ move[s] \in S
  BY <1>6
<1> HIDE DEF S, move
<1>8. /\ Orbit(move, first)[0] = first
      /\ \A i \in Nat : Orbit(move, first)[i] \in S /\ Orbit(move, first)[i + 1] = move[Orbit(move, first)[i]]
  BY <1>5, <1>7, OrbitIs
<1>9. walk = step(walk)
  <2>1. ASSUME NEW i \in 0..N PROVE walk[i] = IF i = 0 THEN first ELSE SortStep(walk[i - 1])
    <3>1. CASE i = 0
      BY <1>8, <3>1
    <3>2. CASE i # 0
      <4>1. i - 1 \in 0..N /\ i - 1 \in Nat /\ (i - 1) + 1 = i
        BY <1>1, <3>2
      <4>2. walk[i] = Orbit(move, first)[i] /\ walk[i - 1] = Orbit(move, first)[i - 1]
        BY <4>1
      <4> HIDE DEF walk
      <4>3. QED BY <1>7, <1>8, <3>2, <4>1, <4>2
    <3>3. QED BY <3>1, <3>2
  <2>2. QED BY <2>1
<1>10. ASSUME NEW f, f = step(f) PROVE InPass(h, c, f[N], N)
  <2> DEFINE A == {i \in Nat : i \in 0..N => InPass(h, c, f[i], i)}
  <2>1. \A i \in 0..N : f[i] = IF i = 0 THEN first ELSE SortStep(f[i - 1])
    BY <1>10
  <2>2. 0 \in A
    BY <1>1, <1>4, <2>1
  <2>3. ASSUME NEW i \in Nat, i \in A PROVE i + 1 \in A
    <3>1. SUFFICES ASSUME i + 1 \in 0..N PROVE InPass(h, c, f[i + 1], i + 1)
      OBVIOUS
    <3>2. i \in 0..N /\ (i + 1) - 1 = i /\ i + 1 # 0
      BY <1>1, <3>1
    <3>3. InPass(h, c, f[i], i)
      BY <2>3, <3>2
    <3>4. f[i + 1] = SortStep(f[i])
      BY <2>1, <3>1, <3>2
    <3>5. QED BY <3>3, <3>4, SortStepInPass
  <2>4. Nat \subseteq A
    <3> HIDE DEF A
    <3> QED BY <2>2, <2>3, SetInduction
  <2>5. N \in 0..N
    BY <1>1
  <2>6. QED BY <1>1, <2>4, <2>5
<1>11. InPass(h, c, (CHOOSE f : f = step(f))[N], N)
  <2> HIDE DEF step, walk, N
  <2>1. (CHOOSE f : f = step(f)) = step(CHOOSE f : f = step(f))
    BY <1>9
  <2>2. QED BY <1>10, <2>1
<1> DEFINE last == (CHOOSE f : f = step(f))[N]
<1>12. InPass(h, c, last, N) /\ SortPass(h, c[k]) = last.h
  BY <1>2, <1>11
<1> HIDE DEF last
<1>13. \A j \in 1..(Len(c) - 1) : j <= N
  BY <1>1
<1>14. QED BY <1>12, <1>13 DEF InPass, PassDone

\* The pointers g hold the nodes of the chain c of h, in the order d.
Reorders(h, c, g, d) == Turned(h, c, g, d, {}) /\ Of(d) = Of(c)

\* No pair of neighbours is to be swapped.
InOrder(d) == \A j \in 1..(Len(d) - 1) : ~Swaps(d[j], d[j + 1])

\* The number of pairs in the wrong order
Disorder(d) == Cardinality(Wrong(d))

\* There are as many pairs as the sorter has passes, and fewer after a pass that helps.
LEMMA DisorderFalls ==
  ASSUME NEW c, NEW d
  PROVE  /\ Cardinality(Nodes) \in Nat /\ Disorder(c) \in Nat /\ Disorder(d) \in Nat
         /\ Disorder(c) <= Cardinality(Nodes) * Cardinality(Nodes)
         /\ Better(d, c) => Disorder(d) + 1 <= Disorder(c)
<1>1. /\ IsFiniteSet(Nodes \X Nodes) /\ Cardinality(Nodes) \in Nat
      /\ Cardinality(Nodes \X Nodes) = Cardinality(Nodes) * Cardinality(Nodes)
  BY NodesAssumption, FS_Product, FS_CardinalityType
<1>2. Wrong(c) \subseteq Nodes \X Nodes /\ Wrong(d) \subseteq Nodes \X Nodes
  BY DEF Wrong
<1>3. /\ IsFiniteSet(Wrong(c)) /\ Disorder(c) <= Cardinality(Nodes \X Nodes)
      /\ IsFiniteSet(Wrong(d))
  BY <1>1, <1>2, FS_Subset DEF Disorder
<1>4. Disorder(c) \in Nat /\ Disorder(d) \in Nat
  BY <1>3, FS_CardinalityType DEF Disorder
<1>5. ASSUME Better(d, c) PROVE Disorder(d) + 1 <= Disorder(c)
  <2>1. Wrong(d) \subseteq Wrong(c) /\ Wrong(d) # Wrong(c)
    BY <1>5 DEF Better
  <2>2. Disorder(d) <= Disorder(c) /\ Disorder(d) # Disorder(c)
    BY <1>3, <2>1, FS_Subset DEF Disorder
  <2>3. QED BY <1>4, <2>2
<1>6. QED BY <1>1, <1>3, <1>4, <1>5

\* A pass through a list that has been reordered
LEMMA NextPass ==
  ASSUME NEW h, NEW c, NEW p \in Of(c), NEW g, NEW d, Reorders(h, c, g, d)
  PROVE  \E e : /\ Reorders(h, c, SortPass(g, p), e)
                /\ Better(e, d) \/ (SortPass(g, p) = g /\ e = d /\ InOrder(d))
<1>1. g \in LinksType /\ IsChain(g, d) /\ p \in Of(d) /\ Turned(h, c, g, d, {}) /\ Of(d) = Of(c)
  BY DEF Reorders, Turned
<1>2. PICK j \in 1..Len(d) : p = d[j]
  BY <1>1 DEF Of
<1>3. PassDone(g, d, SortPass(g, p))
  BY <1>1, <1>2, SortPassDoes
<1>4. PICK e : /\ Turned(g, d, SortPass(g, p), e, {}) /\ Of(e) = Of(d)
               /\ \/ Better(e, d)
                  \/ SortPass(g, p) = g /\ e = d /\ InOrder(d)
  BY <1>3 DEF PassDone, InOrder
<1>5. Turned(h, c, SortPass(g, p), e, {})
  BY <1>1, <1>4, TurnedTwice
<1>6. QED BY <1>1, <1>4, <1>5 DEF Reorders

\* A pass that changes nothing has found the list in order.
LEMMA LastPass ==
  ASSUME NEW h, NEW c, NEW p \in Of(c), NEW g, NEW d, Reorders(h, c, g, d), SortPass(g, p) = g
  PROVE  InOrder(d)
<1>1. PICK e : /\ Reorders(h, c, g, e)
               /\ Better(e, d) \/ (e = d /\ InOrder(d))
  BY NextPass
<1>2. IsChain(g, d) /\ IsChain(g, e) /\ p \in Of(d) /\ p \in Of(e)
  BY <1>1 DEF Reorders, Turned
<1>3. PICK i \in 1..Len(d) : p = d[i]
  BY <1>2 DEF Of
<1>4. PICK j \in 1..Len(e) : p = e[j]
  BY <1>2 DEF Of
<1>5. Items(g, p) = d /\ Items(g, p) = e
  BY <1>2, <1>3, <1>4, ChainWalked
<1>6. ~Better(d, d)
  BY DEF Better
<1>7. QED BY <1>1, <1>5, <1>6

\* list_sort keeps the nodes of the list and puts them in order.
LEMMA SortListDoes ==
  ASSUME NEW h \in LinksType, NEW c, IsChain(h, c), NEW p \in Of(c)
  PROVE  \E d : Reorders(h, c, SortList(h, p), d) /\ InOrder(d)
<1> DEFINE M == Cardinality(Nodes) * Cardinality(Nodes)
           step(f) == [i \in 0..M |-> IF i = 0 THEN h ELSE SortPass(f[i - 1], p)]
           S == {g \in LinksType : \E d : Reorders(h, c, g, d)}
           pass == [g \in S |-> SortPass(g, p)]
           passes == [i \in 0..M |-> Orbit(pass, h)[i]]
           last(f) == f[CHOOSE k \in DOMAIN f : SortPass(f[k], p) = f[k]]
<1>1. M \in Nat
  BY DisorderFalls
<1>2. SortList(h, p) = last(CHOOSE f : f = step(f))
  BY DEF SortList
<1>3. Reorders(h, c, h, c)
  BY NotTurned DEF Reorders
<1>4. h \in S
  BY <1>3
<1>5. ASSUME NEW g \in S PROVE SortPass(g, p) \in S
  <2>1. PICK d : Reorders(h, c, g, d)
    OBVIOUS
  <2>2. \E e : Reorders(h, c, SortPass(g, p), e)
    BY <2>1, NextPass
  <2>3. SortPass(g, p) \in LinksType
    BY <2>2 DEF Reorders, Turned
  <2>4. QED BY <2>2, <2>3
<1>6. \A g \in S : pass[g] = SortPass(g, p) /\ pass[g] \in S
  BY <1>5
<1>7. \A g \in S : \E d : Reorders(h, c, g, d)
  OBVIOUS
<1> HIDE DEF S, pass, M
<1>8. /\ Orbit(pass, h)[0] = h
      /\ \A i \in Nat : Orbit(pass, h)[i] \in S /\ Orbit(pass, h)[i + 1] = pass[Orbit(pass, h)[i]]
  BY <1>4, <1>6, OrbitIs
<1>9. passes = step(passes)
  <2>1. ASSUME NEW i \in 0..M PROVE passes[i] = IF i = 0 THEN h ELSE SortPass(passes[i - 1], p)
    <3>1. CASE i = 0
      BY <1>8, <3>1
    <3>2. CASE i # 0
      <4>1. i - 1 \in 0..M /\ i - 1 \in Nat /\ (i - 1) + 1 = i
        BY <1>1, <3>2
      <4>2. passes[i] = Orbit(pass, h)[i] /\ passes[i - 1] = Orbit(pass, h)[i - 1]
        BY <4>1
      <4> HIDE DEF passes
      <4>3. QED BY <1>6, <1>8, <3>2, <4>1, <4>2
    <3>3. QED BY <3>1, <3>2
  <2>2. QED BY <2>1
<1>10. ASSUME NEW f, f = step(f) PROVE \E d : Reorders(h, c, last(f), d) /\ InOrder(d)
  <2> DEFINE Still(i) == SortPass(f[i], p) = f[i]
             A == {i \in Nat : i \in 0..M => f[i] \in S}
             Less(i) == \E e : Reorders(h, c, SortPass(f[i], p), e) /\ Disorder(e) + (i + 1) <= M
             B == {i \in Nat : i \in 0..M => Less(i) \/ \E j \in 0..i : Still(j)}
  <2>1. \A i \in 0..M : f[i] = IF i = 0 THEN h ELSE SortPass(f[i - 1], p)
    BY <1>10
  <2>2. DOMAIN f = 0..M
    BY <1>10
  <2>3. ASSUME NEW i \in Nat, NEW d, Reorders(h, c, f[i], d), Disorder(d) + i <= M
        PROVE  Less(i) \/ Still(i)
    <3>1. PICK e : /\ Reorders(h, c, SortPass(f[i], p), e)
                   /\ Better(e, d) \/ SortPass(f[i], p) = f[i]
      BY <2>3, NextPass
    <3>2. CASE Better(e, d)
      <4>1. Disorder(e) \in Nat /\ Disorder(d) \in Nat /\ Disorder(e) + 1 <= Disorder(d)
        BY <3>2, DisorderFalls
      <4>2. Disorder(e) + (i + 1) <= M
        BY <1>1, <2>3, <4>1
      <4>3. QED BY <3>1, <4>2
    <3>3. CASE SortPass(f[i], p) = f[i]
      BY <3>3
    <3>4. QED BY <3>1, <3>2, <3>3
  <2>4. Nat \subseteq A
    <3>1. 0 \in A
      BY <1>1, <1>4, <2>1
    <3>2. ASSUME NEW i \in Nat, i \in A PROVE i + 1 \in A
      <4>1. SUFFICES ASSUME i + 1 \in 0..M PROVE f[i + 1] \in S
        OBVIOUS
      <4>2. i \in 0..M /\ (i + 1) - 1 = i /\ i + 1 # 0
        BY <1>1, <4>1
      <4>3. f[i] \in S
        BY <3>2, <4>2
      <4>4. f[i + 1] = SortPass(f[i], p)
        BY <2>1, <4>1, <4>2
      <4>5. QED BY <1>5, <4>3, <4>4
    <3> HIDE DEF A
    <3>3. QED BY <3>1, <3>2, SetInduction
  <2>5. Nat \subseteq B
    <3>1. 0 \in B
      <4>1. f[0] = h
        BY <1>1, <2>1
      <4>2. Disorder(c) + 0 <= M
        BY DisorderFalls DEF M
      <4>3. Less(0) \/ Still(0)
        <5> HIDE DEF Less, Still
        <5>1. Reorders(h, c, f[0], c) /\ 0 \in Nat
          BY <1>3, <4>1
        <5>2. QED BY <2>3, <4>2, <5>1
      <4> HIDE DEF Less, Still
      <4>4. QED BY <4>3
    <3>2. ASSUME NEW i \in Nat, i \in B PROVE i + 1 \in B
      <4>1. SUFFICES ASSUME i + 1 \in 0..M PROVE Less(i + 1) \/ \E j \in 0..(i + 1) : Still(j)
        OBVIOUS
      <4>2. i \in 0..M /\ (i + 1) - 1 = i /\ i + 1 # 0 /\ i + 1 \in Nat /\ i + 1 \in 0..(i + 1)
        BY <1>1, <4>1
      <4>3. CASE \E j \in 0..i : Still(j)
        <5>1. \A j \in 0..i : j \in 0..(i + 1)
          OBVIOUS
        <5> HIDE DEF Less, Still
        <5>2. QED BY <4>3, <5>1
      <4>4. CASE Less(i)
        <5>1. PICK e : Reorders(h, c, SortPass(f[i], p), e) /\ Disorder(e) + (i + 1) <= M
          BY <4>4
        <5>2. f[i + 1] = SortPass(f[i], p)
          BY <2>1, <4>1, <4>2
        <5>3. Less(i + 1) \/ Still(i + 1)
          <6> HIDE DEF Less, Still
          <6>1. QED BY <2>3, <4>2, <5>1, <5>2
        <5> HIDE DEF Less, Still
        <5>4. QED BY <4>2, <5>3
      <4>5. Less(i) \/ \E j \in 0..i : Still(j)
        <5> HIDE DEF Less, Still
        <5>1. QED BY <3>2, <4>2
      <4>6. QED BY <4>3, <4>4, <4>5
    <3> HIDE DEF B
    <3>3. QED BY <3>1, <3>2, SetInduction
  <2>6. ~Less(M)
    <3> SUFFICES ASSUME NEW e, Disorder(e) + (M + 1) <= M PROVE FALSE
      OBVIOUS
    <3>1. Disorder(e) \in Nat
      BY DisorderFalls
    <3>2. QED BY <1>1, <3>1
  <2>7. \E j \in DOMAIN f : Still(j)
    <3> HIDE DEF Less, Still
    <3>1. M \in 0..M
      BY <1>1
    <3>2. QED BY <1>1, <2>2, <2>5, <2>6, <3>1
  <2> DEFINE k == CHOOSE j \in DOMAIN f : SortPass(f[j], p) = f[j]
  <2>8. k \in 0..M /\ SortPass(f[k], p) = f[k] /\ last(f) = f[k]
    BY <2>2, <2>7
  <2> HIDE DEF k, last
  <2>9. f[k] \in S
    BY <1>1, <2>4, <2>8
  <2>10. PICK d : Reorders(h, c, f[k], d)
    BY <1>7, <2>9
  <2>11. InOrder(d)
    BY <2>8, <2>10, LastPass
  <2>12. QED BY <2>8, <2>10, <2>11
<1>11. QED
  <2> HIDE DEF step, passes, last
  <2>1. (CHOOSE f : f = step(f)) = step(CHOOSE f : f = step(f))
    BY <1>9
  <2>2. QED BY <1>2, <1>10, <2>1

-----------------------------------------------------------------------------
(* Lists: the refinement *)

\* list_sort
LEMMA SortOfStep ==
  ASSUME ListsInvariant, NEW l \in Names, lst[l] # NIL, Sort(l)
  PROVE  ListsInvariant' /\ Sequences!Next
<1> DEFINE c == Seen[l]
           T == Sequences!ToSet(c)
<1>1. links \in LinksType /\ IsChain(links, c) /\ c # <<>> /\ lst[l] \in Of(c) /\ c \in Seq(Nodes) /\ ToSet(c) = Of(c)
  BY SeenFacts
<1>2. links' = SortList(links, lst[l]) /\ lst' = lst /\ stale' = stale
  BY DEF Sort
<1>3. PICK d : Reorders(links, c, links', d) /\ InOrder(d)
  BY <1>1, <1>2, SortListDoes
<1>4. Turned(links, c, links', d, {}) /\ Of(d) = Of(c)
  BY <1>3 DEF Reorders
<1>5. ListsInvariant' /\ Seen' = [Seen EXCEPT ![l] = d]
  BY <1>1, <1>2, <1>4, OrderStep
<1>6. d \in Seq(Nodes) /\ IsInjective(d) /\ ToSet(d) = T /\ Len(d) \in Nat
  <2>1. IsChain(links', d)
    BY <1>4 DEF Turned
  <2>2. d \in Seq(Nodes) /\ ToSet(d) = Of(d) /\ Len(d) \in Nat /\ DOMAIN d = 1..Len(d)
    BY <2>1, ChainFacts
  <2>3. IsInjective(d)
    BY <2>1, <2>2 DEF IsChain, IsInjective
  <2>4. T = ToSet(c)
    BY DEF Sequences!ToSet, ToSet
  <2>5. QED BY <1>1, <1>4, <2>2, <2>3, <2>4
<1> HIDE DEF c, T
<1>7. Len(d) = Cardinality(T)
  BY <1>6, EachOnce
<1>8. d \in Sequences!SetToSeqs(T)
  <2>1. d \in [1..Cardinality(T) -> T]
    <3>1. DOMAIN d = 1..Len(d) /\ d = [i \in 1..Len(d) |-> d[i]]
      BY <1>6
    <3>2. \A i \in 1..Len(d) : d[i] \in T
      BY <1>6, <3>1 DEF ToSet
    <3>3. d \in [1..Len(d) -> T]
      BY <3>1, <3>2
    <3>4. QED BY <1>7, <3>3
  <2>2. \A i, j \in 1..Cardinality(T) : i # j => d[i] # d[j]
    BY <1>6, <2>1 DEF IsInjective
  <2>3. Sequences!Cardinality(T) = Cardinality(T)
    BY DEF Sequences!Cardinality, Cardinality
  <2>4. QED BY <2>1, <2>2, <2>3 DEF Sequences!SetToSeqs
<1>9. Sequences!SortItems(l)
  <2>1. d \in Sequences!SetToSeqs(Sequences!ToSet([m \in Names |-> Items(links, lst[m])][l]))
    BY <1>8 DEF T, c, Seen
  <2>2. \A i \in 1..(Len(d) - 1) : ~Swaps(d[i], d[i + 1])
    BY <1>3 DEF InOrder
  <2>3. [m \in Names |-> Items(links', lst'[m])] = [[m \in Names |-> Items(links, lst[m])] EXCEPT ![l] = d]
    BY <1>5 DEF Seen
  <2>4. QED BY <2>1, <2>2, <2>3 DEF Sequences!SortItems
<1>10. QED BY <1>5, <1>9 DEF Sequences!Next

\* Every operation on the pointers is one on the sequences, or none.
LEMMA ListsStep ==
  ASSUME ListsInvariant, [ListsNext]_listVars
  PROVE  ListsInvariant' /\ [Sequences!Next]_(Seen)
<1>1. CASE UNCHANGED listVars
  <2>1. links' = links /\ lst' = lst /\ stale' = stale
    BY <1>1 DEF listVars
  <2>2. Seen' = Seen
    BY <2>1 DEF Seen
  <2>3. QED BY <2>1, <2>2 DEF ListsInvariant
<1>2. ASSUME NEW l \in Names, NEW x \in Spare, Add(l, x) \/ InsertFirst(l, x)
      PROVE  ListsInvariant' /\ Sequences!Next
  BY <1>2, AddStep, InsertStep
<1>3. ASSUME NEW l \in Names, NEW p \in InList(l), NEW x \in Spare,
             AddAfter(p, x) \/ InsertBefore(p, x) \/ Replace(l, p, x)
      PROVE  ListsInvariant' /\ Sequences!Next
  BY <1>3, NextToStep, ReplaceStep
<1>4. ASSUME NEW l \in Names, NEW x \in InList(l), Delete(l, x) \/ SwapNext(x)
      PROVE  ListsInvariant' /\ Sequences!Next
  BY <1>4, DeleteStep, SwapStep
<1>5. ASSUME NEW l \in Names, NEW r, DeleteFound(l, r)
      PROVE  ListsInvariant' /\ Sequences!Next
  BY <1>5, DeleteFoundStep
<1>6. ASSUME NEW l \in Names, lst[l] # NIL, Sort(l) \/ ReverseOrder(l) \/ FreeAll(l)
      PROVE  ListsInvariant' /\ Sequences!Next
  BY <1>6, SortOfStep, ReverseStep, FreeStep
<1>7. ASSUME NEW l \in Names, NEW m \in Names \ {l}, Merge(l, m)
      PROVE  ListsInvariant' /\ Sequences!Next
  BY <1>7, MergeStep
<1>8. ASSUME NEW x \in stale, Renew(x)
      PROVE  ListsInvariant' /\ Seen' = Seen
  BY <1>8, RenewStep
<1>9. QED BY <1>1, <1>2, <1>3, <1>4, <1>5, <1>6, <1>7, <1>8 DEF ListsNext

\* Every list is a chain of its own at all times.
LEMMA ListsAlwaysChains == ListsSpec => []ListsInvariant
<1>1. ListsInit => ListsInvariant
  BY ListsBegin
<1>2. ListsInvariant /\ [ListsNext]_listVars => ListsInvariant'
  BY ListsStep
<1>3. QED BY <1>1, <1>2, PTL DEF ListsSpec

\* Whatever the operations do with the pointers, and whichever of its nodes a list** holds,
\* the user sees the sequences he asked for.
THEOREM ListsImplementSequences == ListsSpec => ListsAreSequences
<1>1. ListsInit => Sequences!Init
  BY ListsBegin
<1>2. ListsInvariant /\ [ListsNext]_listVars => [Sequences!Next]_([l \in Names |-> Items(links, lst[l])])
  BY ListsStep DEF Seen
<1>3. ListsSpec => []ListsInvariant
  BY ListsAlwaysChains
<1>4. QED BY <1>1, <1>2, <1>3, PTL DEF ListsSpec, ListsAreSequences, Sequences!Spec

\* Walking a list by prev finds what walking it by next finds.
THEOREM ListsAgreeBothWays == ListsSpec => []LinksAgree
<1>1. ASSUME ListsInvariant PROVE LinksAgree
  <2> SUFFICES ASSUME NEW l \in Names, NEW x \in InList(l), NEW y \in InList(l)
               PROVE  links.next[x] = y <=> links.prev[y] = x
    BY DEF LinksAgree
  <2> DEFINE c == Seen[l]
             n == Len(c)
  <2>1. n \in Nat /\ IsChain(links, c) /\ x \in Of(c) /\ y \in Of(c) /\ NIL \notin Nodes /\ Of(c) \subseteq Nodes
    BY <1>1, SeenFacts, ChainFacts
  <2>2. PICK i \in 1..n : x = c[i]
    BY <2>1 DEF Of
  <2>3. PICK j \in 1..n : y = c[j]
    BY <2>1 DEF Of
  <2> HIDE DEF c
  <2>4. /\ links.next[x] = (IF i = n THEN NIL ELSE c[i + 1])
        /\ links.prev[y] = (IF j = 1 THEN NIL ELSE c[j - 1])
        /\ \A a, b \in 1..n : c[a] = c[b] => a = b
    BY <2>1, <2>2, <2>3 DEF IsChain
  <2>5. x # NIL /\ y # NIL
    BY <2>1
  <2>6. ASSUME links.next[x] = y PROVE links.prev[y] = x
    <3>1. i # n /\ i + 1 \in 1..n
      BY <2>1, <2>4, <2>5, <2>6
    <3>2. j = i + 1
      BY <2>3, <2>4, <2>6, <3>1
    <3>3. j # 1 /\ j - 1 = i
      BY <3>2
    <3>4. QED BY <2>2, <2>4, <3>3
  <2>7. ASSUME links.prev[y] = x PROVE links.next[x] = y
    <3>1. j # 1 /\ j - 1 \in 1..n
      BY <2>1, <2>4, <2>5, <2>7
    <3>2. i = j - 1
      BY <2>2, <2>4, <2>7, <3>1
    <3>3. i # n /\ i + 1 = j
      BY <2>1, <3>2
    <3>4. QED BY <2>3, <2>4, <3>3
  <2>8. QED BY <2>6, <2>7
<1>2. QED BY <1>1, ListsAlwaysChains, PTL
=============================================================================
