----------------------------- MODULE LibraryMC -----------------------------
(***************************************************************************)
(* The libraries, for TLC: lists, the heap, the frame buffer, the          *)
(* firmware's tables, the emulated registers and the contents of files,    *)
(* which are worked on step by step, and the functions that keep no state, *)
(* of which every behaviour tries one input that Init chooses.             *)
(***************************************************************************)
EXTENDS Lists, Blt, DevicePaths, Loader, Tlsf, Layout, Text, TLC

CONSTANTS n1, n2, n3, n4, list1, list2  \* nodes and names of lists

VARIABLES
  case,                                         \* what a behaviour is about, and its input
  context, content, summed, running, answer,    \* of Firmware
  fake, general, pc, crashed, asked,            \* of FakeRegisters
  fileOf, mayWrite, cells, position, reply, told, reader  \* of FileData

firmware == <<context, content, summed, running, answer>>
registers == <<fake, general, pc, crashed, asked>>
files == <<fileOf, mayWrite, cells, position, reply, told, reader>>

\* Privileged instructions with each kind of register and operand
Instructions ==
  [op : {"msr", "mrs"}, sys : {"daif", "currentel", "pmcntenset_el0", "unknown"}, rt : {0, 31}, imm : {0}]
    \cup [op : {"daifset", "daifclr"}, sys : {"daif"}, rt : {0}, imm : {1, 6}]
    \cup [op : {"tlbi", "dc", "at", "other"}, sys : {"none"}, rt : {0, 31}, imm : {0}]

ST == INSTANCE Statuses
AN == INSTANCE Answers
IE == INSTANCE Input
HD == INSTANCE Headers
FW == INSTANCE Firmware
MM == INSTANCE MemoryMap WITH PageBytes <- 4, Space <- 64
FR == INSTANCE FakeRegisters WITH General <- {0, 31}, Values <- {0, 5}
FD == INSTANCE FileData
        WITH Openings <- {[h \in {1, 2} |-> 1], [h \in {1, 2} |-> h]}, Marks <- {2}, MaxSize <- 3

MCNodes == {n1, n2, n3, n4}
MCNames == {list1, list2}
MCRank == [n \in MCNodes |-> IF n \in {n1, n2} THEN 1 ELSE 2]
Symmetry == Permutations({n1, n2}) \cup Permutations({n3, n4}) \cup Permutations({list1, list2})

\* Path names of up to five tokens; two names have a separator between them.
Tokens == {"a", "b", ".", "..", SEP}
PathCases ==
  {p \in UNION {[1..n -> Tokens] : n \in 0..5} :
     \A i \in 1..(Len(p) - 1) : p[i] = SEP \/ p[i + 1] = SEP}

\* Strings of letters in both cases, a line break and a character above 0x7fff; file
\* names with both separators and blanks
Characters == {65, 97, 98, 10, -32000}
StringsOf(k) == UNION {[1..n -> Characters] : n \in 0..k}
FileNames == UNION {[1..n -> {97, Slash, Backslash, Blank}] : n \in 1..4}
TextCases == StringsOf(3) \X StringsOf(2)

\* Device paths of up to three nodes and, after their end, a node that is not theirs
MCLengths == [hardware |-> 12, file |-> 10, disk |-> 42, instance |-> 4, end |-> 4, broken |-> 3, long |-> 6]
Kinds == {Node("hardware", NULL), Node("file", "a"), Node("file", ".."), Node("disk", "b"), Divider,
          Node("broken", NULL)}
DevicePathsOf(k) ==
  {p \o <<e, Node("hardware", NULL)>> :
     p \in UNION {[1..n -> Kinds] : n \in 0..k}, e \in {End, Node("long", NULL)}}
DeviceCases == DevicePathsOf(3) \X DevicePathsOf(1) \X {Node("hardware", NULL), Divider}

\* Rectangles on and over the edge of a screen, and a program's buffer of 3 by 3
Coordinates == 0..2
Rectangles ==
  {r \in [op : {"fill", "video_to_buffer", "buffer_to_video", "video_to_video"},
          sx : Coordinates, sy : Coordinates, dx : Coordinates, dy : Coordinates,
          w : 0..3, h : 0..2, delta : {0, 3}] :
     /\ r.op = "fill" => r.sx = 0 /\ r.sy = 0 /\ r.delta = 0
     /\ r.op = "video_to_video" => r.delta = 0
     /\ Proper(r)}

\* What a program draws after it drew a rectangle, and what it does not draw
AfterThat ==
  {[op |-> o, sx |-> 0, sy |-> 1, dx |-> 1, dy |-> 0, w |-> 1, h |-> 1, delta |-> 0] :
     o \in {"video_to_buffer", "buffer_to_video", "video_to_video"}}
Nothing == [op |-> "fill", sx |-> 0, sy |-> 0, dx |-> 0, dy |-> 0, w |-> 0, h |-> 0, delta |-> 0]

MCMask == <<0, 1, 2>>

\* Every pixel of the frame buffer and of the program's buffer is another one.
MCVideo == [i \in 0..(VideoPixels - 1) |-> [j \in 0..3 |-> 10 * i + j]]
MCBuffer == [i \in 0..(BufferPixels - 1) |-> [j \in 0..3 |-> 100 + 10 * i + j]]

\* Images of three pages of three cells, the first of which is the header: one to
\* three sections anywhere behind it, an executable one among them, whose first or
\* last cell is the entry; symbols; and two blocks of relocations in a fixed image.
Section(va, limit, flags) ==
  [va |-> va, size |-> limit - va, extent |-> limit - va, raw |-> va, flags |-> flags]
Flags == {{"r", "x"}, {"r", "w"}, {"r"}}
Image(sections, entry) ==
  [sections |-> sections, headers |-> 1, entry |-> entry, base |-> 100, dir |-> 0, blocks |-> <<>>,
   symbols |-> <<[section |-> 1, value |-> 0], [section |-> Len(sections), value |-> 1],
                 [section |-> 1, value |-> 1]>>,
   subsystem |-> "application", permissive |-> FALSE]
Bounds == {p \in [1..4 -> 1..9] : p[1] < p[2] /\ p[2] <= p[3] /\ p[3] < p[4]}
SectionLists ==
  {<<Section(p[1], p[2], f)>> : p \in {q \in [1..2 -> 1..11] : q[1] <= q[2]}, f \in Flags}
    \cup {<<Section(p[1], p[2], f), Section(p[3], p[4], g)>> : p \in Bounds, f \in Flags, g \in Flags}
    \cup {<<Section(1, p[1] + 1, f), Section(p[2] + 1, p[3] + 1, g), Section(p[3] + 1, 9, {"r"})>> :
            p \in {q \in Bounds : q[4] <= 8}, f \in Flags, g \in Flags}
Entries == {<<>>} \cup {<<<<o, t>>>> : o \in 0..2, t \in {"absolute", "dir64", "other"}}
Pairs == {p \o q : p, q \in Entries}
Relocated ==
  {[Image(<<Section(1, 3, {"r", "x"}), Section(3, 9, {"r", "w"})>>, 1) EXCEPT
      !.dir = at, !.blocks = <<[va |-> v, entries |-> p], [va |-> w, entries |-> q]>>] :
     at \in {2, 0}, v \in {0, 3}, w \in {0, 3, 6}, p \in Pairs, q \in Entries}
\* Headers and sections that are too large or have no sum in four bits, and sections
\* whose data are shorter or longer than they are
Sizes == {0, 1, 3, 6, 12, 15}
Malformed ==
  {[Image(<<[Section(1, 3, {"r", "x"}) EXCEPT !.va = v, !.raw = w, !.size = n]>>, v) EXCEPT !.headers = h] :
     v \in {1, 3, 8, 13, 15}, w \in {0, 3, 10, 13, 15}, n \in Sizes, h \in {0, 1, 3, 9, 10, 13}}
Zeroed ==
  {[Image(<<[Section(1, 3, {"r", "x"}) EXCEPT !.extent = x], [Section(v, 9, {"r", "w"}) EXCEPT !.size = n],
            Section(9, 9, {"r"})>>, 1) EXCEPT !.blocks = <<[va |-> a, entries |-> <<<<0, "dir64">>>>]>>,
                                              !.dir = 1] :
     x \in {1, 2, 3}, v \in 3..6, n \in 0..3, a \in {3, 8, 9}}
ImageCases ==
  UNION {{Image(sections, 1), Image(sections, sections[1].va), Image(sections, Last(sections).va)} :
           sections \in SectionLists}
    \cup Relocated \cup Malformed \cup Zeroed
    \cup {[Image(<<Section(1, 4, {"r", "x"})>>, 1) EXCEPT !.subsystem = s, !.permissive = p] :
            s \in {"application", "boot_service_driver", "other"}, p \in BOOLEAN}

\* Aligned blocks for heads, feet and alignments in proportions like those of the code
BlockCases ==
  [align : {4, 8, 32}, size : 1..9, data : 0..33, head : {10, 20}, foot : {3}]

\* Times at both ends of what localtime gives, in zones on both sides of Greenwich
Tms == [year : {0, 8099}, mon : {0, 11}, mday : {1, 31}, hour : {0, 23}, min : {59}, sec : {0, 59},
        gmtoff : {-34200, 0, 3600}, isdst : {0, 1}]
OneTime == [year |-> 124, mon |-> 11, mday |-> 31, hour |-> 0, min |-> 0, sec |-> 0, gmtoff |-> 3600,
            isdst |-> 0]
Calls == [place : BOOLEAN, clock : BOOLEAN, tm : {{}} \cup {{tm} : tm \in Tms}, usec : {0, 999999},
          zone : BOOLEAN]
TimeCases ==
  Calls \X {[place |-> TRUE, clock |-> TRUE, tm |-> {tm}, usec |-> 0, zone |-> TRUE] :
             tm \in {OneTime, [OneTime EXCEPT !.year = 0, !.mon = 0, !.mday = 1, !.min = 59]}}

\* Kinds of information, lengths of names and sizes of buffers around what they need
InfoCases ==
  {"volume_label", "file_system_info", "file_info", "other"} \X (0..3) \X ((0..10) \cup (38..50) \cup (78..90))

\* Pools of two types that are there or not, up to two segments of the code anywhere
\* in its first pages, and sizes around those of up to four descriptors
Segments == [at : 8..12, size : {1, 4, 6}, flags : {{"r"}, {"r", "x"}, {"r", "w"}, {"w"}}, load : {TRUE}]
              \cup {[at |-> 9, size |-> 4, flags |-> {"r"}, load |-> FALSE]}
MapCases ==
  [1..2 -> {[at |-> 32, size |-> n] : n \in {0, 8}}]
    \X ({<<>>} \cup [1..1 -> Segments] \cup [1..2 -> Segments]) \X {0, 47, 48, 96, 191, 192, 200}

\* Up to three events of the keyboard, the mouse and a finger, and three reads
SdlEvents ==
  {IE!Key(IE!Named("F1")), IE!Key(IE!Numbered(97)), IE!KeyUp(IE!Named("TAB")), IE!Button("left", TRUE),
   IE!Button("left", FALSE), IE!Button("middle", TRUE), IE!Motion(1, 0), IE!Motion(-2, 1),
   IE!Finger("FINGERUP"), IE!Drag(1, 2, 3)}
InputCases == (UNION {[1..n -> SdlEvents] : n \in 0..3}) \X [1..3 -> IE!Readers]

\* Headers of files that end at, before and behind each part of them
CutAt(f) ==
  {64, 65} \cup {e + d : e \in {HD!OptAt(f), HD!SectionsAt(f), HD!SectionsEnd(f), f.table + f.symbols * HD!Symbol},
                        d \in {0, 1}}
HeaderCases ==
  UNION {{[f EXCEPT !.length = n] : n \in CutAt(f)} :
           f \in [length : {0}, pe : {0, 100}, opt : {24, 95, 96, 112, 224, 240, 241},
                  kind : {"PE32", "PE32+", "other"}, sections : {0, 2}, table : {0, 200, 400},
                  symbols : {0, 2}, signature : {TRUE}, machine : BOOLEAN, executable : {TRUE}]}

Cases ==
  {<<kind, {}>> : kind \in {"lists", "heap", "firmware", "registers", "files", "statuses", "blt"}}
    \cup ({"time"} \X TimeCases) \cup ({"info"} \X InfoCases) \cup ({"input"} \X InputCases)
    \cup ({"header"} \X HeaderCases) \cup ({"map"} \X MapCases)
    \cup ({"path"} \X PathCases) \cup ({"device"} \X DeviceCases)
    \cup ({"image"} \X ImageCases) \cup ({"text"} \X TextCases) \cup ({"name"} \X FileNames)
    \cup ({"block"} \X BlockCases)

Init ==
  /\ ListsInit
  /\ TlsfInit
  /\ FW!FirmwareInit
  /\ case \in Cases
  /\ video = MCVideo /\ buffer = MCBuffer
  /\ transfer \in (IF case[1] = "blt" THEN Transfers ELSE {Nothing})
  /\ BltInit
  /\ IF case[1] = "registers" THEN FR!FakeInit
     ELSE /\ fake = FR!NotMade /\ general = <<>> /\ pc = 0 /\ crashed = FALSE /\ asked = <<>>
  /\ IF case[1] = "files" THEN FD!FileDataInit
     ELSE /\ fileOf = <<>> /\ mayWrite = FALSE /\ cells = <<>> /\ position = <<>>
          /\ reply = <<>> /\ told = <<>> /\ reader = FD!NoReader

\* Each machine is worked on while the others rest.
Next ==
  /\ UNCHANGED case
  /\ case[1] # "lists" => UNCHANGED listVars
  /\ case[1] # "heap" => UNCHANGED heapVars
  /\ case[1] # "firmware" => UNCHANGED firmware
  /\ case[1] # "blt" => UNCHANGED bltVars
  /\ case[1] # "registers" => UNCHANGED registers
  /\ case[1] # "files" => UNCHANGED files
  /\ \/ case[1] = "lists" /\ ListsNext
     \/ case[1] = "heap" /\ TlsfNext
     \/ case[1] = "firmware" /\ FW!FirmwareNext
     \/ /\ case[1] = "blt" /\ video = MCVideo /\ buffer = MCBuffer
        /\ transfer' \in AfterThat /\ Blit
     \/ case[1] = "registers" /\ FR!FakeNext
     \/ case[1] = "files" /\ FD!FileDataNext

allVars == <<listVars, heapVars, bltVars, firmware, registers, files, case>>

Spec == Init /\ [][Next]_allVars

-----------------------------------------------------------------------------
(* Properties of the inputs *)

\* A resolved path names what a walk over its components finds, and is resolved;
\* a path put behind another is walked from where that leads.
PathsResolve ==
  case[1] = "path" =>
    LET p == case[2]
    IN /\ NamesOf(Resolve(p)) = Walk(p)
       /\ Resolve(Resolve(p)) = Resolve(p)
       /\ NamesOf(Dirname(p)) \o Basename(p) = NamesOf(p)
       /\ NamesOf(Merge2(<<"a", SEP, "b">>, p)) = FoldLeft(WalkStep, <<"a", "b">>, NamesOf(p))

\* Device paths are sequences of instances, whatever operation made them, and the
\* operations leave the paths they are given as they were.
DevicePathsCompose ==
  case[1] = "device" => IsAlgebra(case[2][1], case[2][2], case[2][3])

\* Strings are compared, searched, copied and escaped as their references say, files
\* are named by the last component of their path, dark colours keep their colour.
TextsAgree ==
  /\ case[1] = "text" =>
       LET s == case[2][1]
           t == case[2][2]
       IN /\ IsFound(s, t)
          /\ \A n \in 0..5 : IsOrdered(s, t, n) /\ IsCut(s, t, n) /\ IsEscaped(s \o t, n)
  /\ case[1] = "name" => IsNamed(case[2]) /\ \A attribute \in 0..7 : IsColoured(attribute)

\* The firmware's tables are there when they are used, with their sums (context.c,
\* data/*.c); emulated registers keep what a program gave them (fake_ins_aarch64.c);
\* positions and contents of files are those a program was told (posix-fd.c:260-410).
MachinesSound ==
  /\ case[1] = "firmware" => FW!FirmwareSound
  /\ case[1] = "registers" => FR!RegistersKept
  /\ case[1] = "files" => FD!DataSound

\* What a program is told: errors stay errors, times and facts of files are whole,
\* what does not work says so, and input comes to the reader it is for, in order.
ProgramTold ==
  /\ case[1] = "statuses" => ST!StatusesTranslate /\ AN!AnswersSound /\ IE!KeysTold
  /\ case[1] = "time" => AN!TimeTold(case[2][1], case[2][2])
  /\ case[1] = "info" => AN!InfoFits(case[2][1], case[2][2], case[2][3])
  /\ case[1] = "map" => MM!MapTold(case[2][1], case[2][2], case[2][3])
  /\ case[1] = "input" => IE!InputSound(case[2][1], case[2][2])

\* An aligned block fits between head and foot in what it is taken from (mem.c:197-203).
BlocksFit ==
  case[1] = "block" =>
    LET b == case[2] IN BlockFits(b.align, b.size, b.data, b.head, b.foot)

\* Path names, device paths, strings, statuses, aligned blocks and the services without
\* a component of their own give what their references say.
AnswersAgree ==
  PathsResolve /\ DevicePathsCompose /\ TextsAgree /\ ProgramTold /\ MachinesSound /\ BlocksFit

\* A file is parsed within its bounds (parser.c:19-100).  An image whose numbers have a
\* sum in 32 bits, whose headers fit and whose relocations are inside is refused if a
\* section is out of the file or the image; a well linked one is loaded if and only if its
\* entry is executable, each cell then has its contents, slid as often as it is relocated,
\* and each page the protection the sections with data on it need, none if it has only
\* zeros; an address is named by the nearest symbol before it (loader.c:46-256, symbol.c:90).
LoaderLoads ==
  /\ case[1] = "image" => IsLoaded(case[2])
  /\ case[1] = "header" => HD!HeadersSound(case[2])
=============================================================================
