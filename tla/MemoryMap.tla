------------------------------ MODULE MemoryMap ------------------------------
(***************************************************************************)
(* GetMemoryMap of tables/memory.c: one descriptor for every pool of the   *)
(* context and one for every loaded segment of the emulator's own code, in *)
(* a buffer whose size the program has to find out.                        *)
(*                                                                         *)
(* Pages and addresses are scaled down; addresses wrap as in the code.     *)
(***************************************************************************)
EXTENDS Integers, Sequences, SequencesExt

CONSTANTS
  PageBytes,  \* PAGE_SIZE
  Space       \* 2^64: how many addresses there are, some pages

DescriptorSize == 40
\* What is told to the program: more than the descriptor even if it needs no padding
Stride == DescriptorSize + (8 - (DescriptorSize % 8))

\* A pool of the context is mapped in whole pages, and may do everything.
PoolEntry(type, pool) ==
  [start |-> pool.at, pages |-> pool.size \div PageBytes, type |-> type, attributes |-> {"UC", "WC", "WT", "WB"}]

\* Faulty variant of SegmentPages: the segment may start anywhere in its first page.
SegmentPagesAligned(seg) == (seg.size + PageBytes - 1) \div PageBytes

\* m_base - m_start is taken where m_start - m_base was meant, so that the part of the
\* first page in front of the segment is subtracted from its size.
SegmentPages(seg) ==
  LET off == (Space - (seg.at % PageBytes)) % Space
      up == (((seg.size + off) % Space) + PageBytes - 1) % Space
  IN up \div PageBytes

SegmentEntry(seg) ==
  [start |-> seg.at, pages |-> SegmentPages(seg),
   type |-> IF "x" \in seg.flags THEN "bs_code" ELSE "bs_data",
   attributes |-> {"WB"} \cup (IF "r" \in seg.flags /\ "w" \notin seg.flags THEN {"RO"} ELSE {})
                         \cup (IF "r" \notin seg.flags THEN {"RP"} ELSE {})
                         \cup (IF "x" \notin seg.flags THEN {"XP"} ELSE {})]

\* The two loops, one to count and one to fill: pools in the order of their types,
\* then of every program header those that are loaded.
Loaded(segs) == SelectSeq(segs, LAMBDA seg : seg.load)
MapSize(pools, segs) ==
  Stride * (Len(SelectSeq(pools, LAMBDA p : p.size > 0)) + Len(Loaded(segs)))
Entries(pools, segs) ==
  LET made == SelectSeq([t \in DOMAIN pools |-> t], LAMBDA t : pools[t].size > 0)
      used == Loaded(segs)
  IN [i \in DOMAIN made |-> PoolEntry(made[i], pools[made[i]])]
       \o [i \in DOMAIN used |-> SegmentEntry(used[i])]

\* whole: all the places for what is told besides the map were given
GetMemoryMap(pools, segs, size, buffer, whole) ==
  LET needed == MapSize(pools, segs)
      answer(status, told, map) == [status |-> status, size |-> told, map |-> map]
  IN CASE ~whole -> answer("invalid_parameter", size, <<>>)
       [] whole /\ needed > size -> answer("buffer_too_small", needed, <<>>)
       [] whole /\ needed <= size /\ ~buffer -> answer("invalid_parameter", size, <<>>)
       [] OTHER -> answer("success", needed, Entries(pools, segs))

-----------------------------------------------------------------------------

\* A program that asks without a buffer and asks again with the size it was told gets
\* a map that fills it exactly.  It has every pool and every loaded segment in order;
\* none reaches beyond the last page of what it describes, and a segment that starts
\* on a page is covered to its end.  What may not be written or run is told so.
MapTold(pools, segs, size) ==
  LET first == GetMemoryMap(pools, segs, size, size > 0, TRUE)
      told == IF first.status = "success" THEN first ELSE GetMemoryMap(pools, segs, first.size, TRUE, TRUE)
      used == Loaded(segs)
      before == Len(told.map) - Len(used)
  IN first.size > 0 =>
     /\ told.status = "success" /\ told.size = Stride * Len(told.map)
     /\ first.status = "success" => first.size <= size
     /\ {told.map[i].type : i \in 1..before} = {t \in DOMAIN pools : pools[t].size > 0}
     /\ \A i \in 1..before : told.map[i].pages * PageBytes = pools[told.map[i].type].size
     /\ \A i \in DOMAIN used :
          LET d == told.map[before + i]
              s == used[i]
          IN /\ d.start = s.at
             /\ d.start + d.pages * PageBytes < s.at + s.size + PageBytes
             /\ s.at % PageBytes = 0 => d.start + d.pages * PageBytes >= s.at + s.size
             /\ "w" \notin s.flags => d.attributes \cap {"RO", "RP"} # {}
             /\ ("x" \in s.flags) = ("XP" \notin d.attributes)
=============================================================================
