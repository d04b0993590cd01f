-------------------------------- MODULE Tlsf --------------------------------
(***************************************************************************)
(* The allocator below the pools (libs/tlsf/tlsf.c), which context.c uses  *)
(* for each of them: two-level segregated fit.                             *)
(*                                                                         *)
(* Memory is a sequence of words as wide as a size_t.  A block is named by *)
(* the address of its header's first word, the link to its predecessor,    *)
(* which is the last word of the predecessor's data unless that is free;   *)
(* the second word has its size and two flags, the next ones its links in  *)
(* a free list or the data of the program.  All that is kept in memory is  *)
(* modelled there, so that a word has one meaning at a time.               *)
(***************************************************************************)
EXTENDS Integers, Sequences, SequencesExt, FiniteSetsExt

CONSTANTS
  PoolWords,  \* what tlsf_add_pool is given
  SlLog2,     \* SL_INDEX_COUNT_LOG2
  FlLog2,     \* FL_INDEX_MAX, in words
  Ids,        \* what the program allocates, known by what it writes there
  Requests,   \* the sizes it asks for
  NONE        \* NULL

\* 1 << k
Pow2[k \in Nat] == IF k = 0 THEN 1 ELSE 2 * Pow2[k - 1]

VARIABLES
  heap,   \* word: the memory, lists: the free lists, fl and sl: the bitmaps
  given   \* id |-> where and how large the program's block is

heapVars == <<heap, given>>

Min3(size) == IF size < 3 THEN 3 ELSE size  \* block_size_min
SmallBlock == Pow2[SlLog2]
FlCount == FlLog2 - SlLog2 + 1
Classes == (0..(FlCount - 1)) \X (0..(SmallBlock - 1))

ASSUME TlsfAssumption ==
  /\ PoolWords \in Nat /\ SlLog2 \in Nat \ {0} /\ FlLog2 \in Nat /\ FlLog2 > SlLog2
  /\ PoolWords - 2 \in 3..(Pow2[FlLog2] - 1)
  /\ Ids \subseteq Nat /\ Requests \subseteq 1..(Pow2[FlLog2] - 1) /\ NONE \notin Nat \cup Classes

-----------------------------------------------------------------------------
(* Sizes and their classes *)

Fls(n) == CHOOSE k \in 0..FlLog2 : Pow2[k] <= n /\ n < Pow2[k + 1]

AdjustRequest(size) == IF size = 0 \/ size >= Pow2[FlLog2] THEN 0 ELSE Min3(size)

MappingInsert(size) ==
  IF size < SmallBlock THEN <<0, size>>
  ELSE <<Fls(size) - SlLog2 + 1, size \div Pow2[Fls(size) - SlLog2] - SmallBlock>>

\* Faulty variant of MappingSearch: the size is not rounded up.
MappingSearchLow(size) == MappingInsert(size)

\* Rounded up to the next class, all blocks of which are large enough.
MappingSearch(size) ==
  MappingInsert(IF size < SmallBlock THEN size ELSE size + Pow2[Fls(size) - SlLog2] - 1)

-----------------------------------------------------------------------------
(* Headers, the words of which are read and written in place *)

SizeOf(h, b) == h.word[b + 1][2]
IsFree(h, b) == h.word[b + 1][3]
IsPrevFree(h, b) == h.word[b + 1][4]
PrevOf(h, b) == h.word[b][2]
NextOf(h, b) == b + 1 + SizeOf(h, b)
PtrOf(b) == b + 2

SetSize(h, b, size) == [h EXCEPT !.word[b + 1][2] = size]
SetFree(h, b, free) == [h EXCEPT !.word[b + 1][3] = free]
SetPrevFree(h, b, free) == [h EXCEPT !.word[b + 1][4] = free]
LinkNext(h, b) == [h EXCEPT !.word[NextOf(h, b)] = <<"prev", b>>]

MarkFree(h, b) == SetFree(SetPrevFree(LinkNext(h, b), NextOf(h, b), TRUE), b, TRUE)
MarkUsed(h, b) == SetFree(SetPrevFree(h, NextOf(h, b), FALSE), b, FALSE)

-----------------------------------------------------------------------------
(* Free lists *)

\* The bits go with the last block of a list, that of the first level with the
\* last list of its second level.
RemoveFree(h, b, class) ==
  LET list == h.lists[class]
      rest == RemoveAt(list, CHOOSE i \in DOMAIN list : list[i] = b)
      sl == IF rest = <<>> THEN h.sl \ {class} ELSE h.sl
  IN [h EXCEPT !.lists[class] = rest, !.sl = sl,
        !.fl = IF \E c \in sl : c[1] = class[1] THEN @ ELSE @ \ {class[1]}]

BlockRemove(h, b) == RemoveFree(h, b, MappingInsert(SizeOf(h, b)))

BlockInsert(h, b) ==
  LET class == MappingInsert(SizeOf(h, b))
  IN [h EXCEPT !.lists[class] = <<b>> \o @, !.fl = @ \cup {class[1]}, !.sl = @ \cup {class},
        !.word[b + 2] = <<"link">>, !.word[b + 3] = <<"link">>]

\* search_suitable_block: the first list that has a block, by the bitmaps
SearchSuitable(h, class) ==
  LET here == {c \in h.sl : c[1] = class[1] /\ c[2] >= class[2]}
      higher == {i \in h.fl : i > class[1]}
      in == IF here # {} THEN here ELSE {c \in h.sl : c[1] = Min(higher)}
  IN IF here = {} /\ higher = {} THEN NONE ELSE CHOOSE c \in in : \A d \in in : c[2] <= d[2]

\* block_locate_free takes the first block of that list.
ClassFor(h, size) ==
  IF size = 0 \/ MappingSearch(size)[1] >= FlCount THEN NONE
  ELSE SearchSuitable(h, MappingSearch(size))

-----------------------------------------------------------------------------
(* Blocks are split and merged *)

CanSplit(h, b, size) == SizeOf(h, b) >= size + 4

\* The remaining block keeps the flags of whatever lay in its place, junk.
Split(h, b, size) ==
  LET rest == b + 1 + size
      s == [h EXCEPT !.word[rest + 1] = <<"size", SizeOf(h, b) - (size + 1), h.junk, h.junk>>]
  IN MarkFree(SetSize(s, b, size), rest)

Absorb(h, b, next) == LET s == SetSize(h, b, SizeOf(h, b) + SizeOf(h, next) + 1) IN LinkNext(s, b)

MergeNext(h, b) ==
  LET next == NextOf(h, b)
  IN IF IsFree(h, next) THEN Absorb(BlockRemove(h, next), b, next) ELSE h

\* Gives the block that is left too.
MergePrev(h, b) ==
  LET prev == PrevOf(h, b)
  IN IF IsPrevFree(h, b) THEN <<Absorb(BlockRemove(h, prev), prev, b), prev>> ELSE <<h, b>>

TrimFree(h, b, size) ==
  LET rest == b + 1 + size
  IN IF ~CanSplit(h, b, size) THEN h
     ELSE BlockInsert(SetPrevFree(LinkNext(Split(h, b, size), b), rest, TRUE), rest)

TrimUsed(h, b, size) ==
  LET rest == b + 1 + size
  IN IF ~CanSplit(h, b, size) THEN h
     ELSE BlockInsert(MergeNext(SetPrevFree(Split(h, b, size), rest, FALSE), rest), rest)

-----------------------------------------------------------------------------
(* The functions the pools call; a result is <<heap, pointer>> *)

TlsfMalloc(h, size) ==
  LET adjust == AdjustRequest(size)
      class == ClassFor(h, adjust)
      b == Head(h.lists[class])
  IN IF class = NONE THEN <<h, NONE>>
     ELSE <<MarkUsed(TrimFree(RemoveFree(h, b, class), b, adjust), b), PtrOf(b)>>

TlsfFree(h, ptr) ==
  LET s == MergePrev(MarkFree(h, ptr - 2), ptr - 2)
  IN BlockInsert(MergeNext(s[1], s[2]), s[2])

\* memcpy
Copied(h, to, from, size) ==
  [h EXCEPT !.word = [w \in DOMAIN @ |-> IF w \in to..(to + size - 1) THEN @[w - to + from] ELSE @[w]]]

TlsfRealloc(h, ptr, size) ==
  LET b == ptr - 2
      next == NextOf(h, b)
      adjust == AdjustRequest(size)
      cursize == SizeOf(h, b)
      combined == cursize + SizeOf(h, next) + 1
      new == TlsfMalloc(h, size)
      grown == IF adjust > cursize THEN MarkUsed(MergeNext(h, b), b) ELSE h
  IN IF adjust > cursize /\ (~IsFree(h, next) \/ adjust > combined)
     THEN IF new[2] = NONE THEN new
          ELSE <<TlsfFree(Copied(new[1], new[2], ptr, IF cursize < size THEN cursize ELSE size), ptr), new[2]>>
     ELSE <<TrimUsed(grown, b, adjust), ptr>>

\* tlsf_create and tlsf_add_pool: one free block and a sentinel of size zero
NewHeap ==
  LET size == PoolWords - 2
      block == [word |-> [w \in 0..PoolWords |-> <<"none">>], lists |-> [c \in Classes |-> <<>>],
                fl |-> {}, sl |-> {}, junk |-> FALSE]
      free == [block EXCEPT !.word[1] = <<"size", size, TRUE, FALSE>>,
                            !.word[size + 2] = <<"size", 0, FALSE, TRUE>>]
  IN LinkNext(BlockInsert(free, 0), 0)

-----------------------------------------------------------------------------
(* A program, which fills what it gets *)

Filled(h, id, ptr, size) ==
  [h EXCEPT !.word = [w \in DOMAIN @ |-> IF w \in ptr..(ptr + size - 1) THEN <<"data", id>> ELSE @[w]]]

TlsfInit == heap = NewHeap /\ given = << >>

\* As many blocks as fit, of a header and three words each
Most == PoolWords \div 4

\* Where a walk from header to header is after so many steps; it stays at the sentinel.
Walked(h) ==
  LET at[i \in 0..Most] ==
        IF i = 0 THEN 0
        ELSE LET b == at[i - 1] IN IF SizeOf(h, b) = 0 THEN b ELSE NextOf(h, b)
  IN at

Blocks(h) == LET at == Walked(h) IN {b \in {at[i] : i \in 0..Most} : SizeOf(h, b) # 0}
Sentinel == PoolWords - 1

\* Bound: words that are of no block's header or data, which nothing reads, are cleared.
DataOf(g) == UNION {g[id].ptr..(g[id].ptr + g[id].size - 1) : id \in DOMAIN g}
LinksOf(h, bs) == UNION {{b + 2, b + 3, NextOf(h, b)} : b \in {c \in bs : IsFree(h, c)}}
Live(h, g) ==
  LET bs == Blocks(h) IN {b + 1 : b \in bs} \cup DataOf(g) \cup LinksOf(h, bs) \cup {PoolWords}
Become(h, g) ==
  /\ LET live == Live(h, g)
     IN heap' = [h EXCEPT !.junk = FALSE,
                   !.word = [w \in DOMAIN @ |-> IF w \in live THEN @[w] ELSE <<"none">>]]
  /\ given' = g

Got(id, r, size, from) ==
  /\ r[2] # NONE
  /\ Become(Filled(r[1], id, r[2] + from, size - from),
            [i \in DOMAIN given \cup {id} |-> IF i = id THEN [ptr |-> r[2], size |-> size] ELSE given[i]])

Malloc(id, size) ==
  /\ id \notin DOMAIN given /\ \A i \in Ids \ DOMAIN given : id <= i
  /\ \E junk \in BOOLEAN : Got(id, TlsfMalloc([heap EXCEPT !.junk = junk], size), size, 0)

Release(id) ==
  Become(TlsfFree(heap, given[id].ptr), [i \in DOMAIN given \ {id} |-> given[i]])

\* What the program had stays as it is, and it fills the rest.
Resize(id, size) ==
  LET had == given[id].size
  IN \E junk \in BOOLEAN :
       Got(id, TlsfRealloc([heap EXCEPT !.junk = junk], given[id].ptr, size), size, Min({had, size}))

TlsfNext ==
  \/ \E id \in Ids, size \in Requests : Malloc(id, size)
  \/ \E id \in DOMAIN given : Release(id) \/ \E size \in Requests : Resize(id, size)

TlsfSpec == TlsfInit /\ [][TlsfNext]_heapVars

-----------------------------------------------------------------------------
(* What the pools rely on *)

\* Blocks tile the pool; the flag a block has of its predecessor is right, and so
\* is the link to one that is free; no two free ones are adjacent.
IsTiled ==
  /\ Walked(heap)[Most] = Sentinel /\ SizeOf(heap, Sentinel) = 0
  /\ ~IsFree(heap, Sentinel) /\ ~IsPrevFree(heap, 0)
  /\ \A b \in Blocks(heap) :
       LET next == NextOf(heap, b)
       IN /\ IsPrevFree(heap, next) = IsFree(heap, b)
          /\ IsFree(heap, b) => PrevOf(heap, next) = b /\ ~IsFree(heap, next)

\* What tlsf_check asserts: free blocks are each in the list of their class, once,
\* and the bits are those of the lists that have blocks.
ListsAgree ==
  /\ LET free == {b \in Blocks(heap) : IsFree(heap, b)}
     IN \A c \in Classes : ToSet(heap.lists[c]) = {b \in free : MappingInsert(SizeOf(heap, b)) = c}
  /\ \A c \in Classes :
       Len(heap.lists[c]) = Cardinality(ToSet(heap.lists[c]))
  /\ heap.sl = {c \in Classes : heap.lists[c] # <<>>}
  /\ heap.fl = {c[1] : c \in heap.sl}

\* Each block of the program is a used one that is large enough, no two are the
\* same, and it holds what the program wrote.
DataKept ==
  LET used == {b \in Blocks(heap) : ~IsFree(heap, b)}
  IN /\ used = {given[id].ptr - 2 : id \in DOMAIN given}
     /\ \A id \in DOMAIN given :
          LET g == given[id]
          IN /\ SizeOf(heap, g.ptr - 2) >= g.size
             /\ \A w \in g.ptr..(g.ptr + g.size - 1) : heap.word[w] = <<"data", id>>

\* A request fails only where no free block is larger than it by one part in
\* SL_INDEX_COUNT, and what it finds is large enough.
FindsRoom ==
  LET free == {b \in Blocks(heap) : IsFree(heap, b)}
  IN \A size \in {AdjustRequest(n) : n \in Requests} :
       LET class == ClassFor(heap, size)
       IN IF class = NONE THEN \A b \in free : SizeOf(heap, b) < size + size \div SmallBlock
          ELSE SizeOf(heap, Head(heap.lists[class])) >= size

\* The allocator keeps its blocks and those of the program apart and finds them
\* again (tlsf.c:845-895 asserts the part of it that concerns the free lists).
HeapSound == IsTiled /\ ListsAgree /\ DataKept /\ FindsRoom
=============================================================================
