------------------------------- MODULE Memory -------------------------------
(***************************************************************************)
(* The memory pool of lib/mem.c and the services of tables/memory.c.       *)
(*                                                                         *)
(* A block lies between a head, which links it in the list of its pool and *)
(* is protected by a checksum over all its fields, the links included, and *)
(* a foot of eight known bytes.  TLSF, vendored, is any allocator that     *)
(* gives out free memory: a slot holds one block.  A pool is a record, its *)
(* operations are functions of it.                                         *)
(***************************************************************************)
EXTENDS Naturals, FiniteSets, FiniteSetsExt

CONSTANTS
  Slots,   \* the places of the pool, numbers
  NIL,     \* NULL
  Sizes,   \* the sizes that are asked for
  Others   \* how many blocks the context and the services may have at first

ASSUME SlotsAssumption == IsFiniteSet(Slots) /\ Slots \subseteq Nat \ {0} /\ NIL \notin Slots
ASSUME SizesAssumption == Sizes \subseteq Nat \ {0}
ASSUME OthersAssumption == Others \subseteq Nat \ {0} /\ \A n \in Others : 1..n \subseteq Slots

INSTANCE Links WITH Nodes <- Slots, Rank <- [s \in Slots |-> 0]

VARIABLES
  pool,     \* struct mem_pool with the heads and feet of its blocks
  others,   \* the blocks of the context, which is the first one, and of the services
  held,     \* the blocks the program got from AllocatePool and AllocatePages
  aborted,  \* abort() was called
  hurt,     \* blocks beyond whose bounds the program has written
  smashed,  \* one of them was hurt in its head, at any time
  short     \* an allocation has found the pool full

memoryVars == <<pool, others, held, aborted, hurt, smashed, short>>

\* TLSF puts a block in a free place, the lowest one: places do not matter.
Free == Slots \ pool.live
Placed(p) == IF Slots \subseteq p.live THEN NIL ELSE Min(Slots \ p.live)

EmptyHead == [magic |-> FALSE, size |-> 0, real |-> 0, align |-> FALSE]
NoSum == [head |-> EmptyHead, prev |-> NIL, next |-> NIL]

NewPool ==
  [links |-> Unlinked, first |-> NIL, head |-> [s \in Slots |-> EmptyHead],
   crc |-> [s \in Slots |-> NoSum], feet |-> {}, live |-> {},
   used |-> 0, asked |-> 0, count |-> 0]

-----------------------------------------------------------------------------
(* lib/mem.c *)

\* What the checksum of a head is taken of.
SumOf(p, b) == [head |-> p.head[b], prev |-> p.links.prev[b], next |-> p.links.next[b]]

UpdateSum(p, b) == IF b = NIL THEN p ELSE [p EXCEPT !.crc[b] = SumOf(p, b)]

\* check_buffer also stores the checksum it has computed.
CheckBuffer(p, b) ==
  /\ p.head[b].magic
  /\ p.crc[b] = SumOf(p, b)
  /\ p.head[b].real <= p.used
  /\ p.head[b].size <= p.asked
Checked(p, b) == IF p.head[b].magic THEN UpdateSum(p, b) ELSE p

\* mem_allocate and mem_aligned_allocate, in the place b TLSF has given
Allocate(p, b, size, align) ==
  LET real == size + 1
      linked == ObjAdd(p.links, p.first, b)
      q == [p EXCEPT !.links = linked, !.first = ObjAddTo(@, b), !.feet = @ \cup {b},
              !.head[b] = [magic |-> TRUE, size |-> size, real |-> real, align |-> align],
              !.live = @ \cup {b}, !.used = @ + real, !.asked = @ + size, !.count = @ + 1]
  IN UpdateSum(UpdateSum(UpdateSum(q, linked.prev[b]), linked.next[b]), b)

\* Faulty variant of Sound: the foot is not looked at.
SoundHead(p, b) == CheckBuffer(p, b) /\ b \in Members(p.links, p.first)

\* The checks of mem_free and mem_reallocate, which abort
Sound(p, b) == CheckBuffer(p, b) /\ b \in p.feet /\ b \in Members(p.links, p.first)

\* Faulty variant of Released: the neighbours keep the checksums of their old links.
ReleasedUnsummed(p, b) ==
  [p EXCEPT !.links = ObjStrip(@, p.first, b), !.first = ObjStripTo(p.links, @, b),
     !.used = @ - p.head[b].real, !.asked = @ - p.head[b].size, !.count = @ - 1,
     !.live = @ \ {b}, !.feet = @ \ {b}, !.head[b] = EmptyHead, !.crc[b] = NoSum]

Released(p, b) ==
  LET before == p.links.prev[b]
      after == p.links.next[b]
      q == [p EXCEPT !.links = ObjStrip(@, p.first, b), !.first = ObjStripTo(p.links, @, b),
              !.used = @ - p.head[b].real, !.asked = @ - p.head[b].size, !.count = @ - 1,
              !.live = @ \ {b}, !.feet = @ \ {b}]
      r == UpdateSum(UpdateSum(q, before), after)
  IN [r EXCEPT !.head[b] = EmptyHead, !.crc[b] = NoSum]

\* mem_reallocate of b to another size, in the place c it has been moved to.
\* The first block of a pool is never moved: pool->desc would be left behind.
Reallocated(p, b, c, size) ==
  LET real == size + 1
      before == p.links.prev[b]
      after == p.links.next[b]
      moved == [prev |-> [n \in Slots |-> IF n = c THEN before
                                          ELSE IF n = after THEN c
                                          ELSE IF n = b THEN NIL ELSE p.links.prev[n]],
                next |-> [n \in Slots |-> IF n = c THEN after
                                          ELSE IF n = before THEN c
                                          ELSE IF n = b THEN NIL ELSE p.links.next[n]]]
      heads == [p.head EXCEPT ![b] = EmptyHead,
                              ![c] = [magic |-> TRUE, size |-> size, real |-> real, align |-> FALSE]]
      q == [p EXCEPT !.links = moved, !.head = heads, !.crc[b] = NoSum,
              !.feet = (@ \ {b}) \cup {c}, !.live = (@ \ {b}) \cup {c},
              !.used = @ - p.head[b].real + real, !.asked = @ - p.head[b].size + size]
  IN UpdateSum(UpdateSum(UpdateSum(q, before), after), c)

\* pool->reallocate may leave the block where it is or move it, and needs room to move.
ReallocatedTo(p, b) == {b} \cup (IF Placed(p) = NIL THEN {NIL} ELSE {Placed(p)})

\* mem_free of a block that must be sound; s tells what came of it
Release(s, b) ==
  IF s.ok /\ Sound(s.pool, b) THEN [s EXCEPT !.pool = Released(@, b)] ELSE [s EXCEPT !.ok = FALSE]

-----------------------------------------------------------------------------
(* tables/memory.c, and the program that uses it *)

\* A pool from which n blocks have been allocated, in the places 1, .. n
PoolWith(n) ==
  LET after[i \in 0..n] == IF i = 0 THEN NewPool ELSE Allocate(after[i - 1], i, 1, FALSE)
  IN after[n]

MemoryInit ==
  /\ \E n \in Others : pool = PoolWith(n)
  /\ others = pool.live
  /\ held = {}
  /\ aborted = FALSE
  /\ hurt = {}
  /\ smashed = FALSE
  /\ short = FALSE

\* AllocatePool answers success even where it gives NULL.
AllocatePool(size, align) ==
  LET b == Placed(pool)
  IN /\ IF b = NIL
        THEN short' = TRUE /\ UNCHANGED <<pool, held>>
        ELSE /\ pool' = Allocate(pool, b, size, align)
             /\ held' = held \cup {b}
             /\ UNCHANGED short
     /\ UNCHANGED <<others, aborted, hurt, smashed>>

\* FreePool of a block, or again of one that has been freed: the head of a freed
\* block is cleared, so that it is refused with NOT_FOUND.
Given == held \cup (IF Free = {} THEN {} ELSE {Min(Free)})

FreePool(b) ==
  /\ IF ~CheckBuffer(pool, b)
     THEN pool' = Checked(pool, b) /\ UNCHANGED <<others, held, aborted, hurt>>
     ELSE LET s == Release([pool |-> pool, ok |-> TRUE], b)
          IN /\ pool' = s.pool
             /\ aborted' = ~s.ok
             /\ held' = IF s.ok THEN held \ {b} ELSE held
             /\ hurt' = IF s.ok THEN hurt \ {b} ELSE hurt
  /\ UNCHANGED <<others, smashed, short>>

FreePages(b, size) ==
  /\ CheckBuffer(pool, b) => pool.head[b].align /\ pool.head[b].size = size
  /\ FreePool(b)

\* The program writes past the end of its block, or, once, in front of it.
Overrun(b) ==
  /\ pool' = [pool EXCEPT !.feet = @ \ {b}]
  /\ hurt' = hurt \cup {b}
  /\ UNCHANGED <<others, held, aborted, smashed, short>>

Underrun(b) ==
  /\ ~smashed
  /\ pool' = [pool EXCEPT !.head[b].real = 0]
  /\ hurt' = hurt \cup {b}
  /\ smashed' = TRUE
  /\ UNCHANGED <<others, held, aborted, short>>

MemoryNext ==
  \/ \E size \in Sizes, align \in BOOLEAN : AllocatePool(size, align)
  \/ \E b \in Given : FreePool(b) \/ \E size \in Sizes : FreePages(b, size)
  \/ \E b \in held : Overrun(b) \/ Underrun(b)

-----------------------------------------------------------------------------
(* What the pool promises *)

\* No call ends in abort() unless the program has written outside its blocks or
\* the pool was full: the checksum of a head is renewed by all that changes it,
\* also by what is done to its neighbours in the list.
NoFalseAbort == aborted => hurt # {} \/ short

\* A block past whose end the program has written never goes back to the
\* allocator: it is refused for as long as the program runs.
DamageStops == [][\A b \in pool.live \ pool.feet : b \in pool'.live]_memoryVars

\* The bytes of blocks that have the given sizes
BytesOf(size) == UNION {{b} \X (1..size[b]) : b \in DOMAIN size}

\* The list of the pool holds the blocks that are given out and no other, and its
\* three counters agree with them, the sizes for as long as no head was hurt.
BlocksAccounted ==
  /\ Members(pool.links, pool.first) = pool.live
  /\ pool.count = Cardinality(pool.live)
  /\ ~smashed => /\ pool.asked = Cardinality(BytesOf([b \in pool.live |-> pool.head[b].size]))
                 /\ pool.used = Cardinality(BytesOf([b \in pool.live |-> pool.head[b].real]))
=============================================================================
