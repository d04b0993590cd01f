------------------------------- MODULE Layout -------------------------------
(***************************************************************************)
(* Where mem_aligned_allocate of lib/mem.c puts a block, its head and its  *)
(* foot in the memory it takes from the allocator, and that they fit.      *)
(* Alignments are powers of two, for which the masks of round_up are what  *)
(* is written here.                                                        *)
(***************************************************************************)
EXTENDS Integers

\* round_up
RoundUp(v, a) == ((v + a - 1) \div a) * a

\* Faulty variant of RealSize: one alignment is thought enough for head and foot.
RealSizeOnce(align, size, head, foot) == RoundUp(RoundUp(size, align) + align + foot, align)

\* ms: what is asked for, for heads and feet of the given sizes
RealSize(align, size, head, foot) ==
  RoundUp(RoundUp(size, align) + 2 * align + head + foot, align)

\* The first aligned place in the memory at data, moved on until the head fits.
Buffer(align, data, head) ==
  LET first == RoundUp(data, align)
      room == first - data
  IN IF room >= head THEN first ELSE first + RoundUp(head - room, align)

-----------------------------------------------------------------------------

\* The block is aligned, its head lies behind the start of the memory and its foot,
\* which is put behind the size rounded up, in front of the end.
BlockFits(align, size, data, head, foot) ==
  LET buff == Buffer(align, data, head)
  IN /\ \E k \in 0..buff : buff = k * align
     /\ data <= buff - head
     /\ buff + RoundUp(size, align) + foot <= data + RealSize(align, size, head, foot)
=============================================================================
