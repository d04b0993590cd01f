------------------------------- MODULE Headers -------------------------------
(***************************************************************************)
(* The parser of PE headers (loader/parser.c), which decides what part of  *)
(* a file the loader (Loader) may look at.  A file is a record of its      *)
(* length and of what its headers say; sizes are in bytes.                 *)
(***************************************************************************)
EXTENDS Naturals, FiniteSets

FileHeader == 24      \* SFH, signature included
SectionHeader == 40   \* SSH
Symbol == 18          \* SS
Common == 24          \* SOHC
Directories == 16 * 8

\* The size of an optional header without and with its data directories
Least32 == Common + 72
Least64 == Common + 88
Most32 == Least32 + Directories
Most64 == Least64 + Directories
Largest == Most64     \* SOH

OptAt(f) == f.pe + FileHeader
SectionsAt(f) == OptAt(f) + f.opt
SectionsEnd(f) == SectionsAt(f) + f.sections * SectionHeader

LoadFileHeader(f) ==
  /\ OptAt(f) < f.length
  /\ f.signature /\ f.machine /\ f.executable

LoadOptHeader(f) ==
  /\ f.opt > Common /\ f.opt <= Largest
  /\ SectionsAt(f) < f.length
  /\ \/ f.kind = "PE32" /\ f.opt \in Least32..Most32
     \/ f.kind = "PE32+" /\ f.opt \in Least64..Most64

\* Faulty variant of LoadSectionHeaders: the first header is looked at only.
LoadOneSectionHeader(f) == SectionsAt(f) + SectionHeader < f.length

LoadSectionHeaders(f) == SectionsEnd(f) < f.length

HasSymbols(f) == f.table # 0 /\ f.symbols # 0
LoadSymbols(f) == HasSymbols(f) => f.table + f.symbols * Symbol <= f.length

Parse(f) == LoadFileHeader(f) /\ LoadOptHeader(f) /\ LoadSectionHeaders(f) /\ LoadSymbols(f)

\* efi_load_by_data: a file is loaded once, and a failure leaves it with its data.
LoadByData(file, f, loads) ==
  IF f.length <= 64 \/ file # "empty" THEN [file |-> file, loaded |-> FALSE]
  ELSE [file |-> "filled", loaded |-> Parse(f) /\ loads]

-----------------------------------------------------------------------------

\* The bytes from a place on, of so many
Bytes(at, size) == IF size = 0 THEN {} ELSE at..(at + size - 1)

\* What is read of a file that was accepted: the offset of the signature, the headers,
\* and the symbols.
ReadOf(f) ==
  UNION {Bytes(60, 4), Bytes(f.pe, FileHeader), Bytes(OptAt(f), f.opt),
         Bytes(SectionsAt(f), f.sections * SectionHeader),
         IF HasSymbols(f) THEN Bytes(f.table, f.symbols * Symbol) ELSE {}}

\* A file that is accepted is read nowhere but in it, and its optional header has every
\* field of its kind; a file that is so and goes on behind its section headers is
\* accepted.  What has been loaded, or has failed to, is not loaded again.
HeadersSound(f) ==
  LET inside == ReadOf(f) \subseteq 0..(f.length - 1)
      complete == \/ f.kind = "PE32" /\ f.opt \in Least32..Most32
                  \/ f.kind = "PE32+" /\ f.opt \in Least64..Most64
      once == LoadByData("empty", f, TRUE)
  IN /\ once.loaded => inside /\ complete
     /\ inside /\ complete /\ f.signature /\ f.machine /\ f.executable
          /\ SectionsEnd(f) < f.length => once.loaded
     /\ once.file = "filled" => ~LoadByData(once.file, f, TRUE).loaded
=============================================================================
