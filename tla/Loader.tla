------------------------------- MODULE Loader -------------------------------
(***************************************************************************)
(* Loading a parsed PE file into memory (loader/loader.c) and finding what *)
(* an address belongs to (loader/symbol.c).  An image is a record of what  *)
(* its headers say; a cell of memory is as wide as a pointer and a page    *)
(* has PageSize of them.  Cell o of the file holds 1000 + o.               *)
(*                                                                         *)
(* A section has virtual_address va, raw_data_size size, raw_data_ptr raw, *)
(* and an extent, its virtual_size, which the loader never looks at.       *)
(***************************************************************************)
EXTENDS Integers, Sequences, SequencesExt, FiniteSetsExt

CONSTANTS
  PageSize,    \* cells of a page, PAGE_SIZE
  ImagePages,  \* image_size in pages
  FileLength,  \* file->length
  Word,        \* 2^32, what the sum of two numbers of a header is taken modulo
  Address      \* where the pool puts the image

ASSUME PageAssumption == PageSize \in Nat \ {0} /\ ImagePages \in Nat \ {0} /\ Word \in Nat \ {0}

ImageSize == PageSize * ImagePages
ImageCells == 0..(ImageSize - 1)
PagesOf(from, size) == {o \div PageSize : o \in from..(from + size - 1)}
FileCell(o) == 1000 + o
Limit(sec) == (sec.va + sec.size) % Word
CellsOf(sec) == sec.va..(Limit(sec) - 1)
Everything == {"r", "w", "x"}

-----------------------------------------------------------------------------
(* loader.c, which gives up at the first step that fails *)

\* efi_alloc_image takes the memory from a pool by subsystem; others have none.
PoolOf(img) ==
  CASE img.subsystem = "application" -> "loader_code"
    [] img.subsystem \in {"boot_service_driver", "runtime_driver", "rom"} -> "bs_code"
    [] OTHER -> "none"

\* Both sums are 32 bits wide.  If one that is too large passes for a small one, memory
\* that is not of the file or the image is read or written: nothing is known from then on.
CopySection(s, sec) ==
  IF ~s.ok \/ s.wild THEN s
  ELSE IF (sec.raw + sec.size) % Word > FileLength \/ Limit(sec) > ImageSize THEN [s EXCEPT !.ok = FALSE]
  ELSE IF sec.raw + sec.size > FileLength \/ sec.va + sec.size > ImageSize THEN [s EXCEPT !.wild = TRUE]
  ELSE [s EXCEPT !.memory =
         [o \in ImageCells |-> IF o \in CellsOf(sec) THEN FileCell(sec.raw + o - sec.va) ELSE @[o]]]

\* The size of the headers is not looked at.
LoadSections(img) ==
  FoldLeft(CopySection,
           [ok |-> TRUE, wild |-> img.headers > FileLength \/ img.headers > ImageSize,
            memory |-> [o \in ImageCells |-> IF o < img.headers THEN FileCell(o) ELSE 0]],
           img.sections)

\* efi_lookup_section: the first section the address is in, 0 if none
LookupSection(img, addr) == SelectInSeq(img.sections, LAMBDA sec : addr \in CellsOf(sec))

\* The entries of the blocks up to the one of virtual address 0, as <<address, type>>
\* (HIGHLOW, which slides half a cell, is left out).
Relocations(img) ==
  LET last == SelectInSeq(img.blocks, LAMBDA b : b.va = 0)
      blocks == IF last = 0 THEN img.blocks ELSE SubSeq(img.blocks, 1, last - 1)
  IN FlattenSeq([k \in DOMAIN blocks |->
       [n \in DOMAIN blocks[k].entries |->
         <<blocks[k].va + blocks[k].entries[n][1], blocks[k].entries[n][2]>>]])

Relocate(img, s) ==
  LET slide == Address - img.base
      sec == LookupSection(img, img.dir)
      Step(t, e) ==
        IF ~t.ok \/ t.wild THEN t
        ELSE IF e[2] \notin {"absolute", "dir64"} THEN [t EXCEPT !.ok = FALSE]
        ELSE IF e[2] = "dir64" /\ e[1] \notin ImageCells THEN [t EXCEPT !.wild = TRUE]
        ELSE IF e[2] = "dir64" THEN [t EXCEPT !.memory[e[1]] = @ + slide] ELSE t
  IN IF ~s.ok \/ s.wild \/ img.blocks = <<>> THEN s
     ELSE IF sec = 0 \/ "r" \notin img.sections[sec].flags THEN [s EXCEPT !.ok = FALSE]
     ELSE FoldLeft(Step, s, Relocations(img))

\* efi_locate_entry: the first section the entry is in, or right behind
LocateEntry(img) ==
  LET sec == SelectInSeq(img.sections, LAMBDA s : img.entry \in s.va..Limit(s))
  IN img.entry < ImageSize /\ sec # 0 /\ "x" \in img.sections[sec].flags

\* mprotect of whole pages
Mprotect(prot, from, size, flags) ==
  [p \in DOMAIN prot |-> IF p \in PagesOf(from, size) THEN flags ELSE prot[p]]

\* IS_BETWEEN_MEM leaves out the first address.
BetweenMem(at, sec) == at > sec.va /\ at < Limit(sec)

\* Faulty variant of OverlapStep: the pages get the flags of the new section.
OverlapStepAlone(s, sec, cur) ==
  LET pages == {k \in 0..ImagePages : /\ BetweenMem(s.area + k * PageSize, sec)
                                      /\ s.size - k * PageSize > PageSize}
      over == Cardinality(pages) * PageSize
  IN IF ~BetweenMem(s.area, sec) \/ cur.flags = sec.flags THEN s
     ELSE [area |-> s.area + over, size |-> s.size - over,
           prot |-> Mprotect(s.prot, s.area, over, cur.flags)]

\* proc_overlap: pages at the start of cur that sec reaches into get the flags of
\* both and are taken off what is left of cur, all but its last page.
OverlapStep(s, sec, cur) ==
  LET pages == {k \in 0..ImagePages : /\ BetweenMem(s.area + k * PageSize, sec)
                                      /\ s.size - k * PageSize > PageSize}
      over == Cardinality(pages) * PageSize
  IN IF ~BetweenMem(s.area, sec) \/ cur.flags = sec.flags THEN s
     ELSE [area |-> s.area + over, size |-> s.size - over,
           prot |-> Mprotect(s.prot, s.area, over, cur.flags \cup sec.flags)]

ProtectSection(img, prot, cur) ==
  LET area == (cur.va \div PageSize) * PageSize
      whole == [area |-> area, size |-> cur.va + cur.size - area, prot |-> prot]
      rest == IF area = cur.va THEN whole
              ELSE FoldLeft(LAMBDA s, sec : OverlapStep(s, sec, cur), whole, img.sections)
  IN Mprotect(rest.prot, rest.area, rest.size, cur.flags)

MemoryProtect(img) ==
  IF img.permissive THEN [p \in 0..(ImagePages - 1) |-> Everything]
  ELSE LET closed == [p \in 0..(ImagePages - 1) |-> {}]
       IN FoldLeft(LAMBDA prot, sec : ProtectSection(img, prot, sec),
                   Mprotect(closed, 0, img.headers, {"r"}), img.sections)

\* efi_load_data; what it answers is not known if it worked on other memory.
LoadData(img) ==
  LET s == Relocate(img, LoadSections(img))
  IN [ok |-> PoolOf(img) # "none" /\ s.ok /\ ~s.wild /\ LocateEntry(img),
      wild |-> PoolOf(img) # "none" /\ s.wild,
      pool |-> PoolOf(img), memory |-> s.memory, prot |-> MemoryProtect(img)]

-----------------------------------------------------------------------------
(* symbol.c *)

\* efi_lookup_builtin_symbol: the last one of those nearest before the address in
\* its section, 0 if there is none
LookupSymbol(img, addr) ==
  LET sec == LookupSection(img, addr)
      offset == addr - img.sections[sec].va
      Step(best, k) ==
        LET sym == img.symbols[k]
        IN IF sym.section # sec \/ sym.value > offset THEN best
           ELSE IF best # 0 /\ sym.value < img.symbols[best].value THEN best
           ELSE k
  IN IF sec = 0 THEN 0 ELSE FoldLeft(Step, 0, [k \in DOMAIN img.symbols |-> k])

-----------------------------------------------------------------------------
(* What a loaded image must be *)

\* Where a section ends, data and zeros
FarEnd(sec) == sec.va + (IF sec.extent > sec.size THEN sec.extent ELSE sec.size)

\* What linkers make: sections in order, apart, with data in the file and the image;
\* relocations of cells of the image, of types the loader knows.
WellLinked(img) ==
  /\ \A i \in DOMAIN img.sections :
       LET sec == img.sections[i]
       IN /\ sec.va >= IF i = 1 THEN img.headers ELSE FarEnd(img.sections[i - 1])
          /\ FarEnd(sec) <= ImageSize /\ sec.raw + sec.size <= FileLength
  /\ img.headers <= FileLength
  /\ \A r \in ToSet(Relocations(img)) : r[1] \in ImageCells /\ r[2] \in {"absolute", "dir64"}
  /\ img.blocks # <<>> => \E sec \in ToSet(img.sections) : img.dir \in CellsOf(sec) /\ "r" \in sec.flags

\* A section out of the file or the image
Outside(sec) == sec.va + sec.size > ImageSize \/ sec.raw + sec.size > FileLength

\* Headers without what the loader does not look for: more of them than there is room
\* for, numbers of a section that have no sum in 32 bits, relocations of other memory
Tame(img) ==
  /\ img.headers <= FileLength /\ img.headers <= ImageSize
  /\ \A sec \in ToSet(img.sections) : sec.raw + sec.size < Word /\ sec.va + sec.size < Word
  /\ \A r \in ToSet(Relocations(img)) : r[2] = "dir64" => r[1] \in ImageCells

Within(img, sec, o) == o \in CellsOf(img.sections[sec])

\* What a cell must hold: its data of the file, slid for each relocation of it.
Contents(img, o) ==
  LET slid == Len(SelectSeq(Relocations(img), LAMBDA r : r = <<o, "dir64">>))
      data == IF o < img.headers THEN FileCell(o)
              ELSE IF \E k \in DOMAIN img.sections : Within(img, k, o)
                THEN LET k == CHOOSE j \in DOMAIN img.sections : Within(img, j, o)
                     IN FileCell(img.sections[k].raw + o - img.sections[k].va)
              ELSE 0
  IN data + slid * (Address - img.base)

\* The sections with data on a page, the headers left out
OnPage(img, p) == {k \in DOMAIN img.sections : p \in PagesOf(img.sections[k].va, img.sections[k].size)}

\* The cases of a shared page the loader handles: two sections, the first of which
\* begins before the page and the second of which goes on behind it.  A section without
\* data within the page is none of them.
Handled(img, p) ==
  LET on == OnPage(img, p)
  IN /\ \A k \in DOMAIN img.sections :
          LET sec == img.sections[k]
          IN sec.size = 0 /\ sec.va \div PageSize = p => sec.va = p * PageSize
     /\ \/ Cardinality(on) <= 1
        \/ /\ Cardinality(on) = 2
           /\ \A k \in on : \/ img.sections[k].va < p * PageSize
                            \/ Limit(img.sections[k]) > (p + 1) * PageSize
           /\ \E k \in on : img.sections[k].va < p * PageSize
           /\ \E k \in on : Limit(img.sections[k]) > (p + 1) * PageSize

\* An entry that is not at the end of one section and the start of the next
EntryIsClear(img) == \A k \in DOMAIN img.sections : img.entry # Limit(img.sections[k])

\* The symbols of the section of an address that are not behind it
Before(img, addr) ==
  {k \in DOMAIN img.symbols :
     LET sec == img.symbols[k].section
     IN Within(img, sec, addr) /\ img.sections[sec].va + img.symbols[k].value <= addr}

\* A page without data, of the zeros of a section for instance, is left without access.
IsLoaded(img) ==
  LET r == LoadData(img)
  IN /\ Tame(img) => ~r.wild /\ (r.ok => \A sec \in ToSet(img.sections) : ~Outside(sec))
     /\ WellLinked(img) /\ EntryIsClear(img) =>
          (r.ok <=> /\ PoolOf(img) # "none"
                    /\ \E k \in DOMAIN img.sections :
                         Within(img, k, img.entry) /\ "x" \in img.sections[k].flags)
     /\ WellLinked(img) /\ r.ok =>
          /\ \A o \in ImageCells : r.memory[o] = Contents(img, o)
          /\ ~img.permissive => \A p \in 0..(ImagePages - 1) : Handled(img, p) =>
               r.prot[p] = IF OnPage(img, p) # {} THEN UNION {img.sections[k].flags : k \in OnPage(img, p)}
                           ELSE IF p \in PagesOf(0, img.headers) THEN {"r"} ELSE {}
     /\ \A o \in ImageCells :
          LET k == LookupSymbol(img, o)
          IN IF WellLinked(img) /\ Before(img, o) # {}
             THEN k \in Before(img, o) /\ \A n \in Before(img, o) : img.symbols[n].value <= img.symbols[k].value
             ELSE WellLinked(img) => k = 0
=============================================================================
