-------------------------------- MODULE Text --------------------------------
(***************************************************************************)
(* Strings of 16-bit characters (lib/efi/char16.c, efi_string.h), the name *)
(* a file is given from its path (loader/file.c), and the colours of the   *)
(* text console.  A character is the number the code reads, a signed one;  *)
(* a string is the sequence of its characters in front of the zero.        *)
(***************************************************************************)
EXTENDS Integers, Sequences, SequencesExt, FiniteSetsExt

At16(s, i) == IF i <= Len(s) THEN s[i] ELSE 0
Size(s) == 2 * (Len(s) + 1)

Upper(c) == IF c \in 97..122 THEN c - 32 ELSE c
Same(c) == c

\* The loop of the comparisons: the first place, n at the latest, where the strings
\* differ or end
Stop(s, t, Fold(_), n) ==
  LET ends == {i \in 1..(Len(s) + 1) : At16(s, i) = 0 \/ At16(t, i) = 0 \/ Fold(At16(s, i)) # Fold(At16(t, i))}
  IN Min({n, Min(ends)})

Difference(s, t, Fold(_), n) ==
  LET i == Stop(s, t, Fold, n) IN Fold(At16(s, i)) - Fold(At16(t, i))

Longest(s, t) == Len(s) + Len(t) + 1
Compare(s, t) == Difference(s, t, Same, Longest(s, t))
CaseCompare(s, t) == Difference(s, t, Upper, Longest(s, t))
CompareN(s, t, n) == IF n = 0 THEN 0 ELSE Difference(s, t, Same, n)
CaseCompareN(s, t, n) == IF n = 0 THEN 0 ELSE Difference(s, t, Upper, n)

\* Where a search ends: the number of characters in front of the result, or -1
First(places) == IF places = {} THEN -1 ELSE Min(places) - 1

\* ustrstr goes on behind the place where a match failed, and gives up where one
\* fails at the end of the string; the empty string is a match of anything.
Find(s, key) ==
  LET from[i \in 1..(Len(s) + 1)] ==
        IF i > Len(s) THEN -1
        ELSE LET rest == SubSeq(s, i, Len(s))
                 k == Len(LongestCommonPrefix({rest, key}))
             IN IF k = Len(key) THEN i - 1
                ELSE IF k = Len(rest) THEN -1
                ELSE from[i + 1]
  IN IF s = <<>> \/ key = <<>> THEN 0 ELSE from[1]

\* Each place is compared as far as the key goes.
CaseFind(s, key) ==
  First({i \in DOMAIN s : CaseCompareN(SubSeq(s, i, Len(s)), key, Len(key)) = 0})

\* The characters of the string are read unsigned, the one that is looked for is not.
Unsigned(c) == IF c < 0 THEN c + 65536 ELSE c
FindChar(s, c) == IF c = 0 THEN Len(s) ELSE First({i \in DOMAIN s : Unsigned(s[i]) = c})

\* ustrncat, and ustrlcpy and ustrlcat with the length they report, in a buffer of n
Concat(dest, src, n) == dest \o SubSeq(src, 1, Min({n, Len(src)}))
CopyTo(dest, src, n) ==
  [text |-> IF n = 0 THEN dest ELSE SubSeq(src, 1, Min({n - 1, Len(src)})), len |-> Len(src)]
ConcatTo(dest, src, n) ==
  IF Len(dest) >= n THEN [text |-> dest, len |-> n + Len(src)]
  ELSE [text |-> dest \o CopyTo(<<>>, src, n - Len(dest)).text, len |-> Len(dest) + Len(src)]

-----------------------------------------------------------------------------
(* ustr2xstrn: what is not printable, as escape sequences *)

Breaks == {9, 10, 13}
IsPrint(c) == c - 32 < 95

\* The cells a character needs; those below the blank count as printable.
Cells(c) == IF c \in Breaks THEN 2 ELSE IF ~IsPrint(c) THEN 6 ELSE 1

\* A character that does not fit is left out, and those behind it are tried.
EscapeStep(s, c) ==
  IF s.room = 0 \/ s.room < Cells(c) THEN s
  ELSE [room |-> s.room - Cells(c), out |-> Append(s.out, c)]

\* The characters of the source that the result stands for, and its length
Escaped(src, dsize) ==
  LET s == FoldLeft(EscapeStep, [room |-> dsize, out |-> <<>>], src)
  IN [out |-> s.out, len |-> dsize - s.room]

-----------------------------------------------------------------------------
(* efi_update_name: the path's name, of a path that is not empty *)

Slash == 47
Backslash == 92
Blank == 32

\* Takes c off the end; as written the second call starts at the old end again and
\* stops at the zero the first one has put there.
Without(path, c) == SubSeq(path, 1, Len(path) - SelectInSeq(Reverse(path) \o <<0>>, LAMBDA x : x # c) + 1)

Slashed(path) == [i \in DOMAIN path |-> IF path[i] = Backslash THEN Slash ELSE path[i]]

NameOf(path) ==
  LET bare == Without(Slashed(path), Blank)
      trimmed == IF bare = Slashed(path) THEN Without(bare, Slash) ELSE bare
  IN SubSeq(trimmed, SelectLastInSeq(trimmed, LAMBDA x : x = Slash) + 1, Len(trimmed))

-----------------------------------------------------------------------------
(* set_attribute: the colours of an attribute as numbers of the terminal *)

\* The fields of the attribute are four bits wide and signed, and are converted to
\* sixteen bits: none of the bright colours is found, and they are shown light grey.
\* The bits of an EFI colour are blue, green and red, those of the terminal's red,
\* green and blue.
Field(bits) == IF bits >= 8 THEN bits + 65536 - 16 ELSE bits
Rgb(bits) == ((bits \div 4) % 2) + 2 * ((bits \div 2) % 2) + 4 * (bits % 2)

ForegroundOf(in) == IF in < 8 THEN 30 + Rgb(in) ELSE IF in < 16 THEN 90 + Rgb(in) ELSE 37

\* The background is compared with the bits of a whole attribute.
BackgroundOf(bg) == IF bg % 16 = 0 /\ bg \in 0..112 THEN 40 + Rgb(bg \div 16) ELSE 40

Ansi(attribute) == <<ForegroundOf(Field(attribute % 16)), BackgroundOf(Field((attribute \div 16) % 16))>>

-----------------------------------------------------------------------------
(* What strings, names and colours must be *)

Uppercase(s) == [i \in DOMAIN s |-> Upper(s[i])]
Prefix(s, n) == SubSeq(s, 1, Min({n, Len(s)}))
Occurs(key, s, i) == i + Len(key) - 1 <= Len(s) /\ SubSeq(s, i, i + Len(key) - 1) = key
CellsOfAll(s) == FoldLeft(LAMBDA sum, c : sum + Cells(c), 0, s)

\* The comparisons are an order of strings, the searches find the first occurrence,
\* the copies are cut to the buffer and end in it.
IsOrdered(s, t, n) ==
  /\ (Compare(s, t) = 0) <=> (s = t)
  /\ Compare(s, t) = -Compare(t, s)
  /\ CaseCompare(s, t) = Compare(Uppercase(s), Uppercase(t))
  /\ (CompareN(s, t, n) = 0) <=> (Prefix(s, n) = Prefix(t, n))
  /\ (CaseCompareN(s, t, n) = 0) <=> (Uppercase(Prefix(s, n)) = Uppercase(Prefix(t, n)))

IsFound(s, key) ==
  s # <<>> =>
    /\ Find(s, key) = First({i \in 1..(Len(s) + 1) : Occurs(key, s, i)})
    /\ CaseFind(s, key) = First({i \in DOMAIN s : Occurs(Uppercase(key), Uppercase(s), i)})
    /\ \A c \in ToSet(key) : c > 0 => FindChar(s, c) = First({i \in DOMAIN s : s[i] = c})

IsCut(s, t, n) ==
  LET copied == CopyTo(<<>>, s, n)
      both == ConcatTo(s, t, n)
  IN /\ IsPrefix(copied.text, s) /\ n > 0 => Len(copied.text) < n
     /\ (copied.len < n) <=> (n > 0 /\ copied.text = s)
     /\ (both.len < n) <=> (n > 0 /\ Len(both.text) < n /\ both.text = s \o t)
     /\ IsPrefix(both.text, s \o t) /\ Concat(s, t, n) = s \o Prefix(t, n)

\* What is escaped never exceeds its buffer, and is all of the text where that fits.
IsEscaped(s, n) ==
  LET r == Escaped(s, n)
  IN /\ r.len = CellsOfAll(r.out) /\ r.len <= n
     /\ CellsOfAll(s) <= n => r.out = s
     /\ r.out # s => r.len + Max({Cells(c) : c \in ToSet(s)}) > n

\* The name is the last component of a path that does not end in a blank.
IsNamed(path) ==
  LET p == Slashed(path)
      last == SelectLastInSeq(p, LAMBDA c : c # Slash)
      before == SelectLastInSeq(SubSeq(p, 1, last), LAMBDA c : c = Slash)
  IN last # 0 /\ Last(p) # Blank => NameOf(path) = SubSeq(p, before + 1, last)

\* The dark colours are shown, each as it is.
IsColoured(attribute) ==
  attribute \in 0..7 => Ansi(attribute) = <<30 + Rgb(attribute), 40>>
=============================================================================
