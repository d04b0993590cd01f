------------------------------- MODULE Paths -------------------------------
(***************************************************************************)
(* Path names (lib/general/path.c).  A path is a sequence of names and     *)
(* separators; two names that follow each other do not occur, "\" is a     *)
(* separator like "/".                                                     *)
(***************************************************************************)
EXTENDS Naturals, Sequences, SequencesExt

SEP == "/"

\* The components of a path
NamesOf(path) == SelectSeq(path, LAMBDA t : t # SEP)

\* Where the names end before the last one: a separator that ends what is left,
\* then the name in front of it, are taken off.
Parent(out) ==
  LET bare == IF out # <<>> /\ Last(out) = SEP THEN Front(out) ELSE out
  IN IF bare # <<>> /\ Last(bare) # SEP THEN Front(bare) ELSE bare

\* One turn of the loop of path_resolve.  "." and ".." pass over the separator
\* behind them as well, which the loop variable is moved to.
ResolveStep(s, t) ==
  IF s.over THEN [s EXCEPT !.over = FALSE]
  ELSE IF t = SEP
    THEN IF s.out # <<>> /\ Last(s.out) # SEP THEN [s EXCEPT !.out = Append(@, SEP)] ELSE s
  ELSE IF t = "." THEN [s EXCEPT !.over = TRUE]
  ELSE IF t = ".." THEN [out |-> Parent(s.out), over |-> TRUE]
  ELSE [s EXCEPT !.out = Append(@, t)]

Resolve(path) == FoldLeft(ResolveStep, [out |-> <<>>, over |-> FALSE], path).out

\* path_merge, of the path of a directory and one that is meant in it
Merge2(path1, path2) == Resolve(path1 \o <<SEP>> \o path2)

\* path_basename and path_dirname: separators at the end do not count.
Bare(path) == SelectInSeq(Reverse(path), LAMBDA t : t # SEP)
Trimmed(path) == IF Bare(path) = 0 THEN <<>> ELSE SubSeq(path, 1, Len(path) - Bare(path) + 1)
Basename(path) == IF Trimmed(path) = <<>> THEN <<>> ELSE <<Last(Trimmed(path))>>
Dirname(path) == IF Trimmed(path) = <<>> THEN <<>> ELSE Front(Trimmed(path))

-----------------------------------------------------------------------------
(* What a walk over the components finds, from a root that is its own parent *)

WalkStep(at, name) ==
  IF name = "." THEN at
  ELSE IF name = ".." THEN IF at = <<>> THEN <<>> ELSE Front(at)
  ELSE Append(at, name)

Walk(path) == FoldLeft(WalkStep, <<>>, NamesOf(path))
=============================================================================
