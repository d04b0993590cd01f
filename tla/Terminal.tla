------------------------------ MODULE Terminal ------------------------------
(***************************************************************************)
(* The mode of the user's terminal (protocols/simple_text/posix-fd.c).     *)
(* Input and output protocols both set it: the input makes it raw, without *)
(* echo and line editing; an output saves the mode it finds and sets it    *)
(* again when it is reset or cleared.                                      *)
(***************************************************************************)
EXTENDS Naturals, Sequences, SequencesExt

VARIABLES
  tty,      \* the streams that are the terminal
  started,  \* the streams whose service runs, in the order they were started
  raw,      \* the terminal's mode: no echo, no line editing
  restore   \* p->restore of every output: was the terminal raw?

Outputs == {"out", "err"}
Running(s) == s \in ToSet(started)

RestoreMode(o) == raw' = IF o \in tty THEN restore[o] ELSE raw

\* A terminal whose input service was started first stays raw: no reset of an
\* output and no ClearScreen brings the line editing and the echo back.
StaysRaw == started # <<>> /\ started[1] = "in" /\ "in" \in tty => raw
=============================================================================
