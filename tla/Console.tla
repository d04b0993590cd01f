------------------------------ MODULE Console ------------------------------
(***************************************************************************)
(* The text console on the standard streams of the emulator                *)
(* (protocols/simple_text/posix-fd.c, escape.c): what the program reads as *)
(* keys of what the user's terminal sends, the cursor that every output    *)
(* protocol keeps of a terminal it does not own alone, and the mode of     *)
(* that terminal, which input and output protocols both set.               *)
(*                                                                         *)
(* The terminal is the user's: it is modelled as far as the code relies on *)
(* it, with a cursor that waits at the end of a full row, newlines that go *)
(* to the first column, and in cooked mode an echo of what is typed.  A     *)
(* stream is this terminal or none.                                        *)
(***************************************************************************)
EXTENDS Terminal

CONSTANTS
  Terminals,   \* which streams may be the terminal: a set of sets of streams
  Sizes,       \* <<columns, rows>> the window may have
  DefaultSize, \* ws_size of an emulator whose input is no terminal: <<80, 24>>
  Presses,     \* what the terminal sends for the keys the user may press
  Strings,     \* what the program writes
  TabWidth,    \* distance of tab stops, 8 in the code
  EscapeSize,  \* bytes of the escape buffer, 32 in the code
  MaxWaiting   \* bytes still unread when the user presses another key

VARIABLES
  window,   \* <<columns, rows>> of the terminal
  size,     \* ws_size: what the emulator takes for it
  cursor,   \* p->mode of every output: cursor_col, cursor_row
  term,     \* where the terminal's cursor is
  sure,     \* the outputs that can know it
  coming,   \* what the terminal is still sending
  line,     \* a line being edited in cooked mode
  arrived,  \* what read can return
  escape,   \* the escape buffer of a running ReadKeyStroke
  owed,     \* keys pressed and not delivered yet
  wrong,    \* has ReadKeyStroke delivered a key that was not the next one?
  strange   \* since the keyboard was quiet: a key the code does not know, a cooked
            \* terminal, or a ReadKeyStroke that was interrupted within a sequence

termVars == <<raw, restore, window, size, cursor, term, sure>>
keyVars == <<coming, line, arrived, escape, owed, wrong, strange>>
consoleVars == <<tty, started, termVars, keyVars>>

\* The columns and rows the code counts with, and those of the terminal
Cols == size[1]
Rows == size[2]
TermCols == window[1]
TermRows == window[2]
Home == [col |-> 0, row |-> 0, full |-> FALSE]
Least(a, b) == IF a < b THEN a ELSE b

ConsoleInit ==
  /\ tty \in Terminals
  /\ started = <<>>
  /\ raw = FALSE
  /\ restore = [o \in Outputs |-> FALSE]
  /\ window \in Sizes
  /\ size = IF "in" \in tty THEN window ELSE DefaultSize
  /\ cursor = [o \in Outputs |-> [col |-> 0, row |-> 0]]
  /\ term = Home /\ sure = {}
  /\ coming = <<>> /\ line = <<>> /\ arrived = <<>> /\ escape = <<>>
  /\ owed = <<>> /\ wrong = FALSE /\ strange = FALSE

-----------------------------------------------------------------------------
(* The escape sequences of escape_map, without the ESC they begin with *)

Letters(from, to) ==
  LET all == <<"@", "A", "B", "C", "D", "E", "F", "G", "H", "I", "J", "K", "L", "M", "N", "O",
               "P", "Q", "R", "S", "T", "U", "V", "W", "X", "Y", "Z", "[">>
      at(c) == CHOOSE i \in DOMAIN all : all[i] = c
  IN {all[i] : i \in at(from)..at(to)}
Digits(from, to) ==
  {<<"0", "1", "2", "3", "4", "5", "6", "7", "8", "9">>[i + 1] : i \in from..to}

Csi == (Letters("@", "X") \cup {"?", "/"}) \ {"E", "J"}
Tilde == {<<d>> : d \in {"2", "3", "5", "6"}}
         \cup {<<"1", d>> : d \in Digits(1, 5) \cup Digits(7, 9)}
         \cup {<<"2", d>> : d \in {"0", "1", "3", "4"}}
KeySequences ==
  {<<"[", c>> : c \in Csi}
    \cup {<<"[", "[", c>> : c \in Letters("A", "E")}
    \cup {<<"[", "[">> \o n \o <<"~">> : n \in Tilde}
    \cup {<<"O", c>> : c \in Letters("M", "[") \ {"N", "O"}}
    \cup {<<"O", c>> : c \in {"w", "x", "t", "u", "q", "r", "p"}}
    \cup {<<c>> : c \in {"h", "k", "!", "@", "+", "-", "?", "/"} \cup Digits(0, 9)}
Known == {<<"ESC">> \o s : s \in KeySequences}

\* parse_char: the key of a character that is not ESC
Plain(c) == CASE c = "DEL" -> "BACKSPACE" [] c = "NL" -> "CR" [] OTHER -> c

\* The key a user means by what his terminal sends: a sequence stands for itself.
KeyOf(press) == IF Len(press) = 1 THEN Plain(press[1]) ELSE press
Understood(press) == press \in Known \/ (Len(press) = 1 /\ press[1] # "ESC")

\* What the user and the program may send, and a window and a buffer that take it
ConstantsFit ==
  /\ Terminals \subseteq SUBSET (Outputs \cup {"in"})
  /\ Sizes \cup {DefaultSize} \subseteq (Nat \ {0}) \X (Nat \ {0})
  /\ TabWidth \in Nat \ {0} /\ EscapeSize \in Nat \ {0, 1}
  /\ \A p \in Presses : p \in Seq(ToSet(p)) /\ p # <<>> /\ (p \in Known => Len(p) <= EscapeSize)
  /\ \A s \in Strings : s \in Seq(ToSet(s))
ASSUME ConsoleAssumption == ConstantsFit

-----------------------------------------------------------------------------
(* The user and his terminal *)

Quiet == coming = <<>> /\ line = <<>> /\ arrived = <<>> /\ escape = <<>>

Press(p) ==
  /\ Running("in")
  /\ Len(coming) + Len(line) + Len(arrived) + Len(escape) <= MaxWaiting
  /\ coming' = coming \o p
  /\ strange' = (~Understood(p) \/ (strange /\ ~Quiet))
  /\ owed' = IF strange' THEN <<>> ELSE Append(owed, KeyOf(p))
  /\ UNCHANGED <<tty, started, termVars, line, arrived, escape, wrong>>

\* Cooked: a byte is echoed, and can be read when the line has ended.
Arrive ==
  /\ coming # <<>>
  /\ coming' = Tail(coming)
  /\ LET c == Head(coming)
         cooked == "in" \in tty /\ ~raw
     IN /\ line' = IF cooked /\ c # "NL" THEN Append(line, c) ELSE <<>>
        /\ arrived' = IF cooked /\ c # "NL" THEN arrived ELSE arrived \o line \o <<c>>
        /\ sure' = IF cooked THEN {} ELSE sure
        /\ term' = IF cooked THEN Home ELSE term
        /\ strange' = (strange \/ cooked)
        /\ owed' = IF cooked THEN <<>> ELSE owed
  /\ UNCHANGED <<tty, started, raw, restore, window, size, cursor, escape, wrong>>

\* A signal ends the poll of a ReadKeyStroke that waits for more of a sequence: the
\* program gets an error, what the buffer held is gone, and what is left of the
\* sequence will be read as other keys.
Interrupted ==
  /\ escape # <<>> /\ arrived = <<>>
  /\ escape' = <<>>
  /\ strange' = TRUE /\ owed' = <<>>
  /\ UNCHANGED <<coming, line, arrived, wrong>>

\* The window changes, and the handler of its signal asks the input for the size: it
\* stays what it was if that is no terminal.
Resize(s) ==
  /\ s # window
  /\ window' = s
  /\ size' = IF "in" \in tty THEN s ELSE size
  /\ sure' = {} /\ term' = Home
  /\ UNCHANGED keyVars \/ Interrupted
  /\ UNCHANGED <<tty, started, raw, restore, cursor>>

-----------------------------------------------------------------------------
(* Reading keys *)

\* The program gets a key: of the owed ones it must be the first.
Deliver(key) ==
  IF strange THEN UNCHANGED <<owed, wrong>>
  ELSE IF owed # <<>> /\ Head(owed) = key THEN owed' = Tail(owed) /\ UNCHANGED wrong
  ELSE wrong' = TRUE /\ UNCHANGED owed

\* read_key_stroke with something to read; with nothing it answers NotReady.
ReadKey ==
  /\ Running("in") /\ escape = <<>> /\ arrived # <<>>
  /\ arrived' = Tail(arrived)
  /\ IF Head(arrived) = "ESC"
     THEN escape' = <<"ESC">> /\ UNCHANGED <<owed, wrong>>
     ELSE Deliver(Plain(Head(arrived))) /\ UNCHANGED escape
  /\ UNCHANGED <<tty, started, termVars, coming, line, strange>>

\* Faulty variant of ReadMore: the buffer keeps what it held when a key was found.
ReadMoreAgain ==
  LET all == Append(escape, Head(arrived))
  IN /\ escape # <<>> /\ arrived # <<>>
     /\ arrived' = Tail(arrived)
     /\ escape' = IF Len(all) >= EscapeSize THEN <<>> ELSE all
     /\ IF all \in Known THEN Deliver(all)
        ELSE IF Len(all) >= EscapeSize THEN Deliver("ESC")
        ELSE UNCHANGED <<owed, wrong>>
     /\ UNCHANGED <<tty, started, termVars, coming, line, strange>>

\* The next byte of a sequence came in time.  A full buffer counts as the ESC key.
ReadMore ==
  LET all == Append(escape, Head(arrived))
      ended == all \in Known \/ Len(all) >= EscapeSize
  IN /\ escape # <<>> /\ arrived # <<>>
     /\ arrived' = Tail(arrived)
     /\ escape' = IF ended THEN <<>> ELSE all
     /\ IF ended THEN Deliver(IF all \in Known THEN all ELSE "ESC") ELSE UNCHANGED <<owed, wrong>>
     /\ UNCHANGED <<tty, started, termVars, coming, line, strange>>

\* Faulty variant of TimeOut: the rest of a sequence is not waited for.
TimeOutAtOnce ==
  /\ escape # <<>> /\ arrived = <<>>
  /\ escape' = <<>>
  /\ UNCHANGED <<tty, started, termVars, coming, line, arrived, owed, wrong, strange>>

\* 50 ms without a byte: NotReady, and what the buffer held is gone.  A terminal
\* that is sending is faster than that.
TimeOut ==
  /\ escape # <<>> /\ arrived = <<>> /\ coming = <<>>
  /\ escape' = <<>>
  /\ UNCHANGED <<tty, started, termVars, coming, line, arrived, owed, wrong, strange>>

-----------------------------------------------------------------------------
(* Writing *)

\* cursor_col and cursor_row after one character
CursorStep(s, c) ==
  IF c = "LF" THEN [s EXCEPT !.row = @ + 1]
  ELSE IF c = "CR" THEN [s EXCEPT !.col = 0]
  ELSE LET col == IF c = "TAB" THEN ((s.col \div TabWidth) + 1) * TabWidth ELSE s.col + 1
       IN IF col >= Cols THEN [col |-> 0, row |-> s.row + 1] ELSE [s EXCEPT !.col = col]

CursorAfter(s, string) ==
  LET f[n \in 0..Len(string)] == IF n = 0 THEN s ELSE CursorStep(f[n - 1], string[n])
  IN [f[Len(string)] EXCEPT !.row = Least(@, Rows - 1)]

\* What the terminal does with it
TermStep(t, c) ==
  LET down == Least(t.row + 1, TermRows - 1)
  IN CASE c = "LF" -> [col |-> 0, row |-> down, full |-> FALSE]
       [] c = "CR" -> [t EXCEPT !.col = 0, !.full = FALSE]
       [] c = "BS" -> [t EXCEPT !.col = IF @ = 0 THEN 0 ELSE @ - 1, !.full = FALSE]
       [] c = "TAB" -> [t EXCEPT !.col = Least(((t.col \div TabWidth) + 1) * TabWidth, TermCols - 1)]
       [] OTHER -> LET at == IF t.full THEN [col |-> 0, row |-> down] ELSE [col |-> t.col, row |-> t.row]
                   IN [col |-> Least(at.col + 1, TermCols - 1), row |-> at.row,
                       full |-> at.col = TermCols - 1]

\* Five things the code does not follow: a backspace, a line feed in the middle of a
\* row, a tab in the last column's reach, and control characters after a full row.
Followed(t, c) ==
  CASE c = "BS" -> FALSE
    [] c = "CR" -> ~t.full
    [] c = "LF" -> t.col = 0 /\ ~t.full
    [] c = "TAB" -> ((t.col \div TabWidth) + 1) * TabWidth < TermCols /\ ~t.full
    [] OTHER -> TRUE

\* Where the terminal's cursor is after each character
TermTrace(string) ==
  LET f[n \in 0..Len(string)] == IF n = 0 THEN term ELSE TermStep(f[n - 1], string[n])
  IN f
CanFollow(string) == \A i \in 1..Len(string) : Followed(TermTrace(string)[i - 1], string[i])

\* What is on the terminal's screen is the work of one output since it was sure.
Knows(who, at) == sure' = who /\ term' = IF who = {} THEN Home ELSE at

OutputString(o, string) ==
  /\ Running(o)
  /\ cursor' = [cursor EXCEPT ![o] = CursorAfter(@, string)]
  /\ IF o \notin tty THEN UNCHANGED <<sure, term>>
     ELSE IF CanFollow(string) THEN Knows(sure \cap {o}, TermTrace(string)[Len(string)])
     ELSE Knows({}, Home)
  /\ UNCHANGED <<tty, started, raw, restore, window, size, keyVars>>

SetCursor(o, col, row) ==
  /\ cursor' = [cursor EXCEPT ![o] = [col |-> col, row |-> row]]
  /\ IF o \in tty
     THEN Knows({o}, [col |-> Least(col, TermCols - 1), row |-> Least(row, TermRows - 1),
                      full |-> FALSE])
     ELSE UNCHANGED <<sure, term>>

\* A position outside what the code takes for the window is refused.
SetCursorPosition(o, col, row) ==
  /\ Running(o) /\ col < Cols /\ row < Rows
  /\ SetCursor(o, col, row)
  /\ UNCHANGED <<tty, started, raw, restore, window, size, keyVars>>

\* Faulty variant of ClearScreen: set_cursor_position is not called.
ClearAway(o) ==
  /\ Running(o)
  /\ RestoreMode(o)
  /\ IF o \in tty THEN Knows({o}, Home) ELSE UNCHANGED <<sure, term>>
  /\ UNCHANGED <<tty, started, restore, window, size, cursor, keyVars>>

ClearScreen(o) ==
  /\ Running(o)
  /\ RestoreMode(o)
  /\ SetCursor(o, 0, 0)
  /\ UNCHANGED <<tty, started, restore, window, size, keyVars>>

ResetOutput(o) ==
  /\ Running(o)
  /\ RestoreMode(o)
  /\ UNCHANGED <<tty, started, restore, window, size, cursor, term, sure, keyVars>>

-----------------------------------------------------------------------------
(* Starting the services *)

\* The terminal is made raw for the input.
NewInput ==
  /\ ~Running("in")
  /\ started' = Append(started, "in")
  /\ raw' = (raw \/ "in" \in tty)
  /\ UNCHANGED <<tty, restore, window, size, cursor, term, sure, keyVars>>

\* Faulty variant of NewOutput: what it restores is the terminal as it was found.
NewOutputFirst(o) ==
  /\ ~Running(o)
  /\ started' = Append(started, o)
  /\ UNCHANGED <<tty, raw, restore, window, size, cursor, term, sure, keyVars>>

\* An output saves the mode it finds, to set it again whenever it is reset or cleared.
NewOutput(o) ==
  /\ ~Running(o)
  /\ started' = Append(started, o)
  /\ restore' = [restore EXCEPT ![o] = raw]
  /\ UNCHANGED <<tty, raw, window, size, cursor, term, sure, keyVars>>

ConsoleNext ==
  \/ NewInput
  \/ \E o \in Outputs : NewOutput(o) \/ ClearScreen(o) \/ ResetOutput(o)
  \/ \E o \in Outputs, s \in Strings : OutputString(o, s)
  \/ \E o \in Outputs, col \in 0..Cols, row \in 0..Rows : SetCursorPosition(o, col, row)
  \/ \E p \in Presses : Press(p)
  \/ Arrive
  \/ ReadKey
  \/ ReadMore
  \/ TimeOut
  \/ \E s \in Sizes : Resize(s)

ConsoleSpec == ConsoleInit /\ [][ConsoleNext]_consoleVars

-----------------------------------------------------------------------------
(* Properties *)

\* The type of every variable, a part of CursorFollows: no output reports a
\* position outside the largest window there was, or the one assumed.
ConsoleTypeOK ==
  /\ tty \subseteq Outputs \cup {"in"}
  /\ ToSet(started) \subseteq Outputs \cup {"in"} /\ IsInjective(started)
  /\ raw \in BOOLEAN /\ restore \in [Outputs -> BOOLEAN]
  /\ window \in Sizes /\ size \in Sizes \cup {DefaultSize} /\ sure \subseteq Outputs \cap tty
  /\ \A o \in Outputs : /\ \E s \in Sizes \cup {DefaultSize} : cursor[o].col < s[1]
                        /\ \E s \in Sizes \cup {DefaultSize} : cursor[o].row < s[2]
  /\ term.col < TermCols /\ term.row < TermRows /\ term.full \in BOOLEAN
  /\ Len(escape) < EscapeSize
  /\ wrong \in BOOLEAN /\ strange \in BOOLEAN

\* As long as the user presses keys the code knows on a raw terminal, the program
\* gets each of them once and in order, however the bytes of their sequences arrive
\* between its calls of ReadKeyStroke.  After keys it does not know, and after a
\* window change within a sequence, which loses the key and tears what is left of its
\* sequence (posix-fd.c:158), this holds again from when the keyboard was quiet.
KeysInOrder == ~wrong /\ (Quiet => owed = <<>>)

\* A ReadKeyStroke that finds input, so one after WaitForKey has returned, answers
\* without a key only after ESC or a sequence it does not know, on a cooked terminal,
\* or if the window changes while it waits for the rest of the sequence.
KeyAfterWait ==
  [][escape # <<>> /\ escape' = <<>> /\ ~strange
       => Len(owed') = Len(owed) - 1 \/ window' # window]_consoleVars

\* The cursor an output reports is where the next character will appear, from when
\* the output has set it until another output or the echo writes, the window changes,
\* or a control character comes that the code does not follow.  This is so where the
\* size the code takes for the window is the window's: always if the input is that
\* terminal too, and only by chance if it is not (main.c:41, posix-fd.c:218).
CursorFollows ==
  /\ ConsoleTypeOK
  /\ "in" \in tty => size = window
  /\ size = window =>
       \A o \in sure :
         cursor[o] = IF term.full THEN [col |-> 0, row |-> Least(term.row + 1, TermRows - 1)]
                     ELSE [col |-> term.col, row |-> term.row]
=============================================================================
