-------------------------------- MODULE Input --------------------------------
(***************************************************************************)
(* What the readers of the SDL2 console make of the events in event_queue  *)
(* (protocols/graphics_output/sdl2.c): the keyboard, the pointer and the   *)
(* touch screen take, out of one list, each the first event that is its    *)
(* own.  How events get into the list is the business of Display; here it  *)
(* is what they say.                                                       *)
(***************************************************************************)
EXTENDS Integers, Sequences, SequencesExt

Readers == {"key", "simple", "abs"}

\* Keys with a scan code; the keypad's and the modifiers have a number of SDL's own.
SpecialKeys ==
  {"F1", "F2", "F3", "F4", "F5", "F6", "F7", "F8", "F9", "F10", "F11", "F12", "ESCAPE", "UP", "DOWN",
   "RIGHT", "LEFT", "HOME", "END", "INSERT", "DELETE", "PAGEUP", "PAGEDOWN", "PAUSE", "F13", "F14",
   "F15", "F16", "F17", "F18", "F19", "F20", "F21", "F22", "F23", "F24", "MUTE", "VOLUMEUP",
   "VOLUMEDOWN", "BRIGHTNESSUP", "BRIGHTNESSDOWN", "SLEEP", "DISPLAYSWITCH", "EJECT"}
ControlKeys == [BACKSPACE |-> 8, TAB |-> 9, RETURN |-> 13]
Named(name) == [name |-> name, code |-> 0]
Numbered(code) == [name |-> "other", code |-> code]

\* sdl2_keysym_to_efi_key: of any other key the lower half of the number becomes the
\* character, so that CAPSLOCK types the 9 and SHIFT an accented letter.
KeyOf(sym) ==
  IF sym.name \in SpecialKeys THEN [scan |-> sym.name, char |-> 0]
  ELSE IF sym.name \in DOMAIN ControlKeys THEN [scan |-> "none", char |-> ControlKeys[sym.name]]
  ELSE [scan |-> "none", char |-> sym.code % 2^16]

\* Events: type, and what comes with it
Key(sym) == [type |-> "KEYDOWN", sym |-> sym]
KeyUp(sym) == [type |-> "KEYUP", sym |-> sym]
Button(which, down) == [type |-> "BUTTON", button |-> which, down |-> down]
Motion(dx, dy) == [type |-> "MOTION", dx |-> dx, dy |-> dy]
Finger(how) == [type |-> how]
Drag(x, y, z) == [type |-> "FINGERMOTION", x |-> x, y |-> y, z |-> z]

\* The events each reader takes; the others stay in the list.
IsFor(reader, e) ==
  CASE reader = "key" -> e.type = "KEYDOWN"
    [] reader = "simple" -> e.type = "MOTION" \/ (e.type = "BUTTON" /\ e.button \in {"left", "right"})
    [] reader = "abs" -> e.type \in {"FINGERUP", "FINGERDOWN", "FINGERMOTION"}

Still == [dx |-> 0, dy |-> 0]
FirstStates ==
  [key |-> [scan |-> "none", char |-> 0],
   simple |-> [left |-> FALSE, right |-> FALSE, move |-> Still],
   abs |-> [touch |-> FALSE, x |-> 0, y |-> 0, z |-> 0]]

\* The state of a pointer after an event; places on the screen are in units of the
\* largest coordinate.
SimpleState(s, e) ==
  IF e.type = "BUTTON" THEN [s EXCEPT ![e.button] = e.down]
  ELSE [s EXCEPT !.move = [dx |-> e.dx, dy |-> e.dy]]

\* A finger that goes up counts as touching, one that goes down as not.
AbsoluteState(s, e) ==
  CASE e.type = "FINGERUP" -> [s EXCEPT !.touch = TRUE, !.z = 0]
    [] e.type = "FINGERDOWN" -> [s EXCEPT !.touch = FALSE]
    [] OTHER -> [s EXCEPT !.x = e.x, !.y = e.y, !.z = e.z]

Told(c, reader, e) ==
  CASE reader = "key" -> KeyOf(e.sym)
    [] reader = "simple" -> SimpleState(c.state.simple, e)
    [] reader = "abs" -> AbsoluteState(c.state.abs, e)

\* Faulty variant of ReadState: the first event of the list is looked at only.
ReadStateFirst(c, reader) ==
  IF c.queue = <<>> \/ ~IsFor(reader, c.queue[1])
  THEN [c EXCEPT !.answers = Append(@, [reader |-> reader, status |-> "not_ready"])]
  ELSE LET told == Told(c, reader, c.queue[1])
       IN [c EXCEPT !.queue = Tail(@), !.taken = Append(@, c.queue[1]),
             !.answers = Append(@, [reader |-> reader, status |-> "success", state |-> told]),
             !.state = [@ EXCEPT ![reader] = IF reader = "simple" THEN [told EXCEPT !.move = Still] ELSE told]]

\* A read on the console c: its state, its list, what was taken and what answered.
\* Movement is told once.
ReadState(c, reader) ==
  LET own == {i \in 1..Len(c.queue) : IsFor(reader, c.queue[i])}
      at == CHOOSE i \in own : \A j \in own : i <= j
      told == Told(c, reader, c.queue[at])
  IN IF own = {}
     THEN [c EXCEPT !.answers = Append(@, [reader |-> reader, status |-> "not_ready"])]
     ELSE [c EXCEPT !.queue = RemoveAt(@, at), !.taken = Append(@, c.queue[at]),
             !.answers = Append(@, [reader |-> reader, status |-> "success", state |-> told]),
             !.state = [@ EXCEPT ![reader] = IF reader = "simple" THEN [told EXCEPT !.move = Still] ELSE told]]

ReadAll(queue, schedule) ==
  FoldLeft(ReadState, [queue |-> queue, state |-> FirstStates, taken |-> <<>>, answers |-> <<>>], schedule)

-----------------------------------------------------------------------------

Of(reader, events) == SelectSeq(events, LAMBDA e : IsFor(reader, e))
Answered(c, reader) == SelectSeq(c.answers, LAMBDA a : a.reader = reader /\ a.status = "success")
SumDx(events) == FoldLeft(LAMBDA n, e : n + (IF e.type = "MOTION" THEN e.dx ELSE 0), 0, events)
LastOf(events, which, other) ==
  LET own == SelectSeq(events, LAMBDA e : e.type = "BUTTON" /\ e.button = which)
  IN IF own = <<>> THEN other ELSE Last(own).down

\* Whoever reads when: each reader gets its events, all and in their order, until none
\* is left; the movements it is told add up to those made, a button is as it was left
\* last, and no reader takes what belongs to another or to nobody.
InputSound(queue, schedule) ==
  LET c == ReadAll(queue, schedule)
      turns(reader) == Len(SelectSeq(schedule, LAMBDA r : r = reader))
  IN /\ \A reader \in Readers :
          /\ Of(reader, c.taken) \o Of(reader, c.queue) = Of(reader, queue)
          /\ Of(reader, c.queue) # <<>> => Len(Answered(c, reader)) = turns(reader)
          /\ Len(Answered(c, reader)) = Len(Of(reader, c.taken))
     /\ LET answers == Answered(c, "simple")
        IN /\ FoldLeft(LAMBDA n, a : n + a.state.move.dx, 0, answers) = SumDx(c.taken)
           /\ answers # <<>> =>
                /\ Last(answers).state.left = LastOf(c.taken, "left", FALSE)
                /\ Last(answers).state.right = LastOf(c.taken, "right", FALSE)
     /\ \A i \in 1..Len(Answered(c, "key")) :
          Answered(c, "key")[i].state = KeyOf(Of("key", queue)[i].sym)

\* A special key is told by its scan code alone, a key with a character by that.
KeysTold ==
  /\ \A k, l \in SpecialKeys \cup DOMAIN ControlKeys : k # l => KeyOf(Named(k)) # KeyOf(Named(l))
  /\ \A k \in SpecialKeys : KeyOf(Named(k)).char = 0
  /\ \A c \in {1, 97, 65535} : KeyOf(Numbered(c)) = [scan |-> "none", char |-> c]
=============================================================================
