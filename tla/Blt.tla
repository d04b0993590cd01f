-------------------------------- MODULE Blt --------------------------------
(***************************************************************************)
(* Block transfers between the frame buffer and a program's pixels         *)
(* (protocols/graphics_output/fb.c), of pixels of four bytes.  Memory is a *)
(* function from positions, in pixels, to pixels; a pixel is a function    *)
(* from its four bytes to their values.                                    *)
(***************************************************************************)
EXTENDS Integers, Sequences

CONSTANTS
  Width, Height,  \* of the screen
  Scan,           \* pixels from one row of the frame buffer to the next
  Mask,           \* which byte of a video pixel holds red, green and blue
  VideoPixels,    \* what is mapped behind the frame buffer's address
  BufferPixels,   \* what the program's buffer holds
  Transfers       \* what the program asks for: op, places, size and delta in pixels

VARIABLES
  video,     \* the frame buffer
  buffer,    \* the program's buffer
  transfer   \* what the program asks for next

bltVars == <<video, buffer, transfer>>

Pixel == [0..3 -> 0..255]
Pitch(r) == IF r.delta = 0 THEN r.w ELSE r.delta

\* The program's buffer has the rows that a transfer works on, and they are apart;
\* no sum of a place and a size is beyond a machine word.
InBuffer(r, x, y) == (y + r.h - 1) * Pitch(r) + x + r.w <= BufferPixels
Proper(r) ==
  /\ r.sx \in Nat /\ r.sy \in Nat /\ r.dx \in Nat /\ r.dy \in Nat
  /\ r.w \in Nat /\ r.h \in Nat /\ r.delta \in Nat /\ Pitch(r) >= r.w
  /\ \/ r.op \in {"fill", "video_to_video"}
     \/ r.op = "video_to_buffer" /\ InBuffer(r, r.dx, r.dy)
     \/ r.op = "buffer_to_video" /\ InBuffer(r, r.sx, r.sy)

\* fb_blt_setup refuses lines that are shorter than rows, and knows two orders of
\* channels besides a mask of one's own.
ASSUME BltAssumption ==
  /\ Scan \in Nat /\ Width \in 1..Scan /\ Height \in Nat
  /\ Mask \in {<<0, 1, 2>>, <<2, 1, 0>>}
  /\ VideoPixels \in Nat /\ VideoPixels >= Scan * Height /\ BufferPixels \in Nat \ {0}
  /\ \A r \in Transfers : Proper(r)

Bgra == Mask = <<2, 1, 0>>

\* fb_blt_setup_format: by how many bytes the channels of a program's pixel, red
\* in byte 2, green in 1 and blue in 0, are moved up for the frame buffer.
ShiftOf(k) == Mask[k] - 3 + k

Shifted(p, n) == [b \in 0..3 |-> IF b - n \in 0..3 THEN p[b - n] ELSE 0]
Masked(p, k) == [b \in 0..3 |-> IF b = Mask[k] THEN p[b] ELSE 0]
Merged(c) == [b \in 0..3 |-> c[1][b] + c[2][b] + c[3][b]]

ToVideo(p) == Merged([k \in 1..3 |-> Masked(Shifted(p, ShiftOf(k)), k)])
ToPixel(v) == Merged([k \in 1..3 |-> Shifted(Masked(v, k), -ShiftOf(k))])

\* Only the frame buffer of the other order needs a conversion.
Converted(p, op) ==
  IF Bgra \/ op = "video_to_video" THEN p ELSE IF op = "buffer_to_video" THEN ToVideo(p) ELSE ToPixel(p)

CopyCells(to, d, from, s, width, op) ==
  [i \in DOMAIN to |-> IF i \in d..(d + width - 1) THEN Converted(from[s + i - d], op) ELSE to[i]]

\* Rows are copied one after the other: row i is at d + i * dPitch and s + i * sPitch.
CopyRows(r, to, d, dPitch, from, s, sPitch) ==
  LET after[i \in 0..r.h] ==
        IF i = 0 THEN to
        ELSE CopyCells(after[i - 1], d + (i - 1) * dPitch, from, s + (i - 1) * sPitch, r.w, r.op)
  IN after[r.h]

OnScreen(x, y, w, h) == w > 0 /\ h > 0 /\ y + h <= Height /\ x + w <= Width
At(x, y) == y * Scan + x

\* Every transfer gives what the frame buffer and the program's buffer hold after it.
Rejected(v, b) == [ok |-> FALSE, video |-> v, buffer |-> b]

\* Whole rows are filled word by word, but what is shorter than two words byte by byte.
Fill(r, v, b) ==
  IF ~OnScreen(r.dx, r.dy, r.w, r.h) THEN Rejected(v, b)
  ELSE LET colour == ToVideo(b[0])
           wide == IF r.dx = 0 /\ r.w = Scan /\ r.w * r.h = 1 THEN [i \in 0..3 |-> colour[0]] ELSE colour
           cells == IF r.dx = 0 /\ r.w = Scan
                    THEN At(0, r.dy)..(At(0, r.dy) + r.w * r.h - 1)
                    ELSE UNION {At(r.dx, y)..(At(r.dx, y) + r.w - 1) : y \in r.dy..(r.dy + r.h - 1)}
       IN [ok |-> TRUE, buffer |-> b, video |-> [i \in DOMAIN v |-> IF i \in cells THEN wide ELSE v[i]]]

VideoToBuffer(r, v, b) ==
  IF ~OnScreen(r.sx, r.sy, r.w, r.h) THEN Rejected(v, b)
  ELSE [ok |-> TRUE, video |-> v,
        buffer |-> CopyRows(r, b, r.dy * Pitch(r) + r.dx, Pitch(r), v, At(r.sx, r.sy), Scan)]

\* Faulty variant of BufferToVideo: the rows of the buffer are as long as the rectangle.
BufferToVideoTight(r, v, b) ==
  IF ~OnScreen(r.dx, r.dy, r.w, r.h) THEN Rejected(v, b)
  ELSE [ok |-> TRUE, buffer |-> b,
        video |-> CopyRows(r, v, At(r.dx, r.dy), Scan, b, r.sy * r.w + r.sx, r.w)]

BufferToVideo(r, v, b) ==
  IF ~OnScreen(r.dx, r.dy, r.w, r.h) THEN Rejected(v, b)
  ELSE [ok |-> TRUE, buffer |-> b,
        video |-> CopyRows(r, v, At(r.dx, r.dy), Scan, b, r.sy * Pitch(r) + r.sx, Pitch(r))]

\* To a later place the rows are copied from the last to the first.  As written
\* both pointers start one row below the rectangles.
VideoToVideo(r, v, b) ==
  IF ~OnScreen(r.sx, r.sy, r.w, r.h) \/ ~OnScreen(r.dx, r.dy, r.w, r.h) THEN Rejected(v, b)
  ELSE LET s == At(r.sx, r.sy)
           d == At(r.dx, r.dy)
           after[i \in 0..r.h] ==
             LET row == IF d > s THEN r.h - i + 1 ELSE i - 1
             IN IF i = 0 THEN v
                ELSE CopyCells(after[i - 1], d + row * Scan, after[i - 1], s + row * Scan, r.w, r.op)
       IN [ok |-> TRUE, buffer |-> b, video |-> after[r.h]]

Transfer(r, v, b) ==
  CASE r.op = "fill" -> Fill(r, v, b)
    [] r.op = "video_to_buffer" -> VideoToBuffer(r, v, b)
    [] r.op = "buffer_to_video" -> BufferToVideo(r, v, b)
    [] r.op = "video_to_video" -> VideoToVideo(r, v, b)

-----------------------------------------------------------------------------
(* A program draws *)

BltInit ==
  /\ video \in [0..(VideoPixels - 1) -> Pixel] /\ buffer \in [0..(BufferPixels - 1) -> Pixel]
  /\ transfer \in Transfers

\* fb_blt, after which the program decides what comes next.
Blit ==
  /\ LET t == Transfer(transfer, video, buffer) IN video' = t.video /\ buffer' = t.buffer
  /\ transfer' \in Transfers

BltSpec == BltInit /\ [][Blit]_bltVars

-----------------------------------------------------------------------------
(* What a transfer is for *)

VideoColour(v) == [red |-> v[Mask[1]], green |-> v[Mask[2]], blue |-> v[Mask[3]]]
PixelColour(p) == [red |-> p[2], green |-> p[1], blue |-> p[0]]

Inside(x, y, left, top, r) == x \in left..(left + r.w - 1) /\ y \in top..(top + r.h - 1)

\* The colour that belongs at column x and row y of the screen after r.
Expected(r, v, b, x, y) ==
  IF r.op = "video_to_buffer" \/ ~Inside(x, y, r.dx, r.dy, r) THEN VideoColour(v[At(x, y)])
  ELSE LET i == x - r.dx
           j == y - r.dy
       IN CASE r.op = "fill" -> PixelColour(b[0])
            [] r.op = "buffer_to_video" -> PixelColour(b[(r.sy + j) * Pitch(r) + r.sx + i])
            [] r.op = "video_to_video" -> VideoColour(v[At(r.sx + i, r.sy + j)])

\* A copy within the screen is right to an earlier place that no row shares with
\* its source: memcpy does not say what comes of a row that it moves in itself.
\* Filling is right on screens of more than one column.
Defined(r) ==
  /\ r.op = "video_to_video" => At(r.dx, r.dy) <= At(r.sx, r.sy) - (IF r.dy = r.sy THEN r.w ELSE 0)
  /\ r.op = "fill" => Scan > 1

\* The colours on the screen, and what is mapped around it.
IsScreen(r, v, b, after) ==
  /\ \A x \in 0..(Width - 1), y \in 0..(Height - 1) :
       VideoColour(after[At(x, y)]) = Expected(r, v, b, x, y)
  /\ \A i \in DOMAIN v :
       (\A x \in 0..(Width - 1), y \in 0..(Height - 1) : i # At(x, y)) => after[i] = v[i]

\* The colours in the program's buffer, and what is around the rectangle.
IsBuffer(r, v, b, after) ==
  LET InRow(j, i) == (r.dy + j) * Pitch(r) + r.dx + i
  IN IF r.op # "video_to_buffer" THEN after = b
     ELSE /\ \A j \in 0..(r.h - 1), i \in 0..(r.w - 1) :
               PixelColour(after[InRow(j, i)]) = VideoColour(v[At(r.sx + i, r.sy + j)])
          /\ \A k \in DOMAIN b :
               (\A j \in 0..(r.h - 1), i \in 0..(r.w - 1) : k # InRow(j, i)) => after[k] = b[k]

IsDrawn(r, v, b) ==
  LET t == Transfer(r, v, b)
  IN /\ ~t.ok => t.video = v /\ t.buffer = b
     /\ t.ok /\ Defined(r) => IsScreen(r, v, b, t.video) /\ IsBuffer(r, v, b, t.buffer)

\* A transfer draws its rectangle, pixel by pixel and in the right colours, and
\* changes nothing else; one that does not fit on the screen changes nothing, whatever
\* was drawn before (fb.c:239-264).
BltDraws == IsDrawn(transfer, video, buffer)
=============================================================================
