------------------------------ MODULE Picture ------------------------------
(***************************************************************************)
(* DeckFramebuffer: an emulator's picture is enlarged, turned onto the     *)
(* portrait panel in a buffer in RAM and then copied, row by row, into the *)
(* memory the panel is scanned from all the while.                         *)
(*                                                                         *)
(* A pixel of a picture is <<number of the picture, x, y>>; colours are    *)
(* left out.  The Wayland presentation is WaylandSurface.tla.              *)
(***************************************************************************)
EXTENDS Integers

CONSTANTS
  LogicalWidth, LogicalHeight,   \* kLogicalWidth, kLogicalHeight
  PhysicalWidth,                 \* kPhysicalWidth
  SafeInset,                     \* kSafeInset
  HintPixels,                    \* what DeckDrawExitHintRgb565 draws
  Sizes                          \* bound: sizes of pictures, <<width, height>>

PhysicalHeight == LogicalWidth

ASSUME PictureAssumption ==
  /\ {LogicalWidth, LogicalHeight, PhysicalWidth} \subseteq Nat \ {0}
  /\ LogicalHeight <= PhysicalWidth
  /\ SafeInset \in Nat
  /\ 2 * SafeInset < LogicalWidth /\ 2 * SafeInset < LogicalHeight
  /\ HintPixels \subseteq (0 .. LogicalWidth - 1) \X (0 .. LogicalHeight - 1)
  /\ Sizes \subseteq Nat \X Nat

VARIABLES
  memory_, frame_,      \* the panel's memory and the buffer in RAM
  last_source,          \* last_source_width_, last_source_height_
  exit_hint,
  publishing,           \* rows of the picture already copied, or Published
  picture               \* the number of the picture in frame_

picture_vars == <<memory_, frame_, last_source, exit_hint, publishing, picture>>

Published == -1
Black == <<0, 0, 0>>
Hint == <<-1, 0, 0>>
Panel == (0 .. PhysicalHeight - 1) \X (0 .. PhysicalWidth - 1)
Blank == [p \in Panel |-> Black]
Unmapped == <<>>

PictureInit ==
  /\ memory_ = Unmapped /\ frame_ = Unmapped /\ last_source = <<0, 0>>
  /\ exit_hint \in BOOLEAN
  /\ publishing = Published /\ picture = 0

\* open_device on /dev/fb0.
OpenFramebuffer ==
  /\ memory_' = Blank /\ frame_' = Blank /\ last_source' = <<0, 0>>
  /\ publishing' = Published /\ picture' = 0
  /\ UNCHANGED exit_hint

----------------------------------------------------------------------------
(* Where a picture goes. *)

usable_width == LogicalWidth - 2 * SafeInset
usable_height == LogicalHeight - 2 * SafeInset
Fits(size) == size[1] \in 1 .. usable_width /\ size[2] \in 1 .. usable_height

\* DeckComputeScaledLayout, for a picture that fits.
Layout(size) ==
  LET horizontal == usable_width \div size[1]
      vertical == usable_height \div size[2]
      scale == IF horizontal < vertical THEN horizontal ELSE vertical
  IN [scale |-> scale, width |-> size[1] * scale, height |-> size[2] * scale,
      x |-> (LogicalWidth - size[1] * scale) \div 2,
      y |-> (LogicalHeight - size[2] * scale) \div 2]

\* draw_scaled_pixel: the panel's pixels for one of the picture's.
Enlarged(layout, x, y) ==
  {<<PhysicalHeight - 1 - (layout.x + x * layout.scale + dx),
     layout.y + y * layout.scale + dy>> :
     dx, dy \in 0 .. layout.scale - 1}

\* The panel's row for column x of the picture in present_rgb565, repeated.
ColumnRow(layout, x, repeated) ==
  PhysicalHeight - 1 - layout.x - x * layout.scale - repeated

\* The two ways to fill the buffer: a pixel of the picture after the other, or
\* a row of the panel after the other.
ByPixel(size, layout, number, staged) ==
  [p \in Panel |->
     LET from == {s \in (0 .. size[1] - 1) \X (0 .. size[2] - 1) :
                    p \in Enlarged(layout, s[1], s[2])}
     IN IF from = {} THEN staged[p]
        ELSE LET s == CHOOSE s \in from : TRUE IN <<number, s[1], s[2]>>]

ByRow(size, layout, number, staged) ==
  [p \in Panel |->
     LET from == {x \in 0 .. size[1] - 1 : \E repeated \in 0 .. layout.scale - 1 :
                    p[1] = ColumnRow(layout, x, repeated)}
         step == p[2] - layout.y
     IN IF from = {} \/ step \notin 0 .. layout.height - 1 THEN staged[p]
        ELSE <<number, CHOOSE x \in from : TRUE, step \div layout.scale>>]

----------------------------------------------------------------------------
(* A picture. *)

\* Mutant: nothing is cleared while the picture has the same width.
ClearedForNewWidth(size) == size[1] # last_source[1]

\* begin_frame starts afresh for a picture of another size.
Cleared(size) == size # last_source

\* present_xrgb8888, present_indexed and present_rgb565 up to publish_frame.
Stage(size, rows) ==
  /\ publishing = Published /\ Fits(size)
  /\ LET staged == IF Cleared(size) THEN Blank ELSE frame_
     IN frame_' = IF rows THEN ByRow(size, Layout(size), picture + 1, staged)
                  ELSE ByPixel(size, Layout(size), picture + 1, staged)
  /\ memory_' = IF Cleared(size) THEN Blank ELSE memory_
  /\ last_source' = size /\ picture' = picture + 1 /\ publishing' = 0
  /\ UNCHANGED exit_hint

\* publish_frame: a row of the rectangle, and after the last one the hint.
PublishRow ==
  /\ publishing # Published /\ publishing < Layout(last_source).width
  /\ publishing' = publishing + 1
  /\ LET layout == Layout(last_source)
         row == PhysicalHeight - layout.x - layout.width + publishing
         copied == {row} \X (layout.y .. layout.y + layout.height - 1)
     IN memory_' = [p \in Panel |-> IF p \in copied THEN frame_[p] ELSE memory_[p]]
  /\ UNCHANGED <<frame_, last_source, exit_hint, picture>>

DrawHint ==
  /\ publishing # Published /\ publishing = Layout(last_source).width
  /\ publishing' = Published
  /\ memory_' =
       IF exit_hint
       THEN [p \in Panel |->
               IF <<PhysicalHeight - 1 - p[1], p[2]>> \in HintPixels THEN Hint
               ELSE memory_[p]]
       ELSE memory_
  /\ UNCHANGED <<frame_, last_source, exit_hint, picture>>

Publish == PublishRow \/ DrawHint

----------------------------------------------------------------------------
(* Properties. *)

\* The largest whole scale at which a picture stays clear of the border.
Scale(size) ==
  CHOOSE s \in 1 .. LogicalWidth :
    /\ s * size[1] <= usable_width /\ s * size[2] <= usable_height
    /\ (s + 1) * size[1] > usable_width \/ (s + 1) * size[2] > usable_height

\* What a player sees at a place of the display: a picture in the middle of it,
\* enlarged alike in both directions, and black around it.
Seen(number, size, s, x, y) ==
  LET across == x - (LogicalWidth - s * size[1]) \div 2
      down == y - (LogicalHeight - s * size[2]) \div 2
  IN IF across \in 0 .. s * size[1] - 1 /\ down \in 0 .. s * size[2] - 1
     THEN <<number, across \div s, down \div s>> ELSE Black

At(x, y) == memory_[<<PhysicalHeight - 1 - x, y>>]

\* After a picture has been published the display shows it and the hint and
\* nothing of an earlier one, however sizes alternate.  Until then there is no
\* place that shows anything but the old picture, the new one, the hint or black.
ShowsThePicture ==
  /\ picture > 0 =>
       \A s \in {Scale(last_source)}, x \in 0 .. LogicalWidth - 1,
          y \in 0 .. LogicalHeight - 1 :
         LET now == Seen(picture, last_source, s, x, y)
             before == Seen(picture - 1, last_source, s, x, y)
         IN IF publishing = Published
            THEN At(x, y) = IF exit_hint /\ <<x, y>> \in HintPixels THEN Hint ELSE now
            ELSE At(x, y) \in {now, before, Hint, Black}
  /\ memory_ # Unmapped =>
       \A p \in Panel : p[2] >= LogicalHeight => memory_[p] = Black
=============================================================================
