---------------------------- MODULE Scrollback ----------------------------
(***************************************************************************)
(* What a terminal promises whoever looks at it: rows of text of which     *)
(* some are edited or scrolled, a bounded history of the rows that left at *)
(* the top, oldest first, and a view that may be moved back into that      *)
(* history.  Nothing here knows how rows are stored.  One promise is less  *)
(* than a reader would want: a top row that scrolls alone enters the       *)
(* history at each line feed, while it stays where it is.                  *)
(***************************************************************************)
EXTENDS Integers, Sequences

CONSTANTS
  Height,     \* rows of the screen
  Depth,      \* rows of history that are kept
  BlankRow,   \* an erased row
  Fills       \* the rows that a function may write without being given text

VARIABLES
  rows,       \* the screen, top row 0
  past,       \* rows that left at the top, oldest first
  back,       \* by how many rows the view is moved back into past
  pinned      \* the program has made the top row a scroll region of its own

\* pinned is set from outside.
vars == <<rows, past, back>>

RowIds == 0 .. Height - 1
Span(a, b) == [i \in 1 .. b - a + 1 |-> rows[a + i - 1]]
Newest(s) == IF Len(s) <= Depth THEN s ELSE SubSeq(s, Len(s) - Depth + 1, Len(s))

Init == rows = [y \in RowIds |-> BlankRow] /\ past = <<>> /\ back = 0

\* One row changes at will, others may be filled.
Written(base) ==
  \E y \in RowIds : \A z \in RowIds \ {y} : rows'[z] \in {base[z]} \cup Fills

\* A function that edits keeps the history and the view.
Edit == Written(rows) /\ UNCHANGED <<past, back>>

\* The rows a..b after scrolling by n, upwards when n is positive.
Shifted(a, b, n) ==
  [z \in RowIds |->
     IF z \notin a .. b THEN rows[z]
     ELSE IF z + n \in a .. b THEN rows[z + n] ELSE BlankRow]

\* Text may be written to one row in the step that scrolls.
OneWritten(base) == \E y \in RowIds : \A z \in RowIds \ {y} : rows'[z] = base[z]

\* Scrolling up at the top of the screen is what feeds the history.
Scroll(a, b, n) ==
  /\ OneWritten(Shifted(a, b, n))
  /\ past' = Newest(past \o (IF a = 0 /\ n > 0 THEN Span(0, n - 1) ELSE <<>>))
  /\ UNCHANGED back

\* A top row that is a scroll region of its own is neither moved nor cleared by a
\* line feed, and enters the history all the same.
Repeat ==
  /\ pinned
  /\ OneWritten(rows)
  /\ past' = Newest(past \o Span(0, 0))
  /\ UNCHANGED back

Look ==
  /\ back' \in 0 .. Len(past)
  /\ UNCHANGED <<rows, past>>

Next ==
  \/ Edit
  \/ \E a, b \in RowIds : \E n \in a - b .. b - a : Scroll(a, b, n)
  \/ Repeat
  \/ Look

Spec == Init /\ [][Next]_vars

\* What stands in row y of the view.
Seen(y) == (past \o Span(0, Height - 1))[Len(past) - back + y + 1]
=============================================================================
