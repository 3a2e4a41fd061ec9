------------------------------- MODULE EditBox -------------------------------
(* The edit boxes of menuconfig.py (_edit_text() and the loops around it): a text with a  *)
(* cursor, in a field that shows a part of it. The text is its length; how many        *)
(* characters Ctrl-W takes away is open.                                        *)
EXTENDS ScrollOffset

CONSTANTS Widths,         \* the widths the field may have
          MaxLen          \* bound: the longest text
ASSUME BoxAssumption ==
  /\ MaxLen \in Nat
  /\ Widths \subseteq {w \in Nat : w > SCROLL_OFFSET}

VARIABLES boxLen,  \* length of the text
          i,       \* position of the cursor
          hscroll, \* the first character shown
          width,   \* of the field
          fitted   \* whether a key has been handled since the last resizing
boxVars == <<boxLen, i, hscroll, width, fitted>>

_initial(n, w) == [i |-> n, hscroll |-> Max2(n - w + 1, 0)]

\* The horizontal scroll with the cursor at j in a text of n characters.
_adjusted_NoLeft(j, n, h, w) ==
  IF j >= h + w - SCROLL_OFFSET THEN Min2(j - w + SCROLL_OFFSET + 1, Max2(n - w + 1, 0)) ELSE h
_adjusted(j, n, h, w) ==
  IF j < h + SCROLL_OFFSET THEN Max2(j - SCROLL_OFFSET, 0)
  ELSE IF j >= h + w - SCROLL_OFFSET THEN Min2(j - w + SCROLL_OFFSET + 1, Max2(n - w + 1, 0))
  ELSE h

BoxInit ==
  /\ boxLen \in 0..MaxLen /\ width \in Widths /\ fitted = TRUE
  /\ i = _initial(boxLen, width).i /\ hscroll = _initial(boxLen, width).hscroll

\* What every key ends with.
Edited(n, j) ==
  /\ boxLen' = n /\ i' = j
  /\ hscroll' = _adjusted(j, n, hscroll, width)
  /\ fitted' = TRUE
  /\ UNCHANGED width

Left == Edited(boxLen, Max2(i - 1, 0))
Right == Edited(boxLen, Min2(i + 1, boxLen))
Home == Edited(boxLen, 0)
End == Edited(boxLen, boxLen)
Backspace == Edited(IF i > 0 THEN boxLen - 1 ELSE boxLen, Max2(i - 1, 0))
Delete == Edited(IF i < boxLen THEN boxLen - 1 ELSE boxLen, i)
DeleteWord == IF i = 0 THEN Edited(boxLen, i) ELSE \E d \in 1..i : Edited(boxLen - d, i - d)
DeleteAfter == Edited(i, i)
DeleteBefore == Edited(boxLen - i, 0)
Insert == boxLen < MaxLen /\ Edited(boxLen + 1, i + 1)
OtherKey == Edited(boxLen, i)

\* KEY_RESIZE: the field is another one, and nothing else is.
ResizeBox == width' \in Widths /\ fitted' = FALSE /\ UNCHANGED <<boxLen, i, hscroll>>

BoxNext ==
  \/ Left \/ Right \/ Home \/ End \/ Backspace \/ Delete
  \/ DeleteWord \/ DeleteAfter \/ DeleteBefore \/ Insert \/ OtherKey \/ ResizeBox
BoxSpec == BoxInit /\ [][BoxNext]_boxVars

BoxTypeOK ==
  /\ boxLen \in 0..MaxLen /\ i \in 0..boxLen /\ hscroll \in 0..MaxLen
  /\ width \in Widths /\ fitted \in BOOLEAN

\* After every key the cursor is in the field, however wide it has become.
CursorInField == fitted => hscroll <= i /\ i < hscroll + width
=============================================================================
