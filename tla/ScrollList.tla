----------------------------- MODULE ScrollList -----------------------------
(* A list with a cursor in a window that shows a part of it, as menuconfig.py keeps  *)
(* one for each menu: the cursor stays on a row of the window whatever is done to     *)
(* the list, the window and the cursor.                                         *)
EXTENDS ScrollOffset

VARIABLES sel,     \* index of the cursor, from 0
          scroll,  \* index of the top row of the window
          len,     \* length of the list
          height   \* rows of the window
vars == <<sel, scroll, len, height>>

_max_scroll(n, h) == Max2(0, n - h)

\* The operations, on a cursor c = [sel, scroll] in a list of n entries and h rows.
_select_next(c, n, h) ==
  IF c.sel >= n - 1 THEN c
  ELSE [sel |-> c.sel + 1,
        scroll |-> IF /\ c.sel + 1 >= c.scroll + h - SCROLL_OFFSET
                      /\ c.scroll < _max_scroll(n, h)
                   THEN c.scroll + 1 ELSE c.scroll]
_select_prev(c) ==
  IF c.sel = 0 THEN c
  ELSE [sel |-> c.sel - 1,
        scroll |-> IF c.sel - 1 < c.scroll + SCROLL_OFFSET THEN Max2(c.scroll - 1, 0) ELSE c.scroll]
_select_last(n, h) == [sel |-> n - 1, scroll |-> _max_scroll(n, h)]
_select_first == [sel |-> 0, scroll |-> 0]
_resized(c, h) == [c EXCEPT !.scroll = IF c.sel - c.scroll >= h THEN c.sel - h + 1 ELSE c.scroll]
_center_vertically(at, n, h) ==
  [sel |-> at, scroll |-> Min2(Max2(at - h \div 2, 0), _max_scroll(n, h))]
_on_row(at, row) == [sel |-> at, scroll |-> Max2(at - row, 0)]

cursor == [sel |-> sel, scroll |-> scroll]
MoveTo(c) == sel' = c.sel /\ scroll' = c.scroll

Init == sel = 0 /\ scroll = 0 /\ len \in Nat \ {0} /\ height \in Nat \ {0}

Next_ == MoveTo(_select_next(cursor, len, height)) /\ UNCHANGED <<len, height>>
Prev == MoveTo(_select_prev(cursor)) /\ UNCHANGED <<len, height>>
Last == MoveTo(_select_last(len, height)) /\ UNCHANGED <<len, height>>
First == MoveTo(_select_first) /\ UNCHANGED <<len, height>>
Resize == height' \in Nat \ {0} /\ MoveTo(_resized(cursor, height')) /\ UNCHANGED len

\* Another list, or other entries: with the cursor at the top, in the middle of the
\* window, or on a row of the window if the entries above it allow.
Relist ==
  /\ len' \in Nat \ {0} /\ height' = height
  /\ sel' \in 0..(len' - 1)
  /\ \/ sel' = 0 /\ scroll' = 0
     \/ MoveTo(_center_vertically(sel', len', height))
     \/ \E row \in 0..(height - 1) : MoveTo(_on_row(sel', row))

Next == Next_ \/ Prev \/ Last \/ First \/ Resize \/ Relist
Spec == Init /\ [][Next]_vars

TypeOK == sel \in Nat /\ scroll \in Nat /\ len \in Nat \ {0} /\ height \in Nat \ {0}

\* The cursor is on an entry, and the entry is on a row of the window.
CursorOnScreen == sel < len /\ scroll <= sel /\ sel < scroll + height
=============================================================================
