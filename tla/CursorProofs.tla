---------------------------- MODULE CursorProofs -----------------------------
(* The cursor of a list never leaves the window, for every length, every height and  *)
(* every scroll offset; the cursor of an edit box is in its field, for every text and    *)
(* every width that is larger than the scroll offset.                           *)
EXTENDS ScrollList, EditBox, TLAPS

\* The whole invariant is inductive; what each operation gives is a lemma of its own.
Good(c, n, h) == /\ c \in [sel : Nat, scroll : Nat]
                 /\ c.sel < n /\ c.scroll <= c.sel /\ c.sel < c.scroll + h

\* The cursor can go on by one entry: the window follows before it is left.
LEMMA NextStays ==
  ASSUME NEW n \in Nat \ {0}, NEW h \in Nat \ {0}, NEW c, Good(c, n, h)
  PROVE  Good(_select_next(c, n, h), n, h)
<1> USE OffsetAssumption
<1> DEFINE c2 == _select_next(c, n, h)
<1>1. CASE c.sel >= n - 1
  BY <1>1 DEF Good, _select_next
<1>2. CASE ~(c.sel >= n - 1)
  <2>1. c2.sel = c.sel + 1
    BY <1>2 DEF Good, _select_next
  <2>2. CASE c.sel + 1 >= c.scroll + h - SCROLL_OFFSET /\ c.scroll < _max_scroll(n, h)
    <3>1. c2 = [sel |-> c.sel + 1, scroll |-> c.scroll + 1]
      BY <1>2, <2>2 DEF _select_next
    <3> QED BY <1>2, <3>1 DEF Good
  <2>3. CASE ~(c.sel + 1 >= c.scroll + h - SCROLL_OFFSET /\ c.scroll < _max_scroll(n, h))
    <3>1. c2 = [sel |-> c.sel + 1, scroll |-> c.scroll]
      BY <1>2, <2>3 DEF _select_next
    <3>2. c.sel + 1 < c.scroll + h
      BY <1>2, <2>3 DEF Good, _max_scroll, Max2
    <3> QED BY <1>2, <3>1, <3>2 DEF Good
  <2> QED BY <2>2, <2>3
<1> QED BY <1>1, <1>2

\* And back by one.
LEMMA PrevStays ==
  ASSUME NEW n \in Nat \ {0}, NEW h \in Nat \ {0}, NEW c, Good(c, n, h)
  PROVE  Good(_select_prev(c), n, h)
<1> USE OffsetAssumption
<1>1. CASE c.sel = 0
  BY <1>1 DEF Good, _select_prev
<1>2. CASE c.sel # 0
  <2>1. CASE c.sel - 1 < c.scroll + SCROLL_OFFSET
    <3>1. _select_prev(c) = [sel |-> c.sel - 1, scroll |-> Max2(c.scroll - 1, 0)]
      BY <1>2, <2>1 DEF _select_prev
    <3> QED BY <1>2, <3>1 DEF Good, Max2
  <2>2. CASE ~(c.sel - 1 < c.scroll + SCROLL_OFFSET)
    <3>1. _select_prev(c) = [sel |-> c.sel - 1, scroll |-> c.scroll]
      BY <1>2, <2>2 DEF _select_prev
    <3> QED BY <1>2, <2>2, <3>1 DEF Good
  <2> QED BY <2>1, <2>2
<1> QED BY <1>1, <1>2

\* The three ways to place the cursor in another list.
LEMMA PlacedStays ==
  ASSUME NEW n \in Nat \ {0}, NEW h \in Nat \ {0}, NEW at \in 0..(n - 1), NEW row \in 0..(h - 1)
  PROVE  /\ Good(_center_vertically(at, n, h), n, h)
         /\ Good(_on_row(at, row), n, h)
         /\ Good(_select_last(n, h), n, h)
         /\ Good(_select_first, n, h)
<1>1. Good(_on_row(at, row), n, h)
  BY DEF Good, _on_row, Max2
<1>2. Good(_select_last(n, h), n, h) /\ Good(_select_first, n, h)
  BY DEF Good, _select_last, _select_first, _max_scroll, Max2
<1>3. h \div 2 \in Nat /\ h \div 2 <= h - 1
  OBVIOUS
<1>4. Good(_center_vertically(at, n, h), n, h)
  <2> DEFINE half == h \div 2
             top == Min2(Max2(at - half, 0), Max2(0, n - h))
  <2> HIDE DEF half
  <2>1. half \in Nat /\ half <= h - 1
    BY <1>3 DEF half
  <2>2. top \in Nat /\ top <= at /\ at < top + h
    BY <2>1 DEF Min2, Max2
  <2>3. _center_vertically(at, n, h) = [sel |-> at, scroll |-> top]
    BY DEF _center_vertically, _max_scroll, half
  <2> HIDE DEF top
  <2> QED BY <2>2, <2>3 DEF Good
<1> QED BY <1>1, <1>2, <1>4

LEMMA ResizedStays ==
  ASSUME NEW n \in Nat \ {0}, NEW h \in Nat \ {0}, NEW k \in Nat \ {0}, NEW c, Good(c, n, h)
  PROVE  Good(_resized(c, k), n, k)
<1>1. CASE c.sel - c.scroll >= k
  <2>1. _resized(c, k) = [c EXCEPT !.scroll = c.sel - k + 1]
    BY <1>1 DEF _resized
  <2> QED BY <1>1, <2>1 DEF Good
<1>2. CASE ~(c.sel - c.scroll >= k)
  <2>1. _resized(c, k) = c
    BY <1>2 DEF _resized, Good
  <2> QED BY <1>2, <2>1 DEF Good
<1> QED BY <1>1, <1>2

---------------------------------------------------------------------------
IInv == TypeOK /\ CursorOnScreen

LEMMA AtCursor ==
  ASSUME IInv
  PROVE  Good(cursor, len, height) /\ len \in Nat \ {0} /\ height \in Nat \ {0}
BY DEF IInv, TypeOK, CursorOnScreen, Good, cursor

LEMMA Moved ==
  ASSUME NEW c, NEW n \in Nat \ {0}, NEW h \in Nat \ {0}, Good(c, n, h),
         MoveTo(c), len' = n, height' = h
  PROVE  IInv'
BY DEF IInv, TypeOK, CursorOnScreen, Good, MoveTo

LEMMA Inductive == IInv /\ [Next]_vars => IInv'
<1> SUFFICES ASSUME IInv, [Next]_vars PROVE IInv'
  OBVIOUS
<1>1. CASE Next_
  BY <1>1, AtCursor, NextStays, Moved DEF Next_
<1>2. CASE Prev
  BY <1>2, AtCursor, PrevStays, Moved DEF Prev
<1>3. CASE Last
  <2>1. len - 1 \in 0..(len - 1) /\ 0 \in 0..(height - 1)
    BY AtCursor
  <2> QED BY <1>3, <2>1, AtCursor, PlacedStays, Moved DEF Last
<1>4. CASE First
  <2>1. len - 1 \in 0..(len - 1) /\ 0 \in 0..(height - 1)
    BY AtCursor
  <2> QED BY <1>4, <2>1, AtCursor, PlacedStays, Moved DEF First
<1>5. CASE Resize
  BY <1>5, AtCursor, ResizedStays, Moved DEF Resize
<1>6. CASE Relist
  <2>1. len' \in Nat \ {0} /\ height' = height /\ sel' \in 0..(len' - 1)
    BY <1>6 DEF Relist
  <2>0. height' \in Nat \ {0} /\ 0 \in 0..(height' - 1)
    BY <2>1, AtCursor
  <2>2. CASE sel' = 0 /\ scroll' = 0
    BY <2>0, <2>1, <2>2, PlacedStays, Moved DEF MoveTo, _select_first
  <2>3. CASE MoveTo(_center_vertically(sel', len', height'))
    BY <2>0, <2>1, <2>3, PlacedStays, Moved
  <2>4. CASE \E row \in 0..(height - 1) : MoveTo(_on_row(sel', row))
    BY <2>0, <2>1, <2>4, PlacedStays, Moved
  <2> QED BY <1>6, <2>2, <2>3, <2>4 DEF Relist
<1>7. CASE UNCHANGED vars
  BY <1>7 DEF IInv, TypeOK, CursorOnScreen, vars
<1> QED BY <1>1, <1>2, <1>3, <1>4, <1>5, <1>6, <1>7 DEF Next

\* Whatever is done to a list, its cursor is on an entry, and on a row of the window.
THEOREM OnScreen == Spec => []CursorOnScreen
<1>1. Init => IInv
  BY DEF Init, IInv, TypeOK, CursorOnScreen
<1>2. IInv => CursorOnScreen
  BY DEF IInv
<1> QED BY <1>1, <1>2, Inductive, PTL DEF Spec

-----------------------------------------------------------------------------
\* With the scroll at k, the cursor at j is in a field of width w.
Fits(k, j, h, w) == k \in 0..Max2(h, j) /\ k <= j /\ j < k + w

\* Wherever the field was, the adjustment brings the cursor into it.
LEMMA AdjustedFits ==
  ASSUME NEW n \in Nat, NEW j \in 0..n, NEW h \in Nat, NEW w \in Nat, w > SCROLL_OFFSET
  PROVE  Fits(_adjusted(j, n, h, w), j, h, w)
<1> USE OffsetAssumption, BoxAssumption
<1> DEFINE k == _adjusted(j, n, h, w)
<1>0. SUFFICES Fits(k, j, h, w)
  OBVIOUS
<1>1. CASE j < h + SCROLL_OFFSET
  <2>1. k = Max2(j - SCROLL_OFFSET, 0)
    BY <1>1 DEF _adjusted
  <2> HIDE DEF k
  <2> QED BY <1>1, <2>1 DEF Fits, Max2
<1>2. CASE ~(j < h + SCROLL_OFFSET) /\ j >= h + w - SCROLL_OFFSET
  <2>1. k = Min2(j - w + SCROLL_OFFSET + 1, Max2(n - w + 1, 0))
    BY <1>2 DEF _adjusted
  <2> HIDE DEF k
  <2>2. k \in Nat /\ k <= j
    BY <1>2, <2>1 DEF Min2, Max2
  <2>3. j < k + w
    BY <1>2, <2>1 DEF Min2, Max2
  <2> QED BY <2>2, <2>3 DEF Fits, Max2
<1>3. CASE ~(j < h + SCROLL_OFFSET) /\ ~(j >= h + w - SCROLL_OFFSET)
  <2>1. k = h
    BY <1>3 DEF _adjusted
  <2> HIDE DEF k
  <2> QED BY <1>3, <2>1 DEF Fits, Max2
<1> QED BY <1>1, <1>2, <1>3

BoxInv == BoxTypeOK /\ CursorInField

\* A key that leaves a text of n characters with the cursor at j.
LEMMA EditedFits ==
  ASSUME BoxInv, NEW n \in 0..MaxLen, NEW j \in 0..n, Edited(n, j)
  PROVE  BoxInv'
<1> USE OffsetAssumption, BoxAssumption
<1>1. hscroll \in Nat /\ hscroll <= MaxLen /\ width \in Nat /\ width > SCROLL_OFFSET
  BY DEF BoxInv, BoxTypeOK
<1>2. n \in Nat /\ j \in Nat /\ j <= MaxLen
  OBVIOUS
<1> DEFINE k == _adjusted(j, n, hscroll, width)
<1>3. k \in 0..Max2(hscroll, j) /\ k <= j /\ j < k + width
  BY <1>1, <1>2, AdjustedFits DEF Fits
<1>4. k \in 0..MaxLen
  BY <1>1, <1>2, <1>3 DEF Max2
<1>5. boxLen' = n /\ i' = j /\ hscroll' = k /\ fitted' = TRUE /\ width' = width
  BY DEF Edited
<1> HIDE DEF k
<1> QED BY <1>3, <1>4, <1>5 DEF BoxInv, BoxTypeOK, CursorInField

LEMMA StartFits == BoxInit => BoxInv
<1> USE OffsetAssumption, BoxAssumption
<1> SUFFICES ASSUME BoxInit PROVE BoxInv
  OBVIOUS
<1>1. boxLen \in Nat /\ boxLen <= MaxLen /\ width \in Nat /\ width > SCROLL_OFFSET /\ width \in Widths
  BY DEF BoxInit
<1>2. i = boxLen /\ hscroll = Max2(boxLen - width + 1, 0) /\ fitted = TRUE
  BY DEF BoxInit, _initial
<1> QED BY <1>1, <1>2 DEF BoxInv, BoxTypeOK, CursorInField, Max2

LEMMA BoxInductive == BoxInv /\ [BoxNext]_boxVars => BoxInv'
<1> USE OffsetAssumption, BoxAssumption
<1> SUFFICES ASSUME BoxInv, [BoxNext]_boxVars PROVE BoxInv'
  OBVIOUS
<1>1. boxLen \in Nat /\ i \in Nat /\ i <= boxLen /\ boxLen <= MaxLen
  BY DEF BoxInv, BoxTypeOK
<1>2. CASE Left \/ Right \/ Home \/ End \/ OtherKey
  <2>1. \E j \in 0..boxLen : Edited(boxLen, j)
    BY <1>1, <1>2 DEF Left, Right, Home, End, OtherKey, Max2, Min2
  <2> QED BY <1>1, <2>1, EditedFits
<1>3. CASE Backspace \/ Delete \/ DeleteAfter \/ DeleteBefore \/ Insert
  <2>1. \E n \in 0..MaxLen : \E j \in 0..n : Edited(n, j)
    <3>1. CASE Backspace
      <4> DEFINE n == IF i > 0 THEN boxLen - 1 ELSE boxLen
      <4>1. n \in 0..MaxLen /\ Max2(i - 1, 0) \in 0..n
        BY <1>1 DEF Max2
      <4> QED BY <3>1, <4>1 DEF Backspace
    <3>2. CASE Delete
      <4> DEFINE n == IF i < boxLen THEN boxLen - 1 ELSE boxLen
      <4>1. n \in 0..MaxLen /\ i \in 0..n
        BY <1>1
      <4> QED BY <3>2, <4>1 DEF Delete
    <3>3. CASE DeleteAfter
      <4>1. i \in 0..MaxLen /\ i \in 0..i
        BY <1>1
      <4> QED BY <3>3, <4>1 DEF DeleteAfter
    <3>4. CASE DeleteBefore
      <4>1. boxLen - i \in 0..MaxLen /\ 0 \in 0..(boxLen - i)
        BY <1>1
      <4> QED BY <3>4, <4>1 DEF DeleteBefore
    <3>5. CASE Insert
      <4>1. boxLen < MaxLen
        BY <3>5 DEF Insert
      <4>2. boxLen + 1 \in 0..MaxLen /\ i + 1 \in 0..(boxLen + 1)
        BY <1>1, <4>1
      <4> QED BY <3>5, <4>2 DEF Insert
    <3> QED BY <1>3, <3>1, <3>2, <3>3, <3>4, <3>5
  <2> QED BY <2>1, EditedFits
<1>4. CASE DeleteWord
  <2>1. CASE i = 0
    <3>1. Edited(boxLen, i) /\ boxLen \in 0..MaxLen /\ i \in 0..boxLen
      BY <1>1, <1>4, <2>1 DEF DeleteWord
    <3> QED BY <3>1, EditedFits
  <2>2. CASE i # 0
    <3>1. PICK d \in 1..i : Edited(boxLen - d, i - d)
      BY <1>4, <2>2 DEF DeleteWord
    <3>2. boxLen - d \in 0..MaxLen /\ i - d \in 0..(boxLen - d)
      BY <1>1
    <3> QED BY <3>1, <3>2, EditedFits
  <2> QED BY <2>1, <2>2
<1>5. CASE ResizeBox
  BY <1>5 DEF ResizeBox, BoxInv, BoxTypeOK, CursorInField
<1>6. CASE UNCHANGED boxVars
  BY <1>6 DEF BoxInv, BoxTypeOK, CursorInField, boxVars
<1> QED BY <1>2, <1>3, <1>4, <1>5, <1>6 DEF BoxNext

\* Whatever is typed, and however the window is resized between the keys, the cursor is
\* in the field after each of them.
THEOREM InField == BoxSpec => []CursorInField
<1>1. BoxInv => CursorInField
  BY DEF BoxInv
<1> QED BY <1>1, StartFits, BoxInductive, PTL DEF BoxSpec
=============================================================================
