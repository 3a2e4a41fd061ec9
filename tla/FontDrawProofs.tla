--------------------------- MODULE FontDrawProofs ---------------------------
(* Proofs, for every screen, text and call, of the invariants of FontDraw. *)
EXTENDS FontDraw, TLAPS

(***************************************************************************)
(* Type correctness: the pen never passes the right edge of the screen     *)
(* (_font_char_draw_* wraps before it draws, and writes the wrap back).    *)
(***************************************************************************)
LEMMA GlyphWidth ==
    ASSUME NEW n \in Nat \ {0}
    PROVE  n \div 2 \in Nat /\ n \div 2 <= n
  BY SMT

(* The effect of one glyph on the pen and on the rectangles drawn.         *)
LEMMA DrawGlyphType ==
    ASSUME TypeOK, NEW w \in Nat, w <= arg.size, DrawGlyph(w)
    PROVE  /\ x' \in 0..LcdW
           /\ y' \in Nat
           /\ cells' \in Seq(Cell)
           /\ clipped' \in BOOLEAN
  <1>1. /\ arg.size \in Nat \ {0} /\ arg.size <= LcdW /\ LcdW \in Nat /\ LcdH \in Nat
    BY ScreenAssumption DEF TypeOK
  <1>2. x \in 0..LcdW /\ y \in Nat /\ cells \in Seq(Cell) /\ clipped \in BOOLEAN
    BY DEF TypeOK
  <1>3. PenX(w) \in Nat /\ PenX(w) + w <= LcdW
    BY <1>1, <1>2 DEF PenX, Wraps
  <1>4. PenY(w) \in Nat
    BY <1>1, <1>2 DEF PenY
  <1>5. x' \in 0..LcdW /\ y' \in Nat
    BY <1>1, <1>3, <1>4 DEF DrawGlyph
  <1>6. [x |-> PenX(w), y |-> PenY(w), w |-> w] \in Cell
    BY <1>3, <1>4 DEF Cell
  <1>7. cells' \in Seq(Cell)
    BY <1>2, <1>6 DEF DrawGlyph
  <1>8. clipped' \in BOOLEAN
    BY <1>2 DEF DrawGlyph
  <1> QED BY <1>5, <1>7, <1>8

LEMMA TypeInit == Init => TypeOK
  <1> SUFFICES ASSUME Init PROVE TypeOK
    OBVIOUS
  <1>1. arg \in Calls /\ arg.y \in Nat /\ LcdW \in Nat
    BY ScreenAssumption DEF Init
  <1>2. cells \in Seq(Cell)
    BY DEF Init
  <1>3. p \in Nat \ {0} /\ x \in 0..LcdW /\ y \in Nat /\ ret \in Int
    BY <1>1 DEF Init
  <1>4. clipped \in BOOLEAN /\ pc \in {"draw", "done", "wild"} /\ text \in Texts
    BY DEF Init
  <1> QED BY <1>1, <1>2, <1>3, <1>4 DEF TypeOK

LEMMA TypeStep == TypeOK /\ [Next]_vars => TypeOK'
  <1> SUFFICES ASSUME TypeOK, [Next]_vars PROVE TypeOK'
    OBVIOUS
  <1>0. /\ arg \in Calls /\ arg.size \in Nat \ {0} /\ arg.y \in Nat
        /\ p \in Nat \ {0} /\ y \in Nat /\ pc \in {"draw", "done", "wild"} /\ ret \in Int
    BY ScreenAssumption DEF TypeOK
  <1>1. CASE Reject
    BY <1>0, <1>1 DEF Reject, TypeOK
  <1>2. CASE DrawAscii
    <2>1. arg.size \div 2 \in Nat /\ arg.size \div 2 <= arg.size
      BY <1>0, GlyphWidth
    <2>2. /\ x' \in 0..LcdW /\ y' \in Nat /\ cells' \in Seq(Cell) /\ clipped' \in BOOLEAN
      BY <1>2, <2>1, DrawGlyphType DEF DrawAscii
    <2>3. p' \in Nat \ {0}
      BY <1>0, <1>2 DEF DrawAscii
    <2> QED BY <1>2, <2>2, <2>3 DEF DrawAscii, TypeOK
  <1>3. CASE DrawGbk
    <2>1. /\ x' \in 0..LcdW /\ y' \in Nat /\ cells' \in Seq(Cell) /\ clipped' \in BOOLEAN
      BY <1>0, <1>3, DrawGlyphType DEF DrawGbk
    <2>2. p' \in Nat \ {0}
      BY <1>0, <1>3 DEF DrawGbk, GbkBytes
    <2> QED BY <1>3, <2>1, <2>2 DEF DrawGbk, TypeOK
  <1>4. CASE Finish
    BY <1>0, <1>4 DEF Finish, BottomRow, TypeOK
  <1>5. CASE LeaveMemory
    BY <1>5 DEF LeaveMemory, TypeOK
  <1>6. CASE UNCHANGED vars
    BY <1>6 DEF vars, TypeOK
  <1> QED BY <1>1, <1>2, <1>3, <1>4, <1>5, <1>6 DEF Next

THEOREM TypeCorrect == Spec => []TypeOK
  BY TypeInit, TypeStep, PTL DEF Spec

-----------------------------------------------------------------------------
(***************************************************************************)
(* The inductive invariant of the geometry.  The pen is past every glyph   *)
(* drawn, in reading order; once a glyph has been dropped the pen's line   *)
(* no longer fits on the screen; and in a call that starts on the screen   *)
(* the pen leaves it by one line at most, with x = 0, so that no glyph of  *)
(* that line can wrap again.                                               *)
(***************************************************************************)
Passed(c) == c.y + arg.size <= y \/ (c.y = y /\ c.x + c.w <= x)
ReadingOrder == \A i \in 1..Len(cells) : Passed(cells[i])
ClippedLine == clipped => y + arg.size > LcdH
OneLineBelow ==
    StartsOnScreen => (y + arg.size <= LcdH \/ (x = 0 /\ y <= LcdH))
Geometry ==
    /\ ReadingOrder
    /\ GlyphsOnScreen
    /\ GlyphsDisjoint
    /\ ClippedLine
    /\ OneLineBelow

(* What the value returned says of the pen.                                *)
Returned ==
    pc = "done" => ret <= y + arg.size /\ (ret = y + arg.size \/ cells = <<>>)
(* Before the first glyph of an unsupported call nothing happens at all.   *)
Untouched == ~Supported => cells = <<>> /\ y = arg.y

IInv == TypeOK /\ Geometry /\ Returned /\ Untouched

LEMMA CellParts ==
    ASSUME cells \in Seq(Cell)
    PROVE  \A i \in 1..Len(cells) :
              cells[i].x \in Nat /\ cells[i].y \in Nat /\ cells[i].w \in Nat
  <1>1. \A i \in 1..Len(cells) : cells[i] \in Cell
    OBVIOUS
  <1> QED BY <1>1 DEF Cell

LEMMA DrawGlyphGeometry ==
    ASSUME TypeOK, Geometry, UNCHANGED arg,
           NEW w \in Nat, w <= arg.size, DrawGlyph(w)
    PROVE  Geometry'
  <1> DEFINE new == [x |-> PenX(w), y |-> PenY(w), w |-> w]
             NowPassed(c) == c.y + arg.size <= y' \/ (c.y = y' /\ c.x + c.w <= x')
  <1>0. /\ arg' = arg /\ arg.size \in Nat \ {0} /\ arg.size <= LcdW /\ arg.y \in Nat
        /\ LcdW \in Nat /\ LcdH \in Nat /\ x \in 0..LcdW /\ y \in Nat
        /\ cells \in Seq(Cell) /\ clipped \in BOOLEAN
    BY ScreenAssumption DEF TypeOK
  <1>1. /\ PenX(w) \in Nat /\ PenX(w) + w <= LcdW /\ PenY(w) \in Nat /\ y <= PenY(w)
        /\ Wraps(w) => PenX(w) = 0 /\ PenY(w) = y + arg.size
        /\ ~Wraps(w) => PenX(w) = x /\ PenY(w) = y
    BY <1>0 DEF PenX, PenY, Wraps
  <1>2. \A i \in 1..Len(cells) : cells[i].x \in Nat /\ cells[i].y \in Nat /\ cells[i].w \in Nat
    BY <1>0, CellParts
  <1>3. \A i \in 1..Len(cells) : Apart(cells[i], new)
    <2> TAKE i \in 1..Len(cells)
    <2>1. cells[i].x \in Nat /\ cells[i].y \in Nat /\ cells[i].w \in Nat
      BY <1>2
    <2>2. Passed(cells[i])
      BY DEF Geometry, ReadingOrder
    <2>3. new.x = PenX(w) /\ new.y = PenY(w)
      OBVIOUS
    <2> QED BY <1>0, <1>1, <2>1, <2>2, <2>3 DEF Passed, Apart
  <1>4. CASE Fits(w)
    <2>1. /\ x' = PenX(w) + w /\ y' = PenY(w) /\ cells' = Append(cells, new)
          /\ clipped' = clipped /\ PenY(w) + arg.size <= LcdH
      BY <1>0, <1>4 DEF DrawGlyph, Fits
    <2>1a. x' = PenX(w) + w /\ y' = PenY(w) /\ x' >= PenX(w)
      BY <1>1, <2>1
    <2>2. /\ Len(cells') = Len(cells) + 1 /\ cells'[Len(cells) + 1] = new
          /\ \A i \in 1..Len(cells) : cells'[i] = cells[i]
      BY <1>0, <2>1
    <2>3. ReadingOrder'
      <3>1. \A i \in 1..Len(cells) : NowPassed(cells[i])
        <4> TAKE i \in 1..Len(cells)
        <4>1. cells[i].x \in Nat /\ cells[i].y \in Nat /\ cells[i].w \in Nat
          BY <1>2
        <4>2. \/ cells[i].y + arg.size <= PenY(w)
              \/ cells[i].y = PenY(w) /\ cells[i].x + cells[i].w <= PenX(w)
          BY <1>3 DEF Apart
        <4>3. CASE cells[i].y + arg.size <= PenY(w)
          BY <2>1a, <4>3
        <4>4. CASE cells[i].y = PenY(w) /\ cells[i].x + cells[i].w <= PenX(w)
          BY <1>1, <2>1a, <4>1, <4>4
        <4> QED BY <4>2, <4>3, <4>4
      <3>2. NowPassed(new)
        BY <1>0, <1>1, <2>1
      <3>3. \A i \in 1..Len(cells') : NowPassed(cells'[i])
        BY <1>0, <2>2, <3>1, <3>2
      <3> QED BY <1>0, <3>3 DEF ReadingOrder, Passed
    <2>4. GlyphsOnScreen'
      BY <1>0, <1>1, <2>1, <2>2 DEF Geometry, GlyphsOnScreen, OnScreen
    <2>5. GlyphsDisjoint'
      <3>1. ASSUME NEW j \in 1..Len(cells'), NEW i \in 1..(j - 1)
            PROVE  Apart(cells'[i], cells'[j])
        <4>1. Len(cells) \in Nat
          BY <1>0
        <4>2. i \in 1..Len(cells) /\ cells'[i] = cells[i]
          BY <2>2, <4>1
        <4>3. CASE j \in 1..Len(cells)
          <5>1. cells'[j] = cells[j]
            BY <2>2, <4>3
          <5> QED BY <4>2, <4>3, <5>1 DEF Geometry, GlyphsDisjoint
        <4>4. CASE j = Len(cells) + 1
          BY <1>3, <2>2, <4>2, <4>4
        <4> QED BY <2>2, <4>1, <4>3, <4>4
      <3> QED BY <1>0, <3>1 DEF GlyphsDisjoint, Apart
    <2>6. ClippedLine'
      BY <1>0, <1>1, <2>1 DEF Geometry, ClippedLine
    <2>7. OneLineBelow'
      BY <1>0, <1>1, <2>1 DEF OneLineBelow
    <2> QED BY <2>3, <2>4, <2>5, <2>6, <2>7 DEF Geometry
  <1>5. CASE ~Fits(w)
    <2>1. x' = PenX(w) /\ y' = PenY(w) /\ cells' = cells
      BY <1>5 DEF DrawGlyph
    <2>1a. PenY(w) + arg.size > LcdH
      BY <1>0, <1>1, <1>5 DEF Fits
    <2>2. ReadingOrder'
      <3>1. \A i \in 1..Len(cells) : NowPassed(cells[i])
        <4> TAKE i \in 1..Len(cells)
        <4>1. cells[i].x \in Nat /\ cells[i].y \in Nat /\ cells[i].w \in Nat
          BY <1>2
        <4>2. Passed(cells[i])
          BY DEF Geometry, ReadingOrder
        <4> QED BY <1>0, <1>1, <2>1, <4>1, <4>2 DEF Passed
      <3> QED BY <1>0, <2>1, <3>1 DEF ReadingOrder, Passed
    <2>3. GlyphsOnScreen' /\ GlyphsDisjoint'
      BY <1>0, <2>1 DEF Geometry, GlyphsOnScreen, GlyphsDisjoint, OnScreen, Apart
    <2>4. ClippedLine'
      BY <1>0, <2>1, <2>1a DEF ClippedLine
    <2>5. OneLineBelow'
      BY <1>0, <1>1, <2>1, <2>1a DEF Geometry, OneLineBelow, StartsOnScreen, Wraps
    <2> QED BY <2>2, <2>3, <2>4, <2>5 DEF Geometry
  <1> QED BY <1>4, <1>5

LEMMA IInvInit == Init => IInv
  <1> SUFFICES ASSUME Init PROVE IInv
    OBVIOUS
  <1>1. TypeOK /\ cells = <<>> /\ Len(cells) = 0 /\ y = arg.y /\ pc = "draw" /\ ~clipped
    BY TypeInit DEF Init
  <1>2. arg.size \in Nat /\ arg.y \in Nat /\ LcdH \in Nat
    BY <1>1, ScreenAssumption DEF TypeOK
  <1>3. Geometry
    BY <1>1, <1>2 DEF Geometry, ReadingOrder, GlyphsOnScreen, GlyphsDisjoint, ClippedLine,
                      OneLineBelow, StartsOnScreen
  <1> QED BY <1>1, <1>3 DEF IInv, Returned, Untouched

LEMMA IInvStep == IInv /\ [Next]_vars => IInv'
  <1> SUFFICES ASSUME IInv, [Next]_vars PROVE IInv'
    OBVIOUS
  <1>0. /\ TypeOK' /\ arg' = arg
        /\ arg.size \in Nat \ {0} /\ arg.y \in Nat /\ y \in Nat /\ ret \in Int
    BY TypeStep, ScreenAssumption
       DEF IInv, TypeOK, Next, Reject, DrawAscii, DrawGbk, Finish, LeaveMemory, vars
  <1>1. CASE UNCHANGED <<x, y, cells, clipped>>
    <2>1. Geometry' /\ Untouched'
      BY <1>0, <1>1
         DEF IInv, Geometry, ReadingOrder, Passed, GlyphsOnScreen, OnScreen, GlyphsDisjoint,
             Apart, ClippedLine, OneLineBelow, StartsOnScreen, Untouched, Supported
    <2>2. Returned'
      <3>1. CASE Reject
        BY <1>0, <3>1 DEF IInv, Reject, Returned, Untouched
      <3>2. CASE Finish
        BY <1>0, <3>2 DEF Finish, BottomRow, Returned
      <3>3. CASE pc' # "done" \/ UNCHANGED <<pc, ret>>
        BY <1>0, <1>1, <3>3 DEF IInv, Returned
      <3> QED BY <3>1, <3>2, <3>3 DEF Next, DrawAscii, DrawGbk, LeaveMemory, vars
    <2> QED BY <1>0, <2>1, <2>2 DEF IInv
  <1>2. CASE \E w \in Nat : w <= arg.size /\ DrawGlyph(w) /\ Supported /\ pc' = "draw"
    <2>1. Geometry'
      BY <1>0, <1>2, DrawGlyphGeometry DEF IInv
    <2>2. Returned' /\ Untouched'
      BY <1>0, <1>2 DEF Returned, Untouched, Supported
    <2> QED BY <1>0, <2>1, <2>2 DEF IInv
  <1>3. CASE DrawAscii
    <2>1. arg.size \div 2 \in Nat /\ arg.size \div 2 <= arg.size
      BY <1>0, GlyphWidth
    <2> QED BY <1>2, <1>3, <2>1 DEF DrawAscii, Running
  <1>4. CASE DrawGbk
    BY <1>0, <1>2, <1>4 DEF DrawGbk, Running
  <1> QED BY <1>1, <1>3, <1>4 DEF Next, Reject, Finish, LeaveMemory, vars

THEOREM GeometryInvariant == Spec => []IInv
  BY IInvInit, IInvStep, PTL DEF Spec

-----------------------------------------------------------------------------
(***************************************************************************)
(* No glyph leaves the screen and no two overlap, for every screen, call   *)
(* and text: the wrap and the height test of _font_char_draw_* suffice.    *)
(***************************************************************************)
THEOREM OnScreenAlways == Spec => []GlyphsPlaced
  <1>1. IInv => GlyphsPlaced
    BY DEF IInv, Geometry, GlyphsPlaced
  <1> QED BY <1>1, GeometryInvariant, PTL

(***************************************************************************)
(* The row font_draw returns lies below every glyph drawn, so the callers' *)
(* flush of the rows above it shows them all.                              *)
(***************************************************************************)
THEOREM FlushShowsEveryGlyph == Spec => []FlushCovers
  <1>1. IInv => FlushCovers
    <2> SUFFICES ASSUME IInv, pc = "done", NEW i \in 1..Len(cells)
                 PROVE  cells[i].y + arg.size <= ret
      BY DEF FlushCovers
    <2>1. /\ y \in Nat /\ ret \in Int /\ cells \in Seq(Cell)
          /\ arg.size \in Nat
      BY ScreenAssumption DEF IInv, TypeOK
    <2>1a. cells[i].x \in Nat /\ cells[i].y \in Nat /\ cells[i].w \in Nat
      BY <2>1, CellParts
    <2>2. cells # <<>>
      BY <2>1
    <2>3. ret = y + arg.size
      BY <2>2 DEF IInv, Returned
    <2>4. Passed(cells[i])
      BY DEF IInv, Geometry, ReadingOrder
    <2> QED BY <2>1, <2>1a, <2>3, <2>4 DEF Passed
  <1> QED BY <1>1, GeometryInvariant, PTL

LEMMA TimesMonotone ==
    ASSUME NEW w \in Nat, NEW a \in Int, NEW b \in Int, a <= b
    PROVE  w * a <= w * b
  <1>1. w * (b - a) >= 0
    BY SMT
  <1>2. w * b = w * a + w * (b - a)
    BY SMT
  <1> QED BY <1>1, <1>2

(***************************************************************************)
(* A call that starts on the screen returns a row that fb_display can read *)
(* up to (3 bytes a pixel) inside lcd_buf (4 bytes a pixel), although      *)
(* my_digitcb does not limit it to LCD_H.                                  *)
(***************************************************************************)
THEOREM FlushStaysInBuffer == Spec => []FlushInBuffer
  <1>1. IInv => FlushInBuffer
    <2> SUFFICES ASSUME IInv, pc = "done", StartsOnScreen
                 PROVE  3 * (LcdW * ret) <= 4 * (LcdW * LcdH)
      BY DEF FlushInBuffer
    <2>1. y \in Nat /\ ret \in Int /\ arg.size \in Nat /\ LcdW \in Nat /\ LcdH \in Nat
      BY ScreenAssumption DEF IInv, TypeOK
    <2>2. y <= LcdH /\ ret <= y + arg.size /\ 3 * arg.size <= LcdH
      BY <2>1 DEF IInv, Geometry, OneLineBelow, StartsOnScreen, Returned
    <2>3. 3 * ret <= 4 * LcdH
      BY <2>1, <2>2
    <2>4. LcdW * (3 * ret) <= LcdW * (4 * LcdH)
      BY <2>1, <2>3, TimesMonotone
    <2>5. LcdW * (3 * ret) = 3 * (LcdW * ret) /\ LcdW * (4 * LcdH) = 4 * (LcdW * LcdH)
      BY <2>1, SMT
    <2> QED BY <2>4, <2>5
  <1> QED BY <1>1, GeometryInvariant, PTL

(***************************************************************************)
(* So a flush of the rows above it shows every glyph and reads no byte     *)
(* behind the buffer (main.cpp:98, 112).                                   *)
(***************************************************************************)
THEOREM FlushIsSafe == Spec => []FlushSafe
  <1>1. FlushCovers /\ FlushInBuffer => FlushSafe
    BY DEF FlushSafe
  <1> QED BY <1>1, FlushShowsEveryGlyph, FlushStaysInBuffer, PTL

(***************************************************************************)
(* Once a glyph has been dropped below the screen, no later one is drawn.  *)
(***************************************************************************)
THEOREM ClippingIsFinal == Spec => ClipIsFinal
  <1>1. IInv /\ [Next]_vars => [clipped => cells' = cells]_vars
    <2> SUFFICES ASSUME IInv, Next, clipped PROVE cells' = cells
      OBVIOUS
    <2>1. /\ arg.size \in Nat /\ y \in Nat /\ LcdH \in Nat /\ y + arg.size > LcdH
      BY ScreenAssumption DEF IInv, TypeOK, Geometry, ClippedLine
    <2>2. ASSUME NEW w, DrawGlyph(w) PROVE cells' = cells
      BY <2>1, <2>2 DEF DrawGlyph, Fits, PenY
    <2> QED BY <2>2 DEF Next, Reject, DrawAscii, DrawGbk, Finish, LeaveMemory
  <1> QED BY <1>1, GeometryInvariant, PTL DEF Spec, ClipIsFinal

-----------------------------------------------------------------------------
(***************************************************************************)
(* With the font loaded, the read pointer of a GB2312 text only stands on  *)
(* characters of the text or on its terminator.                            *)
(***************************************************************************)
THEOREM PointerOnCharacter == Spec => []InString
  <1>1. Init => InString
    BY DEF Init, InString, OnCharacter, WellFormed
  <1>2. TypeOK /\ InString /\ [Next]_vars => InString'
    <2> SUFFICES ASSUME TypeOK, InString, [Next]_vars,
                        arg.font, WellFormed(text), arg' = arg, text' = text
                 PROVE  OnCharacter'
      BY DEF InString, WellFormed, Next, Reject, DrawAscii, DrawGbk, Finish, LeaveMemory, vars
    <2>1. p \in text.starts
      BY DEF InString, OnCharacter
    <2>2. CASE DrawAscii
      BY <2>1, <2>2 DEF DrawAscii, WellFormed, OnCharacter
    <2>3. CASE DrawGbk
      <3>1. /\ text.mem \in Seq(ByteClass) /\ p \in Nat
        BY TextAssumption DEF TypeOK
      <3>2. /\ text.mem[p] = "lead" /\ p + 1 \in DOMAIN text.mem
            /\ text.mem[p + 1] \in Second /\ p + 2 \in text.starts
        BY <2>1, <2>3 DEF DrawGbk, WellFormed
      <3>3. p + 1 <= Len(text.mem)
        BY <3>1, <3>2
      <3>4. GbkFound(p) = {TRUE}
        BY <3>2, <3>3 DEF GbkFound
      <3>5. p' = p + 2
        BY <2>3, <3>4 DEF DrawGbk, GbkBytes
      <3> QED BY <3>2, <3>5 DEF OnCharacter
    <2>4. CASE UNCHANGED p
      BY <2>1, <2>4 DEF OnCharacter
    <2> QED BY <2>2, <2>3, <2>4 DEF Next, Reject, Finish, LeaveMemory, vars
  <1> QED BY <1>1, <1>2, TypeCorrect, PTL DEF Spec
=============================================================================
