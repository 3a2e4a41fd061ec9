------------------------------ MODULE FontDraw ------------------------------
(***************************************************************************)
(* font_draw (components/utils/src/font.c): one call draws a GB2312 text,  *)
(* glyph by glyph, into the LCD shadow buffer of main.cpp.                 *)
(*                                                                         *)
(* A step is one turn of the loop over the text.  The bytes of the text    *)
(* are kept by class, the classes being those font.c tells apart:          *)
(*    "nul"    0x00                                                        *)
(*    "ascii"  0x01..0x7f                                                  *)
(*    "low"    0x80..0xa0             never a byte of a GB2312 glyph       *)
(*    "trail"  0xaa..0xaf, 0xf8..0xff  a second byte, never a first one    *)
(*    "lead"   the other bytes from 0xa1 on                                *)
(* The pixels of a glyph are abstracted to the rectangle they fill.        *)
(***************************************************************************)
EXTENDS Integers, Sequences

CONSTANTS
    LcdW, LcdH,     \* the screen, in pixels
    Texts,          \* the texts in memory: [mem, starts], see TextAssumption
    Calls           \* the arguments of the calls: [size, bpp, y, font]

GlyphSizes == {16, 24, 32, 48}
Depths == {16, 24, 32}
ByteClass == {"nul", "ascii", "low", "lead", "trail"}
Second == {"lead", "trail"}

(* Every caller passes x_oft = 0, so the column is not an argument here.   *)
(* "font" says whether font_reg has mapped the GBK font of that size.      *)
ASSUME ScreenAssumption ==
    /\ LcdW \in Nat
    /\ LcdH \in Nat
    /\ \A c \in Calls :
          /\ c.size \in Nat \ {0}
          /\ c.size <= LcdW
          /\ c.bpp \in Int
          /\ c.y \in Nat
          /\ c.font \in BOOLEAN

(* "starts" holds the indices at which a character of mem starts, and that *)
(* of its terminator; it is empty for bytes that are not a GB2312 text.    *)
ASSUME TextAssumption ==
    \A t \in Texts :
       /\ t.mem \in Seq(ByteClass)
       /\ t.starts \subseteq DOMAIN t.mem

VARIABLES
    arg,        \* the arguments of this call
    text,       \* the memory the pointer str points into
    p,          \* the read pointer, an index of text.mem
    x, y,       \* the pen: _x_oft, _y_oft
    cells,      \* history: the glyphs drawn so far, as rectangles
    clipped,    \* history: some glyph has been dropped
    pc,         \* "draw", "done"; "wild": p has left the modelled memory
    ret         \* the value returned

vars == <<arg, text, p, x, y, cells, clipped, pc, ret>>

(***************************************************************************)
(* A text that is GB2312: from every start but the terminator's, the next  *)
(* character starts one byte (ASCII) or two bytes (GBK) later.             *)
(***************************************************************************)
WellFormed(t) ==
    /\ 1 \in t.starts
    /\ \A i \in t.starts :
          \/ t.mem[i] = "nul"
          \/ t.mem[i] = "ascii" /\ i + 1 \in t.starts
          \/ /\ t.mem[i] = "lead"
             /\ i + 1 \in DOMAIN t.mem
             /\ t.mem[i + 1] \in Second
             /\ i + 2 \in t.starts

Init ==
    /\ arg \in Calls
    /\ text \in Texts
    /\ p = 1
    /\ x = 0
    /\ y = arg.y
    /\ cells = <<>>
    /\ clipped = FALSE
    /\ pc = "draw"
    /\ ret = 0

-----------------------------------------------------------------------------
(* An unsupported size returns -1, an unsupported depth returns y_oft.     *)
Supported == arg.size \in GlyphSizes /\ arg.bpp \in Depths

Reject ==
    /\ pc = "draw" /\ ~Supported
    /\ ret' = IF arg.size \notin GlyphSizes THEN -1 ELSE arg.y
    /\ pc' = "done"
    /\ UNCHANGED <<arg, text, p, x, y, cells, clipped>>

Running == pc = "draw" /\ Supported

(* _font_char_draw_rgb / _argb: a glyph that would cross the right edge    *)
(* starts a new line, and the new pen position is written back even when   *)
(* the line turns out to lie below the screen.                             *)
Wraps_Late(w) == x > LcdW
Wraps(w) == x + w > LcdW

PenX(w) == IF Wraps(w) THEN 0 ELSE x

PenY_SameLine(w) == y
PenY(w) == IF Wraps(w) THEN y + arg.size ELSE y

Fits_Always(w) == TRUE
Fits(w) == PenY(w) + arg.size <= LcdH

DrawGlyph_PenNotSaved(w) ==
    /\ x' = IF Fits(w) THEN PenX(w) + w ELSE x
    /\ y' = IF Fits(w) THEN PenY(w) ELSE y
    /\ cells' = IF Fits(w) THEN Append(cells, [x |-> PenX(w), y |-> PenY(w), w |-> w])
                           ELSE cells
    /\ clipped' = (clipped \/ ~Fits(w))
DrawGlyph_AdvanceClipped(w) ==
    /\ x' = PenX(w) + w
    /\ y' = PenY(w)
    /\ cells' = IF Fits(w) THEN Append(cells, [x |-> PenX(w), y |-> PenY(w), w |-> w])
                           ELSE cells
    /\ clipped' = (clipped \/ ~Fits(w))
DrawGlyph(w) ==
    /\ x' = IF Fits(w) THEN PenX(w) + w ELSE PenX(w)
    /\ y' = PenY(w)
    /\ cells' = IF Fits(w) THEN Append(cells, [x |-> PenX(w), y |-> PenY(w), w |-> w])
                           ELSE cells
    /\ clipped' = (clipped \/ ~Fits(w))

(* The glyph of an ASCII character is half as wide as it is high.          *)
DrawAscii ==
    /\ Running /\ p <= Len(text.mem)
    /\ text.mem[p] = "ascii"
    /\ DrawGlyph(arg.size \div 2)
    /\ p' = p + 1
    /\ UNCHANGED <<arg, text, pc, ret>>

(* _font_get_gbk: does the font hold the glyph?  A second byte beyond the  *)
(* modelled memory may be anything.                                        *)
GbkFound(i) ==
    IF ~arg.font \/ text.mem[i] # "lead" THEN {FALSE}
    ELSE IF i + 1 <= Len(text.mem) THEN {text.mem[i + 1] \in Second}
    ELSE BOOLEAN

(* A glyph that is not found advances the pointer twice.                   *)
GbkBytes_Four(found) == 4
GbkBytes(found) == IF found THEN 2 ELSE 4

DrawGbk ==
    /\ Running /\ p <= Len(text.mem)
    /\ text.mem[p] \notin {"nul", "ascii"}
    /\ DrawGlyph(arg.size)
    /\ \E found \in GbkFound(p) : p' = p + GbkBytes(found)
    /\ UNCHANGED <<arg, text, pc, ret>>

(* The loop ends at a zero byte.                                           *)
BottomRow_PenRow == y
BottomRow == y + arg.size
Finish ==
    /\ Running /\ p <= Len(text.mem)
    /\ text.mem[p] = "nul"
    /\ ret' = BottomRow
    /\ pc' = "done"
    /\ UNCHANGED <<arg, text, p, x, y, cells, clipped>>

(* The pointer has left the memory of the model: what follows is unknown.  *)
LeaveMemory ==
    /\ Running /\ p > Len(text.mem)
    /\ pc' = "wild"
    /\ UNCHANGED <<arg, text, p, x, y, cells, clipped, ret>>

Next == Reject \/ DrawAscii \/ DrawGbk \/ Finish \/ LeaveMemory

Spec == Init /\ [][Next]_vars

-----------------------------------------------------------------------------
Cell == [x : Nat, y : Nat, w : Nat]

(* The pen stays within one glyph of the screen's right edge; clipping     *)
(* never moves it left of column 0.                                        *)
TypeOK ==
    /\ arg \in Calls
    /\ text \in Texts
    /\ p \in Nat \ {0}
    /\ x \in 0..LcdW
    /\ y \in Nat
    /\ cells \in Seq(Cell)
    /\ clipped \in BOOLEAN
    /\ pc \in {"draw", "done", "wild"}
    /\ ret \in Int

(* No pixel is written outside the screen: font_draw gets a bare pointer,  *)
(* so the wrap and the height test of _font_char_draw_* are all there is.  *)
OnScreen(c) == c.x + c.w <= LcdW /\ c.y + arg.size <= LcdH
GlyphsOnScreen == \A i \in 1..Len(cells) : OnScreen(cells[i])

(* Two glyphs of one call never overlap, whatever mixture of half-width    *)
(* and full-width characters made the lines break.                         *)
Apart(c, d) == c.y + arg.size <= d.y \/ (c.y = d.y /\ c.x + c.w <= d.x)
GlyphsDisjoint ==
    \A j \in 1..Len(cells) : \A i \in 1..(j - 1) : Apart(cells[i], cells[j])

(* Every glyph has a place of its own on the screen.                       *)
GlyphsPlaced == TypeOK /\ GlyphsOnScreen /\ GlyphsDisjoint

(* The callers flush rows 0..ret-1 only (main.cpp:98, 112): every glyph    *)
(* drawn lies above the row returned.                                      *)
FlushCovers ==
    pc = "done" => \A i \in 1..Len(cells) : cells[i].y + arg.size <= ret

(* The row returned for a clipped text is below LCD_H, and fb_display      *)
(* reads the buffer to it, 3 bytes a pixel where the buffer has 4, unless  *)
(* the caller limits it, which my_lvcsrcb does and my_digitcb does not.    *)
(* For a call that starts on the screen the rows read are in the buffer    *)
(* even so.                                                                *)
StartsOnScreen == arg.y + arg.size <= LcdH /\ 3 * arg.size <= LcdH
FlushInBuffer ==
    pc = "done" /\ StartsOnScreen => 3 * (LcdW * ret) <= 4 * (LcdW * LcdH)

(* The rows flushed are all that was drawn on, and all in the buffer.      *)
FlushSafe == FlushCovers /\ FlushInBuffer

(* The text drawn is a prefix of the text: once a glyph has been dropped   *)
(* below the screen, no later glyph of the call is drawn, not even a       *)
(* narrower one for which the last line had room.                          *)
ClipIsFinal == [][clipped => cells' = cells]_vars

(* In a GB2312 text drawn with its font loaded, the pointer only ever      *)
(* stands on the start of a character or on the terminator, so the loop    *)
(* ends at the terminator.                                                 *)
OnCharacter == p \in text.starts
InString == arg.font /\ WellFormed(text) => OnCharacter
=============================================================================
