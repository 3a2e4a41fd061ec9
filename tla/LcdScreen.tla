----------------------------- MODULE LcdScreen ------------------------------
(***************************************************************************)
(* The screen of the demo (projects/maix_asr/main/src/main.cpp): lcd_buf,  *)
(* the shadow buffer every routine draws into, and the framebuffer that    *)
(* fb_display copies its first rows to.                                    *)
(*                                                                         *)
(* Every routine works in bands of 32 rows: band 0 is the title, a result  *)
(* is drawn from band 1 on.  LCD_H = 240 is seven bands and a half; no     *)
(* glyph fits in the last one.  A band's pixels are abstracted to what     *)
(* they show.  The buffer holds 3 bytes a pixel, which is what lcd_init    *)
(* chooses for a 16- or 24-bit framebuffer and for none.                   *)
(***************************************************************************)
EXTENDS Integers

CONSTANT ResultLines    \* the numbers of lines a result text may take

Bands == 0..7
TextBands == 1..6       \* where a glyph of 32 rows fits below the title
Keywords == 1..3        \* my_kw_tbl
Texts == {"DIGIT", "KWS", "LVCSR"}

ASSUME LinesAssumption == ResultLines \subseteq Nat

VARIABLES
    shows,      \* fb_display reaches a framebuffer (it is opened and mapped)
    buf,        \* lcd_buf, by band
    fb          \* the framebuffer, by band

lcdVars == <<shows, buf, fb>>

Blank == [b \in Bands |-> "black"]

LcdInit ==
    /\ shows \in BOOLEAN
    /\ buf = Blank
    /\ fb = [b \in Bands |-> "other"]    \* whatever was on the screen before

-----------------------------------------------------------------------------
(* fb_display copies the first "rows" bands of the new buffer; openFB or   *)
(* mmap may fail, and then it does nothing and nobody looks at its result. *)
Flush(newbuf, rows) ==
    fb' = IF shows THEN [b \in Bands |-> IF b < rows THEN newbuf[b] ELSE fb[b]] ELSE fb

(* The result area is cleared in the buffer and text is drawn in the bands *)
(* of "drawn"; the title band is kept.                                     *)
WithResult_NotCleared(name, drawn) ==
    [b \in Bands |-> IF b \in drawn THEN name ELSE buf[b]]
WithResult(name, drawn) ==
    [b \in Bands |-> IF b = 0 THEN buf[0] ELSE IF b \in drawn THEN name ELSE "black"]

(* lcd_clear: all white, flushed, then all black, flushed.                 *)
LcdClear ==
    /\ buf' = Blank
    /\ Flush(Blank, 8)
    /\ UNCHANGED shows

(* lcd_clear1: the same from row 32 on.  The length of its memset is that  *)
(* of the whole screen; with 3 bytes a pixel it still ends in lcd_buf.     *)
LcdClear1_FiveBands ==
    /\ buf' = WithResult("none", {})
    /\ Flush(buf', 5)
    /\ UNCHANGED shows
LcdClear1_Overrun ==
    /\ buf' = [b \in 0..8 |-> IF b = 0 THEN buf[0] ELSE "black"]
    /\ Flush(buf', 8)
    /\ UNCHANGED shows
LcdClear1 ==
    /\ buf' = WithResult("none", {})
    /\ Flush(buf', 8)
    /\ UNCHANGED shows

(* The end of set_dig, set_kws and set_lvcsr: lcd_clear, the decoder's     *)
(* name as the title, everything flushed.                                  *)
DrawTitle_Unflushed(name) ==
    /\ buf' = [Blank EXCEPT ![0] = name]
    /\ Flush(Blank, 8)
    /\ UNCHANGED shows
DrawTitle(name) ==
    /\ buf' = [Blank EXCEPT ![0] = name]
    /\ Flush(buf', 8)
    /\ UNCHANGED shows

(* The bands font_draw fills for a text of n lines that starts at row 32,  *)
(* and the bands above the row it returns: an empty text still returns the *)
(* end of its first line, a text that is clipped the end of the line below *)
(* the last one drawn, row 256, which is beyond the screen.                *)
DrawnBands(n) == {b \in TextBands : b <= n}
RowsReturned(n) ==
    CASE n = 0 -> 2
      [] n \in TextBands -> n + 1
      [] n > 6 -> 8

(* A line holds 15 half-width glyphs, and digits have no others: 32 of     *)
(* them, as many as my_digitcb has room to copy, are three lines, so the   *)
(* results of these numbers of lines may be, or are, longer.               *)
LongDigits == {n \in ResultLines : n > 2}

(* my_digitcb and my_lvcsrcb flush up to the row returned; the latter      *)
(* limits it to LCD_H, which is in band 7 as well.  A longer digit result  *)
(* is drawn like this if the copy left the program standing (MaixAsr has   *)
(* the case in which it did not).                                          *)
ResultCallback(name) ==
    \E n \in ResultLines :
       /\ buf' = WithResult(name, DrawnBands(n))
       /\ Flush(buf', RowsReturned(n))
       /\ UNCHANGED shows

(* my_kwscb draws the best keyword, if it passes the gate, in the band of  *)
(* its index, and flushes 32*5 rows.                                       *)
KwsRows_Three == 3
KwsRows == 5
KwsCallback ==
    \E drawn \in {{}} \cup {{k} : k \in Keywords} :
       /\ buf' = WithResult("KWS", drawn)
       /\ Flush(buf', KwsRows)
       /\ UNCHANGED shows

Callback(d) ==
    \/ d = "KWS" /\ KwsCallback
    \/ d \in {"DIGIT", "LVCSR"} /\ ResultCallback(d)

LcdNext ==
    \/ LcdClear
    \/ LcdClear1
    \/ \E d \in Texts : DrawTitle(d)
    \/ \E d \in Texts : Callback(d)

LcdSpec == LcdInit /\ [][LcdNext]_lcdVars

-----------------------------------------------------------------------------
Shown == {"other", "black"} \cup Texts

LcdTypeOK ==
    /\ shows \in BOOLEAN
    /\ buf \in [Bands -> Shown \ {"other"}]
    /\ fb \in [Bands -> Shown]

(* Each routine flushes its own number of rows, the callbacks only part of *)
(* the screen.  Still, once the framebuffer has been written at all, every *)
(* text that is in the buffer is on the screen: no result is drawn below   *)
(* the rows flushed, and none is covered by an older one.                  *)
EveryTextShown ==
    shows => \A b \in Bands : buf[b] \in Texts => fb[b] = buf[b]

(* Whatever partial flushes follow, the title and the first line of the    *)
(* result area never lag behind the buffer.                                *)
TopIsFresh ==
    shows /\ fb[0] # "other" => fb[0] = buf[0] /\ fb[1] = buf[1]

(* A result callback leaves no text of another decoder in the buffer: what *)
(* the next full flush shows is one result.                                *)
OneResult ==
    \A b, c \in Bands \ {0} : buf[b] \in Texts /\ buf[c] \in Texts => buf[b] = buf[c]

(* What the partial flushes of titles, clears and callbacks keep up.       *)
ScreenInv == LcdTypeOK /\ EveryTextShown /\ TopIsFresh /\ OneResult
=============================================================================
