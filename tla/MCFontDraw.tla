----------------------------- MODULE MCFontDraw -----------------------------
(* FontDraw on a screen of 80 x 96 pixels: two and a half full glyphs of   *)
(* size 32 a line, so that lines of mixed widths break at every column.    *)
EXTENDS FontDraw
LOCAL INSTANCE SequencesExt

CONSTANTS MaxChars,      \* characters of a well-formed text
          MaxBytes,      \* bytes of an arbitrary string
          FontLoaded     \* the values "font" may take in a call

Char == {<<"ascii">>, <<"lead", "trail">>}

MCStarts(chars) == {1 + Len(FlattenSeq(SubSeq(chars, 1, k))) : k \in 0..Len(chars)}
WellFormedTexts ==
    {[mem |-> FlattenSeq(chars) \o <<"nul">>, starts |-> MCStarts(chars)] :
        chars \in SeqOf(Char, MaxChars)}

(* Arbitrary bytes: "nul" may also occur inside, memory follows it.        *)
OtherTexts ==
    {[mem |-> bytes \o <<"nul">>, starts |-> {}] : bytes \in SeqOf(ByteClass, MaxBytes)}

MCTexts == WellFormedTexts \cup OtherTexts

(* y: the first line of a title (0), of a result (32), of a keyword's row, *)
(* and one that starts below the screen; size 20 and depth 8 are rejected. *)
MCCalls ==
    [size : {16, 32}, bpp : {24}, y : {0, 32, 64, 80}, font : FontLoaded]
    \cup [size : {20, 32}, bpp : {8}, y : {32}, font : FontLoaded]
=============================================================================
