--------------------------- MODULE MCLmBenchmark ----------------------------
(* LmBenchmark over every text of up to three lines of one to three        *)
(* syllables; chunks of 1 to 4 rows, shorter and longer than a sentence.   *)
EXTENDS LmBenchmark
LOCAL INSTANCE SequencesExt

CONSTANT MaxLines

MCLines == {<<"ma">>, <<"unknown">>, <<"ma", "shi">>, <<"unknown", "shi">>, <<"ma", "shi", "ma">>}

MCTestFiles ==
    [lines : SeqOf(MCLines, MaxLines), newline : {TRUE}]
    \cup [lines : SeqOf(MCLines, MaxLines) \ {<<>>}, newline : {FALSE}]
=============================================================================
