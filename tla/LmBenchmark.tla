---------------------------- MODULE LmBenchmark -----------------------------
(***************************************************************************)
(* The test bench of the language model (components/utils/src/             *)
(* lm_benchmark.c): each line of a text is a sentence in syllables, which  *)
(* are written as rows of probabilities, padded to whole chunks of what a  *)
(* frame of the acoustic model would give, and decoded chunk by chunk; the *)
(* words go into a result file, a line for each sentence.                  *)
(*                                                                         *)
(* A row stands for the syllable it was made of, <<line, place>>.  The     *)
(* decoder is external: it remembers rows until ms_asr_clear and calls     *)
(* back with the words of all of them; whether it calls back for a chunk   *)
(* of silence is open.  The text is not terminated in memory: one more     *)
(* byte is read, and what it finds there is open too.                      *)
(***************************************************************************)
EXTENDS Integers, Sequences
LOCAL INSTANCE SequencesExt

CONSTANTS
    Known,      \* syllables of am_vocab
    TestFiles,  \* the files: [lines, newline], see FileAssumption
    CoreLens,   \* model_core_len: model_in_len / 8 less what is stripped
    MaxRows     \* bound: the rows of pnyp_list

Decoder == {"RAW", "DIG", "KWS", "LVCSR"}
Syllable == Known \cup {"unknown"}

(* An empty line is one syllable, which is not known.  "newline" tells     *)
(* whether the last line is terminated.  The longest line fits, and so     *)
(* does one of rubbish.                                                    *)
ASSUME FileAssumption ==
    /\ CoreLens \subseteq Nat \ {0} /\ MaxRows \in Nat
    /\ \A c \in CoreLens : 2 + c <= MaxRows
    /\ \A f \in TestFiles :
          /\ f.lines \in Seq(Seq(Syllable) \ {<<>>})
          /\ f.newline \in BOOLEAN
          /\ f.lines = <<>> => f.newline
          /\ \A k \in 1..Len(f.lines), c \in CoreLens : 2 * Len(f.lines[k]) + c <= MaxRows

VARIABLES
    pc, exit_flag,
    core,               \* model_core_len
    text,               \* pny_buf, as lines
    cur,                \* p_cur: the line being decoded
    pnyp_list, cnt, row,
    han_result,
    fw_han, han_txt,    \* the result file and its lines: [line, text]
    lib, decoders, call,
    memory              \* the rows the decoder has had since it was cleared

rowVars == <<pnyp_list, cnt, row>>
outVars == <<fw_han, han_txt>>
libVars == <<lib, decoders, call>>
vars == <<pc, exit_flag, core, text, cur, rowVars, han_result, outVars, libVars, memory>>

Ended == {"done", "crashed"}
Blank == <<0, 0>>       \* index 1249 of am_vocab
Unset == <<0, 1>>       \* what a static array holds

(* The words found in rows, each at the row it was found in: the text that *)
(* is written is these words in the order of the rows.                     *)
Words(rows) == [r \in 1..MaxRows |-> IF r \in DOMAIN rows /\ rows[r][1] # 0 THEN rows[r] ELSE Blank]
Silence == [r \in 1..MaxRows |-> Blank]

Init ==
    /\ pc = "open" /\ exit_flag \in BOOLEAN
    /\ core \in CoreLens
    /\ text = <<>> /\ cur = 1
    /\ pnyp_list = [r \in 1..MaxRows |-> Unset] /\ cnt = 0 /\ row = 0
    /\ han_result = Silence
    /\ fw_han = "NULL" /\ han_txt = <<>>
    /\ lib = "off" /\ decoders = {} /\ call = "none"
    /\ memory = <<>>

Signal ==
    /\ pc \notin Ended
    /\ exit_flag' = TRUE
    /\ UNCHANGED <<pc, core, text, cur, rowVars, han_result, outVars, libVars, memory>>

(* What is read as the text: the lines of the file, and when no zero byte  *)
(* follows it, a line of rubbish or a last word that rubbish runs into.    *)
Rubbish(f) ==
    IF f.newline THEN Append(f.lines, <<"unknown">>)
    ELSE LET l == Len(f.lines) IN [f.lines EXCEPT ![l][Len(f.lines[l])] = "unknown"]

(* open_test_file: the file may not open, not fit or not be read whole.    *)
OpenTestFile ==
    /\ pc = "open"
    /\ \/ pc' = "done" /\ UNCHANGED text
       \/ pc' = "init" /\ \E f \in TestFiles : text' \in {f.lines, Rubbish(f)}
    /\ UNCHANGED <<exit_flag, core, cur, rowVars, han_result, outVars, libVars, memory>>

MsAsrInit ==
    /\ pc = "init"
    /\ \/ lib' = "on" /\ call' = "init" /\ pc' = "cfg"
       \/ lib' = "off" /\ call' = "init_failed" /\ pc' = "done"
    /\ UNCHANGED <<exit_flag, core, text, cur, rowVars, han_result, outVars, decoders, memory>>

CfgLvcsr_Ignored ==
    /\ pc = "cfg" /\ pc' = "while"
    /\ \/ call' = "cfg" /\ decoders' = {"LVCSR"}
       \/ call' = "cfg_failed" /\ UNCHANGED decoders
    /\ fw_han' \in {"open", "NULL"}
    /\ UNCHANGED <<exit_flag, core, text, cur, rowVars, han_result, han_txt, lib, memory>>
CfgLvcsr ==
    /\ pc = "cfg"
    /\ \/ call' = "cfg" /\ decoders' = {"LVCSR"} /\ pc' = "while" /\ fw_han' \in {"open", "NULL"}
       \/ call' = "cfg_failed" /\ pc' = "done" /\ UNCHANGED <<decoders, fw_han>>
    /\ UNCHANGED <<exit_flag, core, text, cur, rowVars, han_result, han_txt, lib, memory>>

-----------------------------------------------------------------------------
(* The rows of a sentence: one for each syllable, a blank for one that is  *)
(* not known, and a blank after each.                                      *)
RowsOf(n) ==
    [r \in 1..(2 * Len(text[n])) |->
        IF r % 2 = 1 /\ text[n][(r + 1) \div 2] \in Known THEN <<n, (r + 1) \div 2>> ELSE Blank]

(* The blank rows added: at least one, and up to the next whole chunk.     *)
RestCnt_None(n) == 0
RestCnt(n) == core - (n % core)

(* get_pny cuts the line off, gen_mat_from_pny fills pnyp_list from its    *)
(* start, and the rest of the last chunk is filled with blanks.            *)
GenMat ==
    /\ pc = "while" /\ cur <= Len(text)
    /\ LET rows == RowsOf(cur)
           all == rows \o [r \in 1..RestCnt(Len(rows)) |-> Blank]
       IN /\ cnt' = Len(all)
          /\ pnyp_list' = [r \in 1..MaxRows |-> IF r <= cnt' THEN all[r] ELSE pnyp_list[r]]
    /\ row' = 0
    /\ pc' = "wfst"
    /\ UNCHANGED <<exit_flag, core, text, cur, han_result, outVars, libVars, memory>>

(* ms_asr_wfst_run takes a chunk of core rows.                             *)
MoreRows_OneShort == row + core < cnt
MoreRows == row < cnt
test_lvcsrcb == han_result' = Words(memory')
WfstRun ==
    /\ pc = "wfst" /\ MoreRows
    /\ call' = "wfst_run"
    /\ LET chunk == SubSeq(pnyp_list, row + 1, row + core) IN
       /\ memory' = memory \o chunk
       /\ \/ test_lvcsrcb
          \/ Words(chunk) = Silence /\ UNCHANGED han_result
    /\ row' = row + core
    /\ UNCHANGED <<pc, exit_flag, core, text, cur, pnyp_list, cnt, outVars, lib, decoders>>

Break ==
    /\ pc = "wfst" /\ ~MoreRows /\ exit_flag
    /\ pc' = "fclose"
    /\ UNCHANGED <<exit_flag, core, text, cur, rowVars, han_result, outVars, libVars, memory>>

(* fprintf to the result file; there is no test that it could be opened.   *)
Write ==
    /\ pc = "wfst" /\ ~MoreRows /\ ~exit_flag
    /\ IF fw_han = "open"
       THEN han_txt' = Append(han_txt, [line |-> cur, text |-> han_result]) /\ pc' = "clear"
       ELSE pc' = "crashed" /\ UNCHANGED han_txt
    /\ UNCHANGED <<exit_flag, core, text, cur, rowVars, han_result, fw_han, libVars, memory>>

Clear_Dropped ==
    /\ pc = "clear" /\ pc' = "while"
    /\ cur' = cur + 1
    /\ UNCHANGED <<exit_flag, core, text, rowVars, han_result, outVars, libVars, memory>>
Clear_BlankEnds ==
    /\ pc = "clear" /\ call' = "clear" /\ memory' = <<>>
    /\ IF cur < Len(text) /\ text[cur + 1] = <<"unknown">>
       THEN pc' = "fclose" /\ UNCHANGED cur
       ELSE pc' = "while" /\ cur' = cur + 1
    /\ UNCHANGED <<exit_flag, core, text, rowVars, han_result, outVars, lib, decoders>>
Clear ==
    /\ pc = "clear" /\ pc' = "while"
    /\ call' = "clear" /\ memory' = <<>>
    /\ cur' = cur + 1
    /\ UNCHANGED <<exit_flag, core, text, rowVars, han_result, outVars, lib, decoders>>

AllDecoded ==
    /\ pc = "while" /\ cur > Len(text)
    /\ pc' = "fclose"
    /\ UNCHANGED <<exit_flag, core, text, cur, rowVars, han_result, outVars, libVars, memory>>

Fclose ==
    /\ pc = "fclose"
    /\ IF fw_han = "open" THEN pc' = "done" /\ fw_han' = "closed"
                          ELSE pc' = "crashed" /\ UNCHANGED fw_han
    /\ UNCHANGED <<exit_flag, core, text, cur, rowVars, han_result, han_txt, libVars, memory>>

lm_benchmark ==
    \/ OpenTestFile \/ MsAsrInit \/ CfgLvcsr \/ GenMat \/ WfstRun \/ Break \/ Write \/ Clear
    \/ AllDecoded \/ Fclose

Next == lm_benchmark \/ Signal

Spec == Init /\ [][Next]_vars

-----------------------------------------------------------------------------
Protocol == INSTANCE AsrProtocol

Text == [1..MaxRows -> Nat \X Nat]
TypeOK ==
    /\ pc \in {"open", "init", "cfg", "while", "wfst", "clear", "fclose"} \cup Ended
    /\ exit_flag \in BOOLEAN
    /\ core \in CoreLens
    /\ text \in Seq(Seq(Syllable) \ {<<>>})
    /\ cur \in 1..(Len(text) + 1)
    /\ pnyp_list \in Seq(Nat \X Nat) /\ Len(pnyp_list) = MaxRows
    /\ cnt \in 0..MaxRows /\ row \in 0..cnt
    /\ fw_han \in {"NULL", "open", "closed"}
    /\ han_txt \in Seq([line : Nat, text : Text])
    /\ lib \in {"off", "on"} /\ decoders \subseteq Decoder /\ call \in Protocol!Call
    /\ memory \in Seq(Nat \X Nat) /\ Len(memory) <= MaxRows /\ han_result \in Text

(* The words of a sentence, said of the text: a row and a blank for each   *)
(* syllable, so that its s-th one is found in row 2 * s - 1.               *)
Sentence(n) ==
    LET Heard(r) == /\ r % 2 = 1 /\ (r + 1) \div 2 <= Len(text[n])
                    /\ text[n][(r + 1) \div 2] \in Known
    IN [r \in 1..MaxRows |-> IF Heard(r) THEN <<n, (r + 1) \div 2>> ELSE Blank]

(* A sentence with a syllable the model knows has a line with its words,   *)
(* all of them and no others, in the order of the text: the chunks leave   *)
(* nothing out, whatever the length of the line is to that of a chunk.     *)
SentencesDecoded ==
    \A k \in 1..Len(han_txt) :
       /\ han_txt[k].line = k
       /\ Sentence(k) # Silence => han_txt[k].text = Sentence(k)

(* The decoder is never given rows that an earlier, longer sentence left   *)
(* in pnyp_list, and never has two sentences at once.                      *)
OwnRowsOnly == \A r \in 1..Len(memory) : memory[r] = Blank \/ memory[r][1] = cur

(* A bench that is not interrupted has a line for each line of the text.   *)
AllLinesTested == pc = "done" /\ fw_han = "closed" /\ ~exit_flag => Len(han_txt) = Len(text)

(* The result file holds the words of the sentences tested, of all of them *)
(* in the end.                                                             *)
ResultsRight == TypeOK /\ SentencesDecoded /\ AllLinesTested

(* The decoder runs only when it has been registered.                      *)
KeepsProtocol == Protocol!Spec
=============================================================================
