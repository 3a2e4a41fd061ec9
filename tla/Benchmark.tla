----------------------------- MODULE Benchmark ------------------------------
(***************************************************************************)
(* The test bench (components/utils/src/benchmark.c): the ASR library is   *)
(* run over every wav file found below a directory, and what it recognises *)
(* goes into two result files, a line for each wav file.                   *)
(*                                                                         *)
(* A result is the sequence of the frames it comes from: the text of a     *)
(* frame stands for itself, a silent frame has none.  The frames of the    *)
(* file being run, the library's memory and its callbacks are external:    *)
(* the library hears frames and keeps what it heard until ms_asr_clear or  *)
(* a new source; the raw decoder delivers each frame with speech, the      *)
(* LVCSR decoder the words of all that has been heard.  SIGINT may come at *)
(* any moment.                                                             *)
(***************************************************************************)
EXTENDS Integers, Sequences

CONSTANTS
    Lists,      \* what trave_dir may find: sequences of file names
    MaxFrames   \* bound: frames of a wav file

Decoder == {"RAW", "DIG", "KWS", "LVCSR"}
Name == UNION {{list[k] : k \in 1..Len(list)} : list \in Lists}

(* trave_dir finds a file by one path only.                                *)
ASSUME ListAssumption ==
    /\ MaxFrames \in Nat
    /\ \A list \in Lists :
          /\ list \in Seq(Name)
          /\ \A j, k \in 1..Len(list) : list[j] = list[k] => j = k

VARIABLES
    pc,
    exit_flag,
    file_name,
    testpny, testhan,
    i, total_frames,
    pny_result, han_result, \* the texts of the file being run
    fw_pny, fw_han,         \* "NULL", "open", "closed"
    pny_txt, han_txt,       \* the lines of the result files: [file, text]
    lib, decoders, call,    \* the ASR library, see AsrProtocol
    frames,                 \* frames of the current file that have been run
    memory,                 \* what the library has heard since it was cleared
    heard,                  \* by file, the frames with speech heard of it
    ended                   \* the files run to their end

argVars == <<file_name, testpny, testhan>>
resultVars == <<pny_result, han_result>>
fileVars == <<fw_pny, fw_han, pny_txt, han_txt>>
libVars == <<lib, decoders, call>>
audioVars == <<frames, memory, heard, ended>>
vars == <<pc, exit_flag, argVars, i, total_frames, resultVars, fileVars, libVars, audioVars>>

(* "crashed": fclose has been given NULL.                                  *)
Ended == {"done", "crashed"}

Init ==
    /\ pc = "trave_dir"
    /\ exit_flag \in BOOLEAN
    /\ file_name = <<>>
    /\ testpny \in BOOLEAN /\ testhan \in BOOLEAN
    /\ i = 1 /\ total_frames = 0
    /\ pny_result = <<>> /\ han_result = <<>>
    /\ fw_pny = "NULL" /\ fw_han = "NULL"
    /\ pny_txt = <<>> /\ han_txt = <<>>
    /\ lib = "off" /\ decoders = {} /\ call = "none"
    /\ frames = 0 /\ memory = <<>>
    /\ heard = [f \in Name |-> <<>>] /\ ended = {}

(* my_handler of main.                                                     *)
Signal ==
    /\ pc \notin Ended
    /\ exit_flag' = TRUE
    /\ UNCHANGED <<pc, argVars, i, total_frames, resultVars, fileVars, libVars, audioVars>>

-----------------------------------------------------------------------------
(* Setting up.  A directory that cannot be opened, nothing to test and a   *)
(* failing library each end the bench.                                     *)
TraveDir ==
    /\ pc = "trave_dir"
    /\ \/ pc' = "done" /\ UNCHANGED file_name
       \/ file_name' \in Lists /\ pc' = IF testpny \/ testhan THEN "init" ELSE "done"
    /\ UNCHANGED <<exit_flag, testpny, testhan, i, total_frames, resultVars, fileVars,
                   libVars, audioVars>>

MsAsrInit ==
    /\ pc = "init"
    /\ \/ lib' = "on" /\ call' = "init" /\ pc' = "testpny"
       \/ lib' = "off" /\ call' = "init_failed" /\ pc' = "done"
    /\ UNCHANGED <<exit_flag, argVars, i, total_frames, resultVars, fileVars, decoders,
                   audioVars>>

(* The decoder is registered and its result file opened, if it is tested.  *)
Register(tested, d, fw, label) ==
    \/ tested /\ call' = "cfg" /\ decoders' = decoders \cup {d} /\ pc' = label
       /\ fw' \in {"open", "NULL"}
    \/ tested /\ call' = "cfg_failed" /\ pc' = "done" /\ UNCHANGED <<decoders, fw>>
    \/ ~tested /\ pc' = label /\ UNCHANGED <<call, decoders, fw>>

TestPny ==
    /\ pc = "testpny" /\ Register(testpny, "RAW", fw_pny, "testhan")
    /\ UNCHANGED <<exit_flag, argVars, i, total_frames, resultVars, fw_han, pny_txt, han_txt,
                   lib, audioVars>>

TestHan ==
    /\ pc = "testhan" /\ Register(testhan, "LVCSR", fw_han, "for")
    /\ UNCHANGED <<exit_flag, argVars, i, total_frames, resultVars, fw_pny, pny_txt, han_txt,
                   lib, audioVars>>

-----------------------------------------------------------------------------
(* The loop over the files.                                                *)
MoreFiles == i <= Len(file_name)

SetDevFails_Ignored ==
    /\ pc = "for" /\ MoreFiles
    /\ call' = "set_dev_failed" /\ pc' = "while"
    /\ frames' = 0 /\ memory' = <<>>
    /\ UNCHANGED <<exit_flag, argVars, i, total_frames, resultVars, fileVars, lib, decoders,
                   heard, ended>>
SetDevFails ==
    /\ pc = "for" /\ MoreFiles
    /\ call' = "set_dev_failed" /\ pc' = "fclose"
    /\ UNCHANGED <<exit_flag, argVars, i, total_frames, resultVars, fileVars, lib, decoders,
                   audioVars>>

(* The source is the next file, from its first frame, and the library      *)
(* forgets what it heard of the last one; the texts are reset.             *)
SetDev_TextsKept ==
    /\ pc = "for" /\ MoreFiles
    /\ call' = "set_dev" /\ pc' = "while"
    /\ frames' = 0 /\ memory' = <<>>
    /\ UNCHANGED <<exit_flag, argVars, i, total_frames, resultVars, fileVars, lib, decoders,
                   heard, ended>>
SetDev ==
    /\ pc = "for" /\ MoreFiles
    /\ call' = "set_dev" /\ pc' = "while"
    /\ frames' = 0 /\ memory' = <<>>
    /\ pny_result' = <<>> /\ han_result' = <<>>
    /\ UNCHANGED <<exit_flag, argVars, i, total_frames, fileVars, lib, decoders, heard,
                   ended>>

(* ms_asr_run(1) with a frame to run; the callbacks of the decoders        *)
(* registered run inside it.                                               *)
Source == file_name[i]
Frame == <<Source, frames + 1>>
test_rawcb ==
    pny_result' = IF "RAW" \in decoders THEN Append(pny_result, Frame) ELSE pny_result
test_lvcsrcb == han_result' = IF "LVCSR" \in decoders THEN memory' ELSE han_result
RunFrame ==
    /\ pc = "while" /\ ~exit_flag /\ frames < MaxFrames
    /\ total_frames' = total_frames + 1
    /\ call' = "run"
    /\ frames' = frames + 1
    /\ \/ UNCHANGED <<memory, heard, resultVars>>
       \/ /\ memory' = Append(memory, Frame)
          /\ heard' = [heard EXCEPT ![Source] = Append(@, Frame)]
          /\ test_rawcb /\ test_lvcsrcb
    /\ UNCHANGED <<pc, exit_flag, argVars, i, fileVars, lib, decoders, ended>>

(* ms_asr_run(1) at the end of the file: less than 1, which ends the loop. *)
RunOut_Continue ==
    /\ pc = "while" /\ ~exit_flag
    /\ call' = "run_out"
    /\ ended' = ended \cup {Source}
    /\ UNCHANGED <<pc, exit_flag, argVars, i, total_frames, resultVars, fileVars, lib,
                   decoders, frames, memory, heard>>
RunOut ==
    /\ pc = "while" /\ ~exit_flag
    /\ total_frames' = total_frames + 1
    /\ call' = "run_out" /\ pc' = "write"
    /\ ended' = ended \cup {Source}
    /\ UNCHANGED <<exit_flag, argVars, i, resultVars, fileVars, lib, decoders, frames,
                   memory, heard>>

Interrupted ==
    /\ pc = "while" /\ exit_flag
    /\ pc' = "write"
    /\ UNCHANGED <<exit_flag, argVars, i, total_frames, resultVars, fileVars, libVars,
                   audioVars>>

(* if(exit_flag) break, before the lines are written.                      *)
Break ==
    /\ pc = "write" /\ exit_flag
    /\ pc' = "fclose"
    /\ UNCHANGED <<exit_flag, argVars, i, total_frames, resultVars, fileVars, libVars,
                   audioVars>>

ResultLine(text) == [file |-> Source, text |-> text]
Write_NoBreak ==
    /\ pc = "write"
    /\ pny_txt' = IF fw_pny = "open" THEN Append(pny_txt, ResultLine(pny_result)) ELSE pny_txt
    /\ han_txt' = IF fw_han = "open" THEN Append(han_txt, ResultLine(han_result)) ELSE han_txt
    /\ pc' = "clear"
    /\ UNCHANGED <<exit_flag, argVars, i, total_frames, resultVars, fw_pny, fw_han, libVars,
                   audioVars>>
Write_NotEmpty ==
    /\ pc = "write" /\ ~exit_flag
    /\ pny_txt' = IF fw_pny = "open" /\ pny_result # <<>>
                  THEN Append(pny_txt, ResultLine(pny_result)) ELSE pny_txt
    /\ han_txt' = IF fw_han = "open" THEN Append(han_txt, ResultLine(han_result)) ELSE han_txt
    /\ pc' = "clear"
    /\ UNCHANGED <<exit_flag, argVars, i, total_frames, resultVars, fw_pny, fw_han, libVars,
                   audioVars>>
Write ==
    /\ pc = "write" /\ ~exit_flag
    /\ pny_txt' = IF fw_pny = "open" THEN Append(pny_txt, ResultLine(pny_result)) ELSE pny_txt
    /\ han_txt' = IF fw_han = "open" THEN Append(han_txt, ResultLine(han_result)) ELSE han_txt
    /\ pc' = "clear"
    /\ UNCHANGED <<exit_flag, argVars, i, total_frames, resultVars, fw_pny, fw_han, libVars,
                   audioVars>>

(* ms_asr_clear, and the next file.                                        *)
Clear_Twice ==
    /\ pc = "clear" /\ pc' = "for" /\ i' = i + 2
    /\ call' = "clear_out"
    /\ memory' = <<>>
    /\ UNCHANGED <<exit_flag, argVars, total_frames, resultVars, fileVars, lib, decoders,
                   frames, heard, ended>>
Clear ==
    /\ pc = "clear" /\ pc' = "for" /\ i' = i + 1
    /\ call' = "clear_out"
    /\ memory' = <<>>
    /\ UNCHANGED <<exit_flag, argVars, total_frames, resultVars, fileVars, lib, decoders,
                   frames, heard, ended>>

AllRun ==
    /\ pc = "for" /\ ~MoreFiles
    /\ pc' = "fclose"
    /\ UNCHANGED <<exit_flag, argVars, i, total_frames, resultVars, fileVars, libVars,
                   audioVars>>

(* Both files are closed, if they were to be opened, then the totals are   *)
(* printed.  The library is not released.                                  *)
Fclose ==
    /\ pc = "fclose"
    /\ IF (testpny /\ fw_pny = "NULL") \/ (testhan /\ fw_han = "NULL")
       THEN pc' = "crashed" /\ UNCHANGED <<fw_pny, fw_han>>
       ELSE /\ pc' = "done"
            /\ fw_pny' = IF testpny THEN "closed" ELSE fw_pny
            /\ fw_han' = IF testhan THEN "closed" ELSE fw_han
    /\ UNCHANGED <<exit_flag, argVars, i, total_frames, resultVars, pny_txt, han_txt,
                   libVars, audioVars>>

benchmark ==
    \/ TraveDir \/ MsAsrInit \/ TestPny \/ TestHan
    \/ SetDevFails \/ SetDev \/ RunFrame \/ RunOut \/ Interrupted \/ Break \/ Write \/ Clear
    \/ AllRun \/ Fclose

Next == benchmark \/ Signal

Spec == Init /\ [][Next]_vars

(* The one thread of the program runs until benchmark returns.             *)
FairSpec == Spec /\ WF_vars(benchmark)

-----------------------------------------------------------------------------
Labels == {"trave_dir", "init", "testpny", "testhan", "for", "while", "write", "clear",
           "fclose"} \cup Ended

Protocol == INSTANCE AsrProtocol

FrameText == Seq(Name \X (1..MaxFrames))

TypeOK ==
    /\ pc \in Labels
    /\ exit_flag \in BOOLEAN
    /\ file_name \in Lists \cup {<<>>}
    /\ testpny \in BOOLEAN /\ testhan \in BOOLEAN
    /\ i \in 1..(Len(file_name) + 1)
    /\ total_frames \in Nat
    /\ pny_result \in FrameText /\ han_result \in FrameText
    /\ fw_pny \in {"NULL", "open", "closed"} /\ fw_han \in {"NULL", "open", "closed"}
    /\ pny_txt \in Seq([file : Name, text : FrameText])
    /\ han_txt \in Seq([file : Name, text : FrameText])
    /\ lib \in {"off", "on"}
    /\ decoders \subseteq Decoder
    /\ call \in Protocol!Call
    /\ frames \in 0..MaxFrames
    /\ memory \in FrameText
    /\ heard \in [Name -> FrameText]
    /\ ended \subseteq Name

(* The lines of a result file are those of the files tested so far, in     *)
(* order, and each is the whole of what was heard of its file and nothing  *)
(* of another one, whenever SIGINT comes and whatever fails.               *)
WholeLines(txt) ==
    \A k \in 1..Len(txt) :
       /\ k <= Len(file_name)
       /\ txt[k].file = file_name[k]
       /\ txt[k].file \in ended
       /\ txt[k].text = heard[txt[k].file]
LinesOfTheirFiles == WholeLines(pny_txt) /\ WholeLines(han_txt)

(* A bench that was neither interrupted nor failed has a line for each     *)
(* file, also for a file in which nothing was heard.                       *)
AllTested ==
    (pc = "done" /\ ~exit_flag /\ call \notin {"set_dev_failed", "cfg_failed"}) =>
       /\ fw_pny = "closed" => Len(pny_txt) = Len(file_name)
       /\ fw_han = "closed" => Len(han_txt) = Len(file_name)

(* The result files hold what was heard, of all files that were tested.    *)
ResultsRight == TypeOK /\ LinesOfTheirFiles /\ AllTested

(* Whatever fails and whenever SIGINT comes, the bench calls the library   *)
(* in the order AsrProtocol describes: nothing before it is open, and no   *)
(* frame is run of a file that could not be set or has been run out.       *)
KeepsProtocol == Protocol!Spec

(* The bench ends, with or without SIGINT.                                 *)
BenchEnds == <>(pc \in Ended)
=============================================================================
