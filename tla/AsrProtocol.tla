---------------------------- MODULE AsrProtocol -----------------------------
(***************************************************************************)
(* The order of calls that the programs here rely on in the ASR library.   *)
(* The library itself is a binary and its header gives prototypes, not     *)
(* rules: the contract below is put together from what the calls do        *)
(* (ms_asr.h, usage_zh.md) and from how main.cpp, benchmark.c and          *)
(* lm_benchmark.c use their results, and each program is shown to keep it. *)
(*                                                                         *)
(* A session is opened by ms_asr_init, which may fail, and closed once by  *)
(* ms_asr_deinit; all the other calls belong between the two.              *)
(***************************************************************************)
CONSTANT Decoder

VARIABLES
    lib,        \* "off", "on", "released"
    decoders,   \* the decoders registered
    call        \* the last call

protocolVars == <<lib, decoders, call>>

Call == {"none", "init", "init_failed", "cfg", "cfg_failed", "similar", "set_dev",
         "set_dev_failed", "run", "run_out", "wfst_run", "clear", "clear_out", "deinit"}

Init ==
    /\ lib = "off"
    /\ decoders = {}
    /\ call = "none"

AsrInit ==
    /\ lib = "off" /\ call = "none"
    /\ \/ lib' = "on" /\ call' = "init"
       \/ lib' = "off" /\ call' = "init_failed"
    /\ UNCHANGED decoders

(* The source could not be set, or it has run out: a call that has nothing *)
(* to do with the source does not change that.                             *)
NoSource == {"run_out", "clear_out", "set_dev_failed"}
After(c) == IF call \in NoSource THEN call ELSE c

(* Any number of decoders may be registered, or none, at any time.         *)
DecoderCfg ==
    /\ lib = "on"
    /\ \/ call' = After("cfg") /\ \E d \in Decoder : decoders' = decoders \cup {d}
       \/ call' = After("cfg_failed") /\ UNCHANGED decoders
    /\ UNCHANGED lib

(* Similar syllables replace those the keyword decoder has made for itself *)
(* when it was registered: it has to be there.                             *)
KwsRegSimilar ==
    /\ lib = "on" /\ "KWS" \in decoders
    /\ call' = After("similar")
    /\ UNCHANGED <<lib, decoders>>

(* A new source, at any time; what has been run of the old one is cleared  *)
(* by the call itself.                                                     *)
SetDev ==
    /\ lib = "on"
    /\ call' \in {"set_dev", "set_dev_failed"}
    /\ UNCHANGED <<lib, decoders>>

(* A run reads from the source.  Without one there is nothing to run, and  *)
(* main and benchmark both stop running one that has run out.              *)
Run ==
    /\ lib = "on" /\ call \notin NoSource
    /\ call' \in {"run", "run_out"}
    /\ UNCHANGED <<lib, decoders>>

(* Syllables given by the caller instead of heard: the LVCSR decoder runs  *)
(* on them alone, and the source plays no part.                            *)
WfstRun ==
    /\ lib = "on" /\ "LVCSR" \in decoders
    /\ call' = After("wfst_run")
    /\ UNCHANGED <<lib, decoders>>

(* The internal buffers are cleared, at any time; a source that has run    *)
(* out stays so.                                                           *)
Clear ==
    /\ lib = "on"
    /\ call' = IF call \in NoSource THEN "clear_out" ELSE "clear"
    /\ UNCHANGED <<lib, decoders>>

Deinit ==
    /\ lib = "on"
    /\ lib' = "released"
    /\ decoders' = {}
    /\ call' = "deinit"

Next == AsrInit \/ DecoderCfg \/ KwsRegSimilar \/ SetDev \/ Run \/ WfstRun \/ Clear \/ Deinit

Spec == Init /\ [][Next]_protocolVars
=============================================================================
