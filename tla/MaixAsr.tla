------------------------------ MODULE MaixAsr -------------------------------
(***************************************************************************)
(* The demo program (projects/maix_asr/main/src/main.cpp): main, from the  *)
(* signal handler it installs to its exit status, with the key device, the *)
(* fonts, the ASR library and the screen (LcdScreen) it drives.            *)
(*                                                                         *)
(* main is one thread, and "pc" is its next call.  Beside it run the user, *)
(* who presses keys and sends SIGINT at any moment.  A decoder callback    *)
(* runs inside ms_asr_run; "due" holds the decoders still to be called in  *)
(* the frame being run.                                                    *)
(***************************************************************************)
EXTENDS LcdScreen, Sequences

CONSTANTS
    Options,        \* the configuration files: [task, do_raw, do_dig, do_kws, do_lvcsr]
    EventKinds,     \* the input events: "press" is EV_KEY with value 1
    MaxEvents,      \* bound: events the key device produces in a run
    FontOutcomes    \* what font_reg may find: "none", "mapped", "failed"

Decoder == {"RAW"} \cup Texts
FontSizes == {16, 24, 32}

ASSUME OptionsAssumption ==
    /\ \A o \in Options :
          /\ o.task \in {"asr", "testpath", "testlm"}
          /\ o.do_raw \in BOOLEAN /\ o.do_dig \in BOOLEAN
          /\ o.do_kws \in BOOLEAN /\ o.do_lvcsr \in BOOLEAN
    /\ MaxEvents \in Nat
    /\ FontOutcomes \subseteq {"none", "mapped", "failed"}

VARIABLES
    pc, res,
    exit_flag,
    opts,
    keys_fd,        \* "unset", "open", "error", "closed"
    queue, sent,    \* events waiting in the key device; events produced so far
    font_buf,       \* by size: "none" is NULL, "failed" is MAP_FAILED
    lib, decoders, call,    \* the ASR library, see AsrProtocol
    due

hostVars == <<opts, keys_fd, font_buf>>
keyVars == <<queue, sent>>
libVars == <<lib, decoders, call>>
vars == <<pc, res, exit_flag, opts, keys_fd, queue, sent, font_buf, lib, decoders, call,
          due, lcdVars>>

(* "exited": main has returned res.  "died": fb_display has called exit(1). *)
(* "crashed": a font whose mmap failed has been read, digit_res1 has been   *)
(* written past its end, or a benchmark has crashed.                        *)
Ended == {"exited", "died", "crashed"}

Init ==
    /\ pc = "key_init"
    /\ res = 0
    /\ exit_flag = FALSE
    /\ opts \in Options
    /\ keys_fd = "unset"
    /\ queue = <<>> /\ sent = 0
    /\ font_buf = [s \in FontSizes |-> "none"]
    /\ lib = "off" /\ decoders = {} /\ call = "none"
    /\ due = {}
    /\ LcdInit

-----------------------------------------------------------------------------
(* The user: SIGINT runs my_handler, at any moment; key events are queued  *)
(* by the kernel while the device is open.                                 *)
Signal ==
    /\ pc \notin Ended
    /\ exit_flag' = TRUE
    /\ UNCHANGED <<pc, res, hostVars, keyVars, libVars, due, lcdVars>>

KeyEvent ==
    /\ pc \notin Ended /\ keys_fd = "open" /\ sent < MaxEvents
    /\ \E e \in EventKinds : queue' = Append(queue, e)
    /\ sent' = sent + 1
    /\ UNCHANGED <<pc, res, exit_flag, hostVars, libVars, due, lcdVars>>

-----------------------------------------------------------------------------
(* Start-up.                                                               *)
Return(status) == pc' = "exited" /\ res' = status
Goto(label) == pc' = label /\ UNCHANGED res

KeyInit ==
    /\ pc = "key_init" /\ Goto("parse_opts")
    /\ keys_fd' \in {"open", "error"}
    /\ UNCHANGED <<exit_flag, opts, keyVars, font_buf, libVars, due, lcdVars>>

(* No argument, or a configuration that parse_opts rejects: return -1.     *)
ParseOpts ==
    /\ pc = "parse_opts"
    /\ Return(-1) \/ Goto("font_reg")
    /\ UNCHANGED <<exit_flag, hostVars, keyVars, libVars, due, lcdVars>>

(* font_reg for the three sizes.  open or fstat may fail, which leaves the *)
(* slot NULL; when mmap fails its result stays in the slot.  main adds up  *)
(* the three results and never looks at the sum.                           *)
FontReg ==
    /\ pc = "font_reg" /\ Goto("lcd_init")
    /\ font_buf' \in [FontSizes -> FontOutcomes]
    /\ UNCHANGED <<exit_flag, opts, keys_fd, keyVars, libVars, due, lcdVars>>

(* lcd_init and the first lcd_clear: a framebuffer whose mode cannot be    *)
(* read, or that convertRGB2FB does not support, ends the program.         *)
ScreenDies ==
    /\ pc = "lcd_init" /\ shows
    /\ pc' = "died" /\ res' = 1
    /\ UNCHANGED <<exit_flag, hostVars, keyVars, libVars, due, lcdVars>>
ScreenInit ==
    /\ pc = "lcd_init"
    /\ LcdClear
    /\ Goto(IF opts.task = "asr" THEN "asr_init" ELSE "benchmark")
    /\ UNCHANGED <<exit_flag, hostVars, keyVars, libVars, due>>

(* benchmark or lm_benchmark runs to its end, on a session of the library  *)
(* of its own that it does not close (modules Benchmark and LmBenchmark,   *)
(* which also say when they crash); then main returns at once: the fonts   *)
(* stay mapped and the key device open.                                    *)
Benchmarks ==
    /\ pc = "benchmark"
    /\ \/ Return(0)
       \/ pc' = "crashed" /\ UNCHANGED res
    /\ UNCHANGED <<exit_flag, hostVars, keyVars, libVars, due, lcdVars>>

MsAsrInit ==
    /\ pc = "asr_init"
    /\ \/ lib' = "on" /\ call' = "init" /\ pc' = "do_raw" /\ res' = 0
       \/ lib' = "off" /\ call' = "init_failed" /\ Return(-1)
    /\ UNCHANGED <<exit_flag, hostVars, keyVars, decoders, due, lcdVars>>

-----------------------------------------------------------------------------
(* Registering the decoders, in the order RAW, DIG, KWS, LVCSR.            *)
CfgOk(d) == decoders' = decoders \cup {d} /\ call' = "cfg" /\ UNCHANGED lib
CfgFailed == call' = "cfg_failed" /\ UNCHANGED <<lib, decoders>>

Skip(at, wanted, next) ==
    /\ pc = at /\ ~wanted /\ Goto(next)
    /\ UNCHANGED <<exit_flag, hostVars, keyVars, libVars, due, lcdVars>>
SkipDecoder ==
    \/ Skip("do_raw", opts.do_raw, "do_dig")
    \/ Skip("do_dig", opts.do_dig, "do_kws")
    \/ Skip("do_kws", opts.do_kws, "do_lvcsr")
    \/ Skip("do_lvcsr", opts.do_lvcsr, "loop")

(* Only the raw decoder's failure ends the program, through free_decoder.  *)
RawFails_Returns == Return(-1)
RawFails == pc' = "free_decoder" /\ res' = -1
DoRaw ==
    /\ pc = "do_raw" /\ opts.do_raw
    /\ \/ CfgOk("RAW") /\ Goto("do_dig")
       \/ CfgFailed /\ RawFails
    /\ UNCHANGED <<exit_flag, hostVars, keyVars, due, lcdVars>>

(* set_dig and set_lvcsr only report a failure, and draw the title anyway. *)
SetResultDecoder(at, d, next) ==
    /\ pc = at /\ Goto(next)
    /\ CfgOk(d) \/ CfgFailed
    /\ DrawTitle(d)
    /\ UNCHANGED <<exit_flag, hostVars, keyVars, due>>
SetDig == opts.do_dig /\ SetResultDecoder("do_dig", "DIGIT", "do_kws")
SetLvcsr == opts.do_lvcsr /\ SetResultDecoder("do_lvcsr", "LVCSR", "loop")

(* set_kws returns at once on a failure (goto out1); else it registers the *)
(* similar syllables of two keywords and draws the title.                  *)
SetKws_FailureIgnored ==
    /\ pc = "do_kws" /\ opts.do_kws
    /\ CfgOk("KWS") \/ CfgFailed
    /\ Goto("similar")
    /\ UNCHANGED <<exit_flag, hostVars, keyVars, due, lcdVars>>
SetKws ==
    /\ pc = "do_kws" /\ opts.do_kws
    /\ \/ CfgOk("KWS") /\ Goto("similar")
       \/ CfgFailed /\ Goto("do_lvcsr")
    /\ UNCHANGED <<exit_flag, hostVars, keyVars, due, lcdVars>>
RegSimilar ==
    /\ pc = "similar" /\ Goto("do_lvcsr")
    /\ call' = "similar" /\ UNCHANGED <<lib, decoders>>
    /\ DrawTitle("KWS")
    /\ UNCHANGED <<exit_flag, hostVars, keyVars, due>>

-----------------------------------------------------------------------------
(* The main loop: while(!exit_flag) run one frame, read one key event.     *)
LoopTest_Endless ==
    /\ pc = "loop" /\ Goto("run")
    /\ UNCHANGED <<exit_flag, hostVars, keyVars, libVars, due, lcdVars>>
LoopTest ==
    /\ pc = "loop" /\ Goto(IF exit_flag THEN "free_decoder" ELSE "run")
    /\ UNCHANGED <<exit_flag, hostVars, keyVars, libVars, due, lcdVars>>

(* ms_asr_run: a frame is decoded and any of the registered decoders calls *)
(* back, or the source has run out.                                        *)
MsAsrRun_NoBreak ==
    /\ pc = "run"
    /\ \/ call' = "run" /\ due' \in SUBSET decoders /\ Goto("callbacks")
       \/ call' = "run_out" /\ UNCHANGED due /\ Goto("key_read")
    /\ UNCHANGED <<exit_flag, hostVars, keyVars, lib, decoders, lcdVars>>
MsAsrRun ==
    /\ pc = "run"
    /\ \/ call' = "run" /\ due' \in SUBSET decoders /\ Goto("callbacks")
       \/ call' = "run_out" /\ UNCHANGED due /\ Goto("free_decoder")
    /\ UNCHANGED <<exit_flag, hostVars, keyVars, lib, decoders, lcdVars>>

RunCallback ==
    /\ pc = "callbacks"
    /\ \E d \in due :
          /\ due' = due \ {d}
          /\ IF d = "RAW" THEN UNCHANGED lcdVars ELSE Callback(d)
    /\ UNCHANGED <<pc, res, exit_flag, hostVars, keyVars, libVars>>

(* A GBK character of an LVCSR result is looked up in the font of size 32; *)
(* a slot that holds MAP_FAILED is taken for a font.  A digit result is    *)
(* copied whole to the 32 bytes of digit_res1: a longer one is written     *)
(* over the stack, which may go unnoticed or bring the program down, at    *)
(* the latest when my_digitcb returns.                                     *)
FontMissing == "LVCSR" \in due /\ font_buf[32] = "failed" /\ UNCHANGED lcdVars
DigitsOverflow ==
    /\ "DIGIT" \in due /\ LongDigits # {}
    /\ UNCHANGED lcdVars \/ Callback("DIGIT")
CallbackCrashes ==
    /\ pc = "callbacks" /\ pc' = "crashed"
    /\ FontMissing \/ DigitsOverflow
    /\ UNCHANGED <<res, exit_flag, hostVars, keyVars, libVars, due>>

FrameDone ==
    /\ pc = "callbacks" /\ due = {} /\ Goto("key_read")
    /\ UNCHANGED <<exit_flag, hostVars, keyVars, libVars, due, lcdVars>>

(* key_read: at most one event is taken from the queue; only a press       *)
(* counts.  With no event select times out; with no device the descriptor  *)
(* is -1, select watches nothing and times out too.                        *)
AfterKey_Release(e) == IF e = "release" THEN "reset" ELSE "loop"
AfterKey(e) == IF e = "press" THEN "reset" ELSE "loop"
KeyRead ==
    /\ pc = "key_read" /\ queue # <<>>
    /\ queue' = Tail(queue)
    /\ Goto(AfterKey(Head(queue)))
    /\ UNCHANGED <<exit_flag, hostVars, sent, libVars, due, lcdVars>>
KeyTimeout ==
    /\ pc = "key_read" /\ queue = <<>> /\ Goto("loop")
    /\ UNCHANGED <<exit_flag, hostVars, keyVars, libVars, due, lcdVars>>
(* SIGINT while select waits: it returns -1 and no event is read.          *)
KeyInterrupted ==
    /\ pc = "key_read" /\ queue = <<>> /\ Goto("loop")
    /\ exit_flag' = TRUE
    /\ UNCHANGED <<hostVars, keyVars, libVars, due, lcdVars>>

(* A key press: lcd_clear1 and ms_asr_clear.                               *)
Reset ==
    /\ pc = "reset" /\ Goto("loop")
    /\ LcdClear1
    /\ call' = "clear" /\ UNCHANGED <<lib, decoders>>
    /\ UNCHANGED <<exit_flag, hostVars, keyVars, due>>

-----------------------------------------------------------------------------
(* free_decoder: and then the status of the last call checked is returned. *)
MsAsrDeinit ==
    /\ pc = "free_decoder" /\ Goto("font_unreg")
    /\ lib' = "released" /\ decoders' = {} /\ call' = "deinit"
    /\ UNCHANGED <<exit_flag, hostVars, keyVars, due, lcdVars>>

(* font_unreg of the three sizes empties the slots, MAP_FAILED included.   *)
FontUnreg ==
    /\ pc = "font_unreg" /\ Goto("key_deinit")
    /\ font_buf' = [s \in FontSizes |-> "none"]
    /\ UNCHANGED <<exit_flag, opts, keys_fd, keyVars, libVars, due, lcdVars>>

KeyDeinit ==
    /\ pc = "key_deinit" /\ Return(res)
    /\ keys_fd' = IF keys_fd = "open" THEN "closed" ELSE keys_fd
    /\ UNCHANGED <<exit_flag, opts, keyVars, font_buf, libVars, due, lcdVars>>

Stopped == pc \in Ended /\ UNCHANGED vars

Main ==
    \/ KeyInit \/ ParseOpts \/ FontReg \/ ScreenDies \/ ScreenInit \/ Benchmarks \/ MsAsrInit
    \/ SkipDecoder \/ DoRaw \/ SetDig \/ SetKws \/ RegSimilar \/ SetLvcsr
    \/ LoopTest \/ MsAsrRun \/ RunCallback \/ CallbackCrashes \/ FrameDone
    \/ KeyRead \/ KeyTimeout \/ KeyInterrupted \/ Reset
    \/ MsAsrDeinit \/ FontUnreg \/ KeyDeinit

Next == Main \/ Signal \/ KeyEvent \/ Stopped

Spec == Init /\ [][Next]_vars

(* main is one thread that the operating system keeps running, and every   *)
(* call it makes returns: ms_asr_run does one frame at a time.  Nothing is *)
(* assumed of the user.                                                    *)
FairSpec == Spec /\ WF_vars(Main)

-----------------------------------------------------------------------------
Labels == {"key_init", "parse_opts", "font_reg", "lcd_init", "benchmark", "asr_init",
           "do_raw", "do_dig", "do_kws", "similar", "do_lvcsr", "loop", "run", "callbacks", "key_read", "reset",
           "free_decoder", "font_unreg", "key_deinit"} \cup Ended

Protocol == INSTANCE AsrProtocol

TypeOK ==
    /\ pc \in Labels
    /\ res \in -1..1
    /\ exit_flag \in BOOLEAN
    /\ opts \in Options
    /\ keys_fd \in {"unset", "open", "error", "closed"}
    /\ queue \in Seq(EventKinds)
    /\ sent \in 0..MaxEvents
    /\ font_buf \in [FontSizes -> {"none", "mapped", "failed"}]
    /\ lib \in {"off", "on", "released"}
    /\ decoders \subseteq Decoder
    /\ call \in Protocol!Call
    /\ due \subseteq Decoder
    /\ LcdTypeOK

(* Whatever fails on the way and whenever SIGINT comes, main calls the     *)
(* library in the order AsrProtocol describes.                             *)
KeepsProtocol == Protocol!Spec

(* No return of main leaves the session open that main itself has opened;  *)
(* and when the main loop was to be run, a status of 0 is returned only    *)
(* after everything main acquired has been given back.  After a benchmark  *)
(* main returns 0 too, but gives nothing back.                             *)
CleanExit ==
    pc = "exited" =>
       /\ lib # "on"
       /\ res = 0 /\ opts.task = "asr" =>
             /\ lib = "released"
             /\ \A s \in FontSizes : font_buf[s] = "none"
             /\ keys_fd # "open"

(* The title KWS is on the screen only when the keyword decoder is there,  *)
(* even if its configuration failed (the other two show theirs then).      *)
KwsTitleHonest == lib = "on" /\ fb[0] = "KWS" => "KWS" \in decoders

(* The same with the types of main's variables and of the screen.          *)
HonestTitle == TypeOK /\ KwsTitleHonest

(* After a key press nothing of the earlier results is left on the screen  *)
(* until the next frame is run, although the callbacks flush only part of  *)
(* it: lcd_clear1 has to undo what any sequence of them left behind.       *)
ResetBlanks ==
    call = "clear" => \A b \in Bands \ {0} : fb[b] \notin Texts

(* SIGINT, at any moment, ends the program.                                *)
StopOnSignal == exit_flag ~> pc \in Ended

(* A key press is served, also one that came before the loop: it leads to a *)
(* reset, unless the program ends first.  Events of other kinds queued      *)
(* before it only delay it, and SIGINT during select does not swallow it.   *)
PressQueued == \E i \in 1..Len(queue) : queue[i] = "press"
PressServed == PressQueued ~> pc = "reset" \/ pc \in Ended

(* Neither kind of input is lost: not a signal, and not a key press.       *)
Served == StopOnSignal /\ PressServed
=============================================================================
