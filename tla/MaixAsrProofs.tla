--------------------------- MODULE MaixAsrProofs ----------------------------
(***************************************************************************)
(* Proofs about MaixAsr, for every set of configurations, event kinds and  *)
(* result lengths, and every bound on the number of events; first of       *)
(* LcdScreen alone, then of the program that draws on it.                  *)
(***************************************************************************)
EXTENDS MaixAsr, TLAPS

Buffered == Shown \ {"other"}
Results(nb) ==
    \A b, c \in Bands \ {0} : nb[b] \in Texts /\ nb[c] \in Texts => nb[b] = nb[c]

(***************************************************************************)
(* What every routine of the screen has in common: it fills the buffer and *)
(* flushes at least its first two bands, and all those that hold text.     *)
(***************************************************************************)
Draws(nb, rows) ==
    /\ nb \in [Bands -> Buffered]
    /\ rows \in 2..8
    /\ \A b \in Bands : nb[b] \in Texts => b < rows
    /\ Results(nb)
    /\ buf' = nb
    /\ Flush(nb, rows)
    /\ shows' = shows

LEMMA BlankType == Blank \in [Bands -> Buffered] /\ \A b \in Bands : Blank[b] = "black"
  BY DEF Blank, Bands, Buffered, Shown, Texts

LEMMA ResultType ==
    ASSUME LcdTypeOK, NEW name \in Texts, NEW drawn \in SUBSET TextBands
    PROVE  /\ WithResult(name, drawn) \in [Bands -> Buffered]
           /\ WithResult(name, drawn)[0] = buf[0]
           /\ \A b \in Bands \ {0} :
                 WithResult(name, drawn)[b] = IF b \in drawn THEN name ELSE "black"
  BY DEF LcdTypeOK, WithResult, Bands, TextBands, Buffered, Shown, Texts

LEMMA ResultDraws ==
    ASSUME LcdTypeOK, NEW name \in Texts, NEW drawn \in SUBSET TextBands, NEW rows \in 2..8,
           \A b \in drawn : b < rows,
           buf' = WithResult(name, drawn), Flush(buf', rows), shows' = shows
    PROVE  Draws(WithResult(name, drawn), rows)
  <1> DEFINE nb == WithResult(name, drawn)
  <1>1. /\ nb \in [Bands -> Buffered]
        /\ \A b \in Bands \ {0} : nb[b] = IF b \in drawn THEN name ELSE "black"
    BY ResultType
  <1>2. "black" \notin Texts
    BY DEF Texts
  <1> HIDE DEF nb
  <1>3. \A b \in Bands : nb[b] \in Texts => b < rows
    <2> TAKE b \in Bands
    <2>1. CASE b = 0
      BY <2>1
    <2>2. CASE b # 0
      BY <1>1, <1>2, <2>2
    <2> QED BY <2>1, <2>2
  <1>4. Results(nb)
    BY <1>1, <1>2 DEF Results
  <1> QED BY <1>1, <1>3, <1>4 DEF Draws, nb

LEMMA StepDraws ==
    ASSUME LcdTypeOK, LcdNext
    PROVE  \E nb, rows : Draws(nb, rows)
  <1>1. CASE LcdClear
    <2>1. Draws(Blank, 8)
      BY <1>1, BlankType DEF LcdClear, Draws, Results, Texts
    <2> QED BY <2>1
  <1>2. CASE LcdClear1
    <2>1. /\ WithResult("none", {}) = WithResult("KWS", {})
      BY DEF WithResult
    <2>2. Draws(WithResult("KWS", {}), 8)
      BY <1>2, <2>1, ResultDraws DEF LcdClear1, Texts
    <2> QED BY <2>2
  <1>3. ASSUME NEW d \in Texts, DrawTitle(d)
        PROVE  \E nb, rows : Draws(nb, rows)
    <2> DEFINE nb == [Blank EXCEPT ![0] = d]
    <2>1. /\ nb \in [Bands -> Buffered] /\ nb[0] = d
          /\ \A b \in Bands \ {0} : nb[b] = "black"
      BY BlankType DEF Bands, Buffered, Shown, Texts
    <2>2. buf' = nb /\ Flush(nb, 8) /\ shows' = shows
      BY <1>3 DEF DrawTitle
    <2> HIDE DEF nb
    <2>3. Draws(nb, 8)
      BY <2>1, <2>2 DEF Draws, Results, Texts, Bands
    <2> QED BY <2>3
  <1>4. ASSUME NEW d \in {"DIGIT", "LVCSR"}, ResultCallback(d)
        PROVE  \E nb, rows : Draws(nb, rows)
    <2>1. PICK n \in ResultLines : /\ buf' = WithResult(d, DrawnBands(n))
                                   /\ Flush(buf', RowsReturned(n)) /\ shows' = shows
      BY <1>4 DEF ResultCallback
    <2>2. n \in Nat
      BY LinesAssumption
    <2>3. RowsReturned(n) \in 2..8 /\ \A b \in DrawnBands(n) : b < RowsReturned(n)
      <3>1. CASE n = 0
        BY <3>1 DEF RowsReturned, DrawnBands, TextBands
      <3>2. CASE n \in TextBands
        BY <3>2 DEF RowsReturned, DrawnBands, TextBands
      <3>3. CASE n > 6
        BY <2>2, <3>3 DEF RowsReturned, DrawnBands, TextBands
      <3> QED BY <2>2, <3>1, <3>2, <3>3 DEF TextBands
    <2>4. DrawnBands(n) \in SUBSET TextBands
      BY DEF DrawnBands
    <2>5. d \in Texts
      BY DEF Texts
    <2>6. Draws(WithResult(d, DrawnBands(n)), RowsReturned(n))
      BY <2>1, <2>3, <2>4, <2>5, ResultDraws
    <2> QED BY <2>6
  <1>5. CASE KwsCallback
    <2>1. PICK drawn \in {{}} \cup {{k} : k \in Keywords} :
             buf' = WithResult("KWS", drawn) /\ Flush(buf', 5) /\ shows' = shows
      BY <1>5 DEF KwsCallback, KwsRows
    <2>2. drawn \in SUBSET TextBands /\ \A b \in drawn : b < 5
      BY <2>1 DEF Keywords, TextBands
    <2>3. Draws(WithResult("KWS", drawn), 5)
      BY <2>1, <2>2, ResultDraws DEF Texts
    <2> QED BY <2>3
  <1> QED BY <1>1, <1>2, <1>3, <1>4, <1>5 DEF LcdNext, Callback

-----------------------------------------------------------------------------
LEMMA ScreenInvInit == LcdInit => ScreenInv
  <1> SUFFICES ASSUME LcdInit PROVE ScreenInv
    OBVIOUS
  <1>1. LcdTypeOK
    BY BlankType DEF LcdInit, LcdTypeOK, Bands, Shown, Buffered
  <1>2. EveryTextShown /\ OneResult
    BY BlankType DEF LcdInit, EveryTextShown, OneResult, Texts
  <1>3. TopIsFresh
    BY DEF LcdInit, TopIsFresh, Bands
  <1> QED BY <1>1, <1>2, <1>3 DEF ScreenInv

LEMMA ScreenInvStep == ScreenInv /\ [LcdNext]_lcdVars => ScreenInv'
  <1> SUFFICES ASSUME ScreenInv, [LcdNext]_lcdVars PROVE ScreenInv'
    OBVIOUS
  <1>1. CASE UNCHANGED lcdVars
    BY <1>1 DEF lcdVars, ScreenInv, LcdTypeOK, EveryTextShown, TopIsFresh, OneResult
  <1>2. CASE LcdNext
    <2>1. PICK nb, rows : Draws(nb, rows)
      BY <1>2, StepDraws DEF ScreenInv
    <2>2. /\ nb \in [Bands -> Buffered] /\ rows \in 2..8 /\ buf' = nb /\ shows' = shows
          /\ shows \in BOOLEAN /\ fb \in [Bands -> Shown]
          /\ \A b \in Bands : nb[b] \in Texts => b < rows
      BY <2>1 DEF Draws, ScreenInv, LcdTypeOK
    <2>3. /\ fb' \in [Bands -> Shown]
          /\ shows => \A b \in Bands : b < rows => fb'[b] = nb[b]
      BY <2>1, <2>2 DEF Draws, Flush, Buffered
    <2>4. LcdTypeOK'
      BY <2>2, <2>3 DEF LcdTypeOK, Buffered
    <2>5. EveryTextShown'
      BY <2>2, <2>3 DEF EveryTextShown
    <2>6. TopIsFresh'
      BY <2>2, <2>3 DEF TopIsFresh, Bands
    <2>7. OneResult'
      BY <2>1 DEF Draws, Results, OneResult
    <2> QED BY <2>4, <2>5, <2>6, <2>7 DEF ScreenInv
  <1> QED BY <1>1, <1>2

(***************************************************************************)
(* For every set of result lengths: each text in the buffer is on the      *)
(* screen, the title and the first line never lag, and one result at a     *)
(* time is in the buffer, however the callbacks, clears and titles follow  *)
(* one another.                                                            *)
(***************************************************************************)
THEOREM ScreenInvariant == LcdSpec => []ScreenInv
  BY ScreenInvInit, ScreenInvStep, PTL DEF LcdSpec

(* Every text that is in the buffer is on the screen.                      *)
THEOREM TextsShown == LcdSpec => []EveryTextShown
  <1>1. ScreenInv => EveryTextShown
    BY DEF ScreenInv
  <1> QED BY <1>1, ScreenInvariant, PTL

(* The callbacks flush from the top, and never fewer than two bands: the   *)
(* title and the first line of the result area do not lag.                 *)
THEOREM TopStaysFresh == LcdSpec => []TopIsFresh
  <1>1. ScreenInv => TopIsFresh
    BY DEF ScreenInv
  <1> QED BY <1>1, ScreenInvariant, PTL

(* Each callback clears the whole result area before it draws: texts of    *)
(* two decoders are never in the buffer together.                          *)
THEOREM ResultsNotMixed == LcdSpec => []OneResult
  <1>1. ScreenInv => OneResult
    BY DEF ScreenInv
  <1> QED BY <1>1, ScreenInvariant, PTL

-----------------------------------------------------------------------------

(***************************************************************************)
(* The inductive invariant.  AtPc says in which state the library, the     *)
(* fonts and the last call are at each label of main.                      *)
(***************************************************************************)
Started == {"key_init", "parse_opts", "font_reg", "lcd_init", "asr_init"}
Cfg == {"do_raw", "do_dig", "do_kws", "similar", "do_lvcsr"}
InLoop == {"loop", "run", "callbacks", "key_read", "reset"}
CfgCalls == {"init", "cfg", "cfg_failed", "similar"}

AtPc ==
    /\ pc \in Started \cup {"benchmark", "died"} =>
          lib = "off" /\ call = "none" /\ decoders = {}
    /\ pc \in Cfg => lib = "on" /\ call \in CfgCalls
    /\ pc = "do_raw" => decoders = {}
    /\ pc = "do_dig" => decoders \subseteq {"RAW"}
    /\ pc = "do_kws" => decoders \subseteq {"RAW", "DIGIT"}
    /\ pc = "similar" => "KWS" \in decoders
    /\ pc \in {"similar", "do_lvcsr"} => decoders \subseteq {"RAW", "DIGIT", "KWS"}
    /\ pc \in {"loop", "run"} => lib = "on" /\ call \in CfgCalls \cup {"run", "clear"}
    /\ pc = "benchmark" => opts.task # "asr"
    /\ pc \in {"callbacks", "key_read", "reset"} => lib = "on" /\ call = "run"
    /\ pc = "free_decoder" => lib = "on"
    /\ pc \in {"font_unreg", "key_deinit"} => lib = "released"
    /\ pc = "key_deinit" => \A s \in FontSizes : font_buf[s] = "none"
    /\ pc = "exited" => lib # "on"

(* Which title there is, and what the framebuffer holds if it is not       *)
(* reached.                                                                *)
TitleInv ==
    /\ lib = "on" /\ (fb[0] = "KWS" \/ buf[0] = "KWS") => "KWS" \in decoders
    /\ lib = "off" => fb[0] # "KWS" /\ buf[0] # "KWS"
    /\ ~shows => \A b \in Bands : fb[b] = "other"

HostType ==
    /\ pc \in Labels
    /\ res \in -1..1
    /\ exit_flag \in BOOLEAN
    /\ opts \in Options
    /\ keys_fd \in {"unset", "open", "error", "closed"}
    /\ queue \in Seq(EventKinds)
    /\ sent \in 0..MaxEvents
    /\ font_buf \in [FontSizes -> {"none", "mapped", "failed"}]
    /\ lib \in {"off", "on", "released"}
    /\ decoders \subseteq Decoder
    /\ call \in Protocol!Call
    /\ due \subseteq Decoder

IInv == HostType /\ ScreenInv /\ AtPc /\ TitleInv /\ CleanExit /\ ResetBlanks

USE DEF Return, Goto

-----------------------------------------------------------------------------
(* main touches the screen only through the routines of LcdScreen.         *)
LEMMA ScreenSteps == HostType /\ [Next]_vars => [LcdNext]_lcdVars
  <1> SUFFICES ASSUME HostType, [Next]_vars, ~ UNCHANGED lcdVars
               PROVE  LcdNext
    OBVIOUS
  <1>1. CASE ScreenInit
    BY <1>1 DEF ScreenInit, LcdNext
  <1>2. CASE SetDig \/ SetLvcsr
    BY <1>2 DEF SetDig, SetLvcsr, SetResultDecoder, LcdNext, Texts
  <1>3. CASE RegSimilar
    BY <1>3 DEF RegSimilar, LcdNext, Texts
  <1>4. CASE RunCallback
    BY <1>4 DEF RunCallback, HostType, Decoder, LcdNext
  <1>5. CASE Reset
    BY <1>5 DEF Reset, LcdNext
  <1>6. CASE CallbackCrashes
    BY <1>6 DEF CallbackCrashes, FontMissing, DigitsOverflow, LcdNext, Texts
  <1>7. \/ UNCHANGED lcdVars \/ ScreenInit \/ SetDig \/ SetLvcsr \/ RegSimilar \/ RunCallback
        \/ Reset \/ CallbackCrashes
    BY DEF Next, Main, KeyInit, ParseOpts, FontReg, ScreenDies, MsAsrInit, SkipDecoder, Skip,
           Benchmarks, DoRaw, SetKws, LoopTest, MsAsrRun, FrameDone, KeyRead, KeyTimeout,
           KeyInterrupted, MsAsrDeinit, FontUnreg, KeyDeinit, Signal, KeyEvent, Stopped, vars
  <1> QED BY <1>1, <1>2, <1>3, <1>4, <1>5, <1>6, <1>7

(* How the title changes in a callback and in a reset.                     *)
LEMMA TitleKept ==
    ASSUME LcdTypeOK, (\E d : Callback(d)) \/ LcdClear1
    PROVE  buf'[0] = buf[0] /\ (fb'[0] = fb[0] \/ fb'[0] = buf[0])
  <1>1. \A name, drawn : WithResult(name, drawn)[0] = buf[0]
    BY DEF WithResult, Bands
  <1>2. ASSUME NEW name, NEW drawn, NEW rows,
               buf' = WithResult(name, drawn), Flush(buf', rows)
        PROVE  buf'[0] = buf[0] /\ (fb'[0] = fb[0] \/ fb'[0] = buf[0])
    <2>1. buf'[0] = buf[0]
      BY <1>1, <1>2
    <2>2. fb'[0] = fb[0] \/ fb'[0] = buf'[0]
      BY <1>2 DEF Flush, LcdTypeOK, Bands
    <2> QED BY <2>1, <2>2
  <1> QED BY <1>2 DEF Callback, KwsCallback, ResultCallback, LcdClear1

LEMMA TitleDrawn ==
    ASSUME LcdTypeOK, NEW d \in Texts, DrawTitle(d)
    PROVE  buf'[0] = d /\ (fb'[0] = fb[0] \/ fb'[0] = d)
  <1>1. buf'[0] = d
    BY DEF DrawTitle, Blank, Bands
  <1>2. fb'[0] = fb[0] \/ fb'[0] = buf'[0]
    BY DEF DrawTitle, Flush, LcdTypeOK, Bands
  <1> QED BY <1>1, <1>2

LEMMA HiddenScreen ==
    ASSUME [LcdNext]_lcdVars, ~shows
    PROVE  fb' = fb /\ ~shows'
  BY DEF LcdNext, LcdClear, LcdClear1, DrawTitle, Callback, KwsCallback, ResultCallback, Flush, lcdVars

LEMMA ResetClears ==
    ASSUME LcdTypeOK, LcdClear1, shows
    PROVE  \A b \in Bands \ {0} : fb'[b] = "black"
  <1>1. \A b \in Bands \ {0} : WithResult("none", {})[b] = "black"
    BY DEF WithResult
  <1>2. \A b \in Bands : fb'[b] = WithResult("none", {})[b]
    BY DEF LcdClear1, Flush, Bands
  <1> QED BY <1>1, <1>2

-----------------------------------------------------------------------------
LEMMA HostTypeStep == HostType /\ [Next]_vars => HostType'
  <1> SUFFICES ASSUME HostType, [Next]_vars PROVE HostType'
    OBVIOUS
  <1> USE DEF HostType, Labels, Ended, Decoder, Texts, hostVars, keyVars, libVars
  <1>1. CASE KeyInit
    BY <1>1 DEF KeyInit
  <1>2. CASE ParseOpts
    BY <1>2 DEF ParseOpts
  <1>3. CASE FontReg
    BY <1>3, OptionsAssumption DEF FontReg
  <1>4. CASE ScreenDies
    BY <1>4 DEF ScreenDies
  <1>5. CASE ScreenInit
    BY <1>5 DEF ScreenInit
  <1>6. CASE MsAsrInit
    BY <1>6 DEF MsAsrInit, Protocol!Call
  <1>7. CASE SkipDecoder
    <2>1. ASSUME NEW at, NEW wanted, NEW next \in Labels, Skip(at, wanted, next)
          PROVE  HostType'
      BY <2>1 DEF Skip
    <2>2. \A l \in {"do_dig", "do_kws", "do_lvcsr", "loop"} : l \in Labels
      OBVIOUS
    <2> QED BY <1>7, <2>1, <2>2 DEF SkipDecoder
  <1>8. CASE DoRaw
    <2>1. CASE CfgOk("RAW") /\ Goto("do_dig")
      BY <1>8, <2>1 DEF DoRaw, CfgOk, Protocol!Call
    <2>2. CASE CfgFailed /\ RawFails
      BY <1>8, <2>2 DEF DoRaw, CfgFailed, RawFails, Protocol!Call
    <2> QED BY <1>8, <2>1, <2>2 DEF DoRaw
  <1>9. CASE SetDig
    BY <1>9 DEF SetDig, SetResultDecoder, CfgOk, CfgFailed, Protocol!Call
  <1>10. CASE SetKws
    BY <1>10 DEF SetKws, CfgOk, CfgFailed, Protocol!Call
  <1>11. CASE RegSimilar
    BY <1>11 DEF RegSimilar, Protocol!Call
  <1>12. CASE SetLvcsr
    BY <1>12 DEF SetLvcsr, SetResultDecoder, CfgOk, CfgFailed, Protocol!Call
  <1>13. CASE LoopTest
    BY <1>13 DEF LoopTest
  <1>14. CASE MsAsrRun
    BY <1>14 DEF MsAsrRun, Protocol!Call
  <1>15. CASE RunCallback
    BY <1>15 DEF RunCallback
  <1>16. CASE CallbackCrashes
    BY <1>16 DEF CallbackCrashes
  <1>17. CASE FrameDone
    BY <1>17 DEF FrameDone
  <1>18. CASE KeyRead
    BY <1>18 DEF KeyRead, AfterKey
  <1>19. CASE KeyTimeout
    BY <1>19 DEF KeyTimeout
  <1>20. CASE KeyInterrupted
    BY <1>20 DEF KeyInterrupted
  <1>21. CASE Reset
    BY <1>21 DEF Reset, Protocol!Call
  <1>22. CASE MsAsrDeinit
    BY <1>22 DEF MsAsrDeinit, Protocol!Call
  <1>23. CASE FontUnreg
    BY <1>23 DEF FontUnreg
  <1>24. CASE KeyDeinit
    BY <1>24 DEF KeyDeinit
  <1>25. CASE Signal
    BY <1>25 DEF Signal
  <1>26. CASE KeyEvent
    BY <1>26, OptionsAssumption DEF KeyEvent
  <1>27. CASE Benchmarks
    BY <1>27 DEF Benchmarks
  <1>28. CASE UNCHANGED vars
    BY <1>28 DEF vars
  <1> QED
    BY <1>1, <1>2, <1>3, <1>4, <1>5, <1>6, <1>7, <1>8, <1>9, <1>10, <1>11, <1>12, <1>13, <1>14, <1>15, <1>16, <1>17, <1>18, <1>19, <1>20, <1>21, <1>22, <1>23, <1>24, <1>25, <1>26, <1>27, <1>28 DEF Next, Main, Stopped

LEMMA AtPcStep == HostType /\ AtPc /\ [Next]_vars => AtPc'
  <1> SUFFICES ASSUME HostType, AtPc, [Next]_vars PROVE AtPc'
    OBVIOUS
  <1> USE DEF AtPc, Started, Cfg, CfgCalls, Ended, hostVars, keyVars, libVars
  <1>1. CASE KeyInit
    BY <1>1 DEF KeyInit
  <1>2. CASE ParseOpts
    BY <1>2 DEF ParseOpts
  <1>3. CASE FontReg
    BY <1>3 DEF FontReg
  <1>4. CASE ScreenDies
    BY <1>4 DEF ScreenDies
  <1>5. CASE ScreenInit
    BY <1>5 DEF ScreenInit
  <1>6. CASE MsAsrInit
    BY <1>6 DEF MsAsrInit
  <1>7. CASE SkipDecoder
    BY <1>7 DEF SkipDecoder, Skip
  <1>8. CASE DoRaw
    BY <1>8 DEF DoRaw, CfgOk, CfgFailed, RawFails
  <1>9. CASE SetDig
    BY <1>9 DEF SetDig, SetResultDecoder, CfgOk, CfgFailed
  <1>10. CASE SetKws
    BY <1>10 DEF SetKws, CfgOk, CfgFailed
  <1>11. CASE RegSimilar
    BY <1>11 DEF RegSimilar
  <1>12. CASE SetLvcsr
    BY <1>12 DEF SetLvcsr, SetResultDecoder, CfgOk, CfgFailed
  <1>13. CASE LoopTest
    BY <1>13 DEF LoopTest
  <1>14. CASE MsAsrRun
    BY <1>14 DEF MsAsrRun
  <1>15. CASE RunCallback
    BY <1>15 DEF RunCallback, HostType
  <1>16. CASE CallbackCrashes
    BY <1>16 DEF CallbackCrashes
  <1>17. CASE FrameDone
    BY <1>17 DEF FrameDone
  <1>18. CASE KeyRead
    BY <1>18 DEF KeyRead, AfterKey
  <1>19. CASE KeyTimeout
    BY <1>19 DEF KeyTimeout
  <1>20. CASE KeyInterrupted
    BY <1>20 DEF KeyInterrupted
  <1>21. CASE Reset
    BY <1>21 DEF Reset
  <1>22. CASE MsAsrDeinit
    BY <1>22 DEF MsAsrDeinit
  <1>23. CASE FontUnreg
    BY <1>23 DEF FontUnreg
  <1>24. CASE KeyDeinit
    BY <1>24 DEF KeyDeinit
  <1>25. CASE Signal
    BY <1>25 DEF Signal
  <1>26. CASE KeyEvent
    BY <1>26 DEF KeyEvent
  <1>27. CASE Benchmarks
    BY <1>27 DEF Benchmarks
  <1>28. CASE UNCHANGED vars
    BY <1>28 DEF vars
  <1> QED
    BY <1>1, <1>2, <1>3, <1>4, <1>5, <1>6, <1>7, <1>8, <1>9, <1>10, <1>11, <1>12, <1>13, <1>14, <1>15, <1>16, <1>17, <1>18, <1>19, <1>20, <1>21, <1>22, <1>23, <1>24, <1>25, <1>26, <1>27, <1>28 DEF Next, Main, Stopped

(***************************************************************************)
(* The invariants that relate main to the screen change only in the few    *)
(* actions that draw, or that open, configure or close the library.        *)
(***************************************************************************)
LEMMA TitleStep == HostType /\ ScreenInv /\ AtPc /\ TitleInv /\ [Next]_vars => TitleInv'
  <1> SUFFICES ASSUME HostType, ScreenInv, AtPc, TitleInv, [Next]_vars PROVE TitleInv'
    OBVIOUS
  <1> DEFINE Honest == /\ lib = "on" /\ (fb[0] = "KWS" \/ buf[0] = "KWS") => "KWS" \in decoders
                       /\ lib = "off" => fb[0] # "KWS" /\ buf[0] # "KWS"
  <1>0. LcdTypeOK /\ 0 \in Bands /\ [LcdNext]_lcdVars
    BY ScreenSteps DEF ScreenInv, Bands
  <1>1. (~shows => \A b \in Bands : fb[b] = "other")'
    <2>1. CASE ~shows
      BY <1>0, <2>1, HiddenScreen DEF TitleInv
    <2>2. CASE shows
      <3>1. shows' = shows
        BY <1>0 DEF LcdNext, LcdClear, LcdClear1, DrawTitle, Callback, KwsCallback,
                    ResultCallback, lcdVars
      <3> QED BY <2>2, <3>1
    <2> QED BY <2>1, <2>2
  <1>2. CASE UNCHANGED <<lib, decoders, lcdVars>>
    BY <1>1, <1>2 DEF TitleInv, lcdVars
  <1>3. CASE ScreenInit
    <2>1. buf'[0] = "black" /\ (fb'[0] = fb[0] \/ fb'[0] = "black")
      BY <1>0, <1>3 DEF ScreenInit, LcdClear, Flush, Blank, LcdTypeOK
    <2>2. lib = "off" /\ lib' = lib
      BY <1>3 DEF ScreenInit, libVars, AtPc, Started
    <2> QED BY <1>1, <2>1, <2>2 DEF TitleInv
  <1>4. CASE MsAsrInit
    BY <1>1, <1>4 DEF MsAsrInit, TitleInv, AtPc, Started, lcdVars
  <1>5. ASSUME NEW d, CfgOk(d) \/ CfgFailed
        PROVE  lib' = lib /\ decoders \subseteq decoders'
    BY <1>5 DEF CfgOk, CfgFailed
  <1>6. CASE DoRaw \/ SetKws
    <2>1. lib' = lib /\ decoders \subseteq decoders' /\ UNCHANGED lcdVars
      BY <1>5, <1>6 DEF DoRaw, SetKws
    <2> QED BY <1>1, <2>1 DEF TitleInv, lcdVars
  <1>7. CASE SetDig \/ SetLvcsr
    <2>1. /\ lib' = lib /\ decoders \subseteq decoders' /\ lib = "on"
          /\ \E d \in {"DIGIT", "LVCSR"} : DrawTitle(d)
      BY <1>5, <1>7 DEF SetDig, SetLvcsr, SetResultDecoder, AtPc, Cfg
    <2>2. buf'[0] # "KWS" /\ (fb'[0] = fb[0] \/ fb'[0] # "KWS")
      BY <1>0, <2>1, TitleDrawn DEF Texts
    <2> QED BY <1>1, <2>1, <2>2 DEF TitleInv
  <1>8. CASE RegSimilar
    BY <1>1, <1>8 DEF RegSimilar, AtPc, Cfg, TitleInv
  <1>9. CASE RunCallback \/ CallbackCrashes \/ Reset
    <2>1. UNCHANGED lcdVars \/ (buf'[0] = buf[0] /\ (fb'[0] = fb[0] \/ fb'[0] = buf[0]))
      BY <1>0, <1>9, TitleKept DEF RunCallback, CallbackCrashes, FontMissing, DigitsOverflow, Reset
    <2>2. UNCHANGED <<lib, decoders>>
      BY <1>9 DEF RunCallback, CallbackCrashes, Reset, libVars
    <2> QED BY <1>1, <2>1, <2>2 DEF TitleInv, lcdVars
  <1>10. CASE MsAsrDeinit
    BY <1>1, <1>10 DEF MsAsrDeinit, TitleInv
  <1> QED
    BY <1>2, <1>3, <1>4, <1>6, <1>7, <1>8, <1>9, <1>10
       DEF Next, Main, KeyInit, ParseOpts, FontReg, ScreenDies, SkipDecoder, Skip, LoopTest,
           Benchmarks, MsAsrRun, FrameDone, KeyRead, KeyTimeout, KeyInterrupted, FontUnreg,
           KeyDeinit, Signal, KeyEvent, Stopped, vars, libVars

LEMMA ResetStep ==
    HostType /\ ScreenInv /\ AtPc /\ TitleInv /\ ResetBlanks /\ [Next]_vars => ResetBlanks'
  <1> SUFFICES ASSUME HostType, ScreenInv, AtPc, TitleInv, ResetBlanks, [Next]_vars, call' = "clear"
               PROVE  \A b \in Bands \ {0} : fb'[b] \notin Texts
    BY DEF ResetBlanks
  <1>1. CASE Reset
    <2>1. LcdTypeOK /\ LcdClear1
      BY <1>1 DEF Reset, ScreenInv
    <2>2. CASE shows
      BY <2>1, <2>2, ResetClears DEF Texts
    <2>3. CASE ~shows
      BY <2>1, <2>3 DEF TitleInv, LcdClear1, Flush, Texts
    <2> QED BY <2>2, <2>3
  <1>2. CASE UNCHANGED <<call, lcdVars>>
    BY <1>2 DEF ResetBlanks, lcdVars
  <1>3. ~(ScreenInit \/ RunCallback \/ CallbackCrashes)
    BY DEF ScreenInit, RunCallback, CallbackCrashes, AtPc, Started, libVars
  <1> QED
    BY <1>1, <1>2, <1>3
       DEF Next, Main, KeyInit, ParseOpts, FontReg, ScreenDies, MsAsrInit, SkipDecoder, Skip, DoRaw,
           CfgOk, CfgFailed, SetDig, SetKws, RegSimilar, SetLvcsr, SetResultDecoder, LoopTest,
           Benchmarks, MsAsrRun, FrameDone, KeyRead, KeyTimeout, KeyInterrupted, MsAsrDeinit,
           FontUnreg, KeyDeinit, Signal, KeyEvent, Stopped, vars, libVars

LEMMA ExitStep ==
    HostType /\ AtPc /\ CleanExit /\ [Next]_vars => CleanExit'
  <1> SUFFICES ASSUME HostType, AtPc, CleanExit, [Next]_vars, pc' = "exited"
               PROVE  /\ lib' # "on"
                      /\ res' = 0 /\ opts'.task = "asr" =>
                            /\ lib' = "released"
                            /\ \A s \in FontSizes : font_buf'[s] = "none"
                            /\ keys_fd' # "open"
    BY DEF CleanExit
  <1>1. CASE ParseOpts
    BY <1>1 DEF ParseOpts, libVars, AtPc, Started
  <1>2. CASE MsAsrInit
    BY <1>2 DEF MsAsrInit
  <1>3. CASE KeyDeinit
    BY <1>3 DEF KeyDeinit, libVars, AtPc, HostType
  <1>4. CASE Benchmarks
    BY <1>4 DEF Benchmarks, hostVars, libVars, AtPc
  <1>5. CASE UNCHANGED vars
    BY <1>5 DEF vars, CleanExit
  <1> QED
    BY <1>1, <1>2, <1>3, <1>4, <1>5
       DEF Next, Main, KeyInit, FontReg, ScreenDies, ScreenInit, SkipDecoder, Skip, DoRaw, RawFails,
           SetDig, SetKws, RegSimilar, SetLvcsr, SetResultDecoder, LoopTest, MsAsrRun, RunCallback,
           CallbackCrashes, FrameDone, KeyRead, AfterKey, KeyTimeout, KeyInterrupted, Reset,
           MsAsrDeinit, FontUnreg, Signal, KeyEvent, Stopped, Ended

-----------------------------------------------------------------------------
LEMMA IInvInit == Init => IInv
  <1> SUFFICES ASSUME Init PROVE IInv
    OBVIOUS
  <1>1. HostType
    <2>1. font_buf \in [FontSizes -> {"none", "mapped", "failed"}]
      BY DEF Init
    <2>2. sent \in 0..MaxEvents /\ queue \in Seq(EventKinds) /\ res \in -1..1
      BY OptionsAssumption DEF Init
    <2> QED BY <2>1, <2>2 DEF Init, HostType, Labels, Protocol!Call
  <1>2. ScreenInv
    BY ScreenInvInit DEF Init
  <1>3. AtPc
    BY DEF Init, AtPc, Started, Cfg
  <1>4. TitleInv
    BY DEF Init, TitleInv, LcdInit, Blank, Bands
  <1>5. CleanExit /\ ResetBlanks
    BY DEF Init, CleanExit, ResetBlanks
  <1> QED BY <1>1, <1>2, <1>3, <1>4, <1>5 DEF IInv

LEMMA IInvStep == IInv /\ [Next]_vars => IInv'
  <1> SUFFICES ASSUME IInv, [Next]_vars PROVE IInv'
    OBVIOUS
  <1>1. HostType' /\ AtPc'
    BY HostTypeStep, AtPcStep DEF IInv
  <1>2. ScreenInv'
    BY ScreenSteps, ScreenInvStep DEF IInv
  <1>3. TitleInv' /\ ResetBlanks' /\ CleanExit'
    BY TitleStep, ResetStep, ExitStep DEF IInv
  <1> QED BY <1>1, <1>2, <1>3 DEF IInv

THEOREM Invariance == Spec => []IInv
  BY IInvInit, IInvStep, PTL DEF Spec

(***************************************************************************)
(* Type correctness of main and of the screen it drives.                   *)
(***************************************************************************)
THEOREM TypeCorrect == Spec => []TypeOK
  <1>1. IInv => TypeOK
    BY DEF IInv, HostType, ScreenInv, TypeOK
  <1> QED BY <1>1, Invariance, PTL

(***************************************************************************)
(* Whatever fails and whenever SIGINT comes, main returns with the session *)
(* closed that it opened, and, unless it ran a benchmark, with status 0    *)
(* only after it has given everything back.                                *)
(***************************************************************************)
THEOREM ExitsClean == Spec => []CleanExit
  <1>1. IInv => CleanExit
    BY DEF IInv
  <1> QED BY <1>1, Invariance, PTL

(***************************************************************************)
(* The title KWS is on the screen only while the keyword decoder is there. *)
(***************************************************************************)
THEOREM TitleIsHonest == Spec => []HonestTitle
  <1>1. IInv => KwsTitleHonest
    BY DEF IInv, TitleInv, KwsTitleHonest
  <1>2. TypeOK /\ KwsTitleHonest => HonestTitle
    BY DEF HonestTitle
  <1> QED BY <1>1, <1>2, TypeCorrect, Invariance, PTL

(***************************************************************************)
(* After a key press no text of an earlier result is on the screen until   *)
(* the next frame, whatever callbacks came before.                         *)
(***************************************************************************)
THEOREM ResetLeavesNoText == Spec => []ResetBlanks
  <1>1. IInv => ResetBlanks
    BY DEF IInv
  <1> QED BY <1>1, Invariance, PTL

(***************************************************************************)
(* main implements the contract of the library: it makes its calls in an   *)
(* order AsrProtocol allows.                                               *)
(***************************************************************************)
THEOREM ImplementsProtocol == Spec => KeepsProtocol
  <1>1. Init => Protocol!Init
    BY DEF Init, Protocol!Init
  <1>2. IInv /\ [Next]_vars => [Protocol!Next]_(Protocol!protocolVars)
    <2> SUFFICES ASSUME IInv, [Next]_vars, ~ UNCHANGED libVars
                 PROVE  Protocol!Next
      BY DEF libVars, Protocol!protocolVars
    <2> USE DEF IInv, AtPc, Started, Cfg, CfgCalls
    <2>1. CASE MsAsrInit
      BY <2>1 DEF MsAsrInit, Protocol!Next, Protocol!AsrInit
    <2>2. ASSUME NEW d \in Decoder, d \notin decoders, pc \in Cfg, CfgOk(d) \/ CfgFailed
          PROVE  Protocol!DecoderCfg
      BY <2>2 DEF CfgOk, CfgFailed, Protocol!DecoderCfg, Protocol!After, Protocol!NoSource
    <2>3. CASE DoRaw \/ SetDig \/ SetKws \/ SetLvcsr
      BY <2>2, <2>3 DEF DoRaw, SetDig, SetKws, SetLvcsr, SetResultDecoder, Decoder, Texts,
                        Protocol!Next
    <2>4. CASE RegSimilar
      BY <2>4 DEF RegSimilar, Protocol!Next, Protocol!KwsRegSimilar, Protocol!After, Protocol!NoSource
    <2>5. CASE MsAsrRun
      BY <2>5 DEF MsAsrRun, Protocol!Next, Protocol!Run, Protocol!NoSource
    <2>6. CASE Reset
      BY <2>6 DEF Reset, Protocol!Next, Protocol!Clear, Protocol!NoSource
    <2>7. CASE MsAsrDeinit
      BY <2>7 DEF MsAsrDeinit, Protocol!Next, Protocol!Deinit
    <2> QED
      BY <2>1, <2>3, <2>4, <2>5, <2>6, <2>7
         DEF Next, Main, KeyInit, ParseOpts, FontReg, ScreenDies, ScreenInit, SkipDecoder, Skip,
             Benchmarks, LoopTest, RunCallback, CallbackCrashes, FrameDone, KeyRead, KeyTimeout,
             KeyInterrupted, FontUnreg, KeyDeinit, Signal, KeyEvent, Stopped, vars, libVars
  <1> QED BY <1>1, <1>2, Invariance, PTL DEF Spec, Protocol!Spec, KeepsProtocol

(* main draws on the screen only by the routines of LcdScreen, so what     *)
(* holds of them holds of the program.                                     *)
THEOREM ImplementsScreen == Spec => LcdSpec
  <1>1. Init => LcdInit
    BY DEF Init
  <1>2. IInv /\ [Next]_vars => [LcdNext]_lcdVars
    BY ScreenSteps DEF IInv
  <1> QED BY <1>1, <1>2, Invariance, PTL DEF Spec, LcdSpec
=============================================================================
