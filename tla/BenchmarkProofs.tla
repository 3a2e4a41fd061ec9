-------------------------- MODULE BenchmarkProofs ---------------------------
(***************************************************************************)
(* The bench keeps the lines of the files apart, for every list of files   *)
(* and every number of frames.  The inductive invariant IInv says, beside  *)
(* the types, how far the set-up has come (Control), that the library's    *)
(* memory and the two texts hold what was heard of the file being run and  *)
(* nothing else (Texts), and how many lines there are (Counts).            *)
(***************************************************************************)
EXTENDS Benchmark, TLAPS

Loop == {"for", "while", "write", "clear", "fclose"}
InFile == {"while", "write", "clear"}

Control ==
    /\ pc \in {"trave_dir", "init"} => lib = "off" /\ call = "none"
    /\ pc \in {"trave_dir", "init", "testpny"} => decoders = {} /\ fw_pny = "NULL"
    /\ pc = "testpny" => lib = "on" /\ call = "init"
    /\ pc \in {"trave_dir", "init", "testpny", "testhan"} => fw_han = "NULL"
    /\ pc = "testhan" => /\ lib = "on" /\ call \in {"init", "cfg"}
                         /\ decoders = IF testpny THEN {"RAW"} ELSE {}
                         /\ fw_pny \in {"NULL", "open"} /\ (fw_pny = "open" => testpny)
    /\ pc \in Loop =>
          /\ lib = "on"
          /\ decoders = (IF testpny THEN {"RAW"} ELSE {}) \cup (IF testhan THEN {"LVCSR"} ELSE {})
          /\ fw_pny \in {"NULL", "open"} /\ (fw_pny = "open" => testpny)
          /\ fw_han \in {"NULL", "open"} /\ (fw_han = "open" => testhan)
    /\ pc = "for" => call \in {"init", "cfg", "clear_out"}
    /\ pc = "while" => call \in {"set_dev", "run"}
    /\ pc = "write" => exit_flag \/ call = "run_out"
    /\ pc = "clear" => call = "run_out"

Texts ==
    /\ pc \in {"trave_dir", "init", "testpny", "testhan"} => i = 1
    /\ pc \in {"trave_dir", "init", "testpny", "testhan", "for"} =>
          /\ memory = <<>>
          /\ \A k \in i..Len(file_name) : heard[file_name[k]] = <<>>
    /\ pc = "trave_dir" => heard = [f \in Name |-> <<>>]
    /\ pc \in InFile =>
          /\ MoreFiles
          /\ memory = heard[Source]
          /\ testpny => pny_result = heard[Source]
          /\ testhan => han_result = heard[Source]
          /\ \A k \in (i + 1)..Len(file_name) : heard[file_name[k]] = <<>>
    /\ pc = "write" => exit_flag \/ Source \in ended

(* The lines of one result file, open or not.                              *)
Written == IF pc = "clear" THEN i ELSE i - 1
CountOf(fw, txt) ==
    /\ pc \in {"trave_dir", "init", "testpny", "testhan"} => txt = <<>>
    /\ pc \in Loop => IF fw = "open" THEN Len(txt) = Written ELSE txt = <<>>
    /\ pc = "fclose" => \/ exit_flag \/ call = "set_dev_failed"
                        \/ i = Len(file_name) + 1
    /\ pc = "done" /\ fw = "closed" => \/ exit_flag \/ call = "set_dev_failed"
                                       \/ Len(txt) = Len(file_name)
Counts == CountOf(fw_pny, pny_txt) /\ CountOf(fw_han, han_txt)

IInv == TypeOK /\ Control /\ Texts /\ Counts /\ LinesOfTheirFiles

-----------------------------------------------------------------------------
LEMMA IInvInit == Init => IInv
  <1> SUFFICES ASSUME Init PROVE IInv
    OBVIOUS
  <1> USE DEF Init
  <1>1. TypeOK
    <2>1. heard \in [Name -> FrameText]
      BY DEF FrameText
    <2> QED
      BY <2>1, ListAssumption DEF TypeOK, Labels, FrameText, Protocol!Call
  <1>2. Control
    BY DEF Control, Loop
  <1>3. Texts
    BY DEF Texts, InFile
  <1>4. Counts
    BY DEF Counts, CountOf, Loop
  <1>5. LinesOfTheirFiles
    BY DEF LinesOfTheirFiles, WholeLines
  <1> QED BY <1>1, <1>2, <1>3, <1>4, <1>5 DEF IInv

(* The name of the file being run, and the frame taken of it.              *)
LEMMA SourceIsName ==
    ASSUME TypeOK, NEW k \in 1..Len(file_name)
    PROVE  file_name[k] \in Name
  BY ListAssumption DEF TypeOK

LEMMA SourceType ==
    ASSUME TypeOK, MoreFiles
    PROVE  i \in 1..Len(file_name) /\ Source \in Name
  <1>1. i \in 1..Len(file_name)
    BY ListAssumption DEF TypeOK, MoreFiles
  <1> QED BY <1>1, SourceIsName DEF Source

(* What a frame with speech does to a text.                                *)
LEMMA FrameType ==
    ASSUME TypeOK, MoreFiles, frames < MaxFrames, NEW text \in FrameText
    PROVE  Append(text, Frame) \in FrameText
  <1>1. frames + 1 \in 1..MaxFrames
    BY ListAssumption DEF TypeOK
  <1>2. Frame \in Name \X (1..MaxFrames)
    BY <1>1, SourceType DEF Frame
  <1> QED BY <1>2 DEF FrameText

LEMMA TypeStep == IInv /\ [Next]_vars => TypeOK'
  <1> SUFFICES ASSUME IInv, [Next]_vars PROVE TypeOK'
    OBVIOUS
  <1>t. TypeOK
    BY DEF IInv
  <1> USE <1>t
  <1> USE DEF argVars, resultVars, fileVars, libVars, audioVars
  <1>1. CASE Signal
    BY <1>1 DEF Signal, TypeOK
  <1>2. CASE TraveDir
    <2>1. i = 1
      BY <1>2 DEF TraveDir, IInv, Texts
    <2>2. i' \in 1..(Len(file_name') + 1)
      BY <1>2, <2>1, ListAssumption DEF TraveDir, TypeOK
    <2> QED BY <1>2, <2>2 DEF TraveDir, TypeOK, Labels, Ended
  <1>3. CASE MsAsrInit
    BY <1>3 DEF MsAsrInit, TypeOK, Labels, Ended, Protocol!Call
  <1>4. CASE TestPny
    <2>1. call' \in Protocol!Call
      BY <1>4 DEF TestPny, Register, TypeOK, Protocol!Call
    <2>2. decoders' \subseteq Decoder
      BY <1>4 DEF TestPny, Register, TypeOK, Decoder
    <2>3. pc' \in Labels /\ fw_pny' \in {"NULL", "open", "closed"}
      BY <1>4 DEF TestPny, Register, TypeOK, Labels, Ended
    <2> QED
      BY <1>4, <2>1, <2>2, <2>3 DEF TestPny, TypeOK
  <1>5. CASE TestHan
    <2>1. call' \in Protocol!Call
      BY <1>5 DEF TestHan, Register, TypeOK, Protocol!Call
    <2>2. decoders' \subseteq Decoder
      BY <1>5 DEF TestHan, Register, TypeOK, Decoder
    <2>3. pc' \in Labels /\ fw_han' \in {"NULL", "open", "closed"}
      BY <1>5 DEF TestHan, Register, TypeOK, Labels, Ended
    <2> QED
      BY <1>5, <2>1, <2>2, <2>3 DEF TestHan, TypeOK
  <1>6. CASE SetDevFails
    BY <1>6 DEF SetDevFails, TypeOK, Labels, Protocol!Call
  <1>7. CASE SetDev
    BY <1>7, ListAssumption DEF SetDev, TypeOK, Labels, Protocol!Call, FrameText
  <1>8. CASE RunFrame
    <2>1. MoreFiles /\ frames < MaxFrames
      BY <1>8 DEF RunFrame, IInv, Texts, InFile
    <2>2. Source \in Name
      BY <2>1, SourceType
    <2>3. frames' \in 0..MaxFrames
      BY <1>8, <2>1, ListAssumption DEF RunFrame, TypeOK
    <2>4. memory' \in FrameText
      BY <1>8, <2>1, FrameType DEF RunFrame, TypeOK
    <2>5. heard' \in [Name -> FrameText]
      BY <1>8, <2>1, <2>2, FrameType DEF RunFrame, TypeOK
    <2>6. pny_result' \in FrameText /\ han_result' \in FrameText
      BY <1>8, <2>1, <2>4, FrameType DEF RunFrame, test_rawcb, test_lvcsrcb, TypeOK
    <2> QED
      BY <1>8, <2>3, <2>4, <2>5, <2>6 DEF RunFrame, TypeOK, Protocol!Call
  <1>9. CASE RunOut
    <2>1. Source \in Name
      BY <1>9, SourceType DEF RunOut, IInv, Texts, InFile
    <2> QED BY <1>9, <2>1 DEF RunOut, TypeOK, Labels, Protocol!Call
  <1>10. CASE Interrupted
    BY <1>10 DEF Interrupted, TypeOK, Labels
  <1>11. CASE Break
    BY <1>11 DEF Break, TypeOK, Labels
  <1>12. CASE Write
    <2>1. Source \in Name
      BY <1>12, SourceType DEF Write, IInv, Texts, InFile
    <2>2. /\ ResultLine(pny_result) \in [file : Name, text : FrameText]
          /\ ResultLine(han_result) \in [file : Name, text : FrameText]
      BY <2>1 DEF TypeOK, ResultLine
    <2>3. /\ Append(pny_txt, ResultLine(pny_result)) \in Seq([file : Name, text : FrameText])
          /\ Append(han_txt, ResultLine(han_result)) \in Seq([file : Name, text : FrameText])
      BY <2>2 DEF TypeOK
    <2>4. /\ pny_txt' \in Seq([file : Name, text : FrameText])
          /\ han_txt' \in Seq([file : Name, text : FrameText])
      <3> HIDE DEF Name
      <3> QED BY <1>12, <2>3 DEF Write, TypeOK
    <2> QED BY <1>12, <2>4 DEF Write, TypeOK, Labels
  <1>13. CASE Clear
    <2>1. i' \in 1..(Len(file_name') + 1)
      BY <1>13, SourceType DEF Clear, IInv, Texts, InFile
    <2> QED BY <1>13, <2>1 DEF Clear, TypeOK, Labels, Protocol!Call, FrameText
  <1>14. CASE AllRun
    BY <1>14 DEF AllRun, TypeOK, Labels
  <1>15. CASE Fclose
    BY <1>15 DEF Fclose, TypeOK, Labels, Ended
  <1>16. CASE UNCHANGED vars
    BY <1>16 DEF vars, TypeOK
  <1> QED
    BY <1>1, <1>2, <1>3, <1>4, <1>5, <1>6, <1>7, <1>8, <1>9, <1>10, <1>11, <1>12, <1>13,
       <1>14, <1>15, <1>16 DEF Next, benchmark

LEMMA ControlStep == IInv /\ [Next]_vars => Control'
  <1> SUFFICES ASSUME TypeOK, Control, Texts, [Next]_vars PROVE Control'
    BY DEF IInv
  <1> USE DEF argVars, resultVars, fileVars, libVars, audioVars, Control, Loop
  <1>1. CASE Signal
    BY <1>1 DEF Signal
  <1>2. CASE TraveDir
    BY <1>2 DEF TraveDir
  <1>3. CASE MsAsrInit
    BY <1>3 DEF MsAsrInit
  <1>4. CASE TestPny
    BY <1>4 DEF TestPny, Register
  <1>5. CASE TestHan
    BY <1>5 DEF TestHan, Register
  <1>6. CASE SetDevFails \/ SetDev
    BY <1>6 DEF SetDevFails, SetDev
  <1>7. CASE RunFrame \/ RunOut
    BY <1>7 DEF RunFrame, RunOut
  <1>8. CASE Interrupted \/ Break
    BY <1>8 DEF Interrupted, Break
  <1>9. CASE Write \/ Clear
    BY <1>9 DEF Write, Clear
  <1>10. CASE AllRun \/ Fclose
    BY <1>10 DEF AllRun, Fclose
  <1>11. CASE UNCHANGED vars
    BY <1>11 DEF vars
  <1> QED
    BY <1>1, <1>2, <1>3, <1>4, <1>5, <1>6, <1>7, <1>8, <1>9, <1>10, <1>11
       DEF Next, benchmark

(* A file is in the list once.                                             *)
LEMMA Distinct ==
    ASSUME TypeOK, NEW j \in 1..Len(file_name), NEW k \in 1..Len(file_name),
           file_name[j] = file_name[k]
    PROVE  j = k
  BY ListAssumption DEF TypeOK

LEMMA LengthIsNat == TypeOK => Len(file_name) \in Nat /\ i \in Nat
  BY ListAssumption DEF TypeOK

(* Hearing a frame of the file being run leaves the other files alone.     *)
LEMMA OtherFiles ==
    ASSUME TypeOK, MoreFiles, RunFrame, NEW k \in 1..Len(file_name), k # i
    PROVE  heard'[file_name[k]] = heard[file_name[k]]
  <1>1. file_name[k] # Source
    BY SourceType, Distinct DEF Source
  <1>2. file_name[k] \in Name
    BY SourceIsName
  <1>3. \/ heard' = heard
        \/ heard' = [heard EXCEPT ![Source] = Append(@, Frame)]
    BY DEF RunFrame
  <1>4. heard \in [Name -> FrameText]
    BY DEF TypeOK
  <1> HIDE DEF Name
  <1> QED BY <1>1, <1>2, <1>3, <1>4

LEMMA TextsStep == IInv /\ [Next]_vars => Texts'
  <1> SUFFICES ASSUME TypeOK, Control, Texts, [Next]_vars PROVE Texts'
    BY DEF IInv
  <1> USE DEF argVars, resultVars, fileVars, libVars, audioVars, InFile
  <1>1. CASE Signal
    BY <1>1 DEF Signal, Texts, MoreFiles, Source
  <1>2. CASE TraveDir
    <2>1. CASE file_name' \in Lists
      <3>1. \A k \in 1..Len(file_name') : file_name'[k] \in Name
        BY <2>1, ListAssumption
      <3>2. \A k \in 1..Len(file_name') : heard'[file_name'[k]] = <<>>
        BY <1>2, <3>1 DEF TraveDir, Texts
      <3> QED BY <1>2, <3>2 DEF TraveDir, Texts
    <2>2. CASE pc' = "done"
      BY <2>2 DEF Texts
    <2> QED BY <1>2, <2>1, <2>2 DEF TraveDir
  <1>3. CASE MsAsrInit
    BY <1>3 DEF MsAsrInit, Texts
  <1>4. CASE TestPny
    BY <1>4 DEF TestPny, Register, Texts
  <1>5. CASE TestHan
    BY <1>5 DEF TestHan, Register, Texts
  <1>6. CASE SetDevFails
    BY <1>6 DEF SetDevFails, Texts
  <1>7. CASE SetDev
    <2>1. memory = <<>> /\ \A k \in i..Len(file_name) : heard[file_name[k]] = <<>>
      BY <1>7 DEF SetDev, Texts
    <2>2. heard[Source] = <<>>
      BY <1>7, <2>1, SourceType DEF SetDev, Source
    <2>3. \A k \in (i + 1)..Len(file_name) : heard[file_name[k]] = <<>>
      BY <2>1, LengthIsNat
    <2> QED BY <1>7, <2>1, <2>2, <2>3 DEF SetDev, Texts, MoreFiles, Source
  <1>8. CASE RunFrame
    <2>1. /\ MoreFiles /\ memory = heard[Source]
          /\ testpny => pny_result = heard[Source]
          /\ testhan => han_result = heard[Source]
      BY <1>8 DEF RunFrame, Texts
    <2>2. \A k \in (i + 1)..Len(file_name) : heard'[file_name[k]] = <<>>
      <3>1. \A k \in (i + 1)..Len(file_name) : k \in 1..Len(file_name) /\ k # i
        BY LengthIsNat
      <3> QED BY <1>8, <2>1, <3>1, OtherFiles DEF RunFrame, Texts
    <2>3. ("RAW" \in decoders <=> testpny) /\ ("LVCSR" \in decoders <=> testhan)
      BY <1>8 DEF RunFrame, Control, Loop
    <2>4. /\ memory' = heard'[Source]
          /\ testpny => pny_result' = heard'[Source]
          /\ testhan => han_result' = heard'[Source]
      <3>1. Source \in Name
        BY <2>1, SourceType
      <3> QED BY <1>8, <2>1, <2>3, <3>1 DEF RunFrame, test_rawcb, test_lvcsrcb, TypeOK
    <2> QED BY <1>8, <2>1, <2>2, <2>4 DEF RunFrame, Texts, MoreFiles, Source
  <1>9. CASE RunOut
    BY <1>9 DEF RunOut, Texts, MoreFiles, Source
  <1>10. CASE Interrupted
    BY <1>10 DEF Interrupted, Texts, MoreFiles, Source
  <1>11. CASE Break
    BY <1>11 DEF Break, Texts
  <1>12. CASE Write
    BY <1>12 DEF Write, Texts, MoreFiles, Source
  <1>13. CASE Clear
    BY <1>13 DEF Clear, Texts
  <1>14. CASE AllRun
    BY <1>14 DEF AllRun, Texts
  <1>15. CASE Fclose
    BY <1>15 DEF Fclose, Texts
  <1>16. CASE UNCHANGED vars
    BY <1>16 DEF vars, Texts, MoreFiles, Source
  <1> QED
    BY <1>1, <1>2, <1>3, <1>4, <1>5, <1>6, <1>7, <1>8, <1>9, <1>10, <1>11, <1>12, <1>13,
       <1>14, <1>15, <1>16 DEF Next, benchmark

LEMMA CountsStep == IInv /\ [Next]_vars => Counts'
  <1> SUFFICES ASSUME TypeOK, Control, Texts, Counts, [Next]_vars PROVE Counts'
    BY DEF IInv
  <1> USE DEF argVars, resultVars, fileVars, libVars, audioVars, Counts, CountOf, Loop,
              Written, Control
  <1>1. CASE Signal
    BY <1>1 DEF Signal
  <1>2. CASE TraveDir
    BY <1>2 DEF TraveDir
  <1>3. CASE MsAsrInit
    BY <1>3 DEF MsAsrInit
  <1>4. CASE TestPny
    BY <1>4 DEF TestPny, Register, Texts
  <1>5. CASE TestHan
    BY <1>5 DEF TestHan, Register, Texts
  <1>6. CASE SetDevFails \/ SetDev
    BY <1>6 DEF SetDevFails, SetDev
  <1>7. CASE RunFrame \/ RunOut
    BY <1>7 DEF RunFrame, RunOut
  <1>8. CASE Interrupted \/ Break
    BY <1>8 DEF Interrupted, Break
  <1>9. CASE Write
    <2>1. Len(Append(pny_txt, ResultLine(pny_result))) = Len(pny_txt) + 1
      BY DEF TypeOK
    <2>2. Len(Append(han_txt, ResultLine(han_result))) = Len(han_txt) + 1
      BY DEF TypeOK
    <2> QED BY <1>9, <2>1, <2>2, LengthIsNat DEF Write
  <1>10. CASE Clear
    BY <1>10, LengthIsNat DEF Clear
  <1>11. CASE AllRun
    BY <1>11, LengthIsNat DEF AllRun, MoreFiles, TypeOK
  <1>12. CASE Fclose
    BY <1>12, LengthIsNat DEF Fclose
  <1>13. CASE UNCHANGED vars
    BY <1>13 DEF vars
  <1> QED
    BY <1>1, <1>2, <1>3, <1>4, <1>5, <1>6, <1>7, <1>8, <1>9, <1>10, <1>11, <1>12, <1>13
       DEF Next, benchmark

-----------------------------------------------------------------------------
(* The lines of one result file stay what they are, and a new one is whole.*)
LEMMA WholeAppend ==
    ASSUME TypeOK, MoreFiles, NEW txt, NEW text,
           txt \in Seq([file : Name, text : FrameText]),
           WholeLines(txt), Len(txt) = i - 1,
           Source \in ended, text = heard[Source]
    PROVE  WholeLines(Append(txt, ResultLine(text)))
  <1>1. Len(Append(txt, ResultLine(text))) = i
    BY LengthIsNat
  <1>2. ASSUME NEW k \in 1..(i - 1)
        PROVE  Append(txt, ResultLine(text))[k] = txt[k]
    BY <1>2, LengthIsNat
  <1>3. Append(txt, ResultLine(text))[i] = [file |-> Source, text |-> text]
    BY LengthIsNat DEF ResultLine
  <1>4. i \in 1..Len(file_name)
    BY SourceType
  <1>5. \A k \in 1..i : k = i \/ k \in 1..(i - 1)
    BY LengthIsNat
  <1> QED BY <1>1, <1>2, <1>3, <1>4, <1>5 DEF WholeLines, Source

(* A frame of the file being run changes no line: there is none of it yet. *)
LEMMA WholeRun ==
    ASSUME TypeOK, MoreFiles, RunFrame, NEW txt,
           WholeLines(txt), Len(txt) \in Nat, Len(txt) < i
    PROVE  \A k \in 1..Len(txt) : heard'[txt[k].file] = heard[txt[k].file]
  <1> SUFFICES ASSUME NEW k \in 1..Len(txt)
               PROVE  heard'[txt[k].file] = heard[txt[k].file]
    OBVIOUS
  <1>1. k \in 1..Len(file_name) /\ k # i /\ txt[k].file = file_name[k]
    BY LengthIsNat DEF WholeLines
  <1> QED BY <1>1, OtherFiles

LEMMA LinesStep == IInv /\ [Next]_vars => LinesOfTheirFiles'
  <1> SUFFICES ASSUME IInv, [Next]_vars PROVE LinesOfTheirFiles'
    OBVIOUS
  <1>a. TypeOK /\ LinesOfTheirFiles /\ WholeLines(pny_txt) /\ WholeLines(han_txt)
    BY DEF IInv, LinesOfTheirFiles
  <1> USE DEF argVars, resultVars, fileVars, libVars, audioVars
  <1>1. CASE UNCHANGED <<file_name, pny_txt, han_txt, heard, ended>>
    BY <1>1, <1>a DEF LinesOfTheirFiles, WholeLines
  <1>2. CASE TraveDir
    <2>1. pny_txt' = <<>> /\ han_txt' = <<>>
      BY <1>2 DEF TraveDir, IInv, Counts, CountOf
    <2> QED BY <2>1 DEF LinesOfTheirFiles, WholeLines
  <1>3. CASE RunOut
    BY <1>3, <1>a DEF RunOut, LinesOfTheirFiles, WholeLines
  <1>4. CASE RunFrame
    <2>1. MoreFiles
      BY <1>4 DEF RunFrame, IInv, Texts, InFile
    <2>2. /\ Len(pny_txt) \in Nat /\ Len(pny_txt) < i
          /\ Len(han_txt) \in Nat /\ Len(han_txt) < i
      BY <1>4, <2>1, <1>a, SourceType DEF RunFrame, IInv, Counts, CountOf, Loop, Written
    <2>3. /\ \A k \in 1..Len(pny_txt) : heard'[pny_txt[k].file] = heard[pny_txt[k].file]
          /\ \A k \in 1..Len(han_txt) : heard'[han_txt[k].file] = heard[han_txt[k].file]
      BY <1>4, <2>1, <2>2, <1>a, WholeRun
    <2> QED BY <1>4, <2>3, <1>a DEF RunFrame, LinesOfTheirFiles, WholeLines
  <1>5. CASE Write
    <2>1. MoreFiles /\ Source \in ended /\ pc \in Loop /\ pc # "clear"
      BY <1>5 DEF Write, IInv, Texts, InFile, Loop
    <2>2. /\ fw_pny = "open" => Len(pny_txt) = i - 1 /\ pny_result = heard[Source]
          /\ fw_han = "open" => Len(han_txt) = i - 1 /\ han_result = heard[Source]
      BY <1>5, <2>1 DEF Write, IInv, Texts, InFile, Counts, CountOf, Written, Control
    <2>3. CASE fw_pny = "open" /\ fw_han = "open"
      <3>1. /\ WholeLines(Append(pny_txt, ResultLine(pny_result)))
            /\ WholeLines(Append(han_txt, ResultLine(han_result)))
        BY <2>1, <2>2, <2>3, <1>a, WholeAppend DEF TypeOK
      <3> QED BY <1>5, <2>3, <3>1 DEF Write, LinesOfTheirFiles, WholeLines
    <2>4. CASE fw_pny = "open" /\ fw_han # "open"
      <3>1. WholeLines(Append(pny_txt, ResultLine(pny_result)))
        BY <2>1, <2>2, <2>4, <1>a, WholeAppend DEF TypeOK
      <3> QED BY <1>5, <2>4, <3>1, <1>a DEF Write, LinesOfTheirFiles, WholeLines
    <2>5. CASE fw_pny # "open" /\ fw_han = "open"
      <3>1. WholeLines(Append(han_txt, ResultLine(han_result)))
        BY <2>1, <2>2, <2>5, <1>a, WholeAppend DEF TypeOK
      <3> QED BY <1>5, <2>5, <3>1, <1>a DEF Write, LinesOfTheirFiles, WholeLines
    <2>6. CASE fw_pny # "open" /\ fw_han # "open"
      BY <1>5, <2>6, <1>a DEF Write, LinesOfTheirFiles, WholeLines
    <2> QED BY <2>3, <2>4, <2>5, <2>6
  <1>6. \/ UNCHANGED <<file_name, pny_txt, han_txt, heard, ended>>
        \/ TraveDir \/ RunOut \/ RunFrame \/ Write
    BY DEF Next, benchmark, Signal, MsAsrInit, TestPny, TestHan, SetDevFails, SetDev,
           Interrupted, Break, Clear, AllRun, Fclose, vars
  <1> QED BY <1>1, <1>2, <1>3, <1>4, <1>5, <1>6

-----------------------------------------------------------------------------
THEOREM Invariance == Spec => []IInv
  <1>1. IInv /\ [Next]_vars => IInv'
    BY TypeStep, ControlStep, TextsStep, CountsStep, LinesStep DEF IInv
  <1> QED BY <1>1, IInvInit, PTL DEF Spec

(* The types of the bench's variables.                                     *)
THEOREM TypeCorrect == Spec => []TypeOK
  <1>1. IInv => TypeOK
    BY DEF IInv
  <1> QED BY <1>1, Invariance, PTL

(* Each line of a result file is the whole of what was heard of its file,  *)
(* whenever SIGINT comes and whatever fails (benchmark.c:163).             *)
THEOREM LinesAreTheirFiles == Spec => []LinesOfTheirFiles
  <1>1. IInv => LinesOfTheirFiles
    BY DEF IInv
  <1> QED BY <1>1, Invariance, PTL

(* Without a signal or a failure every file has its line.                  *)
THEOREM AllAreTested == Spec => []AllTested
  <1>1. IInv => AllTested
    BY DEF IInv, AllTested, Counts, CountOf
  <1> QED BY <1>1, Invariance, PTL

(* So the result files are right, whenever the bench is looked at.         *)
THEOREM ResultsAreRight == Spec => []ResultsRight
  <1>1. TypeOK /\ LinesOfTheirFiles /\ AllTested => ResultsRight
    BY DEF ResultsRight
  <1> QED BY <1>1, TypeCorrect, LinesAreTheirFiles, AllAreTested, PTL

(* The bench calls the library in an order AsrProtocol allows.             *)
THEOREM ImplementsProtocol == Spec => KeepsProtocol
  <1>1. Init => Protocol!Init
    BY DEF Init, Protocol!Init
  <1>2. IInv /\ [Next]_vars => [Protocol!Next]_(Protocol!protocolVars)
    <2> SUFFICES ASSUME Control, [Next]_vars, ~ UNCHANGED libVars
                 PROVE  Protocol!Next
      BY DEF IInv, libVars, Protocol!protocolVars
    <2> USE DEF Control, Loop
    <2>1. CASE MsAsrInit
      BY <2>1 DEF MsAsrInit, Protocol!Next, Protocol!AsrInit
    <2>2. CASE TestPny
      BY <2>2 DEF TestPny, Register, Decoder, libVars, Protocol!Next, Protocol!DecoderCfg, Protocol!After, Protocol!NoSource
    <2>3. CASE TestHan
      BY <2>3 DEF TestHan, Register, Decoder, libVars, Protocol!Next, Protocol!DecoderCfg, Protocol!After, Protocol!NoSource
    <2>4. CASE SetDevFails \/ SetDev
      BY <2>4 DEF SetDevFails, SetDev, Protocol!Next, Protocol!SetDev
    <2>5. CASE RunFrame \/ RunOut
      BY <2>5 DEF RunFrame, RunOut, Protocol!Next, Protocol!Run, Protocol!NoSource
    <2>6. CASE Clear
      BY <2>6 DEF Clear, Protocol!Next, Protocol!Clear, Protocol!NoSource
    <2> QED
      BY <2>1, <2>2, <2>3, <2>4, <2>5, <2>6
         DEF Next, benchmark, Signal, TraveDir, Interrupted, Break, Write, AllRun, Fclose,
             vars, libVars
  <1> QED BY <1>1, <1>2, Invariance, PTL DEF Spec, Protocol!Spec, KeepsProtocol
=============================================================================
