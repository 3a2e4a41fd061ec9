-------------------------- MODULE ParseOptsProofs ---------------------------
(***************************************************************************)
(* What parse_opts makes of a file, for every file and every table of      *)
(* option names.  Each step that reads a line extends the set of lines     *)
(* read by one (LEMMA SetsGrows); the invariants follow from that.         *)
(***************************************************************************)
EXTENDS ParseOpts, TLAPS

(* What one more line adds to the lines that set an option.                *)
LEMMA SetsGrows ==
    ASSUME file \in Files, i \in 1..Len(file.lines), UNCHANGED file, i' = i + 1,
           NEW n
    PROVE  Sets(n, i)' = Sets(n, i) \cup
              {j \in {i} : file.lines[j].kind = "opt" /\ file.lines[j].name = n}
<1>1. file.lines \in Seq(Line) /\ Len(file.lines) \in Nat
  BY FileAssumption
<1>2. i \in Nat /\ (1..(i' - 1)) = (1..(i - 1)) \cup {i}
  BY <1>1
<1> QED
  BY <1>2 DEF Sets

(* Reading a line stays inside the file.                                   *)
LEMMA LineRead ==
    ASSUME file \in Files, i \in 1..(Len(file.lines) + 1), Reading
    PROVE  /\ i \in 1..Len(file.lines)
           /\ i + 1 \in 1..(Len(file.lines) + 1)
           /\ file.lines[i] \in Line
<1>1. file.lines \in Seq(Line) /\ Len(file.lines) \in Nat
  BY FileAssumption
<1>2. i \in 1..Len(file.lines)
  BY <1>1 DEF Reading
<1> QED
  BY <1>1, <1>2

LEMMA TypesAreNames == "device_type" \in Names /\ "phone_type" \in Names
BY DEF Names, Types

(* The values that parse_opts keeps of a type.                             *)
LEMMA StoredTypes ==
    ASSUME NEW v
    PROVE  /\ Stored("device_type", v) \in DeviceTypes \cup {"bad"}
           /\ Stored("phone_type", v) \in PhoneTypes \cup {"bad"}
BY NameAssumption DEF Stored, Types

(* The variables keep their types; no step leaves the file or forgets an   *)
(* option (components/utils/src/opts.c, parse_opts).                       *)
THEOREM TypeCorrect == Spec => []TypeOK
<1>1. Init => TypeOK
  <2> SUFFICES ASSUME Init PROVE TypeOK
    OBVIOUS
  <2>1. Len(file.lines) \in Nat
    BY FileAssumption DEF Init
  <2>2. i \in 1..(Len(file.lines) + 1)
    BY <2>1 DEF Init
  <2>3. opts["device_type"] = "pcm" /\ opts["phone_type"] = "phone"
    BY NameAssumption, TypesAreNames DEF Init, Default, Types
  <2> QED
    BY <2>2, <2>3 DEF Init, TypeOK, DeviceTypes, PhoneTypes
<1>2. TypeOK /\ [Next]_vars => TypeOK'
  <2> SUFFICES ASSUME TypeOK, [Next]_vars PROVE TypeOK'
    OBVIOUS
  <2>1. CASE Open
    BY <2>1 DEF Open, TypeOK
  <2>2. CASE SkipLine
    <3>1. i' \in 1..(Len(file.lines) + 1)
      BY <2>2, LineRead DEF SkipLine, TypeOK
    <3> QED
      BY <2>2, <3>1 DEF SkipLine, TypeOK
  <2>3. CASE SetOption
    <3> DEFINE n == file.lines[i].name
               v == Stored(n, Text(file.lines[i]))
    <3>1. i' \in 1..(Len(file.lines) + 1)
      BY <2>3, LineRead DEF SetOption, TypeOK
    <3>2. opts' = [opts EXCEPT ![n] = v] /\ pc' \in {"dump", "lines"}
      BY <2>3 DEF SetOption
    <3>3. DOMAIN opts' = Names
      BY <3>2 DEF TypeOK
    <3>4. opts'["device_type"] \in DeviceTypes \cup {"bad"}
      BY <3>2, StoredTypes, TypesAreNames DEF TypeOK
    <3>5. opts'["phone_type"] \in PhoneTypes \cup {"bad"}
      BY <3>2, StoredTypes, TypesAreNames DEF TypeOK
    <3> QED
      BY <2>3, <3>1, <3>2, <3>3, <3>4, <3>5 DEF SetOption, TypeOK
  <2>4. CASE EndOfLines
    BY <2>4 DEF EndOfLines, TypeOK
  <2>5. CASE Dump
    BY <2>5 DEF Dump, TypeOK
  <2>6. CASE Check
    BY <2>6 DEF Check, TypeOK
  <2>7. CASE UNCHANGED vars
    BY <2>7 DEF vars, TypeOK
  <2> QED
    BY <2>1, <2>2, <2>3, <2>4, <2>5, <2>6, <2>7 DEF Next
<1> QED
  BY <1>1, <1>2, PTL DEF Spec

-----------------------------------------------------------------------------
(* A step that reads no line leaves the options and the lines read alone.  *)
LEMMA OtherSteps ==
    ASSUME Open \/ EndOfLines \/ Dump \/ Check \/ UNCHANGED vars
    PROVE  UNCHANGED <<file, i, opts>>
BY DEF Open, EndOfLines, Dump, Check, vars

(* A later line overrides an earlier one, a missing option has its         *)
(* default, and what is skipped has no effect: opts is a function of the   *)
(* lines read (opts.c, the loop of parse_opts).                            *)
THEOREM LastWins == Spec => []LastLineWins
<1>1. Init => LastLineWins
  BY TypesAreNames DEF Init, LastLineWins, Sets
<1>2. TypeOK /\ LastLineWins /\ [Next]_vars => LastLineWins'
  <2> SUFFICES ASSUME TypeOK, LastLineWins, [Next]_vars, NEW n \in Names
               PROVE  \/ Sets(n, i)' = {} /\ opts'[n] = Default(n)
                      \/ \E j \in Sets(n, i)' :
                            /\ \A k \in Sets(n, i)' : k <= j
                            /\ opts'[n] = Stored(n, file'.lines[j].value)
    BY DEF LastLineWins
  <2>1. CASE UNCHANGED <<file, i, opts>>
    BY <2>1 DEF LastLineWins, Sets
  <2>2. ASSUME SkipLine
        PROVE  Sets(n, i)' = Sets(n, i) /\ UNCHANGED <<file, opts>>
    <3>1. i \in 1..Len(file.lines) /\ i' = i + 1 /\ UNCHANGED <<file, opts>>
      BY <2>2, LineRead DEF SkipLine, TypeOK
    <3>2. ~(file.lines[i].kind = "opt" /\ file.lines[i].name = n)
      BY <2>2 DEF SkipLine
    <3>3. Sets(n, i)' = Sets(n, i) \cup
             {j \in {i} : file.lines[j].kind = "opt" /\ file.lines[j].name = n}
      BY <3>1, SetsGrows DEF TypeOK
    <3> QED
      BY <3>1, <3>2, <3>3
  <2>3. ASSUME SetOption, file.lines[i].name # n
        PROVE  /\ Sets(n, i)' = Sets(n, i)
               /\ opts'[n] = opts[n] /\ UNCHANGED file
    <3>1. i \in 1..Len(file.lines) /\ i' = i + 1 /\ UNCHANGED file
      BY <2>3, LineRead DEF SetOption, TypeOK
    <3>2. opts'[n] = opts[n]
      BY <2>3 DEF SetOption, TypeOK
    <3>3. Sets(n, i)' = Sets(n, i) \cup
             {j \in {i} : file.lines[j].kind = "opt" /\ file.lines[j].name = n}
      BY <3>1, SetsGrows DEF TypeOK
    <3> QED
      BY <2>3, <3>1, <3>2, <3>3
  <2>4. ASSUME SetOption, file.lines[i].name = n
        PROVE  /\ i \in Sets(n, i)' /\ \A k \in Sets(n, i)' : k <= i
               /\ opts'[n] = Stored(n, file'.lines[i].value)
    <3>1. i \in 1..Len(file.lines) /\ i' = i + 1 /\ UNCHANGED file
      BY <2>4, LineRead DEF SetOption, TypeOK
    <3>2. opts'[n] = Stored(n, file.lines[i].value)
      BY <2>4 DEF SetOption, Text, TypeOK
    <3>3. file.lines[i].kind = "opt" /\ file.lines[i].name = n
      BY <2>4 DEF SetOption
    <3>4. Sets(n, i)' = Sets(n, i) \cup {i}
      BY <3>1, <3>3, SetsGrows DEF TypeOK
    <3>5. \A k \in Sets(n, i) : k <= i
      BY <3>1 DEF Sets
    <3> QED
      BY <3>1, <3>2, <3>4, <3>5
  <2>5. CASE SkipLine
    BY <2>2, <2>5 DEF LastLineWins
  <2>6. CASE SetOption
    BY <2>3, <2>4, <2>6 DEF LastLineWins
  <2> QED
    BY <2>1, <2>5, <2>6, OtherSteps DEF Next
<1> QED
  BY <1>1, <1>2, TypeCorrect, PTL DEF Spec

-----------------------------------------------------------------------------
(* No line is read before the file is open.                                *)
StopsInv == StopsAtBadType /\ (pc = "open" => i = 1)

(* Nothing is read after a type that is not known (opts.c:103, opts.c:119).*)
THEOREM BadTypeStops == Spec => []StopsAtBadType
<1>1. Init => StopsInv
  BY DEF Init, StopsInv, StopsAtBadType
<1>2. TypeOK /\ StopsInv /\ [Next]_vars => StopsInv'
  <2>0. ASSUME StopsInv, [Next]_vars, pc' = "open" PROVE i' = 1
    <3>1. UNCHANGED vars
      BY <2>0 DEF Next, Open, SkipLine, SetOption, EndOfLines, Dump, Check, Reading, vars
    <3> QED
      BY <2>0, <3>1 DEF vars, StopsInv
  <2> SUFFICES ASSUME TypeOK, StopsInv, [Next]_vars,
                      NEW j \in 1..(i' - 1), SetsBadType(j)'
               PROVE  j = i' - 1 /\ pc' # "lines"
    BY <2>0 DEF StopsInv, StopsAtBadType
  <2>1. i \in Nat
    BY FileAssumption DEF TypeOK
  <2>2. ASSUME UNCHANGED <<file, i>>
        PROVE  j = i' - 1 /\ pc # "lines"
    BY <2>2 DEF StopsInv, StopsAtBadType, SetsBadType
  <2>3. CASE Open
    <3>1. i' = 1
      BY <2>3 DEF Open, StopsInv
    <3> QED
      BY <3>1
  <2>4. CASE EndOfLines \/ Dump \/ Check \/ UNCHANGED vars
    BY <2>2, <2>4 DEF EndOfLines, Dump, Check, vars
  <2>5. CASE SkipLine
    <3>1. i' = i + 1 /\ UNCHANGED file /\ pc = "lines"
      BY <2>5 DEF SkipLine, Reading
    <3>2. j \in 1..(i - 1) \/ j = i
      BY <2>1, <3>1
    <3>3. ~SetsBadType(i)
      BY <2>5 DEF SkipLine, SetsBadType, Names
    <3> QED
      BY <3>1, <3>2, <3>3 DEF StopsInv, StopsAtBadType, SetsBadType
  <2>6. CASE SetOption
    <3>1. i' = i + 1 /\ UNCHANGED file /\ pc = "lines"
      BY <2>6 DEF SetOption, Reading
    <3>2. j \in 1..(i - 1) \/ j = i
      BY <2>1, <3>1
    <3>3. j = i
      BY <3>1, <3>2 DEF StopsInv, StopsAtBadType, SetsBadType
    <3>4. BreaksAt(file.lines[i].name, Stored(file.lines[i].name, Text(file.lines[i])))
      BY <3>1, <3>3 DEF SetsBadType, BreaksAt, Text
    <3> QED
      BY <2>1, <2>6, <3>1, <3>3, <3>4 DEF SetOption
  <2> QED
    BY <2>3, <2>4, <2>5, <2>6 DEF Next
<1>3. StopsInv => StopsAtBadType
  BY DEF StopsInv
<1> QED
  BY <1>1, <1>2, <1>3, TypeCorrect, PTL DEF Spec

-----------------------------------------------------------------------------
(* The lines of a file count as the options they leave say, for every file *)
(* (opts.c:77).                                                            *)
THEOREM LinesCountAlways == Spec => []LinesCount
  <1>1. TypeOK /\ LastLineWins /\ StopsAtBadType => LinesCount
    BY DEF LinesCount
  <1> QED BY <1>1, TypeCorrect, LastWins, BadTypeStops, PTL
=============================================================================
