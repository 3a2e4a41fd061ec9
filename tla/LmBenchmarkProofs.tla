------------------------- MODULE LmBenchmarkProofs --------------------------
(***************************************************************************)
(* Each sentence is decoded whole and alone, for every text and every      *)
(* length of a chunk.  The inductive invariant IInv says, beside the       *)
(* types, how far the set-up has come (Control), that every line fits in   *)
(* pnyp_list (Fits), that what is left of the rows of a sentence is whole  *)
(* chunks and what the decoder has had are the first of them (Rows), and   *)
(* how many lines are written (Counts).                                    *)
(***************************************************************************)
EXTENDS LmBenchmark, SequenceTheorems, TLAPS

Loop == {"while", "wfst", "clear", "fclose"}

Control ==
    /\ pc \in {"open", "init"} => lib = "off" /\ call = "none"
    /\ pc \in {"open", "init", "cfg"} => /\ decoders = {} /\ fw_han = "NULL"
                                         /\ cur = 1 /\ memory = <<>>
    /\ pc = "cfg" => lib = "on" /\ call = "init"
    /\ pc \in Loop =>
          /\ lib = "on" /\ decoders = {"LVCSR"} /\ call \in {"cfg", "wfst_run", "clear"}
          /\ fw_han \in {"open", "NULL"}
    /\ pc = "while" => memory = <<>>
    /\ pc \in {"wfst", "clear"} => cur <= Len(text)
    /\ pc = "clear" => call = "wfst_run"

Fits == \A n \in 1..Len(text) : 2 * Len(text[n]) + core <= MaxRows

(* The r-th row of the n-th sentence, padded.                              *)
RowOf(n, r) ==
    IF r <= 2 * Len(text[n]) /\ r % 2 = 1 /\ text[n][(r + 1) \div 2] \in Known
    THEN <<n, (r + 1) \div 2>> ELSE Blank

Rows ==
    pc = "wfst" =>
      /\ \E j \in 0..cnt : cnt - row = j * core
      /\ cnt > 0 /\ 2 * Len(text[cur]) <= cnt
      /\ \A r \in 1..cnt : pnyp_list[r] = RowOf(cur, r)
      /\ Len(memory) = row
      /\ \A r \in 1..row : memory[r] = RowOf(cur, r)
      /\ Words(memory) # Silence => han_result = Words(memory)
      /\ row > 0 => call = "wfst_run"

Written == IF pc = "clear" THEN cur ELSE cur - 1
Counts ==
    /\ pc \in {"open", "init", "cfg"} => han_txt = <<>>
    /\ pc \in Loop /\ fw_han = "open" => Len(han_txt) = Written
    /\ fw_han = "NULL" => han_txt = <<>>
    /\ Len(han_txt) <= Len(text)
    /\ pc = "fclose" => exit_flag \/ cur = Len(text) + 1
    /\ pc = "done" /\ fw_han = "closed" => exit_flag \/ Len(han_txt) = Len(text)

IInv == TypeOK /\ Control /\ Fits /\ Rows /\ Counts /\ SentencesDecoded /\ OwnRowsOnly

-----------------------------------------------------------------------------
(* Arithmetic of the chunks: the padding fills the last one, and as long   *)
(* as rows are left there is a whole chunk of them.                        *)
LEMMA PaddingFills ==
    ASSUME NEW c \in Nat \ {0}, NEW n \in Nat
    PROVE  /\ c - (n % c) \in 1..c
           /\ \E j \in 0..(n + (c - (n % c))) : n + (c - (n % c)) = j * c
  <1> DEFINE q == n \div c
             m == n % c
  <1>1. q \in Nat /\ m \in 0..(c - 1) /\ n = c * q + m
    BY SMT
  <1> HIDE DEF q, m
  <1>2. n + (c - m) = (q + 1) * c
    BY <1>1, SMT
  <1>3. q + 1 \in Nat /\ (q + 1) * c = (q + 1) + (q + 1) * (c - 1) /\ (q + 1) * (c - 1) \in Nat
    BY <1>1, SMT
  <1>4. q + 1 \in 0..(n + (c - m))
    BY <1>1, <1>2, <1>3, SMT
  <1> QED BY <1>1, <1>2, <1>4 DEF m

LEMMA WholeChunk ==
    ASSUME NEW c \in Nat \ {0}, NEW rest \in Nat \ {0}, NEW j \in Nat, rest = j * c
    PROVE  c <= rest /\ j - 1 \in 0..(rest - c) /\ rest - c = (j - 1) * c
  <1>1. j # 0
    BY SMT
  <1>2. j - 1 \in Nat /\ j * c = (j - 1) * c + c /\ (j - 1) * c \in Nat
    BY <1>1, SMT
  <1>3. (j - 1) * c = (j - 1) + (j - 1) * (c - 1) /\ (j - 1) * (c - 1) \in Nat
    BY <1>1, SMT
  <1> QED BY <1>2, <1>3, SMT

LEMMA CoreType == TypeOK => core \in Nat \ {0} /\ MaxRows \in Nat /\ core \in CoreLens
  BY FileAssumption DEF TypeOK

(* What the words of some rows are.                                        *)
LEMMA WordsType ==
    ASSUME NEW rows \in Seq(Nat \X Nat)
    PROVE  Words(rows) \in Text
  BY DEF Words, Text, Blank

LEMMA SilentChunk ==
    ASSUME NEW rows \in Seq(Nat \X Nat), NEW more \in Seq(Nat \X Nat),
           Len(rows) + Len(more) <= MaxRows, MaxRows \in Nat, Words(more) = Silence
    PROVE  Words(rows \o more) = Words(rows)
  <1> DEFINE all == rows \o more
  <1>1. /\ all \in Seq(Nat \X Nat) /\ Len(all) = Len(rows) + Len(more)
        /\ \A r \in 1..Len(all) : all[r] = IF r <= Len(rows) THEN rows[r] ELSE more[r - Len(rows)]
    BY ConcatProperties
  <1>2. ASSUME NEW r \in 1..MaxRows PROVE Words(all)[r] = Words(rows)[r]
    <2>1. CASE r \in 1..Len(rows)
      BY <1>1, <2>1 DEF Words
    <2>2. CASE r \in Len(rows) + 1..Len(all)
      <3>1. r - Len(rows) \in 1..Len(more) /\ r - Len(rows) \in 1..MaxRows
        BY <1>1, <2>2
      <3>2. Words(more)[r - Len(rows)] = Blank
        BY <3>1 DEF Silence
      <3>3. more[r - Len(rows)][1] = 0 \/ more[r - Len(rows)] = Blank
        BY <3>1, <3>2 DEF Words
      <3>4. all[r] = more[r - Len(rows)]
        BY <1>1, <2>2
      <3>5. all[r][1] = 0
        BY <3>3, <3>4 DEF Blank
      <3> QED BY <1>1, <2>2, <3>5 DEF Words
    <2>3. CASE r > Len(all)
      BY <1>1, <2>3 DEF Words
    <2> QED BY <1>1, <2>1, <2>2, <2>3
  <1> QED BY <1>2 DEF Words
-----------------------------------------------------------------------------
LEMMA IInvInit == Init => IInv
  <1> SUFFICES ASSUME Init PROVE IInv
    OBVIOUS
  <1> USE DEF Init
  <1>1. MaxRows \in Nat
    BY FileAssumption
  <1>2. TypeOK
    <2>1. [r \in 1..MaxRows |-> Unset] \in Seq(Nat \X Nat) /\ Silence \in Text
      BY <1>1 DEF Unset, Silence, Blank, Text
    <2> QED
      BY <1>1, <2>1 DEF TypeOK, Ended, Decoder, Protocol!Call
  <1>3. Control
    BY DEF Control, Loop
  <1>4. Fits /\ Rows /\ Counts /\ SentencesDecoded /\ OwnRowsOnly
    BY DEF Fits, Rows, Counts, SentencesDecoded, OwnRowsOnly, Loop
  <1> QED BY <1>2, <1>3, <1>4 DEF IInv

(* What is read as the text are lines, and a chunk fits after each.        *)
LEMMA TextRead ==
    ASSUME NEW f \in TestFiles, NEW t \in {f.lines, Rubbish(f)}, NEW c \in CoreLens
    PROVE  /\ t \in Seq(Seq(Syllable) \ {<<>>})
           /\ \A n \in 1..Len(t) : 2 * Len(t[n]) + c <= MaxRows
  <1> DEFINE Line == Seq(Syllable) \ {<<>>}
  <1>1. /\ f.lines \in Seq(Line) /\ f.newline \in BOOLEAN
        /\ f.lines = <<>> => f.newline
        /\ \A n \in 1..Len(f.lines) : 2 * Len(f.lines[n]) + c <= MaxRows
        /\ 2 + c <= MaxRows /\ c \in Nat \ {0} /\ MaxRows \in Nat
    BY FileAssumption
  <1>2. <<"unknown">> \in Line /\ Len(<<"unknown">>) = 1
    BY DEF Syllable
  <1> HIDE DEF Line
  <1>3. CASE t = f.lines
    BY <1>1, <1>3 DEF Line
  <1>4. CASE t = Append(f.lines, <<"unknown">>)
    <2>1. /\ t \in Seq(Line) /\ Len(t) = Len(f.lines) + 1
          /\ \A n \in 1..Len(f.lines) : t[n] = f.lines[n]
          /\ t[Len(f.lines) + 1] = <<"unknown">>
      BY <1>1, <1>2, <1>4, AppendProperties
    <2>2. Len(f.lines) \in Nat
      BY <1>1
    <2>3. \A n \in 1..Len(t) : n \in 1..Len(f.lines) \/ n = Len(f.lines) + 1
      BY <2>1, <2>2
    <2>4. \A n \in 1..Len(t) : 2 * Len(t[n]) + c <= MaxRows
      <3> SUFFICES ASSUME NEW n \in 1..Len(t) PROVE 2 * Len(t[n]) + c <= MaxRows
        OBVIOUS
      <3>1. CASE n \in 1..Len(f.lines)
        BY <1>1, <2>1, <3>1
      <3>2. CASE n = Len(f.lines) + 1
        <4>1. Len(t[n]) = 1
          BY <1>2, <2>1, <3>2
        <4> QED BY <1>1, <4>1
      <3> QED BY <2>3, <3>1, <3>2
    <2> QED BY <2>1, <2>4 DEF Line
  <1>5. CASE ~f.newline /\ t = Rubbish(f)
    <2> DEFINE l == Len(f.lines)
               line == f.lines[l]
               last == [line EXCEPT ![Len(line)] = "unknown"]
    <2>1. l \in 1..Len(f.lines) /\ line \in Line
      BY <1>1, <1>5, EmptySeq, LenProperties
    <2>2. Len(line) \in 1..Len(line) /\ line \in Seq(Syllable)
      BY <2>1, EmptySeq, LenProperties DEF Line
    <2>3. last \in Seq(Syllable) /\ Len(last) = Len(line)
      BY <2>2, ExceptSeq DEF Syllable
    <2>4. last \in Line
      BY <2>2, <2>3 DEF Line
    <2>5. t = [f.lines EXCEPT ![l] = last]
      BY <1>5 DEF Rubbish
    <2> HIDE DEF line, last
    <2>6. t \in Seq(Line) /\ Len(t) = Len(f.lines)
      BY <1>1, <2>1, <2>4, <2>5, ExceptSeq
    <2>7. \A n \in 1..Len(t) : t[n] = IF n = l THEN last ELSE f.lines[n]
      BY <1>1, <2>1, <2>4, <2>5, <2>6, ExceptSeq
    <2>8. \A n \in 1..Len(t) : Len(t[n]) = Len(f.lines[n])
      BY <2>3, <2>6, <2>7 DEF line
    <2> QED BY <1>1, <2>6, <2>8 DEF Line
  <1> QED BY <1>3, <1>4, <1>5, <1>1 DEF Rubbish

LEMMA BlankRows ==
    ASSUME NEW k \in Nat
    PROVE  /\ [r \in 1..k |-> Blank] \in Seq(Nat \X Nat)
           /\ Len([r \in 1..k |-> Blank]) = k
           /\ \A r \in 1..k : [s \in 1..k |-> Blank][r] = Blank
  BY DEF Blank

(* The rows of a sentence and the padding.                                 *)
Padded(n) == RowsOf(n) \o [r \in 1..RestCnt(Len(RowsOf(n))) |-> Blank]

LEMMA PaddedRows ==
    ASSUME TypeOK, Fits, NEW n \in 1..Len(text)
    PROVE  /\ Padded(n) \in Seq(Nat \X Nat)
           /\ Len(Padded(n)) \in 1..MaxRows /\ 2 * Len(text[n]) <= Len(Padded(n))
           /\ \E j \in 0..Len(Padded(n)) : Len(Padded(n)) = j * core
           /\ \A r \in 1..Len(Padded(n)) : Padded(n)[r] = RowOf(n, r)
  <1> DEFINE m == 2 * Len(text[n])
             rest == core - (m % core)
             rows == RowsOf(n)
             pad == [r \in 1..rest |-> Blank]
  <1>1. Len(text[n]) \in Nat /\ m \in Nat /\ m + core <= MaxRows /\ n \in Nat
    BY DEF TypeOK, Fits
  <1>2. core \in Nat \ {0} /\ MaxRows \in Nat
    BY CoreType
  <1>3. rest \in 1..core /\ \E j \in 0..(m + rest) : m + rest = j * core
    BY <1>1, <1>2, PaddingFills
  <1>4. rows \in Seq(Nat \X Nat) /\ Len(rows) = m /\ \A r \in 1..m : rows[r] = RowOf(n, r)
    <2>1. \A r \in 1..m : /\ (r + 1) \div 2 \in Nat
                          /\ RowOf(n, r) = IF r % 2 = 1 /\ text[n][(r + 1) \div 2] \in Known
                                           THEN <<n, (r + 1) \div 2>> ELSE Blank
      BY <1>1 DEF RowOf
    <2>2. rows = [r \in 1..m |-> RowOf(n, r)]
      BY <2>1 DEF RowsOf
    <2>3. \A r \in 1..m : RowOf(n, r) \in Nat \X Nat
      BY <1>1, <2>1 DEF Blank
    <2> HIDE DEF rows, m
    <2> QED BY <1>1, <2>2, <2>3
  <1>5. pad \in Seq(Nat \X Nat) /\ Len(pad) = rest /\ \A r \in 1..rest : pad[r] = Blank
    <2> HIDE DEF rest
    <2>1. rest \in Nat
      BY <1>3, <1>2
    <2> QED BY <2>1, BlankRows
  <1>6. Padded(n) = rows \o pad
    BY <1>4 DEF Padded, RestCnt
  <1> HIDE DEF rows, pad, rest, m
  <1>7. /\ Padded(n) \in Seq(Nat \X Nat) /\ Len(Padded(n)) = m + rest
        /\ \A r \in 1..Len(Padded(n)) : Padded(n)[r] = IF r <= m THEN rows[r] ELSE pad[r - m]
    <2>1. /\ rows \o pad \in Seq(Nat \X Nat) /\ Len(rows \o pad) = Len(rows) + Len(pad)
          /\ \A r \in 1..Len(rows) + Len(pad) :
                (rows \o pad)[r] = IF r <= Len(rows) THEN rows[r] ELSE pad[r - Len(rows)]
      BY <1>4, <1>5, ConcatProperties
    <2> QED BY <1>4, <1>5, <1>6, <2>1
  <1>8. ASSUME NEW r \in 1..Len(Padded(n)) PROVE Padded(n)[r] = RowOf(n, r)
    <2>1. CASE r <= m
      <3>1. r \in 1..m
        BY <1>1, <1>7, <2>1
      <3> QED BY <1>4, <1>7, <3>1
    <2>2. CASE r > m
      <3>1. r - m \in 1..rest
        BY <1>1, <1>2, <1>3, <1>7, <2>2
      <3>2. Padded(n)[r] = Blank
        BY <1>1, <1>5, <1>7, <2>2, <3>1
      <3> QED BY <1>1, <2>2, <3>2 DEF RowOf, m
    <2> QED BY <1>1, <1>2, <1>3, <1>7, <2>1, <2>2
  <1>9. Len(Padded(n)) \in 1..MaxRows /\ m <= Len(Padded(n))
    BY <1>1, <1>2, <1>3, <1>7
  <1> QED BY <1>3, <1>7, <1>8, <1>9 DEF m

(* The part of a sequence that follows its first k members.                *)
LEMMA PartOf ==
    ASSUME NEW S, NEW s \in Seq(S), NEW k \in Nat, NEW n \in Nat \ {0}, k + n <= Len(s)
    PROVE  /\ SubSeq(s, k + 1, k + n) \in Seq(S)
           /\ Len(SubSeq(s, k + 1, k + n)) = n
           /\ \A r \in 1..n : SubSeq(s, k + 1, k + n)[r] = s[k + r]
  <1>1. k + 1 \in Int /\ k + n \in Int /\ k + 1 <= k + n /\ (k + n) - (k + 1) + 1 = n
    OBVIOUS
  <1>2. \A i \in (k + 1)..(k + n) : s[i] \in S
    <2>1. \A i \in (k + 1)..(k + n) : i \in 1..Len(s)
      <3>1. Len(s) \in Nat
        OBVIOUS
      <3> QED BY <3>1
    <2> QED BY <2>1
  <1>3. /\ SubSeq(s, k + 1, k + n) \in Seq(S)
        /\ Len(SubSeq(s, k + 1, k + n))
             = IF k + 1 <= k + n THEN (k + n) - (k + 1) + 1 ELSE 0
        /\ \A i \in 1..((k + n) - (k + 1) + 1) :
              SubSeq(s, k + 1, k + n)[i] = s[(k + 1) + i - 1]
    BY <1>1, <1>2, SubSeqProperties
  <1>4. \A r \in 1..n : (k + 1) + r - 1 = k + r
    OBVIOUS
  <1> QED BY <1>1, <1>3, <1>4

(* One chunk run: it is whole, and it is the next rows of the sentence.    *)
LEMMA ChunkRun ==
    ASSUME TypeOK, Control, Rows, WfstRun
    PROVE  /\ row' = row + core /\ row' \in 1..cnt
           /\ \E j \in 0..cnt : cnt - row' = j * core
           /\ memory' \in Seq(Nat \X Nat) /\ Len(memory') = row'
           /\ \A r \in 1..row' : memory'[r] = RowOf(cur, r)
           /\ han_result' \in Text
           /\ Words(memory') # Silence => han_result' = Words(memory')
  <1> DEFINE chunk == SubSeq(pnyp_list, row + 1, row + core)
  <1>1. /\ core \in Nat \ {0} /\ MaxRows \in Nat /\ cnt \in 0..MaxRows /\ row \in 0..cnt
        /\ row < cnt
        /\ memory \in Seq(Nat \X Nat) /\ Len(memory) = row /\ han_result \in Text
        /\ pnyp_list \in Seq(Nat \X Nat) /\ Len(pnyp_list) = MaxRows
        /\ \A r \in 1..cnt : pnyp_list[r] = RowOf(cur, r)
        /\ \A r \in 1..row : memory[r] = RowOf(cur, r)
        /\ Words(memory) # Silence => han_result = Words(memory)
    BY CoreType DEF TypeOK, Rows, WfstRun, MoreRows
  <1>2. row + core \in 1..cnt /\ \E j \in 0..cnt : cnt - (row + core) = j * core
    <2>1. PICK j \in 0..cnt : cnt - row = j * core
      BY DEF Rows, WfstRun
    <2>2. cnt - row \in Nat \ {0} /\ j \in Nat
      BY <1>1, <2>1
    <2>3. core <= cnt - row /\ j - 1 \in 0..(cnt - row - core) /\ cnt - row - core = (j - 1) * core
      BY <1>1, <2>1, <2>2, WholeChunk
    <2>4. j - 1 \in 0..cnt /\ cnt - (row + core) = (j - 1) * core /\ row + core \in 1..cnt
      BY <1>1, <2>3
    <2> QED BY <2>4
  <1>n. /\ core \in Nat \ {0} /\ row \in Nat /\ cnt \in Nat /\ MaxRows \in Nat
        /\ row + core <= cnt /\ cnt <= MaxRows
    <2>1. row + core \in 1..cnt
      BY <1>2
    <2> QED BY <1>1, <2>1
  <1>3. /\ chunk \in Seq(Nat \X Nat) /\ Len(chunk) = core
        /\ \A r \in 1..core : chunk[r] = RowOf(cur, row + r)
    <2>1. pnyp_list \in Seq(Nat \X Nat) /\ row + core <= Len(pnyp_list)
      BY <1>1, <1>n
    <2>2. /\ chunk \in Seq(Nat \X Nat) /\ Len(chunk) = core
          /\ \A r \in 1..core : chunk[r] = pnyp_list[row + r]
      BY <1>1, <1>n, <2>1, PartOf
    <2> HIDE DEF chunk
    <2>3. \A r \in 1..core : row + r \in 1..cnt
      BY <1>n
    <2> QED BY <1>1, <2>2, <2>3
  <1>4. memory' = memory \o chunk /\ row' = row + core
    BY DEF WfstRun
  <1> HIDE DEF chunk
  <1>5. /\ memory' \in Seq(Nat \X Nat) /\ Len(memory') = row + core
        /\ \A r \in 1..(row + core) : memory'[r] = RowOf(cur, r)
    <2>1. /\ memory' \in Seq(Nat \X Nat) /\ Len(memory') = row + core
          /\ \A r \in 1..(row + core) :
                memory'[r] = IF r <= row THEN memory[r] ELSE chunk[r - row]
      <3>1. /\ memory \o chunk \in Seq(Nat \X Nat)
            /\ Len(memory \o chunk) = Len(memory) + Len(chunk)
            /\ \A r \in 1..(Len(memory) + Len(chunk)) :
                  (memory \o chunk)[r] =
                     IF r <= Len(memory) THEN memory[r] ELSE chunk[r - Len(memory)]
        BY <1>1, <1>3, ConcatProperties
      <3> QED BY <1>1, <1>3, <1>4, <3>1
    <2>2. ASSUME NEW r \in 1..(row + core) PROVE memory'[r] = RowOf(cur, r)
      <3>1. CASE r <= row
        <4>1. r \in 1..row
          BY <1>1, <3>1
        <4> QED BY <1>1, <2>1, <3>1, <4>1
      <3>2. CASE r > row
        <4>1. r - row \in 1..core /\ row + (r - row) = r
          BY <1>n, <3>2
        <4>2. memory'[r] = chunk[r - row]
          BY <1>n, <2>1, <3>2
        <4>3. chunk[r - row] = RowOf(cur, row + (r - row))
          BY <1>3, <4>1
        <4> QED BY <4>1, <4>2, <4>3
      <3> QED BY <1>1, <3>1, <3>2
    <2> QED BY <2>1, <2>2
  <1>6. /\ han_result' \in Text
        /\ Words(memory') # Silence => han_result' = Words(memory')
    <2>1. CASE test_lvcsrcb
      BY <1>5, <2>1, WordsType DEF test_lvcsrcb
    <2>2. CASE Words(chunk) = Silence /\ han_result' = han_result
      <3>1. Len(memory) + Len(chunk) <= MaxRows
        BY <1>1, <1>3, <1>n
      <3>2. Words(memory') = Words(memory)
        BY <1>1, <1>3, <1>4, <2>2, <3>1, SilentChunk
      <3> QED BY <1>1, <2>2, <3>2
    <2> QED BY <2>1, <2>2 DEF WfstRun, chunk
  <1> QED BY <1>2, <1>4, <1>5, <1>6

(* The rows of a sentence made.                                            *)
LEMMA RowsMade ==
    ASSUME TypeOK, Control, Fits, GenMat
    PROVE  /\ cur \in 1..Len(text) /\ cnt' \in 1..MaxRows /\ row' = 0
           /\ 2 * Len(text[cur]) <= cnt'
           /\ \E j \in 0..cnt' : cnt' = j * core
           /\ pnyp_list' \in Seq(Nat \X Nat) /\ Len(pnyp_list') = MaxRows
           /\ \A r \in 1..cnt' : pnyp_list'[r] = RowOf(cur, r)
  <1>1. cur \in 1..Len(text)
    BY DEF TypeOK, GenMat
  <1> DEFINE all == Padded(cur)
  <1>2. /\ all \in Seq(Nat \X Nat) /\ Len(all) \in 1..MaxRows /\ 2 * Len(text[cur]) <= Len(all)
        /\ \E j \in 0..Len(all) : Len(all) = j * core
        /\ \A r \in 1..Len(all) : all[r] = RowOf(cur, r)
    BY <1>1, PaddedRows
  <1>3. /\ cnt' = Len(all) /\ row' = 0
        /\ pnyp_list' = [r \in 1..MaxRows |-> IF r <= cnt' THEN all[r] ELSE pnyp_list[r]]
    BY DEF GenMat, Padded
  <1> HIDE DEF all
  <1>4. MaxRows \in Nat /\ pnyp_list \in Seq(Nat \X Nat) /\ Len(pnyp_list) = MaxRows
    BY CoreType DEF TypeOK
  <1>5. \A r \in 1..MaxRows : (IF r <= cnt' THEN all[r] ELSE pnyp_list[r]) \in Nat \X Nat
    <2> SUFFICES ASSUME NEW r \in 1..MaxRows
                 PROVE  (IF r <= cnt' THEN all[r] ELSE pnyp_list[r]) \in Nat \X Nat
      OBVIOUS
    <2>1. CASE r <= cnt'
      <3>1. r \in 1..Len(all)
        BY <1>2, <1>3, <2>1
      <3>2. all[r] \in Nat \X Nat
        BY <1>2, <3>1, ElementOfSeq
      <3> QED BY <2>1, <3>2
    <2>2. CASE ~(r <= cnt')
      <3>1. pnyp_list[r] \in Nat \X Nat
        BY <1>4, ElementOfSeq
      <3> QED BY <2>2, <3>1
    <2> QED BY <2>1, <2>2
  <1>6. pnyp_list' \in Seq(Nat \X Nat) /\ Len(pnyp_list') = MaxRows
    BY <1>3, <1>4, <1>5
  <1>7. \A r \in 1..cnt' : pnyp_list'[r] = RowOf(cur, r)
    <2>1. \A r \in 1..cnt' : r \in 1..MaxRows /\ r <= cnt'
      BY <1>2, <1>3, <1>4
    <2> QED BY <1>2, <1>3, <2>1
  <1> QED BY <1>1, <1>2, <1>3, <1>6, <1>7

LEMMA TypeStep == IInv /\ [Next]_vars => TypeOK'
  <1> SUFFICES ASSUME IInv, [Next]_vars PROVE TypeOK'
    OBVIOUS
  <1>t. TypeOK /\ Control /\ Fits /\ Rows
    BY DEF IInv
  <1> USE <1>t
  <1> USE DEF rowVars, outVars, libVars
  <1>1. CASE Signal
    BY <1>1 DEF Signal, TypeOK
  <1>2. CASE OpenTestFile
    <2>1. cur' = 1 /\ pc' \in {"done", "init"}
      BY <1>2 DEF OpenTestFile, Control
    <2>2. text' \in Seq(Seq(Syllable) \ {<<>>})
      <3>1. CASE \E f \in TestFiles : text' \in {f.lines, Rubbish(f)}
        BY <3>1, CoreType, TextRead
      <3> QED BY <1>2, <3>1 DEF OpenTestFile, TypeOK
    <2>3. cur' \in 1..(Len(text') + 1)
      BY <2>1, <2>2
    <2> QED BY <1>2, <2>1, <2>2, <2>3 DEF OpenTestFile, TypeOK, Ended
  <1>3. CASE MsAsrInit
    BY <1>3 DEF MsAsrInit, TypeOK, Ended, Protocol!Call
  <1>4. CASE CfgLvcsr
    BY <1>4 DEF CfgLvcsr, TypeOK, Ended, Protocol!Call, Decoder
  <1>5. CASE GenMat
    <2>1. cnt' \in 0..MaxRows /\ row' \in 0..cnt'
      BY <1>5, RowsMade, CoreType
    <2> QED BY <1>5, <2>1, RowsMade DEF GenMat, TypeOK
  <1>6. CASE WfstRun
    <2>1. row' \in 0..cnt' /\ Len(memory') <= MaxRows
      <3>1. row' \in 1..cnt /\ Len(memory') = row' /\ cnt' = cnt
        BY <1>6, ChunkRun DEF WfstRun
      <3>2. cnt \in 0..MaxRows /\ MaxRows \in Nat
        BY CoreType DEF TypeOK
      <3> QED BY <3>1, <3>2
    <2> QED BY <1>6, <2>1, ChunkRun DEF WfstRun, TypeOK, Protocol!Call
  <1>7. CASE Break
    BY <1>7 DEF Break, TypeOK
  <1>8. CASE Write
    <2>1. [line |-> cur, text |-> han_result] \in [line : Nat, text : Text]
      BY DEF TypeOK
    <2>2. han_txt' \in Seq([line : Nat, text : Text])
      <3> DEFINE Line == [line : Nat, text : Text]
      <3>1. han_txt \in Seq(Line)
        BY DEF TypeOK
      <3> HIDE DEF Line
      <3>2. Append(han_txt, [line |-> cur, text |-> han_result]) \in Seq(Line)
        BY <2>1, <3>1 DEF Line
      <3> QED BY <1>8, <3>1, <3>2 DEF Write, Line
    <2> QED BY <1>8, <2>2 DEF Write, TypeOK, Ended
  <1>9. CASE Clear
    <2>1. cur' \in 1..(Len(text') + 1)
      BY <1>9 DEF Clear, Control, TypeOK
    <2>2. memory' \in Seq(Nat \X Nat) /\ Len(memory') <= MaxRows
      BY <1>9, CoreType DEF Clear
    <2> QED BY <1>9, <2>1, <2>2 DEF Clear, TypeOK, Protocol!Call
  <1>10. CASE AllDecoded
    BY <1>10 DEF AllDecoded, TypeOK
  <1>11. CASE Fclose
    BY <1>11 DEF Fclose, TypeOK, Ended
  <1>12. CASE UNCHANGED vars
    BY <1>12 DEF vars, TypeOK
  <1> QED
    BY <1>1, <1>2, <1>3, <1>4, <1>5, <1>6, <1>7, <1>8, <1>9, <1>10, <1>11, <1>12
       DEF Next, lm_benchmark

LEMMA ControlStep == IInv /\ [Next]_vars => Control'
  <1> SUFFICES ASSUME TypeOK, Control, Rows, [Next]_vars PROVE Control'
    BY DEF IInv
  <1> USE DEF rowVars, outVars, libVars, Control, Loop
  <1>1. CASE Signal
    BY <1>1 DEF Signal
  <1>2. CASE OpenTestFile \/ MsAsrInit
    BY <1>2 DEF OpenTestFile, MsAsrInit
  <1>3. CASE CfgLvcsr
    BY <1>3 DEF CfgLvcsr
  <1>4. CASE GenMat
    BY <1>4 DEF GenMat
  <1>5. CASE WfstRun
    BY <1>5 DEF WfstRun
  <1>6. CASE Break
    BY <1>6 DEF Break
  <1>7. CASE Write
    <2>1. row > 0 /\ call = "wfst_run"
      <3>1. cnt > 0 /\ ~ (row < cnt) /\ (row > 0 => call = "wfst_run")
        BY <1>7 DEF Write, Rows, MoreRows
      <3>2. row \in 0..cnt /\ cnt \in 0..MaxRows /\ MaxRows \in Nat
        BY CoreType DEF TypeOK
      <3> QED BY <3>1, <3>2
    <2> QED BY <1>7, <2>1 DEF Write
  <1>8. CASE Clear
    BY <1>8 DEF Clear
  <1>9. CASE AllDecoded \/ Fclose
    BY <1>9 DEF AllDecoded, Fclose
  <1>10. CASE UNCHANGED vars
    BY <1>10 DEF vars
  <1> QED
    BY <1>1, <1>2, <1>3, <1>4, <1>5, <1>6, <1>7, <1>8, <1>9, <1>10 DEF Next, lm_benchmark

LEMMA FitsStep == IInv /\ [Next]_vars => Fits'
  <1> SUFFICES ASSUME TypeOK, Fits, [Next]_vars PROVE Fits'
    BY DEF IInv
  <1>1. CASE UNCHANGED <<text, core>>
    BY <1>1 DEF Fits
  <1>2. CASE OpenTestFile
    <2>1. CASE \E f \in TestFiles : text' \in {f.lines, Rubbish(f)}
      BY <1>2, <2>1, CoreType, TextRead DEF Fits, OpenTestFile
    <2> QED BY <1>1, <1>2, <2>1 DEF OpenTestFile
  <1>3. UNCHANGED <<text, core>> \/ OpenTestFile
    BY DEF Next, lm_benchmark, Signal, MsAsrInit, CfgLvcsr, GenMat, WfstRun, Break, Write, Clear,
           AllDecoded, Fclose, vars
  <1> QED BY <1>1, <1>2, <1>3

LEMMA RowsStep == IInv /\ [Next]_vars => Rows'
  <1> SUFFICES ASSUME TypeOK, Control, Fits, Rows, [Next]_vars PROVE Rows'
    BY DEF IInv
  <1> USE DEF rowVars, outVars, libVars
  <1>1. CASE pc' # "wfst"
    BY <1>1 DEF Rows
  <1>2. CASE Signal \/ UNCHANGED vars
    BY <1>2 DEF Signal, vars, Rows, RowOf
  <1>3. CASE GenMat
    <2>1. /\ cnt' > 0 /\ row' = 0 /\ cnt' - row' = cnt' /\ row' \in Nat
      BY <1>3, RowsMade, CoreType
    <2>2. memory' = <<>> /\ core' = core /\ text' = text /\ cur' = cur
      BY <1>3 DEF GenMat, Control
    <2>3. Words(memory') = Silence
      BY <2>2 DEF Words, Silence
    <2>4. \A r \in 1..cnt' : pnyp_list'[r] = RowOf(cur, r)'
      BY <1>3, <2>2, RowsMade DEF RowOf
    <2>5. \E j \in 0..cnt' : cnt' - row' = j * core
      BY <1>3, <2>1, RowsMade
    <2>6. 2 * Len(text[cur]) <= cnt'
      BY <1>3, RowsMade
    <2> QED BY <2>1, <2>2, <2>3, <2>4, <2>5, <2>6 DEF Rows
  <1>4. CASE WfstRun
    <2>1. core' = core /\ text' = text /\ cur' = cur /\ cnt' = cnt /\ pnyp_list' = pnyp_list
      BY <1>4 DEF WfstRun
    <2>2. /\ cnt > 0 /\ 2 * Len(text[cur]) <= cnt
          /\ \A r \in 1..cnt : pnyp_list[r] = RowOf(cur, r)
      BY <1>4 DEF WfstRun, Rows
    <2>3. \A r : RowOf(cur, r)' = RowOf(cur, r)
      BY <2>1 DEF RowOf
    <2>4. call' = "wfst_run"
      BY <1>4 DEF WfstRun
    <2>5. /\ \E j \in 0..cnt' : cnt' - row' = j * core'
          /\ Len(memory') = row'
          /\ Words(memory') # Silence => han_result' = Words(memory')
      BY <1>4, <2>1, ChunkRun
    <2>6. /\ \A r \in 1..cnt' : pnyp_list'[r] = RowOf(cur, r)'
          /\ \A r \in 1..row' : memory'[r] = RowOf(cur, r)'
      BY <1>4, <2>1, <2>2, <2>3, ChunkRun
    <2> QED BY <2>1, <2>2, <2>4, <2>5, <2>6 DEF Rows
  <1>5. pc' # "wfst" \/ Signal \/ UNCHANGED vars \/ GenMat \/ WfstRun
    BY DEF Next, lm_benchmark, OpenTestFile, MsAsrInit, CfgLvcsr, Break, Write, Clear,
           AllDecoded, Fclose
  <1> QED BY <1>1, <1>2, <1>3, <1>4, <1>5

LEMMA CountsStep == IInv /\ [Next]_vars => Counts'
  <1> SUFFICES ASSUME TypeOK, Control, Counts, [Next]_vars PROVE Counts'
    BY DEF IInv
  <1>n. cur \in Nat /\ Len(text) \in Nat /\ Len(han_txt) \in Nat /\ cur <= Len(text) + 1
    BY DEF TypeOK
  <1> USE <1>n DEF rowVars, outVars, libVars, Counts, Control, Loop, Written
  <1>1. CASE Signal
    BY <1>1 DEF Signal
  <1>2. CASE OpenTestFile
    <2>1. Len(text') \in Nat /\ Len(han_txt') = 0 /\ cur' = 1
      <3>1. CASE \E f \in TestFiles : text' \in {f.lines, Rubbish(f)}
        BY <1>2, <3>1, CoreType, TextRead DEF OpenTestFile
      <3> QED BY <1>2, <3>1 DEF OpenTestFile
    <2> QED BY <1>2, <2>1 DEF OpenTestFile
  <1>3. CASE MsAsrInit
    BY <1>3 DEF MsAsrInit
  <1>4. CASE CfgLvcsr
    BY <1>4 DEF CfgLvcsr
  <1>5. CASE GenMat
    BY <1>5 DEF GenMat
  <1>6. CASE WfstRun \/ Break
    BY <1>6 DEF WfstRun, Break
  <1>7. CASE Write
    <2>1. Len(Append(han_txt, [line |-> cur, text |-> han_result])) = Len(han_txt) + 1
      BY DEF TypeOK
    <2> QED BY <1>7, <2>1 DEF Write
  <1>8. CASE Clear
    BY <1>8 DEF Clear
  <1>9. CASE AllDecoded
    BY <1>9 DEF AllDecoded
  <1>10. CASE Fclose
    BY <1>10 DEF Fclose
  <1>11. CASE UNCHANGED vars
    BY <1>11 DEF vars
  <1> QED
    BY <1>1, <1>2, <1>3, <1>4, <1>5, <1>6, <1>7, <1>8, <1>9, <1>10, <1>11
       DEF Next, lm_benchmark

-----------------------------------------------------------------------------
(* What the decoder has had when the rows of a sentence are run out is the *)
(* sentence: its last row comes before the padding.                        *)
LEMMA WordsOfSentence ==
    ASSUME TypeOK, Control, Rows, pc = "wfst", ~MoreRows
    PROVE  Words(memory) = Sentence(cur)
  <1>1. /\ row = cnt /\ cnt \in Nat /\ MaxRows \in Nat /\ cnt <= MaxRows
        /\ Len(memory) = cnt /\ memory \in Seq(Nat \X Nat)
    BY CoreType DEF TypeOK, Rows, MoreRows
  <1>2. /\ \A r \in 1..cnt : memory[r] = RowOf(cur, r)
        /\ 2 * Len(text[cur]) <= cnt
    BY <1>1 DEF Rows
  <1>3. cur \in 1..Len(text) /\ cur # 0 /\ Len(text[cur]) \in Nat
    BY DEF TypeOK, Control
  <1>4. ASSUME NEW r \in 1..MaxRows PROVE Words(memory)[r] = Sentence(cur)[r]
    <2> DEFINE Heard == /\ r % 2 = 1 /\ (r + 1) \div 2 <= Len(text[cur])
                        /\ text[cur][(r + 1) \div 2] \in Known
    <2>1. Sentence(cur)[r] = IF Heard THEN <<cur, (r + 1) \div 2>> ELSE Blank
      BY DEF Sentence
    <2>2. r % 2 = 1 => ((r + 1) \div 2 <= Len(text[cur]) <=> r <= 2 * Len(text[cur]))
      BY <1>3
    <2>3. RowOf(cur, r) = IF Heard THEN <<cur, (r + 1) \div 2>> ELSE Blank
      BY <2>2 DEF RowOf
    <2>4. Words(memory)[r] = IF r \in DOMAIN memory /\ memory[r][1] # 0 THEN memory[r] ELSE Blank
      BY DEF Words
    <2>5. CASE r <= cnt
      <3>1. r \in DOMAIN memory /\ memory[r] = RowOf(cur, r)
        BY <1>1, <1>2, <2>5
      <3>2. CASE Heard
        BY <1>3, <2>1, <2>3, <2>4, <3>1, <3>2
      <3>3. CASE ~Heard
        BY <2>1, <2>3, <2>4, <3>1, <3>3 DEF Blank
      <3> QED BY <3>2, <3>3
    <2>6. CASE r > cnt
      <3>1. r \notin DOMAIN memory
        BY <1>1, <2>6
      <3>2. ~Heard
        BY <1>1, <1>2, <1>3, <2>2, <2>6
      <3> QED BY <2>1, <2>4, <3>1, <3>2
    <2> QED BY <1>1, <2>5, <2>6
  <1> QED BY <1>4 DEF Words, Sentence

LEMMA SentencesStep == IInv /\ [Next]_vars => SentencesDecoded'
  <1> SUFFICES ASSUME TypeOK, Control, Rows, Counts, SentencesDecoded, [Next]_vars
               PROVE  SentencesDecoded'
    BY DEF IInv
  <1> USE DEF rowVars, outVars, libVars
  <1>1. CASE UNCHANGED <<text, han_txt>>
    BY <1>1 DEF SentencesDecoded, Sentence
  <1>2. CASE OpenTestFile
    BY <1>2 DEF OpenTestFile, Counts, SentencesDecoded
  <1>3. CASE Write /\ fw_han = "open"
    <2>1. Len(han_txt) = cur - 1 /\ cur \in Nat
      BY <1>3 DEF Write, Counts, Loop, Written, TypeOK
    <2>2. Sentence(cur) # Silence => han_result = Sentence(cur)
      <3>1. Words(memory) # Silence => han_result = Words(memory)
        BY <1>3 DEF Write, Rows
      <3> QED BY <1>3, <3>1, WordsOfSentence DEF Write
    <2>3. han_txt' = Append(han_txt, [line |-> cur, text |-> han_result]) /\ text' = text
      BY <1>3 DEF Write
    <2> DEFINE Line == [line : Nat, text : Text]
    <2>4. han_txt \in Seq(Line) /\ [line |-> cur, text |-> han_result] \in Line
      BY DEF TypeOK
    <2> HIDE DEF Line
    <2>5. /\ Len(han_txt') = cur
          /\ \A k \in 1..(cur - 1) : han_txt'[k] = han_txt[k]
          /\ han_txt'[cur] = [line |-> cur, text |-> han_result]
      BY <2>1, <2>3, <2>4, AppendProperties
    <2>6. \A k \in 1..cur : k \in 1..Len(han_txt) \/ k = cur
      BY <2>1
    <2>7. \A k : Sentence(k)' = Sentence(k)
      BY <2>3 DEF Sentence
    <2>8. ASSUME NEW k \in 1..cur
          PROVE  han_txt'[k].line = k /\ (Sentence(k) # Silence => han_txt'[k].text = Sentence(k))
      <3>1. CASE k \in 1..Len(han_txt)
        BY <2>1, <2>5, <3>1 DEF SentencesDecoded
      <3>2. CASE k = cur
        BY <2>2, <2>5, <3>2
      <3> QED BY <2>6, <3>1, <3>2
    <2> QED BY <2>5, <2>7, <2>8 DEF SentencesDecoded
  <1>4. \/ UNCHANGED <<text, han_txt>> \/ OpenTestFile \/ (Write /\ fw_han = "open")
    BY DEF Next, lm_benchmark, Signal, MsAsrInit, CfgLvcsr, GenMat, WfstRun, Break, Write, Clear,
           AllDecoded, Fclose, vars
  <1> QED BY <1>1, <1>2, <1>3, <1>4

LEMMA OwnRowsStep == IInv /\ [Next]_vars => OwnRowsOnly'
  <1> SUFFICES ASSUME TypeOK, Control, Rows, OwnRowsOnly, [Next]_vars PROVE OwnRowsOnly'
    BY DEF IInv
  <1> USE DEF rowVars, outVars, libVars
  <1>1. CASE UNCHANGED <<memory, cur>>
    BY <1>1 DEF OwnRowsOnly
  <1>2. CASE Clear
    BY <1>2 DEF Clear, OwnRowsOnly
  <1>3. CASE WfstRun
    <2>1. \A r \in 1..Len(memory') : memory'[r] = RowOf(cur, r)
      BY <1>3, ChunkRun
    <2>2. cur' = cur
      BY <1>3 DEF WfstRun
    <2>3. \A r : RowOf(cur, r) = Blank \/ RowOf(cur, r)[1] = cur
      BY DEF RowOf
    <2> QED BY <2>1, <2>2, <2>3 DEF OwnRowsOnly, Blank
  <1>4. UNCHANGED <<memory, cur>> \/ Clear \/ WfstRun
    BY DEF Next, lm_benchmark, Signal, OpenTestFile, MsAsrInit, CfgLvcsr, GenMat, Break, Write,
           AllDecoded, Fclose, vars
  <1> QED BY <1>1, <1>2, <1>3, <1>4

-----------------------------------------------------------------------------
THEOREM Invariance == Spec => []IInv
  <1>1. IInv /\ [Next]_vars => IInv'
    BY TypeStep, ControlStep, FitsStep, RowsStep, CountsStep, SentencesStep, OwnRowsStep
       DEF IInv
  <1> QED BY <1>1, IInvInit, PTL DEF Spec

(* A sentence with a known syllable has a line with all its words, for     *)
(* every text and every length of a chunk, and a bench that is not         *)
(* interrupted has a line for each line of the text (lm_benchmark.c).      *)
THEOREM ResultsAreRight == Spec => []ResultsRight
  <1>1. IInv => ResultsRight
    BY DEF IInv, ResultsRight, AllLinesTested, Counts
  <1> QED BY <1>1, Invariance, PTL

(* The decoder is never given the rows of another sentence.                *)
THEOREM OwnRows == Spec => []OwnRowsOnly
  <1>1. IInv => OwnRowsOnly
    BY DEF IInv
  <1> QED BY <1>1, Invariance, PTL

(* The bench calls the library in an order AsrProtocol allows.             *)
THEOREM ImplementsProtocol == Spec => KeepsProtocol
  <1>1. Init => Protocol!Init
    BY DEF Init, Protocol!Init
  <1>2. IInv /\ [Next]_vars => [Protocol!Next]_(Protocol!protocolVars)
    <2> SUFFICES ASSUME Control, [Next]_vars, ~ UNCHANGED libVars
                 PROVE  Protocol!Next
      BY DEF IInv, libVars, Protocol!protocolVars
    <2> USE DEF Control, Loop
    <2>1. CASE MsAsrInit
      BY <2>1 DEF MsAsrInit, Protocol!Next, Protocol!AsrInit
    <2>2. CASE CfgLvcsr
      BY <2>2 DEF CfgLvcsr, Decoder, libVars, Protocol!Next, Protocol!DecoderCfg, Protocol!After, Protocol!NoSource
    <2>3. CASE WfstRun
      BY <2>3 DEF WfstRun, Protocol!Next, Protocol!WfstRun, Protocol!After, Protocol!NoSource
    <2>4. CASE Clear
      BY <2>4 DEF Clear, Protocol!Next, Protocol!Clear, Protocol!NoSource
    <2> QED
      BY <2>1, <2>2, <2>3, <2>4
         DEF Next, lm_benchmark, Signal, OpenTestFile, GenMat, Break, Write, AllDecoded, Fclose,
             vars, libVars
  <1> QED BY <1>1, <1>2, Invariance, PTL DEF Spec, Protocol!Spec, KeepsProtocol
=============================================================================
