----------------------------- MODULE ParseOpts ------------------------------
(***************************************************************************)
(* parse_opts (components/utils/src/opts.c): one pass over the lines of a  *)
(* configuration file, then a check of the options collected.              *)
(*                                                                         *)
(* Names and values of options stand for themselves.  The options of       *)
(* opts_t fall in classes that parse_opts treats alike: the two types,     *)
(* strings that must be given, numbers that must not be zero, the other    *)
(* numbers, and the strings that may be absent.                            *)
(***************************************************************************)
EXTENDS Integers, Sequences

CONSTANTS
    StringOpts,     \* device_name, model_name, sfst_name, .., font_path
    NumberOpts,     \* model_in_len, beam, bg_prob, scale
    RealOpts,       \* those of them that atof reads: beam, bg_prob, scale
    IntOpts,        \* strip_l, agc, the dbg flags, do_raw, .., testpny, testhan
    FreeStrings,    \* testpath, testlm
    IntTexts,       \* the texts that atoi reads as a number other than 0
    RealTexts,      \* the texts that atof reads as a number other than 0
    Files           \* the files: [lines, readable], see FileAssumption

DeviceTypes == {"pcm", "mic", "wav", "mic2", "mic4", "custom"}
PhoneTypes == {"phone", "pny", "pnytone", "han", "sw1k", "sw3k", "sw5k"}
Types == {"device_type", "phone_type"}
Names == Types \cup StringOpts \cup NumberOpts \cup IntOpts \cup FreeStrings

(* "lines" are the lines that end in a newline: what follows the last      *)
(* newline is never looked at.  "cr" tells that the line ends in \r\n.     *)
(* A file that cannot be opened or has 1000 bytes or more is not readable. *)
(* "NULL" stands for the pointer and is the text of no value.              *)
Line == [kind : {"comment", "plain", "opt"}, name : STRING, value : STRING, cr : BOOLEAN]

ASSUME FileAssumption ==
    \A f \in Files :
       /\ f.lines \in Seq(Line)
       /\ \A j \in 1..Len(f.lines) : f.lines[j].value # "NULL"
       /\ f.readable \in BOOLEAN

ASSUME NameAssumption ==
    /\ Types \cap (StringOpts \cup NumberOpts \cup IntOpts \cup FreeStrings) = {}
    /\ (StringOpts \cup FreeStrings) \cap (NumberOpts \cup IntOpts) = {}
    /\ "0" \notin IntTexts \cup RealTexts

VARIABLES
    file,
    i,          \* the line to be read next
    opts,       \* the options, by name
    pc,         \* "open", "lines", "dump", "check", "done"; "crashed"
    res

vars == <<file, i, opts, pc, res>>

(* memset of opts: NULL, 0, and the first of the types.                    *)
Default(n) ==
    CASE n = "device_type" -> "pcm"
      [] n = "phone_type" -> "phone"
      [] n \in StringOpts \cup FreeStrings -> "NULL"
      [] OTHER -> "0"

Init ==
    /\ file \in Files
    /\ i = 1
    /\ opts = [n \in Names |-> Default(n)]
    /\ pc = "open"
    /\ res = 0

Open ==
    /\ pc = "open"
    /\ IF file.readable THEN pc' = "lines" /\ UNCHANGED res
                        ELSE pc' = "done" /\ res' = -1
    /\ UNCHANGED <<file, i, opts>>

-----------------------------------------------------------------------------
(* The text of a value: the \r of a line that ends in \r\n is cut off.     *)
Text_KeepsCr(line) == IF line.cr THEN "with_cr" ELSE line.value
Text(line) == line.value

(* What is stored of a value: a type that is not known becomes -1, called  *)
(* "bad"; atoi and atof make 0 of what is not a number.                    *)
NumberTexts(n) == IF n \in RealOpts THEN RealTexts ELSE IntTexts
Stored_TypeAsGiven(n, v) ==
    IF n \in NumberOpts \cup IntOpts /\ v \notin NumberTexts(n) THEN "0" ELSE v
Stored(n, v) ==
    CASE n = "device_type" -> IF v \in DeviceTypes THEN v ELSE "bad"
      [] n = "phone_type" -> IF v \in PhoneTypes THEN v ELSE "bad"
      [] n \in NumberOpts \cup IntOpts -> IF v \in NumberTexts(n) THEN v ELSE "0"
      [] OTHER -> v

Reading == pc = "lines" /\ i <= Len(file.lines)

(* Comments, lines without a colon and unknown options are passed over.    *)
SkipLine ==
    /\ Reading
    /\ file.lines[i].kind # "opt" \/ file.lines[i].name \notin Names
    /\ i' = i + 1
    /\ UNCHANGED <<file, opts, pc, res>>

(* An unknown type stops the loop, after it has been stored.               *)
BreaksAt_Never(n, v) == FALSE
BreaksAt(n, v) == n \in Types /\ v = "bad"
SetOption_FirstWins ==
    /\ Reading /\ file.lines[i].kind = "opt" /\ file.lines[i].name \in Names
    /\ LET n == file.lines[i].name
           v == Stored(n, Text(file.lines[i]))
       IN /\ opts' = IF opts[n] = Default(n) THEN [opts EXCEPT ![n] = v] ELSE opts
          /\ pc' = IF BreaksAt(n, v) THEN "dump" ELSE "lines"
    /\ i' = i + 1
    /\ UNCHANGED <<file, res>>
SetOption ==
    /\ Reading /\ file.lines[i].kind = "opt" /\ file.lines[i].name \in Names
    /\ LET n == file.lines[i].name
           v == Stored(n, Text(file.lines[i]))
       IN /\ opts' = [opts EXCEPT ![n] = v]
          /\ pc' = IF BreaksAt(n, v) THEN "dump" ELSE "lines"
    /\ i' = i + 1
    /\ UNCHANGED <<file, res>>

(* No newline after p: the loop ends.                                      *)
EndOfLines ==
    /\ pc = "lines" /\ i > Len(file.lines)
    /\ pc' = "dump"
    /\ UNCHANGED <<file, i, opts, res>>

(* The options are printed; device_type indexes an array of three names,   *)
(* and what it finds outside of it may be printed or end the program.      *)
Dump ==
    /\ pc = "dump"
    /\ pc' = "check" \/ (opts["device_type"] \notin {"pcm", "mic", "wav"} /\ pc' = "crashed")
    /\ UNCHANGED <<file, i, opts, res>>

(* The final check: device_type is compared with the largest type allowed  *)
(* only, so -1 passes.                                                     *)
Rejected ==
    \/ opts["device_type"] \in {"mic2", "mic4", "custom"}
    \/ opts["phone_type"] = "bad"
    \/ \E n \in StringOpts : opts[n] = "NULL"
    \/ \E n \in NumberOpts : opts[n] = "0"

Check ==
    /\ pc = "check"
    /\ pc' = "done"
    /\ res' = IF Rejected THEN -1 ELSE 0
    /\ UNCHANGED <<file, i, opts>>

Next == Open \/ SkipLine \/ SetOption \/ EndOfLines \/ Dump \/ Check

Spec == Init /\ [][Next]_vars

-----------------------------------------------------------------------------
TypeOK ==
    /\ file \in Files
    /\ i \in 1..(Len(file.lines) + 1)
    /\ DOMAIN opts = Names
    /\ opts["device_type"] \in DeviceTypes \cup {"bad"}
    /\ opts["phone_type"] \in PhoneTypes \cup {"bad"}
    /\ pc \in {"open", "lines", "dump", "check", "done", "crashed"}
    /\ res \in {-1, 0}

(* The lines before line k that set option n.                              *)
Sets(n, k) ==
    {j \in 1..(k - 1) : file.lines[j].kind = "opt" /\ file.lines[j].name = n}

(* The meaning of a file, said of the lines read instead of by the loop: a *)
(* later line overrides an earlier one, an option that no line sets keeps  *)
(* its default, and comments, unknown options, lines without a colon and   *)
(* Windows line ends make no difference.                                   *)
LastLineWins ==
    \A n \in Names :
       \/ Sets(n, i) = {} /\ opts[n] = Default(n)
       \/ \E j \in Sets(n, i) :
             /\ \A k \in Sets(n, i) : k <= j
             /\ opts[n] = Stored(n, file.lines[j].value)

(* Nothing after a type that is not known is read: no line but the last    *)
(* one read sets one.                                                      *)
SetsBadType(j) ==
    /\ file.lines[j].kind = "opt" /\ file.lines[j].name \in Types
    /\ Stored(file.lines[j].name, file.lines[j].value) = "bad"
StopsAtBadType == \A j \in 1..(i - 1) : SetsBadType(j) => j = i - 1 /\ pc # "lines"

(* What the lines of a file count for.                                     *)
LinesCount == TypeOK /\ LastLineWins /\ StopsAtBadType
=============================================================================
