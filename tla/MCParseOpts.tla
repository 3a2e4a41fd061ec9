---------------------------- MODULE MCParseOpts -----------------------------
(* ParseOpts with a required string, a required integer, a required real    *)
(* and another number: every file of up to MaxLines lines out of twelve.   *)
EXTENDS ParseOpts
LOCAL INSTANCE SequencesExt

CONSTANT MaxLines

Opt(n, v) == [kind |-> "opt", name |-> n, value |-> v, cr |-> FALSE]

MCLines ==
    {[kind |-> "comment", name |-> "beam", value |-> "5", cr |-> FALSE]}
    \cup {Opt("device_type", v) : v \in {"wav", "custom", "mike"}}
    \cup {Opt("phone_type", "tones"), Opt("no_such_option", "1"), Opt("do_kws", "1"),
          Opt("font_path", "./"), Opt("model_in_len", "192")}
    \cup {Opt(n, "0.5") : n \in {"model_in_len", "beam"}}
    \cup {[Opt("beam", "8") EXCEPT !.cr = TRUE]}

MCFiles ==
    [lines : SeqOf(MCLines, MaxLines), readable : {TRUE}]
    \cup [lines : {<<>>}, readable : {FALSE}]
=============================================================================
