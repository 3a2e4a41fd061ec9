----------------------------- MODULE KconfigText -----------------------------
(* How kconfiglib.py reads the text of a line: preprocessor macros are expanded in    *)
(* place, the rest is cut into tokens, and tokens are parsed into expressions; and     *)
(* how it writes expressions.                                                    *)
(*                                                                         *)
(* A text is a sequence of atoms, the pieces that the regular expressions tell         *)
(* apart: the special ones below, and parts of names, which stand for themselves. A    *)
(* token is a pair of a kind, "kw", "op", "sym" or "text", and a value.                 *)
EXTENDS KconfigTree

CONSTANTS
  Env,           \* os.environ, as far as the files refer to it: texts by name
  EnvRefs,       \* the values of references without parentheses ("$HOME"), by atom
  Shell,         \* what commands print, by their texts
  MaxExpansions  \* of a function within itself; 100 in the code

Kw(name) == <<"kw", name>>
Op(name) == <<"op", name>>
Relations == {"=", "!=", "<", "<=", ">", ">="}
Operators == Relations \cup {"&&", "||", "!", "(", ")"}
Quotes == {"\"", "'"}
IsName(a) == a \notin Operators \cup Quotes \cup {" ", "$(", ",", "\\", "#", ":=", "+="}

TypeTokens == {"bool", "tristate", "int", "hex", "string"}
DefTypes == [def_bool |-> "bool", def_tristate |-> "tristate", def_int |-> "int",
             def_hex |-> "hex", def_string |-> "string"]
SourceTokens == {"source", "rsource", "osource", "orsource"}
SymLines == {"config", "menuconfig"}
EndLines == {"endif", "endmenu", "endchoice"}
_STRING_LEX == TypeTokens \cup SourceTokens \cup {"choice", "comment", "mainmenu", "menu", "prompt"}
Keywords == _STRING_LEX \cup DOMAIN DefTypes \cup SymLines \cup EndLines \cup
            {"default", "depends", "on", "help", "if", "imply", "select", "option", "optional",
             "range", "visible", "env", "modules", "defconfig_list", "allnoconfig_y"}

\* A text in one piece, such as the name of a symbol.
NameOf(text) == FoldLeft(LAMBDA a, b : a \o b, "", text)

\* The first place from i on that passes the test, or the one behind the text.
Seek(s, i, Test(_)) == LET k == SelectInSubSeq(s, i, Len(s), Test) IN IF k = 0 THEN Len(s) + 1 ELSE k
AfterSpace(s, i) == Seek(s, i, LAMBDA a : a # " ")
Strip(s) == SubSeq(s, AfterSpace(s, 1), SelectLastInSeq(s, LAMBDA a : a # " "))
Spliced(s, from, to, part) == SubSeq(s, 1, from - 1) \o part \o SubSeq(s, to + 1, Len(s))

\* Where reading has got in a text, which it changes on the way; or a KconfigError.
At(s, i) == [s |-> s, i |-> i, err |-> ""]
KconfigError(what) == [s |-> <<>>, i |-> 1, err |-> what]
Then(x, Rest(_)) == IF x.err # "" THEN x ELSE Rest(x)

---------------------------------------------------------------------------
(* Macros. The context c has the variables, the place in the file, the arguments of    *)
(* the function that is being expanded, and the names being expanded (open).          *)

\* The built-in functions with their numbers of arguments.
_functions == ("info" :> 1) @@ ("error-if" :> 2) @@ ("filename" :> 0) @@ ("lineno" :> 0)
              @@ ("shell" :> 1) @@ ("warning-if" :> 2)

\* Messages, which some of them print, are left out.
Called(fn, args, c) ==
  CASE fn = "filename" -> At(<<c.file>>, 1)
    [] fn = "lineno" -> At(<<ToString(c.line)>>, 1)
    [] fn = "error-if" /\ args[2] = <<"y">> -> KconfigError("error-if")
    [] fn = "shell" /\ args[2] \in DOMAIN Shell -> At(Shell[args[2]], 1)
    [] OTHER -> At(<<>>, 1)

Integers4 == ("0" :> 0) @@ ("1" :> 1) @@ ("2" :> 2) @@ ("-1" :> -1)
\* The argument that $(1), $(2), ... is replaced by: <<>> if it has no such meaning.
ArgOf(new, args) ==
  LET text == Strip(new[1])
      n == IF Len(text) = 1 /\ text[1] \in DOMAIN Integers4 THEN Integers4[text[1]] ELSE Len(args)
  IN IF n \in 0..(Len(args) - 1) THEN <<args[n + 1]>>
     ELSE IF n \in (-Len(args))..(-1) THEN <<args[Len(args) + n + 1]>> ELSE <<>>

RECURSIVE _expand_macro(_, _, _), MacroFrom(_, _, _, _, _, _), _expand_whole(_, _, _),
          _expand_whole_Again(_, _, _)

\* Variables come before functions, and these before the environment; what is none
\* of them expands to nothing. A variable may not be part of its own value, nor be used
\* while its first value is still being expanded (an AttributeError).
_fn_val(args, c) ==
  LET fn == NameOf(args[1])
      n_expansions == Len(SelectSeq(c.open, LAMBDA o : o = fn))
  IN IF fn \in DOMAIN c.vars
     THEN IF Len(args) = 1 /\ n_expansions > 0 THEN KconfigError("recursive variable")
          ELSE IF Len(args) > 1 /\ n_expansions > MaxExpansions THEN KconfigError("infinite recursion")
          ELSE IF "value" \notin DOMAIN c.vars[fn] THEN KconfigError("no value")
          ELSE _expand_whole(c.vars[fn].value, 1, [c EXCEPT !.args = args, !.open = Append(@, fn)])
     ELSE IF fn \in DOMAIN _functions
     THEN IF Len(args) - 1 # _functions[fn] THEN KconfigError("bad number of arguments")
          ELSE Called(fn, args, c)
     ELSE At(IF fn \in DOMAIN Env THEN Env[fn] ELSE <<>>, 1)

\* The rest of a macro that begins at start: its arguments so far are new, and the
\* next one begins at from. Macros within are expanded as they come.
Replaced(s, start, k, value) ==
  Then(value, LAMBDA v : At(Spliced(s, start, k, v.s), start + Len(v.s)))
ValueOf(args, c) ==
  LET arg == ArgOf(args, c.args) IN IF arg # <<>> THEN At(arg[1], 1) ELSE _fn_val(args, c)
MacroFrom(s, i, start, from, new, c) ==
  LET k == Seek(s, i, LAMBDA a : a \in {")", ",", "$("})
      args == Append(new, SubSeq(s, from, k - 1))
  IN IF k > Len(s) THEN KconfigError("parse error")
     ELSE IF s[k] = "$(" THEN Then(_expand_macro(s, k, c), LAMBDA x : MacroFrom(x.s, x.i, start, from, new, c))
     ELSE IF s[k] = "," THEN MacroFrom(s, k + 1, start, k + 1, args, c)
     ELSE Replaced(s, start, k, ValueOf(args, c))

\* The text with the macro at i replaced by its value, and the place behind it: what
\* comes from a macro is not looked at again.
_expand_macro(s, i, c) == MacroFrom(s, i + 1, i, i + 1, <<>>, c)

\* A macro expanded at the place where it began.
_expand_whole_Again(s, i, c) ==
  LET k == Seek(s, i, LAMBDA a : a = "$(")
  IN IF k > Len(s) THEN At(s, k)
     ELSE Then(_expand_macro(s, k, c), LAMBDA x : _expand_whole_Again(x.s, k, c))
_expand_whole(s, i, c) ==
  LET k == Seek(s, i, LAMBDA a : a = "$(")
  IN IF k > Len(s) THEN At(s, k) ELSE Then(_expand_macro(s, k, c), LAMBDA x : _expand_whole(x.s, x.i, c))

\* A name with macros in it, up to the end of the name.
RECURSIVE _expand_name_iter(_, _, _), _expand_str(_, _, _, _)
_expand_name_iter(s, i, c) ==
  LET k == Seek(s, i, LAMBDA a : ~IsName(a))
  IN IF k > Len(s) \/ s[k] # "$(" THEN At(s, k)
     ELSE Then(_expand_macro(s, k, c), LAMBDA x : _expand_name_iter(x.s, x.i, c))

_expand_name(s, i, c) ==
  Then(_expand_name_iter(s, i, c),
       LAMBDA x : IF Strip(SubSeq(x.s, i, x.i - 1)) = <<>> THEN KconfigError("parse error") ELSE x)

\* A quoted string, up to the quote that ends it. A backslash is dropped and the atom
\* behind it taken as it is.
_expand_str(s, i, quote, c) ==
  LET k == Seek(s, i, LAMBDA a : a \in Quotes \cup {"\\", "$("})
  IN IF k > Len(s) THEN KconfigError("parse error")
     ELSE IF s[k] = quote THEN At(s, k + 1)
     ELSE IF s[k] = "\\" THEN _expand_str(Spliced(s, k, k, <<>>), k + 1, quote, c)
     ELSE IF s[k] # "$(" THEN _expand_str(s, k + 1, quote, c)
     ELSE Then(_expand_macro(s, k, c), LAMBDA x : _expand_str(x.s, x.i, quote, c))

expandvars(text) ==
  FlattenSeq([k \in DOMAIN text |-> IF text[k] \in DOMAIN EnvRefs THEN EnvRefs[text[k]] ELSE <<text[k]>>])

---------------------------------------------------------------------------
(* Tokens.                                                                   *)

Tri == ("n" :> No) @@ ("m" :> M) @@ ("y" :> Y)
\* A symbol by its name, and the constant symbol of a quoted string: the 3 is a value
\* that is none of n, m and y.
_lookup_sym(name) == IF name \in DOMAIN Tri THEN Tri[name] ELSE It(name)
_lookup_const_sym(text) == IF NameOf(text) \in DOMAIN Tri THEN Tri[NameOf(text)] ELSE <<"const", 3, text>>

\* A keyword stands alone: no macro continues it.
IsKeyword(s, k) == s[k] \in Keywords /\ (k < Len(s) => ~IsName(s[k + 1]) /\ s[k + 1] # "$(")
Token(tok, x) == [tok |-> tok] @@ x
NameToken(k, x) == Token(<<"sym", _lookup_sym(NameOf(SubSeq(x.s, k, x.i - 1)))>>, x)
StringToken(k, text, x) ==
  LET val == expandvars(SubSeq(x.s, k + 1, x.i - 2))
  IN Token(IF text THEN <<"text", val>> ELSE <<"sym", _lookup_const_sym(val)>>, x)

\* What begins at k, after the tokens toks. Strings are expected after some keywords,
\* where names need no quotes (and macros need them).
TokenAt(s, k, toks, c) ==
  LET strings == Last(toks) \in {Kw(w) : w \in _STRING_LEX}
      end == Seek(s, k, LAMBDA a : ~IsName(a))
  IN CASE IsKeyword(s, k) -> Token(Kw(s[k]), At(s, k + 1))
       [] ~IsKeyword(s, k) /\ (IsName(s[k]) \/ s[k] = "$(") ->
            IF strings
            THEN IF end <= Len(s) /\ s[end] = "$("
                 THEN Token(<<"text", Append(SubSeq(s, k, end - 1), "$")>>, At([s EXCEPT ![end] = "("], end))
                 ELSE Token(<<"text", SubSeq(s, k, end - 1)>>, At(s, end))
            ELSE NameToken(k, _expand_name(s, k, c))
       [] s[k] \in Quotes ->
            StringToken(k, strings \/ toks[1] = Kw("option"), _expand_str(s, k + 1, s[k], c))
       [] s[k] \in Operators -> Token(Op(s[k]), At(s, k + 1))
       [] OTHER -> Token(Op("none"), KconfigError("parse error"))

\* The tokens after the first one. A comment ends the line.
RECURSIVE TokensFrom(_, _, _)
WithToken(toks, t, c) == TokensFrom(t, Append(toks, t.tok), c)
TokensFrom(x, toks, c) ==
  LET k == AfterSpace(x.s, x.i)
  IN IF x.err # "" THEN [toks |-> <<>>, err |-> x.err]
     ELSE IF k > Len(x.s) \/ x.s[k] = "#" THEN [toks |-> toks, err |-> ""]
     ELSE WithToken(toks, TokenAt(x.s, k, toks, c), c)

\* The tokens of a line: none if it is blank, and "assign" if it begins with no keyword.
_tokenize(s, c) ==
  LET k == AfterSpace(s, 1)
  IN IF k > Len(s) \/ s[k] = "#" THEN [toks |-> <<>>, err |-> ""]
     ELSE IF IsKeyword(s, k) THEN TokensFrom(At(s, k + 1), <<Kw(s[k])>>, c)
     ELSE IF s[k] = "--help--" THEN [toks |-> <<Kw("help")>>, err |-> ""]
     ELSE IF IsName(s[k]) \/ s[k] = "$(" THEN [toks |-> <<Kw("assign")>>, err |-> ""]
     ELSE [toks |-> <<>>, err |-> "parse error"]
=============================================================================
