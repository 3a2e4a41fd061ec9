----------------------------- MODULE KconfigLine -----------------------------
(* The lines of Kconfig files (kconfiglib.py): what the tokens of a line say, as a      *)
(* record of its keyword t and its operands, and the lines that a menu node is           *)
(* printed as.                                                                *)
EXTENDS KconfigText

CONSTANT ChoiceNames  \* the choices the files mention

---------------------------------------------------------------------------
(* Expressions, from the token i on: the expression, the next token and the error.    *)

Parsed(e, i) == [e |-> e, i |-> i, err |-> ""]
Malformed == [e |-> No, i |-> 1, err |-> "parse error"]
IsSym(toks, i) == i \in DOMAIN toks /\ toks[i][1] = "sym"
IsText(toks, i) == i \in DOMAIN toks /\ toks[i][1] = "text"
_check_token(toks, i, token) == i \in DOMAIN toks /\ toks[i] = token
_expect_sym(toks, i) == IF IsSym(toks, i) THEN Parsed(toks[i][2], i + 1) ELSE Malformed
_expect_nonconst_sym(toks) == IF IsSym(toks, 2) /\ toks[2][2][1] = "item" THEN Parsed(toks[2][2][2], 3)
                              ELSE Malformed

\* p where the line ends, and an error where it does not.
AndEol(toks, p) == IF p.err = "" /\ p.i <= Len(toks) THEN Malformed ELSE p
_expect_str_and_eol(toks, i) == IF IsText(toks, i) THEN AndEol(toks, Parsed(toks[i][2], i + 1)) ELSE Malformed

RECURSIVE _parse_expr(_, _), _parse_and_expr(_, _), _parse_factor(_, _)
\* Both operators group to the right.
Joint(op, left, right) == [right EXCEPT !.e = <<op, left.e, @>>]
Follows(toks, p, tok) == p.err = "" /\ _check_token(toks, p.i, tok)
OrRest(toks, left) ==
  IF Follows(toks, left, Op("||")) THEN Joint("or", left, _parse_expr(toks, left.i + 1)) ELSE left
_parse_expr(toks, i) == OrRest(toks, _parse_and_expr(toks, i))
AndRest(toks, left) ==
  IF Follows(toks, left, Op("&&")) THEN Joint("and", left, _parse_and_expr(toks, left.i + 1)) ELSE left
_parse_and_expr(toks, i) == AndRest(toks, _parse_factor(toks, i))

\* A symbol, a relation between symbols, a negation or an expression in parentheses.
Negated(p) == [p EXCEPT !.e = <<"not", @>>]
InParentheses(toks, inner) == IF Follows(toks, inner, Op(")")) THEN [inner EXCEPT !.i = @ + 1] ELSE Malformed
_parse_factor(toks, i) ==
  LET related == i + 1 \in DOMAIN toks /\ toks[i + 1] \in {Op(r) : r \in Relations}
  IN CASE IsSym(toks, i) /\ ~related -> _expect_sym(toks, i)
       [] IsSym(toks, i) /\ related -> Joint(toks[i + 1][2], _expect_sym(toks, i), _expect_sym(toks, i + 2))
       [] _check_token(toks, i, Op("!")) -> Negated(_parse_factor(toks, i + 1))
       [] _check_token(toks, i, Op("(")) -> InParentheses(toks, _parse_expr(toks, i + 1))
       [] OTHER -> Malformed

\* In a condition, m stands for m && MODULES.
RECURSIVE Cond(_)
Cond(e) ==
  CASE e = M -> <<"and", M, It("MODULES")>>
    [] e[1] \in {"and", "or"} -> <<e[1], Cond(e[2]), Cond(e[3])>>
    [] e[1] = "not" -> <<"not", Cond(e[2])>>
    [] OTHER -> e

_expect_expr_and_eol(toks, i) == AndEol(toks, _parse_expr(toks, i))
_parse_cond(toks, i) ==
  AndEol(toks, IF _check_token(toks, i, Kw("if")) THEN _parse_expr(toks, i + 1) ELSE Parsed(Y, i))

---------------------------------------------------------------------------
(* Lines.                                                                    *)

Refused(what) == [t |-> "error", what |-> what]
\* The line, if what was parsed of it is in order.
Checked(p, LineWith(_)) == IF p.err = "" THEN LineWith(p.e) ELSE Refused(p.err)

\* An assignment: macros in the name of the variable are expanded. A macro may also
\* stand alone, if it leaves nothing.
AssignmentFrom(from, x) ==
  LET op == AfterSpace(x.s, x.i)
  IN IF x.err # "" THEN Refused(x.err)
     ELSE IF Strip(x.s) = <<>> THEN [t |-> "blank"]
     ELSE IF op > Len(x.s) \/ x.s[op] \notin {"=", ":=", "+="} THEN Refused("parse error")
     ELSE [t |-> "assign", var |-> NameOf(SubSeq(x.s, from, x.i - 1)), op |-> x.s[op],
           val |-> SubSeq(x.s, AfterSpace(x.s, op + 1), Len(x.s))]
Assignment(s, c) == AssignmentFrom(AfterSpace(s, 1), _expand_name_iter(s, AfterSpace(s, 1), c))

OptionLine(toks) ==
  LET option == IF Len(toks) = 1 THEN Kw("none") ELSE toks[2]
  IN IF option = Kw("env") /\ _check_token(toks, 3, Op("="))
     THEN Checked(_expect_str_and_eol(toks, 4), LAMBDA e : [t |-> "option", opt |-> "env", var |-> NameOf(e)])
     ELSE IF option \in {Kw(w) : w \in {"allnoconfig_y", "modules", "defconfig_list"}}
     THEN [t |-> "option", opt |-> option[2]]
     ELSE Refused("parse error")

\* The line with a condition behind what was parsed, and with a prompt before it.
WithCond(toks, p, LineWith(_)) ==
  IF p.err # "" THEN Refused(p.err)
  ELSE Checked(_parse_cond(toks, p.i), LAMBDA cond : LineWith(p.e) @@ [c |-> cond])
WithPrompt(toks, line) ==
  IF IsText(toks, 2) THEN Checked(_parse_cond(toks, 3), LAMBDA e : line @@ [c |-> e, prompt |-> <<e>>])
  ELSE Refused("parse error")
Bounds(toks) ==
  IF IsSym(toks, 2) THEN Joint("range", _expect_sym(toks, 2), _expect_sym(toks, 3)) ELSE Malformed

\* What the tokens say, by the first of them.
LineOfTokens(toks) ==
  LET t == toks[1][2]
      Str(LineWith(_)) == Checked(_expect_str_and_eol(toks, 2), LineWith)
  IN CASE t \in SymLines -> Checked(AndEol(toks, _expect_nonconst_sym(toks)), LAMBDA e : [t |-> t, item |-> e])
       [] t = "choice" -> IF Len(toks) = 1 THEN [t |-> t] ELSE Str(LAMBDA e : [t |-> t, item |-> NameOf(e)])
       [] t \in SourceTokens ->
            Str(LAMBDA e : [t |-> "source", pattern |-> NameOf(e), obl |-> t \in {"source", "rsource"}])
       [] t \in {"menu", "comment", "mainmenu"} -> Str(LAMBDA e : [t |-> t])
       [] t = "if" -> Checked(_expect_expr_and_eol(toks, 2), LAMBDA e : [t |-> t, e |-> e])
       [] t \in {"depends", "visible"} ->
            IF _check_token(toks, 2, Kw(IF t = "depends" THEN "on" ELSE "if"))
            THEN Checked(_expect_expr_and_eol(toks, 3), LAMBDA e : [t |-> t, e |-> e])
            ELSE Refused("parse error")
       [] t \in TypeTokens ->
            IF Len(toks) = 1 THEN [t |-> "type", type |-> t, prompt |-> <<>>]
            ELSE WithPrompt(toks, [t |-> "type", type |-> t])
       [] t = "prompt" -> WithPrompt(toks, [t |-> t])
       [] t = "default" -> WithCond(toks, _parse_expr(toks, 2), LAMBDA e : [t |-> t, e |-> e])
       [] t \in DOMAIN DefTypes ->
            WithCond(toks, _parse_expr(toks, 2), LAMBDA e : [t |-> "def", type |-> DefTypes[t], e |-> e])
       [] t = "range" -> WithCond(toks, Bounds(toks), LAMBDA b : [t |-> t, low |-> b[2], high |-> b[3]])
       [] t \in {"select", "imply"} -> WithCond(toks, _expect_nonconst_sym(toks), LAMBDA e : [t |-> t, item |-> e])
       [] t = "option" -> OptionLine(toks)
       [] t \in EndLines -> Checked(AndEol(toks, Parsed(No, 2)), LAMBDA e : [t |-> t])
       [] t \in {"optional", "help"} -> [t |-> t]
       [] OTHER -> Refused("parse error")

\* What a line says. The conditions are as written: see Cond.
Meant(read, s, c) ==
  IF read.err # "" THEN Refused(read.err)
  ELSE IF read.toks = <<>> THEN [t |-> "blank"]
  ELSE IF read.toks[1] = Kw("assign") THEN Assignment(s, c)
  ELSE LineOfTokens(read.toks)
LineOf(s, c) == Meant(_tokenize(s, c), s, c)

---------------------------------------------------------------------------
(* Writing.                                                                  *)

escape(text) == FlattenSeq([k \in DOMAIN text |-> IF text[k] \in {"\\", "\""} THEN <<"\\", text[k]>> ELSE <<text[k]>>])
InQuotes(text) == <<"\"">> \o text \o <<"\"">>

standard_sc_expr_str(e) ==
  CASE e[1] = "item" /\ e[2] \notin ChoiceNames -> <<e[2]>>
    [] e[1] = "item" /\ e[2] \in ChoiceNames -> <<"<", "choice", " ", e[2], ">">>
    [] e \in {No, M, Y} -> << <<"n", "m", "y">>[e[2] + 1] >>
    [] OTHER -> InQuotes(escape(e[3]))

RECURSIVE expr_str(_), expr_str_Plain(_), _parenthesize(_, _)
_parenthesize(e, type) == IF e[1] = type THEN <<"(">> \o expr_str(e) \o <<")">> ELSE expr_str(e)
\* Without the parentheses.
expr_str_Plain(e) ==
  CASE e[1] \in {"item", "const"} -> standard_sc_expr_str(e)
    [] e[1] = "and" -> expr_str_Plain(e[2]) \o <<"&&">> \o expr_str_Plain(e[3])
    [] e[1] = "or" -> expr_str_Plain(e[2]) \o <<"||">> \o expr_str_Plain(e[3])
    [] e[1] = "not" -> <<"!">> \o expr_str_Plain(e[2])
    [] OTHER -> standard_sc_expr_str(e[2]) \o <<e[1]>> \o standard_sc_expr_str(e[3])
\* Also where && binds tighter than || anyway.
expr_str(e) ==
  CASE e[1] \in {"item", "const"} -> standard_sc_expr_str(e)
    [] e[1] = "and" -> _parenthesize(e[2], "or") \o <<"&&">> \o _parenthesize(e[3], "or")
    [] e[1] = "or" -> _parenthesize(e[2], "and") \o <<"||">> \o _parenthesize(e[3], "and")
    [] e[1] = "not" -> IF e[2][1] \in {"item", "const"} THEN <<"!">> \o standard_sc_expr_str(e[2])
                       ELSE <<"!", "(">> \o expr_str(e[2]) \o <<")">>
    [] OTHER -> standard_sc_expr_str(e[2]) \o <<e[1]>> \o standard_sc_expr_str(e[3])

\* A condition without the dependency of the node, which is at its end.
_strip_dep(node, e) ==
  IF e = node.dep THEN Y ELSE IF e[1] = "and" /\ e[3] = node.dep THEN e[2] ELSE e

\* A line with the condition stripped.
indent_add_cond(node, text, cond) ==
  LET e == _strip_dep(node, cond)
  IN IF e = Y THEN text ELSE text \o <<" ", "if", " ">> \o expr_str(e)
Each(props, Text(_)) == [k \in DOMAIN props |-> Text(props[k])]
WithDep(node) == IF node.dep = Y THEN <<>> ELSE << <<"depends", " ", "on", " ">> \o expr_str(node.dep) >>
Title == InQuotes(<<"title">>)

_menu_comment_node_str(node) ==
  << <<node.kind, " ">> \o Title >> \o WithDep(node)
  \o IF node.kind = "comment" \/ node.visibility = Y THEN <<>>
     ELSE << <<"visible", " ", "if", " ">> \o expr_str(node.visibility) >>

\* sc is what is known of the symbol or choice, with whether it is defconfig_list.
_sym_choice_node_str(node, sc) ==
  LET kind == IF node.kind = "sym" THEN "config" ELSE "choice"
      type == IF sc.type = "unknown" THEN "prompt" ELSE sc.type
      Symbols(lines) == IF node.kind = "sym" THEN lines ELSE <<>>
      Cond1(p, text) == indent_add_cond(node, text, Last(p))
  IN << <<kind, " ", node.item>> >>
     \o (IF sc.type # "unknown" /\ node.prompt = <<>> THEN << <<sc.type>> >> ELSE <<>>)
     \o Each(node.prompt, LAMBDA c : indent_add_cond(node, <<type, " ">> \o Title, c))
     \o Symbols(IF node.kind = "sym" /\ sc.allnoconfig_y THEN << <<"option", " ", "allnoconfig_y">> >> ELSE <<>>)
     \o Symbols(IF sc.defconfig_list THEN << <<"option", " ", "defconfig_list">> >> ELSE <<>>)
     \o Symbols(IF sc.env_var # "" THEN << <<"option", " ", "env", "=">> \o InQuotes(<<sc.env_var>>) >> ELSE <<>>)
     \o Symbols(IF node.item = "MODULES" THEN << <<"option", " ", "modules">> >> ELSE <<>>)
     \o Symbols(Each(node.ranges, LAMBDA p : Cond1(p, <<"range", " ">> \o standard_sc_expr_str(p[1]) \o <<" ">>
                                                        \o standard_sc_expr_str(p[2]))))
     \o Each(node.defaults, LAMBDA p : Cond1(p, <<"default", " ">> \o expr_str(p[1])))
     \o (IF node.kind = "choice" /\ sc.optional THEN << <<"optional">> >> ELSE <<>>)
     \o Symbols(Each(node.selects, LAMBDA p : Cond1(p, <<"select", " ", p[1]>>)))
     \o Symbols(Each(node.implies, LAMBDA p : Cond1(p, <<"imply", " ", p[1]>>)))
     \o WithDep(node)

\* A node as the lines of a Kconfig file.
custom_str(node, sc) ==
  IF node.kind \in {"menu", "comment"} THEN _menu_comment_node_str(node) ELSE _sym_choice_node_str(node, sc)
=============================================================================
