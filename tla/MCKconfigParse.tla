-------------------------- MODULE MCKconfigParse ---------------------------
(* Sets of small Kconfig files: one with every kind of line, all help texts of    *)
(* three lines, files that source files, nested conditions with implicit menus,     *)
(* all dependencies between a choice, its symbols and two other symbols, and lines    *)
(* of text with macros, strings and expressions.                                *)
EXTENDS KconfigParse

Cfg(i) == [t |-> "config", item |-> i]
Type(type) == [t |-> "type", type |-> type, prompt |-> <<Y>>]
Bare(type) == [t |-> "type", type |-> type, prompt |-> <<>>]
Dep(e) == [t |-> "depends", e |-> e]
If(e) == [t |-> "if", e |-> e]
Default(e, c) == [t |-> "default", e |-> e, c |-> c]
Select(i, c) == [t |-> "select", item |-> i, c |-> c]
Imply(i, c) == [t |-> "imply", item |-> i, c |-> c]
Line0(t) == [t |-> t]
Choice(i) == [t |-> "choice", item |-> i]
Text(n) == [t |-> "text", ind |-> n]
In(text, n) == text @@ [ind |-> n]
Joined(text, n) == text @@ [phys |-> n]
A == It("A")
B == It("B")
C == It("C")
Top1(lines) == [top |-> lines]

Quoted(text) == <<"\"">> \o text \o <<"\"">>
Src(pattern, glob, obl) ==
  [text |-> <<IF obl THEN "source" ELSE "osource", " ">> \o Quoted(pattern), glob |-> glob]
Set(var, op, val) == [text |-> <<var, op>> \o val]
Ref(v) == <<"$(", v, ")">>
Lit(x) == <<x>>

\* Every kind of line.
All == {Top1(
  <<Line0("mainmenu"), Cfg("MODULES"), Type("bool"), Line0("blank"),
    Line0("menu"), Dep(A), [t |-> "visible", e |-> B],
      Joined(Cfg("C"), 2), Joined(Type("tristate"), 3), Default(M, M), Line0("help"), Text(2),
      If(<<"!=", B, M>>), Line0("comment"), Dep(C),
        [t |-> "menuconfig", item |-> "D"], Bare("bool"), [t |-> "prompt", c |-> M], Imply("B", C),
      Line0("endif"), Line0("endmenu"),
    Cfg("A"), [t |-> "def", type |-> "tristate", e |-> M, c |-> Y], Cfg("B"), Type("tristate")>>),
  Top1(<<Cfg("A"), Type("tristate"), Choice("CH"), Type("tristate"), Line0("optional"), Default(It("Z"), Y),
      Cfg("X"), Type("bool"), Cfg("Z"), Line0("endchoice"),
    Cfg("N"), Type("int"), [t |-> "range", low |-> M, high |-> Y, c |-> A], Default(Y, <<"=", A, M>>)>>)}

\* What help texts are made of, and where they end.
HelpLines == {Line0("blank"), Text(2), Text(4), In(Line0("optional"), 2), Joined(Cfg("B"), 2)}
Helps == {Top1(<<Cfg("A"), Type("bool"), Line0("help")>> \o h \o tail) :
            h \in [1..3 -> HelpLines], tail \in {<<>>, <<Line0("help"), Text(1), Cfg("C")>>}}

\* Files that source files, through variables.
Globbed == ("one" :> <<"b">>) @@ ("two" :> <<"b", "c">>) @@ ("self" :> <<"top">>) @@ ("one one" :> <<"c">>)
Sourcing ==
  {[top |-> <<Set("V", first[1], Ref("W")), Set("V", first[2], Lit("one")), Set("W", "=", Lit(w)),
              Line0("menu"), Src(Ref("V"), Globbed, obl), Cfg("A"), Line0("endmenu")>>,
    b |-> <<If(B), Cfg("B"), Bare("bool")>> \o (IF b = "open" THEN <<>> ELSE <<Line0("endif")>>)
          \o (IF b = "again" THEN <<Src(Lit("self"), Globbed, TRUE)>> ELSE <<>>),
    c |-> <<Cfg("C"), Line0("help"), Text(1)>>] :
      first \in {<<"=", "=">>, <<":=", "+=">>, <<"=", "+=">>}, w \in {"one", "two"},
      obl \in BOOLEAN, b \in {"plain", "open", "again"}}
LoopedVar == {[top |-> <<Set("V", "=", Ref("V")), x>>] :
                x \in {Set("W", ":=", Ref("V")), Set("W", ":=", Ref("W")), Set("shell", ":=", <<"$(", "shell", ",", "echo", ")">>),
                        Src(Ref("V"), Globbed, TRUE), Cfg("A")}}

\* Lines that are refused.
BadFiles == {Top1(<<Cfg("A"), Type("string"), Default(<<"and", B, C>>, Y)>>),
            Top1(<<Line0("menu"), Select("A", Y)>>), Top1(<<Line0("endif")>>),
            Top1(<<Line0("menu"), Line0("endif")>>), Top1(<<Cfg("A"), Line0("optional")>>),
            Top1(<<Text(0)>>), Top1(<<Choice("CH")>>)}
           \cup {Top1(<<Line0("comment"), x>>) : x \in {Bare("bool"), Line0("help"), Default(A, Y)}}
           \cup {Top1(<<Line0("menu"), x, Line0("endmenu")>>) :
                   x \in {Type("bool"), [t |-> "prompt", c |-> Y], Line0("help"),
                          [t |-> "def", type |-> "bool", e |-> Y, c |-> Y]}}
           \cup {Top1(<<x, [t |-> "visible", e |-> A]>>) : x \in {Cfg("B"), Line0("comment"), Choice("CH")}}

\* Conditions around symbols that make implicit menus, defined in two places, and
\* selects between them.
Nested ==
  {Top1(<<Cfg("A"), Type("tristate"), If(out), Cfg("B"), Type("tristate"), Dep(<<"!=", A, No>>),
          Line0("menu"), Dep(in), Cfg("C"), Type("tristate"), sel, Line0("endmenu"), Line0("endif"),
          Cfg("D"), Bare("bool"), Dep(A), Cfg("X"), Type("bool"), Dep(It("D")), again, Type("bool")>>) :
      out \in {A, M, <<"not", A>>}, in \in {B, <<"or", A, B>>, Y},
      sel \in {Select("D", Y), Select("X", B), Imply("X", A), Dep(A)}, again \in {Cfg("D"), Cfg("X"), Cfg("Z")}}

\* Dependencies between a choice, its symbols and two symbols inside and outside.
Loopy ==
  {Top1(<<Choice("CH"), Type("bool"), Dep(ch), Default(It("X"), dflt),
            Cfg("X"), Type("bool"), Dep(x), Cfg("B"), Type("bool"),
            Line0("menu"), Cfg("Z"), Type("bool"), Dep(z), Line0("endmenu"),
          Line0("endchoice"), Cfg("A"), Type("bool"), Dep(a), sel>>) :
      ch \in {Y, A, It("Z")}, dflt \in {Y, A}, x \in {Y, A, B}, z \in {Y, It("X")},
      a \in {Y, It("X"), It("Z")}, sel \in {Line0("blank"), Select("Z", It("C"))}}

\* Expressions in all the places that have one, through macros in names and strings.
T(text) == [text |-> text]
Texts == {<<"A">>, <<"m">>, <<"!", " ", "A">>, <<"A", "&&", "B", " ", "||", "C">>, <<"A", "||", "B", "&&", "C">>,
          <<"!", "(", "A", "||", "m", ")", "&&", "(", "C", ")", " ", "#", "(">>, <<"A", " ", "=", "m", "||", "!", "!", "B">>,
          <<"!", "A", "!=", "\"", "y", "\"", "&&", "(", "B", "&&", "C", ")", "&&", "A">>,
          <<"$(", "V", ")", " ", "&&", "$(", "F", ",", "$(", "W", ")", "B", ")">>,
          <<"A", "$(", "W", ")", "||", "$(", "HOME", ")">>}
Places == {<<"if", " ">>, <<"depends", " ", "on", " ">>, <<"visible", " ", "if", " ">>,
           <<"default", " ", "n", " ", "if", " ">>, <<"bool", " ">> \o Quoted(<<"p">>) \o <<"if", " ">>,
           <<"select", " ", "D", " ", "if", " ">>, <<"def_tristate", " ">>}
Macros == <<T(<<"V", " ", "=", " ", "$(", "U", ")">>), T(<<"U", "=", "B">>), T(<<"W", ":=">>),
            T(<<"F", "=", "$(", "1", ")">>), T(<<"$(", "info", ",", "$(", "V", ")", ")">>)>>
Expressions ==
  {Top1(Macros \o (IF place[1] = "visible" THEN <<T(<<"menu", " ">> \o Quoted(<<"x">>))>> ELSE <<>>)
        \o (IF place[1] \in {"if", "visible"} THEN <<>> ELSE <<T(<<"config", " ", "X">>)>>)
        \o <<T(place \o text)>> \o (IF place[1] = "if" THEN <<T(<<"config", " ", "X">>), T(<<"bool">>)>> ELSE <<>>)
        \o (IF place[1] = "if" THEN <<T(<<"endif">>)>> ELSE IF place[1] = "visible" THEN <<T(<<"endmenu">>)>> ELSE <<>>)
        \o <<T(<<"config", " ", "D">>), T(<<"tristate">>), T(<<"config", " ", "MODULES">>), T(<<"def_bool", " ", "y">>)>>) :
      place \in Places, text \in Texts}

\* Strings, and what may come after the keywords.
Strings ==
  {Top1(Macros \o <<Set("L", "=", <<"x", ",", "y">>), Set("G", "=", <<"$(", "F", ",", "$(", "L", ")", "$(", "-1", ")", ")">>),
        T(<<"config", " ", "N">>), T(<<"string", " ", "'", "it", "\\", "'", "s", "'">>), T(<<"default", " ">> \o Quoted(text)),
        T(<<"option", " ", "env", "=">> \o Quoted(<<"HOME">>))>>) :
      text \in {<<"a", "\"">>, <<"'", "a">>, <<"\\", "\"", "a", "\\", "\\">>, <<"\\", "$(", "V", ")">>,
                <<"$(", "G", ",", ",", ")">>, <<"$(", "G", ")">>, <<"$HOME", "$(", "filename", ")", "$(", "lineno", ")">>,
                <<"$(", "shell", ",", "echo", " ", "A", ")">>, <<"$(", "shell", ",", "echo", ")", "x">>, <<"$(", "shell", ")">>, <<"$(", "V">>, <<"$(", "R", ",", ")">>}}
Alone ==
  {Top1(Macros \o <<Set("R", "=", <<"$(", "R", ",", ")">>), T(text), Line0("blank")>>) :
     text \in {<<"$(", "error-if", ",", "$(", "V", ")", ",", "y", ")">>, <<"$(", "error-if", ",", "y", ",", ")">>,
               <<"$(", "V", ")">>, <<"$(", "V", ")", "+=", "$(", "R", ",", ")">>, <<"$(", "W", ")", "=", "x">>,
               <<"W", "+=", "$(", "R", ",", ")">>, <<"--help--">>, <<" ", "#", "if">>, <<"&&">>, <<"config", " ", "$(", "W", ")">>,
               <<"config", " ", "A", " ", "B">>, <<"choice", " ", "CH">>, <<"menu", " ", "$(", "V", ")">>, <<"if", " ", "(", "A">>,
               <<"if", " ", "A", "=", "&&">>, <<"endif">>, <<"endif", " ", "A">>, <<"mainmenu", " ", "main">>, <<"source", " ", "A", " ", "B">>,
               <<"if", " ", "A", ",">>}}
  \cup {Top1(<<T(<<"config", " ", "A">>), T(text)>>) :
     text \in {<<"option", " ", "modules">>, <<"option", " ", "defconfig_list">>, <<"option", " ", "allnoconfig_y">>, <<"option", " ", "x">>, <<"option", " ", "env", " ", "A">>,
               <<"depends", " ", "A">>, <<"range", " ", "A", " ", "&&">>, <<"select", " ", "y">>, <<"prompt", " ", "p", " ", "if", " ", "A">>,
               <<"prompt">>, <<"imply", " ", "B", " ", "if", " ", "(">>, <<"range", " ", "A", " ", "B", " ", "if", " ", "C">>}}
  \cup {Top1(<<If(A), Cfg("B"), Bare("bool"), T(text)>>) : text \in {<<"endif">>, <<"endif", " ", "A">>, <<"endmenu", " ", "A">>}}
  \cup {Top1(<<x, T(<<"option", " ", "defconfig_list">>), Cfg("A"), Bare("string"), T(<<"option", " ", "defconfig_list">>),
               Cfg("MODULES"), Bare("bool"), T(<<"option", " ", "modules">>)>>) : x \in {Line0("comment"), Cfg("B"), Cfg("A")}}
  \cup {Top1(<<Line0("menu"), T(<<"option", " ", "allnoconfig_y">>)>>), Top1(<<[text |-> <<"choice">>, item |-> "CH"], T(<<"optional">>)>>),
        Top1(<<[text |-> <<"source", " ", "A", "B">>, glob |-> Globbed]>>)}

MCFileSystems == All \cup Helps \cup Sourcing \cup LoopedVar \cup BadFiles \cup Nested \cup Loopy
                 \cup Expressions \cup Strings \cup Alone
MCEnv == [KCONFIG_WARN_UNDEF |-> <<"y">>, HOME |-> <<"B">>]
MCEnvRefs == ("$HOME" :> <<"B">>)
MCShell == (<<"echo", " ", "A">> :> <<"A">>) @@ (<<"echo">> :> <<"$(", "V", ")">>)
=============================================================================
