--------------------------- MODULE KconfigConfig ---------------------------
(* What a Kconfig instance reads from its configuration files, and what it       *)
(* writes into them (kconfiglib.py), as lines (ConfigLines).                     *)
(*                                                                         *)
(* k is the instance: k.s, the state of its items (KconfigEval), with no cache    *)
(* kept between two calls: KconfigValues shows that the caches do not matter;     *)
(* k.missing, missing_syms; k.twice, the warnings of _assigned_twice().           *)
EXTENDS KconfigEval

CONSTANTS
  Order,          \* unique_defined_syms
  NodeOrder,      \* the symbols and choices as node_iter() meets them
  Known,          \* the names in syms: the defined ones and those only referred to
  AllnoY,         \* the symbols with option allnoconfig_y
  DefconfigList   \* the defaults of the option defconfig_list symbol: <<file, cond>>

Fresh_k == [s |-> Init_s, missing |-> <<>>, twice |-> {}]

---------------------------------------------------------------------------
(* Values.                                                                  *)

\* Every symbol evaluated in the order of definition: value and _write_to_conf.
Evaluated(s) == FoldLeft(LAMBDA acc, i : Ask(<<i, "val">>, acc).s, Uncached(s), Order).c
ValuesIn(c) == [i \in Range(Order) |-> c[<<i, "val">>]]
Values(s) == ValuesIn(Evaluated(s))

This == [defs |-> Defs, order |-> Order, known |-> Known]
_config_contents(s) == config_lines(This, Values(s))

_str_default_None(i, s) == IF Defs[i].type \in BoolTri THEN 0 ELSE Empty
DefaultOrN(dflt, s) == IF dflt = <<>> THEN 0 ELSE Min2(ExprValue(dflt[1][1], s), dflt[2])
MOrYIn(most, i, s) == IF most = 1 /\ TypeOf(i, s).v = "bool" THEN 2 ELSE most
Most(i, s, dflt) ==
  LET d == Defs[i]
  IN MOrYIn(Max2(ExprValue(d.rev_dep, s), Max2(ExprValue(d.weak_rev_dep, s), DefaultOrN(dflt, s))), i, s)
_str_default(i, s) ==
  IF Defs[i].type \notin BoolTri THEN DefaultText(i, FALSE, s).v[1]
  ELSE IF Defs[i].choice # NoItem THEN 0
  ELSE Most(i, s, FirstActive(Defs[i].defaults, s).v)

CannotChange(i, s) ==
  Defs[i].choice = NoItem /\ Vis(i, s) <= ExprValue(Defs[i].rev_dep, s)

\* The symbol its choice selects by default, when that could not be taken back.
SelectedByDefault(i, s) ==
  LET ch == Defs[i].choice
  IN /\ ch # NoItem
     /\ ~Defs[ch].optional
     /\ _selection_from_defaults(ch, Uncached(s)).v = i
     /\ Defs[i].type = "bool"
     /\ Tri(i, s) = 2

MinSyms(s) ==
  {i \in Range(Order) : /\ ~CannotChange(i, s)
                        /\ Fresh(<<i, "val">>, s)[1] # _str_default(i, Uncached(s))
                        /\ ~SelectedByDefault(i, s)}
_min_config_contents(s) == LinesOf(This, Values(s), MinSyms(s))

---------------------------------------------------------------------------
(* load_config().                                                           *)

\* The value a line gives its symbol, None when the line is ignored.
GivenBy(line) ==
  LET bool == Defs[line[1]].type \in BoolTri
  IN IF line[2] = NotSet THEN IF bool THEN 0 ELSE None
     ELSE IF bool /\ ~Accepts(line[1], line[2]) THEN None ELSE line[2]

_undef_assign(line, k) ==
  [k EXCEPT !.missing = Append(@, <<line[1], IF line[2] = NotSet THEN 0 ELSE line[2]>>)]

_assigned_twice(i, v, k) ==
  IF k.s.was[i] THEN [k EXCEPT !.twice = @ \cup {<<i, k.s.user[i], v>>}] ELSE k

InferMode_None(i, v, s) == s
\* The mode of a choice is inferred from the values given to its symbols.
InferMode(i, v, s) ==
  IF Defs[i].type \in BoolTri /\ Defs[i].choice # NoItem /\ v # 0
  THEN SetChoice(Defs[i].choice, v, s) ELSE s

Assign(i, v, k) ==
  IF v = None THEN k
  ELSE [_assigned_twice(i, v, [k EXCEPT !.s = InferMode(i, v, @)]) EXCEPT !.s = set_value(i, v, @)]
LoadLine(k, line) ==
  IF line[1] \notin Range(Order) THEN _undef_assign(line, k) ELSE Assign(line[1], GivenBy(line), k)

Forget(k) == [k EXCEPT !.missing = <<>>, !.s.was = [i \in Items |-> FALSE]]
UnsetRest_None(s) == s
UnsetRest(s) ==
  FoldSet(LAMBDA i, acc : IF acc.was[i] THEN acc ELSE unset_value(i, acc), s, Items)

Finish(loaded, replace) == [loaded EXCEPT !.s = IF replace THEN UnsetRest(@) ELSE @]
_load_config(contents, replace, k) ==
  Finish(FoldLeft(LoadLine, IF replace THEN Forget(k) ELSE k, contents), replace)

\* The first default configuration that applies and can be opened.
FileAt(n) == IF n = 0 THEN NoItem ELSE DefconfigList[n][1]
defconfig_filename(files, k) ==
  FileAt(SelectInSeq(DefconfigList, LAMBDA d : ExprValue(d[2], k.s) # 0 /\ files[d[1]] # Absent))

\* load_config(None): the configuration, the default one, or nothing at all.
LoadNamed(f, files, k) == IF f = NoItem THEN k ELSE _load_config(files[f], TRUE, k)
load_config(files, k) ==
  LoadNamed(IF files[".config"] # Absent THEN ".config" ELSE defconfig_filename(files, k), files, k)

\* The file KCONFIG_ALLCONFIG asks for: the tool's own or all.config for "1";
\* NoItem when there is none to open, which ends the tool.
AllconfigFile(allconfig, own, files) ==
  IF allconfig # "1" THEN IF files[allconfig] = Absent THEN NoItem ELSE allconfig
  ELSE IF files[own] # Absent THEN own
  ELSE IF files["all.config"] # Absent THEN "all.config"
  ELSE NoItem

---------------------------------------------------------------------------
(* The values the all*config tools start from.                               *)

\* A tristate value given to a symbol of another type is refused.
SetEach(syms, Given(_), s) ==
  FoldLeft(LAMBDA acc, i : IF Given(i) = None \/ Defs[i].type \notin BoolTri THEN acc
                           ELSE set_value(i, Given(i), acc), s, syms)
SetChoices(Given(_), s) ==
  FoldSet(LAMBDA i, acc : set_value(i, Given(i), acc), s, ChoiceItems)

allnoconfig(s) == SetEach(Order, LAMBDA i : IF i \in AllnoY THEN 2 ELSE 0, s)
allyesconfig(s) ==
  SetChoices(LAMBDA i : 2, SetEach(Order, LAMBDA i : IF Defs[i].choice # NoItem THEN 1 ELSE 2, s))
allmodconfig(s) ==
  SetChoices(LAMBDA i : IF Defs[i].type = "bool" THEN 2 ELSE 1,
    SetEach(Order, LAMBDA i : CASE Defs[i].type = "bool" /\ Defs[i].choice = NoItem -> 2
                                [] Defs[i].type = "tristate" -> 1
                                [] OTHER -> None, s))

\* allnoconfig_walk.py: lower what can be lowered until a pass changes nothing.
Lowest(set) == CHOOSE v \in set : \A w \in set : v <= w
Lower(acc, i, asg) ==
  IF asg # {} /\ Lowest(asg) < Tri(i, acc.s)
  THEN [s |-> set_value(i, Lowest(asg), acc.s), changed |-> TRUE]
  ELSE acc
WalkOne(acc, i) ==
  IF i \in Range(Order) /\ Defs[i].type \in BoolTri /\ i \notin AllnoY
  THEN Lower(acc, i, Fresh(<<i, "asg">>, acc.s)) ELSE acc
RECURSIVE WalkPasses(_)
AfterPass(pass) == IF pass.changed THEN WalkPasses(pass.s) ELSE pass.s
WalkPasses(s) == AfterPass(FoldLeft(WalkOne, [s |-> s, changed |-> FALSE], NodeOrder))
allnoconfig_walk_NoY(s) == WalkPasses(s)
allnoconfig_walk(s) ==
  WalkPasses(SetEach(Order, LAMBDA i : IF i \in AllnoY THEN 2 ELSE None, s))

---------------------------------------------------------------------------
(* oldconfig.py and listnewconfig.py.                                         *)

\* Whether oldconfig() asks for a value at the node of an item.
AsksSymbol(i, s) ==
  /\ s.user[i] = None
  /\ Defs[i].type \in BoolTri => Cardinality(Fresh(<<i, "asg">>, s)) # 1
  /\ ~(Defs[i].choice # NoItem /\ Tri(Defs[i].choice, s) = 2)

NewInChoice(i, s) ==
  \E j \in Range(Defs[i].syms) \ {s.user[i].sel} : Vis(j, s) # 0 /\ s.user[j] = None
Options(i, s) == {j \in Range(Defs[i].syms) : Vis(j, s) = 2}
AsksChoice(i, s) ==
  /\ s.user[i].sel # NoItem /\ Vis(s.user[i].sel, s) = 2 => NewInChoice(i, s)
  /\ Options(i, s) # {}

Asks(i, s) ==
  /\ Vis(i, s) # 0 /\ Defs[i].prompts # <<>>
  /\ IF i \in ChoiceItems THEN AsksChoice(i, s) ELSE AsksSymbol(i, s)

\* An answer: a value, or Blank; for a choice one of its options, or NoItem. What it
\* makes of the values, and whether conf_changed is set.
Blank == -4
Answered(i, set, old) == [s |-> set, changed |-> Fresh(<<i, "val">>, set)[1] # old]
AnswerOver(i, answer, old, s) ==
  Answered(i, set_value(i, IF answer = Blank THEN old ELSE answer, s), old)
AnswerSymbol(i, answer, s) == AnswerOver(i, answer, Fresh(<<i, "val">>, s)[1], s)

\* The visible symbols that were not selected become n: they are not new now.
SetRest(i, s) ==
  FoldLeft(LAMBDA acc, j : IF j # acc.user[i].sel /\ Vis(j, acc) # 0
                           THEN set_value(j, 0, acc) ELSE acc, s, Defs[i].syms)
Picked(i, pick, chosen, s) ==
  [s |-> SetRest(i, set_value(pick, 2, s)), changed |-> chosen /\ Tri(pick, s) # 2]
AnswerChoice(i, answer, s) ==
  Picked(i, IF answer = NoItem THEN Fresh(<<i, "sel">>, s) ELSE answer, answer # NoItem, s)

\* The symbols listnewconfig prints.
ListNew(s) ==
  {i \in Range(Order) :
     /\ s.user[i] = None
     /\ \/ Defs[i].type \in BoolTri /\ Cardinality(Fresh(<<i, "asg">>, s)) > 1
        \/ Vis(i, s) # 0 /\ (Defs[i].type \notin BoolTri \/ Defs[i].choice # NoItem)}

---------------------------------------------------------------------------
(* setconfig.py and examples/merge_config.py.                                  *)

\* One NAME=value argument: the values with it, and whether the tool goes on.
Checked(arg, set, checkValue) ==
  [s |-> set, ok |-> checkValue => Fresh(<<arg[1], "val">>, set)[1] = arg[2]]
SetArg(acc, arg, checkExists, checkValue) ==
  IF ~acc.ok THEN acc
  ELSE IF arg[1] \notin Known THEN [acc EXCEPT !.ok = ~checkExists]
  ELSE IF arg[1] \notin Range(Order) \/ ~Accepts(arg[1], arg[2]) THEN [acc EXCEPT !.ok = FALSE]
  ELSE Checked(arg, set_value(arg[1], arg[2], acc.s), checkValue)
=============================================================================
