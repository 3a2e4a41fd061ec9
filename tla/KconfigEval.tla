---------------------------- MODULE KconfigEval ----------------------------
(* The values of the symbols and choices of a Kconfig tree, as             *)
(* kconfiglib.py computes them: lazily, each result kept in the item        *)
(* (_cached_vis, _cached_tri_val/_cached_str_val, _cached_assignable,       *)
(* _cached_selection) until _rec_invalidate() drops it.                     *)
(*                                                                         *)
(* A state s of the items is a record:                                     *)
(*   s.user[i]  the user value of i: None or a value; of a choice the       *)
(*              record [mode, sel] of user_value and user_selection         *)
(*   s.was[i]   _was_set                                                   *)
(*   s.c        the caches: a function from the filled cells <<i, attr>>     *)
(* Every evaluation returns [v, s]: the value, and the state with the caches *)
(* it has filled on the way; what is evaluated next is an operator of it.      *)
(*                                                                         *)
(* The value of a string, int or hex symbol is its place in the order of the   *)
(* values, with Empty for "". All strings are one character long here, so     *)
(* that _strcmp() and the comparison of numbers agree. Formatting and warnings *)
(* are left out.                                                            *)
EXTENDS ConfigLines, FiniteSetsExt, Functions, TLC

CONSTANTS
  Defs,      \* what parsing leaves of each symbol and choice (KconfigTree)
  MODULES,   \* the symbol that turns m on and off
  NoItem     \* no choice, no selection

Items == DOMAIN Defs
ChoiceItems == {i \in Items : Defs[i].kind = "choice"}
Syms == Items \ ChoiceItems

Min2(a, b) == IF a < b THEN a ELSE b
Max2(a, b) == IF a < b THEN b ELSE a
R(v, s) == [v |-> v, s |-> s]
MinWith(v, r) == R(Min2(v, r.v), r.s)
MaxWith(v, r) == R(Max2(v, r.v), r.s)

\* _cached_... is not None; and the value with its cell filled.
IsCached(cell, s) == cell \in DOMAIN s.c
Hit(cell, s) == R(s.c[cell], s)
Memo(cell, r) == R(r.v, [r.s EXCEPT !.c = (cell :> r.v) @@ @])

---------------------------------------------------------------------------
(* Expressions: <<"const", v>>, <<"item", i>>, <<"and", a, b>>, <<"or", a, b>>, *)
(* <<"not", a>> and <<rel, a, b>> with rel one of =, !=, <, <=, >, >=.          *)

\* Ask(<<i, attr>>, s) reads an attribute of an item: all evaluation recurs through it.
RECURSIVE Ask(_, _), expr_value(_, _), MaxOf(_, _), FirstActive(_, _), FirstVisible(_, _)

tri_value(i, s) == Ask(<<i, "tri">>, s)

\* What a relation compares.
Operand(e, s) == IF e[1] = "const" THEN R(e[2], s) ELSE Ask(<<e[2], "str">>, s)

Compare(rel, a, b) ==
  CASE rel = "=" -> a = b [] rel = "!=" -> a # b [] rel = "<" -> a < b
    [] rel = "<=" -> a <= b [] rel = ">" -> a > b [] rel = ">=" -> a >= b

AndRest(e, a) == IF a.v = 0 THEN a ELSE MinWith(a.v, expr_value(e, a.s))
OrRest(e, a) == IF a.v = 2 THEN a ELSE MaxWith(a.v, expr_value(e, a.s))
NotOf(a) == R(2 - a.v, a.s)
Related(rel, v, b) == R(IF Compare(rel, v, b.v) THEN 2 ELSE 0, b.s)
RelRest(e, a) == Related(e[1], a.v, Operand(e[3], a.s))
expr_value(e, s) ==
  CASE e[1] = "const" -> R(e[2], s)
    [] e[1] = "item" -> tri_value(e[2], s)
    [] e[1] = "and" -> AndRest(e[3], expr_value(e[2], s))
    [] e[1] = "or" -> OrRest(e[3], expr_value(e[2], s))
    [] e[1] = "not" -> NotOf(expr_value(e[2], s))
    [] OTHER -> RelRest(e, Operand(e[2], s))

\* max(vis, expr_value(prompt condition)) over the menu nodes with a prompt.
MaxRest(conds, a) == MaxWith(a.v, MaxOf(conds, a.s))
MaxOf(conds, s) ==
  IF conds = <<>> THEN R(0, s) ELSE MaxRest(Tail(conds), expr_value(Head(conds), s))

\* The first property whose condition, its last component, is not n, with the
\* value of the condition; <<>> when there is none.
IfActive(props, a) ==
  IF a.v # 0 THEN R(<<Head(props), a.v>>, a.s) ELSE FirstActive(Tail(props), a.s)
FirstActive(props, s) ==
  IF props = <<>> THEN R(<<>>, s)
  ELSE IfActive(props, expr_value(Head(props)[Len(Head(props))], s))

---------------------------------------------------------------------------
(* Types and visibility.                                                    *)

ModulesOn(s) == IF MODULES \in Items THEN tri_value(MODULES, s) ELSE R(0, s)

\* Symbol.type and Choice.type: a tristate is a bool in a choice in y mode and
\* when MODULES is n.
TypeOf_NoModules(i, s) == R(Defs[i].type, s)
Mode(i, s) ==
  IF i \in Syms /\ Defs[i].choice # NoItem THEN tri_value(Defs[i].choice, s) ELSE R(0, s)
TypeWith(mods) == R(IF mods.v = 0 THEN "bool" ELSE "tristate", mods.s)
TypeIn(mode) == IF mode.v = 2 THEN R("bool", mode.s) ELSE TypeWith(ModulesOn(mode.s))
TypeOf(i, s) == IF Defs[i].type # "tristate" THEN R(Defs[i].type, s) ELSE TypeIn(Mode(i, s))

\* m is y for a bool.
MOrY(type) == R(IF type.v = "tristate" THEN 1 ELSE 2, type.s)
NoModules(i, r) == IF r.v # 1 THEN r ELSE MOrY(TypeOf(i, r.s))

\* Non-tristate symbols of a tristate choice are visible in y mode only, and
\* symbols of visibility m are not visible in y mode.
HideIn(i, vis, mode) == R(IF (mode.v = 2) = (Defs[i].type = "tristate") THEN 0 ELSE vis, mode.s)
Hide(i, vis) ==
  LET d == Defs[i]
  IN IF /\ i \in Syms
        /\ d.choice # NoItem
        /\ IF d.type = "tristate" THEN vis.v = 1 ELSE Defs[d.choice].type = "tristate"
     THEN HideIn(i, vis.v, Mode(i, vis.s)) ELSE vis

_visibility(i, s) == NoModules(i, Hide(i, MaxOf(Defs[i].prompts, s)))

visibility(i, s) ==
  IF IsCached(<<i, "vis">>, s) THEN Hit(<<i, "vis">>, s)
  ELSE Memo(<<i, "vis">>, _visibility(i, s))

---------------------------------------------------------------------------
(* ChoiceItems.                                                                  *)

UserMode(i, vis) ==
  LET least == IF Defs[i].optional THEN 0 ELSE 1
  IN R(Min2(Max2(least, vis.s.user[i].mode), vis.v), vis.s)
ChoiceTri(i, s) == NoModules(i, UserMode(i, Ask(<<i, "vis">>, s)))

\* The first of a list of symbols that is visible.
IfVisible(syms, vis) == IF vis.v # 0 THEN R(Head(syms), vis.s) ELSE FirstVisible(Tail(syms), vis.s)
FirstVisible(syms, s) ==
  IF syms = <<>> THEN R(NoItem, s) ELSE IfVisible(syms, Ask(<<Head(syms), "vis">>, s))

\* The first default that applies and is visible.
RECURSIVE DefaultSel(_, _)
IfShown(defaults, vis) ==
  IF vis.v # 0 THEN R(Head(defaults)[1][2], vis.s) ELSE DefaultSel(Tail(defaults), vis.s)
IfApplies(defaults, cond) ==
  IF cond.v = 0 THEN DefaultSel(Tail(defaults), cond.s)
  ELSE IfShown(defaults, Ask(<<Head(defaults)[1][2], "vis">>, cond.s))
DefaultSel(defaults, s) ==
  IF defaults = <<>> THEN R(NoItem, s) ELSE IfApplies(defaults, expr_value(Head(defaults)[2], s))

OrFirst(i, sel) == IF sel.v # NoItem THEN sel ELSE FirstVisible(Defs[i].syms, sel.s)
_selection_from_defaults(i, s) == OrFirst(i, DefaultSel(Defs[i].defaults, s))

UserOr(i, vis) ==
  IF vis.v # 0 THEN R(vis.s.user[i].sel, vis.s) ELSE _selection_from_defaults(i, vis.s)
InMode(i, mode) ==
  LET sel == mode.s.user[i].sel
  IN IF mode.v # 2 THEN R(NoItem, mode.s)
     ELSE UserOr(i, IF sel = NoItem THEN R(0, mode.s) ELSE Ask(<<sel, "vis">>, mode.s))
_selection(i, s) == InMode(i, Ask(<<i, "tri">>, s))

selection(i, s) ==
  IF IsCached(<<i, "sel">>, s) THEN Hit(<<i, "sel">>, s)
  ELSE Memo(<<i, "sel">>, _selection(i, s))

---------------------------------------------------------------------------
(* Symbols. SymVal is the pair of the value and _write_to_conf.               *)

RECURSIVE split_expr(_, _)
split_expr(e, op) ==
  IF e[1] = op THEN split_expr(e[2], op) \o split_expr(e[3], op) ELSE <<e>>

\* What _warn_select_unsatisfied_deps() evaluates (and so caches) for its text.
Warned(by, s) ==
  expr_value(Defs[by].direct_dep, IF Defs[by].kind = "sym" THEN Ask(<<by, "val">>, s).s ELSE s).s
RECURSIVE WarnSelects(_, _, _)
WarnRest(selects, deps, force) ==
  WarnSelects(Tail(selects), deps, IF force.v <= deps THEN force.s
                                   ELSE Warned(split_expr(Head(selects), "and")[1][2], force.s))
WarnSelects(selects, deps, s) ==
  IF selects = <<>> THEN s ELSE WarnRest(selects, deps, expr_value(Head(selects), s))

\* The value of the default that applies.
DefaultOf(first) ==
  IF first.v = <<>> THEN R(0, first.s) ELSE MinWith(first.v[2], expr_value(first.v[1][1], first.s))
DefaultTri(i, s) == DefaultOf(FirstActive(Defs[i].defaults, s))

\* The value so far, with _write_to_conf, goes through what may raise it. An imply does
\* when the direct dependencies are met.
ImpliedIf(chosen, weak, deps) ==
  R(IF deps.v # 0 THEN <<Max2(weak, chosen[1]), TRUE>> ELSE chosen, deps.s)
ImpliedBy(i, chosen, weak) ==
  IF weak.v = 0 THEN R(chosen, weak.s)
  ELSE ImpliedIf(chosen, weak.v, expr_value(Defs[i].direct_dep, weak.s))
Implied(i, chosen) == ImpliedBy(i, chosen.v, expr_value(Defs[i].weak_rev_dep, chosen.s))

\* A select cannot be refused: it raises the value, whatever the dependencies.
SelectedIf(i, chosen, force, deps) ==
  R(chosen, IF deps.v < force THEN WarnSelects(split_expr(Defs[i].rev_dep, "or"), deps.v, deps.s)
            ELSE deps.s)
SelectedBy(i, chosen, force) ==
  IF force.v = 0 THEN R(chosen, force.s)
  ELSE SelectedIf(i, <<Max2(force.v, chosen[1]), TRUE>>, force.v,
                  expr_value(Defs[i].direct_dep, force.s))
Selected(i, chosen) == SelectedBy(i, chosen.v, expr_value(Defs[i].rev_dep, chosen.s))

\* Whether the symbol is kept from m: it is a bool, or implied to y.
ImpliedToY(weak) == R(weak.v = 2, weak.s)
NoMOf(i, type) ==
  IF type.v = "bool" THEN R(TRUE, type.s)
  ELSE ImpliedToY(expr_value(Defs[i].weak_rev_dep, type.s))
NoM(i, s) == NoMOf(i, TypeOf(i, s))

\* m becomes y for a bool, and for a symbol that is implied to y.
PromotedIf(chosen, noM) == R(<<IF noM.v THEN 2 ELSE 1, chosen[2]>>, noM.s)
Promoted(i, chosen) ==
  IF chosen.v[1] # 1 THEN chosen ELSE PromotedIf(chosen.v, NoM(i, chosen.s))

Written(written, val) == R(<<val.v, written \/ val.v # 0>>, val.s)
Chosen(i, vis) ==
  IF vis.v # 0 /\ vis.s.user[i] # None THEN R(<<Min2(vis.s.user[i], vis.v), TRUE>>, vis.s)
  ELSE Implied(i, Written(vis.v # 0, DefaultTri(i, vis.s)))
PlainTri(i, s) == Promoted(i, Selected(i, Chosen(i, Ask(<<i, "vis">>, s))))

\* In a y mode choice the selection is y and the others n; in an m mode choice
\* each symbol is m or n as the user says.
OwnValue(u, vis) == R(<<IF u = None THEN 0 ELSE Min2(u, vis.v), vis.v # 0>>, vis.s)
ChoiceSymTri_OwnValue(i, s) == OwnValue(s.user[i], Ask(<<i, "vis">>, s))
IfSelected(i, sel) == R(<<IF sel.v = i THEN 2 ELSE 0, TRUE>>, sel.s)
InChoice(i, vis) ==
  IF vis.v = 2 THEN IfSelected(i, Ask(<<Defs[i].choice, "sel">>, vis.s))
  ELSE R(<<IF vis.v # 0 /\ vis.s.user[i] \notin {None, 0} THEN 1 ELSE 0, vis.v # 0>>, vis.s)
ChoiceSymTri(i, s) == InChoice(i, Ask(<<i, "vis">>, s))

\* The text of the default that applies, with _write_to_conf.
TextOf(text) == R(<<text.v, TRUE>>, text.s)
TextIn(first, written) ==
  IF first.v = <<>> THEN R(<<Empty, written>>, first.s)
  ELSE TextOf(Operand(first.v[1][1], first.s))
DefaultText(i, written, s) == TextIn(FirstActive(Defs[i].defaults, s), written)

NumberOf(text) == IF text = Empty THEN 0 ELSE text    \* strtoll() of ""
Clamped(text, range) ==
  IF range = <<>> \/ (range[1] <= NumberOf(text) /\ NumberOf(text) <= range[2]) THEN text
  ELSE IF NumberOf(text) < range[1] THEN range[1] ELSE range[2]

\* The range in effect, <<low, high>> or <<>>.
RangeTo(low, high) == R(<<low, NumberOf(high.v)>>, high.s)
RangeFrom(p, low) == RangeTo(NumberOf(low.v), Operand(p[2], low.s))
RangeIn(first) ==
  IF first.v = <<>> THEN first ELSE RangeFrom(first.v[1], Operand(first.v[1][1], first.s))
ActiveRange(i, s) == RangeIn(FirstActive(Defs[i].ranges, s))

ClampedTo(range, text) == R(<<Clamped(text.v[1], range), text.v[2]>>, text.s)
InRange(i, visible, range) ==
  LET u == range.s.user[i]
  IN IF visible /\ u # None /\ Clamped(u, range.v) = u THEN R(<<u, TRUE>>, range.s)
     ELSE ClampedTo(range.v, DefaultText(i, visible, range.s))
NumberVal(i, vis) == InRange(i, vis.v # 0, ActiveRange(i, vis.s))
IntVal(i, s) == NumberVal(i, Ask(<<i, "vis">>, s))

UserText(i, vis) ==
  IF vis.v # 0 /\ vis.s.user[i] # None THEN R(<<vis.s.user[i], TRUE>>, vis.s)
  ELSE DefaultText(i, vis.v # 0, vis.s)
StrVal(i, s) == UserText(i, Ask(<<i, "vis">>, s))

\* A symbol with option env (and DEFCONFIG_LIST) is never written.
UnlessEnv(i, r) == R(<<r.v[1], r.v[2] /\ ~Defs[i].env>>, r.s)
TextVal(i, s) == UnlessEnv(i, IF Defs[i].type = "int" THEN IntVal(i, s) ELSE StrVal(i, s))

SymVal(i, s) ==
  LET cell == <<i, "val">>
  IN IF IsCached(cell, s) THEN Hit(cell, s)
     ELSE Memo(cell, IF Defs[i].type \notin BoolTri THEN TextVal(i, s)
                     ELSE IF Defs[i].choice = NoItem THEN PlainTri(i, s)
                     ELSE ChoiceSymTri(i, s))

---------------------------------------------------------------------------
(* The values a user can give.                                               *)

UpTo(vis) == R(IF vis.v = 0 THEN {} ELSE {0, vis.v}, vis.s)
SymAssignable_NoSelect(i, s) == UpTo(Ask(<<i, "vis">>, s))
FromYes(force, noM) ==
  R((IF noM.v THEN {2} ELSE {1, 2}) \cup (IF force = 0 THEN {0} ELSE {}), noM.s)
FromM(weak) == R(IF weak.v # 2 THEN {0, 1} ELSE {0, 2}, weak.s)
AboveForce(i, vis, force) ==
  IF force.v = 2 \/ (vis = 2 /\ Defs[i].choice # NoItem) THEN R({2}, force.s)
  ELSE IF vis = 2 THEN FromYes(force.v, NoM(i, force.s))
  ELSE IF force.v = 1 THEN R({1}, force.s)
  ELSE FromM(expr_value(Defs[i].weak_rev_dep, force.s))
IfAssignable(i, vis) ==
  IF vis.v = 0 THEN R({}, vis.s) ELSE AboveForce(i, vis.v, expr_value(Defs[i].rev_dep, vis.s))
SymAssignable(i, s) ==
  IF Defs[i].type \notin BoolTri THEN R({}, s) ELSE IfAssignable(i, Ask(<<i, "vis">>, s))

ModesOf(least, type) == R(least \cup (IF type.v = "bool" THEN {2} ELSE {1, 2}), type.s)
Modes(i, vis) ==
  LET least == IF Defs[i].optional THEN {0} ELSE {}
  IN IF vis.v = 0 THEN R({}, vis.s)
     ELSE IF vis.v = 1 THEN R(least \cup {1}, vis.s)
     ELSE ModesOf(least, TypeOf(i, vis.s))
ChoiceAssignable(i, s) == Modes(i, Ask(<<i, "vis">>, s))

assignable(i, s) ==
  IF IsCached(<<i, "asg">>, s) THEN Hit(<<i, "asg">>, s)
  ELSE Memo(<<i, "asg">>, IF i \in ChoiceItems THEN ChoiceAssignable(i, s) ELSE SymAssignable(i, s))

\* tri_value of a symbol or choice; and the str_value of a symbol.
First(val) == R(val.v[1], val.s)
ItemTri(i, s) ==
  IF i \in ChoiceItems THEN ChoiceTri(i, s)
  ELSE IF Defs[i].type \notin BoolTri THEN R(0, s)
  ELSE First(Ask(<<i, "val">>, s))
ItemStr(i, s) == IF i \in ChoiceItems THEN Ask(<<i, "tri">>, s) ELSE First(Ask(<<i, "val">>, s))

Ask(cell, s) ==
  CASE cell[2] = "vis" -> visibility(cell[1], s)
    [] cell[2] = "val" -> SymVal(cell[1], s)
    [] cell[2] = "asg" -> assignable(cell[1], s)
    [] cell[2] = "sel" -> selection(cell[1], s)
    [] cell[2] = "tri" -> ItemTri(cell[1], s)
    [] cell[2] = "str" -> ItemStr(cell[1], s)
    [] cell[2] = "type" -> TypeOf(cell[1], s)

---------------------------------------------------------------------------
(* Dependents and invalidation.                                              *)

RECURSIVE expr_items(_)
expr_items(e) ==
  CASE e[1] = "const" -> {}
    [] e[1] = "item" -> {e[2]}
    [] e[1] = "not" -> expr_items(e[2])
    [] OTHER -> expr_items(e[2]) \cup expr_items(e[3])

ItemsIn(list) == UNION {expr_items(list[k]) : k \in DOMAIN list}
ItemsInProps(props) == UNION {ItemsIn(props[k]) : k \in DOMAIN props}

\* What _build_dep() makes an item depend on: the conditions of its prompts,
\* its defaults and ranges with their conditions, and its (weak) reverse and
\* direct dependencies.
DependsOn(i) ==
  LET d == Defs[i]
  IN ItemsIn(d.prompts) \cup
     IF d.kind = "choice"
     THEN UNION {expr_items(d.defaults[k][2]) : k \in DOMAIN d.defaults}
     ELSE ItemsInProps(d.defaults) \cup ItemsInProps(d.ranges) \cup expr_items(d.rev_dep)
          \cup expr_items(d.weak_rev_dep) \cup expr_items(d.direct_dep)

_build_dep == [i \in Items |-> {j \in Items : i \in DependsOn(j)}]

\* A choice depends on its symbols, and for the invalidation alone.
_add_choice_deps(deps) ==
  [i \in Items |-> deps[i] \cup {c \in ChoiceItems : i \in Range(Defs[c].syms)}]

_dependents == _add_choice_deps(_build_dep)

\* The caches c without those of an item, and without any.
_invalidate(i, c) == Restrict(c, {cell \in DOMAIN c : cell[1] # i})
_invalidate_all == <<>>

\* The item and everything that depends on it, except behind the items whose
\* visibility is not cached.
_rec_invalidate_Shallow(i, c) ==
  Restrict(c, {cell \in DOMAIN c : cell[1] # i /\ cell[1] \notin _dependents[i]})
RECURSIVE _rec_invalidate(_, _)
_rec_invalidate(i, c) ==
  IF i = MODULES THEN _invalidate_all
  ELSE FoldSet(LAMBDA j, d : IF <<j, "vis">> \in DOMAIN d THEN _rec_invalidate(j, d) ELSE d,
               _invalidate(i, c), _dependents[i])

_rec_invalidate_if_has_prompt(i, c) ==
  IF Defs[i].prompts # <<>> THEN _rec_invalidate(i, c) ELSE c

---------------------------------------------------------------------------
(* set_value() and unset_value().                                            *)

Init_s == [user |-> [i \in Items |-> IF i \in ChoiceItems THEN [mode |-> None, sel |-> NoItem] ELSE None],
           was |-> [i \in Items |-> FALSE], c |-> <<>>]

Accepts(i, v) ==
  CASE Defs[i].type = "bool" -> v \in {0, 2}
    [] Defs[i].type = "tristate" -> v \in 0..2
    [] Defs[i].type = "int" -> v \in Nat
    [] OTHER -> v # None

\* Setting a choice symbol to y makes it the user selection of its choice.
SetSymbol(i, v, s) ==
  LET ch == Defs[i].choice
      set == [s EXCEPT !.user[i] = v, !.was[i] = TRUE]
  IN IF v = s.user[i] /\ ch = NoItem THEN [s EXCEPT !.was[i] = TRUE]
     ELSE IF ~Accepts(i, v) THEN s
     ELSE IF ch # NoItem /\ v = 2
          THEN [set EXCEPT !.user[ch].sel = i, !.was[ch] = TRUE, !.c = _rec_invalidate(ch, @)]
     ELSE [set EXCEPT !.c = _rec_invalidate_if_has_prompt(i, @)]

SetChoice_OwnOnly(i, v, s) ==
  IF Accepts(i, v) THEN [s EXCEPT !.user[i].mode = v, !.was[i] = TRUE, !.c = _invalidate(i, @)] ELSE s
SetChoice(i, v, s) ==
  IF v = s.user[i].mode THEN [s EXCEPT !.was[i] = TRUE]
  ELSE IF ~Accepts(i, v) THEN s
  ELSE [s EXCEPT !.user[i].mode = v, !.was[i] = TRUE, !.c = _rec_invalidate(i, @)]

set_value(i, v, s) == IF i \in ChoiceItems THEN SetChoice(i, v, s) ELSE SetSymbol(i, v, s)

UnsetSymbol_Zero(i, s) ==
  [s EXCEPT !.user[i] = 0, !.c = _rec_invalidate_if_has_prompt(i, @)]
UnsetSymbol(i, s) ==
  IF s.user[i] = None THEN s
  ELSE [s EXCEPT !.user[i] = None, !.c = _rec_invalidate_if_has_prompt(i, @)]

UnsetChoice(i, s) ==
  IF s.user[i] = Init_s.user[i] THEN s
  ELSE [s EXCEPT !.user[i] = Init_s.user[i], !.c = _rec_invalidate(i, @)]

unset_value(i, s) == IF i \in ChoiceItems THEN UnsetChoice(i, s) ELSE UnsetSymbol(i, s)

---------------------------------------------------------------------------
(* The same questions asked of items that have nothing cached.               *)

Uncached(s) == [s EXCEPT !.c = <<>>]
Fresh(cell, s) == Ask(cell, Uncached(s)).v
ExprValue(e, s) == expr_value(e, Uncached(s)).v
Tri(i, s) == Fresh(<<i, "tri">>, s)
Vis(i, s) == Fresh(<<i, "vis">>, s)
Cells == {<<i, "vis">> : i \in Items} \cup {<<i, "val">> : i \in Syms}
         \cup {<<i, "sel">> : i \in ChoiceItems}
         \cup {<<i, "asg">> : i \in {j \in Items : Defs[j].type \in BoolTri}}
=============================================================================
