----------------------------- MODULE KconfigMenu -----------------------------
(* The menu tree as the front ends see it (menuconfig.py and guiconfig.py share     *)
(* this code word for word): which nodes a menu shows, what can be changed, what a    *)
(* search goes through, and when a configuration needs to be saved.               *)
(*                                                                         *)
(* Nodes is the finished tree (KconfigTree): a function from node numbers to records   *)
(* with kind ("sym", "choice", "menu", "comment"), item, prompt (<<>> or <<cond>>),   *)
(* visibility, is_menuconfig, list, next and parent. A state s is Filled: it has the     *)
(* attributes s.a of all items and the values s.e of all expressions, and no caches,       *)
(* which do not change a value (KconfigValues).                                  *)
EXTENDS KconfigConfig

CONSTANTS
  Nodes,      \* the menu nodes, by number in the order of the files
  ByName,     \* the symbols' nodes, then the choices' nodes, as sorted for searches
  ByPrompt,   \* the menus' nodes, then the comments' nodes, as sorted for searches
  Unnamed,      \* the choices without a name
  OrigDefaults  \* the defaults as they are written, without the propagated dependencies

Nil == 0
top_node == 1

\* The expressions of the properties, with those they are made of.
RECURSIVE Within(_)
Within(e) ==
  {e} \cup CASE e[1] = "not" -> Within(e[2])
             [] e[1] \in {"and", "or"} -> Within(e[2]) \cup Within(e[3])
             [] OTHER -> {}
InList(list) == UNION {Within(list[k]) : k \in DOMAIN list}
Exprs ==
  UNION {InList(Defs[i].prompts) \cup Within(Defs[i].direct_dep)
         \cup UNION {InList(Defs[i].defaults[k]) : k \in DOMAIN Defs[i].defaults} : i \in Items}
  \cup UNION {Within(Defs[i].rev_dep) \cup Within(Defs[i].weak_rev_dep)
              \cup UNION {InList(Defs[i].ranges[k]) : k \in DOMAIN Defs[i].ranges} : i \in Syms}
  \cup UNION {InList(Nodes[n].prompt) \cup Within(Nodes[n].visibility) : n \in DOMAIN Nodes}
Attributes == Cells \cup {<<i, a>> : i \in Items, a \in {"str", "type"}}

Warm(s) == FoldSet(LAMBDA cell, acc : Ask(cell, acc).s, Uncached(s), Cells)
Read(s) ==
  [user |-> s.user, was |-> Init_s.was, c |-> <<>>,
   a |-> [cell \in Attributes |-> Ask(cell, s).v], e |-> [e \in Exprs |-> expr_value(e, s).v]]
Filled(s) == Read(Warm(s))

Attr(i, a, s) == s.a[<<i, a>>]
StrOf(i, s) == Attr(i, "str", s)
ValueOf(e, s) == s.e[e]
Is(e, s) == ValueOf(e, s) # 0
AllValues(s) == [i \in Syms |-> StrOf(i, s)]

NodesOf(item) == SelectSeq([k \in DOMAIN Nodes |-> k], LAMBDA n : Nodes[n].item = item)
IsSC(n) == Nodes[n].kind \in {"sym", "choice"}

---------------------------------------------------------------------------
(* What a menu shows. 'all' is show-all mode.                                *)

_visible(n, s) ==
  /\ Nodes[n].prompt # <<>> /\ Is(Nodes[n].prompt[1], s)
  /\ Nodes[n].kind = "menu" => Is(Nodes[n].visibility, s)

\* A list of nodes from n on: an invisible symbol is shown when something below it is.
\* Menus and choices are entered; 'full' says that menuconfig symbols are not.
ShownBelow(n, full) == IF full THEN Nodes[n].kind = "sym" ELSE ~Nodes[n].is_menuconfig
ShownWith(n, kids, full, all, s) ==
  IF all \/ _visible(n, s) \/ (Nodes[n].kind = "sym" /\ kids # <<>>)
  THEN <<n>> \o IF ShownBelow(n, full) THEN kids ELSE <<>>
  ELSE <<>>
RECURSIVE ShownFrom(_, _, _, _)
ShownFrom(n, full, all, s) ==
  IF n = Nil THEN <<>>
  ELSE ShownWith(n, ShownFrom(Nodes[n].list, full, all, s), full, all, s)
       \o ShownFrom(Nodes[n].next, full, all, s)

_shown_menu_nodes(menu, all, s) == ShownFrom(Nodes[menu].list, FALSE, all, s)
_shown_full_nodes(menu, all, s) == ShownFrom(Nodes[menu].list, TRUE, all, s)

\* A choice shows the nodes of all its locations, each symbol once.
SymsIn(list) == {Nodes[k].item : k \in {j \in Range(list) : Nodes[j].kind = "sym"}}
Add(own, acc, n) == IF Nodes[n].item \in SymsIn(acc \o own) THEN acc ELSE Append(acc, n)
ChoiceShown(own, menu, all, s) ==
  FoldLeft(LAMBDA res, at : IF at = menu THEN res \o own
                            ELSE FoldLeft(LAMBDA acc, n : Add(own, acc, n), res,
                                          _shown_menu_nodes(at, all, s)),
           <<>>, NodesOf(Nodes[menu].item))

_shown_nodes(menu, all, s) ==
  IF Nodes[menu].kind # "choice" THEN _shown_menu_nodes(menu, all, s)
  ELSE ChoiceShown(_shown_menu_nodes(menu, all, s), menu, all, s)

RECURSIVE _parent_menu(_)
_parent_menu(n) ==
  IF Nodes[Nodes[n].parent].is_menuconfig THEN Nodes[n].parent ELSE _parent_menu(Nodes[n].parent)

RECURSIVE Depth(_)
Depth(menu) == IF menu = top_node THEN 0 ELSE 1 + Depth(_parent_menu(menu))

---------------------------------------------------------------------------
(* What can be changed.                                                     *)

_is_y_mode_choice_sym(n, s) ==
  Nodes[n].kind = "sym" /\ Defs[Nodes[n].item].choice # NoItem /\ Attr(Nodes[n].item, "vis", s) = 2

Assignable(n, s) == IF Defs[Nodes[n].item].type \in BoolTri THEN Attr(Nodes[n].item, "asg", s) ELSE {}

_changeable(n, s) ==
  /\ IsSC(n)
  /\ Nodes[n].prompt # <<>> /\ Is(Nodes[n].prompt[1], s)
  /\ \/ Defs[Nodes[n].item].type \notin BoolTri
     \/ Cardinality(Assignable(n, s)) > 1
     \/ _is_y_mode_choice_sym(n, s)

\* The value after the current one, with wrapping. The only value a symbol of a choice
\* in y mode takes may not be the one it has.
NextIn(asg, above) == Lowest(IF above # {} THEN above ELSE asg)
NextValue(i, s) ==
  NextIn(Attr(i, "asg", s), {v \in Attr(i, "asg", s) : v > StrOf(i, s)})

\* The range that applies, <<>> when there is none or for another type.
Bound(e, s) == IF e[1] = "const" THEN e[2] ELSE NumberOf(StrOf(e[2], s))
FirstRange(ranges, s) ==
  IF ranges = <<>> THEN <<>> ELSE <<Bound(ranges[1][1], s), Bound(ranges[1][2], s)>>
_range_info(i, s) ==
  IF Defs[i].type # "int" THEN <<>>
  ELSE FirstRange(SelectSeq(Defs[i].ranges, LAMBDA range : Is(range[3], s)), s)

Malformed == -5     \* a text that is no number
InRangeOf(v, range) == range # <<>> => range[1] <= v /\ v <= range[2]
_check_valid(i, v, s) ==
  Defs[i].type = "int" => v # Malformed /\ InRangeOf(v, _range_info(i, s))

---------------------------------------------------------------------------
(* Loading, saving, searching.                                               *)

\* Whether the values differ from those just loaded.
_needs_save(k) ==
  \/ k.missing # <<>>
  \/ \E i \in Syms :
       IF k.s.user[i] = None THEN Attr(i, "val", k.s)[2]
       ELSE StrOf(i, k.s) # k.s.user[i]

FilledK(k) == [k EXCEPT !.s = Filled(@)]
Started(loaded, files) ==
  [s |-> loaded.s, changed |-> files[".config"] = Absent \/ _needs_save(loaded)]
_load_config_at_start(files) == Started(FilledK(load_config(files, Fresh_k)), files)

\* The nodes that match, in the order they are listed: Matches(n) is the verdict of
\* all the patterns on the name and the prompt of n.
_sorted_sc_nodes == ByName
_sorted_menu_comment_nodes == ByPrompt
Found(Matches(_)) == SelectSeq(_sorted_sc_nodes \o _sorted_menu_comment_nodes, Matches)

---------------------------------------------------------------------------
(* What the front ends tell about a node: the rows of the menus and the text of the     *)
(* information windows of menuconfig.py (guiconfig.py has copies of most of it). A row   *)
(* is a record of its parts, a text a sequence of lines <<what, ...>>: the wording and  *)
(* the layout are left out.                                                      *)

(* A row of a menu. 'shows' tells whether a menu shows anything.                *)

\* The value in its box: "(X)", "-*-", "[*]", "{M}", "<M>" or the text itself.
_value_str(n, s) ==
  LET i == Nodes[n].item
      asg == Assignable(n, s)
  IN CASE ~IsSC(n) -> <<>>
       [] IsSC(n) /\ Defs[i].type \notin BoolTri -> <<"text", StrOf(i, s)>>
       [] IsSC(n) /\ _is_y_mode_choice_sym(n, s) ->
            <<"radio", Attr(Defs[i].choice, "sel", s) = i>>
       [] OTHER -> IF Cardinality(asg) <= 1
                   THEN IF Nodes[n].kind = "choice" THEN <<>> ELSE <<"pinned", StrOf(i, s)>>
                   ELSE IF Attr(i, "type", s) = "bool" THEN <<"bool", StrOf(i, s)>>
                   ELSE <<IF asg = {1, 2} THEN "my" ELSE "tristate", StrOf(i, s)>>

\* A symbol without a user value, unless its choice gives it one.
IsNew(n, s) ==
  /\ Nodes[n].kind = "sym" /\ Nodes[n].prompt # <<>>
  /\ s.user[Nodes[n].item] = None
  /\ ~(Defs[Nodes[n].item].choice # NoItem /\ StrOf(Defs[Nodes[n].item].choice, s) = 2)

SelectedPrompt_First(n, s) ==
  IF Nodes[n].kind # "choice" THEN <<>>
  ELSE IF StrOf(Nodes[n].item, s) # 2 THEN <<>>
  ELSE SubSeq(SelectSeq([k \in DOMAIN Nodes |-> k], LAMBDA k : Nodes[k].parent = n), 1, 1)
\* The selected symbol, after the prompt of a choice in y mode: the node of it at this
\* location, or another one with a prompt.
SelectedPrompt(n, s) ==
  LET sel == Attr(Nodes[n].item, "sel", s)
      prompted == SelectSeq(NodesOf(sel), LAMBDA k : Nodes[k].prompt # <<>>)
      here == SelectSeq(prompted, LAMBDA k : Nodes[k].parent = n)
  IN IF Nodes[n].kind # "choice" THEN <<>>
     ELSE IF StrOf(Nodes[n].item, s) # 2 \/ sel = NoItem \/ prompted = <<>> THEN <<>>
     ELSE <<Head(IF here # <<>> THEN here ELSE prompted)>>

_node_str(n, arrow, s) ==
  [value |-> _value_str(n, s), new |-> IsNew(n, s), sel |-> SelectedPrompt(n, s), arrow |-> arrow]

---------------------------------------------------------------------------
(* The information about a node.                                             *)

_name_info(i) == IF i \in Unnamed THEN <<>> ELSE << <<"Name", i>> >>
_prompt_info(i) ==
  LET prompted == SelectSeq(NodesOf(i), LAMBDA n : Nodes[n].prompt # <<>>)
  IN [k \in DOMAIN prompted |-> <<"Prompt", prompted[k]>>]
_value_info(i, s) == << <<"Value", StrOf(i, s)>> >>
_choice_syms_info(i, s) ==
  LET sel == Attr(i, "sel", s)
  IN << <<"Choice symbols">> >>
     \o [k \in DOMAIN Defs[i].syms |-> <<"Symbol", Defs[i].syms[k], Defs[i].syms[k] = sel>>]
_help_info(i) ==
  LET helped == SelectSeq(NodesOf(i), LAMBDA n : Nodes[n].help)
  IN [k \in DOMAIN helped |-> <<"Help", helped[k]>>]

\* The operands of the outermost && or ||, with the values of those that are no symbols.
_split_expr_info(e, s) ==
  LET ands == split_expr(e, "and")
      terms == IF Len(ands) > 1 THEN ands ELSE split_expr(e, "or")
  IN [k \in DOMAIN terms |->
        <<"Term", terms[k], IF terms[k][1] = "item" THEN None ELSE ValueOf(terms[k], s)>>]

_direct_dep_info(i, s) ==
  LET dep == Defs[i].direct_dep
  IN IF dep = <<"const", 2>> THEN <<>>
     ELSE << <<"Direct dependencies", ValueOf(dep, s)>> >> \o _split_expr_info(dep, s)

_defaults_info(i, s) ==
  LET One(p) ==
        << <<"Default", p[1], IF i \in Syms /\ p[1][1] \notin {"item", "const"}
                              THEN ValueOf(p[1], s) ELSE None>> >>
        \o IF p[2] = <<"const", 2>> THEN <<>>
           ELSE << <<"Condition", ValueOf(p[2], s)>> >> \o _split_expr_info(p[2], s)
  IN FlattenSeq([k \in DOMAIN OrigDefaults[i] |-> One(OrigDefaults[i][k])])

\* The symbols that select (or imply) a symbol, by the value they give it now.
SelectedTo(e, val, s) ==
  LET sis == SelectSeq(split_expr(e, "or"), LAMBDA si : ValueOf(si, s) = val)
  IN [k \in DOMAIN sis |-> split_expr(sis[k], "and")[1][2]]
SelectsAt(e, val, what, s) ==
  LET sis == SelectedTo(e, val, s)
  IN IF sis = <<>> THEN <<>> ELSE << <<what, val>> >> \o [k \in DOMAIN sis |-> <<"by", sis[k]>>]
_select_imply_info_WeakGuard(i, s) ==
  IF Defs[i].weak_rev_dep = <<"const", 0>> THEN <<>>
  ELSE SelectsAt(Defs[i].rev_dep, 2, "Selecting", s) \o SelectsAt(Defs[i].rev_dep, 1, "Selecting", s)
_select_imply_info(i, s) ==
  LET All(e, what) == IF e = <<"const", 0>> THEN <<>>
                      ELSE SelectsAt(e, 2, what, s) \o SelectsAt(e, 1, what, s)
                           \o SelectsAt(e, 0, what, s)
  IN All(Defs[i].rev_dep, "Selecting") \o All(Defs[i].weak_rev_dep, "Implying")

RECURSIVE _menu_path_info(_)
_menu_path_info(n) ==
  IF Nodes[n].parent = top_node THEN <<>>
  ELSE Append(_menu_path_info(Nodes[n].parent), Nodes[n].parent)

_kconfig_def_info(ns) ==
  << <<"Definitions", Len(ns)>> >>
  \o FlattenSeq([k \in DOMAIN ns |-> << <<"At", ns[k]>>, <<"Menu path", _menu_path_info(ns[k])>>,
                                      <<"Definition", ns[k]>> >>])

_info_str(n, s) ==
  LET i == Nodes[n].item
  IN CASE Nodes[n].kind = "sym" ->
            _name_info(i) \o _prompt_info(i) \o << <<"Type", Attr(i, "type", s)>> >> \o _value_info(i, s)
            \o _help_info(i) \o _direct_dep_info(i, s) \o _defaults_info(i, s)
            \o _select_imply_info(i, s) \o _kconfig_def_info(NodesOf(i))
       [] Nodes[n].kind = "choice" ->
            _name_info(i) \o _prompt_info(i) \o << <<"Type", Attr(i, "type", s)>>, <<"Mode", StrOf(i, s)>> >>
            \o _help_info(i) \o _choice_syms_info(i, s) \o _direct_dep_info(i, s)
            \o _defaults_info(i, s) \o _kconfig_def_info(NodesOf(i))
       [] OTHER -> _kconfig_def_info(<<n>>)
=============================================================================
