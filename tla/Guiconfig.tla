------------------------------ MODULE Guiconfig ------------------------------
(* guiconfig.py: the Tk front end. g holds its globals and the Treeview of the main      *)
(* window, which keeps a state of its own (Tk, external):                           *)
(*   s, cur, all, single, changed    _kconf, _cur_menu, _show_all, _single_menu,       *)
(*                _conf_changed                                                *)
(*   kids         the children of each item, Root's being the top level of the tree      *)
(*   open, item   the open flag and the text and image of each item                   *)
(*   sel, focus   the selected and the focused item                               *)
(*   jump         the jump-to dialog, Closed or a record: the list of its tree, the        *)
(*                items it shows, the nodes of _jump_to_matches, selection and focus      *)
(*   raised       a handler has died of an exception: Tk goes on                      *)
(*   emptied      ghost: a value was changed in the jump-to dialog, and the tree is empty   *)
(* A detached item keeps its flag, and stays selected and focused. Scrolling is left      *)
(* out: whether an item is on the screen is open. Dialogs for a value or a file name        *)
(* are one step.                                                              *)
EXTENDS KconfigMenu

CONSTANTS
  Names, Texts, StartFiles,   \* as in Menuconfig
  Searches,                   \* the nodes each search text matches; Bad: a bad regular expression
  MaxEvents           \* bound: new values, loads and saves, and changes of the view

VARIABLES
  g, files, conf_filename, minconf_filename, exit,
  ondisk,             \* ghost: the values a fresh instance loads from conf_filename
  events              \* counted against the bound
vars == <<g, files, conf_filename, minconf_filename, exit, ondisk, events>>

Root == Nil
Bad == {Nil}
Nothing == Nil                 \* no selection, no focus
Closed == <<>>
Items_ == DOMAIN Nodes \ {top_node}
NoKids == [i \in Items_ \cup {Root} |-> <<>>]

---------------------------------------------------------------------------
(* The Treeview (external).                                                  *)

ParentIn(t, i) == IF \E p \in DOMAIN t.kids : i \in Range(t.kids[p])
                  THEN CHOOSE p \in DOMAIN t.kids : i \in Range(t.kids[p]) ELSE Root
move(t, i, p) ==
  [t EXCEPT !.kids = [q \in DOMAIN @ |-> SelectSeq(@[q], LAMBDA j : j # i)
                                          \o IF q = p THEN <<i>> ELSE <<>>]]

\* The rows on display, from the top.
RECURSIVE Below(_, _)
Below(t, p) ==
  FlattenSeq([k \in DOMAIN t.kids[p] |->
    LET i == t.kids[p][k] IN <<i>> \o IF t.open[i] THEN Below(t, i) ELSE <<>>])
Rows(t) == Below(t, Root)

\* see() opens the ancestors.
RECURSIVE OpenAbove(_, _)
OpenFrom(t, p) == IF p = Root THEN t ELSE OpenAbove([t EXCEPT !.open[p] = TRUE], p)
OpenAbove(t, i) == OpenFrom(t, ParentIn(t, i))
_select(i, t) == OpenAbove([t EXCEPT !.sel = i, !.focus = i], i)

---------------------------------------------------------------------------
(* Building the tree.                                                       *)

_img_tag(n, s) == _value_str(n, s)
Text(n, t) == _node_str(n, t.single /\ Nodes[n].is_menuconfig
                             /\ _shown_menu_nodes(n, t.all, t.s) # <<>>, t.s)
\* An item shown for its children is only marked in show-all mode.
Item(n, t) == [str |-> Text(n, t), inv |-> t.all /\ ~_visible(n, t.s)]
_add_to_tree(n, top, t) ==
  [move(t, n, IF Nodes[n].parent = top THEN Root ELSE Nodes[n].parent) EXCEPT !.item[n] = Item(n, t)]

\* Only open menus are filled; a closed one gets a dummy, for its indicator.
Dummy(t, shown) ==
  IF shown = <<>> THEN t ELSE move(t, Head(shown), Nodes[Head(shown)].parent)
RECURSIVE _build_full_tree(_, _)
FillBelow(n, t) ==
  IF Nodes[n].list = Nil \/ Nodes[n].kind = "sym" THEN t
  ELSE IF t.open[n] THEN _build_full_tree(n, t)
  ELSE Dummy(t, _shown_menu_nodes(n, t.all, t.s))
_build_full_tree(menu, t) ==
  FoldLeft(LAMBDA acc, n : FillBelow(n, _add_to_tree(n, top_node, acc)), t,
           _shown_full_nodes(menu, t.all, t.s))

_build_menu_tree(t) ==
  FoldLeft(LAMBDA acc, n : _add_to_tree(n, t.cur, acc), t, _shown_menu_nodes(t.cur, t.all, t.s))

\* Everything is detached and attached again; the selection and the focus are kept.
Rebuilt(t) == IF t.single THEN _build_menu_tree(t) ELSE _build_full_tree(top_node, t)
_update_tree(t) == Rebuilt([t EXCEPT !.kids = NoKids])

\* Fills the menus above a node, from the first closed one on.
RECURSIVE Parents(_)
Parents(n) == LET p == Nodes[n].parent IN IF p = top_node THEN <<>> ELSE Append(Parents(p), p)
FirstClosed(ps, t) == SelectInSeq(ps, LAMBDA p : ~t.open[p])
FillAll(ps, t) ==
  FoldLeft(LAMBDA acc, p : IF Nodes[p].kind = "sym" THEN acc ELSE _build_full_tree(p, acc), t, ps)
From(first, ps) == IF first = 0 THEN <<>> ELSE SubSeq(ps, first, Len(ps))
_load_parents_First(n, t) ==
  LET ps == Parents(n) IN FillAll(SelectSeq(ps, LAMBDA p : p = ps[1] /\ ~t.open[p]), t)
_load_parents(n, t) ==
  LET ps == Parents(n) IN FillAll(From(FirstClosed(ps, t), ps), t)

_enter_menu(menu, t) == _update_tree([t EXCEPT !.cur = menu])
_jump_to(n, t) ==
  _select(n, IF t.single THEN _enter_menu(_parent_menu(n), t) ELSE _load_parents(n, t))

\* A handler asks for the first item of a tree that is empty.
IndexError(t) == [t EXCEPT !.raised = TRUE]

SelectFirst(t) == IF t.kids[Root] = <<>> THEN IndexError(t) ELSE _select(Head(t.kids[Root]), t)
_enter_menu_and_select_first(menu, t) == SelectFirst(_enter_menu(menu, t))
_leave_menu(t) ==
  IF t.cur = top_node THEN t
  ELSE _select(t.cur, _update_tree([t EXCEPT !.cur = _parent_menu(t.cur)]))

\* <<TreeviewOpen>>, and opening and closing by key.
_tree_open(i, t) == IF t.single \/ Nodes[i].kind = "sym" THEN t ELSE _build_full_tree(i, t)
_tree_toggle_open_NoBuild(i, t) == [t EXCEPT !.open[i] = ~@]
_tree_toggle_open(i, t) ==
  [(IF t.open[i] \/ Nodes[i].kind = "sym" THEN t ELSE _build_full_tree(i, t)) EXCEPT !.open[i] = ~@]

---------------------------------------------------------------------------
(* Changing values.                                                         *)

\* The jump-to dialog shows and marks what is not visible in either mode.
JumpItem(n, t) == [str |-> Text(n, t), inv |-> ~_visible(n, t.s)]
_update_jump_to_display_Once(t) ==
  [t EXCEPT !.jump.list = t.jump.matches,
            !.jump.items = IF Len(@) = Len(t.jump.matches) THEN @
                           ELSE [k \in DOMAIN t.jump.matches |-> JumpItem(t.jump.matches[k], t)]]
_update_jump_to_display(t) ==
  [t EXCEPT !.jump.list = t.jump.matches,
            !.jump.items = [k \in DOMAIN t.jump.matches |-> JumpItem(t.jump.matches[k], t)]]

\* The value is set before the item to keep in place is looked for, which an empty tree
\* does not have.
_set_val_Unmarked(i, val, t) ==
  _update_tree([t EXCEPT !.s = Filled(set_value(i, val, @))])
InTree(t, new) ==
  IF Rows(t) = <<>> THEN IndexError(t)
  ELSE IF t.jump = Closed THEN new
  ELSE [_update_jump_to_display(new) EXCEPT !.emptied = @ \/ Rows(new) = <<>>]
Changed(t) == InTree(t, _update_tree(t))
_set_val(i, val, t) ==
  IF val = StrOf(i, t.s) THEN t
  ELSE Changed([t EXCEPT !.s = Filled(set_value(i, val, @)), !.changed = TRUE])

NewValues(n, t) ==
  LET i == Nodes[n].item
  IN IF Defs[i].type \notin BoolTri THEN {x \in Texts[i] : _check_valid(i, x, t.s)}
     ELSE {NextValue(i, t.s)}

---------------------------------------------------------------------------
(* The program.                                                             *)

OnDisk(fs, name) ==
  IF fs[name] = Absent THEN <<>>
  ELSE AllValues(FilledK(_load_config(fs[name], TRUE, Fresh_k)).s)

Opening(start) ==
  [s |-> start.s, cur |-> top_node, single |-> FALSE, changed |-> start.changed,
   all |-> _shown_menu_nodes(top_node, FALSE, start.s) = <<>>,
   kids |-> NoKids, open |-> [i \in Items_ |-> FALSE], item |-> [i \in Items_ |-> <<>>],
   sel |-> Nothing, focus |-> Nothing, jump |-> Closed, raised |-> FALSE, emptied |-> FALSE]

Init ==
  /\ files \in StartFiles
  /\ conf_filename = ".config" /\ minconf_filename = "defconfig"
  /\ g = SelectFirst(_update_tree(Opening(_load_config_at_start(files))))
  /\ exit = "running" /\ ondisk = OnDisk(files, ".config")
  /\ events = 0

Running == exit = "running"
InMain == Running /\ g.jump = Closed
InJump == Running /\ g.jump # Closed
rest == <<files, conf_filename, minconf_filename, exit, ondisk>>

Does(t) == g' = t /\ UNCHANGED <<rest, events>>
Views(t) == events < MaxEvents /\ events' = events + 1 /\ g' = t /\ UNCHANGED rest
\* The first step may be to single-menu mode, and is not counted then.
AtFirst(t) == IF events = 0 /\ ~g.single THEN Does(t) ELSE Views(t)
Sets(t) == events < MaxEvents /\ events' = events + 1 /\ g' = t /\ UNCHANGED rest

\* A click on the text, on the image, or where the indicator of a row is or would be.
Click == InMain /\ \E i \in Range(Rows(g)) : Does(_select(i, g))
_change_node(n, t) ==
  LET i == Nodes[n].item
      asg == Assignable(n, t.s)
  IN \/ Cardinality(asg) > 1 /\ StrOf(i, t.s) \notin asg /\ Sets(IndexError(t))
     \/ ~(Cardinality(asg) > 1 /\ StrOf(i, t.s) \notin asg)
        /\ \E v \in NewValues(n, t) : Sets(_set_val(i, v, t))
_tree_click ==
  /\ InMain
  /\ \E i \in Range(Rows(g)) :
       g.item[i].str.value # <<>> /\ _changeable(i, g.s) /\ _change_node(i, _select(i, g))
Indicator ==
  /\ InMain
  /\ \E i \in Range(Rows(g)) :
       Views([(IF g.open[i] THEN _select(i, g) ELSE _tree_open(i, _select(i, g))) EXCEPT !.open[i] = ~@])

_single_menu_mode_menu(n, t) ==
  t.single /\ Nodes[n].is_menuconfig /\ _shown_menu_nodes(n, t.all, t.s) # <<>>

\* Enter, or a double click.
_tree_enter ==
  /\ InMain
  /\ IF g.kids[g.focus] # <<>> THEN Views(_tree_toggle_open(g.focus, g))
     ELSE IF _single_menu_mode_menu(g.focus, g) THEN Does(_enter_menu_and_select_first(g.focus, g))
     ELSE _changeable(g.focus, g.s) /\ _change_node(g.focus, g)
\* Space.
_tree_toggle ==
  /\ InMain
  /\ IF _changeable(g.focus, g.s) THEN _change_node(g.focus, g)
     ELSE IF _single_menu_mode_menu(g.focus, g) THEN Does(_enter_menu_and_select_first(g.focus, g))
     ELSE g.kids[g.focus] # <<>> /\ Views(_tree_toggle_open(g.focus, g))

\* n, m and y, in the tree of the main window or of the dialog.
_tree_set_val(focus) ==
  /\ focus # Nothing /\ IsSC(focus)
  /\ \E v \in Assignable(focus, g.s) \ {StrOf(Nodes[focus].item, g.s)} :
       Sets(_set_val(Nodes[focus].item, v, g))
SetMain == InMain /\ _tree_set_val(g.focus)

\* The arrow keys are those of the Treeview where the handlers let them through.
_tree_left_key ==
  /\ InMain
  /\ IF g.single THEN g.cur # top_node /\ Does(_leave_menu(g))
     ELSE IF g.open[g.focus] /\ g.kids[g.focus] # <<>> THEN Views([g EXCEPT !.open[g.focus] = FALSE])
     ELSE ParentIn(g, g.focus) # Root /\ Does(_select(ParentIn(g, g.focus), g))
_tree_right_key ==
  /\ InMain
  /\ IF _single_menu_mode_menu(g.focus, g) THEN Does(_enter_menu_and_select_first(g.focus, g))
     ELSE ~g.open[g.focus] /\ Views([_tree_open(g.focus, g) EXCEPT !.open[g.focus] = TRUE])

\* An item on the screen: the selected one, or another when that is not.
_loc_ref_items(t) == Range(Rows(t))

\* The items near one, of which a visible one is looked for.
RECURSIVE Around(_, _)
Around(i, t) ==
  LET p == ParentIn(t, i) IN Range(t.kids[p]) \cup IF p = Root THEN {} ELSE {p} \cup Around(p, t)

\* The check box has changed when the handler starts.
_do_showall(t) ==
  IF t.single /\ _shown_menu_nodes(t.cur, t.all, t.s) = <<>> THEN [t EXCEPT !.all = TRUE]
  ELSE _update_tree(t)
ShowAll ==
  /\ InMain
  /\ LET t == [g EXCEPT !.all = ~@]
         kept == t.single /\ _shown_menu_nodes(t.cur, t.all, t.s) = <<>>
     IN \/ Rows(g) = <<>> /\ ~kept /\ Views(IndexError(t))
        \/ \E i \in _loc_ref_items(g) :
             Views(IF ~kept /\ \A j \in Around(i, g) : g.item[j].inv THEN IndexError(t)
                   ELSE _do_showall(t))
        \/ Rows(g) = <<>> /\ kept /\ Views(_do_showall(t))

_do_tree_mode(n, t) == _jump_to(n, IF t.single THEN t ELSE _update_tree(t))
TreeMode ==
  /\ InMain
  /\ LET t == [g EXCEPT !.single = ~@]
     IN \/ Rows(g) = <<>> /\ AtFirst(IndexError(t))
        \/ \E i \in _loc_ref_items(g) : AtFirst(_do_tree_mode(i, t))

---------------------------------------------------------------------------
(* The jump-to dialog, which keeps the main window from being used.              *)

OpenJump ==
  /\ InMain
  /\ Views([g EXCEPT !.jump = [list |-> <<>>, items |-> <<>>, matches |-> <<>>,
                               sel |-> Nothing, focus |-> Nothing]])

\* A bad expression empties the list, and nothing else.
Searched(found, t) ==
  LET at == IF found = <<>> THEN t ELSE [t EXCEPT !.jump.focus = Head(found)]
  IN [at EXCEPT !.jump.sel = IF found = <<>> THEN Nothing ELSE Head(found)]
Matched(found, t) == Searched(found, _update_jump_to_display([t EXCEPT !.jump.matches = found]))
_update_jump_to_matches(nodes, t) ==
  IF nodes = Bad THEN [t EXCEPT !.jump.sel = Nothing, !.jump.list = <<>>, !.jump.items = <<>>]
  ELSE Matched(Found(LAMBDA n : n \in nodes), t)
search == InJump /\ \E text \in Searches : Does(_update_jump_to_matches(text, g))

JumpClick ==
  InJump /\ \E i \in Range(g.jump.list) : Does([g EXCEPT !.jump.sel = i, !.jump.focus = i])
SetJump ==
  /\ InJump
  /\ \/ _tree_set_val(g.jump.focus)
     \/ g.jump.focus # Nothing /\ _changeable(g.jump.focus, g.s) /\ _change_node(g.jump.focus, g)

ShowHidden(t) == IF t.single THEN t ELSE _update_tree(t)
AllUnlessShown(n, t) ==
  IF n \in Range(_shown_menu_nodes(_parent_menu(n), t.all, t.s)) THEN t
  ELSE ShowHidden([t EXCEPT !.all = TRUE])
jump_to_selected(t) ==
  [_jump_to(t.jump.sel, AllUnlessShown(t.jump.sel, t)) EXCEPT !.jump = Closed]
Jump == InJump /\ g.jump.sel # Nothing /\ Does(jump_to_selected(g))
Cancel == InJump /\ Does([g EXCEPT !.jump = Closed])

---------------------------------------------------------------------------
(* Files.                                                                   *)

InOut == InMain /\ events < MaxEvents /\ events' = events + 1 /\ UNCHANGED <<exit>>
Wrote(name, contents) ==
  /\ files' = [files EXCEPT ![name] = contents]
  /\ ondisk' = OnDisk(files', conf_filename')

_save ==
  /\ InOut /\ UNCHANGED <<conf_filename, minconf_filename>>
  /\ Wrote(conf_filename, _config_contents(g.s)) /\ g' = [g EXCEPT !.changed = FALSE]
\* _conf_changed stays as it is.
_save_as ==
  /\ InOut
  /\ \E name \in Names : conf_filename' = name /\ Wrote(name, _config_contents(g.s))
  /\ UNCHANGED <<g, minconf_filename>>
_save_minimal ==
  /\ InOut
  /\ \E name \in Names : minconf_filename' = name /\ conf_filename' = conf_filename
                         /\ Wrote(name, _min_config_contents(g.s))
  /\ UNCHANGED g

Opened_NoShowAll(k, t) == _update_tree([t EXCEPT !.s = k.s, !.changed = _needs_save(k)])
AllIfEmpty(t) ==
  [t EXCEPT !.all = @ \/ (t.single /\ _shown_menu_nodes(t.cur, t.all, t.s) = <<>>)]
Opened(k, t) == _update_tree(AllIfEmpty([t EXCEPT !.s = k.s, !.changed = _needs_save(k)]))
_open ==
  /\ InOut
  /\ \E name \in Names :
       /\ files[name] # Absent
       /\ g' = Opened(FilledK(_load_config(files[name], TRUE, [Fresh_k EXCEPT !.s = g.s])), g)
       /\ conf_filename' = name /\ ondisk' = OnDisk(files, name)
  /\ UNCHANGED <<files, minconf_filename>>

_on_quit ==
  /\ InMain
  /\ \/ ~g.changed /\ exit' = "unchanged" /\ UNCHANGED <<files, ondisk>>
     \/ /\ g.changed /\ exit' = "saved"
        /\ files' = [files EXCEPT ![conf_filename] = _config_contents(g.s)]
        /\ ondisk' = OnDisk(files', conf_filename)
     \/ g.changed /\ exit' = "not saved" /\ UNCHANGED <<files, ondisk>>
  /\ UNCHANGED <<g, conf_filename, minconf_filename, events>>

Next == \/ Click \/ _tree_click \/ Indicator \/ _tree_enter \/ _tree_toggle \/ SetMain
        \/ _tree_left_key \/ _tree_right_key \/ ShowAll \/ TreeMode
        \/ OpenJump \/ search \/ JumpClick \/ SetJump \/ Jump \/ Cancel
        \/ _save \/ _save_as \/ _save_minimal \/ _open \/ _on_quit
Spec == Init /\ [][Next]_vars

TypeOK ==
  /\ g.cur \in DOMAIN Nodes /\ g.sel \in Items_ /\ g.focus \in Items_
  /\ {g.all, g.single, g.changed, g.raised, g.emptied} \subseteq BOOLEAN
  /\ g.kids \in [Items_ \cup {Root} -> Seq(Items_)] /\ g.open \in [Items_ -> BOOLEAN]
  /\ exit \in {"running", "unchanged", "saved", "not saved"}

---------------------------------------------------------------------------
(* What the user may rely on.                                                 *)

\* The rows as they should be: what is shown of the tree or the menu, below open items.
RECURSIVE AllShown(_)
AllShown(menu) ==
  FoldLeft(LAMBDA acc, n :
             acc \o <<n>> \o IF Nodes[n].kind = "sym" \/ Nodes[n].list = Nil THEN <<>> ELSE AllShown(n),
           <<>>, _shown_full_nodes(menu, g.all, g.s))
RECURSIVE OpenTo(_, _)
OpenTo(n, top) ==
  Nodes[n].parent = top \/ (g.open[Nodes[n].parent] /\ OpenTo(Nodes[n].parent, top))
Expected ==
  IF g.single THEN SelectSeq(_shown_menu_nodes(g.cur, g.all, g.s), LAMBDA n : OpenTo(n, g.cur))
  ELSE SelectSeq(AllShown(top_node), LAMBDA n : OpenTo(n, top_node))

\* TreeTrue: the tree is only filled where it is open and only when something is done to it,
\* and still its rows and their texts are those the values ask for.
TreeTrue ==
  Running /\ ~g.raised => /\ Rows(g) = Expected
               /\ \A i \in Range(Expected) : g.item[i] = Item(i, g)

\* JumpTrue: so are the texts and marks in the list of the jump-to dialog, while values change.
JumpTrue ==
  InJump /\ ~g.raised =>
    \A k \in DOMAIN g.jump.list : g.jump.items[k] = JumpItem(g.jump.list[k], g)

\* NothingLost: as for menuconfig.py.
NothingLost == ~g.changed \/ exit \in {"unchanged", "saved"} => ondisk = AllValues(g.s)

\* NonEmptyButJump: "It's nice to be able to assume that the tree is non-empty in the rest of
\* the code" (the comment in menuconfig()). It is not, and a handler dies of it, when a value
\* changed in the jump-to dialog has hidden all that is in the menu of the main window; but
\* it is by nothing else.
NonEmptyButJump == Rows(g) = <<>> \/ g.raised => g.emptied
=============================================================================
