----------------------------- MODULE Menuconfig -----------------------------
(* menuconfig.py: the curses front end, between the keys of the user and a Kconfig      *)
(* instance. u holds the globals of the main display:                              *)
(*   s                 the symbols and choices of _kconf, evaluated                   *)
(*   cur_menu, shown, sel, scroll, rows    _cur_menu, _shown, _sel_node_i, _menu_scroll  *)
(*                     and _parent_screen_rows                                     *)
(*   all, help         _show_all, _show_help;   changed   _conf_changed               *)
(*   height            of _menu_win                                              *)
(*   error             an index() found nothing: the program ends with a traceback      *)
(* A handler is an operator from u to u. The dialogs that float above the display are     *)
(* one step: a wrong answer or name changes nothing and is asked for again. Page Down and  *)
(* Page Up are Down and Up several times. The jump-to dialog's list is JumpDialog, the     *)
(* edit boxes EditBox; what the information dialog and the rows say is KconfigMenu.         *)
EXTENDS KconfigMenu

CONSTANTS
  SCROLL_OFFSET,      \* _SCROLL_OFFSET
  MAIN_HELP, SHOW_HELP,  \* the lines of _MAIN_HELP_LINES, and _SHOW_HELP_HEIGHT
  Terminals,          \* the heights the terminal may have
  Names,              \* the file names the user gives
  Texts,              \* the texts the user gives to the symbols that take one
  StartFiles,         \* the files there may be at the start
  MaxEvents           \* bound: new values, loads and saves, and changes of the view

VARIABLES
  u, term,
  pending,            \* a full-screen dialog was closed: _resize_main() is next
  files, conf_filename, minconf_filename,
  exit,               \* how the program ended
  ondisk,             \* ghost: the values a fresh instance loads from conf_filename
  events              \* counted against the bound
vars == <<u, term, pending, files, conf_filename, minconf_filename, exit, ondisk, events>>

L == INSTANCE ScrollList WITH
       sel <- u.sel, scroll <- u.scroll, len <- Len(u.shown), height <- u.height

Node(v) == v.shown[v.sel + 1]
Row(v) == v.sel - v.scroll
IndexOf(n, list) == SelectInSeq(list, LAMBDA k : k = n) - 1
ShownIn(menu, v) == _shown_nodes(menu, v.all, v.s)
At(v, c) == [v EXCEPT !.sel = c.sel, !.scroll = c.scroll]
Centered(v, at) == At(v, L!_center_vertically(at, Len(v.shown), v.height))

---------------------------------------------------------------------------
(* The main display.                                                        *)

HelpHeight(help) == IF help THEN SHOW_HELP ELSE MAIN_HELP
_resize_main_NoScroll(v, t) == [v EXCEPT !.height = Max2(1, t - HelpHeight(v.help) - 3)]
_resize_main_NoMin(v, t) ==
  [v EXCEPT !.height = IF t - HelpHeight(v.help) - 3 >= 0 THEN t - HelpHeight(v.help) - 3 ELSE 1]
WithHeight(v, h) == [At(v, L!_resized(v, h)) EXCEPT !.height = h]
_resize_main(v, t) == WithHeight(v, Max2(1, t - HelpHeight(v.help) - 3))

\* The cursor on the selected symbol of a choice, at the first location that is shown.
CenteredOnFirst(v, at) == IF at = <<>> THEN v ELSE Centered(v, IndexOf(Head(at), v.shown))
_select_selected_choice_sym(v) ==
  CenteredOnFirst(v, SelectSeq(NodesOf(Attr(Nodes[v.cur_menu].item, "sel", v.s)),
                               LAMBDA n : n \in Range(v.shown)))

CanEnter(menu, v) == Nodes[menu].is_menuconfig /\ ShownIn(menu, v) # <<>>
Entered(v) == IF Nodes[v.cur_menu].kind = "choice" THEN _select_selected_choice_sym(v) ELSE v
_enter_menu(menu, v) ==
  Entered([v EXCEPT !.rows = Append(@, Row(v)), !.cur_menu = menu, !.shown = ShownIn(menu, v),
                    !.sel = 0, !.scroll = 0])

\* To the parent menu, with the menu's entry on the row it was on when it was entered.
BackOn(v, at) ==
  IF at < 0 THEN [v EXCEPT !.error = TRUE]
  ELSE IF v.rows = <<>> THEN Centered(v, at)
  ELSE At(v, L!_on_row(at, Min2(v.rows[Len(v.rows)], v.height - 1)))
ForgetRow(v) == [v EXCEPT !.rows = SubSeq(@, 1, Max2(Len(@) - 1, 0))]
LeftFor(menu, v) == BackOn(v, IndexOf(menu, v.shown))
Above(up, v) == [v EXCEPT !.shown = ShownIn(up, v), !.cur_menu = up]
_leave_menu_KeepRows(v) ==
  IF v.cur_menu = top_node THEN v ELSE LeftFor(v.cur_menu, Above(_parent_menu(v.cur_menu), v))
_leave_menu(v) ==
  IF v.cur_menu = top_node THEN v
  ELSE ForgetRow(LeftFor(v.cur_menu, Above(_parent_menu(v.cur_menu), v)))

\* The node to select: the selected one, or the nearest before it that is still shown, or
\* else the nearest after it. Show-all mode is not left when none of them is shown.
LastOf(before) == CHOOSE k \in before : \A j \in before : j <= k
NearestOf(kept, v) ==
  LET before == {k \in kept : k <= v.sel + 1}
  IN v.shown[IF before # {} THEN LastOf(before) ELSE Lowest(kept)]
Nearest(v, new) ==
  LET kept == {k \in DOMAIN v.shown : v.shown[k] \in Range(new)}
  IN IF kept = {} THEN -1 ELSE IndexOf(NearestOf(kept, v), new)
ShowOthers(v, new, at) == [At(v, L!_on_row(at, Row(v))) EXCEPT !.all = ~@, !.shown = new]
ShowIf(v, new, at) == IF at < 0 THEN [v EXCEPT !.all = TRUE] ELSE ShowOthers(v, new, at)
Toggled(v, new) == ShowIf(v, new, Nearest(v, new))
_toggle_show_all(v) == Toggled(v, _shown_nodes(v.cur_menu, ~v.all, v.s))

\* To a node, or to the first entry of a menu or choice that has one. Show-all mode is turned
\* on for a node that is not shown without it, and off again for the entries of a menu.
AllIfHidden(goal, v) ==
  IF goal \in Range(v.shown) THEN v
  ELSE [v EXCEPT !.all = TRUE, !.shown = _shown_nodes(v.cur_menu, TRUE, v.s)]
OnGoal(goal, v) ==
  IF goal \notin Range(v.shown) THEN [v EXCEPT !.error = TRUE]
  ELSE [v EXCEPT !.sel = IndexOf(goal, v.shown)]
JumpIn(menu, goal, v) ==
  OnGoal(goal, AllIfHidden(goal, [v EXCEPT !.rows = <<>>, !.cur_menu = menu, !.shown = ShownIn(menu, v)]))
AllOffAgain(all, v) == IF v.all /\ ~all /\ ~v.error THEN _toggle_show_all(v) ELSE v
CenteredIn(v) == Centered(v, v.sel)
_jump_to(node, v) ==
  IF Nodes[node].kind \in {"choice", "menu"} /\ Nodes[node].list # Nil
  THEN Entered(CenteredIn(AllOffAgain(v.all, JumpIn(node, Nodes[node].list, v))))
  ELSE CenteredIn(JumpIn(_parent_menu(node), node, v))

---------------------------------------------------------------------------
(* Changing values.                                                         *)

\* The entries after a change, with the same node selected on the same row.
WithEntries(v, new, at) ==
  IF at < 0 THEN [v EXCEPT !.error = TRUE]
  ELSE [At(v, L!_on_row(at, Row(v))) EXCEPT !.shown = new]
Relisted(v, new) == WithEntries(v, new, IndexOf(Node(v), new))
_update_menu(v) == Relisted(v, ShownIn(v.cur_menu, v))

_set_val_Unmarked(i, val, v) ==
  IF val = StrOf(i, v.s) THEN v
  ELSE _update_menu([v EXCEPT !.s = Filled(set_value(i, val, @))])
_set_val_UpdateFirst(i, val, v) ==
  IF val = StrOf(i, v.s) THEN v
  ELSE [_update_menu(v) EXCEPT !.s = Filled(set_value(i, val, @)), !.changed = TRUE]
_set_val(i, val, v) ==
  IF val = StrOf(i, v.s) THEN v
  ELSE _update_menu([v EXCEPT !.s = Filled(set_value(i, val, @)), !.changed = TRUE])

\* The values _change_node() may give the node: the text the user has given, if it is
\* valid, the only value there is, or the next one. {} when the program stops on a value
\* that is not among those it can have.
NextValues(i, asg, v) ==
  IF Cardinality(asg) > 1 /\ StrOf(i, v.s) \notin asg THEN {} ELSE {NextValue(i, v.s)}
NewValues(n, v) ==
  LET i == Nodes[n].item
  IN IF Defs[i].type \notin BoolTri THEN {t \in Texts[i] : _check_valid(i, t, v.s)}
     ELSE NextValues(i, Attr(i, "asg", v.s), v)

\* A selection made in a choice in y mode leaves its menu, unless the node has children.
LeaveIfSelected(n, v) ==
  IF _is_y_mode_choice_sym(n, v.s) /\ Nodes[n].list = Nil /\ ~v.error THEN _leave_menu(v) ELSE v
_change_node(n, val, v) == LeaveIfSelected(n, _set_val(Nodes[n].item, val, v))

---------------------------------------------------------------------------
(* The rows that are drawn.                                                   *)

\* An invisible node is marked in show-all mode only.
_draw_main(v) ==
  [k \in 1..Min2(v.height, Len(v.shown) - v.scroll) |->
     LET n == v.shown[v.scroll + k]
     IN [node |-> n, str |-> _node_str(n, Nodes[n].is_menuconfig /\ ShownIn(n, v) # <<>>, v.s),
         selected |-> v.scroll + k - 1 = v.sel, inv |-> v.all /\ ~_visible(n, v.s)]]

---------------------------------------------------------------------------
(* The program.                                                             *)

FreshK(contents) == FilledK(_load_config(contents, TRUE, Fresh_k))
OnDisk(fs, name) == IF fs[name] = Absent THEN <<>> ELSE AllValues(FreshK(fs[name]).s)

\* When nothing is shown at all, show-all mode is turned on. (If that does not help, the
\* program ends.)
OpeningIn(start, all) ==
  [s |-> start.s, cur_menu |-> top_node, shown |-> _shown_nodes(top_node, all, start.s),
   sel |-> 0, scroll |-> 0, rows |-> <<>>, all |-> all, help |-> FALSE,
   height |-> 1, changed |-> start.changed, error |-> FALSE]
Opening(start) == OpeningIn(start, _shown_nodes(top_node, FALSE, start.s) = <<>>)

Init ==
  /\ files \in StartFiles
  /\ conf_filename = ".config" /\ minconf_filename = "defconfig"
  /\ term \in Terminals
  /\ u = _resize_main(Opening(_load_config_at_start(files)), term)
  /\ pending = FALSE /\ exit = "running" /\ ondisk = OnDisk(files, ".config")
  /\ events = 0

Ready == exit = "running" /\ ~pending /\ ~u.error
rest == <<term, pending, files, conf_filename, minconf_filename, exit, ondisk>>

\* A key that changes nothing but the display.
Moves(v) == Ready /\ u' = v /\ UNCHANGED <<rest, events>>
Down == Moves(At(u, L!_select_next(u, Len(u.shown), u.height)))
Up == Moves(At(u, L!_select_prev(u)))
End == Moves(At(u, L!_select_last(Len(u.shown), u.height)))
Home == Moves(At(u, L!_select_first))

Changes(n) ==
  /\ events < MaxEvents /\ events' = events + 1
  /\ \/ \E val \in NewValues(n, u) : u' = _change_node(n, val, u)
     \/ /\ Defs[Nodes[n].item].type \in BoolTri /\ NewValues(n, u) = {}
        /\ u' = [u EXCEPT !.error = TRUE]
  /\ UNCHANGED rest

Space ==
  /\ Ready
  /\ IF _changeable(Node(u), u.s) THEN Changes(Node(u))
     ELSE CanEnter(Node(u), u) /\ Moves(_enter_menu(Node(u), u))
Enter ==
  /\ Ready
  /\ IF CanEnter(Node(u), u) THEN Moves(_enter_menu(Node(u), u))
     ELSE _changeable(Node(u), u.s) /\ Changes(Node(u))

\* n, m and y; not only where the node is visible.
_set_sel_node_tri_val ==
  /\ Ready /\ events < MaxEvents /\ events' = events + 1
  /\ \E val \in 0..2 :
       /\ IsSC(Node(u)) /\ val \in Assignable(Node(u), u.s)
       /\ val # StrOf(Nodes[Node(u)].item, u.s)
       /\ u' = _set_val(Nodes[Node(u)].item, val, u)
  /\ UNCHANGED rest

Left == u.cur_menu # top_node /\ Moves(_leave_menu(u))

Views(v, t, p) ==
  /\ Ready /\ events < MaxEvents /\ events' = events + 1
  /\ u' = v /\ term' = t /\ pending' = p
  /\ UNCHANGED <<files, conf_filename, minconf_filename, exit, ondisk>>
ShowAll == Views(_toggle_show_all(u), term, FALSE)
ShowHelp == Views(_resize_main([u EXCEPT !.help = ~@], term), term, FALSE)
Resize == \E t \in Terminals \ {term} : Views(_resize_main(u, t), t, FALSE)

\* The terminal may be resized while a full-screen dialog is open: the main display only
\* follows when the dialog is closed, after the jump.
_jump_to_dialog == \E n \in DOMAIN Nodes \ {top_node}, t \in Terminals : Views(_jump_to(n, u), t, TRUE)
Redraw ==
  /\ exit = "running" /\ pending /\ ~u.error
  /\ u' = _resize_main(u, term) /\ pending' = FALSE
  /\ UNCHANGED <<term, files, conf_filename, minconf_filename, exit, ondisk, events>>

InOut == Ready /\ events < MaxEvents /\ events' = events + 1 /\ UNCHANGED <<term, pending, exit>>

\* Unsaved changes may be given up. Show-all mode keeps the selected node shown.
Loaded_NoShowAll(k, v) ==
  _update_menu([v EXCEPT !.s = k.s, !.changed = _needs_save(k)])
AllUnlessShown(v) ==
  IF Node(v) \in Range(ShownIn(v.cur_menu, v)) THEN v ELSE [v EXCEPT !.all = TRUE]
Loaded(k, v) ==
  _update_menu(AllUnlessShown([v EXCEPT !.s = k.s, !.changed = _needs_save(k)]))
_load_dialog ==
  /\ InOut
  /\ \E name \in Names :
       /\ files[name] # Absent
       /\ u' = Loaded(FilledK(_load_config(files[name], TRUE, [Fresh_k EXCEPT !.s = u.s])), u)
       /\ conf_filename' = name /\ ondisk' = OnDisk(files, name)
  /\ UNCHANGED <<files, minconf_filename>>

Wrote(name, contents) ==
  /\ files' = [files EXCEPT ![name] = contents]
  /\ ondisk' = OnDisk(files', conf_filename')
Save ==
  /\ InOut
  /\ \E name \in Names :
       conf_filename' = name /\ Wrote(name, _config_contents(u.s))
  /\ u' = [u EXCEPT !.changed = FALSE]
  /\ UNCHANGED minconf_filename
SaveMinimal ==
  /\ InOut
  /\ \E name \in Names :
       minconf_filename' = name /\ conf_filename' = conf_filename
       /\ Wrote(name, _min_config_contents(u.s))
  /\ UNCHANGED u

\* q, or ESC in the top menu; and cancelled when there is something to save.
AsksToSave(v) == v.changed
_quit_dialog ==
  /\ Ready
  /\ \/ ~AsksToSave(u) /\ exit' = "unchanged" /\ UNCHANGED <<files, ondisk>>
     \/ /\ AsksToSave(u) /\ exit' = "saved"
        /\ files' = [files EXCEPT ![conf_filename] = _config_contents(u.s)]
        /\ ondisk' = OnDisk(files', conf_filename)
     \/ AsksToSave(u) /\ exit' = "not saved" /\ UNCHANGED <<files, ondisk>>
  /\ UNCHANGED <<u, term, pending, conf_filename, minconf_filename, events>>

Next == \/ Down \/ Up \/ End \/ Home \/ Space \/ Enter \/ _set_sel_node_tri_val \/ Left
        \/ ShowAll \/ ShowHelp \/ Resize \/ _jump_to_dialog \/ Redraw
        \/ _load_dialog \/ Save \/ SaveMinimal \/ _quit_dialog
Spec == Init /\ [][Next]_vars

TypeOK ==
  /\ u.cur_menu \in DOMAIN Nodes /\ Nodes[u.cur_menu].is_menuconfig
  /\ u.shown \in Seq(DOMAIN Nodes) /\ u.rows \in Seq(Nat) /\ u.height \in Nat \ {0}
  /\ {u.all, u.help, u.changed, u.error, pending} \subseteq BOOLEAN
  /\ conf_filename \in DOMAIN files /\ minconf_filename \in DOMAIN files
  /\ exit \in {"running", "unchanged", "saved", "not saved"}

---------------------------------------------------------------------------
(* What the user may rely on.                                                 *)

\* An entry that is not visible, but shown for the nodes in its implicit menu: those depend
\* on the value that its symbol is given at another place.
ShownForChildren(n) ==
  ~_visible(n, u.s) /\ Nodes[n].list # Nil /\ Len(NodesOf(Nodes[n].item)) > 1

\* NoTraceback: whatever menu is shown, and whatever values are given or loaded, the
\* selected node is among the entries and the menu that is left among those of its
\* parent: none of the index() calls fails, and no unsaved change is lost that way. It does
\* fail for an entry shown for its children, which a value given to it there hides with
\* itself (_set_sel_node_tri_val, _update_menu); nowhere else, as long as each choice is
\* defined at one place.
NoTraceback == u.error => ShownForChildren(Node(u))

\* ShownFresh: the entries on the screen are those the values ask for, although they are
\* only recomputed where the code thinks of it. (_update_menu, _load_dialog)
ShownFresh == exit = "running" /\ ~u.error => u.shown = ShownIn(u.cur_menu, u)

\* NothingLost: when the program thinks that there is nothing to save, or has said that it
\* saved, a fresh instance reads the values of the display from the file it names.
NothingLost == ~u.changed \/ exit \in {"unchanged", "saved"} => ondisk = AllValues(u.s)

\* RowsAreOurs: the rows remembered for the parent menus are never more than there are
\* parents, so that no menu is shown with the row of another. (_parent_screen_rows)
RowsAreOurs == Len(u.rows) <= Depth(u.cur_menu)

\* OneSelected: in the menu of a choice in y mode exactly one symbol is drawn as selected,
\* and it is the one the row of the choice names.
OneSelected ==
  LET choice == Nodes[u.cur_menu].item
      on == {k \in DOMAIN u.shown : _value_str(u.shown[k], u.s) = <<"radio", TRUE>>}
      radios == {k \in DOMAIN u.shown : _value_str(u.shown[k], u.s) = <<"radio", FALSE>>}
  IN exit = "running" /\ Nodes[u.cur_menu].kind = "choice" /\ on \cup radios # {} =>
       \E k \in on : on = {k} /\ SelectedPrompt(u.cur_menu, u.s) = <<u.shown[k]>>

\* Explained: when the row of a visible symbol is drawn as one that cannot be changed, its
\* information names a symbol that selects it, with the value that forces.
\* (_value_str, assignable, _select_imply_info)
Explained ==
  exit = "running" => \A row \in Range(_draw_main(u)) :
    LET i == Nodes[row.node].item
        info == _info_str(row.node, u.s)
    IN row.str.value # <<>> /\ row.str.value[1] = "pinned" /\ _visible(row.node, u.s)
       => \E k \in DOMAIN info : info[k] = <<"Selecting", ValueOf(Defs[i].rev_dep, u.s)>>

\* Scrolls: the display behaves as a list with a cursor that is always on the screen.
Scrolls == L!Spec
=============================================================================
