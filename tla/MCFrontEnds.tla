----------------------------- MODULE MCFrontEnds -----------------------------
(* The two front ends, and on their own two parts of menuconfig.py, over one small tree.     *)
(* One of them is started.                                                      *)
(*   2 M   bool, option modules              8   Y   bool, prompt if C                *)
(*   3   N  int, depends on M, range 1 2 if D    9 D   menuconfig, tristate, default m    *)
(*   4 menu, visible if M                    10   E  tristate, depends on D           *)
(*   5   C  bool, default y, selects E          11 comment, depends on C              *)
(*   6   CH choice: 7   X   bool            12 M again, prompt if n   13   N again          *)
EXTENDS EditBox, Sequences, Functions, TLC

CONSTANTS MODULES, NoItem, MAIN_HELP, SHOW_HELP, JUMP_HELP, MaxSel,
          MaxEvents, GuiEvents, FrontEnds

c(v) == <<"const", v>>
it(x) == <<"item", x>>
YES == c(2)
NO == c(0)
Sym(type, choice, prompt, defaults, dep, rev) ==
  [kind |-> "sym", type |-> type, choice |-> choice, prompts |-> <<prompt>>, defaults |-> defaults,
   ranges |-> <<>>, direct_dep |-> dep, rev_dep |-> rev, weak_rev_dep |-> NO, env |-> FALSE]

MCDefs ==
  [M |-> [Sym("bool", NoItem, YES, <<>>, YES, NO) EXCEPT !.prompts = <<YES, NO>>],
   N |-> [Sym("int", NoItem, it("M"), << <<c(1), it("M")>> >>, it("M"), NO) EXCEPT
           !.prompts = <<it("M"), it("M")>>,
           !.ranges = << <<c(1), c(2), <<"and", it("D"), it("M")>> >> >>],
   C |-> Sym("bool", NoItem, it("M"), << <<YES, YES>> >>, YES, NO),
   CH |-> [kind |-> "choice", type |-> "bool", prompts |-> <<it("M")>>, optional |-> FALSE,
           defaults |-> <<>>, syms |-> <<"X", "Y">>, direct_dep |-> YES],
   X |-> Sym("bool", "CH", it("CH"), <<>>, it("CH"), NO),
   Y |-> Sym("bool", "CH", <<"and", it("C"), it("CH")>>, <<>>, it("CH"), NO),
   D |-> Sym("tristate", NoItem, YES, << <<c(1), YES>> >>, YES, NO),
   E |-> Sym("tristate", NoItem, it("D"), <<>>, it("D"), it("C"))]
MCOrder == <<"M", "N", "C", "X", "Y", "D", "E">>
MCNodeOrder == <<"M", "N", "C", "CH", "X", "Y", "D", "E">>
MCKnown == {"M", "N", "C", "X", "Y", "D", "E"}

N_(kind, item, prompt, menu, list, next, parent) ==
  [kind |-> kind, item |-> item, prompt |-> prompt, visibility |-> YES, is_menuconfig |-> menu,
   list |-> list, next |-> next, parent |-> parent, help |-> kind = "sym"]
MCNodes ==
  << N_("menu", "top", <<YES>>, TRUE, 2, 0, 0),
     N_("sym", "M", <<YES>>, FALSE, 3, 4, 1),
     N_("sym", "N", <<it("M")>>, FALSE, 0, 0, 2),
     [N_("menu", "menu", <<YES>>, TRUE, 5, 9, 1) EXCEPT !.visibility = it("M")],
     N_("sym", "C", <<it("M")>>, FALSE, 0, 6, 4),
     N_("choice", "CH", <<it("M")>>, TRUE, 7, 0, 4),
     N_("sym", "X", <<it("CH")>>, FALSE, 0, 8, 6),
     N_("sym", "Y", << <<"and", it("C"), it("CH")>> >>, FALSE, 0, 0, 6),
     N_("sym", "D", <<YES>>, TRUE, 10, 11, 1),
     N_("sym", "E", <<it("D")>>, FALSE, 0, 0, 9),
     N_("comment", "comment", <<it("C")>>, FALSE, 0, 12, 1),
     N_("sym", "M", <<NO>>, FALSE, 13, 0, 1),
     N_("sym", "N", <<it("M")>>, FALSE, 0, 0, 12) >>
MCByName == <<5, 9, 10, 2, 12, 3, 13, 7, 8, 6>>
MCByPrompt == <<4, 11>>
MCOrigDefaults ==
  [x \in DOMAIN MCDefs |->
    CASE x = "N" -> << <<c(1), YES>> >> [] x = "C" -> << <<YES, YES>> >>
      [] x = "D" -> << <<c(1), YES>> >> [] OTHER -> <<>>]

MCAbsent == << <<"absent", 0>> >>
MCNames == {".config", "defconfig"}
MCTexts == [N |-> {1, 2, 3, -5}]
MCStartFiles ==
  {("defconfig" :> << <<"M", -3>>, <<"E", 2>> >>) @@ (".config" :> config) :
     config \in {MCAbsent,
       << <<"M", 2>>, <<"N", 7>>, <<"C", -3>>, <<"X", 2>>, <<"D", 1>>, <<"E", -3>> >>}}

\* guiconfig.py has a part of it: M is a menuconfig there, with N in its menu, and D, E and
\* the second places are left out.
GuiItems == {"M", "N", "C", "CH", "X", "Y"}
GuiDefs ==
  [x \in GuiItems |->
    CASE x = "M" -> Sym("bool", NoItem, YES, <<>>, YES, NO)
      [] x = "N" -> [MCDefs[x] EXCEPT !.prompts = <<it("M")>>, !.ranges = << <<c(1), c(2), it("M")>> >>]
      [] OTHER -> MCDefs[x]]
GuiNodes ==
  [n \in 1..9 |-> CASE n = 2 -> [MCNodes[n] EXCEPT !.is_menuconfig = TRUE]
                    [] n = 4 -> [MCNodes[n] EXCEPT !.next = 9]
                    [] n = 9 -> [MCNodes[11] EXCEPT !.next = 0]
                    [] OTHER -> MCNodes[n]]
GuiStartFiles ==
  {("defconfig" :> << <<"M", -3>>, <<"X", 2>> >>)
   @@ (".config" :> << <<"M", 2>>, <<"N", 7>>, <<"C", -3>>, <<"X", 2>> >>)}
\* The texts: matching all, three, none; and a bad expression.
MCSearches == << 2..13, {6, 9, 5}, {}, {0} >>
MCTerminals == {6, 9}

VARIABLES front,   \* the front end that was started
  u, term, pending, files, conf_filename, minconf_filename, exit, ondisk, events,
  g, text, sel, scroll, height
shared == <<files, conf_filename, minconf_filename, exit, ondisk, events>>
listVars == <<text, sel, scroll, height>>
vars == <<front, u, term, pending, g, shared, boxVars, listVars>>

M == INSTANCE Menuconfig WITH
       Defs <- MCDefs, Order <- MCOrder, NodeOrder <- MCNodeOrder, Known <- MCKnown, AllnoY <- {},
       DefconfigList <- <<>>, Nodes <- MCNodes, ByName <- MCByName, ByPrompt <- MCByPrompt,
       Unnamed <- {"CH"}, OrigDefaults <- MCOrigDefaults, Terminals <- MCTerminals,
       Names <- MCNames, Texts <- MCTexts, StartFiles <- MCStartFiles
G == INSTANCE Guiconfig WITH
       Defs <- GuiDefs, Order <- <<"M", "N", "C", "X", "Y">>,
       NodeOrder <- <<"M", "N", "C", "CH", "X", "Y">>, Known <- {"M", "N", "C", "X", "Y"},
       AllnoY <- {}, DefconfigList <- <<>>, Nodes <- GuiNodes, ByName <- <<5, 2, 3, 7, 8, 6>>,
       ByPrompt <- <<4, 9>>, Unnamed <- {"CH"},
       OrigDefaults <- Restrict(MCOrigDefaults, GuiItems),
       Names <- MCNames, Texts <- MCTexts, StartFiles <- GuiStartFiles,
       Searches <- {{2, 4, 8}, {6, 9, 3}, {}, {0}}, MaxEvents <- GuiEvents
J == INSTANCE JumpDialog WITH
       Defs <- MCDefs, Order <- MCOrder, NodeOrder <- MCNodeOrder, Known <- MCKnown, AllnoY <- {},
       DefconfigList <- <<>>, Nodes <- MCNodes, ByName <- MCByName, ByPrompt <- MCByPrompt,
       Unnamed <- {"CH"}, OrigDefaults <- MCOrigDefaults, Searches <- MCSearches,
       Terminals <- MCTerminals

\* What the variables are that do not belong to the front end.
NoMenu ==
  /\ u = [shown |-> <<1>>, sel |-> 0, scroll |-> 0, height |-> 1] /\ term = 0 /\ pending = FALSE
NoTree == g = <<>>
NoFiles ==
  /\ files = <<>> /\ conf_filename = "" /\ minconf_filename = "" /\ exit = "" /\ ondisk = <<>>
  /\ events = 0
NoList == text = 1 /\ sel = 0 /\ scroll = 0 /\ height = 1
NoBox == boxLen = 0 /\ i = 0 /\ hscroll = 0 /\ width = 3 /\ fitted = TRUE

Init ==
  /\ front \in FrontEnds
  /\ IF front = "menuconfig" THEN M!Init /\ NoTree /\ NoList /\ NoBox
     ELSE IF front = "guiconfig" THEN G!Init /\ NoMenu /\ NoList /\ NoBox
     ELSE IF front = "jump" THEN J!Init /\ NoFiles /\ NoMenu /\ NoTree /\ NoBox
     ELSE BoxInit /\ NoFiles /\ NoMenu /\ NoTree /\ NoList
RunMenuconfig == front = "menuconfig" /\ M!Next /\ UNCHANGED <<front, g, boxVars, listVars>>
RunGuiconfig == front = "guiconfig" /\ G!Next /\ UNCHANGED <<front, u, term, pending, boxVars, listVars>>
RunJump == front = "jump" /\ J!Next /\ UNCHANGED <<front, u, term, pending, g, shared, boxVars>>
RunBox == front = "edit" /\ BoxNext /\ UNCHANGED <<front, u, term, pending, g, shared, listVars>>
Next == RunMenuconfig \/ RunGuiconfig \/ RunJump \/ RunBox
Spec == Init /\ [][Next]_vars

Menu == front = "menuconfig"
Gui == front = "guiconfig"

\* NoTraceback: menuconfig.py finds the node it looks for among those shown, when values are
\* changed or loaded, nodes are jumped to or hidden (_update_menu, _leave_menu,
\* _toggle_show_all), with one exception: an entry of a symbol defined at two places, itself
\* invisible and shown for its children, that its own new value hides (ShownForChildren).
\* guiconfig.py's tree is never empty and no handler dies of an index (_do_showall, _open),
\* with one exception: after a value changed in the jump-to dialog (NonEmptyButJump). Both
\* exceptions occur in the run; each choice of its tree is defined at one place.
NoTraceback == (Menu => M!NoTraceback) /\ (Gui => G!NonEmptyButJump)
\* DisplayTrue: the entries of the menu are those the values ask for (_shown); no row is
\* remembered for a menu that is not above (_parent_screen_rows); a choice in y mode is drawn
\* with exactly one selection, the one its own row names (_value_str, _node_str); and the
\* information of a symbol drawn as fixed names a symbol that selects it, with the value it
\* forces (_select_imply_info).
DisplayTrue ==
  Menu => M!TypeOK /\ M!ShownFresh /\ M!RowsAreOurs /\ M!OneSelected /\ M!Explained
\* NothingLost: when a front end has nothing to save, or says that it saved, the file it
\* names gives the values on display. (_conf_changed, _needs_save)
NothingLost == (Menu => M!NothingLost) /\ (Gui => G!NothingLost)
\* Scrolls: the main display of menuconfig.py implements a list with a cursor that is always
\* on the screen (ScrollList), through menus, changes of values, loads and resizes; and so
\* does the jump-to dialog's list, as long as something matches.
Scrolls == M!Scrolls /\ J!ListScrolls
\* TreeTrue: the rows of guiconfig.py's tree and their texts are those the values ask for,
\* although it is filled lazily (_update_tree, _build_full_tree, _load_parents), and so are
\* the texts in its jump-to dialog (_update_jump_to_display).
TreeTrue == Gui => G!TypeOK /\ G!TreeTrue /\ G!JumpTrue
\* Jumped: a jump in guiconfig.py ends on a row that is on display. (_load_parents)
Jumped == [][Gui /\ G!Jump => g'.focus \in Range(G!Rows(g'))]_vars
=============================================================================
