---------------------------- MODULE KconfigTree ----------------------------
(* What kconfiglib.py makes of the menu nodes it has parsed (_finalize_node()  *)
(* and after): dependencies go down the tree and properties up to the symbols    *)
(* and choices, implicit menus are made, ifs are removed, and loops found.       *)
(*                                                                         *)
(* N is the tree, a function from node numbers to nodes with the fields of        *)
(* MenuNode; list, next and parent are node numbers, Nil for None. D is a         *)
(* function from the symbols and choices to what KconfigEval calls Defs, and F     *)
(* is the pair [n, d]. A prompt is <<>> or <<condition>>: its text is left out.    *)
EXTENDS Integers, Sequences, FiniteSets, SequencesExt, TLC

Nil == 0
Top == 1
Y == <<"const", 2>>
M == <<"const", 1>>
No == <<"const", 0>>
It(i) == <<"item", i>>
NoChoice == "none"

NewNode(kind, item, parent, file, linenr) ==
  [kind |-> kind, item |-> item, defconfig_list |-> FALSE, prompt |-> <<>>, dep |-> Y, visibility |-> Y,
   defaults |-> <<>>, selects |-> <<>>, implies |-> <<>>, ranges |-> <<>>,
   parent |-> parent, list |-> Nil, next |-> Nil, file |-> file, linenr |-> linenr]

NewSym == [kind |-> "sym", type |-> "unknown", choice |-> NoChoice, prompts |-> <<>>, defaults |-> <<>>,
           ranges |-> <<>>, direct_dep |-> No, rev_dep |-> No, weak_rev_dep |-> No, env |-> FALSE,
           env_var |-> "", allnoconfig_y |-> FALSE, selects |-> <<>>, implies |-> <<>>]
NewChoice == [kind |-> "choice", type |-> "unknown", choice |-> NoChoice, prompts |-> <<>>,
              defaults |-> <<>>, syms |-> <<>>, direct_dep |-> No, optional |-> FALSE]

_make_and(e1, e2) ==
  IF e1 = Y THEN e2
  ELSE IF e2 = Y THEN e1
  ELSE IF e1 = No \/ e2 = No THEN No
  ELSE <<"and", e1, e2>>

_make_or(e1, e2) ==
  IF e1 = No THEN e2
  ELSE IF e2 = No THEN e1
  ELSE IF e1 = Y \/ e2 = Y THEN Y
  ELSE <<"or", e1, e2>>

---------------------------------------------------------------------------
(* Propagation.                                                              *)

\* The conditions, last in each property, with a dependency added.
Under(props, dep) ==
  [k \in DOMAIN props |-> [props[k] EXCEPT ![Len(props[k])] = _make_and(@, dep)]]

Inherit_AlwaysShown(node, basedep, visible_if) ==
  LET dep == _make_and(node.dep, basedep)
  IN [node EXCEPT !.dep = dep, !.prompt = [k \in DOMAIN @ |-> _make_and(@[k], dep)],
                  !.defaults = Under(@, dep), !.ranges = Under(@, dep),
                  !.selects = Under(@, dep), !.implies = Under(@, dep)]
\* One child with the dependency of its parent and the parent's 'visible if'.
Inherit(node, basedep, visible_if) ==
  LET dep == _make_and(node.dep, basedep)
      shown == IF node.kind \in {"sym", "choice"} THEN _make_and(visible_if, dep) ELSE dep
  IN [node EXCEPT !.dep = dep,
                  !.prompt = [k \in DOMAIN @ |-> _make_and(@[k], shown)],
                  !.defaults = Under(@, dep), !.ranges = Under(@, dep),
                  !.selects = Under(@, dep), !.implies = Under(@, dep)]

\* The nodes of the list that begins at id.
RECURSIVE Chain(_, _)
Chain(N, id) == IF id = Nil THEN <<>> ELSE <<id>> \o Chain(N, N[id].next)
InChain(N, id) == {Chain(N, id)[k] : k \in DOMAIN Chain(N, id)}

\* A choice is itself the dependency of what it contains.
_propagate_deps(N, id, visible_if) ==
  LET basedep == IF N[id].kind = "choice" THEN It(N[id].item) ELSE N[id].dep
  IN [k \in DOMAIN N |-> IF k \in InChain(N, N[id].list)
                         THEN Inherit(N[k], basedep, visible_if) ELSE N[k]]

RECURSIVE AddReverse_Last(_, _, _, _)
AddReverse_Last(D, sym, props, field) ==
  IF props = <<>> THEN D
  ELSE AddReverse_Last([D EXCEPT ![Head(props)[1]][field] = _make_and(@, It(sym))], sym, Tail(props), field)
\* 'select' and 'imply' become (weak) reverse dependencies of their targets.
RECURSIVE AddReverse(_, _, _, _)
AddReverse(D, sym, props, field) ==
  IF props = <<>> THEN D
  ELSE LET target == Head(props)[1]
           by == _make_and(It(sym), Head(props)[2])
       IN AddReverse([D EXCEPT ![target][field] = _make_or(@, by)], sym, Tail(props), field)

_add_props_to_sym(F, id) ==
  LET node == F.n[id]
      own == [F.d EXCEPT ![node.item] =
                [@ EXCEPT !.direct_dep = _make_or(@, node.dep), !.prompts = @ \o node.prompt,
                          !.defaults = @ \o node.defaults, !.ranges = @ \o node.ranges,
                          !.selects = @ \o node.selects, !.implies = @ \o node.implies]]
      rev == AddReverse(own, node.item, node.selects, "rev_dep")
  IN [F EXCEPT !.d = AddReverse(rev, node.item, node.implies, "weak_rev_dep")]

---------------------------------------------------------------------------
(* Implicit menus, ifs and choices.                                          *)

RECURSIVE _expr_depends_on(_, _)
_expr_depends_on(e, sym) ==
  CASE e[1] = "item" -> e[2] = sym
    [] e[1] \in {"=", "!="} ->
         LET other == IF e[3] = It(sym) THEN e[2] ELSE e[3]
         IN /\ It(sym) \in {e[2], e[3]}
            /\ \/ e[1] = "=" /\ other = M
               \/ other = Y
               \/ e[1] = "!=" /\ other = No
    [] e[1] = "and" -> _expr_depends_on(e[2], sym) \/ _expr_depends_on(e[3], sym)
    [] OTHER -> FALSE

_auto_menu_dep(N, id1, id2) ==
  _expr_depends_on(IF N[id2].prompt # <<>> THEN N[id2].prompt[1] ELSE N[id2].dep, N[id1].item)

RECURSIVE LastOf(_, _)
LastOf(N, id) == IF N[id].next = Nil THEN id ELSE LastOf(N, N[id].next)

RECURSIVE _flatten_KeepParent(_, _)
_flatten_KeepParent(N, id) ==
  IF id = Nil THEN N
  ELSE IF N[id].list # Nil /\ N[id].prompt = <<>> /\ N[id].kind # "choice"
  THEN _flatten_KeepParent([N EXCEPT ![LastOf(N, N[id].list)].next = N[id].next,
                                     ![id].next = N[id].list, ![id].list = Nil], N[id].list)
  ELSE _flatten_KeepParent(N, N[id].next)
\* Nodes without a prompt give up their children, which then follow them.
RECURSIVE _flatten(_, _)
_flatten(N, id) ==
  IF id = Nil THEN N
  ELSE LET node == N[id]
           children == InChain(N, node.list)
           raised == [k \in DOMAIN N |-> IF k \in children THEN [N[k] EXCEPT !.parent = node.parent] ELSE N[k]]
           linked == [raised EXCEPT ![LastOf(N, node.list)].next = node.next,
                                    ![id].next = node.list, ![id].list = Nil]
       IN IF node.list # Nil /\ node.prompt = <<>> /\ node.kind # "choice"
          THEN _flatten(linked, linked[id].next)
          ELSE _flatten(N, node.next)

\* The first node from id on that is not an if.
RECURSIVE SkipIfs(_, _)
SkipIfs(N, id) == IF id # Nil /\ N[id].kind = "if" THEN SkipIfs(N, N[id].next) ELSE id

RECURSIVE Relink(_, _)
Relink(N, id) ==
  IF id = Nil THEN N
  ELSE LET next == SkipIfs(N, N[id].next) IN Relink([N EXCEPT ![id].next = next], next)

_remove_ifs(N, id) ==
  LET first == SkipIfs(N, N[id].list) IN Relink([N EXCEPT ![id].list = first], first)

\* The symbols directly below a choice are its choice symbols, and take its type
\* if they have none; a choice without a type takes that of its first symbol with one.
_finalize_choice(F, id) ==
  LET choice == F.n[id].item
      below == SelectSeq(Chain(F.n, F.n[id].list), LAMBDA k : F.n[k].kind = "sym")
      added == [k \in DOMAIN below |-> F.n[below[k]].item]
      syms == F.d[choice].syms \o added
      typed == SelectSeq(syms, LAMBDA s : F.d[s].type # "unknown")
      type == IF F.d[choice].type # "unknown" \/ typed = <<>>
              THEN F.d[choice].type ELSE F.d[Head(typed)].type
  IN [F EXCEPT !.d =
        [s \in DOMAIN F.d |->
           IF s = choice THEN [F.d[s] EXCEPT !.syms = syms, !.type = type]
           ELSE [F.d[s] EXCEPT
                   !.choice = IF \E k \in DOMAIN added : added[k] = s THEN choice ELSE @,
                   !.type = IF @ = "unknown" /\ \E k \in DOMAIN syms : syms[k] = s THEN type ELSE @]]]

---------------------------------------------------------------------------
RECURSIVE _finalize_node(_, _, _), FinalizeChildren(_, _, _), AutoMenu(_, _, _, _)

\* The nodes after cur that depend on the symbol of node id become its children.
AutoMenu(F, id, cur, visible_if) ==
  LET next == F.n[cur].next
      done == _finalize_node(F, next, visible_if)
      tilted == [F.n EXCEPT ![id].list = F.n[id].next, ![id].next = F.n[cur].next, ![cur].next = Nil]
  IN IF next # Nil /\ _auto_menu_dep(F.n, id, next)
     THEN AutoMenu([done EXCEPT !.n[next].parent = id], id, next, visible_if)
     ELSE IF cur = id THEN F
     ELSE [F EXCEPT !.n = tilted]

FinalizeChildren(F, cur, visible_if) ==
  IF cur = Nil THEN F
  ELSE LET done == _finalize_node(F, cur, visible_if)
       IN FinalizeChildren(done, done.n[cur].next, visible_if)

_finalize_node(F, id, visible_if) ==
  LET node == F.n[id]
      below == IF node.kind = "menu" THEN _make_and(visible_if, node.visibility) ELSE visible_if
      inner == IF node.kind = "sym" THEN AutoMenu(_add_props_to_sym(F, id), id, id, visible_if)
               ELSE IF node.list = Nil THEN F
               ELSE FinalizeChildren([F EXCEPT !.n = _propagate_deps(@, id, below)], node.list, below)
      level == IF inner.n[id].list = Nil THEN inner
               ELSE [inner EXCEPT !.n = _remove_ifs(_flatten(@, @[id].list), id)]
      choice == [level EXCEPT !.d[node.item] =
                   [@ EXCEPT !.direct_dep = _make_or(@, level.n[id].dep),
                             !.prompts = @ \o level.n[id].prompt,
                             !.defaults = @ \o level.n[id].defaults]]
  IN IF node.kind = "choice" THEN _finalize_choice(choice, id) ELSE level

---------------------------------------------------------------------------
(* Dependency loops. deps is what _build_dep() makes; a search is the record of    *)
(* the _visited marks, the loop found so far and whether it has been raised.       *)

Quiet == [loop |-> <<>>, raised |-> FALSE]
Marked(S, i, mark) == [S EXCEPT !.visited[i] = mark]

_found_dep_loop(S, cur) ==
  IF S.raised THEN S
  ELSE IF cur = Head(S.loop) THEN [S EXCEPT !.raised = TRUE]
  ELSE [S EXCEPT !.loop = Append(@, cur)]

RECURSIVE _check_dep_loop_sym(_, _, _, _), _check_dep_loop_choice(_, _, _, _), TryAll(_, _, _, _)

\* Each item of a list, until one is in a loop: choices are entered with all of
\* their symbols, symbols as such. 'inside' says that the list is that of a choice.
TryAll(items, inside, G, S) ==
  IF items = <<>> \/ S.loop # <<>> THEN S
  ELSE LET i == Head(items)
           next == IF G.d[i].kind = "choice" THEN _check_dep_loop_choice(i, NoChoice, G, S)
                   ELSE _check_dep_loop_sym(i, inside, G, S)
       IN TryAll(Tail(items), inside, G, next)

_check_dep_loop_sym(sym, ignore_choice, G, S) ==
  LET choice == G.d[sym].choice
      deps == TryAll(SetToSeq(G.deps[sym]), FALSE, G, Marked(S, sym, 1))
      all == IF deps.loop = <<>> /\ choice # NoChoice /\ ~ignore_choice
             THEN _check_dep_loop_choice(choice, sym, G, deps) ELSE deps
  IN CASE S.visited[sym] = 2 -> S
       [] S.visited[sym] = 1 -> [S EXCEPT !.loop = <<sym>>]
       [] OTHER -> IF all.loop # <<>> THEN _found_dep_loop(all, sym) ELSE Marked(all, sym, 2)

_check_dep_loop_choice_NoSkip(choice, skip, G, S) ==
  LET all == TryAll(G.d[choice].syms, TRUE, G, Marked(S, choice, 1))
  IN CASE S.visited[choice] = 2 -> S
       [] S.visited[choice] = 1 -> [S EXCEPT !.loop = <<choice>>]
       [] OTHER -> IF all.loop # <<>> THEN _found_dep_loop(all, choice) ELSE Marked(all, choice, 2)
_check_dep_loop_choice(choice, skip, G, S) ==
  LET syms == SelectSeq(G.d[choice].syms, LAMBDA s : s # skip)
      all == TryAll(syms, TRUE, G, Marked(S, choice, 1))
  IN CASE S.visited[choice] = 2 -> S
       [] S.visited[choice] = 1 -> [S EXCEPT !.loop = <<choice>>]
       [] OTHER -> IF all.loop # <<>> THEN _found_dep_loop(all, choice) ELSE Marked(all, choice, 2)

\* The search of the constructor: from every defined symbol, until a loop is raised.
DepLoop(D, deps, unique_defined_syms) ==
  TryAll(unique_defined_syms, FALSE, [d |-> D, deps |-> deps],
         Quiet @@ [visited |-> [i \in DOMAIN D |-> 0]])
=============================================================================
