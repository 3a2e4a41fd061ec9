--------------------------- MODULE KconfigValues ---------------------------
(* A Kconfig instance in use (kconfiglib.py): values are read one by one and    *)
(* cached, and between the reads user values are set and taken back. Every        *)
(* front end (menuconfig.py, guiconfig.py, genconfig.py, the test bench of        *)
(* scripts) drives the library by these calls.                                  *)
EXTENDS KconfigEval

CONSTANTS InputsOf,  \* the user values of each item
          ReadCells, \* bound: the attributes that are read from outside
          MaxSets    \* bound: how often a behaviour sets or unsets a value

VARIABLES st,        \* the items' user values and caches
          sets       \* how many values have been set and unset
vars == <<st, sets>>

Init == st = Init_s /\ sets = 0

\* Reading str_value/tri_value, visibility, assignable or selection.
Read(cell) == st' = Ask(cell, st).s /\ UNCHANGED sets

Setting == sets < MaxSets /\ sets' = sets + 1

Set(i) ==
  /\ Setting
  /\ \E v \in {IF i \in ChoiceItems THEN x.mode ELSE x : x \in InputsOf[i]} \ {None} :
       st' = set_value(i, v, st)

Unset(i) == Setting /\ st' = unset_value(i, st)

Next == \/ \E cell \in ReadCells : Read(cell)
        \/ \E i \in Items : Set(i) \/ Unset(i)

Spec == Init /\ [][Next]_vars

TypeOK ==
  /\ sets \in 0..MaxSets
  /\ \A i \in Items : st.user[i] \in InputsOf[i] /\ st.was[i] \in BOOLEAN
  /\ DOMAIN st.c \subseteq Cells

---------------------------------------------------------------------------
(* The library implements the cache that is always right (DepCache).            *)

\* Every combination of user values, and what a fresh computation finds for each.
UserVals ==
  FoldSet(LAMBDA i, us : {(i :> v) @@ u : v \in InputsOf[i], u \in us}, {<<>>}, Items)
FreshTable ==
  [u \in UserVals |->
     [cell \in Cells |-> Ask(cell, [user |-> u, was |-> Init_s.was, c |-> <<>>])]]
FreshValue(u, cell) == FreshTable[u][cell].v
FreshReads(u, cell) == DOMAIN FreshTable[u][cell].s.c

\* The cells a computation uses itself: it fills them when they alone are missing.
UsesTable ==
  [u \in UserVals |-> [cell \in Cells |->
     LET s == FreshTable[u][cell].s
         Without(d) == [s EXCEPT !.c = Restrict(@, DOMAIN @ \ {cell, d})]
     IN {d \in DOMAIN s.c \ {cell} : d \in DOMAIN Ask(cell, Without(d)).s.c}]]
FreshUses(u, cell) == UsesTable[u][cell]
CellItem(cell) == cell[1]
ItemVis(i) == <<i, "vis">>
InputSet(i) == InputsOf[i]
PromptedItems == ChoiceItems \cup {i \in Syms : Defs[i].prompts # <<>>}

Cache == INSTANCE DepCache WITH
  Item <- Items, Cell <- Cells, ItemOf <- CellItem, VisCell <- ItemVis, User <- UserVals,
  InputOf <- InputSet, Value <- FreshValue, Uses <- FreshUses, Reads <- FreshReads,
  Dependents <- _dependents, Inputs <- PromptedItems, Modules <- MODULES, user <- st.user, cache <- st.c

\* No attribute is ever answered from a stale cache: every cached value is what a
\* computation from the user values of this moment would give. It is what the
\* invalidation may not lose when it stops at items without a cached visibility.
NoStale == Cache!NoStale

\* Every call reads, or sets and invalidates, as the cache that is always right.
ImplementsDepCache == Cache!Spec

---------------------------------------------------------------------------
(* What the values promise.                                                  *)

FreshTri(i) == Tri(i, st)

\* A choice in y mode has exactly one symbol set to y as soon as one of its
\* symbols is visible, and no symbol of a choice in another mode is y (Choice,
\* mode and selection).
OneSelected ==
  \A ch \in ChoiceItems :
    LET syms == Range(Defs[ch].syms)
        on == {i \in syms : FreshTri(i) = 2}
    IN IF FreshTri(ch) = 2
       THEN (\E i \in syms : Vis(i, st) # 0) => Cardinality(on) = 1
       ELSE on = {}

\* Setting a value that 'assignable' offers gives the item that value, except that
\* m is offered to a symbol of visibility m that is selected to m and implied to y.
Respected(i, v) ==
  Tri(i, set_value(i, v, Uncached(st))) = v
ImpliedOver(i) ==
  /\ i \in Syms
  /\ Vis(i, st) = 1
  /\ expr_value(Defs[i].rev_dep, Uncached(st)).v = 1
  /\ expr_value(Defs[i].weak_rev_dep, Uncached(st)).v = 2
AssignableRespected ==
  \A i \in Items : Defs[i].type \in BoolTri =>
    \A v \in Fresh(<<i, "asg">>, st) : ImpliedOver(i) \/ Respected(i, v)

\* m is a value of tristates alone, and of none while MODULES is n.
NoModuleWithoutModules ==
  \A i \in Items : Defs[i].type \in BoolTri /\ FreshTri(i) = 1 =>
    Defs[i].type = "tristate" /\ (MODULES \in Items => FreshTri(MODULES) # 0)

\* The values are of their types and hang together as the library promises.
ValuesRight == TypeOK /\ OneSelected /\ AssignableRespected /\ NoModuleWithoutModules
=============================================================================
