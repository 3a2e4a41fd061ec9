------------------------------ MODULE DepGraph ------------------------------
(* What the invalidation of kconfiglib.py relies on: items whose values are   *)
(* computed from each other and from what the user has set, and the           *)
(* _dependents sets that _build_dep() collects from the properties.           *)
(*                                                                         *)
(* A cell is one cached attribute of an item. Value(u, c) is what the cell     *)
(* should hold when the user values are u; computing it asks for the cells      *)
(* Uses(u, c), and fills the cells Reads(u, c) that are not filled yet.         *)
EXTENDS FiniteSets

CONSTANTS
  Item, Cell,
  ItemOf(_),      \* the item a cell belongs to
  VisCell(_),     \* the cell of an item that is filled whenever any is
  User,           \* the user values: functions on Item
  InputOf(_),     \* the user values of one item
  Value(_, _), Uses(_, _), Reads(_, _),
  Dependents,     \* Symbol._dependents, Choice._dependents
  Inputs,         \* the items whose user value can matter: those with a prompt
  Modules         \* the symbol whose change drops every cache

ASSUME CellAssumption ==
  /\ IsFiniteSet(Cell)
  /\ \A c \in Cell : ItemOf(c) \in Item
  /\ \A x \in Item : VisCell(x) \in Cell
  /\ Dependents \in [Item -> SUBSET Item]

ASSUME UserAssumption ==
  \A u \in User : \A x \in Item : \A w \in InputOf(x) : [u EXCEPT ![x] = w] \in User

\* Computing a cell fills that cell, what the cells it uses fill, and so the visibility
\* of its item; it never comes to use itself (the constructor reports such a loop).
ASSUME ReadsAssumption ==
  \A u \in User : \A c \in Cell :
    /\ Uses(u, c) \subseteq Cell /\ Reads(u, c) \subseteq Cell
    /\ Reads(u, c) = {c} \cup UNION {Reads(u, d) : d \in Uses(u, c)}
    /\ VisCell(ItemOf(c)) \in Reads(u, c)
    /\ \A d \in Uses(u, c) : c \notin Reads(u, d)

\* The value of a cell, and the cells it uses, depend on the values of those cells, and
\* on the user values of its own item and of theirs: a value that is not cached, as the
\* mode of a choice, is computed from the user value by whoever asks for it.
ASSUME LocalityAssumption ==
  \A u \in User : \A c \in Cell : \A x \in Item : \A w \in InputOf(x) :
    LET v == [u EXCEPT ![x] = w] IN
    /\ x \in Inputs => \A d \in Uses(u, c) \cup {c} : ItemOf(d) # x
    /\ \A d \in Uses(u, c) : Value(v, d) = Value(u, d)
    => Value(v, c) = Value(u, c) /\ Uses(v, c) = Uses(u, c)

\* _build_dep(): the item of a cell is a dependent of every item it uses a cell of; but
\* for MODULES, on which all depend.
ASSUME DependentsAssumption ==
  \A u \in User : \A c \in Cell : \A d \in Uses(u, c) :
    ItemOf(c) \in Dependents[ItemOf(d)] \/ ItemOf(d) \in {ItemOf(c), Modules}
=============================================================================
