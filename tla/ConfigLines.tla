---------------------------- MODULE ConfigLines ----------------------------
(* The lines kconfiglib.py writes into its files, and what it reads from its own        *)
(* auto.conf. A file is a sequence of lines <<name, v>>: CONFIG_name=v, and              *)
(* # CONFIG_name is not set for v = NotSet. Comments, blank and malformed lines, and      *)
(* the header, are left out.                                                  *)
(*                                                                         *)
(* t is a version of the Kconfig files: t.order is unique_defined_syms, t.known the      *)
(* names in syms, t.defs what parsing leaves of each symbol. vals are the values of       *)
(* the defined symbols, each with its _write_to_conf.                                *)
EXTENDS Integers, Sequences, FiniteSets, SequencesExt

\* What stands for the values in every module of Kconfiglib. n, m and y are 0, 1, 2; the
\* value of a string, int or hex symbol is a number too.
None == -2      \* no value
Empty == -1     \* the empty string
NotSet == -3    \* what "# CONFIG_X is not set" says of X
BoolTri == {"bool", "tristate"}

\* The contents of a file that does not exist.
Absent == << <<"absent", 0>> >>

IsTri(t, i) == t.defs[i].type \in BoolTri
InConf(t, vals) == {i \in ToSet(t.order) : vals[i][2]}
NotN(t, vals) == {i \in ToSet(t.order) : ~(IsTri(t, i) /\ vals[i][1] = 0)}

\* The members of a list that are in a set, in their order: the n-th of them is the one
\* with n up to it.
Nth(n, places) == CHOOSE k \in places : Cardinality({j \in places : j <= k}) = n
Listed(list, places) == [n \in 1..Cardinality(places) |-> list[Nth(n, places)]]
Those(list, set) == Listed(list, {k \in DOMAIN list : list[k] \in set})

config_string(t, i, val) == <<i, IF IsTri(t, i) /\ val[1] = 0 THEN NotSet ELSE val[1]>>

\* The lines of the symbols of a set that have one.
LinesFor(t, vals, shown) ==
  [k \in DOMAIN shown |-> config_string(t, shown[k], vals[shown[k]])]
LinesOf(t, vals, syms) == LinesFor(t, vals, Those(t.order, syms \cap InConf(t, vals)))

config_lines_NoN(t, vals) == LinesOf(t, vals, NotN(t, vals))
config_lines(t, vals) == LinesOf(t, vals, ToSet(t.order))

\* n is left out, so that a missing symbol is one of value n.
autoconf_lines(t, vals) == LinesOf(t, vals, NotN(t, vals))
old_vals_lines(t, vals) == LinesOf(t, vals, NotN(t, vals))

---------------------------------------------------------------------------
(* sync_deps().                                                             *)

\* _load_old_vals(): the old value of each symbol, None when it had none.
OldVal(i, auto) ==
  LET lines == {k \in DOMAIN auto : auto[k][1] = i}
  IN IF lines = {} THEN None ELSE auto[CHOOSE k \in lines : \A l \in lines : l <= k][2]

\* The names in auto.conf that are no symbols now: flagged, and first.
NamesIn(auto) == [k \in DOMAIN auto |-> auto[k][1]]
Removed(t, auto) == Those(NamesIn(auto), ToSet(NamesIn(auto)) \ t.known)

ChangedSym(t, i, val, old) ==
  IF val[2] THEN val[1] # old /\ ~(old = None /\ IsTri(t, i) /\ val[1] = 0)
  ELSE old # None

ChangedSyms(t, auto, vals) == {i \in ToSet(t.order) : ChangedSym(t, i, vals[i], OldVal(i, auto))}
ToTouch(t, auto, vals) == Removed(t, auto) \o Those(t.order, ChangedSyms(t, auto, vals))
=============================================================================
