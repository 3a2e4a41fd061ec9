----------------------------- MODULE BuildScripts ----------------------------
(* The scripts of a build that keep no state: update_build_info.py, and the order of the  *)
(* components by sort_components.py.                                              *)
EXTENDS SequencesExt, Integers

---------------------------------------------------------------------------
(* update_build_info.py as the build calls it: the time and the version of a build, in a   *)
(* header each. A header is what is between its markers, a sequence of blocks: nothing     *)
(* else is ever written to it, and without markers it is treated as an empty one. Of the   *)
(* time it matters only that it is there.                                         *)

\* A working tree: the last tag in the parts between its dashes (none: no tag), the commits
\* since, the hash, and whether something was changed. A part is <<kind, value>>, of a tag
\* that starts with v the first is <<"v", numbers>>.
Part == ({"v"} \X Seq(Nat)) \cup ({"n", "text"} \X Nat)
describe(t) ==
  t.tag \o (IF t.tag = <<>> THEN <<>> ELSE <<<<"n", t.n>>>>)
  \o <<<<"hash", t.hash>>>> \o (IF t.dirty THEN <<<<"dirty", 0>>>> ELSE <<>>)

Is(part, kind) == part[1] = kind

\* The numbers of a name of one part, or of two; a part that is no number counts as 0.
Numbers(p) == IF Is(p, "v") THEN p[2] ELSE <<>>
NumbersAnd(p, q) == IF Is(p, "v") THEN Append(p[2], IF Is(q, "n") THEN q[2] ELSE 0) ELSE <<>>

\* The parts are told apart by their number alone.
Described_DirtyThird(parts) ==
  CASE Len(parts) = 1 -> [numbers |-> <<>>, hash |-> parts[1], dirty |-> FALSE]
    [] Len(parts) = 2 -> IF Is(parts[2], "dirty") THEN [numbers |-> <<>>, hash |-> parts[1], dirty |-> TRUE]
                         ELSE [numbers |-> Numbers(parts[1]), hash |-> parts[2], dirty |-> FALSE]
    [] Len(parts) = 3 -> IF Is(parts[3], "dirty")
                         THEN [numbers |-> Numbers(parts[1]), hash |-> parts[2], dirty |-> TRUE]
                         ELSE [numbers |-> NumbersAnd(parts[1], parts[2]), hash |-> parts[3], dirty |-> FALSE]
    [] OTHER -> [numbers |-> NumbersAnd(parts[1], parts[2]), hash |-> parts[3],
                 dirty |-> Is(parts[3], "dirty")]
Described(parts) ==
  CASE Len(parts) = 1 -> [numbers |-> <<>>, hash |-> parts[1], dirty |-> FALSE]
    [] Len(parts) = 2 -> IF Is(parts[2], "dirty") THEN [numbers |-> <<>>, hash |-> parts[1], dirty |-> TRUE]
                         ELSE [numbers |-> Numbers(parts[1]), hash |-> parts[2], dirty |-> FALSE]
    [] Len(parts) = 3 -> IF Is(parts[3], "dirty")
                         THEN [numbers |-> Numbers(parts[1]), hash |-> parts[2], dirty |-> TRUE]
                         ELSE [numbers |-> NumbersAnd(parts[1], parts[2]), hash |-> parts[3], dirty |-> FALSE]
    [] OTHER -> [numbers |-> NumbersAnd(parts[1], parts[2]), hash |-> parts[3],
                 dirty |-> Is(parts[4], "dirty")]

\* Major, minor, micro and dev are the first four numbers.
version(numbers) == [k \in 1..4 |-> IF k \in DOMAIN numbers THEN numbers[k] ELSE 0]
GitDefine(d) == [version |-> version(d.numbers), hash |-> d.hash, dirty |-> d.dirty]
git_define(parts) == GitDefine(Described(parts))
time_define == "time"

\* All between the first and the last marker goes; then the block is put in its place.
remove_old_config_info_None(content) == content
remove_old_config_info(content) == <<>>
append_time_info(content, block) == Append(remove_old_config_info(content), block)

\* What a version header should say of a tree: 4 commits after v1.2.3 it is version 1.2.3.4.
VersionOf(t) ==
  LET numbers == IF t.tag # <<>> /\ Is(t.tag[1], "v") THEN Append(t.tag[1][2], t.n) ELSE <<>>
  IN [version |-> version(numbers), hash |-> <<"hash", t.hash>>, dirty |-> t.dirty]

---------------------------------------------------------------------------
(* sort_components.py: the components of a build in the order of compile/priority.conf,   *)
(* then those it does not name. A component is [dir, name]; the file is absent, or has    *)
(* the names of its lines one after the other, comments left out.                        *)

\* A name that is listed twice has its last place.
dict_order(names) == [n \in ToSet(names) |-> Max({k \in DOMAIN names : names[k] = n})]

Placed_BeforeEqual(c, list, order) ==
  LET later == {j \in DOMAIN list : order[c.name] <= order[list[j].name]}
  IN IF later = {} THEN Append(list, c) ELSE InsertAt(list, Min(later), c)
Placed(c, list, order) ==
  LET later == {j \in DOMAIN list : order[c.name] < order[list[j].name]}
  IN IF later = {} THEN Append(list, c) ELSE InsertAt(list, Min(later), c)

\* final_components and components_not_ordered with one more component.
Added(c, p, order) ==
  IF c.name \in DOMAIN order THEN [p EXCEPT !.final = Placed(c, @, order)]
  ELSE [p EXCEPT !.others = Append(@, c)]

\* Both, after the first k components.
Sorting(components, order) ==
  LET after[k \in 0..Len(components)] ==
        IF k = 0 THEN [final |-> <<>>, others |-> <<>>]
        ELSE Added(components[k], after[k - 1], order)
  IN after

Sorted(components, order) ==
  LET all == Sorting(components, order)[Len(components)] IN all.final \o all.others

\* Without the file (exit 2) compile.cmake takes the components as it found them.
component_dirs_sorted(components, conf) ==
  IF conf.exists THEN Sorted(components, dict_order(conf.names)) ELSE components

\* What is asked of the order r of the components cs: nothing is lost, a component named
\* earlier comes before one named later, both before one not named, and otherwise nothing
\* moves.
Rank(c, names) ==
  IF c.name \in ToSet(names) THEN Max({k \in DOMAIN names : names[k] = c.name}) ELSE Len(names) + 1
Place(c, cs) == CHOOSE k \in DOMAIN cs : cs[k] = c
Before(c, d, cs, names) ==
  \/ Rank(c, names) < Rank(d, names)
  \/ Rank(c, names) = Rank(d, names) /\ Place(c, cs) < Place(d, cs)
RightOrder(r, cs, conf) ==
  LET names == IF conf.exists THEN conf.names ELSE <<>>
  IN /\ ToSet(r) = ToSet(cs) /\ Len(r) = Len(cs)
     /\ \A x, y \in DOMAIN r : x < y => Before(r[x], r[y], cs, names)
=============================================================================
