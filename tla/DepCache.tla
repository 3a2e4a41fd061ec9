------------------------------ MODULE DepCache ------------------------------
(* A cache of computed values that is always right: the specification that    *)
(* the cached values of Symbol and Choice (KconfigValues) implement. It says    *)
(* nothing of how values are computed, and leaves open how much an              *)
(* invalidation drops, as long as it drops everything that it can reach         *)
(* through items with cached values.                                          *)
EXTENDS DepGraph

VARIABLES user, cache
vars == <<user, cache>>

Filled == DOMAIN cache

Init == /\ user \in User
        /\ cache = [c \in {} |-> c]

\* A set of items that an invalidation which begins at x may drop.
Reached(x, D) ==
  /\ x \in D
  /\ \A y \in D : \A z \in Dependents[y] : VisCell(z) \in Filled => z \in D
  /\ Modules \in D => D = Item

Drop(D) == cache' = [c \in {d \in Filled : ItemOf(d) \notin D} |-> cache[c]]

\* A value is asked for: the cells that are missing are computed.
Read(c) ==
  /\ cache' = [d \in Filled \cup Reads(user, c) |->
                 IF d \in Filled THEN cache[d] ELSE Value(user, d)]
  /\ UNCHANGED user

\* What an invalidation that begins at x does.
Invalidate(x) == \E D \in SUBSET Item : Reached(x, D) /\ Drop(D)

\* The user value of x changes. Without a prompt it cannot matter, and nothing
\* is dropped.
Set(x) ==
  \E w \in InputOf(x) :
    /\ user' = [user EXCEPT ![x] = w]
    /\ Invalidate(x) \/ (x \notin Inputs /\ UNCHANGED cache)

\* A choice symbol becomes the user selection of its choice: both change, and the
\* invalidation begins at the choice.
Select(x, choice) ==
  \E w \in InputOf(x), sel \in InputOf(choice) :
    /\ x \in Dependents[choice]
    /\ user' = [user EXCEPT ![x] = w, ![choice] = sel]
    /\ Invalidate(choice)

Next ==
  \/ \E c \in Cell : Read(c)
  \/ \E x \in Item : Set(x)
  \/ \E x, choice \in Item : Select(x, choice)

Spec == Init /\ [][Next]_vars

\* No cached value is stale: it is what a computation with the user values of
\* this moment gives (the purpose of Symbol._rec_invalidate()).
NoStale == \A c \in Filled : cache[c] = Value(user, c)
=============================================================================
