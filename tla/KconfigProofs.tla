--------------------------- MODULE KconfigProofs ---------------------------
(* Three results about kconfiglib.py. The cache of DepCache is never stale, whatever     *)
(* the items, their properties and the order of the calls: for every Kconfig tree        *)
(* that meets the assumptions of DepGraph. And of the directory of ConfigStore, for       *)
(* every sequence of versions of the Kconfig files, of tools and of crashes: the last      *)
(* complete configuration is kept, and the changes of a symbol are noticed.              *)
EXTENDS DepCache, ConfigStore, FiniteSetTheorems, SequenceTheorems, TLAPS

---------------------------------------------------------------------------
(* The cache.                                                               *)

\* A computation ends: cells each of which uses another one of them do not exist.
LEMMA ComputationsEnd ==
  ASSUME NEW u \in User, NEW bad \in SUBSET Cell, \A c \in bad : \E d \in Uses(u, c) : d \in bad
  PROVE  bad = {}
<1> DEFINE F == {Reads(u, c) : c \in bad}
           R == StrictSubsetOrdering(Cell)
           S == FiniteSubsetsOf(Cell)
<1>1. IsWellFoundedOn(R, S)
  BY FS_StrictSubsetOrderingWellFounded, Zenon
<1>2. F \subseteq S
  <2>1. \A T \in SUBSET Cell : IsFiniteSet(T)
    BY CellAssumption, FS_Subset
  <2>2. \A c \in bad : Reads(u, c) \in SUBSET Cell
    BY ReadsAssumption
  <2> QED BY <2>1, <2>2 DEF FiniteSubsetsOf
<1>3. \A T, V \in SUBSET Cell : T \subseteq V /\ T # V => <<T, V>> \in R
  BY DEF StrictSubsetOrdering
<1>4. SUFFICES ASSUME F # {} PROVE FALSE
  OBVIOUS
<1>5. PICK T \in F : \A V \in F : ~(<<V, T>> \in R)
  <2> HIDE DEF F, R, S
  <2> QED BY <1>1, <1>2, <1>4, WFMin
<1>6. PICK c \in bad : T = Reads(u, c)
  BY <1>5
<1>7. PICK d \in Uses(u, c) : d \in bad
  BY <1>6
<1>8. Reads(u, d) \subseteq Reads(u, c) /\ c \in Reads(u, c) /\ c \notin Reads(u, d)
  BY <1>6, <1>7, ReadsAssumption
<1>9. Reads(u, d) \in SUBSET Cell /\ Reads(u, c) \in SUBSET Cell
  BY <1>6, <1>7, ReadsAssumption
<1>10. <<Reads(u, d), T>> \in R
  <2> HIDE DEF R
  <2> QED BY <1>3, <1>6, <1>8, <1>9
<1> QED BY <1>5, <1>7, <1>10

\* What a cell reads includes what the cells it reads read, and those it uses.
LEMMA ReadsClosed ==
  ASSUME NEW u \in User, NEW c \in Cell, NEW d \in Reads(u, c)
  PROVE  Reads(u, d) \subseteq Reads(u, c)
<1> DEFINE bad == {e \in Cell : \E f \in Reads(u, e) : ~(Reads(u, f) \subseteq Reads(u, e))}
<1>1. ASSUME NEW e \in bad PROVE \E d1 \in Uses(u, e) : d1 \in bad
  <2>1. PICK f \in Reads(u, e) : ~(Reads(u, f) \subseteq Reads(u, e))
    OBVIOUS
  <2>2. Reads(u, e) = {e} \cup UNION {Reads(u, d1) : d1 \in Uses(u, e)} /\ Uses(u, e) \subseteq Cell
    BY ReadsAssumption
  <2>3. PICK d1 \in Uses(u, e) : f \in Reads(u, d1)
    BY <2>1, <2>2
  <2>4. ~(Reads(u, f) \subseteq Reads(u, d1)) /\ d1 \in Cell
    BY <2>1, <2>2, <2>3
  <2> QED BY <2>3, <2>4
<1>2. bad = {}
  <2> HIDE DEF bad
  <2>1. bad \in SUBSET Cell
    BY DEF bad
  <2> QED BY <1>1, <2>1, ComputationsEnd
<1> QED BY <1>2

\* A cell that reads no cell of an item, or of one without a prompt, does not depend on
\* its user values.
LEMMA ReadsAlone ==
  ASSUME NEW u \in User, NEW c \in Cell, NEW x \in Item, NEW w \in InputOf(x),
         x \in Inputs => \A d \in Reads(u, c) : ItemOf(d) # x
  PROVE  LET v == [u EXCEPT ![x] = w]
         IN Value(v, c) = Value(u, c) /\ Reads(v, c) = Reads(u, c)
<1> DEFINE v == [u EXCEPT ![x] = w]
           Apart(e) == x \in Inputs => \A d \in Reads(u, e) : ItemOf(d) # x
           bad == {e \in Cell : Apart(e) /\ ~(Value(v, e) = Value(u, e) /\ Reads(v, e) = Reads(u, e))}
<1>1. v \in User
  BY UserAssumption
<1>2. ASSUME NEW e \in bad, \A d \in Uses(u, e) : d \notin bad PROVE FALSE
  <2>1. e \in Cell /\ Uses(u, e) \subseteq Cell
    BY ReadsAssumption
  <2>2. Reads(u, e) = {e} \cup UNION {Reads(u, d) : d \in Uses(u, e)}
    BY <2>1, ReadsAssumption
  <2>3. \A d \in Uses(u, e) : Reads(u, d) \subseteq Reads(u, e) /\ d \in Reads(u, d)
    BY <2>1, <2>2, ReadsAssumption
  <2>4. Apart(e)
    OBVIOUS
  <2>5. \A d \in Uses(u, e) : Apart(d)
    BY <2>3, <2>4
  <2>6. \A d \in Uses(u, e) : Value(v, d) = Value(u, d) /\ Reads(v, d) = Reads(u, d)
    BY <1>2, <2>1, <2>5
  <2>7. x \in Inputs => \A d \in Uses(u, e) \cup {e} : ItemOf(d) # x
    BY <2>2, <2>3, <2>4
  <2>8. Value(v, e) = Value(u, e) /\ Uses(v, e) = Uses(u, e)
    BY <2>1, <2>6, <2>7, LocalityAssumption
  <2>9. Reads(v, e) = {e} \cup UNION {Reads(v, d) : d \in Uses(v, e)}
    <3> HIDE DEF v
    <3> QED BY <1>1, <2>1, ReadsAssumption
  <2>10. UNION {Reads(v, d) : d \in Uses(u, e)} = UNION {Reads(u, d) : d \in Uses(u, e)}
    BY <2>6
  <2>11. Reads(v, e) = Reads(u, e)
    BY <2>2, <2>8, <2>9, <2>10
  <2> QED BY <2>8, <2>11
<1>3. bad = {}
  <2> HIDE DEF bad
  <2>1. bad \in SUBSET Cell
    BY DEF bad
  <2> QED BY <1>2, <2>1, ComputationsEnd
<1> QED BY <1>3

\* From an item a cell reads, the dependents lead to the cell's own item through items
\* that are read on the way, or MODULES is among them.
LEMMA DependentsLead ==
  ASSUME NEW u \in User, NEW c \in Cell, NEW S,
         \A y \in S : \A z \in Dependents[y] : VisCell(z) \in Reads(u, c) => z \in S,
         NEW d \in Reads(u, c), ItemOf(d) \in S
  PROVE  ItemOf(c) \in S \/ Modules \in S
<1> DEFINE Leads(e) == (\E f \in Reads(u, e) : ItemOf(f) \in S) => ItemOf(e) \in S
           bad == {e \in Reads(u, c) : ~Leads(e)}
<1>1. SUFFICES ASSUME Modules \notin S PROVE ItemOf(c) \in S
  OBVIOUS
<1>2. ASSUME NEW e \in bad, \A f \in Uses(u, e) : f \notin bad PROVE FALSE
  <2>1. e \in Cell /\ e \in Reads(u, c) /\ Reads(u, e) \subseteq Reads(u, c)
    BY ReadsAssumption, ReadsClosed
  <2>2. PICK f \in Reads(u, e) : ItemOf(f) \in S /\ ItemOf(e) \notin S
    OBVIOUS
  <2>3. Reads(u, e) = {e} \cup UNION {Reads(u, g) : g \in Uses(u, e)} /\ Uses(u, e) \subseteq Cell
    BY <2>1, ReadsAssumption
  <2>4. PICK g \in Uses(u, e) : f \in Reads(u, g)
    BY <2>2, <2>3
  <2>5. g \in Reads(u, c)
    BY <2>1, <2>3, <2>4, ReadsAssumption
  <2>6. ItemOf(g) \in S
    BY <1>2, <2>2, <2>4, <2>5
  <2>7. ItemOf(e) \in Dependents[ItemOf(g)]
    BY <1>1, <2>1, <2>2, <2>4, <2>6, DependentsAssumption
  <2>8. VisCell(ItemOf(e)) \in Reads(u, c)
    BY <2>1, ReadsAssumption
  <2> QED BY <2>2, <2>6, <2>7, <2>8
<1>3. bad = {}
  <2> HIDE DEF bad
  <2>1. bad \in SUBSET Cell
    BY ReadsAssumption DEF bad
  <2> QED BY <1>2, <2>1, ComputationsEnd
<1>4. c \in Reads(u, c)
  BY ReadsAssumption
<1> QED BY <1>3, <1>4

\* A filled cell's reads are all filled: the claim of the comment in
\* Symbol._rec_invalidate() on items without a cached visibility, made exact. It
\* holds of the cells that were read, and not of every item in a condition, since
\* expr_value() stops at an operand that decides the result.
ReadsFilled == \A c \in Filled : Reads(user, c) \subseteq Filled

IInv == /\ user \in User
        /\ Filled \subseteq Cell
        /\ NoStale
        /\ ReadsFilled

LEMMA InitIInv == Init => IInv
  BY DEF Init, IInv, Filled, NoStale, ReadsFilled

\* Computing a cell adds right values, and all of the cells they were computed from.
LEMMA ReadKeepsIInv ==
  ASSUME IInv, NEW c \in Cell, Read(c)
  PROVE  IInv'
<1> DEFINE new == Filled \cup Reads(user, c)
<1>1. user' = user /\ user \in User
  BY DEF IInv, Read
<1>2. DOMAIN cache' = new
  BY DEF Read
<1>3. /\ Reads(user, c) \subseteq Cell
      /\ \A d \in Reads(user, c) : Reads(user, d) \subseteq Reads(user, c)
  BY <1>1, ReadsAssumption, ReadsClosed
<1>4. Filled' \subseteq Cell
  BY <1>2, <1>3 DEF IInv, Filled
<1>5. \A d \in new : cache'[d] = Value(user, d)
  BY DEF Read, IInv, NoStale
<1>6. NoStale'
  BY <1>1, <1>2, <1>5 DEF NoStale, Filled
<1>7. ASSUME NEW d \in new PROVE Reads(user, d) \subseteq new
  BY <1>3 DEF IInv, ReadsFilled
<1>8. ReadsFilled'
  BY <1>1, <1>2, <1>7 DEF ReadsFilled, Filled
<1> QED
  BY <1>1, <1>4, <1>6, <1>8 DEF IInv

\* A filled cell that has read an item of a dropped set is dropped with it: from
\* the item, filled items lead to the cell's own.
LEMMA ReadersAreDropped ==
  ASSUME IInv, NEW x \in Item, NEW D \in SUBSET Item, Reached(x, D),
         NEW c \in Filled, NEW d \in Reads(user, c), ItemOf(d) \in D
  PROVE  ItemOf(c) \in D
<1>1. c \in Cell /\ user \in User /\ Reads(user, c) \subseteq Filled
  BY DEF IInv, ReadsFilled
<1>2. \A y \in D : \A z \in Dependents[y] : VisCell(z) \in Reads(user, c) => z \in D
  BY <1>1 DEF Reached
<1>3. ItemOf(c) \in D \/ Modules \in D
  BY <1>1, <1>2, DependentsLead
<1>4. Modules \in D => ItemOf(c) \in D
  BY <1>1, CellAssumption DEF Reached
<1> QED
  BY <1>3, <1>4

\* Dropping a reached set keeps the invariant when the cells that stay have the
\* values, and the reads, that they had under the user values before.
LEMMA DropKeepsIInv ==
  ASSUME IInv, NEW x \in Item, NEW D \in SUBSET Item, Reached(x, D), Drop(D), user' \in User,
         \A c \in Filled : ItemOf(c) \notin D =>
           Value(user', c) = Value(user, c) /\ Reads(user', c) = Reads(user, c)
  PROVE  IInv'
<1> DEFINE kept == {c \in Filled : ItemOf(c) \notin D}
<1>1. DOMAIN cache' = kept /\ \A c \in kept : cache'[c] = cache[c]
  BY DEF Drop
<1>2. Filled' \subseteq Cell
  BY <1>1 DEF IInv, Filled
<1>3. NoStale'
  <2>1. \A c \in kept : cache[c] = Value(user, c)
    BY DEF IInv, NoStale
  <2> QED
    BY <1>1, <2>1 DEF NoStale, Filled
<1>4. ReadsFilled'
  <2>1. SUFFICES ASSUME NEW c \in kept, NEW d \in Reads(user, c)
                 PROVE  d \in kept
    BY <1>1 DEF ReadsFilled, Filled
  <2>2. d \in Filled
    BY DEF IInv, ReadsFilled
  <2>3. ItemOf(d) \notin D
    BY <2>1, ReadersAreDropped
  <2> QED
    BY <2>2, <2>3
<1> QED
  BY <1>2, <1>3, <1>4 DEF IInv

\* Setting one user value: what stays has not read the item.
LEMMA SetKeepsIInv ==
  ASSUME IInv, NEW x \in Item, Set(x)
  PROVE  IInv'
<1>1. PICK w \in InputOf(x) :
        /\ user' = [user EXCEPT ![x] = w]
        /\ Invalidate(x) \/ (x \notin Inputs /\ UNCHANGED cache)
  BY DEF Set
<1> DEFINE v == [user EXCEPT ![x] = w]
<1>2. user \in User /\ v \in User /\ user' = v
  <2>1. user \in User
    BY DEF IInv
  <2> QED
    BY <1>1, <2>1, UserAssumption
<1>3. ASSUME NEW c \in Filled, x \in Inputs => \A d \in Reads(user, c) : ItemOf(d) # x
      PROVE  Value(user', c) = Value(user, c) /\ Reads(user', c) = Reads(user, c)
  <2>1. c \in Cell
    BY DEF IInv
  <2>2. Value(v, c) = Value(user, c) /\ Reads(v, c) = Reads(user, c)
    BY <1>2, <1>3, <2>1, ReadsAlone
  <2> QED
    BY <1>2, <2>2
<1>4. CASE Invalidate(x)
  <2>1. PICK D \in SUBSET Item : Reached(x, D) /\ Drop(D)
    BY <1>4 DEF Invalidate
  <2>2. ASSUME NEW c \in Filled, ItemOf(c) \notin D
        PROVE  \A d \in Reads(user, c) : ItemOf(d) # x
    BY <2>1, <2>2, ReadersAreDropped DEF Reached
  <2>3. \A c \in Filled : ItemOf(c) \notin D =>
          Value(user', c) = Value(user, c) /\ Reads(user', c) = Reads(user, c)
    BY <1>3, <2>2
  <2> QED
    BY <1>2, <2>1, <2>3, DropKeepsIInv
<1>5. CASE x \notin Inputs /\ UNCHANGED cache
  <2>1. \A c \in Filled : Value(user', c) = Value(user, c) /\ Reads(user', c) = Reads(user, c)
    BY <1>3, <1>5
  <2> QED
    BY <1>2, <1>5, <2>1 DEF IInv, NoStale, ReadsFilled, Filled
<1> QED
  BY <1>1, <1>4, <1>5

\* Setting a choice symbol and the selection of its choice, and invalidating from
\* the choice alone: a cell that has read the symbol has the symbol's visibility
\* filled, so the choice's dependents lead to it.
LEMMA SelectKeepsIInv ==
  ASSUME IInv, NEW x \in Item, NEW choice \in Item, Select(x, choice)
  PROVE  IInv'
<1>1. PICK w \in InputOf(x), sel \in InputOf(choice) :
        /\ x \in Dependents[choice]
        /\ user' = [user EXCEPT ![x] = w, ![choice] = sel]
        /\ Invalidate(choice)
  BY DEF Select
<1>2. PICK D \in SUBSET Item : Reached(choice, D) /\ Drop(D)
  BY <1>1 DEF Invalidate
<1> DEFINE mid == [user EXCEPT ![x] = w]
<1>3. user \in User /\ mid \in User /\ user' = [mid EXCEPT ![choice] = sel] /\ user' \in User
  <2>1. user \in User /\ mid \in User
    BY <1>1, UserAssumption DEF IInv
  <2>2. user' = [mid EXCEPT ![choice] = sel]
    BY <1>1
  <2> QED
    BY <1>1, <2>1, <2>2, UserAssumption
<1>4. ASSUME NEW c \in Filled, ItemOf(c) \notin D
      PROVE  Value(user', c) = Value(user, c) /\ Reads(user', c) = Reads(user, c)
  <2>1. c \in Cell /\ Reads(user, c) \subseteq Filled
    BY DEF IInv, ReadsFilled
  <2>2. \A d \in Reads(user, c) : ItemOf(d) \notin D
    BY <1>2, <1>4, ReadersAreDropped
  <2>3. \A d \in Reads(user, c) : VisCell(ItemOf(d)) \in Filled
    <3>1. SUFFICES ASSUME NEW d \in Reads(user, c) PROVE VisCell(ItemOf(d)) \in Filled
      OBVIOUS
    <3>2. d \in Filled /\ d \in Cell
      BY <2>1 DEF IInv
    <3> QED
      BY <1>3, <3>2, ReadsAssumption DEF IInv, ReadsFilled
  <2>4. \A d \in Reads(user, c) : ItemOf(d) # x
    BY <1>1, <1>2, <2>2, <2>3 DEF Reached
  <2>5. Value(mid, c) = Value(user, c) /\ Reads(mid, c) = Reads(user, c)
    BY <1>1, <1>3, <2>1, <2>4, ReadsAlone
  <2>6. \A d \in Reads(mid, c) : ItemOf(d) # choice
    BY <1>2, <2>2, <2>5 DEF Reached
  <2>7. Value(user', c) = Value(mid, c) /\ Reads(user', c) = Reads(mid, c)
    <3> HIDE DEF mid
    <3> QED
      BY <1>3, <2>1, <2>6, ReadsAlone
  <2> QED
    BY <2>5, <2>7
<1> QED
  BY <1>2, <1>3, <1>4, DropKeepsIInv

\* Reading and setting keep the cache right.
THEOREM CacheInvariant == Spec => []IInv
<1>1. IInv /\ [Next]_vars => IInv'
  <2> SUFFICES ASSUME IInv, [Next]_vars PROVE IInv'
    OBVIOUS
  <2>1. ASSUME NEW c \in Cell, Read(c) PROVE IInv'
    BY <2>1, ReadKeepsIInv
  <2>2. ASSUME NEW x \in Item, Set(x) PROVE IInv'
    BY <2>2, SetKeepsIInv
  <2>3. ASSUME NEW x \in Item, NEW choice \in Item, Select(x, choice) PROVE IInv'
    BY <2>3, SelectKeepsIInv
  <2>4. CASE UNCHANGED vars
    BY <2>4 DEF vars, IInv, NoStale, ReadsFilled, Filled
  <2> QED
    BY <2>1, <2>2, <2>3, <2>4 DEF Next
<1> QED
  BY InitIInv, <1>1, PTL DEF Spec

\* No cached value is ever stale (Symbol._rec_invalidate(), which stops at items
\* without a cached visibility), in any tree of DepGraph, for any order of the calls.
THEOREM NeverStale == Spec => []NoStale
<1>1. IInv => NoStale
  BY DEF IInv
<1> QED
  BY CacheInvariant, <1>1, PTL

---------------------------------------------------------------------------
(* Sequences.                                                               *)

\* Any sequence is one over its own members, and so is its tail.
LEMMA Own ==
  ASSUME NEW T, NEW s \in Seq(T)
  PROVE  s \in Seq(ToSet(s)) /\ ToSet(s) \in SUBSET T
BY DEF ToSet

LEMMA Rest ==
  ASSUME NEW s, s \in Seq(ToSet(s)), s # <<>>
  PROVE  /\ Head(s) \in ToSet(s)
         /\ Tail(s) \in Seq(ToSet(Tail(s))) /\ ToSet(Tail(s)) \in SUBSET ToSet(s)
<1>1. Head(s) \in ToSet(s)
  BY DEF ToSet
<1>2. Tail(s) \in Seq(ToSet(s))
  OBVIOUS
<1> QED BY <1>1, <1>2, Own

LEMMA Joined ==
  ASSUME NEW T, NEW s \in Seq(T), NEW r \in Seq(T)
  PROVE  ToSet(s \o r) = ToSet(s) \cup ToSet(r)
<1>1. /\ s \o r \in Seq(T) /\ Len(s \o r) = Len(s) + Len(r) /\ Len(s) \in Nat /\ Len(r) \in Nat
      /\ \A i \in 1..Len(s) + Len(r) : (s \o r)[i] = IF i <= Len(s) THEN s[i] ELSE r[i - Len(s)]
  BY ConcatProperties
<1>2. DOMAIN s = 1..Len(s) /\ DOMAIN r = 1..Len(r) /\ DOMAIN (s \o r) = 1..Len(s) + Len(r)
  BY <1>1
<1>3. ASSUME NEW x \in ToSet(s \o r)
      PROVE  x \in ToSet(s) \cup ToSet(r)
  <2>1. PICK i \in 1..Len(s) + Len(r) : x = (s \o r)[i]
    BY <1>2 DEF ToSet
  <2>2. CASE i <= Len(s)
    BY <1>1, <1>2, <2>1, <2>2 DEF ToSet
  <2>3. CASE i > Len(s)
    <3>1. i - Len(s) \in 1..Len(r) /\ x = r[i - Len(s)]
      BY <1>1, <2>1, <2>3
    <3> QED BY <1>2, <3>1 DEF ToSet
  <2> QED BY <1>1, <2>2, <2>3
<1>4. ASSUME NEW x \in ToSet(s)
      PROVE  x \in ToSet(s \o r)
  <2>1. PICK i \in 1..Len(s) : x = s[i]
    BY <1>2, <1>4 DEF ToSet
  <2>2. i \in 1..Len(s) + Len(r) /\ (s \o r)[i] = x
    BY <1>1, <2>1
  <2> QED BY <1>2, <2>2 DEF ToSet
<1>5. ASSUME NEW x \in ToSet(r)
      PROVE  x \in ToSet(s \o r)
  <2>1. PICK i \in 1..Len(r) : x = r[i]
    BY <1>2, <1>5 DEF ToSet
  <2>2. Len(s) + i \in 1..Len(s) + Len(r) /\ (s \o r)[Len(s) + i] = x
    BY <1>1, <2>1
  <2> QED BY <1>2, <2>2 DEF ToSet
<1> QED BY <1>3, <1>4, <1>5

\* A member, or two, before a sequence.
LEMMA Onefold ==
  ASSUME NEW T, NEW a \in T, NEW s \in Seq(T)
  PROVE  /\ <<a>> \o s \in Seq(T) /\ <<a>> \o s # <<>>
         /\ Head(<<a>> \o s) = a /\ Tail(<<a>> \o s) = s
<1> DEFINE u == <<a>>
           r == u \o s
<1>1. u \in Seq(T) /\ Len(u) = 1 /\ u[1] = a
  OBVIOUS
<1>2. Len(s) \in Nat
  BY LenProperties
<1> HIDE DEF u
<1>3. /\ r \in Seq(T) /\ Len(r) = 1 + Len(s)
      /\ \A i \in 1..1 + Len(s) : r[i] = IF i <= 1 THEN u[i] ELSE s[i - 1]
  <2>1. /\ r \in Seq(T) /\ Len(r) = Len(u) + Len(s)
        /\ \A i \in 1..Len(u) + Len(s) : r[i] = IF i <= Len(u) THEN u[i] ELSE s[i - Len(u)]
    BY <1>1, ConcatProperties
  <2> QED BY <1>1, <2>1
<1> HIDE DEF r
<1>4. r # <<>>
  BY <1>2, <1>3, EmptySeq
<1>5. Head(r) = a
  <2>1. r[1] = a
    BY <1>1, <1>2, <1>3
  <2> QED BY <2>1
<1>6. /\ Tail(r) \in Seq(T) /\ Len(Tail(r)) = Len(s)
      /\ \A i \in 1..Len(s) : Tail(r)[i] = s[i]
  <2>1. /\ Tail(r) \in Seq(T) /\ Len(Tail(r)) = Len(r) - 1
        /\ \A i \in 1..Len(Tail(r)) : Tail(r)[i] = r[i + 1]
    BY <1>3, <1>4, HeadTailProperties
  <2>2. Len(Tail(r)) = Len(s)
    BY <1>2, <1>3, <2>1
  <2>3. \A i \in 1..Len(s) : r[i + 1] = s[i]
    <3> TAKE i \in 1..Len(s)
    <3>1. i + 1 \in 1..1 + Len(s) /\ ~(i + 1 <= 1) /\ (i + 1) - 1 = i
      BY <1>2
    <3> QED BY <1>3, <3>1
  <2> QED BY <2>1, <2>2, <2>3
<1>7. Tail(r) = s
  BY <1>6, SeqEqual
<1> QED BY <1>3, <1>4, <1>5, <1>7 DEF r, u

LEMMA Twofold ==
  ASSUME NEW T, NEW a \in T, NEW b \in T, NEW s \in Seq(T)
  PROVE  /\ <<a, b>> \o s \in Seq(T) /\ <<a, b>> \o s # <<>>
         /\ Head(<<a, b>> \o s) = a /\ Tail(<<a, b>> \o s) = <<b>> \o s
<1> DEFINE u == <<a>>
           w == <<b>>
<1>1. u \in Seq(T) /\ w \in Seq(T) /\ <<a, b>> = u \o w
  <2>1. u \o w \in Seq(T) /\ Len(u \o w) = 2 /\ (u \o w)[1] = a /\ (u \o w)[2] = b
    <3>1. u \in Seq(T) /\ w \in Seq(T) /\ Len(u) = 1 /\ Len(w) = 1 /\ u[1] = a /\ w[1] = b
      OBVIOUS
    <3> HIDE DEF u, w
    <3>2. /\ u \o w \in Seq(T) /\ Len(u \o w) = Len(u) + Len(w)
          /\ \A i \in 1..Len(u) + Len(w) :
               (u \o w)[i] = IF i <= Len(u) THEN u[i] ELSE w[i - Len(u)]
      BY <3>1, ConcatProperties
    <3> QED BY <3>1, <3>2
  <2> DEFINE v == <<a, b>>
             x == u \o w
  <2>2. v \in Seq(T) /\ Len(v) = 2 /\ v[1] = a /\ v[2] = b
    OBVIOUS
  <2>3. u \in Seq(T) /\ w \in Seq(T)
    OBVIOUS
  <2>4. v = x
    <3> HIDE DEF u, w, v
    <3>1. Len(v) = Len(x) /\ \A i \in 1..Len(v) : v[i] = x[i]
      BY <2>1, <2>2
    <3> HIDE DEF x
    <3>2. v \in Seq(T) /\ x \in Seq(T)
      BY <2>1, <2>2 DEF x
    <3> QED BY <3>1, <3>2, SeqEqual
  <2> QED BY <2>3, <2>4
<1> DEFINE v == <<a, b>>
<1>2. v = u \o w
  BY <1>1
<1> HIDE DEF v
<1>3. v \o s = u \o (w \o s)
  <2> HIDE DEF u, w
  <2> QED BY <1>1, <1>2, ConcatAssociative
<1>4. w \o s \in Seq(T)
  BY Onefold
<1>5. /\ v \o s \in Seq(T) /\ v \o s # <<>>
      /\ Head(v \o s) = a /\ Tail(v \o s) = w \o s
  <2>1. /\ u \o (w \o s) \in Seq(T) /\ u \o (w \o s) # <<>>
        /\ Head(u \o (w \o s)) = a /\ Tail(u \o (w \o s)) = w \o s
    <3> DEFINE x == w \o s
    <3>1. x \in Seq(T)
      BY <1>4
    <3> HIDE DEF x
    <3>2. /\ <<a>> \o x \in Seq(T) /\ <<a>> \o x # <<>>
          /\ Head(<<a>> \o x) = a /\ Tail(<<a>> \o x) = x
      BY <3>1, Onefold
    <3> QED BY <3>2 DEF x
  <2> QED BY <1>3, <2>1
<1> QED BY <1>5 DEF v

LEMMA InFront ==
  ASSUME NEW a, NEW b, NEW c
  PROVE  <<a>> \o <<b, c>> = <<a, b, c>>
<1> DEFINE s == <<a>>
           r == <<b, c>>
           T == {a, b, c}
<1>1. s \in Seq(T) /\ r \in Seq(T) /\ Len(s) = 1 /\ Len(r) = 2
  OBVIOUS
<1>2. s[1] = a /\ r[1] = b /\ r[2] = c
  OBVIOUS
<1> HIDE DEF s, r, T
<1>3. /\ s \o r \in Seq(T) /\ Len(s \o r) = 3
      /\ (s \o r)[1] = s[1] /\ (s \o r)[2] = r[1] /\ (s \o r)[3] = r[2]
  <2>1. /\ s \o r \in Seq(T) /\ Len(s \o r) = 3
        /\ \A i \in 1..3 : (s \o r)[i] = IF i <= Len(s) THEN s[i] ELSE r[i - Len(s)]
    BY <1>1, ConcatProperties
  <2> QED BY <1>1, <2>1
<1> DEFINE u == <<a, b, c>>
<1>4. u \in Seq(T) /\ Len(u) = 3 /\ u[1] = a /\ u[2] = b /\ u[3] = c
  BY DEF T
<1> HIDE DEF u
<1>5. \A i \in 1..3 : (s \o r)[i] = u[i]
  BY <1>2, <1>3, <1>4
<1>6. s \o r = u
  BY <1>3, <1>4, <1>5, SeqEqual
<1> QED BY <1>6 DEF s, r, u

---------------------------------------------------------------------------
(* The lines of a file.                                                       *)

Rank(k, P) == Cardinality({j \in P : j <= k})

LEMMA Ranks ==
  ASSUME NEW n \in Nat, NEW P \in SUBSET (1..n)
  PROVE  /\ IsFiniteSet(P) /\ Cardinality(P) \in Nat
         /\ \A k \in P : Rank(k, P) \in 1..Cardinality(P)
         /\ \A k, l \in P : Rank(k, P) = Rank(l, P) => k = l
         /\ \A m \in 1..Cardinality(P) : \E k \in P : Rank(k, P) = m
<1> DEFINE upto(k) == {j \in P : j <= k}
           c == Cardinality(P)
           rank == [k \in P |-> Rank(k, P)]
<1>1. IsFiniteSet(P) /\ c \in Nat
  <2>1. IsFiniteSet(1..n)
    BY FS_Interval
  <2> QED BY <2>1, FS_Subset, FS_CardinalityType
<1>2. ASSUME NEW k \in P
      PROVE  IsFiniteSet(upto(k)) /\ Rank(k, P) \in 1..c
  <2>1. IsFiniteSet(upto(k)) /\ Rank(k, P) <= c
    BY <1>1, FS_Subset DEF Rank
  <2>2. Rank(k, P) \in Nat
    BY <2>1, FS_CardinalityType DEF Rank
  <2>3. k \in upto(k)
    OBVIOUS
  <2>4. Rank(k, P) # 0
    BY <2>1, <2>3, FS_EmptySet DEF Rank
  <2> QED BY <1>1, <2>1, <2>2, <2>4
<1>3. ASSUME NEW k \in P, NEW l \in P, Rank(k, P) = Rank(l, P), k <= l
      PROVE  k = l
  <2>1. \A j \in P : j \in Nat
    OBVIOUS
  <2>2. \A j \in P : j <= k => j <= l
    BY <1>3, <2>1
  <2>3. upto(k) \in SUBSET upto(l)
    BY <2>2
  <2>4. IsFiniteSet(upto(l))
    BY <1>2
  <2>5. upto(k) = upto(l)
    BY <1>3, <2>3, <2>4, FS_Subset DEF Rank
  <2>6. l \in upto(l)
    OBVIOUS
  <2> QED BY <1>3, <2>5, <2>6
<1>4. \A k, l \in P : Rank(k, P) = Rank(l, P) => k = l
  BY <1>3
<1>5. rank \in Surjection(P, 1..c)
  <2>1. rank \in Injection(P, 1..c)
    BY <1>2, <1>4 DEF Injection, IsInjective
  <2>2. IsFiniteSet(1..c) /\ Cardinality(1..c) = c
    BY <1>1, FS_Interval
  <2> HIDE DEF rank, c
  <2> QED BY <2>1, <2>2, FS_Injection DEF c
<1>6. \A m \in 1..c : \E k \in P : Rank(k, P) = m
  BY <1>5 DEF Surjection
<1> QED BY <1>1, <1>2, <1>4, <1>6

LEMMA LastPlace ==
  ASSUME NEW n \in Nat, NEW P \in SUBSET (1..n), P # {}
  PROVE  \E k \in P : \A l \in P : l <= k
<1>1. IsFiniteSet(P) /\ Cardinality(P) \in 1..Cardinality(P)
  BY Ranks, FS_EmptySet
<1>2. PICK k \in P : Rank(k, P) = Cardinality(P)
  BY <1>1, Ranks
<1>3. {j \in P : j <= k} = P
  BY <1>1, <1>2, FS_Subset DEF Rank
<1> QED BY <1>3

LEMMA ThoseAre ==
  ASSUME NEW T, NEW list \in Seq(T), NEW S
  PROVE  /\ ToSet(Those(list, S)) = ToSet(list) \cap S
         /\ Those(list, S) \in Seq(T)
<1> DEFINE P == {k \in DOMAIN list : list[k] \in S}
           c == Cardinality(P)
<1>1. P \in SUBSET (1..Len(list)) /\ DOMAIN list = 1..Len(list) /\ Len(list) \in Nat
  OBVIOUS
<1>2. c \in Nat
  BY <1>1, Ranks
<1>3. \A m \in 1..c : Nth(m, P) \in P /\ Rank(Nth(m, P), P) = m
  <2>1. \A m \in 1..c : \E k \in P : Rank(k, P) = m
    BY <1>1, Ranks
  <2> HIDE DEF P
  <2> QED BY <2>1 DEF Nth, Rank
<1>4. \A k \in P : Rank(k, P) \in 1..c /\ Nth(Rank(k, P), P) = k
  <2>1. \A k \in P : Rank(k, P) \in 1..c
    BY <1>1, Ranks
  <2>2. \A k, l \in P : Rank(k, P) = Rank(l, P) => k = l
    BY <1>1, Ranks
  <2> HIDE DEF P
  <2> QED BY <1>3, <2>1, <2>2
<1>5. Those(list, S) = [m \in 1..c |-> list[Nth(m, P)]]
  BY DEF Those, Listed
<1>6. Those(list, S) \in Seq(T)
  <2>1. \A m \in 1..c : list[Nth(m, P)] \in T
    BY <1>1, <1>3
  <2> QED BY <1>2, <1>5, <2>1
<1>7. ToSet(Those(list, S)) = {list[Nth(m, P)] : m \in 1..c}
  BY <1>2, <1>5 DEF ToSet
<1>8. {list[Nth(m, P)] : m \in 1..c} = {list[k] : k \in P}
  BY <1>3, <1>4
<1>9. {list[k] : k \in P} = ToSet(list) \cap S
  BY DEF ToSet
<1> QED BY <1>6, <1>7, <1>8, <1>9

\* What a file says of a symbol is on its last line of it.
LEMMA OldValIs ==
  ASSUME NEW T, NEW auto \in Seq(T), NEW i, NEW k \in DOMAIN auto, auto[k][1] = i
  PROVE  \E l \in DOMAIN auto : auto[l][1] = i /\ OldVal(i, auto) = auto[l][2]
<1> DEFINE lines == {l \in DOMAIN auto : auto[l][1] = i}
<1>1. lines \in SUBSET (1..Len(auto)) /\ Len(auto) \in Nat /\ k \in lines
  OBVIOUS
<1>2. \E l \in lines : \A m \in lines : m <= l
  <2> HIDE DEF lines
  <2> QED BY <1>1, LastPlace
<1>3. OldVal(i, auto) = auto[CHOOSE l \in lines : \A m \in lines : m <= l][2]
  BY <1>1 DEF OldVal
<1>4. PICK l \in lines : OldVal(i, auto) = auto[l][2]
  <2> HIDE DEF lines
  <2> QED BY <1>2, <1>3
<1> QED BY <1>4

LEMMA NoOldVal ==
  ASSUME NEW auto, NEW i, \A k \in DOMAIN auto : auto[k][1] # i
  PROVE  OldVal(i, auto) = None
BY DEF OldVal

LEMMA AbsentSaysNothing ==
  ASSUME NEW i \in Names
  PROVE  OldVal(i, Absent) = None /\ OldVal(i, <<>>) = None
<1>1. \A k \in DOMAIN Absent : Absent[k][1] # i
  BY StoreAssumption DEF Absent
<1> QED BY <1>1, NoOldVal

LEMMA TreeNames ==
  ASSUME NEW t \in DOMAIN Trees
  PROVE  /\ Trees[t].known \in SUBSET Names /\ ToSet(Trees[t].order) \in SUBSET Trees[t].known
         /\ Trees[t].order \in Seq(Names)
<1>1. Trees[t].known \in SUBSET Names
  BY DEF Names
<1>2. Trees[t].order \in Seq(Trees[t].known)
  BY StoreAssumption
<1>3. ToSet(Trees[t].order) \in SUBSET Trees[t].known
  BY <1>2 DEF ToSet
<1>4. Trees[t].order \in Seq(Names)
  BY <1>1, <1>2
<1> QED BY <1>1, <1>3, <1>4

\* The lines of a file are those of the symbols of a set that have a line, and what
\* the file says of a symbol is the value on its line.
THEOREM LinesAre ==
  ASSUME NEW t \in DOMAIN Trees, NEW vals \in ValsOf(Trees[t]), NEW S
  PROVE  LET lines == LinesOf(Trees[t], vals, S)
             shown == ToSet(Trees[t].order) \cap S \cap InConf(Trees[t], vals)
             says(i) == config_string(Trees[t], i, vals[i])[2]
         IN /\ lines \in Seq(Names \X Int) /\ lines # Absent
            /\ \A k \in DOMAIN lines : lines[k][1] \in shown /\ lines[k][2] = says(lines[k][1])
            /\ \A i \in shown : OldVal(i, lines) = says(i)
            /\ \A i : i \notin shown => OldVal(i, lines) = None
<1> DEFINE lines == LinesOf(Trees[t], vals, S)
           shown == ToSet(Trees[t].order) \cap S \cap InConf(Trees[t], vals)
           says(i) == config_string(Trees[t], i, vals[i])[2]
           those == Those(Trees[t].order, S \cap InConf(Trees[t], vals))
<1>1. Trees[t].order \in Seq(Names) /\ ToSet(Trees[t].order) \in SUBSET Names
  BY TreeNames
<1>2. those \in Seq(Names) /\ ToSet(those) = shown
  BY <1>1, ThoseAre
<1>3. DOMAIN those = 1..Len(those) /\ Len(those) \in Nat
  BY <1>2
<1>4. \A k \in DOMAIN those : those[k] \in shown
  BY <1>2 DEF ToSet
<1>5. \A i \in shown : vals[i][1] \in Int
  BY DEF ValsOf
<1>6. \A i \in shown : config_string(Trees[t], i, vals[i]) = <<i, says(i)>> /\ says(i) \in Int
  BY <1>5 DEF config_string, NotSet
<1>7. lines = [k \in DOMAIN those |-> config_string(Trees[t], those[k], vals[those[k]])]
  BY DEF LinesOf, LinesFor
<1> HIDE DEF those, says, lines
<1>8. \A k \in DOMAIN those : lines[k] = <<those[k], says(those[k])>>
  BY <1>4, <1>6, <1>7
<1>9. shown \in SUBSET Names
  BY <1>1
<1> HIDE DEF shown
<1>10. DOMAIN lines = 1..Len(those)
  BY <1>3, <1>7
<1>11. \A k \in DOMAIN lines : lines[k] \in Names \X Int
  BY <1>3, <1>4, <1>6, <1>8, <1>9, <1>10
<1>12. lines \in Seq(Names \X Int)
  <2>1. lines = [k \in 1..Len(those) |-> lines[k]]
    BY <1>7, <1>3
  <2> QED BY <2>1, <1>3, <1>10, <1>11
<1>13. \A k \in DOMAIN lines : lines[k][1] \in shown /\ lines[k][2] = says(lines[k][1])
  BY <1>3, <1>4, <1>8, <1>10
<1>14. lines # Absent
  <2>1. DOMAIN Absent = {1} /\ Absent[1][1] = "absent"
    BY DEF Absent
  <2> QED BY <1>9, <1>13, <2>1, StoreAssumption
<1>15. \A i \in shown : OldVal(i, lines) = says(i)
  <2> TAKE i \in shown
  <2>1. PICK k \in DOMAIN those : those[k] = i
    BY <1>2 DEF ToSet
  <2>2. k \in DOMAIN lines /\ lines[k][1] = i
    BY <1>3, <1>8, <1>10, <2>1
  <2>3. PICK l \in DOMAIN lines : lines[l][1] = i /\ OldVal(i, lines) = lines[l][2]
    BY <1>12, <2>2, OldValIs
  <2> QED BY <1>13, <2>3
<1>16. \A i : i \notin shown => OldVal(i, lines) = None
  BY <1>13, NoOldVal
<1> QED BY <1>12, <1>13, <1>14, <1>15, <1>16 DEF lines, shown, says

---------------------------------------------------------------------------
(* The last complete configuration is kept.                                     *)

\* The version of the Kconfig files, the files and the record of the tool are there.
Directory ==
  /\ tree \in DOMAIN Trees /\ Outputs \subseteq DOMAIN files
  /\ DOMAIN proc = {"tool", "vals", "todo"}

\* What a tool does to other files than .config and .config.old.
Elsewhere(op) ==
  \/ op[1] = "touch"
  \/ op[1] \in {"open", "fill"} /\ op[2] \in {"merged", "min", "autoconf.h", "auto.conf"}
  \/ op = <<"rename", "merged">>
AllElsewhere(todo) == todo \in Seq(ToSet(todo)) /\ \A op \in ToSet(todo) : Elsewhere(op)

\* What the tools do that are not genconfig.
Aside(op) == op[1] \in {"open", "fill", "rename"} /\ op[2] \in {".config", "merged", "min"}
AllAside(todo) == todo \in Seq(ToSet(todo)) /\ \A op \in ToSet(todo) : Aside(op)

\* The calls that are left of a write of .config. Once the old file is renamed, what
\* is saved is in .config.old, until the last one is done.
Safe == lost \/ unsaved \/ saved = files[".config.old"]
Writing(lines) ==
  \/ proc.todo = << <<"rename", ".config">>, <<"open", ".config">>, <<"fill", ".config", lines>> >>
  \/ proc.todo = << <<"open", ".config">>, <<"fill", ".config", lines>> >> /\ Safe
  \/ proc.todo = << <<"fill", ".config", lines>> >> /\ Safe /\ ".config" \in torn

\* What was saved is in .config if it is complete, and in .config.old else.
Complete == ".config" \notin torn /\ files[".config"] # Absent
LastKept ==
  \/ lost \/ (unsaved /\ ".config" \in torn)
  \/ saved = IF Complete THEN files[".config"] ELSE files[".config.old"]
ConfigInv ==
  /\ Directory /\ LastKept
  /\ \/ AllElsewhere(proc.todo)
     \/ proc.vals \in ValsOf(Trees[tree]) /\ Writing(config_lines(Trees[tree], proc.vals))

\* A tool that writes other files only.
LEMMA WritesElsewhere ==
  ASSUME NEW T, NEW s \in Seq(T), \A op \in T : Elsewhere(op)
  PROVE  AllElsewhere(s)
BY Own DEF AllElsewhere

LEMMA NothingLeft == AllElsewhere(<<>>) /\ AllAside(<<>>)
<1>1. ToSet(<<>>) = {} /\ <<>> \in Seq({})
  BY DEF ToSet
<1> QED BY <1>1 DEF AllElsewhere, AllAside

LEMMA ConfigStarts == StoreInit => ConfigInv
<1> SUFFICES ASSUME StoreInit
             PROVE  ConfigInv
  OBVIOUS
<1>1. tree = 1 /\ proc = Idle /\ saved = files[".config"] /\ torn = {} /\ lost = FALSE
  BY DEF StoreInit, InitRest
<1>2. 1 \in DOMAIN Trees
  BY StoreAssumption
<1>3. Outputs \subseteq DOMAIN files
  BY DEF StoreInit, InitFresh, InitBuilt, Built, Fresh, Outputs
<1>4. proc.todo = <<>>
  BY <1>1 DEF Idle
<1>5. AllElsewhere(proc.todo)
  BY <1>4, NothingLeft
<1>6. files[".config"] = Absent => files[".config.old"] = Absent
  BY StoreAssumption DEF StoreInit, InitFresh, InitBuilt, Built, Fresh, Outputs
<1> QED BY <1>1, <1>2, <1>3, <1>5, <1>6 DEF ConfigInv, Directory, Idle, LastKept, Complete

\* A call on another file, and the three calls on .config.
LEMMA ConfigCalls == ConfigInv /\ Call => ConfigInv'
<1> DEFINE lines == config_lines(Trees[tree], proc.vals)
<1> SUFFICES ASSUME ConfigInv, Call
             PROVE  ConfigInv'
  OBVIOUS
<1>1. /\ tree \in DOMAIN Trees /\ Outputs \subseteq DOMAIN files
      /\ DOMAIN proc = {"tool", "vals", "todo"} /\ LastKept
  BY DEF ConfigInv, Directory
<1>2. PICK op \in Outcomes(Head(proc.todo)) :
        /\ files' = Apply(op) /\ torn' = TornAfter(op)
        /\ saved' = IF op[1] = "fill" /\ op[2] = ".config" THEN op[3] ELSE saved
        /\ lost' = LostAfter(op) /\ unsaved' = UnsavedAfter(op)
  BY DEF Call
<1>3. proc.todo # <<>> /\ tree' = tree
  BY DEF Call
<1>4. DOMAIN proc' = DOMAIN proc /\ proc'.todo = Tail(proc.todo) /\ proc'.vals = proc.vals
  BY <1>1 DEF Call
<1>5. Directory'
  <2>1. DOMAIN files' = DOMAIN files
    BY <1>2 DEF Apply
  <2> QED BY <1>1, <1>3, <1>4, <2>1 DEF Directory
<1>6. CASE AllElsewhere(proc.todo)
  <2>1. Elsewhere(Head(proc.todo)) /\ AllElsewhere(proc'.todo)
    BY <1>3, <1>4, <1>6, Rest DEF AllElsewhere
  <2>2. Elsewhere(op) \/ op = <<"failed", "merged">>
    BY <1>2, <2>1 DEF Outcomes, Elsewhere
  <2>3. files'[".config"] = files[".config"] /\ files'[".config.old"] = files[".config.old"]
    BY <1>1, <1>2, <2>2 DEF Apply, Elsewhere, OldOf, Outputs
  <2>4. saved' = saved /\ (".config" \in torn' <=> ".config" \in torn)
    BY <1>2, <2>2 DEF Elsewhere, TornAfter
  <2>5. op # <<"rename", ".config">> /\ op # <<"failed", ".config">>
        /\ ~(op[1] \in {"rename", "fill"} /\ op[2] = ".config")
    BY <2>2 DEF Elsewhere
  <2>6. lost' = lost /\ unsaved' = unsaved
    BY <1>2, <2>5 DEF LostAfter, UnsavedAfter
  <2> QED BY <1>1, <1>5, <2>1, <2>3, <2>4, <2>6 DEF ConfigInv, LastKept, Complete
<1>7. CASE /\ proc.vals \in ValsOf(Trees[tree])
           /\ proc.todo = << <<"rename", ".config">>, <<"open", ".config">>,
                             <<"fill", ".config", lines>> >>
  <2> HIDE DEF lines
  <2>1. /\ Head(proc.todo) = <<"rename", ".config">>
        /\ proc'.todo = << <<"open", ".config">>, <<"fill", ".config", lines>> >>
    BY <1>4, <1>7
  <2>2. ASSUME op = <<"rename", ".config">>
        PROVE  Safe' /\ LastKept'
    <3>1. saved' = saved /\ ".config" \notin torn'
      BY <1>2, <2>2 DEF TornAfter
    <3>2. lost \/ ".config" \in torn => lost'
      <4>1. lost' = (lost \/ ".config" \in torn)
        BY <1>2, <2>2 DEF LostAfter
      <4> QED BY <4>1, Zenon
    <3>3. IF files[".config"] = Absent THEN files' = files
          ELSE files'[".config"] = Absent /\ files'[".config.old"] = files[".config"]
      BY <1>1, <1>2, <2>2 DEF Apply, OldOf, Outputs
    <3>4. CASE lost \/ ".config" \in torn
      BY <3>2, <3>4 DEF Safe, LastKept
    <3>5. CASE ~lost /\ ".config" \notin torn
      <4>1. saved = IF files[".config"] # Absent THEN files[".config"] ELSE files[".config.old"]
        BY <1>1, <3>5 DEF LastKept, Complete
      <4>2. saved' = files'[".config.old"] /\ files'[".config"] = Absent
        BY <3>1, <3>3, <4>1
      <4> QED BY <4>2 DEF Safe, LastKept, Complete
    <3> QED BY <3>4, <3>5
  <2>3. ASSUME op = <<"failed", ".config">>, files[".config"] # Absent
        PROVE  Safe' /\ LastKept'
    <3>1. saved' = saved /\ torn' = torn /\ files' = files
      BY <1>2, <2>3 DEF TornAfter, Apply
    <3>2. lost' = lost
      BY <1>2, <2>3 DEF LostAfter
    <3>3. unsaved \/ ".config" \notin torn => unsaved'
      <4>1. unsaved' = (unsaved \/ ".config" \notin torn)
        BY <1>2, <2>3 DEF UnsavedAfter
      <4> QED BY <4>1, Zenon
    <3>4. CASE lost
      BY <3>2, <3>4 DEF Safe, LastKept
    <3>5. CASE ~lost /\ ".config" \notin torn
      <4>1. saved' = files'[".config"] /\ Complete'
        BY <1>1, <2>3, <3>1, <3>5 DEF LastKept, Complete
      <4>2. unsaved'
        BY <3>3, <3>5
      <4> QED BY <4>1, <4>2 DEF Safe, LastKept
    <3>6. CASE ~lost /\ ".config" \in torn
      <4>1. unsaved \/ saved = files[".config.old"]
        BY <1>1, <3>6 DEF LastKept, Complete
      <4>2. CASE unsaved
        BY <3>1, <3>3, <3>6, <4>2 DEF Safe, LastKept
      <4>3. CASE saved = files[".config.old"]
        BY <3>1, <3>6, <4>3 DEF Safe, LastKept, Complete
      <4> QED BY <4>1, <4>2, <4>3
    <3> QED BY <3>4, <3>5, <3>6
  <2>4. Safe' /\ LastKept'
    <3>1. \/ op = <<"rename", ".config">>
          \/ op = <<"failed", ".config">> /\ files[".config"] # Absent
      BY <1>2, <2>1 DEF Outcomes
    <3> QED BY <2>2, <2>3, <3>1
  <2> QED BY <1>3, <1>4, <1>5, <1>7, <2>1, <2>4 DEF ConfigInv, Writing, lines
<1>8. CASE /\ proc.vals \in ValsOf(Trees[tree]) /\ Safe
           /\ proc.todo = << <<"open", ".config">>, <<"fill", ".config", lines>> >>
  <2> HIDE DEF lines
  <2>1. op = <<"open", ".config">> /\ proc'.todo = << <<"fill", ".config", lines>> >>
    BY <1>2, <1>4, <1>8 DEF Outcomes
  <2>2. saved' = saved /\ ".config" \in torn'
    BY <1>2, <2>1 DEF TornAfter
  <2>3. lost' = lost /\ unsaved' = unsaved
    BY <1>2, <2>1 DEF LostAfter, UnsavedAfter
  <2>4. files'[".config.old"] = files[".config.old"]
    BY <1>1, <1>2, <2>1 DEF Apply, Outputs
  <2>5. Safe' /\ LastKept'
    BY <1>8, <2>2, <2>3, <2>4 DEF Safe, LastKept, Complete
  <2> QED BY <1>3, <1>4, <1>5, <1>8, <2>1, <2>2, <2>5 DEF ConfigInv, Writing, lines
<1>9. CASE proc.vals \in ValsOf(Trees[tree]) /\ proc.todo = << <<"fill", ".config", lines>> >>
  <2> HIDE DEF lines
  <2>1. op = <<"fill", ".config", lines>> /\ proc'.todo = <<>>
    BY <1>2, <1>4, <1>9 DEF Outcomes
  <2>2. saved' = lines /\ files'[".config"] = lines /\ ".config" \notin torn'
    BY <1>1, <1>2, <2>1 DEF Apply, TornAfter, Outputs
  <2>3. lines # Absent
    BY <1>1, <1>9, LinesAre DEF config_lines, lines
  <2> QED BY <1>5, <2>1, <2>2, <2>3, NothingLeft DEF ConfigInv, LastKept, Complete
<1> QED BY <1>6, <1>7, <1>8, <1>9 DEF ConfigInv, Writing

LEMMA ConfigCrash == ConfigInv /\ Crash => ConfigInv'
<1> DEFINE op == IF proc.todo = <<>> THEN <<"none">> ELSE Head(proc.todo)
<1> SUFFICES ASSUME ConfigInv, Crash
             PROVE  ConfigInv'
  OBVIOUS
<1>1. /\ Directory /\ LastKept
      /\ tree' = tree /\ saved' = saved /\ torn' = torn /\ lost' = lost /\ unsaved' = unsaved
  BY DEF ConfigInv, Crash, ghosts
<1>2. proc' = Idle /\ proc'.todo = <<>>
  BY DEF Crash, Idle
<1>3. \/ files' = files
      \/ op[1] = "fill" /\ \E c : files' = [files EXCEPT ![op[2]] = c]
  BY DEF Crash
<1>4. DOMAIN files' = DOMAIN files
  BY <1>3
<1>5. Directory' /\ AllElsewhere(proc'.todo)
  BY <1>1, <1>2, <1>4, NothingLeft DEF Directory, Idle
<1>6. LastKept'
  <2>1. CASE files' = files
    BY <1>1, <2>1 DEF LastKept, Complete
  <2>2. CASE AllElsewhere(proc.todo) /\ op[1] = "fill"
    <3>1. Elsewhere(op)
      <4>1. proc.todo # <<>>
        BY <2>2
      <4> QED BY <2>2, <4>1, Rest DEF AllElsewhere
    <3> HIDE DEF op
    <3>2. files'[".config"] = files[".config"] /\ files'[".config.old"] = files[".config.old"]
      BY <1>1, <1>3, <2>2, <3>1 DEF Elsewhere, Directory, Outputs
    <3> QED BY <1>1, <3>2 DEF LastKept, Complete
  <2>3. CASE op[1] = "fill" /\ Writing(config_lines(Trees[tree], proc.vals))
    <3>1. op[2] = ".config" /\ Safe /\ ".config" \in torn
      BY <2>3 DEF Writing
    <3> HIDE DEF op
    <3>2. files'[".config.old"] = files[".config.old"]
      BY <1>1, <1>3, <3>1 DEF Directory, Outputs
    <3> QED BY <1>1, <3>1, <3>2 DEF LastKept, Complete, Safe
  <2> HIDE DEF op
  <2> QED BY <1>3, <2>1, <2>2, <2>3 DEF ConfigInv
<1> QED BY <1>5, <1>6 DEF ConfigInv

LEMMA WriteConfig ==
  ASSUME NEW f, NEW vals
  PROVE  \/ write_config(f, vals) = <<>>
         \/ write_config(f, vals) =
              << <<"rename", f>>, <<"open", f>>, <<"fill", f, config_lines(Trees[tree], vals)>> >>
<1> DEFINE lines == config_lines(Trees[tree], vals)
           a == <<"rename", f>>
           b == <<"open", f>>
           c == <<"fill", f, lines>>
<1>1. write_config(f, vals) = IF files[f] = lines THEN <<>>
                              ELSE <<a>> \o (IF files[f] = lines THEN <<>> ELSE <<b, c>>)
  BY DEF write_config, _save_old, _write_if_changed, _contents_eq
<1> HIDE DEF lines, a, b, c
<1>2. write_config(f, vals) = <<>> \/ write_config(f, vals) = <<a>> \o <<b, c>>
  BY <1>1
<1>3. <<a>> \o <<b, c>> = <<a, b, c>>
  BY InFront
<1>4. write_config(f, vals) = <<>> \/ write_config(f, vals) = <<a, b, c>>
  BY <1>2, <1>3
<1> QED BY <1>4 DEF lines, a, b, c

\* A tool starts with calls on other files, or with a write of .config.
StartsWell(todo, vals) ==
  \/ AllElsewhere(todo)
  \/ /\ vals \in ValsOf(Trees[tree])
     /\ todo = << <<"rename", ".config">>, <<"open", ".config">>,
                  <<"fill", ".config", config_lines(Trees[tree], vals)>> >>

LEMMA SavesWell ==
  ASSUME NEW f \in {".config", "merged"}, NEW vals \in ValsOf(Trees[tree])
  PROVE  StartsWell(write_config(f, vals), vals)
<1> DEFINE lines == config_lines(Trees[tree], vals)
           todo == << <<"rename", f>>, <<"open", f>>, <<"fill", f, lines>> >>
<1>1. CASE write_config(f, vals) = <<>>
  BY <1>1, NothingLeft DEF StartsWell
<1>2. CASE write_config(f, vals) = todo /\ f = ".config"
  BY <1>2 DEF StartsWell
<1>3. CASE write_config(f, vals) = todo /\ f = "merged"
  <2> HIDE DEF lines
  <2> DEFINE T == { <<"rename", "merged">>, <<"open", "merged">>, <<"fill", "merged", lines>> }
  <2>1. todo \in Seq(T)
    BY <1>3
  <2>2. \A op \in T : Elsewhere(op)
    BY DEF Elsewhere
  <2> HIDE DEF T, todo
  <2>3. AllElsewhere(todo)
    BY <2>1, <2>2, WritesElsewhere
  <2> QED BY <1>3, <2>3 DEF StartsWell
<1> QED BY <1>1, <1>2, <1>3, WriteConfig

LEMMA WriteFile ==
  ASSUME NEW f, NEW contents
  PROVE  _write_if_changed(f, contents) \in Seq({<<"open", f>>, <<"fill", f, contents>>})
<1> DEFINE a == <<"open", f>>
           b == <<"fill", f, contents>>
<1>1. _write_if_changed(f, contents) = <<>> \/ _write_if_changed(f, contents) = <<a, b>>
  BY DEF _write_if_changed
<1> HIDE DEF a, b
<1>2. <<>> \in Seq({a, b}) /\ <<a, b>> \in Seq({a, b})
  OBVIOUS
<1>3. _write_if_changed(f, contents) \in Seq({a, b})
  BY <1>1, <1>2
<1> QED BY <1>3 DEF a, b

LEMMA MinElsewhere ==
  ASSUME NEW vals, NEW syms
  PROVE  AllElsewhere(write_min_config(vals, syms))
<1> DEFINE lines == LinesOf(Trees[tree], vals, syms)
           T == {<<"open", "min">>, <<"fill", "min", lines>>}
<1>1. write_min_config(vals, syms) \in Seq(T)
  BY WriteFile DEF write_min_config
<1> HIDE DEF lines
<1>2. \A op \in T : Elsewhere(op)
  BY DEF Elsewhere
<1> HIDE DEF T
<1> QED BY <1>1, <1>2, WritesElsewhere

LEMMA SyncElsewhere ==
  ASSUME NEW vals
  PROVE  AllElsewhere(write_autoconf(vals) \o sync_deps(vals))
<1> DEFINE lines == autoconf_lines(Trees[tree], vals)
           names == ToTouch(Trees[tree], OldVals, vals)
           old == old_vals_lines(Trees[tree], vals)
           T == {<<"open", "autoconf.h">>, <<"fill", "autoconf.h", lines>>, <<"touch", names>>,
                 <<"open", "auto.conf">>, <<"fill", "auto.conf", old>>}
<1>1. write_autoconf(vals) \in Seq(T)
  <2>1. write_autoconf(vals) \in Seq({<<"open", "autoconf.h">>, <<"fill", "autoconf.h", lines>>})
    BY WriteFile DEF write_autoconf
  <2> HIDE DEF lines, names, old
  <2> QED BY <2>1
<1>2. _write_old_vals(vals) \in Seq(T)
  <2>1. _write_old_vals(vals) \in Seq({<<"open", "auto.conf">>, <<"fill", "auto.conf", old>>})
    BY WriteFile DEF _write_old_vals
  <2> HIDE DEF lines, names, old
  <2> QED BY <2>1
<1> HIDE DEF lines, names, old
<1>3. _touch(names) \in Seq(T)
  <2> DEFINE a == <<"touch", names>>
  <2>1. a \in T /\ (_touch(names) = <<>> \/ _touch(names) = <<a>>)
    BY DEF _touch
  <2> HIDE DEF a, T
  <2>2. <<>> \in Seq(T) /\ <<a>> \in Seq(T)
    BY <2>1
  <2> QED BY <2>1, <2>2
<1>4. \A op \in T : Elsewhere(op)
  BY DEF Elsewhere
<1> HIDE DEF T
<1>5. sync_deps(vals) \in Seq(T)
  BY <1>2, <1>3 DEF sync_deps, names
<1>6. write_autoconf(vals) \o sync_deps(vals) \in Seq(T)
  BY <1>1, <1>5
<1> QED BY <1>4, <1>6, WritesElsewhere

LEMMA ConfigTool ==
  ASSUME ConfigInv, NEW tool, NEW vals, NEW todo, Start(tool, vals, todo), StartsWell(todo, vals)
  PROVE  ConfigInv'
<1>1. Directory /\ LastKept
  BY DEF ConfigInv
<1>2. /\ tree' = tree /\ files' = files /\ saved' = saved /\ torn' = torn /\ lost' = lost
      /\ unsaved' = unsaved
      /\ proc' = [tool |-> tool, vals |-> vals, todo |-> todo]
  BY DEF Start
<1>3. proc'.todo = todo /\ proc'.vals = vals /\ DOMAIN proc' = {"tool", "vals", "todo"}
  BY <1>2
<1>4. Directory' /\ LastKept'
  BY <1>1, <1>2, <1>3 DEF Directory, LastKept, Complete
<1>5. CASE AllElsewhere(todo)
  BY <1>3, <1>4, <1>5 DEF ConfigInv
<1>6. CASE /\ vals \in ValsOf(Trees[tree])
           /\ todo = << <<"rename", ".config">>, <<"open", ".config">>,
                        <<"fill", ".config", config_lines(Trees[tree], vals)>> >>
  BY <1>2, <1>3, <1>4, <1>6 DEF ConfigInv, Writing
<1> QED BY <1>5, <1>6 DEF StartsWell

LEMMA ConfigAsked ==
  ASSUME ConfigInv, NEW vals \in ValsOf(Trees[tree]), Asked(vals)
  PROVE  ConfigInv'
<1> DEFINE todo == write_config(".config", vals)
<1>1. Directory /\ LastKept
  BY DEF ConfigInv
<1>2. /\ tree' = tree /\ files' = files /\ saved' = saved /\ torn' = torn /\ lost' = lost
      /\ unsaved' = unsaved
      /\ proc' = [proc EXCEPT !.vals = vals, !.todo = todo]
  BY DEF Asked, ghosts
<1>3. StartsWell(todo, vals)
  BY SavesWell
<1> HIDE DEF todo
<1>4. proc'.todo = todo /\ proc'.vals = vals /\ DOMAIN proc' = {"tool", "vals", "todo"}
  BY <1>1, <1>2 DEF Directory
<1>5. Directory' /\ LastKept'
  BY <1>1, <1>2, <1>4 DEF Directory, LastKept, Complete
<1>6. CASE AllElsewhere(todo)
  BY <1>4, <1>5, <1>6 DEF ConfigInv
<1>7. CASE /\ vals \in ValsOf(Trees[tree])
           /\ todo = << <<"rename", ".config">>, <<"open", ".config">>,
                        <<"fill", ".config", config_lines(Trees[tree], vals)>> >>
  BY <1>2, <1>4, <1>5, <1>7 DEF ConfigInv, Writing
<1> QED BY <1>3, <1>6, <1>7 DEF StartsWell

LEMMA ConfigEdit == ConfigInv /\ EditConfig => ConfigInv'
<1> SUFFICES ASSUME ConfigInv, EditConfig
             PROVE  ConfigInv'
  OBVIOUS
<1>1. Directory /\ proc = Idle /\ proc' = proc /\ tree' = tree
  BY DEF ConfigInv, EditConfig, Editing, Running
<1>2. PICK c \in HandWritten : /\ files' = [files EXCEPT ![".config"] = c] /\ saved' = c
                               /\ torn' = torn \ {".config"}
  BY DEF EditConfig
<1>3. c # Absent
  BY StoreAssumption
<1>4. files'[".config"] = c /\ DOMAIN files' = DOMAIN files
  BY <1>1, <1>2 DEF Directory, Outputs
<1>5. Directory' /\ LastKept'
  BY <1>1, <1>2, <1>3, <1>4 DEF Directory, LastKept, Complete
<1>6. AllElsewhere(proc'.todo)
  BY <1>1, NothingLeft DEF Idle
<1> QED BY <1>5, <1>6 DEF ConfigInv

\* What neither writes nor starts a tool.
LEMMA ConfigRest ==
  ASSUME ConfigInv, tree' \in DOMAIN Trees, UNCHANGED <<files, saved, torn, lost, unsaved>>,
         \/ UNCHANGED <<proc, tree>>
         \/ proc = Idle /\ proc' = proc
         \/ proc' = Idle
  PROVE  ConfigInv'
<1>1. Directory /\ LastKept
  BY DEF ConfigInv
<1>2. Directory' /\ LastKept'
  BY <1>1 DEF Directory, LastKept, Complete, Idle
<1>3. CASE proc' = Idle
  <2>1. AllElsewhere(proc'.todo)
    BY <1>3, NothingLeft DEF Idle
  <2> QED BY <1>2, <2>1 DEF ConfigInv
<1>4. CASE UNCHANGED <<proc, tree>>
  BY <1>2, <1>4 DEF ConfigInv, Writing, Safe
<1> QED BY <1>3, <1>4

LEMMA ConfigStep == ConfigInv /\ [StoreNext]_storeVars => ConfigInv'
<1> SUFFICES ASSUME ConfigInv, [StoreNext]_storeVars
             PROVE  ConfigInv'
  OBVIOUS
<1>1. tree \in DOMAIN Trees
  BY DEF ConfigInv, Directory
<1>2. ASSUME NEW vals \in ValsOf(Trees[tree]), NEW tool, NEW f \in {".config", "merged"},
             SaveAs(tool, f, vals)
      PROVE  ConfigInv'
  BY <1>2, SavesWell, ConfigTool DEF SaveAs
<1>3. ASSUME NEW vals \in ValsOf(Trees[tree]), NEW syms, SaveMin(vals, syms)
      PROVE  ConfigInv'
  <2>1. StartsWell(write_min_config(vals, syms), vals)
    BY MinElsewhere DEF StartsWell
  <2> QED BY <1>3, <2>1, ConfigTool DEF SaveMin
<1>4. ASSUME NEW vals \in ValsOf(Trees[tree]), Sync(vals)
      PROVE  ConfigInv'
  <2>1. StartsWell(write_autoconf(vals) \o sync_deps(vals), vals)
    BY SyncElsewhere DEF StartsWell
  <2> QED BY <1>4, <2>1, ConfigTool DEF Sync
<1>5. CASE Ask
  <2>1. StartsWell(<<>>, <<>>)
    BY NothingLeft DEF StartsWell
  <2> QED BY <1>5, <2>1, ConfigTool DEF Ask
<1>6. CASE Exit
  BY <1>1, <1>6, ConfigRest DEF Exit, ghosts
<1>7. CASE EditKconfig
  <2>1. tree' \in DOMAIN Trees
    BY <1>1, <1>7, StoreAssumption DEF EditKconfig
  <2> QED BY <1>7, <2>1, ConfigRest DEF EditKconfig, Editing, Running, ghosts
<1>8. CASE Build
  BY <1>1, <1>8, ConfigRest DEF Build, ghosts
<1>9. CASE UNCHANGED storeVars
  BY <1>1, <1>9, ConfigRest DEF storeVars, ghosts
<1> QED BY <1>2, <1>3, <1>4, <1>5, <1>6, <1>7, <1>8, <1>9, ConfigAsked, ConfigCalls, ConfigCrash,
           ConfigEdit DEF StoreNext

\* ConfigKept: whatever is done to the directory, and wherever a tool is killed, the last
\* complete configuration is in .config or in .config.old, but for the two ways to lose
\* it that Kept names: an incomplete .config saved as the old one, and the write of a
\* .config that could not be saved and was not completed.
THEOREM ConfigKept == StoreSpec => []Kept
<1>1. ConfigInv => Kept
  BY DEF ConfigInv, LastKept, Kept
<1> QED BY <1>1, ConfigStarts, ConfigStep, PTL DEF StoreSpec

---------------------------------------------------------------------------
(* The changes are noticed.                                                    *)

AutoConf == files["auto.conf"]
Whole == "auto.conf" \notin torn

\* auto.conf is as a tool writes it: every line gives a symbol of this or of an earlier
\* version a value other than n.
Gives(line) ==
  \E u \in 1..tree :
    /\ line[1] \in ToSet(Trees[u].order) /\ ~(IsTri(Trees[u], line[1]) /\ line[2] = 0)
AutoInv ==
  Whole => \/ AutoConf = Absent
           \/ AutoConf \in Seq(Names \X Int) /\ \A k \in DOMAIN AutoConf : Gives(AutoConf[k])

\* A file says of every symbol what the objects were compiled with, but for the
\* touched ones.
Agrees(auto) ==
  \/ blind \/ compiled = Absent
  \/ \A i \in Names \ (touched \cup StillNamed) : compiled[i] = OldVal(i, auto)

\* How far genconfig is.
Now(vals) == autoconf_lines(Trees[tree], vals)
InHeader(vals) ==
  \E w \in { << <<"open", "autoconf.h">>, <<"fill", "autoconf.h", Now(vals)>> >>,
             << <<"fill", "autoconf.h", Now(vals)>> >> } :
    proc.todo = w \o sync_deps(vals)
InTouch(vals) ==
  /\ files["autoconf.h"] = Now(vals)
  /\ proc.todo = << <<"touch", ToTouch(Trees[tree], OldVals, vals)>> >> \o _write_old_vals(vals)
InAuto(vals) ==
  /\ files["autoconf.h"] = Now(vals) /\ Agrees(Now(vals))
  /\ proc.todo = _write_old_vals(vals)
InFill(vals) ==
  /\ files["autoconf.h"] = Now(vals) /\ Agrees(Now(vals))
  /\ proc.todo = << <<"fill", "auto.conf", Now(vals)>> >>
Syncing(vals) ==
  /\ vals \in ValsOf(Trees[tree])
  /\ \/ (blind \/ Whole) /\ (InHeader(vals) \/ InTouch(vals) \/ InAuto(vals))
     \/ ~Whole /\ InFill(vals)

DepInv ==
  /\ Directory
  /\ AutoInv
  /\ Whole => Agrees(AutoConf)
  /\ synced => ~Running /\ (blind \/ Whole) /\ files["autoconf.h"] = AutoConf
  /\ IF proc.tool = "genconfig" THEN Syncing(proc.vals) ELSE AllAside(proc.todo)

\* What a new auto.conf, or a new header, says.
LEMMA NowSays ==
  ASSUME NEW t \in DOMAIN Trees, NEW vals \in ValsOf(Trees[t])
  PROVE  LET now == autoconf_lines(Trees[t], vals)
             T == Trees[t]
         IN /\ now \in Seq(Names \X Int) /\ now # Absent /\ old_vals_lines(T, vals) = now
            /\ \A k \in DOMAIN now : /\ now[k][1] \in ToSet(T.order)
                                     /\ ~(IsTri(T, now[k][1]) /\ now[k][2] = 0)
            /\ \A i \in ToSet(T.order) :
                 OldVal(i, now) = IF vals[i][2] /\ ~(IsTri(T, i) /\ vals[i][1] = 0)
                                  THEN vals[i][1] ELSE None
            /\ \A i : i \notin ToSet(T.order) => OldVal(i, now) = None
<1> DEFINE T == Trees[t]
           now == autoconf_lines(T, vals)
           shown == ToSet(T.order) \cap NotN(T, vals) \cap InConf(T, vals)
           says(i) == config_string(T, i, vals[i])[2]
<1>1. /\ now \in Seq(Names \X Int) /\ now # Absent
      /\ \A k \in DOMAIN now : now[k][1] \in shown /\ now[k][2] = says(now[k][1])
      /\ \A i \in shown : OldVal(i, now) = says(i)
      /\ \A i : i \notin shown => OldVal(i, now) = None
  BY LinesAre DEF autoconf_lines
<1>2. \A i \in shown : says(i) = vals[i][1] /\ ~(IsTri(T, i) /\ vals[i][1] = 0)
  BY DEF config_string, NotN
<1>3. \A i \in ToSet(T.order) : i \in shown <=> vals[i][2] /\ ~(IsTri(T, i) /\ vals[i][1] = 0)
  BY DEF NotN, InConf
<1>4. shown \in SUBSET ToSet(T.order) /\ old_vals_lines(T, vals) = now
  BY DEF autoconf_lines, old_vals_lines
<1> HIDE DEF shown, says, now
<1>5. \A k \in DOMAIN now : now[k][1] \in ToSet(T.order) /\ ~(IsTri(T, now[k][1]) /\ now[k][2] = 0)
  BY <1>1, <1>2, <1>4
<1>6. \A i \in ToSet(T.order) :
        OldVal(i, now) = IF vals[i][2] /\ ~(IsTri(T, i) /\ vals[i][1] = 0)
                         THEN vals[i][1] ELSE None
  BY <1>1, <1>2, <1>3
<1>7. \A i : i \notin ToSet(T.order) => OldVal(i, now) = None
  BY <1>1, <1>4
<1> QED BY <1>1, <1>4, <1>5, <1>6, <1>7 DEF now

\* What sync_deps touches: what it reads from auto.conf is no symbol now, or has changed.
LEMMA Touched ==
  ASSUME NEW t \in DOMAIN Trees, NEW auto \in Seq(Names \X Int), NEW vals
  PROVE  ToSet(ToTouch(Trees[t], auto, vals)) =
           {i \in ToSet(NamesIn(auto)) : i \notin Trees[t].known}
             \cup ChangedSyms(Trees[t], auto, vals)
<1> DEFINE T == Trees[t]
           names == NamesIn(auto)
           gone == ToSet(names) \ T.known
           changed == ChangedSyms(T, auto, vals)
<1>1. names \in Seq(Names)
  <2>1. \A k \in 1..Len(auto) : auto[k][1] \in Names
    OBVIOUS
  <2> QED BY <2>1 DEF NamesIn
<1>2. T.order \in Seq(Names)
  BY TreeNames
<1>3. changed \in SUBSET ToSet(T.order)
  BY DEF ChangedSyms
<1> HIDE DEF changed, names
<1>4. Those(names, gone) \in Seq(Names) /\ ToSet(Those(names, gone)) = gone
  BY <1>1, ThoseAre
<1>5. Those(T.order, changed) \in Seq(Names) /\ ToSet(Those(T.order, changed)) = changed
  <2>1. /\ Those(T.order, changed) \in Seq(Names)
        /\ ToSet(Those(T.order, changed)) = ToSet(T.order) \cap changed
    BY <1>2, ThoseAre
  <2> QED BY <1>3, <2>1
<1>6. ToTouch(T, auto, vals) = Those(names, gone) \o Those(T.order, changed)
  BY DEF ToTouch, Removed, names, changed
<1>7. ToSet(ToTouch(T, auto, vals)) = gone \cup changed
  <2> HIDE DEF gone
  <2> QED BY <1>4, <1>5, <1>6, Joined
<1> QED BY <1>7 DEF names, changed

\* A symbol that is not touched has in the new files the value that auto.conf gives it.
LEMMA Untouched ==
  ASSUME Directory, AutoInv, Whole, NEW vals \in ValsOf(Trees[tree]),
         NEW i \in Names \ StillNamed, i \notin ToSet(ToTouch(Trees[tree], OldVals, vals))
  PROVE  OldVal(i, AutoConf) = OldVal(i, Now(vals))
<1> DEFINE T == Trees[tree]
           old == OldVal(i, OldVals)
           now == Now(vals)
           lines == OldVals
<1>1. tree \in DOMAIN Trees /\ tree \in Nat /\ DOMAIN Trees = 1..Len(Trees)
  BY StoreAssumption DEF Directory
<1>2. lines \in Seq(Names \X Int) /\ \A k \in DOMAIN lines : Gives(lines[k])
  BY DEF AutoInv, OldVals, AutoConf
<1>3. OldVal(i, AutoConf) = old
  BY AbsentSaysNothing DEF OldVals, AutoConf
<1>4. /\ \A k \in DOMAIN now : now[k][1] \in ToSet(T.order)
      /\ i \in ToSet(T.order) =>
           OldVal(i, now) = IF vals[i][2] /\ ~(IsTri(T, i) /\ vals[i][1] = 0)
                            THEN vals[i][1] ELSE None
      /\ i \notin ToSet(T.order) => OldVal(i, now) = None
  BY <1>1, NowSays DEF Now
<1> HIDE DEF now, lines
<1>5. /\ ~(i \in ToSet(NamesIn(lines)) /\ i \notin T.known)
      /\ i \notin ChangedSyms(T, lines, vals)
  <2>1. ToSet(ToTouch(T, lines, vals)) =
          {j \in ToSet(NamesIn(lines)) : j \notin T.known} \cup ChangedSyms(T, lines, vals)
    BY <1>1, <1>2, Touched
  <2>2. i \notin ToSet(ToTouch(T, lines, vals))
    BY DEF lines
  <2> QED BY <2>1, <2>2
<1>6. ASSUME old # None
      PROVE  \E u \in 1..tree : i \in ToSet(Trees[u].order) /\ ~(IsTri(Trees[u], i) /\ old = 0)
  <2>1. PICK k \in DOMAIN lines : lines[k][1] = i
    BY <1>6, NoOldVal DEF lines
  <2>2. PICK l \in DOMAIN lines : lines[l][1] = i /\ old = lines[l][2]
    BY <1>2, <2>1, OldValIs DEF lines
  <2> QED BY <1>2, <2>2 DEF Gives
<1>7. CASE i \in ToSet(T.order)
  <2>1. ~ChangedSym(T, i, vals[i], old)
    BY <1>5, <1>7 DEF ChangedSyms, lines
  <2>2. ~(IsTri(T, i) /\ old = 0)
    <3>1. CASE old = None
      BY <3>1 DEF None
    <3>2. CASE old # None
      <4>1. PICK u \in 1..tree : i \in ToSet(Trees[u].order) /\ ~(IsTri(Trees[u], i) /\ old = 0)
        BY <1>6, <3>2
      <4>2. u \in DOMAIN Trees
        BY <1>1
      <4>3. IsTri(Trees[u], i) = IsTri(T, i)
        BY <1>1, <1>7, <4>1, <4>2, StoreAssumption
      <4> QED BY <4>1, <4>3
    <3> QED BY <3>1, <3>2
  <2>3. OldVal(i, now) = old
    BY <1>4, <1>7, <2>1, <2>2 DEF ChangedSym
  <2> QED BY <1>3, <2>3 DEF now
<1>8. CASE i \notin ToSet(T.order) /\ old # None
  <2>1. PICK u \in 1..tree : i \in ToSet(Trees[u].order)
    BY <1>6, <1>8
  <2>2. u < tree
    <3>1. u # tree
      BY <1>8, <2>1
    <3> QED BY <1>1, <3>1
  <2>3. i \in ToSet(NamesIn(lines))
    <3>1. PICK k \in DOMAIN lines : lines[k][1] = i
      BY <1>8, NoOldVal DEF lines
    <3> QED BY <3>1 DEF NamesIn, ToSet
  <2>4. i \in T.known
    BY <1>5, <2>3
  <2>5. i \in StillNamed
    <3>1. tree \in 1..tree
      BY <1>1
    <3> QED BY <1>8, <2>1, <2>2, <2>4, <3>1 DEF StillNamed
  <2> QED BY <2>5
<1> QED BY <1>3, <1>4, <1>7, <1>8 DEF now

\* With the touched symbols the objects agree with what the new files will say.
LEMMA Settles ==
  ASSUME Directory, AutoInv, Whole => Agrees(AutoConf), blind \/ Whole,
         NEW vals \in ValsOf(Trees[tree])
  PROVE  \/ blind \/ compiled = Absent
         \/ LET names == ToSet(ToTouch(Trees[tree], OldVals, vals))
            IN \A i \in Names \ (touched \cup names \cup StillNamed) :
                 compiled[i] = OldVal(i, Now(vals))
<1> DEFINE names == ToSet(ToTouch(Trees[tree], OldVals, vals))
<1> SUFFICES ASSUME ~blind, compiled # Absent, Whole,
                    NEW i \in Names \ (touched \cup names \cup StillNamed)
             PROVE  compiled[i] = OldVal(i, Now(vals))
  OBVIOUS
<1>1. compiled[i] = OldVal(i, AutoConf)
  BY DEF Agrees
<1>2. OldVal(i, AutoConf) = OldVal(i, Now(vals))
  BY Untouched
<1> QED BY <1>1, <1>2

LEMMA DepStarts == StoreInit => DepInv
<1> SUFFICES ASSUME StoreInit
             PROVE  DepInv
  OBVIOUS
<1>1. tree = 1 /\ proc = Idle /\ synced = FALSE /\ 1 \in DOMAIN Trees
  BY StoreAssumption DEF StoreInit, InitRest
<1>2. Directory
  BY <1>1, ConfigStarts DEF ConfigInv
<1>3. proc.tool # "genconfig" /\ AllAside(proc.todo)
  BY <1>1, NothingLeft DEF Idle
<1>4. CASE InitFresh
  <2>1. AutoConf = Absent /\ compiled = Absent
    BY <1>4, StoreAssumption DEF InitFresh, Fresh, AutoConf, Outputs
  <2> QED BY <1>1, <1>2, <1>3, <2>1 DEF DepInv, AutoInv, Agrees
<1>5. ASSUME NEW vals \in ValsOf(Trees[1]), NEW later \in HandWritten, InitBuilt(vals, later)
      PROVE  DepInv
  <2>1. AutoConf = autoconf_lines(Trees[1], vals) /\ files["autoconf.h"] = AutoConf
    <3>1. old_vals_lines(Trees[1], vals) = autoconf_lines(Trees[1], vals)
      BY DEF old_vals_lines, autoconf_lines
    <3> QED BY <1>5, <3>1, StoreAssumption DEF InitBuilt, Built, Fresh, AutoConf, Outputs
  <2>2. AutoInv
    <3>1. /\ AutoConf \in Seq(Names \X Int)
          /\ \A k \in DOMAIN AutoConf : /\ AutoConf[k][1] \in ToSet(Trees[1].order)
                                        /\ ~(IsTri(Trees[1], AutoConf[k][1]) /\ AutoConf[k][2] = 0)
      BY <1>1, <2>1, NowSays
    <3>2. 1 \in 1..tree
      BY <1>1
    <3> QED BY <3>1, <3>2 DEF AutoInv, Gives
  <2>3. Agrees(AutoConf)
    BY <1>5, <2>1 DEF InitBuilt, Header, Agrees
  <2> QED BY <1>1, <1>2, <1>3, <2>2, <2>3 DEF DepInv
<1> QED BY <1>4, <1>5 DEF StoreInit

\* A step that neither writes auto.conf nor the header, nor is one of genconfig's.
LEMMA DepAside ==
  ASSUME DepInv, Directory', proc'.tool # "genconfig", AllAside(proc'.todo), ~synced',
         UNCHANGED <<tree, compiled, touched>>, blind => blind',
         files'["auto.conf"] = files["auto.conf"],
         Whole' => Whole
  PROVE  DepInv'
<1>1. AutoConf' = AutoConf
  BY DEF AutoConf
<1>2. AutoInv'
  <2>1. AutoInv
    BY DEF DepInv
  <2> QED BY <1>1, <2>1 DEF AutoInv, Gives
<1>3. (Whole => Agrees(AutoConf))'
  <2>1. Whole => Agrees(AutoConf)
    BY DEF DepInv
  <2> QED BY <1>1, <2>1 DEF Agrees, StillNamed
<1> QED BY <1>2, <1>3 DEF DepInv

\* The header and auto.conf get the same lines, and those of sync_deps depend on
\* nothing that a write of the header changes.
LEMMA SyncSame ==
  ASSUME NEW vals, UNCHANGED tree, files'["auto.conf"] = files["auto.conf"]
  PROVE  /\ Now(vals)' = Now(vals) /\ sync_deps(vals)' = sync_deps(vals)
         /\ _write_old_vals(vals)' = _write_old_vals(vals)
         /\ ToTouch(Trees[tree], OldVals, vals)' = ToTouch(Trees[tree], OldVals, vals)
BY DEF Now, sync_deps, _write_old_vals, _write_if_changed, _contents_eq, OldVals

\* The calls of sync_deps, as a sequence.
LEMMA SyncCalls ==
  ASSUME NEW vals
  PROVE  LET names == ToTouch(Trees[tree], OldVals, vals)
             touch == <<"touch", names>>
             T == {<<"open", "autoconf.h">>, <<"fill", "autoconf.h", Now(vals)>>, touch,
                   <<"open", "auto.conf">>, <<"fill", "auto.conf", Now(vals)>>}
         IN /\ _write_old_vals(vals) \in Seq(T) /\ sync_deps(vals) \in Seq(T)
            /\ \/ /\ AutoConf = Now(vals) /\ _write_old_vals(vals) = <<>>
               \/ _write_old_vals(vals) =
                    << <<"open", "auto.conf">>, <<"fill", "auto.conf", Now(vals)>> >>
            /\ IF names = <<>> THEN sync_deps(vals) = _write_old_vals(vals)
               ELSE sync_deps(vals) = <<touch>> \o _write_old_vals(vals)
<1> DEFINE names == ToTouch(Trees[tree], OldVals, vals)
           lines == Now(vals)
           touch == <<"touch", names>>
           a == <<"open", "auto.conf">>
           b == <<"fill", "auto.conf", lines>>
           T == {<<"open", "autoconf.h">>, <<"fill", "autoconf.h", lines>>, touch, a, b}
           rest == _write_old_vals(vals)
<1>1. a \in T /\ b \in T /\ touch \in T
  OBVIOUS
<1>2. (AutoConf = lines /\ rest = <<>>) \/ rest = <<a, b>>
  BY DEF _write_old_vals, _write_if_changed, _contents_eq, Now, old_vals_lines, autoconf_lines,
         AutoConf
<1>3. sync_deps(vals) = (IF names = <<>> THEN <<>> ELSE <<touch>>) \o rest
  BY DEF sync_deps, _touch
<1> HIDE DEF names, lines, touch, a, b, T, rest
<1>4. rest \in Seq(T)
  <2>1. <<>> \in Seq(T) /\ <<a, b>> \in Seq(T)
    BY <1>1
  <2> QED BY <1>2, <2>1
<1>5. <<>> \o rest = rest
  BY <1>4, ConcatEmptySeq
<1>6. <<touch>> \o rest \in Seq(T)
  BY <1>1, <1>4, Onefold
<1>7. IF names = <<>> THEN sync_deps(vals) = rest ELSE sync_deps(vals) = <<touch>> \o rest
  BY <1>3, <1>5
<1>8. sync_deps(vals) \in Seq(T)
  BY <1>4, <1>6, <1>7
<1> QED BY <1>2, <1>4, <1>7, <1>8 DEF names, lines, touch, a, b, T, rest

\* The header is written: sync_deps touches first, if there is anything to touch.
LEMMA HeaderWritten ==
  ASSUME Directory, AutoInv, Whole => Agrees(AutoConf), blind \/ Whole,
         NEW vals \in ValsOf(Trees[tree]),
         UNCHANGED <<tree, compiled, touched>>, blind => blind',
         files'["auto.conf"] = files["auto.conf"],
         files'["autoconf.h"] = Now(vals), proc'.todo = sync_deps(vals)
  PROVE  InTouch(vals)' \/ InAuto(vals)'
<1> DEFINE names == ToTouch(Trees[tree], OldVals, vals)
<1>1. /\ Now(vals)' = Now(vals) /\ _write_old_vals(vals)' = _write_old_vals(vals)
      /\ ToTouch(Trees[tree], OldVals, vals)' = names
  BY SyncSame
<1>2. CASE names = <<>>
  <2>1. Agrees(Now(vals))'
    <3>1. ToSet(names) = {}
      BY <1>2 DEF ToSet
    <3>2. \/ blind \/ compiled = Absent
          \/ \A i \in Names \ (touched \cup ToSet(names) \cup StillNamed) :
               compiled[i] = OldVal(i, Now(vals))
      BY Settles
    <3> HIDE DEF names
    <3> QED BY <1>1, <3>1, <3>2 DEF Agrees, StillNamed
  <2>2. proc'.todo = _write_old_vals(vals)
    BY <1>2, SyncCalls
  <2> QED BY <1>1, <2>1, <2>2 DEF InAuto
<1>3. CASE names # <<>>
  <2>1. proc'.todo = << <<"touch", names>> >> \o _write_old_vals(vals)
    BY <1>3, SyncCalls
  <2> QED BY <1>1, <2>1 DEF InTouch
<1> QED BY <1>2, <1>3

LEMMA DepCalls == DepInv /\ Call => DepInv'
<1> DEFINE vals == proc.vals
           now == Now(vals)
           names == ToTouch(Trees[tree], OldVals, vals)
           rest == _write_old_vals(vals)
           T == {<<"open", "autoconf.h">>, <<"fill", "autoconf.h", now>>, <<"touch", names>>,
                 <<"open", "auto.conf">>, <<"fill", "auto.conf", now>>}
<1> SUFFICES ASSUME DepInv, Call
             PROVE  DepInv'
  OBVIOUS
<1>1. Directory /\ AutoInv /\ (Whole => Agrees(AutoConf))
  BY DEF DepInv
<1> PICK op \in Outcomes(Head(proc.todo)) :
      /\ files' = Apply(op) /\ torn' = TornAfter(op)
      /\ touched' = IF op[1] = "touch" THEN touched \cup ToSet(op[2]) ELSE touched
  BY DEF Call
<1>2. /\ proc.todo # <<>> /\ tree' = tree /\ compiled' = compiled /\ blind' = blind
      /\ files' = Apply(op) /\ torn' = TornAfter(op)
      /\ touched' = IF op[1] = "touch" THEN touched \cup ToSet(op[2]) ELSE touched
  BY DEF Call
<1>11. /\ Head(proc.todo)[1] # "rename" => op = Head(proc.todo)
       /\ op = Head(proc.todo) \/ op[1] = "failed"
  BY DEF Outcomes
<1>3. /\ DOMAIN proc' = DOMAIN proc /\ proc'.todo = Tail(proc.todo) /\ proc'.vals = vals
      /\ proc'.tool = proc.tool
  BY <1>1 DEF Call, Directory
<1>4. ~synced /\ ~synced'
  BY DEF Call, DepInv
<1>5. Directory'
  <2>1. DOMAIN files' = DOMAIN files
    BY <1>2 DEF Apply
  <2> QED BY <1>1, <1>2, <1>3, <2>1 DEF Directory
<1>6. CASE proc.tool # "genconfig"
  <2>1. (Aside(op) \/ op[1] = "failed") /\ AllAside(proc'.todo)
    <3>1. Aside(Head(proc.todo)) /\ AllAside(proc'.todo)
      BY <1>2, <1>3, <1>6, Rest DEF DepInv, AllAside
    <3> QED BY <1>11, <3>1
  <2>2. touched' = touched /\ files'["auto.conf"] = files["auto.conf"] /\ (Whole' => Whole)
    BY <1>1, <1>2, <2>1 DEF Aside, Apply, OldOf, TornAfter, Whole, Directory, Outputs
  <2> QED BY <1>2, <1>3, <1>4, <1>5, <1>6, <2>1, <2>2, DepAside
<1>7. CASE /\ proc.tool = "genconfig" /\ InHeader(vals)
           /\ vals \in ValsOf(Trees[tree]) /\ (blind \/ Whole)
  <2> DEFINE a == <<"open", "autoconf.h">>
             b == <<"fill", "autoconf.h", now>>
             s == sync_deps(vals)
  <2>1. a \in T /\ b \in T /\ s \in Seq(T)
    BY SyncCalls
  <2>2. \/ proc.todo = <<a, b>> \o s /\ op = a /\ proc'.todo = <<b>> \o s
        \/ proc.todo = <<b>> \o s /\ op = b /\ proc'.todo = s
    <3>1. proc.todo = <<a, b>> \o s \/ proc.todo = <<b>> \o s
      BY <1>7 DEF InHeader
    <3> HIDE DEF a, b, s, T
    <3>2. Head(<<a, b>> \o s) = a /\ Tail(<<a, b>> \o s) = <<b>> \o s
      BY <2>1, Twofold
    <3>3. Head(<<b>> \o s) = b /\ Tail(<<b>> \o s) = s
      BY <2>1, Onefold
    <3>4. \/ proc.todo = <<a, b>> \o s /\ Head(proc.todo) = a /\ proc'.todo = <<b>> \o s
          \/ proc.todo = <<b>> \o s /\ Head(proc.todo) = b /\ proc'.todo = s
      BY <1>3, <3>1, <3>2, <3>3
    <3>5. a[1] # "rename" /\ b[1] # "rename"
      BY DEF a, b
    <3> QED BY <1>11, <3>4, <3>5
  <2> HIDE DEF T
  <2>3. /\ touched' = touched /\ files'["auto.conf"] = files["auto.conf"] /\ (Whole' <=> Whole)
        /\ op = b => files'["autoconf.h"] = now
    <3> HIDE DEF s, now
    <3> QED BY <1>1, <1>2, <2>2 DEF Apply, TornAfter, Whole, Directory, Outputs
  <2>4. InHeader(vals)' \/ InTouch(vals)' \/ InAuto(vals)'
    <3>1. Now(vals)' = now /\ sync_deps(vals)' = s
      BY <1>2, <1>3, <2>3, SyncSame
    <3>2. CASE proc'.todo = <<b>> \o s
      BY <3>1, <3>2 DEF InHeader
    <3>3. CASE op = b /\ proc'.todo = s
      <4>1. PICK v : v = vals
        OBVIOUS
      <4>2. v \in ValsOf(Trees[tree]) /\ proc'.todo = sync_deps(v) /\ proc'.vals = v
            /\ files'["autoconf.h"] = Now(v)
        BY <1>3, <1>7, <2>3, <3>3, <4>1
      <4>3. InTouch(v)' \/ InAuto(v)'
        BY <1>1, <1>2, <1>7, <2>3, <4>2, HeaderWritten
      <4> QED BY <4>2, <4>3 DEF InTouch, InAuto
    <3> HIDE DEF b, s, now
    <3> QED BY <2>2, <3>2, <3>3
  <2>5. AutoInv' /\ (Whole' => Agrees(AutoConf)')
    BY <1>1, <1>2, <2>3 DEF AutoInv, Gives, Agrees, AutoConf, StillNamed
  <2> QED BY <1>2, <1>3, <1>4, <1>5, <1>7, <2>3, <2>4, <2>5 DEF DepInv, Syncing
<1>8. CASE /\ proc.tool = "genconfig" /\ InTouch(vals)
           /\ vals \in ValsOf(Trees[tree]) /\ (blind \/ Whole)
  <2>1. rest \in Seq(T) /\ <<"touch", names>> \in T
    BY SyncCalls
  <2>2. op = <<"touch", names>> /\ proc'.todo = rest
    <3>1. proc.todo = << <<"touch", names>> >> \o rest
      BY <1>8 DEF InTouch
    <3> DEFINE a == <<"touch", names>>
    <3> HIDE DEF T, names, rest, a
    <3>2. Head(<<a>> \o rest) = a /\ Tail(<<a>> \o rest) = rest
      <4>1. a \in T
        BY <2>1 DEF a
      <4> QED BY <2>1, <4>1, Onefold
    <3>3. proc.todo = <<a>> \o rest
      BY <3>1 DEF a
    <3>4. Head(proc.todo) = a /\ proc'.todo = rest
      BY <1>3, <3>2, <3>3
    <3> QED BY <1>11, <3>4 DEF a
  <2> HIDE DEF T
  <2>3. files' = files /\ touched' = touched \cup ToSet(names) /\ torn' = torn
    <3> HIDE DEF names
    <3> QED BY <1>2, <2>2 DEF Apply, TornAfter
  <2>4. now' = now /\ rest' = rest
    BY <1>2, <1>3, <2>3, SyncSame
  <2>5. Agrees(now)'
    <3>1. \/ blind \/ compiled = Absent
          \/ \A i \in Names \ (touched \cup ToSet(names) \cup StillNamed) :
               compiled[i] = OldVal(i, now)
      BY <1>1, <1>8, Settles
    <3> HIDE DEF names
    <3> QED BY <1>2, <2>3, <2>4, <3>1 DEF Agrees, StillNamed
  <2>6. AutoInv' /\ (Whole' => Agrees(AutoConf)')
    BY <1>1, <1>2, <2>3 DEF AutoInv, Gives, Agrees, AutoConf, StillNamed, Whole
  <2>7. InAuto(vals)'
    BY <1>3, <1>8, <2>2, <2>3, <2>4, <2>5 DEF InAuto, InTouch
  <2> QED BY <1>2, <1>3, <1>4, <1>5, <1>8, <2>3, <2>6, <2>7 DEF DepInv, Syncing, Whole
<1>9. CASE proc.tool = "genconfig" /\ InAuto(vals) /\ vals \in ValsOf(Trees[tree])
  <2> DEFINE a == <<"open", "auto.conf">>
             b == <<"fill", "auto.conf", now>>
  <2>1. proc.todo = <<a, b>>
    BY <1>2, <1>9, SyncCalls DEF InAuto
  <2>2. op = a /\ proc'.todo = <<b>>
    <3> HIDE DEF a, b
    <3>1. Head(proc.todo) = a /\ proc'.todo = <<b>>
      BY <1>3, <2>1
    <3> QED BY <1>11, <3>1 DEF a
  <2>3. ~Whole' /\ touched' = touched /\ files'["autoconf.h"] = files["autoconf.h"]
    BY <1>1, <1>2, <2>2 DEF Apply, TornAfter, Whole, Directory, Outputs
  <2>4. now' = now
    BY <1>2, <1>3 DEF Now
  <2>5. Agrees(now)'
    BY <1>2, <1>9, <2>3, <2>4 DEF Agrees, InAuto, StillNamed
  <2>6. InFill(vals)'
    BY <1>3, <1>9, <2>2, <2>3, <2>4, <2>5 DEF InFill, InAuto
  <2> QED BY <1>2, <1>3, <1>4, <1>5, <1>9, <2>3, <2>6 DEF DepInv, Syncing, AutoInv
<1>10. CASE proc.tool = "genconfig" /\ InFill(vals) /\ vals \in ValsOf(Trees[tree])
  <2>1. op = <<"fill", "auto.conf", now>> /\ proc'.todo = <<>>
    <3> DEFINE b == <<"fill", "auto.conf", now>>
    <3>1. proc.todo = <<b>>
      BY <1>10 DEF InFill
    <3> HIDE DEF b
    <3>2. Head(proc.todo) = b /\ proc'.todo = <<>>
      BY <1>3, <3>1
    <3>3. b[1] # "rename"
      BY DEF b
    <3>4. op = b /\ proc'.todo = <<>>
      BY <1>11, <3>2, <3>3
    <3> QED BY <3>4 DEF b
  <2>2. /\ AutoConf' = now /\ Whole' /\ touched' = touched
        /\ files'["autoconf.h"] = files["autoconf.h"]
    <3> HIDE DEF now
    <3> QED BY <1>1, <1>2, <2>1 DEF Apply, TornAfter, Whole, Directory, Outputs, AutoConf
  <2>3. now' = now
    BY <1>2, <1>3 DEF Now
  <2>4. Agrees(now)'
    BY <1>2, <1>10, <2>2, <2>3 DEF Agrees, InFill, StillNamed
  <2>5. AutoInv'
    <3>1. tree \in DOMAIN Trees /\ tree \in 1..tree
      BY <1>1, StoreAssumption DEF Directory
    <3>2. /\ now \in Seq(Names \X Int)
          /\ \A k \in DOMAIN now : /\ now[k][1] \in ToSet(Trees[tree].order)
                                   /\ ~(IsTri(Trees[tree], now[k][1]) /\ now[k][2] = 0)
      BY <1>10, <3>1, NowSays DEF Now
    <3> HIDE DEF now
    <3> QED BY <1>2, <2>2, <3>1, <3>2 DEF AutoInv, Gives
  <2>6. InAuto(vals)'
    <3>1. rest' = <<>>
      <4>1. old_vals_lines(Trees[tree], vals)' = now'
        BY DEF old_vals_lines, Now, autoconf_lines
      <4> QED BY <2>2, <2>3, <4>1 DEF _write_old_vals, _write_if_changed, _contents_eq, AutoConf
    <3> QED BY <1>3, <1>10, <2>1, <2>2, <2>3, <2>4, <3>1 DEF InAuto, InFill
  <2> QED BY <1>2, <1>3, <1>4, <1>5, <1>10, <2>2, <2>3, <2>4, <2>5, <2>6 DEF DepInv, Syncing
<1> QED BY <1>6, <1>7, <1>8, <1>9, <1>10 DEF DepInv, Syncing

LEMMA DepCrash == DepInv /\ Crash => DepInv'
<1> DEFINE op == IF proc.todo = <<>> THEN <<"none">> ELSE Head(proc.todo)
           vals == proc.vals
<1> SUFFICES ASSUME DepInv, Crash
             PROVE  DepInv'
  OBVIOUS
<1>1. /\ Directory /\ AutoInv /\ (Whole => Agrees(AutoConf)) /\ ~synced
  BY DEF DepInv, Crash
<1>2. /\ tree' = tree /\ compiled' = compiled /\ blind' = blind /\ torn' = torn /\ ~synced'
      /\ proc' = Idle
  BY <1>1 DEF Crash, ghosts
<1>3. \/ files' = files
      \/ op[1] = "fill" /\ \E c : files' = [files EXCEPT ![op[2]] = c]
  BY DEF Crash
<1>4. touched \subseteq touched'
  BY DEF Crash
<1>5. op[1] = "fill" => op[2] # "auto.conf" \/ ~Whole
  <2>1. CASE proc.todo = <<>>
    BY <2>1
  <2>2. CASE proc.todo # <<>> /\ proc.tool # "genconfig"
    <3>1. Aside(op)
      BY <2>2, Rest DEF DepInv, AllAside
    <3> QED BY <3>1 DEF Aside
  <2>3. CASE /\ proc.todo # <<>> /\ proc.tool = "genconfig"
             /\ InHeader(vals) \/ InTouch(vals) \/ InAuto(vals)
    <3> DEFINE names == ToTouch(Trees[tree], OldVals, vals)
               rest == _write_old_vals(vals)
               s == sync_deps(vals)
               now == Now(vals)
               a == <<"open", "autoconf.h">>
               b == <<"fill", "autoconf.h", now>>
               t == <<"touch", names>>
               c == <<"open", "auto.conf">>
               d == <<"fill", "auto.conf", now>>
               T == {a, b, t, c, d}
    <3>1. /\ a \in T /\ b \in T /\ t \in T /\ rest \in Seq(T) /\ s \in Seq(T)
          /\ rest \in {<<>>, <<c, d>>}
      BY SyncCalls
    <3>2. \/ proc.todo = <<a, b>> \o s \/ proc.todo = <<b>> \o s
          \/ proc.todo = <<t>> \o rest \/ proc.todo = <<c, d>>
      BY <2>3, <3>1 DEF InHeader, InTouch, InAuto
    <3>3. op \in {a, b, t, c}
      <4> HIDE DEF a, b, t, c, d, s, rest, T
      <4>1. /\ Head(<<a, b>> \o s) = a /\ Head(<<b>> \o s) = b /\ Head(<<t>> \o rest) = t
            /\ Head(<<c, d>>) = c
        <5>1. Head(<<a, b>> \o s) = a
          BY <3>1, Twofold
        <5>2. Head(<<b>> \o s) = b
          BY <3>1, Onefold
        <5>3. Head(<<t>> \o rest) = t
          BY <3>1, Onefold
        <5> QED BY <5>1, <5>2, <5>3
      <4> QED BY <2>3, <3>2, <4>1
    <3> HIDE DEF op
    <3> QED BY <3>3
  <2>4. CASE ~Whole
    BY <2>4
  <2> HIDE DEF op
  <2> QED BY <2>1, <2>2, <2>3, <2>4 DEF DepInv, Syncing
<1> HIDE DEF op
<1>6. Directory'
  <2>1. DOMAIN files' = DOMAIN files
    BY <1>3
  <2> QED BY <1>1, <1>2, <2>1 DEF Directory, Idle
<1>7. Whole' => Whole /\ AutoConf' = AutoConf
  BY <1>1, <1>2, <1>3, <1>5 DEF Whole, AutoConf, Directory, Outputs
<1>8. AutoInv' /\ (Whole' => Agrees(AutoConf)')
  BY <1>1, <1>2, <1>4, <1>7 DEF AutoInv, Gives, Agrees, StillNamed
<1>9. proc'.tool # "genconfig" /\ AllAside(proc'.todo)
  BY <1>2, NothingLeft DEF Idle
<1> QED BY <1>2, <1>6, <1>8, <1>9 DEF DepInv

LEMMA DepExit == DepInv /\ Exit => DepInv'
<1> SUFFICES ASSUME DepInv, Exit
             PROVE  DepInv'
  OBVIOUS
<1> DEFINE vals == proc.vals
<1>1. /\ Directory /\ AutoInv /\ (Whole => Agrees(AutoConf))
      /\ tree' = tree /\ files' = files /\ compiled' = compiled /\ touched' = touched
      /\ blind' = blind /\ torn' = torn /\ proc' = Idle /\ proc.todo = <<>>
      /\ synced' = (proc.tool = "genconfig")
  BY DEF DepInv, Exit, ghosts
<1>2. Directory' /\ AutoInv' /\ (Whole' => Agrees(AutoConf)')
  BY <1>1 DEF Directory, Idle, AutoInv, Gives, Agrees, AutoConf, StillNamed, Whole
<1>3. proc'.tool # "genconfig" /\ AllAside(proc'.todo) /\ ~Running'
  BY <1>1, NothingLeft DEF Idle, Running
<1>4. CASE synced'
  <2>1. proc.tool = "genconfig" /\ Syncing(vals)
    BY <1>1, <1>4 DEF DepInv
  <2> DEFINE names == ToTouch(Trees[tree], OldVals, vals)
             rest == _write_old_vals(vals)
             s == sync_deps(vals)
             now == Now(vals)
             a == <<"open", "autoconf.h">>
             b == <<"fill", "autoconf.h", now>>
             t == <<"touch", names>>
             d == <<"fill", "auto.conf", now>>
             T == {a, b, t, <<"open", "auto.conf">>, d}
  <2>2. /\ a \in T /\ b \in T /\ t \in T /\ rest \in Seq(T) /\ s \in Seq(T)
        /\ (AutoConf = now \/ rest # <<>>)
    <3> DEFINE c == <<"open", "auto.conf">>
    <3>1. /\ a \in T /\ b \in T /\ t \in T /\ rest \in Seq(T) /\ s \in Seq(T)
          /\ (AutoConf = now \/ rest = <<c, d>>)
      BY SyncCalls
    <3> HIDE DEF a, b, t, c, d, s, rest, T, now
    <3>2. <<c, d>> # <<>>
      OBVIOUS
    <3> QED BY <3>1, <3>2
  <2>3. \/ proc.todo = <<a, b>> \o s \/ proc.todo = <<b>> \o s
        \/ proc.todo = <<t>> \o rest \/ proc.todo = <<d>>
        \/ proc.todo = rest /\ files["autoconf.h"] = now /\ (blind \/ Whole)
    BY <2>1 DEF Syncing, InHeader, InTouch, InAuto, InFill
  <2>4. proc.todo = rest /\ files["autoconf.h"] = now /\ (blind \/ Whole)
    <3> HIDE DEF a, b, t, d, s, rest, T, now
    <3>1. <<a, b>> \o s # <<>>
      BY <2>2, Twofold
    <3>2. <<b>> \o s # <<>>
      BY <2>2, Onefold
    <3>3. <<t>> \o rest # <<>>
      BY <2>2, Onefold
    <3>4. <<d>> # <<>>
      OBVIOUS
    <3> QED BY <1>1, <2>3, <3>1, <3>2, <3>3, <3>4
  <2>5. files["autoconf.h"] = AutoConf /\ (blind \/ Whole)
    BY <1>1, <2>2, <2>4
  <2> QED BY <1>1, <1>2, <1>3, <2>5 DEF DepInv, AutoConf, Whole
<1>5. CASE ~synced'
  BY <1>2, <1>3, <1>5 DEF DepInv
<1> QED BY <1>4, <1>5

LEMMA DepSync ==
  ASSUME DepInv, NEW vals \in ValsOf(Trees[tree]), Sync(vals)
  PROVE  DepInv'
<1> DEFINE todo == write_autoconf(vals) \o sync_deps(vals)
           now == Now(vals)
<1>1. Directory /\ AutoInv /\ (Whole => Agrees(AutoConf))
  BY DEF DepInv
<1>2. /\ tree' = tree /\ files' = files /\ compiled' = compiled /\ touched' = touched
      /\ torn' = torn /\ ~synced'
      /\ proc' = [tool |-> "genconfig", vals |-> vals, todo |-> todo]
  BY DEF Sync, Start
<1>3. (blind => blind') /\ (~Whole => blind')
  <2>1. blind' = (blind \/ "auto.conf" \in torn)
    BY DEF Sync
  <2> QED BY <2>1, Zenon DEF Whole
<1> HIDE DEF todo
<1>4. proc'.tool = "genconfig" /\ proc'.vals = vals /\ proc'.todo = todo
      /\ DOMAIN proc' = {"tool", "vals", "todo"}
  BY <1>2
<1>5. Directory' /\ AutoInv' /\ (Whole' => Agrees(AutoConf)')
  BY <1>1, <1>2, <1>3, <1>4
  DEF Directory, AutoInv, Gives, Agrees, AutoConf, StillNamed, Whole
<1>6. now' = now /\ sync_deps(vals)' = sync_deps(vals)
  BY <1>2, SyncSame
<1>7. CASE files["autoconf.h"] # now
  <2>1. todo = << <<"open", "autoconf.h">>, <<"fill", "autoconf.h", now>> >> \o sync_deps(vals)
    BY <1>7 DEF todo, write_autoconf, _write_if_changed, _contents_eq, Now
  <2>2. InHeader(vals)'
    <3> DEFINE s == sync_deps(vals)
    <3> HIDE DEF s, now
    <3> QED BY <1>4, <1>6, <2>1 DEF InHeader, now, s
  <2>3. Syncing(vals)'
    BY <1>2, <1>3, <2>2 DEF Syncing, Whole
  <2> QED BY <1>2, <1>4, <1>5, <2>3 DEF DepInv
<1>8. CASE files["autoconf.h"] = now
  <2>1. todo = sync_deps(vals)
    <3>1. todo = <<>> \o sync_deps(vals)
      BY <1>8 DEF todo, write_autoconf, _write_if_changed, _contents_eq, Now
    <3> DEFINE T == {<<"open", "autoconf.h">>, <<"fill", "autoconf.h", Now(vals)>>,
                     <<"touch", ToTouch(Trees[tree], OldVals, vals)>>,
                     <<"open", "auto.conf">>, <<"fill", "auto.conf", Now(vals)>>}
    <3>2. sync_deps(vals) \in Seq(T)
      BY SyncCalls
    <3> HIDE DEF T
    <3> QED BY <3>1, <3>2, ConcatEmptySeq
  <2>2. InTouch(vals)' \/ InAuto(vals)'
    <3>1. CASE blind \/ Whole
      BY <1>1, <1>2, <1>3, <1>4, <1>8, <2>1, <3>1, HeaderWritten
    <3>2. CASE blind'
      <4>1. /\ _write_old_vals(vals)' = _write_old_vals(vals)
            /\ ToTouch(Trees[tree], OldVals, vals)' = ToTouch(Trees[tree], OldVals, vals)
        BY <1>2, SyncSame
      <4>2. CASE ToTouch(Trees[tree], OldVals, vals) = <<>>
        <5>1. proc'.todo = _write_old_vals(vals)
          BY <1>4, <2>1, <4>2, SyncCalls
        <5> QED BY <1>2, <1>6, <1>8, <3>2, <4>1, <5>1 DEF InAuto, Agrees
      <4>3. CASE ToTouch(Trees[tree], OldVals, vals) # <<>>
        <5>1. proc'.todo =
                << <<"touch", ToTouch(Trees[tree], OldVals, vals)>> >> \o _write_old_vals(vals)
          BY <1>4, <2>1, <4>3, SyncCalls
        <5> QED BY <1>2, <1>6, <1>8, <4>1, <5>1 DEF InTouch
      <4> QED BY <4>2, <4>3
    <3> QED BY <1>3, <3>1, <3>2
  <2>3. Syncing(vals)'
    BY <1>2, <1>3, <2>2 DEF Syncing, Whole
  <2> QED BY <1>2, <1>4, <1>5, <2>3 DEF DepInv
<1> QED BY <1>7, <1>8

LEMMA WritesAside ==
  ASSUME NEW f \in {".config", "merged"}, NEW vals, NEW syms
  PROVE  AllAside(write_config(f, vals)) /\ AllAside(write_min_config(vals, syms))
<1> DEFINE lines == config_lines(Trees[tree], vals)
           all == << <<"rename", f>>, <<"open", f>>, <<"fill", f, lines>> >>
           min == LinesOf(Trees[tree], vals, syms)
<1>1. AllAside(write_config(f, vals))
  <2>1. write_config(f, vals) = <<>> \/ write_config(f, vals) = all
    BY WriteConfig
  <2>2. AllAside(all)
    <3> HIDE DEF lines
    <3> DEFINE T == { <<"rename", f>>, <<"open", f>>, <<"fill", f, lines>> }
    <3>1. all \in Seq(T) /\ \A op \in T : Aside(op)
      BY DEF Aside
    <3> HIDE DEF T, all
    <3> QED BY <3>1, Own DEF AllAside
  <2> HIDE DEF all
  <2> QED BY <2>1, <2>2, NothingLeft
<1>2. AllAside(write_min_config(vals, syms))
  <2> DEFINE T == {<<"open", "min">>, <<"fill", "min", min>>}
  <2>1. write_min_config(vals, syms) \in Seq(T)
    BY WriteFile DEF write_min_config
  <2> HIDE DEF min
  <2>2. \A op \in T : Aside(op)
    BY DEF Aside
  <2> HIDE DEF T
  <2> QED BY <2>1, <2>2, Own DEF AllAside
<1> QED BY <1>1, <1>2

LEMMA DepTool ==
  ASSUME DepInv, NEW tool, tool # "genconfig", NEW vals, NEW todo, AllAside(todo),
         Start(tool, vals, todo), UNCHANGED blind
  PROVE  DepInv'
<1>1. Directory
  BY DEF DepInv
<1>2. /\ tree' = tree /\ files' = files /\ compiled' = compiled /\ touched' = touched
      /\ torn' = torn /\ ~synced' /\ proc' = [tool |-> tool, vals |-> vals, todo |-> todo]
  BY DEF Start
<1>3. proc'.tool = tool /\ proc'.todo = todo /\ DOMAIN proc' = {"tool", "vals", "todo"}
  BY <1>2
<1>4. Directory'
  BY <1>1, <1>2, <1>3 DEF Directory
<1>5. Whole' => Whole
  BY <1>2 DEF Whole
<1> QED BY <1>2, <1>3, <1>4, <1>5, DepAside

LEMMA DepAsked ==
  ASSUME DepInv, NEW vals, Asked(vals)
  PROVE  DepInv'
<1> DEFINE todo == write_config(".config", vals)
<1>1. Directory /\ proc.tool = "oldconfig"
  BY DEF DepInv, Asked
<1>2. /\ tree' = tree /\ files' = files /\ compiled' = compiled /\ touched' = touched
      /\ torn' = torn /\ synced' = synced /\ blind' = blind
      /\ proc' = [proc EXCEPT !.vals = vals, !.todo = todo]
  BY DEF Asked, ghosts
<1>3. AllAside(todo)
  BY WritesAside
<1> HIDE DEF todo
<1>4. proc'.tool = "oldconfig" /\ proc'.todo = todo /\ DOMAIN proc' = {"tool", "vals", "todo"}
  BY <1>1, <1>2 DEF Directory
<1>5. Directory'
  BY <1>1, <1>2, <1>4 DEF Directory
<1>6. Whole' => Whole
  BY <1>2 DEF Whole
<1>7. ~synced'
  <2>1. Running
    BY <1>1 DEF Running, Idle
  <2> QED BY <1>2, <2>1 DEF DepInv
<1> QED BY <1>2, <1>3, <1>4, <1>5, <1>6, <1>7, DepAside

LEMMA DepEdit == DepInv /\ EditConfig => DepInv'
<1> SUFFICES ASSUME DepInv, EditConfig
             PROVE  DepInv'
  OBVIOUS
<1>1. /\ Directory /\ proc = Idle /\ proc' = proc /\ tree' = tree /\ compiled' = compiled
      /\ touched' = touched /\ blind' = blind /\ torn' = torn \ {".config"} /\ ~synced'
  BY DEF DepInv, EditConfig, Editing, Running
<1>2. PICK c : files' = [files EXCEPT ![".config"] = c]
  BY DEF EditConfig
<1>3. DOMAIN files' = DOMAIN files /\ files'["auto.conf"] = files["auto.conf"]
  BY <1>1, <1>2 DEF Directory, Outputs
<1>4. Directory' /\ (Whole' => Whole)
  BY <1>1, <1>3 DEF Directory, Whole
<1>5. proc'.tool # "genconfig" /\ AllAside(proc'.todo)
  BY <1>1, NothingLeft DEF Idle
<1> QED BY <1>1, <1>3, <1>4, <1>5, DepAside

\* A later version names, or does not define, no fewer symbols.
LEMMA DepNewTree == DepInv /\ EditKconfig => DepInv'
<1> SUFFICES ASSUME DepInv, EditKconfig
             PROVE  DepInv'
  OBVIOUS
<1>1. /\ Directory /\ AutoInv /\ (Whole => Agrees(AutoConf)) /\ proc = Idle /\ proc' = proc
      /\ tree' = tree + 1 /\ tree < Len(Trees) /\ files' = files /\ compiled' = compiled
      /\ touched' = touched /\ blind' = blind /\ torn' = torn /\ ~synced'
  BY DEF DepInv, EditKconfig, Editing, Running, ghosts
<1>2. tree \in Nat /\ tree' \in DOMAIN Trees /\ \A u \in 1..tree : u \in 1..tree'
  BY <1>1, StoreAssumption DEF Directory
<1>3. StillNamed \subseteq StillNamed'
  BY <1>2 DEF StillNamed
<1>4. AutoInv'
  BY <1>1, <1>2 DEF AutoInv, Gives, Whole, AutoConf
<1>5. Whole' => Agrees(AutoConf)'
  BY <1>1, <1>3 DEF Agrees, AutoConf, Whole
<1>6. Directory' /\ proc'.tool # "genconfig" /\ AllAside(proc'.todo)
  BY <1>1, <1>2, NothingLeft DEF Directory, Idle
<1> QED BY <1>1, <1>4, <1>5, <1>6 DEF DepInv

LEMMA DepBuild == DepInv /\ Build => DepInv'
<1> SUFFICES ASSUME DepInv, Build
             PROVE  DepInv'
  OBVIOUS
<1>1. /\ Directory /\ AutoInv /\ (Whole => Agrees(AutoConf)) /\ proc = Idle /\ proc' = proc
      /\ (blind \/ Whole) /\ files["autoconf.h"] = AutoConf
      /\ tree' = tree /\ files' = files /\ touched' = {} /\ blind' = blind /\ torn' = torn
      /\ ~synced'
      /\ compiled' = [i \in Names |-> IF compiled = Absent \/ i \in touched THEN Header[i]
                                      ELSE compiled[i]]
  BY DEF DepInv, Build, Running, ghosts
<1>2. \A i \in Names : Header[i] = OldVal(i, AutoConf)
  BY <1>1 DEF Header
<1>3. Agrees(AutoConf)'
  BY <1>1, <1>2 DEF Agrees, AutoConf, StillNamed
<1>4. AutoInv'
  BY <1>1 DEF AutoInv, Gives, Whole, AutoConf
<1>5. Directory' /\ proc'.tool # "genconfig" /\ AllAside(proc'.todo)
  BY <1>1, NothingLeft DEF Directory, Idle
<1> QED BY <1>1, <1>3, <1>4, <1>5 DEF DepInv

LEMMA DepStutter == DepInv /\ UNCHANGED storeVars => DepInv'
<1> SUFFICES ASSUME DepInv, UNCHANGED storeVars
             PROVE  DepInv'
  OBVIOUS
<1>1. UNCHANGED <<tree, files, proc, touched, compiled, synced, torn, blind>>
  BY DEF storeVars, ghosts
<1> QED BY <1>1
  DEF DepInv, Directory, AutoInv, Gives, Agrees, AutoConf, Whole, StillNamed, Running,
      Syncing, InHeader, InTouch, InAuto, InFill, Now, sync_deps, _write_old_vals,
      _write_if_changed, _contents_eq, OldVals

LEMMA DepStep == DepInv /\ [StoreNext]_storeVars => DepInv'
<1> SUFFICES ASSUME DepInv, [StoreNext]_storeVars
             PROVE  DepInv'
  OBVIOUS
<1>1. ASSUME NEW vals, NEW tool \in Savers, NEW f \in {".config", "merged"}, SaveAs(tool, f, vals)
      PROVE  DepInv'
  <2>1. tool # "genconfig"
    BY DEF Savers
  <2> QED BY <1>1, <2>1, WritesAside, DepTool DEF SaveAs
<1>2. ASSUME NEW vals, NEW syms, SaveMin(vals, syms)
      PROVE  DepInv'
  <2>1. AllAside(write_min_config(vals, syms))
    BY WritesAside
  <2> QED BY <1>2, <2>1, DepTool DEF SaveMin
<1>3. CASE Ask
  BY <1>3, NothingLeft, DepTool DEF Ask
<1> QED BY <1>1, <1>2, <1>3, DepSync, DepAsked, DepCalls, DepExit, DepCrash, DepEdit, DepNewTree,
           DepBuild, DepStutter DEF StoreNext

\* ChangesNoticed: after genconfig --sync-deps every symbol whose value is not the one the
\* objects were compiled with has been touched, wherever earlier runs were killed.
THEOREM ChangesNoticed == StoreSpec => []DepTouched
<1>1. DepInv => DepTouched
  <2> SUFFICES ASSUME DepInv, synced, compiled # Absent, ~blind,
                      NEW i \in Names \ (touched \cup StillNamed)
               PROVE  compiled[i] = Header[i]
    BY DEF DepTouched
  <2>1. Whole /\ Agrees(AutoConf) /\ files["autoconf.h"] = AutoConf
    BY DEF DepInv
  <2> QED BY <2>1 DEF Agrees, Header
<1> QED BY <1>1, DepStarts, DepStep, PTL DEF StoreSpec
=============================================================================
