-------------------------- MODULE PluginCatalogProofs --------------------------
(***************************************************************************)
(* What resolve() returns, for every set of manifests: the least           *)
(* dependency-first order of all ids, or an error it had reason to raise.  *)
(* And what validate() makes of it: no code of a broken set is imported,   *)
(* and nothing is loaded without the ground it stands on.                  *)
(***************************************************************************)
EXTENDS PluginCatalog, FiniteSetTheorems, TLAPS

-----------------------------------------------------------------------------
(* The resolver.                                                           *)

\* The sort, with every variable in its range.
ResolverInvariant == TypeOK /\ SortInvariant

\* The ids and their declared dependencies form finite sets.
LEMMA Finiteness ==
    ASSUME TypeOK
    PROVE  /\ by_id \subseteq Ids /\ IsFiniteSet(by_id)
           /\ requires \in [Ids -> SUBSET Ids]
           /\ \A p \in by_id : requires[p] \subseteq Ids /\ IsFiniteSet(requires[p])
  <1>1. /\ manifests \in [ids : SUBSET Ids, requires : [Ids -> SUBSET Ids],
                          rejects : SUBSET (Ids \X Ids)]
        /\ IsFiniteSet(Ids)
    BY CatalogsAssumption DEF TypeOK
  <1>2. by_id \subseteq Ids /\ requires \in [Ids -> SUBSET Ids]
    BY <1>1 DEF by_id, requires
  <1>3. \A p \in by_id : requires[p] \subseteq Ids
    BY <1>2
  <1> QED
    BY <1>1, <1>2, <1>3, FS_Subset

\* A non-empty set of positions has a least one.
LEMMA LeastPosition ==
    ASSUME NEW n \in Nat, NEW T \in SUBSET (1..n), T # {}
    PROVE  \E i \in T : \A j \in T : i <= j
  <1> DEFINE A == {1..i : i \in T}
             R == StrictSubsetOrdering(1..n)
  <1>1. IsFiniteSet(1..n)
    BY FS_Interval
  <1>2. A \subseteq FiniteSubsetsOf(1..n) /\ A # {}
    <2>1. \A i \in T : 1..i \in SUBSET (1..n)
      OBVIOUS
    <2>2. FiniteSubsetsOf(1..n) = SUBSET (1..n)
      BY <1>1, FS_FiniteSubsetsOfFinite
    <2>3. A \subseteq SUBSET (1..n)
      BY <2>1
    <2>4. PICK i \in T : TRUE
      OBVIOUS
    <2>5. 1..i \in A
      BY <2>4
    <2> QED
      BY <2>2, <2>3, <2>5
  <1>3. \E x \in A : \A y \in A : <<y, x>> \notin R
    BY <1>2, FS_StrictSubsetOrderingWellFounded, WFMin
  <1>4. PICK i \in T : \A j \in T : <<1..j, 1..i>> \notin R
    BY <1>3
  <1>5. \A j \in T : j < i => <<1..j, 1..i>> \in R
    <2>1. ASSUME NEW j \in T, j < i
          PROVE  1..j \subseteq 1..i /\ 1..j # 1..i /\ 1..i \in SUBSET (1..n)
                 /\ 1..j \in SUBSET (1..n)
      <3>1. i \in 1..i /\ i \notin 1..j
        BY <2>1
      <3> QED
        BY <2>1, <3>1
    <2> QED
      BY <2>1 DEF StrictSubsetOrdering
  <1>6. \A j \in T : i <= j
    <2> HIDE DEF R
    <2>1. \A j \in T : ~(j < i)
      BY <1>4, <1>5
    <2>2. \A j \in T : j \in Nat
      OBVIOUS
    <2> QED
      BY <2>1, <2>2
  <1> QED
    BY <1>6

\* A result without repetition that is as long as the ids are many holds them all,
\* and the other way round.
LEMMA LengthTells ==
    ASSUME ResolverInvariant,
           \A i, j \in DOMAIN result : result[i] = result[j] => i = j
    PROVE  Len(result) = Cardinality(by_id) <=> Items(result) = by_id
  <1> DEFINE n == Len(result)
  <1>1. n \in Nat /\ DOMAIN result = 1..n /\ result \in [1..n -> by_id]
    BY DEF ResolverInvariant, TypeOK
  <1>2. result \in Injection(1..n, by_id)
    BY <1>1 DEF Injection, IsInjective
  <1>3. Cardinality(1..n) = n
    BY <1>1, FS_Interval
  <1>4. Cardinality(1..n) = Cardinality(by_id) <=> result \in Surjection(1..n, by_id)
    <2>1. IsFiniteSet(by_id)
      BY Finiteness DEF ResolverInvariant
    <2> QED
      BY <1>2, <2>1, FS_Injection
  <1>5. result \in Surjection(1..n, by_id) <=> Items(result) = by_id
    BY <1>1 DEF Surjection, Items
  <1> QED
    BY <1>3, <1>4, <1>5

\* The first call finds nothing sorted yet.
LEMMA InitEstablishes ==
    Init => ResolverInvariant
  <1> SUFFICES ASSUME Init PROVE ResolverInvariant
    OBVIOUS
  <1>1. TypeOK
    BY DEF Init, TypeOK, Stages
  <1>2. SortInvariant
    BY DEF Init, SortInvariant
  <1> QED
    BY <1>1, <1>2 DEF ResolverInvariant

\* The counters and the heap are right when the sort begins.
LEMMA BeginSortKeeps ==
    ASSUME ResolverInvariant, BeginSort
    PROVE  ResolverInvariant'
  <1> USE DEF ResolverInvariant
  <1>1. /\ by_id' = by_id /\ requires' = requires /\ Faults' = Faults
        /\ result' = <<>> /\ Items(result') = {} /\ stage' = "sorting"
    BY DEF BeginSort, by_id, requires, Faults, Items
  <1>2. \A p \in by_id : /\ Cardinality(requires[p]) \in Nat
                         /\ Cardinality(requires[p]) = 0 <=> requires[p] = {}
    BY Finiteness, FS_CardinalityType, FS_EmptySet
  <1>3. TypeOK'
    BY <1>1, <1>2 DEF BeginSort, TypeOK, Stages
  <1>4. heap' = {p \in by_id \ {} : requires[p] \subseteq {}}
    BY <1>2 DEF BeginSort
  <1>5. \A p \in by_id : indegree'[p] = Cardinality(requires[p] \ {})
    BY DEF BeginSort
  <1>6. /\ \A i, j \in DOMAIN result' : result'[i] = result'[j] => i = j
        /\ \A i \in DOMAIN result' : \A d \in requires[result'[i]] :
              \E j \in DOMAIN result' : j < i /\ result'[j] = d
    BY <1>1
  <1>7. Faults = {}
    BY DEF BeginSort
  <1>8. SortInvariant'
    <2>1. \A p \in by_id' : indegree'[p] = Cardinality(requires'[p] \ Items(result'))
      BY <1>1, <1>5
    <2>2. heap' = {p \in by_id' \ Items(result') : requires'[p] \subseteq Items(result')}
      BY <1>1, <1>4
    <2>3. Faults' = {} /\ stage' = "sorting"
      BY <1>1, <1>7
    <2>4. \A i \in DOMAIN result' : \A d \in requires'[result'[i]] :
              \E j \in DOMAIN result' : j < i /\ result'[j] = d
      BY <1>1, <1>6
    <2> QED
      BY <2>1, <2>2, <2>3, <2>4, <1>6 DEF SortInvariant
  <1> QED
    BY <1>3, <1>8

\* Moving an id of the heap to the result keeps the counters and the heap right.
LEMMA PopKeeps ==
    ASSUME ResolverInvariant, Pop
    PROVE  ResolverInvariant'
  <1> USE DEF ResolverInvariant
  <1>1. PICK p \in heap : Take(p)
    BY DEF Pop
  <1> DEFINE n == Len(result)
             S == Items(result)
  <1>2. /\ stage = "sorting" /\ stage' = "sorting" /\ manifests' = manifests
        /\ by_id' = by_id /\ requires' = requires /\ Faults' = Faults
        /\ cyclic' = cyclic
    BY DEF Pop, by_id, requires, Faults
  <1>3. /\ Faults = {}
        /\ \A q \in by_id : indegree[q] = Cardinality(requires[q] \ S)
        /\ heap = {q \in by_id \ S : requires[q] \subseteq S}
        /\ \A i, j \in DOMAIN result : result[i] = result[j] => i = j
        /\ \A i \in DOMAIN result :
              \A d \in requires[result[i]] : \E j \in DOMAIN result : j < i /\ result[j] = d
    BY <1>2 DEF SortInvariant
  <1>4. p \in by_id /\ p \notin S /\ requires[p] \subseteq S
    BY <1>3
  <1>5. p \notin requires[p]
    BY <1>4
  <1>6. /\ n \in Nat /\ DOMAIN result = 1..n /\ result \in [1..n -> by_id]
        /\ result' = Append(result, p) /\ result' \in Seq(by_id)
        /\ DOMAIN result' = 1..(n + 1)
        /\ \A i \in 1..n : result'[i] = result[i]
        /\ result'[n + 1] = p
    BY <1>1, <1>4 DEF TypeOK, Take
  <1>7. Items(result') = S \cup {p}
    BY <1>6 DEF Items
  <1>8. \A q \in by_id : /\ IsFiniteSet(requires[q] \ S)
                         /\ IsFiniteSet(requires[q] \ (S \cup {p}))
                         /\ Cardinality(requires[q] \ S) \in Nat
                         /\ Cardinality(requires[q] \ (S \cup {p})) \in Nat
    <2>1. ASSUME NEW q \in by_id
          PROVE  IsFiniteSet(requires[q] \ S) /\ IsFiniteSet(requires[q] \ (S \cup {p}))
      <3>1. IsFiniteSet(requires[q])
        BY Finiteness
      <3>2. /\ requires[q] \ S \in SUBSET requires[q]
            /\ requires[q] \ (S \cup {p}) \in SUBSET requires[q]
        OBVIOUS
      <3> QED
        BY <3>1, <3>2, FS_Subset
    <2> QED
      BY <2>1, FS_CardinalityType
  <1>9. \A q \in by_id : indegree'[q] = Cardinality(requires[q] \ (S \cup {p}))
    <2> SUFFICES ASSUME NEW q \in by_id
                 PROVE  indegree'[q] = Cardinality(requires[q] \ (S \cup {p}))
      OBVIOUS
    <2>1. indegree'[q] = IF p \in requires[q] THEN indegree[q] - 1 ELSE indegree[q]
      BY <1>1, <1>2 DEF Take
    <2>2. requires[q] \ (S \cup {p}) = (requires[q] \ S) \ {p}
      OBVIOUS
    <2>3. p \in requires[q] \ S <=> p \in requires[q]
      BY <1>4
    <2>4. Cardinality((requires[q] \ S) \ {p}) =
              IF p \in requires[q] \ S THEN Cardinality(requires[q] \ S) - 1
                                       ELSE Cardinality(requires[q] \ S)
      BY <1>8, FS_RemoveElement
    <2>5. indegree[q] = Cardinality(requires[q] \ S)
      BY <1>3
    <2> QED
      BY <2>1, <2>2, <2>3, <2>4, <2>5
  <1>10. heap' = {q \in by_id \ (S \cup {p}) : requires[q] \subseteq S \cup {p}}
    <2>1. heap' = (heap \ {p}) \cup
                    {q \in by_id : p \in requires[q] /\ indegree'[q] = 0}
      <3>1. \A q \in by_id : indegree'[q] =
                IF p \in requires[q] THEN indegree[q] - 1 ELSE indegree[q]
        BY <1>1 DEF Take
      <3> QED
        BY <1>1, <3>1 DEF Take
    <2>2. \A q \in by_id : indegree'[q] = 0 <=> requires[q] \subseteq S \cup {p}
      BY <1>9, <1>8, FS_EmptySet
    <2>3. \A q \in by_id : p \in requires[q] => q \notin S \cup {p}
      <3>1. ASSUME NEW q \in S PROVE p \notin requires[q]
        BY <1>3, <1>4, <1>6 DEF Items
      <3> QED
        BY <3>1, <1>5
    <2>4. \A q \in by_id : p \notin requires[q] =>
              (requires[q] \subseteq S \cup {p} <=> requires[q] \subseteq S)
      OBVIOUS
    <2> QED
      BY <2>1, <2>2, <2>3, <2>4, <1>3
  <1>11. \A i, j \in DOMAIN result' : result'[i] = result'[j] => i = j
    <2>1. \A i \in 1..n : result'[i] # p
      BY <1>4, <1>6 DEF Items
    <2> QED
      BY <2>1, <1>3, <1>6
  <1>12. \A i \in DOMAIN result' :
            \A d \in requires[result'[i]] : \E j \in DOMAIN result' : j < i /\ result'[j] = d
    <2>1. \A i \in 1..n : \A d \in requires[result'[i]] :
              \E j \in 1..(n + 1) : j < i /\ result'[j] = d
      BY <1>3, <1>6
    <2>2. \A d \in requires[p] : \E j \in 1..(n + 1) : j < n + 1 /\ result'[j] = d
      BY <1>4, <1>6 DEF Items
    <2> QED
      BY <2>1, <2>2, <1>6
  <1>13. TypeOK'
    <2>1. indegree' \in [by_id -> Nat]
      <3>1. indegree' = [q \in by_id |-> indegree'[q]]
        BY <1>1 DEF Take
      <3> QED
        BY <3>1, <1>8, <1>9
    <2> QED
      BY <2>1, <1>2, <1>6, <1>10 DEF TypeOK
  <1>14. SortInvariant'
    BY <1>2, <1>3, <1>7, <1>9, <1>10, <1>11, <1>12 DEF SortInvariant
  <1> QED
    BY <1>13, <1>14

\* The last steps leave the sort as it is.
LEMMA FinishKeeps ==
    ASSUME ResolverInvariant, Finish
    PROVE  ResolverInvariant'
  <1> USE DEF ResolverInvariant
  <1>1. /\ by_id' = by_id /\ requires' = requires /\ Faults' = Faults
        /\ result' = result /\ Items(result') = Items(result)
        /\ stage = "sorting" /\ heap = {} /\ heap' = {} /\ indegree' = indegree
        /\ stage' \in {"done", "cycle"}
        /\ stage' = "done" <=> Len(result) = Cardinality(by_id)
    BY DEF Finish, by_id, requires, Faults, Items
  <1>2. TypeOK'
    BY <1>1 DEF Finish, TypeOK, Stages, Errors
  <1>3. SortInvariant'
    BY <1>1 DEF SortInvariant
  <1> QED
    BY <1>2, <1>3

\* Every step of resolve() keeps the invariant.
LEMMA NextPreserves ==
    ResolverInvariant /\ [Next]_resolverVars => ResolverInvariant'
  <1> SUFFICES ASSUME ResolverInvariant, [Next]_resolverVars
               PROVE  ResolverInvariant'
    OBVIOUS
  <1>1. CASE Reject
    <2>1. stage' \in Errors /\ stage' # "cycle"
      BY <1>1 DEF Reject, Faults, Errors
    <2>2. TypeOK'
      BY <1>1, <2>1 DEF Reject, ResolverInvariant, TypeOK, Stages, by_id
    <2>3. SortInvariant'
      BY <2>1 DEF SortInvariant, Errors
    <2> QED
      BY <2>2, <2>3 DEF ResolverInvariant
  <1>2. CASE BeginSort
    BY <1>2, BeginSortKeeps
  <1>3. CASE Pop
    BY <1>3, PopKeeps
  <1>4. CASE Finish
    BY <1>4, FinishKeeps
  <1>5. CASE UNCHANGED resolverVars
    <2>1. /\ manifests' = manifests /\ stage' = stage /\ indegree' = indegree
          /\ heap' = heap /\ result' = result /\ cyclic' = cyclic
          /\ by_id' = by_id /\ requires' = requires
      BY <1>5 DEF resolverVars, by_id, requires
    <2>2. Faults' = Faults
      BY <2>1 DEF Faults
    <2>3. TypeOK'
      BY <2>1 DEF ResolverInvariant, TypeOK
    <2>4. SortInvariant'
      BY <2>1, <2>2 DEF ResolverInvariant, SortInvariant
    <2> QED
      BY <2>3, <2>4 DEF ResolverInvariant
  <1> QED
    BY <1>1, <1>2, <1>3, <1>4, <1>5 DEF Next, Resolve

\* The invariant of Kahn's sort, for every set of manifests.
THEOREM ResolverInvariantHolds ==
    Spec => []ResolverInvariant
  <1> QED
    BY InitEstablishes, NextPreserves, PTL DEF Spec

\* Every variable of resolve() stays in its range; no counter falls below zero.
THEOREM ResolverTypeCorrect ==
    Spec => []TypeOK
  <1>1. ResolverInvariant => TypeOK
    BY DEF ResolverInvariant
  <1> QED
    BY <1>1, ResolverInvariantHolds, PTL

\* The counters, the heap and the result agree at every step of the sort.
THEOREM SortIsRight ==
    Spec => []SortInvariant
  <1>1. ResolverInvariant => SortInvariant
    BY DEF ResolverInvariant
  <1> QED
    BY <1>1, ResolverInvariantHolds, PTL

\* What resolve() returns is an order the plugin manager can build on: every id
\* once, after all it depends on (OrderAssumption of PluginManager).
THEOREM OrderIsRight ==
    Spec => []OrderIsTopological
  <1>1. ResolverInvariant => OrderIsTopological
    <2> SUFFICES ASSUME ResolverInvariant, stage = "done"
                 PROVE  /\ Items(result) = by_id
                        /\ \A i, j \in DOMAIN result : result[i] = result[j] => i = j
                        /\ \A i \in DOMAIN result : \A d \in requires[result[i]] :
                              \E j \in DOMAIN result : j < i /\ result[j] = d
      BY DEF OrderIsTopological
    <2>1. /\ \A i, j \in DOMAIN result : result[i] = result[j] => i = j
          /\ \A i \in DOMAIN result : \A d \in requires[result[i]] :
                \E j \in DOMAIN result : j < i /\ result[j] = d
          /\ Len(result) = Cardinality(by_id)
      BY DEF ResolverInvariant, SortInvariant
    <2> QED
      BY <2>1, LengthTells
  <1> QED
    BY <1>1, ResolverInvariantHolds, PTL

\* Nothing in the result belongs to a set of ids none of which can go first.
LEMMA NoKnotInTheResult ==
    ASSUME ResolverInvariant, stage \in {"sorting", "done", "cycle"},
           NEW S \in SUBSET by_id, Knot(S)
    PROVE  S \cap Items(result) = {}
  <1> SUFFICES ASSUME S \cap Items(result) # {} PROVE FALSE
    OBVIOUS
  <1> DEFINE n == Len(result)
             T == {i \in 1..n : result[i] \in S}
  <1>1. /\ n \in Nat /\ DOMAIN result = 1..n
        /\ \A i \in DOMAIN result : \A d \in requires[result[i]] :
              \E j \in DOMAIN result : j < i /\ result[j] = d
    BY DEF ResolverInvariant, SortInvariant, TypeOK
  <1>2. T \in SUBSET (1..n) /\ T # {}
    <2>1. PICK p \in S : p \in Items(result)
      OBVIOUS
    <2>2. PICK k \in 1..n : result[k] = p
      BY <1>1, <2>1 DEF Items
    <2> QED
      BY <2>2
  <1>3. PICK i \in T : \A j \in T : i <= j
    <2>1. n \in Nat
      BY <1>1
    <2> HIDE DEF n, T
    <2> QED
      BY <2>1, <1>2, LeastPosition
  <1>4. PICK d \in S : d \in requires[result[i]]
    <2>1. result[i] \in S
      BY <1>3
    <2> QED
      BY <2>1 DEF Knot
  <1>5. PICK j \in 1..n : j < i /\ result[j] = d
    BY <1>1, <1>3, <1>4
  <1>6. j \in T
    BY <1>4, <1>5
  <1>7. i <= j /\ j < i /\ i \in Nat /\ j \in Nat
    BY <1>3, <1>5, <1>6
  <1> QED
    BY <1>7

\* What a cycle error leaves out of the result is such a set.
LEMMA RestIsAKnot ==
    ASSUME ResolverInvariant, stage = "cycle"
    PROVE  Knot(by_id \ Items(result))
  <1> DEFINE S == by_id \ Items(result)
  <1>1. /\ Faults = {} /\ heap = {}
        /\ heap = {p \in by_id \ Items(result) : requires[p] \subseteq Items(result)}
        /\ \A i, j \in DOMAIN result : result[i] = result[j] => i = j
        /\ Len(result) # Cardinality(by_id)
    BY DEF ResolverInvariant, SortInvariant
  <1>2. Items(result) \subseteq by_id
    BY DEF ResolverInvariant, TypeOK, Items
  <1>3. S # {}
    BY <1>1, <1>2, LengthTells
  <1>4. \A p \in by_id : requires[p] \subseteq by_id
    <2>1. SUFFICES ASSUME NEW p \in by_id, NEW d \in requires[p], d \notin by_id
                   PROVE  FALSE
      OBVIOUS
    <2>2. "missing" \in Faults
      BY <2>1 DEF Faults, Errors
    <2> QED
      BY <2>2, <1>1
  <1>5. \A p \in S : requires[p] \cap S # {}
    BY <1>1, <1>4
  <1> QED
    BY <1>3, <1>5 DEF Knot

\* An order is returned only of dependencies without such a set.
LEMMA NoKnotWhenDone ==
    ASSUME ResolverInvariant, stage = "done", NEW S \in SUBSET by_id
    PROVE  ~Knot(S)
  <1>1. Items(result) = by_id
    BY LengthTells DEF ResolverInvariant, SortInvariant
  <1> QED
    BY <1>1, NoKnotInTheResult DEF Knot

\* resolve() complains of a cycle exactly when the dependencies have one.
THEOREM CycleIsRight ==
    Spec => []CycleErrorIsRight
  <1>2. ResolverInvariant => CycleErrorIsRight
    BY NoKnotWhenDone, RestIsAKnot DEF CycleErrorIsRight
  <1> QED
    BY <1>2, ResolverInvariantHolds, PTL

\* The error names the ids that are on a cycle or behind one, and no other.
THEOREM CycleNamesAreRight ==
    Spec => []CycleErrorNamesTheBlocked
  <1> DEFINE Named == stage = "cycle" => cyclic = {p \in by_id : indegree[p] > 0}
  <1>1. Init => Named
    BY DEF Init
  <1>2. Named /\ [Next]_resolverVars => Named'
    <2> SUFFICES ASSUME Named, [Next]_resolverVars, stage' = "cycle"
                 PROVE  cyclic' = {p \in by_id' : indegree'[p] > 0}
      OBVIOUS
    <2>1. CASE Finish
      BY <2>1 DEF Finish, by_id
    <2>2. CASE UNCHANGED resolverVars
      BY <2>2 DEF resolverVars, by_id
    <2>3. CASE Reject
      BY <2>3 DEF Reject, Faults
    <2>4. CASE BeginSort \/ Pop
      BY <2>4 DEF BeginSort, Pop
    <2> QED
      BY <2>1, <2>2, <2>3, <2>4 DEF Next, Resolve
  <1>3. ASSUME ResolverInvariant, Named, stage = "cycle"
        PROVE  cyclic = UNION {S \in SUBSET by_id : Knot(S)}
    <2> DEFINE R == by_id \ Items(result)
    <2>1. /\ \A p \in by_id : indegree[p] = Cardinality(requires[p] \ Items(result))
          /\ {p \in by_id \ Items(result) : requires[p] \subseteq Items(result)} = {}
          /\ \A i \in DOMAIN result : \A d \in requires[result[i]] :
                \E j \in DOMAIN result : j < i /\ result[j] = d
      BY <1>3 DEF ResolverInvariant, SortInvariant
    <2>2. \A p \in by_id : p \in R <=> ~(requires[p] \subseteq Items(result))
      BY <2>1 DEF Items
    <2>3. \A p \in by_id : indegree[p] > 0 <=> ~(requires[p] \subseteq Items(result))
      <3>1. \A p \in by_id : /\ IsFiniteSet(requires[p] \ Items(result))
                             /\ requires[p] \ Items(result) = {} <=>
                                    requires[p] \subseteq Items(result)
        <4>1. ASSUME NEW p \in by_id
              PROVE  IsFiniteSet(requires[p] \ Items(result))
          <5>1. IsFiniteSet(requires[p])
            BY <1>3, Finiteness DEF ResolverInvariant
          <5> QED
            BY <5>1, FS_Difference
        <4> QED
          BY <4>1
      <3>2. \A p \in by_id : /\ indegree[p] \in Nat
                             /\ indegree[p] = 0 <=> requires[p] \ Items(result) = {}
        <4> SUFFICES ASSUME NEW p \in by_id
                     PROVE  /\ indegree[p] \in Nat
                            /\ indegree[p] = 0 <=> requires[p] \ Items(result) = {}
          OBVIOUS
        <4>1. indegree[p] = Cardinality(requires[p] \ Items(result))
          BY <2>1
        <4>2. IsFiniteSet(requires[p] \ Items(result))
          BY <3>1
        <4> QED
          BY <4>1, <4>2, FS_EmptySet, FS_CardinalityType
      <3> QED
        BY <3>1, <3>2
    <2>4. cyclic = R
      BY <1>3, <2>2, <2>3
    <2>5. \A S \in SUBSET by_id : Knot(S) => S \subseteq R
      BY <1>3, NoKnotInTheResult
    <2>6. R \in SUBSET by_id /\ Knot(R)
      BY <1>3, RestIsAKnot
    <2> HIDE DEF R
    <2> QED
      BY <2>4, <2>5, <2>6
  <1>4. ResolverInvariant /\ Named => CycleErrorNamesTheBlocked
    BY <1>3 DEF CycleErrorNamesTheBlocked
  <1> HIDE DEF Named
  <1>5. Spec => []Named
    BY <1>1, <1>2, PTL DEF Spec
  <1> QED
    BY <1>4, <1>5, ResolverInvariantHolds, PTL

\* Each id in the result was the least of those that could come next.
Greedy ==
    \A i \in DOMAIN result : \A p \in by_id :
        /\ \A j \in 1..(i - 1) : result[j] # p
        /\ \A d \in requires[p] : \E j \in 1..(i - 1) : result[j] = d
        => result[i] <= p

\* The heap hands out the least id of those that can come next.
LEMMA PopIsGreedy ==
    ASSUME ResolverInvariant, Greedy, Pop
    PROVE  Greedy'
  <1> DEFINE n == Len(result)
  <1>1. PICK p \in heap : First(p, heap) /\ Take(p)
    BY DEF Pop
  <1>2. /\ n \in Nat /\ DOMAIN result = 1..n /\ result \in Seq(by_id) /\ p \in by_id
        /\ heap = {q \in by_id \ Items(result) : requires[q] \subseteq Items(result)}
    BY <1>1 DEF ResolverInvariant, TypeOK, SortInvariant, Pop
  <1>3. /\ by_id' = by_id /\ requires' = requires
        /\ result' = Append(result, p)
    BY <1>1 DEF Pop, Take, by_id, requires
  <1>4. /\ DOMAIN result' = 1..(n + 1) /\ result'[n + 1] = p
        /\ \A i \in 1..n : result'[i] = result[i]
    BY <1>2, <1>3
  <1>5. ASSUME NEW i \in 1..(n + 1), NEW q \in by_id,
               \A j \in 1..(i - 1) : result'[j] # q,
               \A d \in requires[q] : \E j \in 1..(i - 1) : result'[j] = d
        PROVE  result'[i] <= q
    <2>1. \A j \in 1..(i - 1) : j \in 1..n /\ result'[j] = result[j]
      BY <1>2, <1>4
    <2>2. CASE i \in 1..n
      <3>1. \A j \in 1..(i - 1) : result[j] # q
        BY <1>5, <2>1
      <3>2. \A d \in requires[q] : \E j \in 1..(i - 1) : result[j] = d
        BY <1>5, <2>1
      <3>3. i \in DOMAIN result /\ result'[i] = result[i]
        BY <1>2, <1>4, <2>2
      <3> QED
        BY <3>1, <3>2, <3>3 DEF Greedy
    <2>3. CASE i = n + 1
      <3>1. q \notin Items(result) /\ requires[q] \subseteq Items(result)
        BY <1>2, <1>5, <2>1, <2>3 DEF Items
      <3> QED
        BY <1>1, <1>2, <1>4, <2>3, <3>1 DEF First
    <2> QED
      BY <1>2, <2>2, <2>3
  <1> QED
    BY <1>3, <1>4, <1>5 DEF Greedy

\* The order depends on the manifests alone: it is the least dependency-first order
\* there is, in whatever order the manifests were discovered.
THEOREM OrderIsTheLeast ==
    Spec => []OrderIsDeterministic
  <1>1. Init => Greedy
    BY DEF Init, Greedy
  <1>2. ResolverInvariant /\ Greedy /\ [Next]_resolverVars => Greedy'
    <2> SUFFICES ASSUME ResolverInvariant, Greedy, [Next]_resolverVars PROVE Greedy'
      OBVIOUS
    <2>1. CASE BeginSort
      BY <2>1 DEF BeginSort, Greedy
    <2>2. CASE Reject \/ Finish \/ UNCHANGED resolverVars
      BY <2>2 DEF Reject, Finish, resolverVars, Greedy, by_id, requires
    <2> QED
      BY <2>1, <2>2, PopIsGreedy DEF Next, Resolve
  <1>3. ASSUME ResolverInvariant, Greedy, stage = "done", NEW s \in Orderings, Before(s, result)
        PROVE  FALSE
    <2>1. /\ s \in [1..Cardinality(by_id) -> by_id]
          /\ \A i \in DOMAIN s : /\ requires[s[i]] \subseteq {s[j] : j \in 1..(i - 1)}
                                 /\ \A j \in 1..(i - 1) : s[j] # s[i]
      BY <1>3 DEF Orderings
    <2>2. Len(result) = Cardinality(by_id) /\ result \in Seq(by_id) /\ by_id \subseteq Nat
      BY <1>3, Finiteness, CatalogsAssumption DEF ResolverInvariant, SortInvariant, TypeOK
    <2>3. PICK i \in DOMAIN s : /\ s[i] < result[i]
                                /\ \A j \in 1..(i - 1) : s[j] = result[j]
      BY <1>3 DEF Before
    <2>4. i \in DOMAIN result /\ s[i] \in by_id /\ result[i] \in by_id
      BY <2>1, <2>2, <2>3
    <2>5. /\ \A j \in 1..(i - 1) : result[j] # s[i]
          /\ \A d \in requires[s[i]] : \E j \in 1..(i - 1) : result[j] = d
      BY <2>1, <2>3
    <2>6. result[i] <= s[i]
      BY <1>3, <2>4, <2>5 DEF Greedy
    <2>7. s[i] \in Nat /\ result[i] \in Nat
      BY <2>2, <2>4
    <2> QED
      BY <2>3, <2>6, <2>7
  <1>4. ResolverInvariant /\ Greedy => OrderIsDeterministic
    BY <1>3 DEF OrderIsDeterministic
  <1> QED
    BY <1>1, <1>2, <1>4, ResolverInvariantHolds, PTL DEF Spec
-----------------------------------------------------------------------------
(* The catalog.                                                            *)

Early  == {"discovering", "checking_owners", "resolving"}
Late   == {"loading", "validated"} \cup LoadStages
Places == Early \cup Late \cup {"failed"}
Reasons == {"none", "dependency_unavailable", "load_error", "reserved_route"}

\* The ranges of the variables the catalog adds to those of resolve().
CatalogTypes ==
    /\ installation \in Installations
    /\ pc \in Places
    /\ candidates \subseteq Ids
    /\ position \in Nat
    /\ reason \in [Ids -> Reasons]

\* The roots before this one are read: none is bad, none repeats an id.
ReadUpTo(n) ==
    /\ \A r \in 1..(n - 1) : r \notin installation.bad
    /\ \A p \in Ids : p \in candidates <=> \E r \in 1..(n - 1) : p \in installation.roots[r]
    /\ \A r, s \in 1..(n - 1) : r # s => installation.roots[r] \cap installation.roots[s] = {}

\* All roots were read before anything is checked.
Discovered ==
    /\ pc = "discovering" =>
          position \in 1..(Len(installation.roots) + 1) /\ ReadUpTo(position)
    /\ pc \in {"checking_owners", "resolving"} \cup Late \/ imported # {} =>
          ReadUpTo(Len(installation.roots) + 1)

\* resolve() is asked about all candidates, with owners that are unique, and code is
\* imported only in the order it returned.
Asked ==
    /\ pc \in {"discovering", "checking_owners"} =>
          stage = "idle" /\ heap = {} /\ result = <<>> /\ cyclic = {}
    /\ pc \in {"resolving"} \cup Late \/ imported # {} =>
          /\ OwnersAreUnique
          /\ manifests = [ids |-> candidates, requires |-> installation.requires,
                          rejects |-> installation.rejects]
    /\ pc \in Late \/ imported # {} => stage = "done"

\* validate() has been at p.
Behind(p) == \E i \in DOMAIN result : i < position /\ result[i] = p

\* The record of p tells what became of it.
RecordIsRight(p) ==
    /\ reason[p] = "none" <=> p \in instances
    /\ reason[p] = "dependency_unavailable" <=> ~(requires[p] \subseteq instances)
    /\ reason[p] \in {"load_error", "reserved_route"} <=> p \in imported \ instances

\* What sys.modules holds of the plugin that is being loaded.
PartsUnderWay ==
    CASE pc = "package_runs"                                    -> {"package"}
      [] pc \in {"entrypoint_runs", "constructed", "accepted"}   -> Parts
      [] OTHER                                                  -> {}

\* How far the loading is: nothing ahead is touched, what is behind is on record,
\* and the plugin at hand stands on loaded ones.
Loading ==
    /\ pc \in Early =>
          imported = {} /\ instances = {} /\ modules = {} /\ reason = [p \in Ids |-> "none"]
    /\ pc \in Late =>
          /\ position \in 1..(Len(result) + 1)
          /\ pc = "validated" => position = Len(result) + 1
          /\ instances \subseteq imported
          /\ \A p \in instances : Behind(p)
          /\ \A p \in by_id : Behind(p) => RecordIsRight(p)
          /\ \A p \in by_id : ~Behind(p) => reason[p] = "none"
    /\ pc \in {"loading", "validated"} =>
          /\ modules = instances \X Parts
          /\ \A p \in imported : Behind(p)
    /\ pc \in LoadStages =>
          /\ position \in DOMAIN result
          /\ modules = (instances \X Parts) \cup ({Current} \X PartsUnderWay)
          /\ Current \in imported /\ requires[Current] \subseteq instances
          /\ \A p \in imported : Behind(p) \/ p = Current

\* Together these are inductive; the properties follow from them.
CatalogInvariant ==
    /\ ResolverInvariant
    /\ CatalogTypes
    /\ Discovered
    /\ Asked
    /\ Loading

\* The roots hold ids of plugins.
LEMMA RootsTyped ==
    ASSUME CatalogTypes
    PROVE  /\ Len(installation.roots) \in Nat
           /\ Roots = 1..Len(installation.roots)
           /\ \A r \in Roots : installation.roots[r] \subseteq Ids
           /\ installation.requires \in [Ids -> SUBSET Ids]
  <1>1. installation \in [roots : Seq(SUBSET Ids), bad : SUBSET Nat,
                          declares : [Ids -> SUBSET Capabilities],
                          requires : [Ids -> SUBSET Ids], rejects : SUBSET (Ids \X Ids)]
    BY InstallationsAssumption DEF CatalogTypes
  <1>2. installation.roots \in Seq(SUBSET Ids) /\ installation.requires \in [Ids -> SUBSET Ids]
    BY <1>1
  <1> QED
    BY <1>2 DEF Roots

\* discover() reads one root after the other, or gives up.
LEMMA DiscoveryKeeps ==
    ASSUME CatalogInvariant, RefuseRoot \/ RefuseDuplicate \/ ReadRoot \/ BeginValidation
    PROVE  CatalogInvariant'
  <1> USE DEF CatalogInvariant, Early, Late, LoadStages, CodeRuns
  <1>1. /\ pc = "discovering" /\ imported = {} /\ UNCHANGED <<installation, loadVars, resolverVars>>
        /\ stage = "idle" /\ heap = {} /\ result = <<>> /\ cyclic = {}
    BY DEF RefuseRoot, RefuseDuplicate, ReadRoot, BeginValidation, Loading, Asked
  <1>2. ResolverInvariant'
    BY <1>1, NextPreserves
  <1>3. /\ instances' = {} /\ modules' = {} /\ imported' = {} /\ reason' = reason
        /\ stage' = "idle" /\ heap' = {} /\ result' = <<>> /\ cyclic' = {}
        /\ reason = [p \in Ids |-> "none"]
    BY <1>1 DEF Loading, loadVars, resolverVars
  <1>4. CASE RefuseRoot \/ RefuseDuplicate
    <2>1. pc' = "failed" /\ position' = position
      BY <1>4 DEF RefuseRoot, RefuseDuplicate, Fail
    <2>2. candidates' \subseteq Ids
      BY <1>4, RootsTyped DEF RefuseRoot, RefuseDuplicate, CatalogTypes, Roots
    <2>3. CatalogTypes'
      BY <1>1, <1>3, <2>1, <2>2 DEF CatalogTypes, Places
    <2>4. Discovered' /\ Asked' /\ Loading'
      BY <1>3, <2>1 DEF Discovered, Asked, Loading
    <2> QED
      BY <1>2, <2>3, <2>4
  <1>5. CASE ReadRoot
    <2>1. /\ position \in Roots /\ position \notin installation.bad /\ pc' = pc
          /\ candidates' = candidates \cup installation.roots[position]
          /\ position' = position + 1
          /\ installation.roots[position] \cap candidates = {}
      BY <1>5 DEF ReadRoot, Roots
    <2>2. CatalogTypes'
      BY <1>1, <1>3, <2>1, RootsTyped DEF CatalogTypes
    <2>3. /\ Len(installation.roots) \in Nat /\ position \in 1..Len(installation.roots)
          /\ \A r \in 1..position : r \in 1..(position - 1) \/ r = position
          /\ \A r \in 1..(position - 1) : r \in 1..position /\ r \in Roots
          /\ (position + 1) - 1 = position
      BY <2>1, RootsTyped
    <2>4. ReadUpTo(position)
      BY <1>1 DEF Discovered
    <2>5. \A r \in 1..position : r \notin installation.bad
      BY <2>1, <2>3, <2>4 DEF ReadUpTo
    <2>6. \A p \in Ids : p \in candidates' <=> \E r \in 1..position : p \in installation.roots[r]
      BY <2>1, <2>3, <2>4 DEF ReadUpTo
    <2>7. \A r \in 1..(position - 1) : installation.roots[r] \cap installation.roots[position] = {}
      BY <2>1, <2>3, <2>4, RootsTyped DEF ReadUpTo
    <2>8. \A r, s \in 1..position : r # s => installation.roots[r] \cap installation.roots[s] = {}
      BY <2>3, <2>4, <2>7 DEF ReadUpTo
    <2>9. ReadUpTo(position)'
      <3>1. position' - 1 = position /\ installation' = installation
        BY <1>1, <2>1, <2>3
      <3> QED
        BY <2>5, <2>6, <2>8, <3>1 DEF ReadUpTo
    <2>10. Discovered'
      BY <1>1, <1>3, <2>1, <2>3, <2>9 DEF Discovered, ReadUpTo
    <2>11. Asked' /\ Loading'
      BY <1>1, <1>3, <2>1 DEF Asked, Loading
    <2> QED
      BY <1>2, <2>2, <2>10, <2>11
  <1>6. CASE BeginValidation
    <2>1. /\ position \notin Roots /\ pc' = "checking_owners"
          /\ candidates' = candidates /\ position' = position
      BY <1>6 DEF BeginValidation, Roots
    <2>2. position = Len(installation.roots) + 1 /\ ReadUpTo(position)
      BY <1>1, <2>1, RootsTyped DEF Discovered
    <2>3. CatalogTypes'
      BY <1>1, <1>3, <2>1 DEF CatalogTypes, Places
    <2>4. Discovered' /\ Asked' /\ Loading'
      BY <1>1, <1>3, <2>1, <2>2 DEF Discovered, ReadUpTo, Asked, Loading
    <2> QED
      BY <1>2, <2>3, <2>4
  <1> QED
    BY <1>4, <1>5, <1>6

\* What the discovery found stays.
LEMMA DiscoveredStays ==
    ASSUME Discovered, UNCHANGED <<installation, candidates>>,
           pc # "discovering", pc' # "discovering",
           pc' \in {"checking_owners", "resolving"} \cup Late \/ imported' # {} =>
              pc \in {"checking_owners", "resolving"} \cup Late \/ imported # {}
    PROVE  Discovered'
  BY DEF Discovered, ReadUpTo

\* The owners are checked, and resolve() is called.
LEMMA CheckOwnersKeeps ==
    ASSUME CatalogInvariant, CheckOwners
    PROVE  CatalogInvariant'
  <1> USE DEF CatalogInvariant, Early, Late, LoadStages, CodeRuns
  <1>1. /\ pc = "checking_owners" /\ imported = {} /\ instances = {} /\ modules = {}
        /\ reason = [p \in Ids |-> "none"]
        /\ stage = "idle" /\ heap = {} /\ result = <<>> /\ cyclic = {}
        /\ UNCHANGED <<installation, candidates, position, reason, instances, imported, modules,
                       heap, result, cyclic>>
    BY DEF CheckOwners, Loading, Asked, loadVars
  <1>2. pc' \in {"resolving", "failed"}
    BY DEF CheckOwners, Fail
  <1>3. Discovered'
    BY <1>1, <1>2, DiscoveredStays
  <1>4. CatalogTypes'
    BY <1>1, <1>2 DEF CatalogTypes, Places
  <1>5. Loading'
    BY <1>1, <1>2 DEF Loading
  <1>6. CASE OwnersAreUnique
    <2>1. /\ pc' = "resolving" /\ stage' = "called"
          /\ manifests' = [ids |-> candidates, requires |-> installation.requires,
                           rejects |-> installation.rejects]
          /\ indegree' = [p \in candidates |-> 0]
      BY <1>6 DEF CheckOwners
    <2>2. manifests' \in Catalogs
      BY <2>1, ManifestsAssumption DEF CatalogTypes
    <2>3. by_id' = candidates
      BY <2>1 DEF by_id
    <2>4. TypeOK'
      BY <1>1, <2>1, <2>2, <2>3 DEF TypeOK, Stages
    <2>5. SortInvariant'
      BY <2>1 DEF SortInvariant
    <2>6. Asked'
      BY <1>1, <1>6, <2>1 DEF Asked, OwnersAreUnique
    <2> QED
      BY <1>3, <1>4, <1>5, <2>4, <2>5, <2>6 DEF ResolverInvariant
  <1>7. CASE ~OwnersAreUnique
    <2>1. pc' = "failed" /\ UNCHANGED resolverVars
      BY <1>1, <1>7 DEF CheckOwners, Fail, resolverVars
    <2>2. ResolverInvariant'
      BY <2>1, NextPreserves
    <2>3. Asked'
      BY <1>1, <2>1 DEF Asked
    <2> QED
      BY <1>3, <1>4, <1>5, <2>2, <2>3
  <1> QED
    BY <1>6, <1>7

\* resolve() takes its steps, and returns or raises.
LEMMA ResolveKeeps ==
    ASSUME CatalogInvariant, ResolveStep \/ Resolved
    PROVE  CatalogInvariant'
  <1> USE DEF CatalogInvariant, Early, Late, LoadStages, CodeRuns
  <1>1. /\ pc = "resolving" /\ imported = {} /\ instances = {} /\ modules = {}
        /\ reason = [p \in Ids |-> "none"]
        /\ UNCHANGED <<installation, candidates, reason, instances, imported, modules>>
    BY DEF ResolveStep, Resolved, Loading, catalogVars, loadVars
  <1>2. CASE ResolveStep
    <2>1. /\ pc' = pc /\ position' = position /\ manifests' = manifests
      BY <1>2 DEF ResolveStep, catalogVars, Resolve, Reject, BeginSort, Pop, Finish
    <2>2. ResolverInvariant'
      BY <1>2, NextPreserves DEF ResolveStep, Next
    <2>3. CatalogTypes' /\ Discovered'
      BY <1>1, <2>1, DiscoveredStays DEF CatalogTypes
    <2>4. Asked' /\ Loading'
      BY <1>1, <2>1 DEF Asked, OwnersAreUnique, Loading
    <2> QED
      BY <2>2, <2>3, <2>4
  <1>3. CASE Resolved
    <2>1. /\ UNCHANGED resolverVars /\ pc' \in {"loading", "failed"}
          /\ pc' = "loading" => stage = "done" /\ position' = 1
          /\ position' \in {1, position}
      BY <1>3 DEF Resolved, Fail
    <2>2. ResolverInvariant'
      BY <2>1, NextPreserves
    <2>3. CatalogTypes'
      BY <1>1, <2>1 DEF CatalogTypes, Places
    <2>4. Discovered'
      BY <1>1, <2>1, DiscoveredStays
    <2>5. Asked'
      BY <1>1, <2>1 DEF Asked, OwnersAreUnique, resolverVars
    <2>6. pc' = "loading" => /\ position' \in 1..(Len(result') + 1)
                             /\ \A p \in by_id' : ~Behind(p)' /\ p \in Ids
      <3>1. result' = result /\ Len(result) \in Nat /\ DOMAIN result = 1..Len(result)
        BY <2>1 DEF resolverVars, ResolverInvariant, TypeOK
      <3>2. by_id' = candidates /\ candidates \subseteq Ids
        BY <1>1, <2>1 DEF Asked, CatalogTypes, by_id, resolverVars
      <3> QED
        BY <2>1, <3>1, <3>2 DEF Behind
    <2>7. Loading'
      BY <1>1, <2>1, <2>6 DEF Loading
    <2> QED
      BY <2>2, <2>3, <2>4, <2>5, <2>7
  <1> QED
    BY <1>2, <1>3

\* Where the loading is: the current plugin was not dealt with, its dependencies were.
LEMMA CurrentIsNext ==
    ASSUME CatalogInvariant, pc \in Late, position \in DOMAIN result
    PROVE  /\ Current \in by_id /\ by_id = candidates /\ candidates \subseteq Ids
           /\ requires = installation.requires
           /\ ~Behind(Current) /\ Current \notin instances
           /\ \A d \in requires[Current] : Behind(d)
           /\ \A p \in by_id : Behind(p) => /\ Current \notin requires[p] /\ p # Current
                                            /\ \A d \in requires[p] : Behind(d)
           /\ position + 1 \in 1..(Len(result) + 1)
           /\ \A p : (\E i \in DOMAIN result : i < position + 1 /\ result[i] = p)
                        <=> Behind(p) \/ p = Current
  <1>1. /\ Len(result) \in Nat /\ DOMAIN result = 1..Len(result)
        /\ \A i \in DOMAIN result : result[i] \in by_id
    BY DEF CatalogInvariant, ResolverInvariant, TypeOK
  <1>2. /\ \A i, j \in DOMAIN result : result[i] = result[j] => i = j
        /\ \A i \in DOMAIN result :
              \A d \in requires[result[i]] : \E j \in DOMAIN result : j < i /\ result[j] = d
    BY DEF CatalogInvariant, ResolverInvariant, SortInvariant, Asked
  <1>3. by_id = candidates /\ requires = installation.requires /\ candidates \subseteq Ids
    BY DEF CatalogInvariant, Asked, CatalogTypes, by_id, requires
  <1>4. ~Behind(Current) /\ Current \notin instances
    <2>1. ~Behind(Current)
      BY <1>1, <1>2 DEF Behind, Current
    <2> QED
      BY <2>1 DEF CatalogInvariant, Loading
  <1>5. \A d \in requires[Current] : Behind(d)
    BY <1>2 DEF Behind, Current
  <1>6. ASSUME NEW p, Behind(p), NEW d \in requires[p] PROVE Behind(d)
    <2>1. PICK i \in DOMAIN result : i < position /\ result[i] = p
      BY <1>6 DEF Behind
    <2>2. PICK j \in DOMAIN result : j < i /\ result[j] = d
      BY <1>2, <1>6, <2>1
    <2>3. j < position
      BY <1>1, <2>1, <2>2
    <2> QED
      BY <2>2, <2>3 DEF Behind
  <1>7. \A p \in by_id : Behind(p) => /\ Current \notin requires[p] /\ p # Current
                                      /\ \A d \in requires[p] : Behind(d)
    BY <1>4, <1>6
  <1>8. \A i \in DOMAIN result : i < position + 1 <=> i < position \/ i = position
    BY <1>1
  <1>9. \A p : (\E i \in DOMAIN result : i < position + 1 /\ result[i] = p)
                  <=> Behind(p) \/ p = Current
    BY <1>8 DEF Behind, Current
  <1> QED
    BY <1>1, <1>3, <1>4, <1>5, <1>7, <1>9 DEF Current

\* Whatever becomes of the current plugin, one step of the loading keeps the order.
LEMMA LoadingKeeps ==
    ASSUME CatalogInvariant, pc \in {"loading"} \cup LoadStages, position \in DOMAIN result,
           UNCHANGED <<installation, imported, candidates, resolverVars>>,
           pc' = "loading", position' = position + 1,
           NEW c, c = Current, NEW r \in Reasons, reason' = [reason EXCEPT ![c] = r],
           instances' \in {instances, instances \cup {c}},
           modules' = instances' \X Parts, instances' \subseteq imported,
           \A p \in imported : Behind(p) \/ p = c,
           RecordIsRight(c)'
    PROVE  CatalogInvariant'
  <1> USE DEF CatalogInvariant
  <1>0. pc \in Late /\ pc' \in Late /\ pc \notin Early /\ pc' \notin Early \cup LoadStages \cup {"validated"}
    BY DEF Late, Early, LoadStages, CodeRuns
  <1>1. ResolverInvariant'
    BY NextPreserves
  <1>2. /\ c \in Ids /\ by_id' = by_id /\ requires' = requires /\ result' = result
        /\ stage' = stage /\ manifests' = manifests
    BY <1>0, CurrentIsNext DEF by_id, requires, resolverVars
  <1>3. CatalogTypes'
    BY <1>0, <1>2 DEF CatalogTypes, Places
  <1>4. Discovered'
    BY <1>0, DiscoveredStays DEF Early
  <1>5. Asked'
    BY <1>0, <1>2 DEF Asked, OwnersAreUnique, Early
  <1>6. /\ c \notin instances
        /\ \A p \in instances : Behind(p)
        /\ \A p \in by_id : Behind(p) => RecordIsRight(p)
        /\ \A p \in by_id : ~Behind(p) => reason[p] = "none"
    BY <1>0, CurrentIsNext DEF Loading
  <1>7. \A p : Behind(p)' <=> Behind(p) \/ p = c
    BY <1>0, <1>2, CurrentIsNext DEF Behind
  <1>8. ASSUME NEW p \in by_id, Behind(p) PROVE RecordIsRight(p)'
    <2>1. /\ p # c /\ c \notin requires[p] /\ p \in Ids
      BY <1>0, <1>8, CurrentIsNext
    <2>2. reason'[p] = reason[p]
      BY <2>1 DEF CatalogTypes
    <2>3. /\ p \in instances' <=> p \in instances
          /\ p \in imported' <=> p \in imported
          /\ requires[p] \subseteq instances' <=> requires[p] \subseteq instances
      BY <2>1
    <2> QED
      BY <1>2, <1>6, <1>8, <2>2, <2>3 DEF RecordIsRight
  <1>9. Loading'
    <2>1. position' \in 1..(Len(result') + 1)
      BY <1>0, <1>2, CurrentIsNext
    <2>2. \A p \in imported' : Behind(p)'
      BY <1>7
    <2>3. \A p \in by_id' : Behind(p)' => RecordIsRight(p)'
      BY <1>2, <1>7, <1>8
    <2>4. \A p \in by_id' : ~Behind(p)' => reason'[p] = "none"
      <3> SUFFICES ASSUME NEW p \in by_id, ~Behind(p)' PROVE reason'[p] = "none"
        BY <1>2
      <3>1. p # c /\ p \in Ids /\ ~Behind(p)
        BY <1>0, <1>7, CurrentIsNext
      <3> QED
        BY <1>6, <3>1 DEF CatalogTypes
    <2>5. \A p \in instances' : Behind(p)'
      BY <1>6, <1>7
    <2> QED
      BY <1>0, <2>1, <2>2, <2>3, <2>4, <2>5 DEF Loading
  <1> QED
    BY <1>1, <1>3, <1>4, <1>5, <1>9

\* A removal leaves the modules of the plugins with an instance, and no other.
LEMMA ForgetLeavesInstances ==
    ASSUME CatalogInvariant, pc \in LoadStages
    PROVE  /\ position \in DOMAIN result /\ pc \in Late
           /\ Forget(Current) = instances \X Parts
  <1>1. /\ position \in DOMAIN result /\ pc \in Late
        /\ modules = (instances \X Parts) \cup ({Current} \X PartsUnderWay)
    BY DEF CatalogInvariant, Loading, Late
  <1>2. Current \notin instances
    BY <1>1, CurrentIsNext
  <1> QED
    BY <1>1, <1>2 DEF Forget

\* A refusal: the plugin is forgotten, and its record gets a reason of its own.
LEMMA RefuseKeeps ==
    ASSUME CatalogInvariant, pc \in LoadStages, NEW why \in {"load_error", "reserved_route"},
           Refuse(why), modules' = instances \X Parts
    PROVE  CatalogInvariant'
  <1>1. PICK c : c = Current
    OBVIOUS
  <1>2. /\ position \in DOMAIN result /\ c \in imported /\ requires[c] \subseteq instances
        /\ instances \subseteq imported /\ c \notin instances /\ c \in Ids
        /\ \A p \in imported : Behind(p) \/ p = c
    BY <1>1, ForgetLeavesInstances, CurrentIsNext DEF CatalogInvariant, Loading
  <1>3. /\ UNCHANGED <<installation, imported, candidates, resolverVars>> /\ instances' = instances
        /\ pc' = "loading" /\ position' = position + 1
        /\ reason' = [reason EXCEPT ![c] = why] /\ requires' = requires
    BY <1>1 DEF Refuse, requires, resolverVars
  <1>4. reason'[c] = why
    BY <1>2, <1>3 DEF CatalogInvariant, CatalogTypes
  <1>5. RecordIsRight(c)'
    BY <1>2, <1>3, <1>4 DEF RecordIsRight
  <1> QED
    BY <1>1, <1>2, <1>3, <1>5, LoadingKeeps DEF Reasons

\* One step of load() after the other: its records stay, and sys.modules grows.
LEMMA LoadAdvances ==
    ASSUME CatalogInvariant, BeginLoad \/ EnterPackage \/ EnterModule \/ Construct \/ Accept
    PROVE  CatalogInvariant'
  <1> USE DEF CatalogInvariant
  <1>1. PICK c : c = Current
    OBVIOUS
  <1>2. /\ pc \in {"loading"} \cup LoadStages /\ pc' \in LoadStages
        /\ UNCHANGED <<installation, candidates, position, reason, instances, resolverVars>>
        /\ imported' = imported \cup {c}
    BY <1>1 DEF BeginLoad, EnterPackage, EnterModule, Construct, Accept, Goto, LoadStages, CodeRuns,
       Loading
  <1>3. /\ pc \in Late /\ pc' \in Late /\ pc \notin Early /\ pc' \notin Early \cup {"loading", "validated"}
    BY <1>2 DEF Late, Early, LoadStages, CodeRuns
  <1>4. /\ position \in DOMAIN result /\ requires[c] \subseteq instances
        /\ \A p \in imported : Behind(p) \/ p = c
    BY <1>1, <1>3
       DEF BeginLoad, Unavailable, EnterPackage, EnterModule, Construct, Accept, LoadStages, CodeRuns,
           Loading
  <1>5. /\ c \notin instances
    BY <1>1, <1>3, <1>4, CurrentIsNext
  <1>6. modules' = (instances \X Parts) \cup ({c} \X PartsUnderWay')
    <2>1. CASE BeginLoad
      BY <1>1, <1>5, <2>1 DEF BeginLoad, Forget, PartsUnderWay, Loading
    <2>2. CASE EnterPackage
      BY <1>1, <2>2 DEF EnterPackage, Goto, PartsUnderWay, Loading, LoadStages
    <2>3. CASE EnterModule
      BY <1>1, <2>3 DEF EnterModule, Goto, PartsUnderWay, Loading, LoadStages, CodeRuns, Parts
    <2>4. CASE Construct
      BY <1>1, <2>4 DEF Construct, Goto, PartsUnderWay, Loading, LoadStages, CodeRuns
    <2>5. CASE Accept
      BY <1>1, <2>5 DEF Accept, Goto, PartsUnderWay, Loading, LoadStages
    <2> QED
      BY <2>1, <2>2, <2>3, <2>4, <2>5
  <1>7. ResolverInvariant'
    BY <1>2, NextPreserves
  <1>8. /\ by_id' = by_id /\ requires' = requires /\ result' = result /\ Current' = c
        /\ stage' = stage /\ manifests' = manifests
    BY <1>1, <1>2 DEF by_id, requires, resolverVars, Current
  <1>9. CatalogTypes' /\ Discovered' /\ Asked'
    <2>1. CatalogTypes'
      BY <1>2, <1>3 DEF CatalogTypes, Places
    <2>2. Discovered'
      BY <1>2, <1>3, DiscoveredStays DEF Early
    <2>3. Asked'
      BY <1>2, <1>3, <1>8 DEF Asked, OwnersAreUnique, Early
    <2> QED
      BY <2>1, <2>2, <2>3
  <1>10. \A p \in by_id : /\ Behind(p)' <=> Behind(p)
                          /\ Behind(p) => p # c
                          /\ Behind(p) /\ RecordIsRight(p) => RecordIsRight(p)'
    BY <1>1, <1>2, <1>3, <1>4, <1>8, CurrentIsNext DEF Behind, RecordIsRight
  <1>11. \A p : Behind(p)' <=> Behind(p)
    BY <1>2, <1>8 DEF Behind
  <1>12. Loading'
    BY <1>2, <1>3, <1>4, <1>6, <1>8, <1>10, <1>11 DEF Loading
  <1> QED
    BY <1>7, <1>9, <1>12

\* What leaves create_app leaves the installation and the graph as they were checked.
LEMMA EscapeKeeps ==
    ASSUME CatalogInvariant, CodeExits \/ Escape
    PROVE  CatalogInvariant'
  <1> USE DEF CatalogInvariant
  <1>1. /\ pc \in LoadStages /\ pc' = "failed"
        /\ UNCHANGED <<installation, candidates, position, reason, instances, imported, resolverVars>>
    BY DEF CodeExits, Escape, Fail, LoadStages, CodeRuns, loadVars
  <1>2. pc \in Late /\ pc \notin Early /\ pc' \notin Early \cup Late \cup LoadStages
    BY <1>1 DEF Late, Early, LoadStages, CodeRuns
  <1>3. ResolverInvariant'
    BY <1>1, NextPreserves
  <1>4. CatalogTypes' /\ Discovered'
    BY <1>1, <1>2, DiscoveredStays DEF CatalogTypes, Places, Early
  <1>5. Asked' /\ Loading'
    BY <1>1, <1>2 DEF Asked, OwnersAreUnique, Loading, resolverVars, Early, Late
  <1> QED
    BY <1>3, <1>4, <1>5

\* A plugin is kept, with an instance and all its modules.
LEMMA KeepKeeps ==
    ASSUME CatalogInvariant, Keep
    PROVE  CatalogInvariant'
  <1>1. PICK c : c = Current
    OBVIOUS
  <1>2. pc \in LoadStages
    BY DEF Keep, LoadStages
  <1>3. /\ position \in DOMAIN result /\ c \in imported /\ requires[c] \subseteq instances
        /\ modules = (instances \cup {c}) \X Parts
        /\ instances \subseteq imported /\ c \notin instances /\ c \in Ids
        /\ \A p \in imported : Behind(p) \/ p = c
        /\ reason[c] = "none" /\ c \notin requires[c]
    BY <1>1, <1>2, ForgetLeavesInstances, CurrentIsNext
       DEF CatalogInvariant, Loading, Keep, PartsUnderWay
  <1>4. /\ UNCHANGED <<installation, imported, candidates, resolverVars>>
        /\ instances' = instances \cup {c} /\ modules' = modules
        /\ pc' = "loading" /\ position' = position + 1 /\ reason' = reason /\ requires' = requires
    BY <1>1 DEF Keep, requires, resolverVars
  <1>5. reason' = [reason EXCEPT ![c] = "none"]
    BY <1>3, <1>4 DEF CatalogInvariant, CatalogTypes
  <1>6. RecordIsRight(c)'
    BY <1>3, <1>4 DEF RecordIsRight
  <1> QED
    BY <1>1, <1>2, <1>3, <1>4, <1>5, <1>6, LoadingKeeps DEF Reasons

\* The code of the next plugin is imported, or not.
LEMMA LoadStepsKeep ==
    ASSUME CatalogInvariant, SkipDependent \/ LoadStep \/ Validated
    PROVE  CatalogInvariant'
  <1>1. CASE SkipDependent
    <2>1. PICK c : c = Current
      OBVIOUS
    <2>2. /\ pc = "loading" /\ position \in DOMAIN result
          /\ ~(requires[c] \subseteq instances)
          /\ reason' = [reason EXCEPT ![c] = "dependency_unavailable"]
          /\ position' = position + 1
          /\ UNCHANGED <<installation, pc, candidates, resolverVars>>
          /\ instances' = instances /\ imported' = imported /\ modules' = modules
      BY <1>1, <2>1 DEF SkipDependent, Unavailable
    <2>3. /\ instances \subseteq imported /\ modules = instances \X Parts
          /\ c \notin imported /\ c \in Ids /\ \A p \in imported : Behind(p) \/ p = c
      BY <2>1, <2>2, CurrentIsNext DEF CatalogInvariant, Loading, Late
    <2>4. reason'[c] = "dependency_unavailable" /\ requires' = requires
      BY <2>2, <2>3 DEF CatalogInvariant, CatalogTypes, requires, resolverVars
    <2>5. RecordIsRight(c)'
      BY <2>2, <2>3, <2>4 DEF RecordIsRight
    <2> QED
      BY <2>1, <2>2, <2>3, <2>5, LoadingKeeps DEF Reasons
  <1>2. CASE FilesMissing
    <2>1. pc \in LoadStages /\ modules' = instances \X Parts
      BY <1>2 DEF FilesMissing, LoadStages, CatalogInvariant, Loading, PartsUnderWay
    <2> QED
      BY <1>2, <2>1, RefuseKeeps DEF FilesMissing
  <1>3. CASE NoPlugin \/ CodeRaises
    <2>1. pc \in LoadStages /\ modules' = Forget(Current) /\ Refuse("load_error")
      BY <1>3 DEF NoPlugin, CodeRaises, LoadStages
    <2> QED
      BY <2>1, ForgetLeavesInstances, RefuseKeeps
  <1>4. CASE ManifestChanged \/ BadSettings
    <2>1. pc \in LoadStages /\ modules' = Forget(Current) /\ Refuse("load_error")
      BY <1>4 DEF ManifestChanged, BadSettings, LoadStages
    <2> QED
      BY <2>1, ForgetLeavesInstances, RefuseKeeps
  <1>5. CASE ReservedRoute
    <2>1. pc \in LoadStages /\ modules' = Forget(Current) /\ Refuse("reserved_route")
      BY <1>5 DEF ReservedRoute, LoadStages
    <2> QED
      BY <2>1, ForgetLeavesInstances, RefuseKeeps
  <1>6. CASE Validated
    <2> USE DEF CatalogInvariant
    <2>1. /\ pc = "loading" /\ position \notin DOMAIN result /\ pc' = "validated"
          /\ UNCHANGED <<installation, candidates, position, resolverVars>>
          /\ UNCHANGED <<reason, instances, imported, modules>>
      BY <1>6 DEF Validated, loadVars
    <2>2. ResolverInvariant'
      BY <2>1, NextPreserves
    <2>3. pc \in Late /\ pc' \in Late /\ pc' \notin Early \cup LoadStages /\ pc \notin Early
      BY <2>1 DEF Late, Early, LoadStages, CodeRuns
    <2>4. CatalogTypes' /\ Discovered'
      BY <2>1, <2>3, DiscoveredStays DEF CatalogTypes, Places
    <2>5. position = Len(result) + 1
      BY <2>1, <2>3 DEF Loading, ResolverInvariant, TypeOK
    <2>6. Asked'
      BY <2>1, <2>3 DEF Asked, OwnersAreUnique, resolverVars, Early
    <2>7. Loading'
      BY <2>1, <2>3, <2>5 DEF Loading, resolverVars, Behind, RecordIsRight, by_id, requires
    <2> QED
      BY <2>2, <2>4, <2>6, <2>7
  <1> QED
    BY <1>1, <1>2, <1>3, <1>4, <1>5, <1>6, LoadAdvances, EscapeKeeps, KeepKeeps DEF LoadStep

\* In every reachable state the invariant holds.
LEMMA CatalogInvariantHolds ==
    CatalogSpec => []CatalogInvariant
  <1>1. CatalogInit => CatalogInvariant
    <2> SUFFICES ASSUME CatalogInit PROVE CatalogInvariant
      OBVIOUS
    <2>1. CatalogTypes
      BY DEF CatalogInit, CatalogTypes, Places, Early, Reasons
    <2>2. manifests \in Catalogs /\ by_id = {}
      BY ManifestsAssumption DEF CatalogInit, by_id
    <2>3. TypeOK /\ SortInvariant
      BY <2>2 DEF CatalogInit, TypeOK, SortInvariant, Stages
    <2>4. Discovered
      BY <2>1, RootsTyped DEF CatalogInit, Discovered, ReadUpTo, Late, LoadStages, CodeRuns
    <2>5. Asked /\ Loading
      BY DEF CatalogInit, Asked, Loading, Late, LoadStages, CodeRuns
    <2> QED
      BY <2>1, <2>3, <2>4, <2>5 DEF CatalogInvariant, ResolverInvariant
  <1>2. CatalogInvariant /\ [CatalogNext]_vars => CatalogInvariant'
    <2> SUFFICES ASSUME CatalogInvariant, [CatalogNext]_vars PROVE CatalogInvariant'
      OBVIOUS
    <2>1. CASE UNCHANGED vars
      <3>1. ResolverInvariant'
        BY <2>1, NextPreserves DEF vars, CatalogInvariant
      <3> QED
        BY <2>1, <3>1
           DEF vars, catalogVars, loadVars, resolverVars, CatalogInvariant, CatalogTypes, Discovered,
               ReadUpTo, Asked, OwnersAreUnique, Loading, PartsUnderWay, Current, Behind,
               RecordIsRight, by_id, requires
    <2> QED
      BY <2>1, DiscoveryKeeps, CheckOwnersKeeps, ResolveKeeps, LoadStepsKeep
         DEF CatalogNext, Terminated
  <1> QED
    BY <1>1, <1>2, PTL DEF CatalogSpec

\* A plugin's code runs in the interpreter only after the whole set of manifests was
\* found in order.
THEOREM BrokenSetsRunNoCode ==
    CatalogSpec => []NothingImportedFromABrokenSet
  <1>1. ASSUME CatalogInvariant, imported # {}
        PROVE  /\ installation.bad \cap Roots = {}
               /\ candidates = UNION {installation.roots[r] : r \in Roots}
               /\ \A r, s \in Roots : r # s => installation.roots[r] \cap installation.roots[s] = {}
    <2>1. ReadUpTo(Len(installation.roots) + 1) /\ candidates \subseteq Ids
      BY <1>1 DEF CatalogInvariant, Discovered, CatalogTypes
    <2>2. /\ Roots = 1..((Len(installation.roots) + 1) - 1)
          /\ \A r \in Roots : installation.roots[r] \subseteq Ids
      BY <1>1, RootsTyped DEF CatalogInvariant
    <2> QED
      BY <2>1, <2>2 DEF ReadUpTo
  <1>2. ASSUME CatalogInvariant, imported # {}
        PROVE  /\ \A p, q \in candidates :
                     installation.declares[p] \cap installation.declares[q] # {} => p = q
               /\ \A p \in candidates : installation.requires[p] \subseteq candidates \ {p}
               /\ \A p \in candidates, d \in Ids :
                     d \in installation.requires[p] => <<p, d>> \notin installation.rejects
               /\ \A S \in SUBSET candidates : ~Knot(S)
    <2>1. /\ stage = "done" /\ OwnersAreUnique /\ Faults = {}
          /\ by_id = candidates /\ requires = installation.requires
          /\ manifests.rejects = installation.rejects
      BY <1>2 DEF CatalogInvariant, Asked, by_id, requires, ResolverInvariant, SortInvariant
    <2>2. ASSUME NEW p \in candidates, NEW d \in requires[p]
          PROVE  d # p /\ d \in candidates /\ <<p, d>> \notin installation.rejects
      <3>1. "self" \notin Faults /\ "missing" \notin Faults /\ "version" \notin Faults
        BY <2>1
      <3> QED
        BY <2>1, <2>2, <3>1 DEF Faults, Errors
    <2>3. \A S \in SUBSET candidates : ~Knot(S)
      BY <1>2, <2>1, NoKnotWhenDone DEF CatalogInvariant
    <2> QED
      BY <2>1, <2>2, <2>3 DEF OwnersAreUnique
  <1>3. CatalogInvariant => NothingImportedFromABrokenSet
    BY <1>1, <1>2 DEF NothingImportedFromABrokenSet
  <1> QED
    BY <1>3, CatalogInvariantHolds, PTL

\* What validate() hands to start_all is what PluginManager builds on: an order with
\* each plugin behind its dependencies, loaded plugins on loaded ones, owners unique.
THEOREM StartupIsGrounded ==
    CatalogSpec => []StartupHasGround
  <1>1. ASSUME CatalogInvariant, pc = "validated"
        PROVE  /\ \A p \in candidates : \E i \in DOMAIN result : result[i] = p
               /\ \A i, j \in DOMAIN result :
                     /\ result[i] = result[j] => i = j
                     /\ result[j] \in installation.requires[result[i]] => j < i
               /\ instances \subseteq candidates
               /\ \A p \in instances : installation.requires[p] \subseteq instances
               /\ \A p, q \in candidates :
                     installation.declares[p] \cap installation.declares[q] # {} => p = q
    <2>1. /\ by_id = candidates /\ requires = installation.requires /\ stage = "done"
          /\ OwnersAreUnique
      BY <1>1 DEF CatalogInvariant, Asked, by_id, requires, Late
    <2>2. /\ \A i \in DOMAIN result : result[i] \in by_id
          /\ \A i, j \in DOMAIN result : result[i] = result[j] => i = j
          /\ \A i \in DOMAIN result :
                \A d \in requires[result[i]] : \E j \in DOMAIN result : j < i /\ result[j] = d
      BY <1>1, <2>1 DEF CatalogInvariant, ResolverInvariant, SortInvariant, TypeOK
    <2>3. Items(result) = by_id
      BY <1>1, <2>1, LengthTells DEF CatalogInvariant, ResolverInvariant, SortInvariant
    <2>4. ASSUME NEW i \in DOMAIN result, NEW j \in DOMAIN result, result[j] \in requires[result[i]]
          PROVE  j < i
      <3>1. PICK k \in DOMAIN result : k < i /\ result[k] = result[j]
        BY <2>2, <2>4
      <3> QED
        BY <2>2, <3>1
    <2>5. ASSUME NEW p \in instances PROVE p \in candidates /\ requires[p] \subseteq instances
      <3>1. Behind(p)
        BY <1>1, <2>5 DEF CatalogInvariant, Loading, Late
      <3>2. p \in by_id
        BY <2>2, <3>1 DEF Behind
      <3>3. RecordIsRight(p)
        BY <1>1, <3>1, <3>2 DEF CatalogInvariant, Loading, Late
      <3> QED
        BY <2>1, <2>5, <3>2, <3>3 DEF RecordIsRight
    <2> QED
      BY <2>1, <2>2, <2>3, <2>4, <2>5 DEF Items, OwnersAreUnique
  <1>2. CatalogInvariant => StartupHasGround
    BY <1>1 DEF StartupHasGround
  <1> QED
    BY <1>2, CatalogInvariantHolds, PTL

\* When validate() returns, every candidate is on record with what became of it.
THEOREM RecordsAreRight ==
    CatalogSpec => []ReasonsAreRight
  <1>1. ASSUME CatalogInvariant, pc = "validated", NEW p \in candidates
        PROVE  RecordIsRight(p)
    <2>1. by_id = candidates /\ stage = "done" /\ position = Len(result) + 1
      BY <1>1 DEF CatalogInvariant, Asked, Loading, Late, by_id
    <2>2. Items(result) = by_id
      BY <1>1, <2>1, LengthTells DEF CatalogInvariant, ResolverInvariant, SortInvariant
    <2>3. Behind(p)
      BY <1>1, <2>1, <2>2 DEF Behind, Items, CatalogInvariant, ResolverInvariant, TypeOK
    <2> QED
      BY <1>1, <2>1, <2>3 DEF CatalogInvariant, Loading, Late
  <1>2. CatalogInvariant => ReasonsAreRight
    BY <1>1 DEF ReasonsAreRight, RecordIsRight
  <1> QED
    BY <1>2, CatalogInvariantHolds, PTL

\* A plugin that failed leaves no module behind, whichever of the ways out of its
\* load it took, and the instances keep all of theirs.
THEOREM FailedCodeIsForgotten ==
    CatalogSpec => []OnlyInstancesStayImported
  <1>1. CatalogInvariant => OnlyInstancesStayImported
    BY ForgetLeavesInstances DEF CatalogInvariant, Loading, OnlyInstancesStayImported
  <1> QED
    BY <1>1, CatalogInvariantHolds, PTL
=============================================================================
