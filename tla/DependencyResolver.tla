-------------------------- MODULE DependencyResolver --------------------------
(***************************************************************************)
(* DependencyResolver.resolve (plugins/dependency.py): the checks on the   *)
(* declared dependencies, then Kahn's topological sort with a heap, which  *)
(* is what fixes the order in which plugins are loaded and started.        *)
(*                                                                         *)
(* An id is a natural number, its rank in the order of ids as strings.     *)
(***************************************************************************)
EXTENDS Naturals, Sequences, FiniteSets

CONSTANTS
    Ids,            \* the plugin ids, present or not
    Catalogs        \* the sets of manifests resolve() may be given

\* A manifest lists each dependency once; rejects holds the pairs <<p, d>> where
\* the range p declares for d does not accept the version of d.
ASSUME CatalogsAssumption ==
    /\ Ids \subseteq Nat /\ IsFiniteSet(Ids)
    /\ Catalogs \subseteq [ids : SUBSET Ids, requires : [Ids -> SUBSET Ids],
                           rejects : SUBSET (Ids \X Ids)]

VARIABLES
    manifests,      \* the manifests given
    stage,          \* where resolve() is, or the error it raised
    indegree,       \* how many dependencies of each id are not in the result
    heap,           \* ids whose dependencies are all in the result
    result,
    cyclic          \* the ids the cycle error names

resolverVars == <<manifests, stage, indegree, heap, result, cyclic>>

Errors == {"self", "missing", "version", "cycle"}
Stages == {"idle", "called", "sorting", "done"} \cup Errors

by_id == manifests.ids
requires == manifests.requires

\* What is in a sequence.
Items(s) == {s[i] : i \in DOMAIN s}
-----------------------------------------------------------------------------
\* The errors some declared dependency deserves.
Faults ==
    {f \in Errors : \E p \in by_id : \E d \in requires[p] :
        \/ f = "self"    /\ d = p
        \/ f = "missing" /\ d # p /\ d \notin by_id
        \/ f = "version" /\ d # p /\ d \in by_id /\ <<p, d>> \in manifests.rejects}

\* The first one met is raised; the order is that of discovery.
Reject ==
    /\ stage = "called"
    /\ stage' \in Faults
    /\ UNCHANGED <<manifests, indegree, heap, result, cyclic>>

BeginSort ==
    /\ stage = "called"
    /\ Faults = {}
    /\ indegree' = [p \in by_id |-> Cardinality(requires[p])]
    /\ heap' = {p \in by_id : Cardinality(requires[p]) = 0}
    /\ result' = <<>>
    /\ stage' = "sorting"
    /\ UNCHANGED <<manifests, cyclic>>

\* Mutant: the heap is upside down.
Last(p, S) == \A q \in S : q <= p

\* heappop returns the least id.
First(p, S) == \A q \in S : p <= q

\* Mutant: a dependent is ready as soon as its first dependency is in the result.
TakeEager(p) ==
    LET left == [q \in by_id |-> IF p \in requires[q] THEN indegree[q] - 1
                                                      ELSE indegree[q]]
    IN /\ result' = Append(result, p)
       /\ indegree' = left
       /\ heap' = (heap \ {p}) \cup
                   {q \in by_id : p \in requires[q] /\ left[q] = Cardinality(requires[q]) - 1}

\* p moves to the result, and its dependents lose a dependency.
Take(p) ==
    LET left == [q \in by_id |-> IF p \in requires[q] THEN indegree[q] - 1
                                                      ELSE indegree[q]]
    IN /\ result' = Append(result, p)
       /\ indegree' = left
       /\ heap' = (heap \ {p}) \cup {q \in by_id : p \in requires[q] /\ left[q] = 0}

Pop ==
    /\ stage = "sorting"
    /\ \E p \in heap : First(p, heap) /\ Take(p)
    /\ UNCHANGED <<manifests, stage, cyclic>>

\* Mutant: an empty heap always means success.
FinishUnchecked ==
    /\ stage = "sorting"
    /\ heap = {}
    /\ stage' = "done"
    /\ UNCHANGED <<manifests, indegree, heap, result, cyclic>>

\* Mutant: an off-by-one in the error names too few.
FinishNamingFew ==
    /\ stage = "sorting"
    /\ heap = {}
    /\ IF Len(result) = Cardinality(by_id)
       THEN stage' = "done" /\ UNCHANGED cyclic
       ELSE stage' = "cycle" /\ cyclic' = {p \in by_id : indegree[p] > 1}
    /\ UNCHANGED <<manifests, indegree, heap, result>>

\* The heap is empty: all ids are in the result, or there is a cycle.
Finish ==
    /\ stage = "sorting"
    /\ heap = {}
    /\ IF Len(result) = Cardinality(by_id)
       THEN stage' = "done" /\ UNCHANGED cyclic
       ELSE stage' = "cycle" /\ cyclic' = {p \in by_id : indegree[p] > 0}
    /\ UNCHANGED <<manifests, indegree, heap, result>>

Resolve == Reject \/ BeginSort \/ Pop \/ Finish

\* resolve() has returned or raised.
Over == stage \in {"done"} \cup Errors

Init ==
    /\ manifests \in Catalogs
    /\ stage = "called"
    /\ indegree = [p \in by_id |-> 0]
    /\ heap = {}
    /\ result = <<>>
    /\ cyclic = {}

Next == Resolve \/ (Over /\ UNCHANGED resolverVars)

Spec == Init /\ [][Next]_resolverVars
-----------------------------------------------------------------------------
(* Invariants.                                                             *)

\* Every variable keeps to its type: a counter never falls below zero, and the
\* heap and the result hold only ids of the manifests given.
TypeOK ==
    /\ manifests \in Catalogs
    /\ stage \in Stages
    /\ indegree \in [by_id -> Nat]
    /\ heap \subseteq by_id
    /\ result \in Seq(by_id)
    /\ cyclic \subseteq by_id

\* How far the sort is: the counters are right, the heap holds exactly what can
\* go next, and what is in the result came after what it requires.
SortInvariant ==
    stage \in {"sorting", "done", "cycle"} =>
        /\ Faults = {}
        /\ \A p \in by_id : indegree[p] = Cardinality(requires[p] \ Items(result))
        /\ heap = {p \in by_id \ Items(result) : requires[p] \subseteq Items(result)}
        /\ \A i, j \in DOMAIN result : result[i] = result[j] => i = j
        /\ \A i \in DOMAIN result :
              \A d \in requires[result[i]] : \E j \in DOMAIN result : j < i /\ result[j] = d
        /\ stage # "sorting" =>
              heap = {} /\ (stage = "done" <=> Len(result) = Cardinality(by_id))

\* What resolve() returns is what the plugin manager builds on: every id once,
\* after the ids it depends on, all of which are there.
OrderIsTopological ==
    stage = "done" =>
        /\ Items(result) = by_id
        /\ \A i, j \in DOMAIN result : result[i] = result[j] => i = j
        /\ \A i \in DOMAIN result :
              \A d \in requires[result[i]] : \E j \in DOMAIN result : j < i /\ result[j] = d

\* A set of ids none of which can go first.
Knot(S) == S # {} /\ \A p \in S : requires[p] \cap S # {}

\* resolve() complains of a cycle exactly when there is one.
CycleErrorIsRight ==
    /\ stage = "done"  => \A S \in SUBSET by_id : ~Knot(S)
    /\ stage = "cycle" => \E S \in SUBSET by_id : Knot(S)

\* The ids it names are those on a cycle or behind one, no more and no fewer.
CycleErrorNamesTheBlocked ==
    stage = "cycle" => cyclic = UNION {S \in SUBSET by_id : Knot(S)}

\* s comes before t when they first differ.
Before(s, t) ==
    \E i \in DOMAIN s : /\ s[i] < t[i]
                        /\ \A j \in 1..(i - 1) : s[j] = t[j]

Orderings ==
    {s \in [1..Cardinality(by_id) -> by_id] :
        \A i \in DOMAIN s : requires[s[i]] \subseteq {s[j] : j \in 1..(i - 1)}
                            /\ \A j \in 1..(i - 1) : s[j] # s[i]}

\* The order is the least of all dependency-first orders: it depends on the
\* manifests alone, never on the order in which they were discovered.
OrderIsDeterministic ==
    stage = "done" => \A s \in Orderings : ~Before(s, result)
=============================================================================
