------------------------- MODULE PluginScaffoldProofs -------------------------
(***************************************************************************)
(* What any number of runs of the scaffold command leave behind, however   *)
(* they interleave, fail and are killed, for any template.                 *)
(***************************************************************************)
EXTENDS PluginScaffold, TLAPS

Kinds  == {"absent", "empty", "file", "content", "plugin"}
Stages == {"idle", "begun"} \cup AtWork \cup Ended

\* Every variable stays in its range.
ScaffoldTypes ==
    /\ output \in [kind : Kinds, tree : Trees]
    /\ dirs \in [Dirs -> Trees \cup {None}]
    /\ at \in [Runs -> Dirs \cup {None}]
    /\ stage \in [Runs -> Stages]

\* A run that is at work, or left its directory behind, has one.
Holds(r) == stage[r] \in AtWork \/ (stage[r] \in Strayed /\ at[r] # None)

\* A directory is held by one run, and no directory is there that none holds.
DirectoriesAreHeld ==
    /\ \A r \in Runs : stage[r] \in {"idle", "begun"} => at[r] = None
    /\ \A r \in Runs : Holds(r) => at[r] \in Dirs /\ dirs[at[r]] # None
    /\ \A r, q \in Runs : Holds(r) /\ Holds(q) /\ at[r] = at[q] => r = q
    /\ \A d \in Dirs : dirs[d] # None => \E r \in Runs : at[r] = d /\ Holds(r)

\* What passed the last look is whole.
CheckedIsWhole == \A r \in Runs : stage[r] = "checked" => dirs[at[r]] = Final

\* Together these are inductive; the properties follow from them.
ScaffoldInvariant == ScaffoldTypes /\ DirectoriesAreHeld /\ CheckedIsWhole /\ OnlyWholePlugins

\* What the template's files are at both ends.
LEMMA TreesTyped == NoTree \in Trees /\ Final \in Trees /\ NoTree # None /\ Final # None
  BY NoneAssumption DEF NoTree, Final, Trees

\* A run leaves its block: its directory goes, and no other run's.
LEMMA LeaveKeeps ==
    ASSUME ScaffoldInvariant, NEW r \in Runs, NEW s \in {"exists", "failed", "created"},
           stage[r] \notin Ended, Leave(r, s)
    PROVE  ScaffoldInvariant'
<1> USE DEF ScaffoldInvariant
<1>1. /\ stage' = [stage EXCEPT ![r] = s] /\ output' = output /\ at' = at
      /\ dirs' = IF at[r] = None THEN dirs ELSE [dirs EXCEPT ![at[r]] = None]
  BY DEF Leave, Goto
<1>2. /\ stage'[r] = s /\ \A q \in Runs \ {r} : stage'[q] = stage[q]
      /\ \A d \in Dirs : dirs'[d] = IF d = at[r] THEN None ELSE dirs[d]
  BY <1>1, NoneAssumption DEF ScaffoldTypes
<1>3. ~Holds(r)' /\ \A q \in Runs \ {r} : Holds(q)' <=> Holds(q)
  BY <1>1, <1>2 DEF Holds, Strayed, AtWork
<1>4. ScaffoldTypes'
  BY <1>1 DEF ScaffoldTypes, Stages, Ended
<1>5. \A q \in Runs \ {r} : Holds(q) => at[q] \in Dirs /\ at[q] # at[r]
  <2> SUFFICES ASSUME NEW q \in Runs \ {r}, Holds(q), at[q] = at[r] PROVE FALSE
    BY DEF DirectoriesAreHeld
  <2>1. Holds(r)
    <3>1. stage[r] \in {"idle", "begun"} \/ stage[r] \in AtWork
      BY DEF ScaffoldTypes, Stages
    <3> QED  BY <3>1, NoneAssumption DEF DirectoriesAreHeld, Holds
  <2> QED  BY <2>1 DEF DirectoriesAreHeld
<1>6. DirectoriesAreHeld'
  <2>1. \A q \in Runs : stage'[q] \in {"idle", "begun"} => at'[q] = None
    BY <1>1, <1>2 DEF DirectoriesAreHeld
  <2>2. \A q \in Runs : Holds(q)' => at'[q] \in Dirs /\ dirs'[at'[q]] # None
    BY <1>1, <1>2, <1>3, <1>5 DEF DirectoriesAreHeld
  <2>3. \A p, q \in Runs : Holds(p)' /\ Holds(q)' /\ at'[p] = at'[q] => p = q
    BY <1>1, <1>3 DEF DirectoriesAreHeld
  <2>4. \A d \in Dirs : dirs'[d] # None => \E q \in Runs : at'[q] = d /\ Holds(q)'
    BY <1>1, <1>2, <1>3 DEF DirectoriesAreHeld
  <2> QED  BY <2>1, <2>2, <2>3, <2>4 DEF DirectoriesAreHeld
<1>7. CheckedIsWhole'
  <2> SUFFICES ASSUME NEW q \in Runs \ {r}, stage[q] = "checked" PROVE dirs'[at[q]] = Final
    BY <1>1, <1>2 DEF CheckedIsWhole
  <2>1. Holds(q)
    BY DEF Holds, Strayed, AtWork
  <2> QED  BY <1>2, <1>5, <2>1 DEF CheckedIsWhole
<1>8. OnlyWholePlugins'
  BY <1>1 DEF OnlyWholePlugins
<1> QED  BY <1>4, <1>6, <1>7, <1>8

\* A run works in its own directory, and moves on.
LEMMA WorkKeeps ==
    ASSUME ScaffoldInvariant, NEW r \in Runs, stage[r] \in AtWork,
           NEW s \in AtWork, NEW tree \in Trees,
           stage' = [stage EXCEPT ![r] = s], dirs' = [dirs EXCEPT ![at[r]] = tree], at' = at,
           s = "checked" => tree = Final,
           output' \in [kind : Kinds, tree : Trees], OnlyWholePlugins'
    PROVE  ScaffoldInvariant'
<1> USE DEF ScaffoldInvariant
<1>1. Holds(r) /\ at[r] \in Dirs
  BY DEF Holds, DirectoriesAreHeld
<1>2. /\ stage'[r] = s /\ \A q \in Runs \ {r} : stage'[q] = stage[q]
      /\ \A d \in Dirs : dirs'[d] = IF d = at[r] THEN tree ELSE dirs[d]
      /\ tree # None
  BY <1>1, NoneAssumption DEF ScaffoldTypes
<1>3. \A q \in Runs : Holds(q)' <=> Holds(q)
  BY <1>1, <1>2 DEF Holds, Strayed, AtWork
<1>4. ScaffoldTypes'
  BY <1>1 DEF ScaffoldTypes, Stages
<1>5. DirectoriesAreHeld'
  <2>1. \A q \in Runs : stage'[q] \in {"idle", "begun"} => at'[q] = None
    BY <1>2 DEF DirectoriesAreHeld, AtWork
  <2>2. \A d \in Dirs : dirs'[d] # None <=> dirs[d] # None
    BY <1>1, <1>2 DEF DirectoriesAreHeld
  <2> QED  BY <1>3, <2>1, <2>2 DEF DirectoriesAreHeld
<1>6. CheckedIsWhole'
  <2> SUFFICES ASSUME NEW q \in Runs \ {r}, stage[q] = "checked" PROVE dirs'[at[q]] = Final
    BY <1>1, <1>2 DEF CheckedIsWhole
  <2>1. Holds(q)
    BY DEF Holds, Strayed, AtWork
  <2> QED  BY <1>1, <1>2, <2>1 DEF CheckedIsWhole, DirectoriesAreHeld
<1> QED  BY <1>4, <1>5, <1>6

\* Every step of a run keeps the invariant.
LEMMA StepKeeps ==
    ASSUME ScaffoldInvariant, NEW r \in Runs, Step(r)
    PROVE  ScaffoldInvariant'
<1> USE DEF ScaffoldInvariant
<1>1. CASE Begin(r) \/ CleanupFails(r) \/ Killed(r)
  <2>1. /\ UNCHANGED <<output, dirs, at>>
        /\ \/ stage[r] = "idle" /\ stage' = [stage EXCEPT ![r] = "begun"]
           \/ stage[r] = "idle" /\ stage' = [stage EXCEPT ![r] = "exists"]
           \/ stage[r] \in AtWork /\ stage' = [stage EXCEPT ![r] = "littered"]
           \/ stage[r] \notin Ended /\ stage' = [stage EXCEPT ![r] = "killed"]
    BY <1>1 DEF Begin, CleanupFails, Killed, Goto
  <2>2. /\ \A q \in Runs \ {r} : stage'[q] = stage[q]
        /\ stage'[r] \in {"begun", "exists", "littered", "killed"}
        /\ stage'[r] = "littered" => stage[r] \in AtWork
        /\ stage'[r] \in {"begun", "exists"} => stage[r] = "idle"
        /\ stage[r] \in {"idle", "begun"} \cup AtWork
    BY <2>1 DEF ScaffoldTypes, Stages, Ended, AtWork
  <2>3. \A q \in Runs : Holds(q)' <=> Holds(q)
    BY <2>1, <2>2, NoneAssumption DEF Holds, Strayed, AtWork, DirectoriesAreHeld
  <2>4. ScaffoldTypes'
    BY <2>1, <2>2 DEF ScaffoldTypes, Stages, Ended
  <2>5. DirectoriesAreHeld'
    BY <2>1, <2>2, <2>3 DEF DirectoriesAreHeld
  <2>6. CheckedIsWhole' /\ OnlyWholePlugins'
    BY <2>1, <2>2 DEF CheckedIsWhole, OnlyWholePlugins
  <2> QED  BY <2>4, <2>5, <2>6
<1>2. CASE MakeStaging(r)
  <2>1. PICK d \in Dirs : /\ dirs[d] = None
                          /\ at' = [at EXCEPT ![r] = d]
                          /\ dirs' = [dirs EXCEPT ![d] = NoTree]
    BY <1>2 DEF MakeStaging
  <2>2. stage[r] = "begun" /\ stage' = [stage EXCEPT ![r] = "copying"] /\ output' = output
    BY <1>2 DEF MakeStaging, Goto
  <2>3. /\ \A q \in Runs \ {r} : stage'[q] = stage[q] /\ at'[q] = at[q]
        /\ stage'[r] = "copying" /\ at'[r] = d
        /\ \A e \in Dirs : dirs'[e] = IF e = d THEN NoTree ELSE dirs[e]
    BY <2>1, <2>2 DEF ScaffoldTypes
  <2>4. Holds(r)' /\ \A q \in Runs \ {r} : /\ Holds(q)' <=> Holds(q)
                                           /\ Holds(q) => at[q] \in Dirs /\ at[q] # d
    BY <2>1, <2>3 DEF Holds, Strayed, AtWork, DirectoriesAreHeld
  <2>5. ScaffoldTypes'
    BY <2>1, <2>2, TreesTyped DEF ScaffoldTypes, Stages, AtWork
  <2>6. DirectoriesAreHeld'
    <3>1. \A q \in Runs : stage'[q] \in {"idle", "begun"} => at'[q] = None
      BY <2>3 DEF DirectoriesAreHeld
    <3>2. \A q \in Runs : Holds(q)' => at'[q] \in Dirs /\ dirs'[at'[q]] # None
      BY <2>3, <2>4, TreesTyped DEF DirectoriesAreHeld
    <3>3. \A p, q \in Runs : Holds(p)' /\ Holds(q)' /\ at'[p] = at'[q] => p = q
      BY <2>3, <2>4 DEF DirectoriesAreHeld
    <3>4. \A e \in Dirs : dirs'[e] # None => \E q \in Runs : at'[q] = e /\ Holds(q)'
      <4> SUFFICES ASSUME NEW e \in Dirs, dirs'[e] # None, e # d
                   PROVE  \E q \in Runs : at'[q] = e /\ Holds(q)'
        BY <2>3, <2>4
      <4>1. PICK q \in Runs : at[q] = e /\ Holds(q)
        BY <2>3 DEF DirectoriesAreHeld
      <4>2. q # r
        BY <2>2, <4>1 DEF Holds, Strayed, AtWork
      <4> QED  BY <2>3, <2>4, <4>1, <4>2
    <3> QED  BY <3>1, <3>2, <3>3, <3>4 DEF DirectoriesAreHeld
  <2>7. CheckedIsWhole'
    <3> SUFFICES ASSUME NEW q \in Runs \ {r}, stage[q] = "checked" PROVE dirs'[at[q]] = Final
      BY <2>3 DEF CheckedIsWhole
    <3>1. Holds(q)
      BY DEF Holds, Strayed, AtWork
    <3> QED  BY <2>3, <2>4, <3>1 DEF CheckedIsWhole
  <2> QED  BY <2>2, <2>5, <2>6, <2>7 DEF OnlyWholePlugins
<1>3. ASSUME stage[r] \in AtWork
      PROVE  at[r] \in Dirs /\ dirs[at[r]] \in Trees /\ [dirs EXCEPT ![at[r]] = dirs[at[r]]] = dirs
  BY <1>3 DEF Holds, DirectoriesAreHeld, ScaffoldTypes
<1>4. ASSUME NEW f \in Files, Copy(r, f) \/ Specialise(r, f) PROVE ScaffoldInvariant'
  <2>1. PICK x \in {"raw", "final"} : dirs' = [dirs EXCEPT ![at[r]] = [@ EXCEPT ![f] = x]]
    BY <1>4 DEF Copy, Specialise
  <2>2. stage[r] = "copying" /\ UNCHANGED <<output, at, stage>>
    BY <1>4 DEF Copy, Specialise
  <2> DEFINE tree == [dirs[at[r]] EXCEPT ![f] = x]
  <2>3. /\ tree \in Trees /\ dirs' = [dirs EXCEPT ![at[r]] = tree]
        /\ stage' = [stage EXCEPT ![r] = "copying"]
    BY <1>3, <2>1, <2>2 DEF Trees, AtWork, ScaffoldTypes
  <2> HIDE DEF tree
  <2>4. output' \in [kind : Kinds, tree : Trees] /\ OnlyWholePlugins'
    BY <2>2 DEF ScaffoldTypes, OnlyWholePlugins
  <2> QED  BY <2>2, <2>3, <2>4, WorkKeeps DEF AtWork
<1>5. CASE Check(r)
  <2>1. CASE output.kind = "absent"
    <3>1. /\ stage[r] = "copying" /\ stage' = [stage EXCEPT ![r] = "checked"]
          /\ dirs[at[r]] = Final /\ UNCHANGED <<output, dirs, at>>
      BY <1>5, <2>1 DEF Check, Goto
    <3>2. dirs' = [dirs EXCEPT ![at[r]] = Final]
      BY <1>3, <3>1 DEF AtWork
    <3>3. output' \in [kind : Kinds, tree : Trees] /\ OnlyWholePlugins'
      BY <3>1 DEF ScaffoldTypes, OnlyWholePlugins
    <3> QED  BY <3>1, <3>2, <3>3, WorkKeeps, TreesTyped DEF AtWork
  <2>2. CASE output.kind # "absent"
    BY <1>5, <2>2, LeaveKeeps DEF Check, Ended
  <2> QED  BY <2>1, <2>2
<1>6. CASE Rename(r)
  <2>1. CASE output.kind \in {"absent", "empty"}
    <3>1. /\ stage[r] = "checked" /\ stage' = [stage EXCEPT ![r] = "renamed"]
          /\ output' = [kind |-> "plugin", tree |-> dirs[at[r]]]
          /\ dirs' = [dirs EXCEPT ![at[r]] = NoTree] /\ at' = at
      BY <1>6, <2>1 DEF Rename, Goto
    <3>2. dirs[at[r]] = Final
      BY <3>1 DEF CheckedIsWhole
    <3>3. output' \in [kind : Kinds, tree : Trees] /\ OnlyWholePlugins'
      BY <3>1, <3>2, TreesTyped DEF Kinds, OnlyWholePlugins
    <3> QED  BY <3>1, <3>3, WorkKeeps, TreesTyped DEF AtWork
  <2>2. CASE output.kind \notin {"absent", "empty"}
    BY <1>6, <2>2, LeaveKeeps DEF Rename, Ended
  <2> QED  BY <2>1, <2>2
<1>7. CASE Finish(r) \/ Fail(r)
  BY <1>7, LeaveKeeps DEF Finish, Fail, Ended
<1> QED  BY <1>1, <1>2, <1>4, <1>5, <1>6, <1>7 DEF Step

\* In every reachable state the invariant holds.
LEMMA ScaffoldInvariantHolds == Spec => []ScaffoldInvariant
<1>1. Init => ScaffoldInvariant
  BY TreesTyped
     DEF Init, ScaffoldInvariant, ScaffoldTypes, DirectoriesAreHeld, CheckedIsWhole, OnlyWholePlugins,
         Holds, There, Kinds, Stages, AtWork
<1>2. ScaffoldInvariant /\ [Next]_vars => ScaffoldInvariant'
  <2> SUFFICES ASSUME ScaffoldInvariant, [Next]_vars PROVE ScaffoldInvariant'
    OBVIOUS
  <2>1. CASE SomebodyElse
    BY <2>1, TreesTyped
       DEF SomebodyElse, There, Kinds, ScaffoldInvariant, ScaffoldTypes, DirectoriesAreHeld,
           CheckedIsWhole, OnlyWholePlugins, Holds
  <2>2. CASE UNCHANGED vars
    BY <2>2 DEF vars, ScaffoldInvariant, ScaffoldTypes, DirectoriesAreHeld, CheckedIsWhole,
       OnlyWholePlugins, Holds
  <2> QED  BY <2>1, <2>2, StepKeeps DEF Next
<1> QED  BY <1>1, <1>2, PTL DEF Spec

\* A run never puts half a plugin, or one with a marker left in it, in place.
THEOREM PluginsAreWhole == Spec => []OnlyWholePlugins
  BY ScaffoldInvariantHolds, PTL DEF ScaffoldInvariant

\* Runs never share a staging directory, and leave none behind unless they are
\* killed or its removal fails.
THEOREM StagingIsOwned == Spec => []StagingBelongsToRuns
<1>1. ScaffoldInvariant => StagingBelongsToRuns
  <2> SUFFICES ASSUME ScaffoldInvariant PROVE StagingBelongsToRuns
    OBVIOUS
  <2>1. ASSUME NEW r \in Runs, stage[r] \in AtWork, NEW q \in Runs \ {r}, at[q] = at[r]
        PROVE  stage[q] \in Ended \ Strayed
    <3>1. Holds(r) /\ at[q] # None /\ ~Holds(q)
      BY <2>1, NoneAssumption DEF ScaffoldInvariant, DirectoriesAreHeld, Holds
    <3> QED
      BY <3>1 DEF ScaffoldInvariant, ScaffoldTypes, DirectoriesAreHeld, Holds, Stages
  <2>2. \A r \in Runs : stage[r] \in AtWork => dirs[at[r]] # None
    BY DEF ScaffoldInvariant, DirectoriesAreHeld, Holds
  <2>3. \A r \in Runs : Holds(r) => stage[r] \notin Ended \ Strayed
    BY DEF Holds, Strayed, AtWork, Ended
  <2> QED  BY <2>1, <2>2, <2>3 DEF StagingBelongsToRuns, ScaffoldInvariant, DirectoriesAreHeld
<1> QED  BY <1>1, ScaffoldInvariantHolds, PTL

\* No run replaces a file, a directory with content or a plugin at the destination.
THEOREM NothingIsOverwritten == Spec => NeverOverwrites
<1>1. [Next]_vars => [~SomebodyElse /\ output.kind \in {"file", "content", "plugin"} => output' = output]_vars
  BY DEF Next, Step, Begin, MakeStaging, Copy, Specialise, Check, Rename, Finish, Fail, CleanupFails, Killed,
     Leave
<1> QED  BY <1>1, PTL DEF Spec, NeverOverwrites
=============================================================================
