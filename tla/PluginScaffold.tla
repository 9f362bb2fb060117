---------------------------- MODULE PluginScaffold ----------------------------
(***************************************************************************)
(* The scaffold command (scaffold.py): several runs for one plugin id at   *)
(* once, while somebody else creates, edits and removes the destination.   *)
(* A run copies the template into a directory of its own beside the        *)
(* destination, writes the id into every file, looks at the destination    *)
(* once more and renames.  Each system call is a step; before any of them  *)
(* the run may fail, and it may be killed.                                 *)
(***************************************************************************)
EXTENDS Naturals, FiniteSets

CONSTANTS
    Runs,       \* runs of the command, with the same valid id and destination
    Dirs,       \* names mkdtemp may choose
    Files,      \* the files of the template
    None

ASSUME RoomAssumption == IsFiniteSet(Dirs) /\ Cardinality(Dirs) >= Cardinality(Runs)

\* What a directory may hold of the template.
Trees == [Files -> {"missing", "raw", "final"}]

ASSUME NoneAssumption == None \notin Dirs /\ None \notin Trees

VARIABLES
    output,     \* what is at the destination
    dirs,       \* what each staging directory holds; None when it does not exist
    at,         \* the staging directory of each run
    stage       \* how far each run is

vars == <<output, dirs, at, stage>>

\* A file is missing, copied as it is in the template, or specialised.
NoTree == [f \in Files |-> "missing"]
Final  == [f \in Files |-> "final"]

\* At the destination is nothing, an empty directory, somebody's file or directory
\* with content, or ("plugin") the tree a run put there.
There(kind) == [kind |-> kind, tree |-> NoTree]

AtWork == {"copying", "checked", "renamed"}
Ended == {"exists", "failed", "created", "littered", "killed"}

\* A run that ended so left its staging directory behind.
Strayed == {"littered", "killed"}
-----------------------------------------------------------------------------
Goto(r, s) == stage' = [stage EXCEPT ![r] = s]

\* TemporaryDirectory removes the staging directory, however the block ends.
Leave(r, result) ==
    /\ Goto(r, result)
    /\ dirs' = IF at[r] = None THEN dirs ELSE [dirs EXCEPT ![at[r]] = None]
    /\ UNCHANGED <<output, at>>

\* scaffold_plugin looks at the destination.
Begin(r) ==
    /\ stage[r] = "idle"
    /\ Goto(r, IF output.kind = "absent" THEN "begun" ELSE "exists")
    /\ UNCHANGED <<output, dirs, at>>

\* Mutant: the staging directory is named after the plugin only.
MakeCommonStaging(r) ==
    /\ stage[r] = "begun"
    /\ LET d == CHOOSE d \in Dirs : TRUE
       IN  /\ at' = [at EXCEPT ![r] = d]
           /\ dirs' = IF dirs[d] = None THEN [dirs EXCEPT ![d] = NoTree] ELSE dirs
    /\ Goto(r, "copying")
    /\ UNCHANGED <<output>>

\* mkdtemp makes a directory that did not exist.
MakeStaging(r) ==
    /\ stage[r] = "begun"
    /\ \E d \in Dirs :
          /\ dirs[d] = None
          /\ at' = [at EXCEPT ![r] = d]
          /\ dirs' = [dirs EXCEPT ![d] = NoTree]
    /\ Goto(r, "copying")
    /\ UNCHANGED <<output>>

\* copytree copies one more file; like every call, not without the directory.
Copy(r, f) ==
    /\ stage[r] = "copying"
    /\ dirs[at[r]] # None /\ dirs[at[r]][f] = "missing"
    /\ dirs' = [dirs EXCEPT ![at[r]][f] = "raw"]
    /\ UNCHANGED <<output, at, stage>>

\* Once all are copied, the markers in one more file are replaced.
Specialise(r, f) ==
    /\ stage[r] = "copying"
    /\ dirs[at[r]] # None /\ dirs[at[r]][f] = "raw"
    /\ \A g \in Files : dirs[at[r]][g] # "missing"
    /\ dirs' = [dirs EXCEPT ![at[r]][f] = "final"]
    /\ UNCHANGED <<output, at, stage>>

\* Mutant: the last look comes before the files are specialised.
CheckEarly(r) ==
    /\ stage[r] = "copying"
    /\ dirs[at[r]] # None /\ \A f \in Files : dirs[at[r]][f] # "missing"
    /\ IF output.kind = "absent"
       THEN Goto(r, "checked") /\ UNCHANGED <<output, dirs, at>>
       ELSE Leave(r, "exists")

\* The last look at the destination.
Check(r) ==
    /\ stage[r] = "copying"
    /\ dirs[at[r]] = Final
    /\ IF output.kind = "absent"
       THEN Goto(r, "checked") /\ UNCHANGED <<output, dirs, at>>
       ELSE Leave(r, "exists")

\* Mutant: what appeared at the destination in between is replaced.
RenameOver(r) ==
    /\ stage[r] = "checked"
    /\ dirs[at[r]] # None
    /\ output' = [kind |-> "plugin", tree |-> dirs[at[r]]]
    /\ dirs' = [dirs EXCEPT ![at[r]] = NoTree]
    /\ Goto(r, "renamed")
    /\ UNCHANGED <<at>>

\* rename(2) replaces an empty directory, and nothing else.
Rename(r) ==
    /\ stage[r] = "checked"
    /\ dirs[at[r]] # None
    /\ IF output.kind \in {"absent", "empty"}
       THEN /\ output' = [kind |-> "plugin", tree |-> dirs[at[r]]]
            /\ dirs' = [dirs EXCEPT ![at[r]] = NoTree]
            /\ Goto(r, "renamed")
            /\ UNCHANGED <<at>>
       ELSE Leave(r, "failed")

Finish(r) == stage[r] = "renamed" /\ Leave(r, "created")

\* A system call fails, or the user interrupts the run.
Fail(r) == stage[r] \in {"begun", "copying", "checked"} /\ Leave(r, "failed")

\* The block ends, in success or not, but the removal of the directory fails: the run
\* fails, and what was not removed (here all of it) stays.
CleanupFails(r) ==
    /\ stage[r] \in AtWork
    /\ Goto(r, "littered")
    /\ UNCHANGED <<output, dirs, at>>

\* The process is killed: nothing is cleaned up.
Killed(r) ==
    /\ stage[r] \notin Ended
    /\ Goto(r, "killed")
    /\ UNCHANGED <<output, dirs, at>>

\* Somebody else works at the destination.
SomebodyElse ==
    /\ \/ /\ output.kind = "absent"
          /\ output' \in {There("empty"), There("file"), There("content")}
       \/ /\ output.kind \in {"empty", "plugin"}
          /\ output' = There("content")
       \/ /\ output.kind # "absent"
          /\ output' = There("absent")
    /\ UNCHANGED <<dirs, at, stage>>

Init ==
    /\ output \in {There("absent"), There("empty"), There("file"), There("content")}
    /\ dirs = [d \in Dirs |-> None]
    /\ at = [r \in Runs |-> None]
    /\ stage = [r \in Runs |-> "idle"]

Step(r) ==
    \/ Begin(r) \/ MakeStaging(r)
    \/ \E f \in Files : Copy(r, f) \/ Specialise(r, f)
    \/ Check(r) \/ Rename(r) \/ Finish(r) \/ Fail(r)
    \/ CleanupFails(r) \/ Killed(r)

Next == (\E r \in Runs : Step(r)) \/ SomebodyElse

Spec == Init /\ [][Next]_vars
-----------------------------------------------------------------------------
(* Properties.                                                             *)

\* The command never replaces what has content, though it looks at the
\* destination one step before it renames.
NeverOverwrites ==
    [][~SomebodyElse /\ output.kind \in {"file", "content", "plugin"} => output' = output]_vars

\* What a run puts in place is a whole plugin with no marker left in it, at every
\* moment that a discovery, or a kill, may choose.
OnlyWholePlugins == output.kind = "plugin" => output.tree = Final

\* A run at work has a staging directory that no other run takes from it, and none
\* stays in the plugin root but that of a run that is at work, was killed or could not
\* remove it: a run that fails otherwise leaves nothing that hinders a second try.
StagingBelongsToRuns ==
    /\ \A r \in Runs : stage[r] \in AtWork =>
          dirs[at[r]] # None /\ \A q \in Runs \ {r} : at[q] = at[r] => stage[q] \in Ended \ Strayed
    /\ \A d \in Dirs : dirs[d] # None =>
          \E r \in Runs : at[r] = d /\ stage[r] \notin Ended \ Strayed
=============================================================================
