----------------------------- MODULE PluginCatalog -----------------------------
(***************************************************************************)
(* How the manager gets its plugins (manager.discover and manager.validate *)
(* with plugins/loader.py), as create_app calls them before the process    *)
(* serves: the manifests of all roots are read, the capability owners and  *)
(* the dependency graph are checked, and only then is each plugin's code   *)
(* imported, in startup order, failures isolated.                          *)
(*                                                                         *)
(* resolve() is DependencyResolver, whose steps are steps of validate().   *)
(***************************************************************************)
EXTENDS DependencyResolver

CONSTANTS
    Capabilities,
    Installations   \* what may lie in the plugin roots

\* roots holds, for each configured root in order, the manifests of its
\* directories; a root that is missing, or holds an invalid manifest, is bad.
ASSUME InstallationsAssumption ==
    Installations \subseteq
        [roots : Seq(SUBSET Ids), bad : SUBSET Nat, declares : [Ids -> SUBSET Capabilities],
         requires : [Ids -> SUBSET Ids], rejects : SUBSET (Ids \X Ids)]

\* resolve() may be given the manifests of any installation, as far as they were read.
ASSUME ManifestsAssumption ==
    \A i \in Installations, P \in SUBSET Ids :
        [ids |-> P, requires |-> i.requires, rejects |-> i.rejects] \in Catalogs

VARIABLES
    installation,
    pc,             \* where create_app is
    candidates,     \* manager._candidates
    position,       \* of the root that is read, or of the plugin that is loaded
    reason,         \* PluginRecord.error_reason
    instances,      \* the plugins with a PluginRecord.instance
    imported,       \* the plugins load() was called for
    modules         \* what sys.modules holds of each plugin: <<plugin, part>>

loadVars == <<reason, instances, imported, modules>>
catalogVars == <<installation, pc, candidates, position, loadVars>>
vars == <<catalogVars, resolverVars>>

\* A plugin's modules: its package and the module of its entry point.
Parts == {"package", "entrypoint"}

\* In these its code, or what it made, is in the hands of validate().
CodeRuns    == {"package_runs", "entrypoint_runs"}
LoadStages  == {"entering"} \cup CodeRuns \cup {"constructed", "accepted"}
-----------------------------------------------------------------------------
(* discover().                                                             *)

Fail == pc' = "failed"

\* discover_root raises for a root that is missing or holds a bad manifest.
RefuseRoot ==
    /\ pc = "discovering"
    /\ position \in DOMAIN installation.roots
    /\ position \in installation.bad
    /\ Fail
    /\ UNCHANGED <<installation, candidates, position, loadVars, resolverVars>>

\* An id of the root was found before; the ids of lesser rank are kept.
RefuseDuplicate ==
    /\ pc = "discovering"
    /\ position \in DOMAIN installation.roots
    /\ position \notin installation.bad
    /\ LET root == installation.roots[position]
       IN /\ root \cap candidates # {}
          /\ candidates' = candidates
                 \cup {p \in root : \A q \in root \cap candidates : p < q}
    /\ Fail
    /\ UNCHANGED <<installation, position, loadVars, resolverVars>>

\* Mutant: an id found again is not noticed.
ReadRootAgain ==
    /\ pc = "discovering"
    /\ position \in DOMAIN installation.roots
    /\ position \notin installation.bad
    /\ candidates' = candidates \cup installation.roots[position]
    /\ position' = position + 1
    /\ UNCHANGED <<installation, pc, loadVars, resolverVars>>

ReadRoot ==
    /\ pc = "discovering"
    /\ position \in DOMAIN installation.roots
    /\ position \notin installation.bad
    /\ installation.roots[position] \cap candidates = {}
    /\ candidates' = candidates \cup installation.roots[position]
    /\ position' = position + 1
    /\ UNCHANGED <<installation, pc, loadVars, resolverVars>>

\* All roots are read, and validate() begins.
BeginValidation ==
    /\ pc = "discovering"
    /\ position \notin DOMAIN installation.roots
    /\ pc' = "checking_owners"
    /\ UNCHANGED <<installation, candidates, position, loadVars, resolverVars>>
-----------------------------------------------------------------------------
(* validate(): the graph.                                                  *)

\* _validate_capability_ownership
OwnersAreUnique ==
    \A p, q \in candidates :
        p # q => installation.declares[p] \cap installation.declares[q] = {}

CheckOwners ==
    /\ pc = "checking_owners"
    /\ IF OwnersAreUnique
       THEN /\ pc' = "resolving"
            /\ stage' = "called"
            /\ manifests' = [ids |-> candidates, requires |-> installation.requires,
                             rejects |-> installation.rejects]
            /\ indegree' = [p \in candidates |-> 0]
       ELSE Fail /\ UNCHANGED <<stage, manifests, indegree>>
    /\ UNCHANGED <<installation, candidates, position, loadVars, heap, result, cyclic>>

\* resolve() runs.
ResolveStep ==
    /\ pc = "resolving"
    /\ Resolve
    /\ UNCHANGED catalogVars

\* resolve() returned, and there is a record for each candidate; or it raised.
Resolved ==
    /\ pc = "resolving"
    /\ Over
    /\ IF stage = "done" THEN pc' = "loading" /\ position' = 1
                         ELSE Fail /\ UNCHANGED position
    /\ UNCHANGED <<installation, candidates, loadVars, resolverVars>>
-----------------------------------------------------------------------------
(* validate(): the code.                                                   *)

Current == result[position]

\* Mutant: a dependency is there if its manifest is.
UnavailableByManifest == requires[Current] \ candidates

\* dependency_unavailable: the dependencies without an instance.
Unavailable == {d \in requires[Current] : d \notin instances}

\* A dependency has no instance: the code is not imported.
SkipDependent ==
    /\ pc = "loading" /\ position \in DOMAIN result
    /\ Unavailable # {}
    /\ reason' = [reason EXCEPT ![Current] = "dependency_unavailable"]
    /\ position' = position + 1
    /\ UNCHANGED <<installation, pc, candidates, instances, imported, modules, resolverVars>>

\* _remove_package_modules: the package, and all below its name.
Forget(p) == {m \in modules : m[1] # p}

\* load() is called, and clears the name of the package.
BeginLoad ==
    /\ pc = "loading" /\ position \in DOMAIN result
    /\ Unavailable = {}
    /\ pc' = "entering"
    /\ imported' = imported \cup {Current}
    /\ modules' = Forget(Current)
    /\ UNCHANGED <<installation, candidates, position, reason, instances, resolverVars>>

\* The record gets a reason, and validate() goes on to the next plugin.
Refuse(why) ==
    /\ pc' = "loading"
    /\ reason' = [reason EXCEPT ![Current] = why]
    /\ position' = position + 1
    /\ UNCHANGED <<installation, candidates, instances, imported, resolverVars>>

Goto(place) ==
    /\ pc' = place
    /\ UNCHANGED <<installation, candidates, position, reason, instances, imported, resolverVars>>

\* There is no __init__.py, or no file for the module of the entry point.
FilesMissing ==
    /\ pc = "entering"
    /\ UNCHANGED modules
    /\ Refuse("load_error")

\* Each module is in sys.modules before its code runs.
EnterPackage ==
    /\ pc = "entering"
    /\ modules' = modules \cup {<<Current, "package">>}
    /\ Goto("package_runs")

EnterModule ==
    /\ pc = "package_runs"
    /\ modules' = modules \cup {<<Current, "entrypoint">>}
    /\ Goto("entrypoint_runs")

\* The class is found, and its constructor returns.
Construct ==
    /\ pc = "entrypoint_runs"
    /\ UNCHANGED modules
    /\ Goto("constructed")

\* except PluginLoadError: no spec for the module, or its class is no BasePlugin.
NoPlugin ==
    /\ pc \in CodeRuns
    /\ modules' = Forget(Current)
    /\ Refuse("load_error")

\* except Exception: the code of a module, the attribute or the constructor raised.
CodeRaises ==
    /\ pc \in CodeRuns
    /\ modules' = Forget(Current)
    /\ Refuse("load_error")

\* except BaseException: the code raised SystemExit, say; it leaves create_app.
CodeExits ==
    /\ pc \in CodeRuns
    /\ modules' = Forget(Current)
    /\ Fail
    /\ UNCHANGED <<installation, candidates, position, reason, instances, imported, resolverVars>>

\* The object has another manifest than the one validated.
ManifestChanged ==
    /\ pc = "constructed"
    /\ modules' = Forget(Current)
    /\ Refuse("load_error")

\* load() returns the object.
Accept ==
    /\ pc = "constructed"
    /\ UNCHANGED modules
    /\ Goto("accepted")

\* The object is no complete BasePlugin, and reading its manifest, its router or its
\* settings class raises, outside any try.
Escape ==
    /\ pc \in {"constructed", "accepted"}
    /\ Fail
    /\ UNCHANGED <<installation, candidates, position, loadVars, resolverVars>>

\* Mutant: a plugin with a reserved route is not unloaded.
ReservedRouteStays ==
    /\ pc = "accepted"
    /\ UNCHANGED modules
    /\ Refuse("reserved_route")

\* Its router has a route of the management API: unload().
ReservedRoute ==
    /\ pc = "accepted"
    /\ modules' = Forget(Current)
    /\ Refuse("reserved_route")

\* Its settings class is none: unload().
BadSettings ==
    /\ pc = "accepted"
    /\ modules' = Forget(Current)
    /\ Refuse("load_error")

\* The plugin is marked validated, and its record has an instance.
Keep ==
    /\ pc = "accepted"
    /\ pc' = "loading"
    /\ instances' = instances \cup {Current}
    /\ position' = position + 1
    /\ UNCHANGED <<installation, candidates, reason, imported, modules, resolverVars>>

LoadStep ==
    \/ BeginLoad \/ FilesMissing \/ EnterPackage \/ EnterModule \/ Construct
    \/ NoPlugin \/ CodeRaises \/ CodeExits
    \/ ManifestChanged \/ Accept \/ Escape
    \/ ReservedRoute \/ BadSettings \/ Keep

\* validate() returns: the manager has its records and its startup order.
Validated ==
    /\ pc = "loading" /\ position \notin DOMAIN result
    /\ pc' = "validated"
    /\ UNCHANGED <<installation, candidates, position, loadVars, resolverVars>>

\* create_app is over.
Terminated == pc \in {"failed", "validated"} /\ UNCHANGED vars
-----------------------------------------------------------------------------
CatalogInit ==
    /\ installation \in Installations
    /\ pc = "discovering"
    /\ candidates = {}
    /\ position = 1
    /\ reason = [p \in Ids |-> "none"]
    /\ instances = {}
    /\ imported = {}
    /\ modules = {}
    /\ manifests = [ids |-> {}, requires |-> installation.requires,
                    rejects |-> installation.rejects]
    /\ stage = "idle"
    /\ indegree = [p \in {} |-> 0]
    /\ heap = {}
    /\ result = <<>>
    /\ cyclic = {}

CatalogNext ==
    \/ RefuseRoot \/ RefuseDuplicate \/ ReadRoot \/ BeginValidation
    \/ CheckOwners \/ ResolveStep \/ Resolved
    \/ SkipDependent \/ LoadStep \/ Validated
    \/ Terminated

CatalogSpec == CatalogInit /\ [][CatalogNext]_vars
-----------------------------------------------------------------------------
(* Invariants.                                                             *)

Roots == DOMAIN installation.roots

\* No plugin code runs unless the whole set of manifests is in order: all roots
\* readable, no id twice, one owner for each capability, every dependency there
\* in an accepted version, and no cycle.
NothingImportedFromABrokenSet ==
    imported # {} =>
        /\ installation.bad \cap Roots = {}
        /\ candidates = UNION {installation.roots[r] : r \in Roots}
        /\ \A r, s \in Roots : r # s => installation.roots[r] \cap installation.roots[s] = {}
        /\ \A p, q \in candidates :
              installation.declares[p] \cap installation.declares[q] # {} => p = q
        /\ \A p \in candidates : installation.requires[p] \subseteq candidates \ {p}
        /\ \A p \in candidates, d \in Ids :
              d \in installation.requires[p] => <<p, d>> \notin installation.rejects
        /\ \A S \in SUBSET candidates : ~Knot(S)

\* What start_all finds: each candidate once in the startup order, behind all it
\* depends on; no loaded plugin without one of its dependencies, and no capability
\* with two owners.  PluginManager takes this for granted of its constants and of
\* its first state; here reading, checking, sorting and loading bring it about.
StartupHasGround ==
    pc = "validated" =>
        /\ \A p \in candidates : \E i \in DOMAIN result : result[i] = p
        /\ \A i, j \in DOMAIN result :
              /\ result[i] = result[j] => i = j
              /\ result[j] \in installation.requires[result[i]] => j < i
        /\ instances \subseteq candidates
        /\ \A p \in instances : installation.requires[p] \subseteq instances
        /\ \A p, q \in candidates :
              installation.declares[p] \cap installation.declares[q] # {} => p = q

\* Every record tells what became of its plugin: an instance and no reason, or
\* no instance and a reason; a reason blames the dependencies exactly when one
\* of them has no instance, and the plugin's own code exactly when its import
\* was attempted.
ReasonsAreRight ==
    pc = "validated" =>
        \A p \in candidates :
            /\ reason[p] = "none" <=> p \in instances
            /\ reason[p] = "dependency_unavailable" <=> ~(requires[p] \subseteq instances)
            /\ reason[p] \in {"load_error", "reserved_route"} <=> p \in imported \ instances

\* Code that failed leaves nothing in the interpreter for the next import: sys.modules
\* holds the whole of each plugin with an instance, and of others at most the one
\* that is being loaded.  Every way out of a load has a removal of its own.
OnlyInstancesStayImported ==
    /\ pc \in {"loading", "validated"} => modules = instances \X Parts
    /\ pc \in LoadStages => Forget(Current) = instances \X Parts

=============================================================================
