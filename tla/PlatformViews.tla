---------------------------- MODULE PlatformViews ----------------------------
(***************************************************************************)
(* What the read-only routes report of the manager's state (get_view and   *)
(* platform_status of plugins/manager.py, the probes of api/router.py),    *)
(* read at any moment between two suspensions of the operations that       *)
(* PluginManager interleaves.  They write nothing: they are operators of   *)
(* the state and of what the plugins' own health checks answer, h.         *)
(*                                                                         *)
(* The one variable added remembers, for each request, whether the catalog *)
(* offered its action at the moment the operation began.                   *)
(***************************************************************************)
EXTENDS PluginManager

VARIABLE offered    \* [Requests -> BOOLEAN]

\* What _on_health_check does: answers with a status, or raises.
Reports == {"healthy", "degraded", "error", "stopped", "raises"}

\* BasePlugin.health(); a record without an instance is an error.
Health(p, h) ==
    CASE state[p] = "error"   -> "error"
      [] state[p] = "running" -> IF h[p] = "raises" THEN "error" ELSE h[p]
      [] OTHER                -> "stopped"

\* get_view
View(p, h) == [state |-> state[p], health |-> Health(p, h), actions |-> AvailableActions(p)]

\* Under which of its four counts platform_status puts a plugin.
Category(p, h) ==
    CASE state[p] = "error" \/ Health(p, h) = "error"         -> "error"
      [] state[p] = "running" /\ Health(p, h) = "degraded"    -> "degraded"
      [] state[p] = "running" /\ Health(p, h) = "healthy"     -> "running"
      [] OTHER                                                -> "stopped"

Counted(category, h) == Cardinality({p \in Plugins : Category(p, h) = category})

\* Mutant: plugins that are merely stopped do not matter if one runs.
StatusOfFailures(h) ==
    IF /\ Counted("running", h) > 0
       /\ Counted("degraded", h) = 0 /\ Counted("error", h) = 0
    THEN "healthy" ELSE "degraded"

PlatformStatus(h) ==
    IF /\ Counted("running", h) = Cardinality(Plugins)
       /\ Counted("degraded", h) = 0 /\ Counted("error", h) = 0
    THEN "healthy" ELSE "degraded"

\* GET /ready
Ready == IF phase = "ready" THEN "200" ELSE "503"
-----------------------------------------------------------------------------
ViewsInit == Init /\ offered = [t \in Requests |-> FALSE]

\* The operation of t begins: it holds the lock and is about to check.
Begins(t) == pc[t] # "granted" /\ pc'[t] = "granted"

ViewsNext ==
    /\ Next
    /\ offered' = [t \in Requests |->
           IF Begins(t)
           THEN target'[t] \in Plugins /\ op'[t] \in AvailableActions(target'[t])
           ELSE offered[t] /\ pc'[t] # "done"]

ViewsSpec == ViewsInit /\ [][ViewsNext]_<<vars, offered>>

FairViewsSpec == ViewsSpec /\ Fairness
-----------------------------------------------------------------------------
(* Properties.                                                             *)

\* The catalog and the checks of the operations agree, though they are computed
\* apart: what get_view offers when an operation begins is neither refused nor
\* without effect, not even by the start of a restart, whose stop has suspended
\* since.
OfferedActionsAct ==
    [][\A t \in Requests : offered[t] =>
          ~(Unavailable(t) \/ RefuseDependents(t) \/ DependencyMissing(t) \/ AlreadyRunning(t))]_vars

\* "healthy" is not said lightly: whatever the plugins report of themselves,
\* every record then has a running instance that stands on running ones, and
\* every declared service is registered by its owner.
HealthyPlatformServes ==
    \A h \in [Plugins -> Reports] :
        PlatformStatus(h) = "healthy" =>
            /\ loaded = Plugins
            /\ \A p \in Plugins : /\ state[p] = "running" /\ h[p] = "healthy"
                                  /\ Deps[p] \subseteq attached
                                  /\ MissingCapabilities(p) = {}

\* When the process is ready and nobody has asked for anything, startup has dealt
\* with every plugin: each runs or shows that it failed, none is left as it was
\* loaded.
ReadyMeansAttempted ==
    Ready = "200" /\ (\A t \in Requests : pc[t] = "idle") =>
        \A p \in Plugins : View(p, [q \in Plugins |-> "healthy"]).health \in {"healthy", "error"}

\* Neither the platform status nor the readiness probe claims what is not so.
ProbesTellTheTruth == HealthyPlatformServes /\ ReadyMeansAttempted
=============================================================================
