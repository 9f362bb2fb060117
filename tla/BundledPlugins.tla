---------------------------- MODULE BundledPlugins ----------------------------
(***************************************************************************)
(* The two bundled plugins, demo and runbook, as the manager drives them:  *)
(* the service object each builds, starts, stops and drops in its hooks,   *)
(* and what its route answers at any moment between two suspensions.       *)
(*                                                                         *)
(* The module adds one variable to PluginManager and restricts the hooks   *)
(* it leaves open: a bundled plugin returns from its first hook only with  *)
(* its service registered, subscribes to nothing, and, where it consumes a *)
(* service, looks it up first.  Other plugins stay free.                   *)
(***************************************************************************)
EXTENDS PluginManager

CONSTANT Bundled    \* demo and runbook, among the plugins

\* Both are in the checkout, and runbook depends on demo alone.
ASSUME BundledAssumption == Bundled \subseteq Plugins /\ \A p \in Bundled : Deps[p] \subseteq Bundled

VARIABLE service    \* [Bundled -> {"none", "idle", "running"}], the service objects

Views == INSTANCE PlatformViews WITH offered <- {}

Titles == {"absent", "blank", "given"}
-----------------------------------------------------------------------------
(* What the routes answer, and what the plugins report of themselves.      *)

\* GreetingService.message
Message(p) == IF service[p] = "running" THEN "ok" ELSE "greeting_unavailable"

\* GET /plugins/demo/greeting
Greeting(p) == IF Message(p) = "ok" THEN "200" ELSE "503"

\* The objects runbook kept, that still answer.
Answering(p) == {s \in captured[p] : incarnation[s[1]] = s[2] /\ Message(s[1]) = "ok"}

\* RunbookService.preview: checks itself, then the title, then asks for the greeting.
PreviewResult(p, title) ==
    IF service[p] # "running"          THEN "unavailable"
    ELSE IF title = "blank"            THEN "invalid_title"
    ELSE IF Answering(p) # captured[p] THEN "greeting_unavailable"
    ELSE "ok"

\* GET /plugins/runbook/preview, which expects the first two and not the third.
Preview(p, title) ==
    LET result == PreviewResult(p, title)
    IN  CASE result = "ok"            -> "200"
          [] result = "unavailable"   -> "503"
          [] result = "invalid_title" -> "400"
          [] OTHER                    -> "500"

\* _on_health_check of both; other plugins report themselves healthy.
Report == [p \in Plugins |-> IF p \in Bundled /\ service[p] # "running" THEN "degraded" ELSE "healthy"]
-----------------------------------------------------------------------------
(* What the hooks do to the service.                                       *)

\* p comes to this place: the code of the hook runs up to its first await.
Enters(p, place) == \E t \in Tasks : target'[t] = p /\ pc[t] # place /\ pc'[t] = place

\* The stop hook of p returned.
Dropped(p) == \E t \in Tasks : target[t] = p /\ pc[t] = "stop_hook" /\ pc'[t] = "stop_publish"

Built(p) == \E c \in Capabilities : services[c] # p /\ services'[c] = p

\* Mutant: the stop hook forgets to stop the service.
NextServiceUnstopped(p) ==
    CASE Built(p)                 -> "idle"
      [] Enters(p, "start_hook")  -> IF service[p] = "none" THEN "none" ELSE "running"
      [] OTHER                    -> service[p]

NextService(p) ==
    CASE Built(p)                 -> "idle"
      [] Enters(p, "start_hook")  -> IF service[p] = "none" THEN "none" ELSE "running"
      [] Enters(p, "stop_hook")   -> IF service[p] = "none" THEN "none" ELSE "idle"
      [] Dropped(p)               -> "none"
      [] OTHER                    -> service[p]

\* What the hooks of the bundled plugins do and do not do of what a hook may.
BundledHooks ==
    \A p \in Bundled :
        /\ Built(p) /\ Deps[p] # {} => captured[p] # {}
        /\ \A s \in captured'[p] : s[1] \in Deps[p]
        /\ Enters(p, "init_publish") => service[p] # "none" /\ MissingCapabilities(p) = {}
        /\ p \notin subscribers'

BundledInit == Init /\ service = [p \in Bundled |-> "none"]

BundledNext ==
    /\ Next
    /\ BundledHooks
    /\ service' = [p \in Bundled |-> NextService(p)]

BundledSpec == BundledInit /\ [][BundledNext]_<<vars, service>>
-----------------------------------------------------------------------------
(* Properties.                                                             *)

\* The preview never meets a greeting that does not answer: no stop, restart,
\* failure or shutdown of demo leaves a running runbook with its old object, and
\* none withdraws the greeting while runbook still serves.
PreviewNeverFails ==
    \A p \in Bundled, title \in Titles : Preview(p, title) # "500"

\* Where no operation has the plugin in hand, its route answers exactly when the
\* catalog says that it runs.
RoutesFollowTheState ==
    \A p \in Bundled : (\A t \in Tasks : Engaged(t) => target[t] # p) =>
        (Greeting(p) = "200" <=> state[p] = "running")

\* A bundled plugin is reported degraded only while it is being stopped; at rest
\* the platform status has no degraded plugins.
DegradedOnlyWhileStopping ==
    \A p \in Bundled : Views!Category(p, Report) = "degraded" =>
        \E t \in Tasks : target[t] = p /\ pc[t] \in StopHooks

\* The service object and the state the manager keeps never come apart for longer
\* than an operation.
AnswersFollowTheState == RoutesFollowTheState /\ DegradedOnlyWhileStopping
=============================================================================
