------------------------- MODULE PluginManagerSafety -------------------------
(***************************************************************************)
(* What the plugin manager promises its plugins, its callers and its host, *)
(* for every catalog, every number of requests and every choice of the     *)
(* plugins' own code.  Each promise has a strengthening of its own here,   *)
(* inductive relative to InductiveInvariant of PluginManager.              *)
(***************************************************************************)
EXTENDS PluginManagerProofs, PlatformViews, BundledPlugins, FiniteSetTheorems

USE DEF Tasks, pluginVars, lockVars, taskVars, hostVars, serverVars

-----------------------------------------------------------------------------
(* Where a step leaves the task that takes it.                             *)

\* t moves to one of these places, and no other task moves.
Moves(t, places) == \E x \in places : pc' = [pc EXCEPT ![t] = x]

Rests == {"done", "start_all", "stop_all", "exited"}

\* Whatever ends the work on a plugin ends the operation of the task.
LEMMA ConcludeMoves ==
    ASSUME NEW t, NEW r, Conclude(t, r)
    PROVE  Moves(t, Rests) /\ why' = [why EXCEPT ![t] = "none"]
  BY DEF Conclude, Answer, NextToStart, AbandonStartup, NextToStop, AbandonShutdown, Moves, Rests

\* A stop ends the operation, or goes on to the start half of a restart.
LEMMA FinishMoves ==
    ASSUME NEW t, NEW ok, FinishStop(t, ok)
    PROVE  Moves(t, Rests \cup {"starting"}) /\ why' = [why EXCEPT ![t] = "none"]
<1>1. CASE why[t] = "restart" /\ ok
  BY <1>1 DEF FinishStop, Goto, Moves
<1>2. CASE ~(why[t] = "restart" /\ ok)
  <2>1. Conclude(t, ReplyAfterStop(why[t], ok))
    BY <1>2 DEF FinishStop
  <2> QED  BY <2>1, ConcludeMoves DEF Moves
<1> QED  BY <1>1, <1>2
-----------------------------------------------------------------------------
(* Services, subscriptions and the objects plugins keep.                   *)

\* What a plugin holds is its own, complete once its capabilities were checked,
\* and taken from providers as they serve now.
Holdings ==
    /\ ResourcesBelongToAttached
    /\ RunningOffersItsCapabilities
    /\ \A t \in Tasks : pc[t] = "start_hook" => MissingCapabilities(target[t]) = {}
    /\ \A p \in Plugins : p \notin attached => captured[p] = {}
    /\ \A p \in Plugins : \A s \in captured[p] :
          s[1] \in Deps[p] \cup {p} /\ incarnation[s[1]] = s[2]

\* A step that touches no resource, makes no plugin run and passes no check.
LEMMA HoldingsUntouched ==
    ASSUME Holdings,
           UNCHANGED <<attached, services, subscribers, incarnation, captured>>,
           \A p \in Plugins : state'[p] = "running" => state[p] = "running",
           \A u \in Tasks : pc'[u] = "start_hook" => pc[u] = "start_hook" /\ target'[u] = target[u]
    PROVE  Holdings'
  BY DEF Holdings, ResourcesBelongToAttached, RunningOffersItsCapabilities, MissingCapabilities

\* The task moves elsewhere than to the start hook, and no resource is touched.
LEMMA HoldingsElsewhere ==
    ASSUME InductiveInvariant, Holdings, NEW t \in Tasks,
           UNCHANGED <<attached, services, subscribers, incarnation, captured>>,
           \A p \in Plugins : state'[p] = "running" => state[p] = "running",
           NEW X, "start_hook" \notin X, Moves(t, X),
           \A u \in Tasks : u # t => target'[u] = target[u]
    PROVE  Holdings'
<1>1. \A u \in Tasks : pc'[u] = "start_hook" => pc[u] = "start_hook" /\ target'[u] = target[u]
  BY DEF InductiveInvariant, TypeOK, Moves
<1> QED  BY <1>1, HoldingsUntouched

\* The clean-up of a plugin takes away exactly what it held.
LEMMA HoldingsReleased ==
    ASSUME InductiveInvariant, Holdings, NEW t \in Tasks, pc[t] \in StopHooks,
           Cleanup(target[t]), incarnation' = incarnation, target' = target,
           NEW s \in {"stopped", "error"}, state' = [state EXCEPT ![target[t]] = s],
           Moves(t, Rests \cup {"starting"})
    PROVE  Holdings'
<1>1. target[t] \in Plugins
  BY DEF InductiveInvariant, Progress, ProgressOf, Engaged, TypeOK
<1>2. \A u \in Tasks : pc'[u] # "start_hook"
  <2>1. Operating(t)
    BY DEF Operating
  <2>2. \A u \in Tasks : u # t => ~Operating(u)
    BY <2>1, Solo
  <2> QED  BY <2>2 DEF InductiveInvariant, TypeOK, Moves, Rests, Operating, StartHooks
<1>3. /\ attached' = attached \ {target[t]} /\ subscribers' = subscribers \ {target[t]}
      /\ captured' = [captured EXCEPT ![target[t]] = {}]
      /\ services' = [c \in Capabilities |-> IF services[c] = target[t] THEN Nobody ELSE services[c]]
  BY DEF Cleanup
<1>4. \A p \in Plugins : state'[p] = "running" => p # target[t] /\ state[p] = "running"
  BY DEF InductiveInvariant, TypeOK
<1>5. ResourcesBelongToAttached'
  BY <1>3, NamesAssumption DEF Holdings, ResourcesBelongToAttached
<1>6. RunningOffersItsCapabilities'
  <2> SUFFICES ASSUME NEW p \in Plugins, state'[p] = "running", NEW c \in Declared[p]
               PROVE  services'[c] = p
    BY DEF RunningOffersItsCapabilities
  <2>1. services[c] = p /\ c \in Capabilities /\ p # target[t]
    BY <1>4, DeclaredAssumption DEF Holdings, RunningOffersItsCapabilities
  <2> QED  BY <1>3, <2>1
<1>7. \A p \in Plugins : captured'[p] = IF p = target[t] THEN {} ELSE captured[p]
  BY <1>3 DEF InductiveInvariant, TypeOK
<1> QED  BY <1>2, <1>3, <1>5, <1>6, <1>7 DEF Holdings

\* A plugin is built with nothing in its hands, and nobody kept its last objects.
LEMMA HoldingsAttach ==
    ASSUME InductiveInvariant, Holdings, NEW t \in Tasks, Attach(t)
    PROVE  Holdings'
<1>1. /\ pc[t] = "starting" /\ state[target[t]] # "running"
      /\ attached' = attached \cup {target[t]}
      /\ incarnation' = [incarnation EXCEPT ![target[t]] = @ + 1]
      /\ Moves(t, {"init_hook"})
      /\ UNCHANGED <<state, services, subscribers, captured, target>>
  BY DEF Attach, Goto, Moves
<1>2. Operating(t) /\ ~Engaged(t)
  BY <1>1 DEF Operating, Engaged, Synchronous, StartHooks, StopHooks
<1>3. target[t] \in Plugins /\ target[t] \notin attached
  BY <1>1, <1>2, InHand
<1>4. \A u \in Tasks : pc'[u] = "start_hook" => pc[u] = "start_hook"
  BY <1>1 DEF InductiveInvariant, TypeOK, Moves
<1>5. ASSUME NEW p \in Plugins, NEW s \in captured[p]
      PROVE  s[1] \in Deps[p] \cup {p} /\ incarnation'[s[1]] = s[2]
  <2>1. p \in attached /\ s[1] \in Deps[p] \cup {p} /\ incarnation[s[1]] = s[2]
    BY <1>5 DEF Holdings
  <2>2. s[1] # target[t]
    BY <1>1, <1>3, <2>1 DEF InductiveInvariant, Standing
  <2>3. s[1] \in Plugins
    BY <2>1, DepsAssumption
  <2> QED  BY <1>1, <2>1, <2>2, <2>3 DEF InductiveInvariant, TypeOK
<1> QED
  BY <1>1, <1>4, <1>5 DEF Holdings, ResourcesBelongToAttached, RunningOffersItsCapabilities,
     MissingCapabilities

\* What the first hook takes through its context is its own or a provider's.
LEMMA HoldingsContext ==
    ASSUME InductiveInvariant, Holdings, NEW t \in Tasks,
           \/ \E c \in Capabilities : RegisterService(t, c) \/ GetService(t, c)
           \/ Subscribe(t)
    PROVE  Holdings'
<1> USE DEF Holdings, ResourcesBelongToAttached, RunningOffersItsCapabilities
<1>1. /\ pc[t] = "init_hook" /\ UNCHANGED <<pc, target, state, attached, incarnation>>
  BY DEF RegisterService, GetService, Subscribe, At
<1>2. target[t] \in attached /\ target[t] \in Plugins
  BY <1>1, InHand DEF Operating, Engaged, StartHooks
<1>3. ASSUME NEW c \in Capabilities, RegisterService(t, c) PROVE Holdings'
  <2>1. /\ c \in Declared[target[t]] /\ services[c] = Nobody
        /\ services' = [services EXCEPT ![c] = target[t]]
        /\ UNCHANGED <<subscribers, captured>>
    BY <1>3 DEF RegisterService
  <2>2. \A d \in Capabilities : services'[d] = IF d = c THEN target[t] ELSE services[d]
    BY <2>1 DEF InductiveInvariant, TypeOK
  <2>3. \A p \in Plugins : \A d \in Declared[p] : d \in Capabilities
    BY DeclaredAssumption
  <2>4. \A p \in Plugins : \A d \in Declared[p] : services[d] = p => services'[d] = p
    BY <2>1, <2>2, <2>3, NamesAssumption
  <2>5. \A u \in Tasks : pc[u] = "start_hook" => target[u] \in Plugins
    BY DEF InductiveInvariant, TypeOK, Progress, ProgressOf, Engaged, StartHooks
  <2>6. ASSUME NEW u \in Tasks, pc'[u] = "start_hook" PROVE MissingCapabilities(target[u])' = {}
    <3>1. target'[u] = target[u] /\ target[u] \in Plugins /\ MissingCapabilities(target[u]) = {}
      BY <1>1, <2>5, <2>6
    <3> QED  BY <2>4, <3>1 DEF MissingCapabilities
  <2>7. ResourcesBelongToAttached'
    BY <1>1, <1>2, <2>1, <2>2
  <2>8. RunningOffersItsCapabilities'
    BY <1>1, <2>4
  <2> QED  BY <1>1, <2>1, <2>6, <2>7, <2>8
<1>4. ASSUME NEW c \in Capabilities, GetService(t, c) PROVE Holdings'
  <2> DEFINE object == <<services[c], incarnation[services[c]]>>
  <2>1. /\ services[c] \in Deps[target[t]] \cup {target[t]}
        /\ captured' = [captured EXCEPT ![target[t]] = @ \cup {object}]
        /\ UNCHANGED <<services, subscribers>>
    BY <1>4 DEF GetService
  <2>2. /\ object[1] \in Deps[target[t]] \cup {target[t]}
        /\ incarnation[object[1]] = object[2]
    BY <2>1
  <2> HIDE DEF object
  <2>7. \A p \in Plugins : captured'[p] =
            IF p = target[t] THEN captured[p] \cup {object} ELSE captured[p]
    <3> HIDE DEF Holdings
    <3>1. DOMAIN captured = Plugins
      BY DEF InductiveInvariant, TypeOK
    <3> QED  BY <2>1, <3>1
  <2>3. \A p \in Plugins : p \notin attached' => captured'[p] = {}
    BY <1>1, <1>2, <2>7
  <2>4. ASSUME NEW p \in Plugins, NEW s \in captured'[p]
        PROVE  s[1] \in Deps[p] \cup {p} /\ incarnation'[s[1]] = s[2]
    <3>1. CASE s \in captured[p]
      BY <1>1, <3>1
    <3>2. CASE s \notin captured[p]
      <4> HIDE DEF Holdings
      <4>1. captured'[p] = IF p = target[t] THEN captured[p] \cup {object} ELSE captured[p]
        BY <2>7
      <4>2. p = target[t]
        BY <3>2, <4>1
      <4>3. s = object
        BY <3>2, <4>1, <4>2
      <4> QED  BY <1>1, <2>2, <4>2, <4>3
    <3> QED  BY <3>1, <3>2
  <2>5. ResourcesBelongToAttached' /\ RunningOffersItsCapabilities'
    BY <1>1, <2>1
  <2>6. \A u \in Tasks : pc'[u] = "start_hook" => MissingCapabilities(target[u])' = {}
    BY <1>1, <2>1 DEF MissingCapabilities
  <2> QED  BY <2>3, <2>4, <2>5, <2>6
<1>5. CASE Subscribe(t)
  BY <1>1, <1>2, <1>5 DEF Subscribe, MissingCapabilities
<1> QED  BY <1>3, <1>4, <1>5

\* The check of the declared capabilities is what a running plugin rests on.
LEMMA HoldingsChecked ==
    ASSUME InductiveInvariant, Holdings, NEW t \in Tasks, InitPublished(t) \/ StartReturns(t)
    PROVE  Holdings'
<1>1. UNCHANGED <<attached, services, subscribers, incarnation, captured, target>>
  BY DEF InitPublished, StartReturns
<1>2. CASE InitPublished(t)
  <2>1. /\ MissingCapabilities(target[t]) = {} /\ state' = state
        /\ pc' = [pc EXCEPT ![t] = "start_hook"]
    BY <1>2 DEF InitPublished, Goto
  <2>2. \A u \in Tasks : u # t => pc'[u] = pc[u]
    BY <2>1 DEF InductiveInvariant, TypeOK
  <2> QED
    BY <1>1, <2>1, <2>2 DEF Holdings, ResourcesBelongToAttached, RunningOffersItsCapabilities,
       MissingCapabilities
<1>3. CASE StartReturns(t)
  <2>1. /\ pc[t] = "start_hook" /\ state' = [state EXCEPT ![target[t]] = "running"]
        /\ Moves(t, {"start_publish"})
    BY <1>3 DEF StartReturns, At, Goto, Moves
  <2>2. \A u \in Tasks : pc'[u] = "start_hook" => pc[u] = "start_hook"
    BY <2>1 DEF InductiveInvariant, TypeOK, Moves
  <2>3. \A p \in Plugins : state'[p] = "running" => state[p] = "running" \/ p = target[t]
    BY <2>1 DEF InductiveInvariant, TypeOK
  <2>4. MissingCapabilities(target[t]) = {}
    BY <2>1 DEF Holdings
  <2>5. RunningOffersItsCapabilities'
    BY <1>1, <2>3, <2>4 DEF Holdings, RunningOffersItsCapabilities, MissingCapabilities
  <2> QED
    BY <1>1, <2>2, <2>5 DEF Holdings, ResourcesBelongToAttached, MissingCapabilities
<1> QED  BY <1>2, <1>3

\* Where a task goes, and what it leaves alone, when a step of it only takes a
\* decision: nothing but states that are not "running" changes.
Decides(t) ==
    /\ UNCHANGED <<attached, services, subscribers, incarnation, captured>>
    /\ \A p \in Plugins : state'[p] = "running" => state[p] = "running"
    /\ Moves(t, Rests \cup {"waiting", "granted", "starting", "init_publish", "start_publish",
                            "serving"} \cup StopHooks)
    /\ \A u \in Tasks : u # t => target'[u] = target[u]

\* These steps of a task only decide.
LEMMA DecidingSteps ==
    ASSUME InductiveInvariant, NEW t \in Tasks,
           \/ Unavailable(t) \/ RefuseDependents(t) \/ StopBegins(t) \/ StopsAtOnce(t)
           \/ StartsDirectly(t) \/ AlreadyRunning(t) \/ DependencyMissing(t) \/ SettingsInvalid(t)
           \/ InitReturns(t) \/ CapabilityMissing(t) \/ HookFails(t) \/ StartPublished(t)
           \/ StopReturns(t) \/ TimeoutWaiting(t) \/ CancelWaiting(t) \/ TimeoutStart(t)
           \/ CancelStart(t) \/ Acquire(t)
           \/ \E o \in Ops, p \in Plugins \cup {Nobody} : Submit(t, o, p)
    PROVE  Decides(t)
<1> USE DEF Moves, Rests, StopHooks
<1>1. \A p \in Plugins : state' = [state EXCEPT ![target[t]] = "error"]
                      \/ state' = [state EXCEPT ![target[t]] = "stopped"]
                      \/ state' = [state EXCEPT ![target[t]] = "initialized"]
                      \/ state' = state
                      => (state'[p] = "running" => state[p] = "running")
  BY DEF InductiveInvariant, TypeOK
<1>2. CASE Unavailable(t) \/ RefuseDependents(t) \/ AlreadyRunning(t)
  BY <1>2 DEF Decides, Unavailable, RefuseDependents, AlreadyRunning, Answer
<1>3. CASE StopBegins(t) \/ StartsDirectly(t) \/ CapabilityMissing(t) \/ StopReturns(t)
  BY <1>3 DEF Decides, StopBegins, StartsDirectly, CapabilityMissing, StopReturns, BeginStop, Goto
<1>4. CASE StopsAtOnce(t)
  <2>1. Moves(t, {"starting", "done"})
    BY <1>4 DEF StopsAtOnce, Goto, Answer
  <2> QED  BY <1>1, <1>4, <2>1 DEF StopsAtOnce, Decides
<1>5. CASE DependencyMissing(t) \/ SettingsInvalid(t) \/ StartPublished(t)
  <2>1. Moves(t, Rests)
    BY <1>5, ConcludeMoves DEF DependencyMissing, SettingsInvalid, StartPublished
  <2>2. \/ state' = state
        \/ state' = [state EXCEPT ![target[t]] = "error"]
    BY <1>5 DEF DependencyMissing, SettingsInvalid, StartPublished
  <2> QED  BY <1>1, <1>5, <2>1, <2>2 DEF DependencyMissing, SettingsInvalid, StartPublished, Decides
<1>6. CASE InitReturns(t) \/ HookFails(t)
  BY <1>1, <1>6 DEF InitReturns, HookFails, BeginStop, Goto, Decides
<1>7. CASE TimeoutStart(t) \/ CancelStart(t)
  BY <1>1, <1>7 DEF TimeoutStart, CancelStart, InterruptStart, BeginStop, Goto, Decides
<1>8. CASE TimeoutWaiting(t) \/ CancelWaiting(t)
  BY <1>8 DEF TimeoutWaiting, CancelWaiting, LeaveQueue, Goto, Decides
<1>9. CASE Acquire(t)
  BY <1>9 DEF Acquire, Goto, Decides
<1>10. CASE \E o \in Ops, p \in Plugins \cup {Nobody} : Submit(t, o, p)
  <2>1. PICK o \in Ops, p \in Plugins \cup {Nobody} : Submit(t, o, p)
    BY <1>10
  <2>2. Moves(t, {"granted", "waiting"}) /\ target' = [target EXCEPT ![t] = p]
    BY <2>1 DEF Submit, Goto
  <2> QED  BY <2>1, <2>2 DEF Submit, Decides, InductiveInvariant, TypeOK
<1> QED
  BY <1>2, <1>3, <1>4, <1>5, <1>6, <1>7, <1>8, <1>9, <1>10

\* The lifespan only decides, too, between the operations it carries out.
LEMMA DecidingLifespan ==
    ASSUME InductiveInvariant, LifespanStep \/ BeginShutdown
    PROVE  Decides(Lifespan)
<1> USE DEF Moves, Rests, StopHooks
<1>1. pc' = pc => Moves(Lifespan, {pc[Lifespan]})
  BY DEF InductiveInvariant, TypeOK
<1>2. CASE StartNext
  <2>1. /\ pc[Lifespan] = "start_all"
        /\ \A u \in Tasks : u # Lifespan => target'[u] = target[u]
        /\ pc' = pc \/ Moves(Lifespan, {"starting"})
    BY <1>2 DEF StartNext, Goto, InductiveInvariant, TypeOK
  <2> QED  BY <1>1, <1>2, <2>1 DEF StartNext, Decides
<1>3. CASE MarkReady \/ AllStopped
  BY <1>3 DEF MarkReady, AllStopped, Goto, Decides
<1>4. CASE StopNext
  BY <1>4 DEF StopNext, BeginStop, Goto, Decides, InductiveInvariant, TypeOK
<1>5. CASE StopsNothing
  <2>1. \A p \in Plugins : state'[p] = "running" => state[p] = "running"
    BY <1>5 DEF StopsNothing, InductiveInvariant, TypeOK
  <2> QED  BY <1>1, <1>5, <2>1 DEF StopsNothing, Decides
<1>6. CASE BeginShutdown
  <2>1. Moves(Lifespan, {"exited", "stop_all", "waiting"})
    BY <1>6 DEF BeginShutdown, Goto
  <2> QED  BY <1>6, <2>1 DEF BeginShutdown, Decides
<1> QED  BY <1>2, <1>3, <1>4, <1>5, <1>6 DEF LifespanStep

\* The other steps that end a stop release the plugin.
LEMMA ReleasingSteps ==
    ASSUME InductiveInvariant, NEW t \in Tasks,
           StopFails(t) \/ StopPublished(t) \/ TimeoutStop(t) \/ CancelStop(t)
    PROVE  /\ pc[t] \in StopHooks /\ Cleanup(target[t])
           /\ UNCHANGED <<incarnation, target, loaded, op>>
           /\ \E s \in {"stopped", "error"} : state' = [state EXCEPT ![target[t]] = s]
           /\ Moves(t, Rests \cup {"starting"})
<1>1. CASE StopFails(t) \/ StopPublished(t)
  <2>1. PICK ok \in BOOLEAN : FinishStop(t, ok) /\ pc[t] \in StopHooks
    BY <1>1 DEF StopFails, StopPublished, At, StopHooks
  <2>2. StateAfterStop(why[t], ok) \in {"stopped", "error"}
    BY DEF StateAfterStop
  <2> QED  BY <2>1, <2>2, FinishMoves DEF FinishStop
<1>2. CASE TimeoutStop(t) \/ CancelStop(t)
  <2>1. InterruptStop(t) /\ \E r : Conclude(t, r)
    BY <1>2 DEF TimeoutStop, CancelStop
  <2> QED  BY <2>1, ConcludeMoves DEF InterruptStop, Moves
<1> QED  BY <1>1, <1>2

\* Every step keeps what a plugin holds in order.
LEMMA HoldingsKept == InductiveInvariant /\ Holdings /\ [Next]_vars => Holdings'
<1> SUFFICES ASSUME InductiveInvariant, Holdings, [Next]_vars PROVE Holdings'
  OBVIOUS
<1>1. ASSUME NEW t \in Tasks, Decides(t) PROVE Holdings'
  BY <1>1, HoldingsElsewhere DEF Decides, Rests, StopHooks
<1>2. ASSUME NEW t \in Tasks, StopFails(t) \/ StopPublished(t) \/ TimeoutStop(t) \/ CancelStop(t)
      PROVE  Holdings'
  BY <1>2, ReleasingSteps, HoldingsReleased
<1>3. CASE UNCHANGED vars \/ Terminated
  BY <1>3, HoldingsUntouched DEF vars, Terminated
<1>4. CASE LifespanStep \/ BeginShutdown
  BY <1>1, <1>4, DecidingLifespan
<1>5. CASE \E t \in Requests, o \in Ops, p \in Plugins \cup {Nobody} : Submit(t, o, p)
  BY <1>1, <1>5, DecidingSteps
<1>6. ASSUME NEW t \in Tasks, Acquire(t) \/ RunsOn(t) \/ PluginRuns(t) \/ TimesOut(t) \/ IsCancelled(t)
      PROVE  Holdings'
  BY <1>1, <1>2, <1>6, DecidingSteps, HoldingsAttach, HoldingsContext, HoldingsChecked
     DEF RunsOn, PluginRuns, TimesOut, IsCancelled
<1> QED  BY <1>3, <1>4, <1>5, <1>6 DEF Next

\* Nothing is held before anything is built.
LEMMA HoldingsBegin == Init => Holdings
  BY NamesAssumption DEF Init, Holdings, ResourcesBelongToAttached, RunningOffersItsCapabilities

\* Services, subscriptions and objects are sound in every reachable state: they
\* belong to plugins that hold a context, a running plugin offers all it declares,
\* and what it looked up is what its running providers serve with now.
THEOREM ServicesStaySound == Spec => []ServicesAreSound
<1>1. InductiveInvariant /\ Holdings => ServicesAreSound
  <2> SUFFICES ASSUME InductiveInvariant, Holdings, NEW p \in Plugins, state[p] = "running",
                      NEW s \in captured[p]
               PROVE  state[s[1]] = "running" /\ incarnation[s[1]] = s[2]
    BY DEF Holdings, ServicesAreSound, CapturedServicesAreCurrent
  <2>1. s[1] \in Deps[p] \cup {p} /\ incarnation[s[1]] = s[2]
    BY DEF Holdings
  <2> QED  BY <2>1 DEF InductiveInvariant, Standing
<1>2. Spec => []Holdings
  BY HoldingsBegin, HoldingsKept, InvariantHolds, PTL DEF Spec
<1> QED  BY <1>1, <1>2, InvariantHolds, PTL
-----------------------------------------------------------------------------
(* The way of a request through its operation.                             *)

\* A step of t concerns no other task.
Alone(t) ==
    \A u \in Tasks \ {t} :
        /\ pc'[u] = pc[u] /\ why'[u] = why[u] /\ target'[u] = target[u] /\ reply'[u] = reply[u]
        /\ u \in Requests => op'[u] = op[u]

\* Where a request goes from where it is, and what takes it there.
Goes(t) ==
    \/ /\ pc'[t] = "done" /\ doomed' \in {doomed, doomed \ {t}}
    \/ /\ pc[t] \in StartHooks /\ pc'[t] = "stop_hook" /\ why'[t] = "cancelled"
       /\ doomed' = doomed \ {t}
    \/ /\ pc[t] = "idle" /\ pc'[t] \in {"granted", "waiting"} /\ phase = "ready"
       /\ doomed' = doomed
    \/ /\ pc[t] \in {"granted", "starting"}
       /\ doomed' = doomed /\ op'[t] = op[t]
       /\ \/ pc'[t] \in {"starting", "init_hook"} /\ op[t] # "stop"
          \/ pc'[t] = "stop_hook" /\ why'[t] = op[t]
    \/ /\ t \notin doomed
       /\ doomed' = doomed /\ op'[t] = op[t]
       /\ \/ pc[t] = "waiting" /\ pc'[t] = "granted"
          \/ pc[t] \in StartHooks /\ pc'[t] \in StartHooks
          \/ pc[t] \in StartHooks /\ pc'[t] = "stop_hook" /\ why'[t] \in {"failed", "timed_out"}
          \/ pc[t] \in StopHooks /\ pc'[t] \in StopHooks /\ why'[t] = why[t]
          \/ pc[t] \in StopHooks /\ pc'[t] = "starting" /\ why[t] = "restart"

\* What a request does is what it was sent for, or the clean-up after it.
Errands ==
    \A t \in Requests :
        /\ pc[t] \in {"starting"} \cup StartHooks => op[t] # "stop"
        /\ pc[t] \in StopHooks => why[t] \in {"failed", "timed_out", "cancelled", op[t]}

\* The steps of a request, and those of the lifespan.
RequestTakes(t) ==
    \/ RunsOn(t) \/ PluginRuns(t) \/ TimesOut(t) \/ IsCancelled(t) \/ Acquire(t)
    \/ \E o \in Ops, p \in Plugins \cup {Nobody} : Submit(t, o, p)

LifespanTakes ==
    \/ RunsOn(Lifespan) \/ PluginRuns(Lifespan) \/ TimesOut(Lifespan)
    \/ IsCancelled(Lifespan) \/ Acquire(Lifespan) \/ LifespanStep \/ BeginShutdown

\* Every step is one of these, or changes nothing.
LEMMA WhoSteps ==
    ASSUME [Next]_vars
    PROVE  UNCHANGED vars \/ LifespanTakes \/ \E t \in Requests : RequestTakes(t)
  BY DEF Next, Terminated, LifespanTakes, RequestTakes

\* A request ends its operation with an answer.
LEMMA RequestsAnswer ==
    ASSUME NEW t \in Requests, NEW r, Conclude(t, r)
    PROVE  Answer(t, r)
  BY NamesAssumption DEF Conclude, NextToStart, AbandonStartup, NextToStop, AbandonShutdown

\* An answer ends the way of a request.
LEMMA AnswerGoes ==
    ASSUME TypeOK, NEW t \in Requests, NEW r, Answer(t, r), UNCHANGED <<op, target, doomed>>
    PROVE  Alone(t) /\ Goes(t) /\ phase' = phase /\ pc'[t] = "done" /\ reply'[t] = r
  BY DEF Answer, Alone, Goes, TypeOK

\* Nothing but what Goes describes becomes of a request.
LEMMA RequestGoes ==
    ASSUME InductiveInvariant, Errands, NEW t \in Requests, RequestTakes(t)
    PROVE  Alone(t) /\ Goes(t) /\ phase' = phase
<1> USE DEF InductiveInvariant
<1>1. CASE Unavailable(t) \/ RefuseDependents(t) \/ AlreadyRunning(t)
  BY <1>1, AnswerGoes DEF Unavailable, RefuseDependents, AlreadyRunning
<1>2. CASE StopBegins(t)
  BY <1>2 DEF StopBegins, NeedsStop, BeginStop, Goto, Alone, Goes, TypeOK
<1>3. CASE StopsAtOnce(t)
  <2>1. CASE op[t] = "restart"
    BY <1>3, <2>1 DEF StopsAtOnce, NeedsStop, Goto, Alone, Goes, TypeOK
  <2>2. CASE op[t] # "restart"
    BY <1>3, <2>2, AnswerGoes DEF StopsAtOnce
  <2> QED  BY <2>1, <2>2
<1>4. CASE StartsDirectly(t)
  BY <1>4 DEF StartsDirectly, Goto, Alone, Goes, TypeOK
<1>5. CASE DependencyMissing(t) \/ SettingsInvalid(t) \/ StartPublished(t)
  BY <1>5, RequestsAnswer, AnswerGoes DEF DependencyMissing, SettingsInvalid, StartPublished
<1>6. CASE Attach(t)
  BY <1>6 DEF Attach, Goto, Alone, Goes, TypeOK, Errands
<1>7. CASE \/ \E c \in Capabilities : RegisterService(t, c) \/ GetService(t, c)
           \/ Subscribe(t)
  BY <1>7 DEF RegisterService, GetService, Subscribe, At, Alone, Goes, StartHooks
<1>8. CASE InitReturns(t) \/ InitPublished(t) \/ StartReturns(t)
  BY <1>8 DEF InitReturns, InitPublished, StartReturns, At, Goto, Alone, Goes, StartHooks, TypeOK
<1>9. CASE CapabilityMissing(t) \/ HookFails(t)
  BY <1>9 DEF CapabilityMissing, HookFails, At, BeginStop, Goto, Alone, Goes, StartHooks, TypeOK
<1>10. CASE StopReturns(t)
  BY <1>10 DEF StopReturns, At, Goto, Alone, Goes, StopHooks, TypeOK
<1>11. CASE StopFails(t) \/ StopPublished(t)
  <2>1. PICK ok \in BOOLEAN : FinishStop(t, ok) /\ pc[t] \in StopHooks /\ t \notin doomed
    BY <1>11 DEF StopFails, StopPublished, At, StopHooks
  <2>2. doomed' = doomed
    BY <1>11 DEF StopFails, StopPublished
  <2>3. CASE why[t] = "restart" /\ ok
    BY <2>1, <2>2, <2>3 DEF FinishStop, Goto, Alone, Goes, TypeOK
  <2>4. CASE ~(why[t] = "restart" /\ ok)
    BY <2>1, <2>2, <2>4, RequestsAnswer, AnswerGoes DEF FinishStop
  <2> QED  BY <2>3, <2>4
<1>12. CASE TimeoutWaiting(t) \/ CancelWaiting(t)
  BY <1>12, NamesAssumption
     DEF TimeoutWaiting, CancelWaiting, LeaveQueue, Cancellation, Goto, Alone, Goes, TypeOK
<1>13. CASE TimeoutStart(t) \/ CancelStart(t)
  BY <1>13, NamesAssumption
     DEF TimeoutStart, CancelStart, InterruptStart, BeginStop, Cancellation, Goto, Alone, Goes, TypeOK
<1>14. CASE TimeoutStop(t) \/ CancelStop(t)
  <2>1. UNCHANGED <<op, target>> /\ \E r : Answer(t, r)
    BY <1>14, RequestsAnswer DEF TimeoutStop, CancelStop, InterruptStop
  <2>2. doomed' \in {doomed, doomed \ {t}}
    BY <1>14, NamesAssumption DEF TimeoutStop, CancelStop, Cancellation
  <2> QED  BY <2>1, <2>2 DEF Answer, Alone, Goes, TypeOK
<1>15. CASE Acquire(t)
  BY <1>15, NamesAssumption DEF Acquire, At, Goto, Alone, Goes, TypeOK
<1>16. CASE \E o \in Ops, p \in Plugins \cup {Nobody} : Submit(t, o, p)
  <2>1. PICK o \in Ops, p \in Plugins \cup {Nobody} : Submit(t, o, p)
    BY <1>16
  <2>2. phase = "ready"
    BY <2>1 DEF Submit, TypeOK, Locking, StartHooks, StopHooks
  <2> QED  BY <2>1, <2>2 DEF Submit, Goto, Alone, Goes, TypeOK
<1> QED
  BY <1>1, <1>2, <1>3, <1>4, <1>5, <1>6, <1>7, <1>8, <1>9, <1>10, <1>11, <1>12, <1>13, <1>14,
     <1>15, <1>16 DEF RequestTakes, RunsOn, PluginRuns, TimesOut, IsCancelled

\* What the lifespan does is no request's concern.
LEMMA LifespanAlone ==
    ASSUME InductiveInvariant, LifespanTakes
    PROVE  Alone(Lifespan)
<1> USE DEF InductiveInvariant
<1>7. \A u \in Requests : u # Lifespan
  BY NamesAssumption
<1>1. ASSUME NEW r, Conclude(Lifespan, r), UNCHANGED <<op, target>> PROVE Alone(Lifespan)
  BY <1>1, NamesAssumption
     DEF Conclude, Answer, NextToStart, AbandonStartup, NextToStop, AbandonShutdown, Alone, TypeOK
<1>2. ASSUME \A u \in Requests : /\ pc'[u] = pc[u] /\ why'[u] = why[u] /\ target'[u] = target[u]
                                  /\ reply'[u] = reply[u] /\ op'[u] = op[u]
      PROVE  Alone(Lifespan)
  BY <1>2 DEF Alone
<1>3. CASE RunsOn(Lifespan)
  <2>1. CASE Unavailable(Lifespan) \/ RefuseDependents(Lifespan) \/ AlreadyRunning(Lifespan)
    BY <2>1, NamesAssumption DEF Unavailable, RefuseDependents, AlreadyRunning, Answer
  <2>2. CASE DependencyMissing(Lifespan) \/ SettingsInvalid(Lifespan)
    BY <1>1, <2>2 DEF DependencyMissing, SettingsInvalid
  <2>3. CASE Attach(Lifespan)
    BY <1>7, <1>2, <2>3 DEF Attach, Goto, TypeOK
  <2>4. CASE StopBegins(Lifespan) \/ StopsAtOnce(Lifespan) \/ StartsDirectly(Lifespan)
    BY <2>4 DEF StopBegins, StopsAtOnce, StartsDirectly, NeedsStop, Locking, TypeOK, StartHooks, StopHooks
  <2> QED  BY <1>3, <2>1, <2>2, <2>3, <2>4 DEF RunsOn
<1>4. CASE PluginRuns(Lifespan)
  <2>1. CASE \/ \E c \in Capabilities : RegisterService(Lifespan, c) \/ GetService(Lifespan, c)
             \/ Subscribe(Lifespan)
    BY <2>1 DEF RegisterService, GetService, Subscribe, Alone
  <2>2. CASE \/ InitReturns(Lifespan) \/ InitPublished(Lifespan) \/ StartReturns(Lifespan)
             \/ CapabilityMissing(Lifespan) \/ HookFails(Lifespan) \/ StopReturns(Lifespan)
    BY <1>7, <1>2, <2>2
       DEF InitReturns, InitPublished, StartReturns, CapabilityMissing, HookFails, StopReturns,
           BeginStop, Goto, TypeOK
  <2>3. CASE StartPublished(Lifespan)
    BY <1>1, <2>3 DEF StartPublished
  <2>4. CASE StopFails(Lifespan) \/ StopPublished(Lifespan)
    <3>1. PICK ok \in BOOLEAN : FinishStop(Lifespan, ok)
      BY <2>4 DEF StopFails, StopPublished
    <3>2. CASE why[Lifespan] = "restart" /\ ok
      BY <1>7, <1>2, <3>1, <3>2 DEF FinishStop, Goto, TypeOK
    <3>3. CASE ~(why[Lifespan] = "restart" /\ ok)
      BY <1>1, <3>1, <3>3 DEF FinishStop
    <3> QED  BY <3>2, <3>3
  <2> QED  BY <1>4, <2>1, <2>2, <2>3, <2>4 DEF PluginRuns
<1>5. CASE TimesOut(Lifespan) \/ IsCancelled(Lifespan)
  <2>1. CASE \E r : LeaveQueue(Lifespan, r)
    BY <1>7, <1>2, <2>1 DEF LeaveQueue, Goto, TypeOK
  <2>2. CASE \E w : InterruptStart(Lifespan, w)
    BY <1>7, <1>2, <2>2 DEF InterruptStart, BeginStop, Goto, TypeOK
  <2>3. CASE InterruptStop(Lifespan) /\ \E r : Conclude(Lifespan, r)
    BY <1>1, <2>3 DEF InterruptStop
  <2> QED
    BY <1>5, <2>1, <2>2, <2>3 DEF TimesOut, TimeoutWaiting, TimeoutStart, TimeoutStop,
       IsCancelled, CancelWaiting, CancelStart, CancelStop
<1>6. CASE Acquire(Lifespan) \/ LifespanStep \/ BeginShutdown
  <2>1. CASE Acquire(Lifespan)
    BY <1>7, <1>2, <2>1 DEF Acquire, Goto, TypeOK
  <2>2. CASE StartNext \/ StopNext
    BY <1>7, <1>2, <2>2 DEF StartNext, StopNext, BeginStop, Goto, TypeOK
  <2>3. CASE MarkReady \/ AllStopped \/ StopsNothing
    BY <1>7, <1>2, <2>3 DEF MarkReady, AllStopped, StopsNothing, Goto, TypeOK
  <2>4. CASE BeginShutdown
    BY <1>7, <1>2, <2>4 DEF BeginShutdown, Goto, TypeOK
  <2> QED  BY <1>6, <2>1, <2>2, <2>3, <2>4 DEF LifespanStep
<1> QED  BY <1>3, <1>4, <1>5, <1>6 DEF LifespanTakes

\* Errands stay what they are.
LEMMA ErrandsKept == InductiveInvariant /\ Errands /\ [Next]_vars => Errands'
<1> SUFFICES ASSUME InductiveInvariant, Errands, [Next]_vars PROVE Errands'
  OBVIOUS
<1>1. ASSUME NEW t \in Tasks, Alone(t), NEW u \in Requests, u # t
      PROVE  /\ pc'[u] \in {"starting"} \cup StartHooks => op'[u] # "stop"
             /\ pc'[u] \in StopHooks => why'[u] \in {"failed", "timed_out", "cancelled", op'[u]}
  BY <1>1 DEF Alone, Errands
<1>2. ASSUME NEW t \in Requests, RequestTakes(t) PROVE Errands'
  <2>1. Alone(t) /\ Goes(t)
    BY <1>2, RequestGoes
  <2>2. /\ pc'[t] \in {"starting"} \cup StartHooks => op'[t] # "stop"
        /\ pc'[t] \in StopHooks => why'[t] \in {"failed", "timed_out", "cancelled", op'[t]}
    BY <2>1 DEF Goes, Errands, StartHooks, StopHooks
  <2> QED  BY <1>1, <2>1, <2>2 DEF Errands
<1>3. CASE LifespanTakes
  BY <1>1, <1>3, LifespanAlone, NamesAssumption DEF Errands
<1>4. CASE UNCHANGED vars
  BY <1>4 DEF vars, Errands
<1> QED  BY <1>2, <1>3, <1>4, WhoSteps

\* In every reachable state each request does what it was sent for.
LEMMA ErrandsHold == Spec => []Errands
<1>1. Init => Errands
  BY NamesAssumption DEF Init, Errands, StartHooks, StopHooks
<1> QED  BY <1>1, ErrandsKept, InvariantHolds, PTL DEF Spec
-----------------------------------------------------------------------------
(* Once the runtime is stopping.                                           *)

\* A request only waits to be cancelled, or cleans up because it was.
Winding ==
    phase = "stopping" => \A t \in Requests :
        \/ pc[t] \in {"idle", "done"}
        \/ t \in doomed /\ pc[t] \in {"waiting"} \cup StartHooks \cup StopHooks
        \/ pc[t] \in StopHooks /\ why[t] = "cancelled"

\* Shutdown begins for nobody but those who serve, and only it dooms requests.
LEMMA ShutdownDooms ==
    ASSUME InductiveInvariant, LifespanTakes
    PROVE  /\ phase = "ready" => BeginShutdown
           /\ BeginShutdown \/ doomed' = doomed
<1>1. phase = "ready" => pc[Lifespan] = "serving"
  BY DEF InductiveInvariant, Locking
<1>2. BeginShutdown \/ doomed' = doomed
  BY NamesAssumption
     DEF LifespanTakes, RunsOn, PluginRuns, TimesOut, IsCancelled, Acquire, LifespanStep,
         Unavailable, RefuseDependents, StopBegins, StopsAtOnce, StartsDirectly, AlreadyRunning,
         DependencyMissing, SettingsInvalid, Attach, RegisterService, GetService, Subscribe,
         InitReturns, InitPublished, CapabilityMissing, StartReturns, StartPublished, HookFails,
         StopReturns, StopFails, StopPublished, TimeoutWaiting, TimeoutStart, TimeoutStop,
         CancelWaiting, CancelStart, CancelStop, Cancellation, StartNext, MarkReady, StopNext,
         StopsNothing, AllStopped
<1>3. pc[Lifespan] = "serving" => BeginShutdown
  BY DEF LifespanTakes, RunsOn, PluginRuns, TimesOut, IsCancelled, Acquire, LifespanStep, At,
         Unavailable, RefuseDependents, StopBegins, StopsAtOnce, StartsDirectly, NeedsStop,
         AlreadyRunning, DependencyMissing, SettingsInvalid, Attach, RegisterService, GetService,
         Subscribe, InitReturns, InitPublished, CapabilityMissing, StartReturns, StartPublished,
         HookFails, StopReturns, StopFails, StopPublished, TimeoutWaiting, TimeoutStart,
         TimeoutStop, CancelWaiting, CancelStart, CancelStop, InterruptStart, InterruptStop,
         LeaveQueue, StartHooks, StopHooks, StartNext, MarkReady, StopNext, StopsNothing, AllStopped
<1> QED  BY <1>1, <1>2, <1>3

\* No step brings a request back once the runtime is stopping.
LEMMA WindingKept == InductiveInvariant /\ Errands /\ Winding /\ [Next]_vars => Winding'
<1> SUFFICES ASSUME InductiveInvariant, Errands, Winding, [Next]_vars, phase' = "stopping",
                    NEW u \in Requests
             PROVE  \/ pc'[u] \in {"idle", "done"}
                    \/ u \in doomed' /\ pc'[u] \in {"waiting"} \cup StartHooks \cup StopHooks
                    \/ pc'[u] \in StopHooks /\ why'[u] = "cancelled"
  BY DEF Winding
<1> DEFINE Goal == \/ pc'[u] \in {"idle", "done"}
                   \/ u \in doomed' /\ pc'[u] \in {"waiting"} \cup StartHooks \cup StopHooks
                   \/ pc'[u] \in StopHooks /\ why'[u] = "cancelled"
<1>1. ASSUME NEW t \in Requests, RequestTakes(t) PROVE Goal
  <2>1. Alone(t) /\ Goes(t) /\ phase = "stopping"
    BY <1>1, RequestGoes
  <2>2. CASE u = t
    BY <2>1, <2>2 DEF Winding, Goes, StartHooks, StopHooks
  <2>3. CASE u # t
    <3>1. pc'[u] = pc[u] /\ why'[u] = why[u]
      BY <2>1, <2>3 DEF Alone
    <3>2. u \in doomed' <=> u \in doomed
      BY <2>1, <2>3 DEF Goes
    <3> QED  BY <2>1, <3>1, <3>2 DEF Winding
  <2> QED  BY <2>2, <2>3
<1>2. CASE LifespanTakes
  <2>1. pc'[u] = pc[u] /\ why'[u] = why[u]
    BY <1>2, LifespanAlone, NamesAssumption DEF Alone
  <2>2. CASE phase = "starting"
    BY <2>1, <2>2 DEF InductiveInvariant, Locking
  <2>3. CASE BeginShutdown
    BY <2>1, <2>3 DEF BeginShutdown, RunsOnAtOnce, Synchronous, InFlight, InductiveInvariant, Locking
  <2>4. CASE phase = "stopping" /\ doomed' = doomed
    BY <2>1, <2>4 DEF Winding
  <2> QED  BY <1>2, <2>2, <2>3, <2>4, ShutdownDooms DEF InductiveInvariant, TypeOK
<1>3. CASE UNCHANGED vars
  BY <1>3 DEF vars, Winding
<1> QED  BY <1>1, <1>2, <1>3, WhoSteps

\* In every reachable state a stopping runtime only winds its requests up.
LEMMA WindingHolds == Spec => []Winding
<1>1. Init => Winding
  BY DEF Init, Winding
<1> QED  BY <1>1, WindingKept, ErrandsHold, InvariantHolds, PTL DEF Spec

\* Once the runtime is stopping, no step builds a plugin or lets one run.
LEMMA StoppingStartsNothing ==
    ASSUME InductiveInvariant, Winding, [Next]_vars, phase = "stopping"
    PROVE  StartsNothing
<1>1. ASSUME NEW t \in Tasks PROVE ~Attach(t) /\ ~StartReturns(t)
  <2>1. CASE t = Lifespan
    BY <2>1 DEF Attach, StartReturns, At, InductiveInvariant, Locking, StopHooks
  <2>2. CASE t \in Requests
    BY <2>2 DEF Attach, StartReturns, At, Winding, StartHooks, StopHooks
  <2> QED  BY <2>1, <2>2
<1>2. ASSUME NEW t \in Tasks, Decides(t) PROVE StartsNothing
  BY <1>2 DEF Decides, StartsNothing
<1>3. ASSUME NEW t \in Tasks, StopFails(t) \/ StopPublished(t) \/ TimeoutStop(t) \/ CancelStop(t)
      PROVE  StartsNothing
  BY <1>3, ReleasingSteps DEF Cleanup, StartsNothing, InductiveInvariant, TypeOK
<1>4. CASE UNCHANGED <<state, attached>>
  BY <1>4 DEF StartsNothing
<1>5. CASE LifespanStep \/ BeginShutdown
  BY <1>2, <1>5, DecidingLifespan
<1>6. CASE \E t \in Requests, o \in Ops, p \in Plugins \cup {Nobody} : Submit(t, o, p)
  BY <1>2, <1>6, DecidingSteps
<1>7. ASSUME NEW t \in Tasks, Acquire(t) \/ RunsOn(t) \/ PluginRuns(t) \/ TimesOut(t) \/ IsCancelled(t)
      PROVE  StartsNothing
  <2>1. CASE \/ \E c \in Capabilities : RegisterService(t, c) \/ GetService(t, c)
             \/ Subscribe(t) \/ InitPublished(t)
    BY <1>4, <2>1 DEF RegisterService, GetService, Subscribe, InitPublished
  <2> QED  BY <1>1, <1>2, <1>3, <1>7, <2>1, DecidingSteps DEF RunsOn, PluginRuns, TimesOut, IsCancelled
<1> QED  BY <1>4, <1>5, <1>6, <1>7 DEF Next, Terminated, vars

\* Shutdown is final: whatever was in flight when it began, no plugin is built or
\* begins to run any more.
THEOREM ShutdownIsFinal == Spec => NothingStartsOnceStopping
  BY StoppingStartsNothing, WindingHolds, InvariantHolds, PTL DEF Spec, NothingStartsOnceStopping
-----------------------------------------------------------------------------
(* What an answer says.                                                    *)

\* A stop that is answered with 200 was asked for, and released the plugin.
LEMMA StopAnswersTruly ==
    ASSUME InductiveInvariant, Errands, NEW t \in Requests, NEW ok \in BOOLEAN,
           pc[t] \in StopHooks, FinishStop(t, ok), reply'[t] = "200", reply[t] = "none"
    PROVE  AnswersTruly(t)
<1>1. target[t] \in Plugins
  BY DEF InductiveInvariant, Progress, ProgressOf, Engaged, TypeOK
<1>2. ~(why[t] = "restart" /\ ok)
  BY DEF FinishStop
<1>3. reply'[t] = ReplyAfterStop(why[t], ok)
  BY <1>2, RequestsAnswer DEF FinishStop, Answer, InductiveInvariant, TypeOK
<1>4. ok /\ why[t] \notin {"failed", "timed_out", "cancelled", "restart"}
  BY <1>2, <1>3 DEF ReplyAfterStop
<1>5. why[t] = "stop" /\ op[t] = "stop"
  BY <1>4 DEF Errands, InductiveInvariant, TypeOK, Ops, Whys
<1>6. state'[target[t]] = "stopped" /\ target[t] \notin attached'
  BY <1>1, <1>4, <1>5 DEF FinishStop, StateAfterStop, Cleanup, InductiveInvariant, TypeOK
<1> QED  BY <1>5, <1>6 DEF AnswersTruly

\* So is every other answer: it comes from the end of a start, or from a plugin
\* that was already where it was wanted.
LEMMA StepAnswersTruly ==
    ASSUME InductiveInvariant, Errands, [Next]_vars, NEW t \in Requests
    PROVE  AnswersTruly(t)
<1> SUFFICES ASSUME reply[t] = "none", reply'[t] = "200" PROVE AnswersTruly(t)
  BY DEF AnswersTruly
<1>1. ASSUME NEW r, Answer(t, r) PROVE reply'[t] = r
  BY <1>1 DEF Answer, InductiveInvariant, TypeOK
<1>2. RequestTakes(t)
  <2>1. \A u \in Tasks : Alone(u) => u = t
    BY DEF Alone
  <2> QED  BY <2>1, WhoSteps, RequestGoes, LifespanAlone, NamesAssumption DEF vars
<1>3. CASE RunsOn(t)
  <2>1. CASE AlreadyRunning(t)
    <3>1. target[t] \in Plugins
      BY <2>1, InHand DEF AlreadyRunning, Operating, Synchronous
    <3>2. op[t] # "stop" /\ UNCHANGED <<state, attached>> /\ state[target[t]] = "running"
      BY <2>1 DEF AlreadyRunning, Errands
    <3>3. target[t] \in attached
      BY <3>1, <3>2 DEF InductiveInvariant, Standing
    <3> QED  BY <3>2, <3>3 DEF AnswersTruly
  <2>2. CASE StopsAtOnce(t)
    <3>1. op[t] # "restart" /\ op[t] = "stop" /\ target[t] \in Plugins
      BY <2>2 DEF StopsAtOnce, NeedsStop, InductiveInvariant, TypeOK
    <3> QED  BY <2>2, <3>1 DEF StopsAtOnce, AnswersTruly, InductiveInvariant, TypeOK
  <2>3. CASE Unavailable(t) \/ RefuseDependents(t) \/ DependencyMissing(t) \/ SettingsInvalid(t)
    BY <1>1, <2>3, RequestsAnswer DEF Unavailable, RefuseDependents, DependencyMissing, SettingsInvalid
  <2>4. CASE StopBegins(t) \/ StartsDirectly(t) \/ Attach(t)
    BY <2>4 DEF StopBegins, StartsDirectly, Attach
  <2> QED  BY <1>3, <2>1, <2>2, <2>3, <2>4 DEF RunsOn
<1>4. CASE PluginRuns(t)
  <2>1. CASE StartPublished(t)
    <3>1. /\ op[t] # "stop" /\ UNCHANGED <<state, attached>>
          /\ state[target[t]] = "running" /\ target[t] \in attached
      BY <2>1 DEF StartPublished, At, Errands, InductiveInvariant, Progress, ProgressOf, Engaged, StartHooks
    <3> QED  BY <3>1 DEF AnswersTruly
  <2>2. CASE StopFails(t) \/ StopPublished(t)
    BY <2>2, StopAnswersTruly DEF StopFails, StopPublished, At, StopHooks
  <2>3. CASE \/ \E c \in Capabilities : RegisterService(t, c) \/ GetService(t, c)
             \/ Subscribe(t) \/ InitReturns(t) \/ InitPublished(t) \/ CapabilityMissing(t)
             \/ StartReturns(t) \/ HookFails(t) \/ StopReturns(t)
    BY <2>3 DEF RegisterService, GetService, Subscribe, InitReturns, InitPublished,
       CapabilityMissing, StartReturns, HookFails, StopReturns
  <2> QED  BY <1>4, <2>1, <2>2, <2>3 DEF PluginRuns
<1>5. CASE TimesOut(t) \/ IsCancelled(t)
  <2>1. CASE TimeoutWaiting(t) \/ CancelWaiting(t)
    BY <2>1 DEF TimeoutWaiting, CancelWaiting, LeaveQueue, InductiveInvariant, TypeOK
  <2>2. CASE TimeoutStart(t) \/ CancelStart(t)
    BY <2>2 DEF TimeoutStart, CancelStart, InterruptStart
  <2>3. CASE TimeoutStop(t) \/ CancelStop(t)
    BY <1>1, <2>3, RequestsAnswer DEF TimeoutStop, CancelStop
  <2> QED  BY <1>5, <2>1, <2>2, <2>3 DEF TimesOut, IsCancelled
<1>6. CASE Acquire(t) \/ \E o \in Ops, p \in Plugins \cup {Nobody} : Submit(t, o, p)
  BY <1>6 DEF Acquire, Submit
<1> QED  BY <1>2, <1>3, <1>4, <1>5, <1>6 DEF RequestTakes

\* Every 200 is true when it is given, whatever the other requests, deadlines and
\* cancellations did while the request waited and ran.
THEOREM AnswersAreTrue == Spec => RepliesAreTrue
<1>1. InductiveInvariant /\ Errands /\ [Next]_vars => \A t \in Requests : AnswersTruly(t)
  BY StepAnswersTruly
<1> QED  BY <1>1, ErrandsHold, InvariantHolds, PTL DEF Spec, RepliesAreTrue
-----------------------------------------------------------------------------
(* Who may take a plugin down.                                             *)

\* A step that takes a running plugin down is one of the task that works on it,
\* and finds no plugin that stands on it.
LEMMA StopsAreSafe ==
    ASSUME InductiveInvariant, [Next]_vars, NEW p \in Plugins, StopsRunning(p)
    PROVE  /\ ActiveDependents(p) = {}
           /\ \E t \in Tasks : target[t] = p /\ Operating(t)
<1> USE DEF StopsRunning
<1>1. state \in [Plugins -> States] /\ p \in attached
  BY DEF InductiveInvariant, TypeOK, Standing
<1>2. ASSUME \A q \in attached : p \notin Deps[q] PROVE ActiveDependents(p) = {}
  BY <1>2 DEF ActiveDependents, InductiveInvariant, TypeOK, Standing
<1>3. ASSUME NEW t \in Tasks, Engaged(t), NEW s, state' = [state EXCEPT ![target[t]] = s]
      PROVE  /\ ActiveDependents(p) = {}
             /\ \E u \in Tasks : target[u] = p /\ Operating(u)
  <2>1. target[t] = p /\ Operating(t)
    BY <1>1, <1>3 DEF Operating, Engaged
  <2>2. \A q \in attached : p \notin Deps[q]
    BY <1>3, <2>1, <1>1, InHand DEF ProgressOf, Stopping, Engaged, StartHooks, StopHooks
  <2> QED  BY <1>2, <2>1, <2>2
<1>4. ASSUME NEW q, state' = [state EXCEPT ![q] = "stopped"], q \notin attached PROVE FALSE
  BY <1>1, <1>4
<1>5. ASSUME NEW q, NEW s, state' = [state EXCEPT ![q] = s], state[q] # "running" PROVE FALSE
  BY <1>1, <1>5
<1>6. state' # state
  OBVIOUS
<1>7. ASSUME NEW t \in Tasks, RunsOn(t) PROVE FALSE
  <2>1. CASE StopsAtOnce(t)
    BY <1>4, <2>1 DEF StopsAtOnce
  <2>2. CASE DependencyMissing(t) \/ SettingsInvalid(t)
    BY <1>5, <1>6, <2>2 DEF DependencyMissing, SettingsInvalid
  <2>3. CASE \/ Unavailable(t) \/ RefuseDependents(t) \/ StopBegins(t) \/ StartsDirectly(t)
             \/ AlreadyRunning(t) \/ Attach(t)
    BY <1>6, <2>3 DEF Unavailable, RefuseDependents, StopBegins, StartsDirectly, AlreadyRunning, Attach
  <2> QED  BY <1>7, <2>1, <2>2, <2>3 DEF RunsOn
<1>8. ASSUME NEW t \in Tasks, PluginRuns(t) \/ TimesOut(t) \/ IsCancelled(t)
      PROVE  \E s : Engaged(t) /\ state' = [state EXCEPT ![target[t]] = s]
  <2>1. CASE InitReturns(t) \/ StartReturns(t) \/ HookFails(t)
    BY <2>1 DEF InitReturns, StartReturns, HookFails, At, Engaged, StartHooks
  <2>2. CASE StopFails(t) \/ StopPublished(t) \/ TimeoutStop(t) \/ CancelStop(t)
    BY <2>2, ReleasingSteps DEF Engaged
  <2>3. CASE TimeoutStart(t) \/ CancelStart(t)
    BY <2>3 DEF TimeoutStart, CancelStart, InterruptStart, Engaged
  <2>4. CASE \/ \E c \in Capabilities : RegisterService(t, c) \/ GetService(t, c)
             \/ Subscribe(t) \/ InitPublished(t) \/ CapabilityMissing(t) \/ StartPublished(t)
             \/ StopReturns(t) \/ TimeoutWaiting(t) \/ CancelWaiting(t)
    BY <1>6, <2>4 DEF RegisterService, GetService, Subscribe, InitPublished, CapabilityMissing,
       StartPublished, StopReturns, TimeoutWaiting, CancelWaiting, LeaveQueue
  <2> QED  BY <1>8, <2>1, <2>2, <2>3, <2>4 DEF PluginRuns, TimesOut, IsCancelled
<1>9. ASSUME LifespanStep \/ BeginShutdown PROVE FALSE
  <2>1. CASE StopsNothing
    BY <1>4, <1>6, <2>1 DEF StopsNothing
  <2> QED  BY <1>6, <1>9, <2>1 DEF LifespanStep, StartNext, MarkReady, StopNext, AllStopped, BeginShutdown
<1>10. ASSUME \/ \E t \in Requests, o \in Ops, q \in Plugins \cup {Nobody} : Submit(t, o, q)
              \/ \E t \in Tasks : Acquire(t)
              \/ Terminated \/ UNCHANGED vars
       PROVE  FALSE
  BY <1>6, <1>10 DEF Submit, Acquire, Terminated, vars
<1> QED  BY <1>3, <1>7, <1>8, <1>9, <1>10 DEF Next

\* No provider stops under a running consumer, and nothing but a task that works
\* on a plugin takes it down.
THEOREM ProvidersOutliveConsumers == Spec => NoProviderStopsUnderConsumers
<1>1. InductiveInvariant /\ [Next]_vars =>
          \A p \in Plugins : StopsRunning(p) =>
              /\ ActiveDependents(p) = {}
              /\ \E t \in Tasks : target[t] = p /\ Operating(t)
  BY StopsAreSafe
<1> QED  BY <1>1, InvariantHolds, PTL DEF Spec, NoProviderStopsUnderConsumers
-----------------------------------------------------------------------------
(* What the operator can do.                                               *)

\* A non-empty set of positions has a least one.
LEMMA LeastPosition ==
    ASSUME NEW n \in Nat, NEW T \in SUBSET (1..n), T # {}
    PROVE  \E i \in T : \A j \in T : i <= j
  <1> DEFINE A == {1..i : i \in T}
             R == StrictSubsetOrdering(1..n)
  <1>1. IsFiniteSet(1..n)
    BY FS_Interval
  <1>2. A \subseteq FiniteSubsetsOf(1..n) /\ A # {}
    <2>1. \A i \in T : 1..i \in SUBSET (1..n)
      OBVIOUS
    <2>2. FiniteSubsetsOf(1..n) = SUBSET (1..n)
      BY <1>1, FS_FiniteSubsetsOfFinite
    <2>3. A \subseteq SUBSET (1..n)
      BY <2>1
    <2>4. PICK i \in T : TRUE
      OBVIOUS
    <2>5. 1..i \in A
      BY <2>4
    <2> QED
      BY <2>2, <2>3, <2>5
  <1>3. \E x \in A : \A y \in A : <<y, x>> \notin R
    BY <1>2, FS_StrictSubsetOrderingWellFounded, WFMin
  <1>4. PICK i \in T : \A j \in T : <<1..j, 1..i>> \notin R
    BY <1>3
  <1>5. \A j \in T : j < i => <<1..j, 1..i>> \in R
    <2>1. ASSUME NEW j \in T, j < i
          PROVE  1..j \subseteq 1..i /\ 1..j # 1..i /\ 1..i \in SUBSET (1..n)
                 /\ 1..j \in SUBSET (1..n)
      <3>1. i \in 1..i /\ i \notin 1..j
        BY <2>1
      <3> QED
        BY <2>1, <3>1
    <2> QED
      BY <2>1 DEF StrictSubsetOrdering
  <1>6. \A j \in T : i <= j
    <2> HIDE DEF R
    <2>1. \A j \in T : ~(j < i)
      BY <1>4, <1>5
    <2>2. \A j \in T : j \in Nat
      OBVIOUS
    <2> QED
      BY <2>1, <2>2
  <1> QED
    BY <1>6

\* ... and a greatest one.
LEMMA GreatestPosition ==
    ASSUME NEW n \in Nat, NEW T \in SUBSET (1..n), T # {}
    PROVE  \E i \in T : \A j \in T : j <= i
<1> DEFINE U == {n + 1 - i : i \in T}
<1>1. U \in SUBSET (1..n) /\ U # {}
  <2>1. \A i \in 1..n : n + 1 - i \in 1..n
    OBVIOUS
  <2>2. \A i \in T : i \in 1..n
    OBVIOUS
  <2> QED  BY <2>1, <2>2
<1>2. PICK k \in U : \A l \in U : k <= l
  BY <1>1, LeastPosition
<1>3. PICK i \in T : k = n + 1 - i
  OBVIOUS
<1>4. \A j \in T : n + 1 - i <= n + 1 - j
  BY <1>2, <1>3
<1>5. \A j \in T : i \in 1..n /\ j \in 1..n
  OBVIOUS
<1>6. \A j \in T : j <= i
  BY <1>4, <1>5
<1> QED  BY <1>6

\* What loaded stands on what loaded.
LoadClosed == \A p \in loaded : Deps[p] \subseteq loaded

\* What could be loaded never changes.
LEMMA LoadedStays ==
    ASSUME [Next]_vars
    PROVE  loaded' = loaded
<1>1. ASSUME NEW t \in Tasks, RunsOn(t) PROVE loaded' = loaded
  BY <1>1 DEF RunsOn, Unavailable, RefuseDependents, StopBegins, StopsAtOnce, StartsDirectly,
     AlreadyRunning, DependencyMissing, SettingsInvalid, Attach
<1>2. ASSUME NEW t \in Tasks, PluginRuns(t) PROVE loaded' = loaded
  BY <1>2 DEF PluginRuns, RegisterService, GetService, Subscribe, InitReturns, InitPublished,
     CapabilityMissing, StartReturns, StartPublished, HookFails, StopReturns, StopFails,
     StopPublished, FinishStop
<1>3. ASSUME NEW t \in Tasks, TimesOut(t) \/ IsCancelled(t) PROVE loaded' = loaded
  BY <1>3 DEF TimesOut, IsCancelled, TimeoutWaiting, TimeoutStart, TimeoutStop, CancelWaiting,
     CancelStart, CancelStop, LeaveQueue, InterruptStart, InterruptStop
<1>4. CASE LifespanStep \/ BeginShutdown
  BY <1>4 DEF LifespanStep, StartNext, MarkReady, StopNext, StopsNothing, AllStopped, BeginShutdown
<1> QED  BY <1>1, <1>2, <1>3, <1>4 DEF Next, Submit, Acquire, Terminated, vars

\* validate() loads a plugin only on what it loaded.
LEMMA LoadClosedHolds == Spec => []LoadClosed
<1>1. Init => LoadClosed
  BY DEF Init, LoadClosed
<1>2. LoadClosed /\ [Next]_vars => LoadClosed'
  BY LoadedStays DEF LoadClosed
<1> QED  BY <1>1, <1>2, PTL DEF Spec

\* The last running plugin of the startup order may be stopped; if none runs, the
\* first that loaded may be started.
LEMMA SomethingIsOffered ==
    ASSUME InductiveInvariant, LoadClosed, loaded # {}
    PROVE  \E p \in loaded : AvailableActions(p) # {}
<1> DEFINE n == Len(Order)
           Running == {i \in 1..n : state[Order[i]] = "running"}
           Loaded == {i \in 1..n : Order[i] \in loaded}
<1>1. /\ loaded \subseteq Plugins
      /\ \A p \in Plugins : state[p] = "running" =>
            p \in loaded /\ \A d \in Deps[p] : state[d] = "running"
      /\ \A p \in loaded : Deps[p] \subseteq loaded
  BY DEF InductiveInvariant, TypeOK, Standing, LoadClosed
<1>2. \A p \in Plugins : \E i \in 1..n : Order[i] = p
  BY OrderAssumption
<1>3. n \in Nat
  BY OrderTyped
<1>4. CASE Running # {}
  <2>1. PICK i \in Running : \A j \in Running : j <= i
    BY <1>3, <1>4, GreatestPosition
  <2>2. Order[i] \in Plugins /\ Order[i] \in loaded /\ state[Order[i]] = "running"
    BY <1>1, <2>1, OrderTyped
  <2>3. MissingDependencies(Order[i]) = {}
    BY <1>1, <2>2, DepsAssumption DEF MissingDependencies
  <2>4. ActiveDependents(Order[i]) = {}
    <3> SUFFICES ASSUME NEW q \in loaded, Order[i] \in Deps[q], state[q] = "running" PROVE FALSE
      BY DEF ActiveDependents
    <3>1. PICK j \in 1..n : Order[j] = q
      BY <1>1, <1>2
    <3>2. i < j /\ j <= i
      BY <2>1, <3>1, OrderAssumption
    <3> QED  BY <1>3, <2>1, <3>1, <3>2
  <2> QED  BY <2>2, <2>3, <2>4 DEF AvailableActions
<1>5. CASE Running = {}
  <2>1. \A p \in Plugins : state[p] # "running"
    BY <1>2, <1>5
  <2>2. Loaded # {}
    BY <1>1, <1>2
  <2>3. PICK i \in Loaded : \A j \in Loaded : i <= j
    BY <1>3, <2>2, LeastPosition
  <2>4. Order[i] \in loaded /\ Order[i] \in Plugins
    BY <2>3, <1>1
  <2>5. Deps[Order[i]] = {}
    <3> SUFFICES ASSUME NEW d \in Deps[Order[i]] PROVE FALSE
      OBVIOUS
    <3>1. d \in loaded /\ d \in Plugins
      BY <1>1, <2>4
    <3>2. PICK j \in 1..n : Order[j] = d
      BY <1>2, <3>1
    <3>3. j < i /\ i <= j
      BY <2>3, <3>1, <3>2, OrderAssumption
    <3> QED  BY <1>3, <2>3, <3>2, <3>3
  <2>6. MissingDependencies(Order[i]) = {} /\ ActiveDependents(Order[i]) = {}
    BY <1>1, <2>1, <2>5 DEF MissingDependencies, ActiveDependents
  <2> QED  BY <2>1, <2>4, <2>6 DEF AvailableActions
<1> QED  BY <1>4, <1>5

\* Whatever failed, timed out or was cancelled, as long as anything loaded the
\* catalog always offers the operator an action that leads on.
THEOREM OperatorAlwaysActs == Spec => []OperatorNeverStuck
<1>1. InductiveInvariant /\ LoadClosed => OperatorNeverStuck
  BY SomethingIsOffered DEF OperatorNeverStuck
<1> QED  BY <1>1, LoadClosedHolds, InvariantHolds, PTL
-----------------------------------------------------------------------------
(* What shutdown leaves behind.                                            *)

Over == {"stopped", "error"}

\* stop_all leaves every plugin behind it stopped or failed; when it has ended,
\* nothing runs that could build one again.
Released ==
    /\ phase = "stopping" /\ pc[Lifespan] \in {"stop_all"} \cup StopHooks =>
          \A i \in 1..Len(Order) : i > cursor /\ Order[i] \in loaded => state[Order[i]] \in Over
    /\ pc[Lifespan] = "exited" /\ reply[Lifespan] # "503" =>
          /\ attached = {}
          /\ \A p \in loaded : state[p] \in Over
          /\ lock = Nobody \/ loaded = {}

\* While shutdown holds the lock, or when it has given it back, a request can only
\* leave the queue.
LEMMA RequestsOnlyLeave ==
    ASSUME InductiveInvariant, Winding, NEW t \in Requests, RequestTakes(t), phase = "stopping",
           lock \notin Requests
    PROVE  UNCHANGED <<state, attached, loaded, lock, phase, cursor>>
<1>1. ~Operating(t)
  BY DEF InductiveInvariant, Locking
<1>2. pc[Lifespan] # "serving"
  BY DEF InductiveInvariant, Locking, StopHooks
<1>3. ~Acquire(t)
  BY DEF Acquire, At, Winding, StopHooks
<1>4. \A o \in Ops, p \in Plugins \cup {Nobody} : ~Submit(t, o, p)
  BY <1>2 DEF Submit
<1>5. ~RunsOn(t) /\ ~PluginRuns(t)
  BY <1>1 DEF RunsOn, PluginRuns, Unavailable, RefuseDependents, StopBegins, StopsAtOnce,
     StartsDirectly, NeedsStop, AlreadyRunning, DependencyMissing, SettingsInvalid, Attach,
     RegisterService, GetService, Subscribe, InitReturns, InitPublished, CapabilityMissing,
     StartReturns, StartPublished, HookFails, StopReturns, StopFails, StopPublished, At,
     Operating, Synchronous, StartHooks, StopHooks
<1>6. \E r : LeaveQueue(t, r)
  BY <1>1, <1>3, <1>4, <1>5 DEF RequestTakes, TimesOut, IsCancelled, TimeoutWaiting, TimeoutStart,
     TimeoutStop, CancelWaiting, CancelStart, CancelStop, InterruptStart, InterruptStop, Operating
<1> QED  BY <1>6 DEF LeaveQueue

\* Startup ends when it has come to its end, or when an operation of it does.
LEMMA PhaseMoves ==
    ASSUME InductiveInvariant, LifespanTakes, phase = "starting", phase' # "starting"
    PROVE  MarkReady \/ \E r : Conclude(Lifespan, r)
<1>1. ~BeginShutdown
  BY DEF BeginShutdown, InductiveInvariant, Locking, StartHooks, StopHooks
<1>2. phase' # phase
  OBVIOUS
<1>3. CASE RunsOn(Lifespan)
  <2>1. ASSUME NEW r PROVE ~Answer(Lifespan, r)
    BY NamesAssumption DEF Answer
  <2>2. DependencyMissing(Lifespan) \/ SettingsInvalid(Lifespan)
    BY <1>2, <1>3, <2>1
       DEF RunsOn, Unavailable, RefuseDependents, StopBegins, StopsAtOnce, StartsDirectly,
           AlreadyRunning, Attach
  <2> QED  BY <2>2 DEF DependencyMissing, SettingsInvalid
<1>4. CASE PluginRuns(Lifespan)
  <2>1. StartPublished(Lifespan) \/ \E ok \in BOOLEAN : FinishStop(Lifespan, ok)
    BY <1>2, <1>4
       DEF PluginRuns, RegisterService, GetService, Subscribe, InitReturns, InitPublished,
           CapabilityMissing, StartReturns, HookFails, StopReturns, StopFails, StopPublished
  <2>2. ASSUME NEW ok \in BOOLEAN, FinishStop(Lifespan, ok) PROVE \E r : Conclude(Lifespan, r)
    BY <1>2, <2>2 DEF FinishStop
  <2> QED  BY <2>1, <2>2 DEF StartPublished
<1>5. CASE TimesOut(Lifespan) \/ IsCancelled(Lifespan)
  <2>1. TimeoutStop(Lifespan) \/ CancelStop(Lifespan)
    BY <1>2, <1>5
       DEF TimesOut, IsCancelled, TimeoutWaiting, TimeoutStart, CancelWaiting, CancelStart,
           LeaveQueue, InterruptStart
  <2> QED  BY <2>1 DEF TimeoutStop, CancelStop
<1>6. CASE Acquire(Lifespan) \/ LifespanStep
  BY <1>2, <1>6 DEF Acquire, LifespanStep, StartNext, StopNext, StopsNothing, AllStopped
<1> QED  BY <1>1, <1>3, <1>4, <1>5, <1>6 DEF LifespanTakes

\* While startup runs, shutdown has nothing to answer for.
LEMMA NothingReleasedYet ==
    ASSUME InductiveInvariant, InductiveInvariant', LifespanTakes, phase # "stopping"
    PROVE  Released'
<1>1. CASE phase = "ready"
  <2>1. BeginShutdown
    BY <1>1, ShutdownDooms
  <2>2. CASE loaded = {}
    BY <2>1, <2>2 DEF BeginShutdown, Released, Goto, InductiveInvariant, TypeOK, Standing, StopHooks
  <2>3. CASE loaded # {}
    BY <2>1, <2>3, OrderTyped DEF BeginShutdown, Released, Goto, InductiveInvariant, TypeOK
  <2> QED  BY <2>2, <2>3
<1>2. CASE phase = "starting"
  <2>1. CASE phase' = "starting"
    BY <2>1 DEF Released, InductiveInvariant, Locking, StartHooks, StopHooks
  <2>2. CASE phase' # "starting"
    <3>1. MarkReady \/ \E r : Conclude(Lifespan, r)
      BY <1>2, <2>2, PhaseMoves
    <3>2. CASE MarkReady
      BY <3>2 DEF MarkReady, Goto, Released, InductiveInvariant, TypeOK
    <3>3. ASSUME NEW r, Conclude(Lifespan, r) PROVE Released'
      <4>1. AbandonStartup(Lifespan, r)
        BY <1>2, <2>2, <3>3, NamesAssumption
           DEF Conclude, Answer, NextToStart, NextToStop, AbandonShutdown
      <4> QED  BY <4>1, OrderTyped DEF AbandonStartup, Released, InductiveInvariant, TypeOK
    <3> QED  BY <3>1, <3>2, <3>3
  <2> QED  BY <2>1, <2>2
<1> QED  BY <1>1, <1>2 DEF InductiveInvariant, TypeOK

\* Each stop of shutdown that ends leaves one plugin more behind.
LEMMA ShutdownGoesOn ==
    ASSUME StrayCancel = FALSE, InductiveInvariant, Released, phase = "stopping",
           \/ StopFails(Lifespan) \/ StopPublished(Lifespan)
           \/ TimeoutStop(Lifespan) \/ CancelStop(Lifespan)
    PROVE  Released'
<1>1. pc[Lifespan] \in StopHooks /\ \E s \in Over : state' = [state EXCEPT ![target[Lifespan]] = s]
  BY ReleasingSteps DEF Over
<1>2. why[Lifespan] = "shutdown"
  BY <1>1 DEF InductiveInvariant, Progress, ProgressOf, Stopping
<1>3. ~CancelStop(Lifespan)
  BY NamesAssumption DEF CancelStop, Cancellation
<1>4. \E r : Conclude(Lifespan, r) /\ r # "cancelled"
  <2>1. CASE StopFails(Lifespan) \/ StopPublished(Lifespan)
    <3>1. PICK ok \in BOOLEAN : FinishStop(Lifespan, ok)
      BY <2>1 DEF StopFails, StopPublished
    <3>2. Conclude(Lifespan, ReplyAfterStop(why[Lifespan], ok))
      BY <1>2, <3>1 DEF FinishStop
    <3> QED  BY <1>2, <3>2 DEF ReplyAfterStop
  <2>2. CASE TimeoutStop(Lifespan)
    BY <1>2, <2>2 DEF TimeoutStop
  <2> QED  BY <1>3, <2>1, <2>2
<1>5. \E r : NextToStop(Lifespan, r)
  BY <1>4, NamesAssumption DEF Conclude, Answer, NextToStart, AbandonStartup, AbandonShutdown
<1>6. /\ cursor' = cursor - 1 /\ pc'[Lifespan] = "stop_all" /\ loaded' = loaded
  BY <1>5, LoadedStays, ReleasingSteps DEF NextToStop, InductiveInvariant, TypeOK
<1>7. cursor \in 1..Len(Order) /\ target[Lifespan] = Order[cursor] /\ cursor \in Nat
  BY <1>1, OrderTyped DEF InductiveInvariant, Sweeping
<1>8. ASSUME NEW i \in 1..Len(Order), i > cursor - 1, Order[i] \in loaded
      PROVE  state'[Order[i]] \in Over
  <2>1. Order[i] \in Plugins /\ i \in Nat /\ (i = cursor \/ i > cursor)
    BY <1>7, <1>8, OrderTyped
  <2>2. i > cursor => state[Order[i]] \in Over
    BY <1>1, <1>8 DEF Released
  <2> QED  BY <1>1, <1>7, <2>1, <2>2 DEF InductiveInvariant, TypeOK
<1> QED  BY <1>6, <1>8 DEF Released

\* So does every other step of it, and the last one ends it.
LEMMA ShutdownReleases ==
    ASSUME StrayCancel = FALSE, InductiveInvariant, Released, phase = "stopping", LifespanTakes
    PROVE  Released'
<1>1. pc[Lifespan] \in {"waiting", "stop_all", "exited"} \cup StopHooks
  BY DEF InductiveInvariant, Locking
<1>2. CASE pc[Lifespan] \in StopHooks
  <2>1. StopReturns(Lifespan) => Released'
    BY <1>2 DEF StopReturns, Released, Goto, InductiveInvariant, TypeOK, StopHooks
  <2>2. \/ StopReturns(Lifespan) \/ StopFails(Lifespan) \/ StopPublished(Lifespan)
        \/ TimeoutStop(Lifespan) \/ CancelStop(Lifespan)
    BY <1>2 DEF LifespanTakes, RunsOn, PluginRuns, TimesOut, IsCancelled, LifespanStep, BeginShutdown,
       Unavailable, RefuseDependents, StopBegins, StopsAtOnce, StartsDirectly, NeedsStop,
       AlreadyRunning, DependencyMissing, SettingsInvalid, Attach, RegisterService, GetService,
       Subscribe, InitReturns, InitPublished, CapabilityMissing, StartReturns, StartPublished,
       HookFails, TimeoutWaiting, TimeoutStart, CancelWaiting, CancelStart, LeaveQueue,
       InterruptStart, Acquire, At, StartNext, MarkReady, StopNext, StopsNothing, AllStopped,
       StartHooks, StopHooks
  <2> QED  BY <2>1, <2>2, ShutdownGoesOn
<1>3. CASE pc[Lifespan] \in {"waiting", "stop_all", "exited"}
  <2>1. Acquire(Lifespan) \/ TimeoutWaiting(Lifespan) \/ StopNext \/ StopsNothing \/ AllStopped
    BY <1>3, NamesAssumption
       DEF LifespanTakes, RunsOn, PluginRuns, TimesOut, IsCancelled, LifespanStep, BeginShutdown,
       Unavailable, RefuseDependents, StopBegins, StopsAtOnce, StartsDirectly, NeedsStop,
       AlreadyRunning, DependencyMissing, SettingsInvalid, Attach, RegisterService, GetService,
       Subscribe, InitReturns, InitPublished, CapabilityMissing, StartReturns, StartPublished,
       HookFails, StopReturns, StopFails, StopPublished, TimeoutStart, TimeoutStop, CancelWaiting,
       CancelStart, CancelStop, InterruptStart, InterruptStop, At, StartNext, MarkReady,
       StartHooks, StopHooks
  <2>2. CASE Acquire(Lifespan)
    <3>1. cursor' = Len(Order) /\ pc'[Lifespan] = "stop_all"
      BY <2>2 DEF Acquire, At, Goto, InductiveInvariant, TypeOK, Sweeping
    <3> QED  BY <3>1, OrderTyped DEF Released
  <2>3. CASE TimeoutWaiting(Lifespan)
    BY <2>3 DEF TimeoutWaiting, LeaveQueue, Goto, Released, InductiveInvariant, TypeOK, StopHooks
  <2>4. CASE StopNext
    BY <2>4 DEF StopNext, BeginStop, Goto, Released, InductiveInvariant, TypeOK
  <2>5. CASE StopsNothing
    <3>1. /\ cursor \in 1..Len(Order) /\ cursor' = cursor - 1 /\ cursor \in Nat
          /\ pc[Lifespan] = "stop_all" /\ UNCHANGED <<pc, phase, loaded>>
      BY <2>5, OrderTyped DEF StopsNothing
    <3>2. ASSUME NEW i \in 1..Len(Order), i > cursor - 1, Order[i] \in loaded
          PROVE  state'[Order[i]] \in Over
      <4>1. Order[i] \in Plugins /\ i \in Nat /\ (i = cursor \/ i > cursor)
        BY <3>1, <3>2, OrderTyped
      <4>2. i > cursor => state[Order[i]] \in Over
        BY <3>1, <3>2 DEF Released
      <4> QED  BY <2>5, <3>2, <4>1, <4>2 DEF StopsNothing, InductiveInvariant, TypeOK, Over
    <3> QED  BY <3>1, <3>2 DEF Released
  <2>6. CASE AllStopped
    <3>1. /\ pc[Lifespan] = "stop_all" /\ cursor = 0 /\ lock' = Nobody /\ pc'[Lifespan] = "exited"
          /\ UNCHANGED <<state, attached, loaded>>
      BY <2>6 DEF AllStopped, Goto, InductiveInvariant, TypeOK
    <3>2. \A i \in 1..Len(Order) : /\ Order[i] \notin attached
                                   /\ Order[i] \in loaded => state[Order[i]] \in Over
      BY <3>1, OrderTyped DEF InductiveInvariant, Sweeping, Released
    <3>3. attached \subseteq Plugins /\ loaded \subseteq Plugins
      BY DEF InductiveInvariant, TypeOK
    <3>4. attached = {} /\ \A p \in loaded : state[p] \in Over
      BY <3>2, <3>3, OrderAssumption
    <3> QED  BY <3>1, <3>4 DEF Released, StopHooks
  <2> QED  BY <2>1, <2>2, <2>3, <2>4, <2>5, <2>6
<1> QED  BY <1>1, <1>2, <1>3

\* And nothing that requests do undoes it.
LEMMA ReleasedKept ==
    ASSUME StrayCancel = FALSE, InductiveInvariant, InductiveInvariant', Errands, Winding,
           Released, [Next]_vars
    PROVE  Released'
<1>1. CASE UNCHANGED vars
  BY <1>1 DEF vars, Released
<1>2. CASE LifespanTakes
  BY <1>2, NothingReleasedYet, ShutdownReleases
<1>3. ASSUME NEW t \in Requests, RequestTakes(t) PROVE Released'
  <2>1. phase' = phase /\ pc'[Lifespan] = pc[Lifespan] /\ reply'[Lifespan] = reply[Lifespan]
    BY <1>3, RequestGoes, NamesAssumption DEF Alone
  <2>2. CASE phase # "stopping"
    BY <2>1, <2>2 DEF Released, InductiveInvariant, TypeOK, Locking, StartHooks, StopHooks
  <2>3. CASE phase = "stopping" /\ lock \notin Requests
    BY <1>3, <2>1, <2>3, RequestsOnlyLeave DEF Released
  <2>4. CASE phase = "stopping" /\ lock \in Requests
    <3>1. pc[Lifespan] \notin {"stop_all"} \cup StopHooks
      BY <2>4, NamesAssumption DEF InductiveInvariant, Locking
    <3>2. loaded' = loaded
      BY LoadedStays
    <3>3. pc[Lifespan] = "exited" /\ reply[Lifespan] # "503" => loaded = {}
      BY <2>4, NamesAssumption DEF Released
    <3>4. loaded = {} => attached' = {}
      BY <3>2 DEF InductiveInvariant, Standing
    <3> QED  BY <2>1, <3>1, <3>2, <3>3, <3>4 DEF Released
  <2> QED  BY <2>2, <2>3, <2>4
<1> QED  BY <1>1, <1>2, <1>3, WhoSteps

\* If no hook or handler raises CancelledError of its own accord, and shutdown got
\* the lock in time, the process ends with every plugin stopped or failed and no
\* context or subscription left.
THEOREM ShutdownIsComplete ==
    ASSUME StrayCancel = FALSE
    PROVE  Spec => []ShutdownReleasesEverything
<1>1. Init => Released
  BY DEF Init, Released
<1>2. /\ InductiveInvariant /\ InductiveInvariant' /\ Errands /\ Winding /\ Released
      /\ [Next]_vars
      => Released'
  BY ReleasedKept
<1>3. Holdings /\ Released => ShutdownReleasesEverything
  BY DEF Holdings, ResourcesBelongToAttached, Released, ShutdownReleasesEverything, Over
<1>4. Spec => []Released
  BY <1>1, <1>2, WindingHolds, ErrandsHold, InvariantHolds, PTL DEF Spec
<1>5. Spec => []Holdings
  BY HoldingsBegin, HoldingsKept, InvariantHolds, PTL DEF Spec
<1> QED  BY <1>3, <1>4, <1>5, PTL
-----------------------------------------------------------------------------
(* The manager implements the abstract plugin host: each of its steps is a *)
(* step of PluginHost or changes neither what serves nor what holds        *)
(* resources.                                                              *)

\* The refinement mapping.
Serving == {p \in Plugins : state[p] = "running"}

\* The step changes neither what serves nor what holds resources.
HostStutters == /\ \A p \in Plugins : state'[p] = "running" <=> state[p] = "running"
                /\ attached' = attached

\* Such a step is a stutter of the abstract host.
LEMMA Stuttering ==
    ASSUME HostStutters
    PROVE  UNCHANGED Host!vars
  BY DEF HostStutters, Host!vars

\* While a task operates, everything but the plugin in its hand is settled.
LEMMA OthersSettled ==
    ASSUME InductiveInvariant, NEW t \in Tasks, Operating(t),
           pc[t] = "granted" => target[t] \in loaded
    PROVE  /\ target[t] \in Plugins
           /\ Serving \subseteq attached
           /\ attached \subseteq Serving \cup {target[t]}
           /\ ~Engaged(t) => attached = Serving
           /\ \A p \in attached : Deps[p] \subseteq Serving
<1>1. \A u \in Tasks : Engaged(u) => u = t
  BY Solo DEF Operating, Engaged
<1>2. \A p \in Plugins : p # target[t] \/ ~Engaged(t) => (p \in attached <=> state[p] = "running")
  BY <1>1 DEF InductiveInvariant, Settled
<1>3. target[t] \in Plugins
  BY InHand
<1>4. \A p \in Plugins : state[p] = "running" => p \in attached
  BY DEF InductiveInvariant, Standing
<1>5. attached \subseteq Plugins
  BY DEF InductiveInvariant, TypeOK
<1>6. \A p \in attached : Deps[p] \subseteq Serving
  BY <1>5, DepsAssumption DEF InductiveInvariant, Standing, Serving
<1> QED  BY <1>2, <1>3, <1>4, <1>5, <1>6 DEF Serving

\* Building a plugin begins on dependencies that serve.
LEMMA AttachStep ==
    ASSUME InductiveInvariant, NEW t \in Tasks, Attach(t)
    PROVE  Host!Next
<1>1. /\ Operating(t) /\ ~Engaged(t) /\ state[target[t]] # "running"
      /\ MissingDependencies(target[t]) = {}
      /\ attached' = attached \cup {target[t]} /\ state' = state
      /\ pc[t] # "granted"
  BY DEF Attach, Operating, Engaged, Synchronous, StartHooks, StopHooks
<1>2. target[t] \in Plugins /\ attached = Serving
  BY <1>1, OthersSettled
<1>3. Deps[target[t]] \subseteq Serving
  BY <1>1, <1>2, DepsAssumption DEF MissingDependencies, Serving
<1>4. target[t] \notin attached
  BY <1>1, <1>2 DEF Serving
<1>5. Host!Attach(target[t])
  BY <1>1, <1>2, <1>3, <1>4 DEF Host!Attach, Serving
<1> QED  BY <1>2, <1>5 DEF Host!Next

\* A plugin whose start hook returns serves.
LEMMA UpStep ==
    ASSUME InductiveInvariant, NEW t \in Tasks, StartReturns(t)
    PROVE  Host!Next
<1>1. /\ Operating(t) /\ Engaged(t) /\ pc[t] # "granted"
      /\ attached' = attached
      /\ state' = [state EXCEPT ![target[t]] = "running"]
  BY DEF StartReturns, At, Operating, Engaged, StartHooks
<1>2. /\ target[t] \in Plugins /\ attached \subseteq Serving \cup {target[t]}
      /\ Serving \subseteq attached
  BY <1>1, OthersSettled
<1>3. target[t] \in attached
  BY <1>1, InHand
<1>4. {p \in Plugins : state'[p] = "running"} = Serving \cup {target[t]}
  BY <1>1, <1>2 DEF Serving, InductiveInvariant, TypeOK
<1>5. PICK p \in Plugins : p = target[t]
  BY <1>2
<1>6. Host!Up(p)
  BY <1>1, <1>2, <1>3, <1>4, <1>5 DEF Host!Up, Serving
<1> QED  BY <1>6 DEF Host!Next

\* A start that is interrupted or fails takes a plugin down only when it had just
\* begun to serve, and nothing depends on it yet.
LEMMA FallStep ==
    ASSUME InductiveInvariant, NEW t \in Tasks, Engaged(t), pc[t] \in StartHooks,
           state' = [state EXCEPT ![target[t]] = "error"],
           attached' = attached
    PROVE  Host!Next \/ UNCHANGED Host!vars
<1>1. Operating(t) /\ pc[t] # "granted"
  BY DEF Operating, Engaged, StartHooks
<1>2. /\ target[t] \in Plugins /\ attached \subseteq Serving \cup {target[t]}
      /\ Serving \subseteq attached
  BY <1>1, OthersSettled
<1>3. /\ state \in [Plugins -> States] /\ ProgressOf(t)
  BY <1>1, InHand DEF InductiveInvariant, TypeOK
<1>4. CASE state[target[t]] = "running"
  <2>1. pc[t] = "start_publish"
    BY <1>3, <1>4 DEF ProgressOf, StartHooks
  <2>2. \A q \in attached : target[t] \notin Deps[q]
    BY <1>3, <2>1 DEF ProgressOf
  <2>3. attached = Serving /\ target[t] \in Serving
    BY <1>2, <1>4 DEF Serving
  <2>4. {p \in Plugins : state'[p] = "running"} = Serving \ {target[t]}
    BY <1>2, <1>3 DEF Serving
  <2>5. Host!Dependents(target[t]) \cap Serving = {}
    BY <2>2, <2>3 DEF Host!Dependents
  <2>6. PICK p \in Plugins : p = target[t]
    BY <1>2
  <2>7. Host!Fall(p)
    BY <1>2, <2>3, <2>4, <2>5, <2>6 DEF Host!Fall, Serving
  <2> QED  BY <2>7 DEF Host!Next
<1>5. CASE state[target[t]] # "running"
  <2>1. HostStutters
    BY <1>2, <1>3, <1>5 DEF HostStutters
  <2> QED  BY <2>1, Stuttering
<1> QED  BY <1>4, <1>5

\* The end of a stop releases a plugin on which nothing that serves stands.
LEMMA ReleaseStep ==
    ASSUME InductiveInvariant, NEW t \in Tasks, pc[t] \in StopHooks,
           NEW s \in {"stopped", "error"},
           state' = [state EXCEPT ![target[t]] = s],
           attached' = attached \ {target[t]}
    PROVE  Host!Next
<1>1. Operating(t) /\ Engaged(t) /\ pc[t] # "granted"
  BY DEF Operating, Engaged, StopHooks
<1>2. /\ target[t] \in Plugins /\ attached \subseteq Serving \cup {target[t]}
      /\ Serving \subseteq attached
      /\ \A p \in attached : Deps[p] \subseteq Serving
  BY <1>1, OthersSettled
<1>3. /\ state \in [Plugins -> States] /\ Stopping(t) /\ target[t] \in attached
  BY <1>1, InHand DEF InductiveInvariant, TypeOK, ProgressOf
<1>4. Host!Dependents(target[t]) \cap Serving = {}
  <2>1. CASE \A q \in attached : target[t] \notin Deps[q]
    BY <1>2, <2>1 DEF Host!Dependents
  <2>2. CASE state[target[t]] # "running"
    BY <1>2, <2>2 DEF Host!Dependents, Serving
  <2> QED  BY <1>3, <2>1, <2>2 DEF Stopping
<1>5. {p \in Plugins : state'[p] = "running"} = Serving \ {target[t]}
  BY <1>2, <1>3 DEF Serving
<1>6. PICK p \in Plugins : p = target[t]
  BY <1>2
<1>7. Host!Release(p)
  BY <1>2, <1>3, <1>4, <1>5, <1>6 DEF Host!Release, Serving
<1> QED  BY <1>7 DEF Host!Next

\* Only steps of plugin hooks and their ends are visible to the abstract host.
LEMMA StepSimulates ==
    InductiveInvariant /\ [Next]_vars => [Host!Next]_(Host!vars)
<1> SUFFICES ASSUME InductiveInvariant, [Next]_vars
             PROVE  Host!Next \/ UNCHANGED Host!vars
  OBVIOUS
<1> USE DEF InductiveInvariant, TypeOK
<1>1. CASE UNCHANGED <<state, attached>>
  BY <1>1, Stuttering DEF HostStutters
<1>2. ASSUME NEW t \in Tasks, RunsOn(t) PROVE Host!Next \/ UNCHANGED Host!vars
  <2>1. CASE Attach(t)
    BY <2>1, AttachStep
  <2>2. CASE Unavailable(t) \/ RefuseDependents(t) \/ StopBegins(t) \/ StartsDirectly(t)
             \/ AlreadyRunning(t)
    BY <2>2, <1>1 DEF pluginVars, Unavailable, RefuseDependents, StopBegins, StartsDirectly,
                      AlreadyRunning
  <2>3. CASE StopsAtOnce(t)
    <3>1. /\ target[t] \notin attached /\ state' = [state EXCEPT ![target[t]] = "stopped"]
          /\ attached' = attached
      BY <2>3 DEF StopsAtOnce
    <3>2. HostStutters
      BY <3>1 DEF HostStutters, Standing
    <3> QED  BY <3>2, Stuttering
  <2>4. CASE DependencyMissing(t) \/ SettingsInvalid(t)
    <3>1. /\ state[target[t]] # "running" /\ attached' = attached
          /\ state' = state \/ state' = [state EXCEPT ![target[t]] = "error"]
      BY <2>4 DEF DependencyMissing, SettingsInvalid
    <3>2. HostStutters
      BY <3>1 DEF HostStutters
    <3> QED  BY <3>2, Stuttering
  <2> QED  BY <1>2, <2>1, <2>2, <2>3, <2>4 DEF RunsOn
<1>3. ASSUME NEW t \in Tasks, PluginRuns(t) PROVE Host!Next \/ UNCHANGED Host!vars
  <2>1. CASE StartReturns(t)
    BY <2>1, UpStep
  <2>2. CASE \/ \E c \in Capabilities : RegisterService(t, c) \/ GetService(t, c)
             \/ Subscribe(t) \/ InitPublished(t) \/ CapabilityMissing(t)
             \/ StartPublished(t) \/ StopReturns(t)
    BY <2>2, <1>1 DEF pluginVars, RegisterService, GetService, Subscribe, InitPublished,
                      CapabilityMissing, StartPublished, StopReturns
  <2>3. CASE InitReturns(t)
    <3>1. /\ Operating(t) /\ pc[t] = "init_hook" /\ attached' = attached
          /\ state' = [state EXCEPT ![target[t]] = "initialized"]
      BY <2>3 DEF InitReturns, At, Operating, StartHooks
    <3>2. state[target[t]] # "running"
      BY <3>1, InHand DEF ProgressOf
    <3>3. HostStutters
      BY <3>1, <3>2 DEF HostStutters
    <3> QED  BY <3>3, Stuttering
  <2>4. CASE HookFails(t)
    BY <2>4, FallStep DEF HookFails, At, Engaged, StartHooks
  <2>5. CASE StopFails(t) \/ StopPublished(t)
    <3>1. PICK ok \in BOOLEAN : FinishStop(t, ok) /\ pc[t] \in StopHooks
      BY <2>5 DEF StopFails, StopPublished, At, StopHooks
    <3>2. /\ state' = [state EXCEPT ![target[t]] = StateAfterStop(why[t], ok)]
          /\ attached' = attached \ {target[t]}
      BY <3>1 DEF FinishStop, Cleanup
    <3>3. StateAfterStop(why[t], ok) \in {"stopped", "error"}
      BY DEF StateAfterStop
    <3> QED  BY <3>1, <3>2, <3>3, ReleaseStep
  <2> QED  BY <1>3, <2>1, <2>2, <2>3, <2>4, <2>5 DEF PluginRuns
<1>4. ASSUME NEW t \in Tasks, TimesOut(t) \/ IsCancelled(t)
      PROVE  Host!Next \/ UNCHANGED Host!vars
  <2>1. CASE TimeoutWaiting(t) \/ CancelWaiting(t)
    BY <2>1, <1>1 DEF pluginVars, TimeoutWaiting, CancelWaiting, LeaveQueue
  <2>2. CASE TimeoutStart(t) \/ CancelStart(t)
    <3>1. PICK w : InterruptStart(t, w)
      BY <2>2 DEF TimeoutStart, CancelStart
    <3> QED  BY <3>1, FallStep DEF InterruptStart, Engaged
  <2>3. CASE TimeoutStop(t) \/ CancelStop(t)
    <3>1. /\ pc[t] \in StopHooks
          /\ state' = [state EXCEPT ![target[t]] = "error"]
          /\ attached' = attached \ {target[t]}
      BY <2>3 DEF TimeoutStop, CancelStop, InterruptStop, Cleanup
    <3> QED  BY <3>1, ReleaseStep
  <2> QED  BY <1>4, <2>1, <2>2, <2>3 DEF TimesOut, IsCancelled
<1>5. CASE LifespanStep \/ BeginShutdown
  <2>1. CASE StopsNothing
    <3>1. /\ Order[cursor] \notin attached /\ attached' = attached
          /\ state' = state \/ state' = [state EXCEPT ![Order[cursor]] = "stopped"]
      BY <2>1 DEF StopsNothing
    <3>2. HostStutters
      BY <3>1 DEF HostStutters, Standing
    <3> QED  BY <3>2, Stuttering
  <2>2. CASE StartNext \/ MarkReady \/ StopNext \/ AllStopped \/ BeginShutdown
    BY <2>2, <1>1 DEF pluginVars, StartNext, MarkReady, StopNext, AllStopped, BeginShutdown
  <2> QED  BY <1>5, <2>1, <2>2 DEF LifespanStep
<1>6. CASE \/ \E t \in Requests, o \in Ops, p \in Plugins \cup {Nobody} : Submit(t, o, p)
           \/ \E t \in Tasks : Acquire(t)
           \/ Terminated
           \/ UNCHANGED vars
  BY <1>6, <1>1 DEF pluginVars, vars, Submit, Acquire, Terminated
<1> QED  BY <1>2, <1>3, <1>4, <1>5, <1>6 DEF Next

\* The plugin manager, with its lock, hooks, deadlines and cancellations, does
\* nothing that the abstract plugin host forbids.
THEOREM ManagerImplementsHost == Spec => ImplementsPluginHost
<1>1. Init => Host!Init
  BY DEF Init, Host!Init
<1>2. Spec => [][Host!Next]_(Host!vars)
  BY StepSimulates, InvariantHolds, PTL DEF Spec
<1> QED  BY <1>1, <1>2, PTL DEF Spec, ImplementsPluginHost, Host!Spec
-----------------------------------------------------------------------------
(* What the probes and the catalog say.                                    *)

\* Looking at the manager does not change what it does.
LEMMA ViewsAreSpec == ViewsSpec => Spec
<1>1. ViewsInit => Init
  BY DEF ViewsInit
<1>2. [ViewsNext]_<<vars, offered>> => [Next]_vars
  BY DEF ViewsNext
<1> QED  BY <1>1, <1>2, PTL DEF ViewsSpec, Spec

\* start_all leaves every plugin behind it running or failed.
Attempted ==
    /\ \A p \in Plugins \ loaded : state[p] = "error"
    /\ phase = "starting" =>
          /\ \A i \in 1..Len(Order) : i < cursor => state[Order[i]] \in {"running", "error"}
          /\ Operating(Lifespan) => target[Lifespan] = Order[cursor]
    /\ phase = "ready" /\ (\A t \in Requests : pc[t] = "idle") =>
          \A p \in Plugins : state[p] \in {"running", "error"}

\* A task that operates changes the state of the plugin in its hand only; one that
\* does not operate changes none.
LEMMA StateOfTarget ==
    ASSUME InductiveInvariant, NEW t \in Tasks,
           \/ RunsOn(t) \/ PluginRuns(t) \/ TimesOut(t) \/ IsCancelled(t) \/ Acquire(t)
    PROVE  /\ \A p \in Plugins : state'[p] # state[p] => p = target[t] /\ p \in loaded
           /\ ~Operating(t) => state' = state
<1>1. ASSUME NEW s, state' = [state EXCEPT ![target[t]] = s], Operating(t), target[t] \in loaded
      PROVE  /\ \A p \in Plugins : state'[p] # state[p] => p = target[t] /\ p \in loaded
             /\ ~Operating(t) => state' = state
  BY <1>1 DEF InductiveInvariant, TypeOK
<1>2. Engaged(t) \/ pc[t] = "starting" => target[t] \in loaded /\ Operating(t)
  BY DEF InductiveInvariant, Progress, ProgressOf, Operating, Engaged, Synchronous
<1>3. CASE state' = state
  BY <1>3
<1>4. CASE RunsOn(t)
  <2>1. CASE StopsAtOnce(t)
    BY <1>1, <2>1 DEF StopsAtOnce, NeedsStop, Operating, Synchronous
  <2>2. CASE DependencyMissing(t) \/ SettingsInvalid(t)
    BY <1>1, <1>2, <1>3, <2>2 DEF DependencyMissing, SettingsInvalid
  <2> QED
    BY <1>3, <1>4, <2>1, <2>2 DEF RunsOn, Unavailable, RefuseDependents, StopBegins, StartsDirectly,
       AlreadyRunning, Attach
<1>5. CASE PluginRuns(t)
  <2>1. CASE InitReturns(t) \/ StartReturns(t) \/ HookFails(t)
    BY <1>1, <1>2, <2>1 DEF InitReturns, StartReturns, HookFails, At, Engaged, StartHooks
  <2>2. CASE StopFails(t) \/ StopPublished(t)
    BY <1>1, <1>2, <2>2, ReleasingSteps DEF Engaged
  <2> QED
    BY <1>3, <1>5, <2>1, <2>2 DEF PluginRuns, RegisterService, GetService, Subscribe, InitPublished,
       CapabilityMissing, StartPublished, StopReturns
<1>6. CASE TimesOut(t) \/ IsCancelled(t)
  <2>1. CASE TimeoutStart(t) \/ CancelStart(t)
    BY <1>1, <1>2, <2>1 DEF TimeoutStart, CancelStart, InterruptStart, Engaged
  <2>2. CASE TimeoutStop(t) \/ CancelStop(t)
    BY <1>1, <1>2, <2>2, ReleasingSteps DEF Engaged
  <2> QED
    BY <1>3, <1>6, <2>1, <2>2 DEF TimesOut, IsCancelled, TimeoutWaiting, CancelWaiting, LeaveQueue
<1>7. CASE Acquire(t)
  BY <1>3, <1>7 DEF Acquire
<1> QED  BY <1>4, <1>5, <1>6, <1>7

\* An operation of startup leaves its plugin running or failed, and moves on only then.
LEMMA StartupLeaves ==
    ASSUME InductiveInvariant, phase = "starting",
           RunsOn(Lifespan) \/ PluginRuns(Lifespan) \/ TimesOut(Lifespan) \/ IsCancelled(Lifespan)
    PROVE  /\ Operating(Lifespan) /\ target' = target
           /\ \/ UNCHANGED hostVars
              \/ phase' = "stopping"
              \/ /\ phase' = "starting" /\ cursor' = cursor + 1
                 /\ pc'[Lifespan] = "start_all"
                 /\ state'[target[Lifespan]] \in {"running", "error"}
<1>1. ASSUME NEW r, Conclude(Lifespan, r)
      PROVE  \/ phase' = "stopping"
             \/ phase' = "starting" /\ cursor' = cursor + 1 /\ pc'[Lifespan] = "start_all"
  BY <1>1, NamesAssumption
     DEF Conclude, Answer, NextToStart, AbandonStartup, NextToStop, AbandonShutdown,
         InductiveInvariant, TypeOK
<1>2. /\ pc[Lifespan] \in {"start_all", "starting"} \cup StartHooks \cup StopHooks
      /\ state \in [Plugins -> States]
      /\ Operating(Lifespan) => target[Lifespan] \in Plugins
  BY InHand DEF InductiveInvariant, Locking, TypeOK, StartHooks, StopHooks
<1>3. CASE RunsOn(Lifespan)
  <2>1. CASE DependencyMissing(Lifespan) \/ SettingsInvalid(Lifespan)
    <3>1. /\ Operating(Lifespan) /\ target' = target /\ \E r : Conclude(Lifespan, r)
          /\ state' = [state EXCEPT ![target[Lifespan]] = "error"]
      BY <2>1 DEF DependencyMissing, SettingsInvalid, Operating, Synchronous
    <3> QED  BY <1>1, <1>2, <3>1
  <2>2. CASE Attach(Lifespan)
    BY <2>2 DEF Attach, Operating, Synchronous
  <2>3. ~AlreadyRunning(Lifespan)
    BY NamesAssumption DEF AlreadyRunning, Answer
  <2> QED
    BY <1>2, <1>3, <2>1, <2>2, <2>3 DEF RunsOn, Unavailable, RefuseDependents, StopBegins, NeedsStop,
       StopsAtOnce, StartsDirectly, StartHooks, StopHooks
<1>4. CASE PluginRuns(Lifespan)
  <2>1. CASE StartPublished(Lifespan)
    <3>1. /\ Operating(Lifespan) /\ target' = target /\ state' = state
          /\ \E r : Conclude(Lifespan, r) /\ state[target[Lifespan]] = "running"
      BY <2>1 DEF StartPublished, At, Operating, StartHooks, InductiveInvariant, Progress, ProgressOf
    <3> QED  BY <1>1, <3>1
  <2>2. CASE StopFails(Lifespan) \/ StopPublished(Lifespan)
    <3>1. PICK ok \in BOOLEAN : FinishStop(Lifespan, ok) /\ pc[Lifespan] \in StopHooks
      BY <2>2 DEF StopFails, StopPublished, At, StopHooks
    <3>2. why[Lifespan] \in {"failed", "timed_out", "cancelled"}
      BY <3>1 DEF InductiveInvariant, Progress, ProgressOf, Stopping
    <3>3. /\ Operating(Lifespan) /\ target' = target /\ \E r : Conclude(Lifespan, r)
          /\ state' = [state EXCEPT ![target[Lifespan]] = "error"]
      BY <3>1, <3>2 DEF FinishStop, StateAfterStop, Operating
    <3> QED  BY <1>1, <1>2, <3>3
  <2>3. CASE \/ \E c \in Capabilities : RegisterService(Lifespan, c) \/ GetService(Lifespan, c)
             \/ Subscribe(Lifespan) \/ InitReturns(Lifespan) \/ InitPublished(Lifespan)
             \/ CapabilityMissing(Lifespan) \/ StartReturns(Lifespan) \/ HookFails(Lifespan)
             \/ StopReturns(Lifespan)
    BY <2>3 DEF RegisterService, GetService, Subscribe, InitReturns, InitPublished, CapabilityMissing,
       StartReturns, HookFails, StopReturns, At, Operating, StartHooks, StopHooks
  <2> QED  BY <1>4, <2>1, <2>2, <2>3 DEF PluginRuns
<1>5. CASE TimesOut(Lifespan) \/ IsCancelled(Lifespan)
  <2>1. CASE TimeoutStart(Lifespan) \/ CancelStart(Lifespan)
    BY <2>1 DEF TimeoutStart, CancelStart, InterruptStart, Operating
  <2>2. CASE TimeoutStop(Lifespan) \/ CancelStop(Lifespan)
    <3>1. /\ Operating(Lifespan) /\ target' = target /\ \E r : Conclude(Lifespan, r)
          /\ state' = [state EXCEPT ![target[Lifespan]] = "error"]
      BY <2>2 DEF TimeoutStop, CancelStop, InterruptStop, Operating
    <3> QED  BY <1>1, <1>2, <3>1
  <2> QED
    BY <1>2, <1>5, <2>1, <2>2 DEF TimesOut, IsCancelled, TimeoutWaiting, CancelWaiting, LeaveQueue,
       StartHooks, StopHooks
<1> QED  BY <1>3, <1>4, <1>5

\* A stopping runtime stays so.
LEMMA StaysStopping ==
    ASSUME InductiveInvariant, LifespanTakes, phase = "stopping"
    PROVE  phase' = "stopping"
<1>1. ASSUME NEW r, Conclude(Lifespan, r) PROVE phase' = phase
  BY <1>1 DEF Conclude, Answer, NextToStart, AbandonStartup, NextToStop, AbandonShutdown
<1>2. CASE RunsOn(Lifespan) \/ Acquire(Lifespan)
  BY <1>1, <1>2, NamesAssumption
     DEF RunsOn, Unavailable, RefuseDependents, StopBegins, StopsAtOnce, StartsDirectly,
         AlreadyRunning, DependencyMissing, SettingsInvalid, Attach, Answer, Acquire
<1>3. CASE PluginRuns(Lifespan)
  <2>1. ASSUME NEW ok \in BOOLEAN, FinishStop(Lifespan, ok) PROVE phase' = phase
    BY <1>1, <2>1 DEF FinishStop
  <2> QED
    BY <1>1, <1>3, <2>1
       DEF PluginRuns, RegisterService, GetService, Subscribe, InitReturns, InitPublished,
           CapabilityMissing, StartReturns, StartPublished, HookFails, StopReturns, StopFails,
           StopPublished
<1>4. CASE TimesOut(Lifespan) \/ IsCancelled(Lifespan)
  BY <1>1, <1>4
     DEF TimesOut, IsCancelled, TimeoutWaiting, TimeoutStart, TimeoutStop, CancelWaiting,
         CancelStart, CancelStop, LeaveQueue, InterruptStart
<1>5. CASE LifespanStep \/ BeginShutdown
  BY <1>5 DEF LifespanStep, StartNext, MarkReady, StopNext, StopsNothing, AllStopped, BeginShutdown,
     InductiveInvariant, Locking, StartHooks, StopHooks
<1> QED  BY <1>2, <1>3, <1>4, <1>5 DEF LifespanTakes

\* Startup keeps what it has attempted, and requests have not touched it yet.
LEMMA AttemptedKept ==
    ASSUME InductiveInvariant, InductiveInvariant', Errands, Attempted, [Next]_vars
    PROVE  Attempted'
<1>1. loaded' = loaded
  BY LoadedStays
<1>2. \A i \in 1..Len(Order) : Order[i] \in Plugins /\ i \in Nat
  BY OrderTyped
<1>3. CASE UNCHANGED vars
  BY <1>3 DEF vars, Attempted, Operating
<1>4. ASSUME NEW t \in Requests, RequestTakes(t) PROVE Attempted'
  <2>1. phase' = phase /\ pc'[t] # "idle"
    BY <1>4, RequestGoes DEF Goes, StartHooks, StopHooks
  <2>2. phase # "starting"
    BY <1>4, <2>1, RequestGoes DEF Goes, InductiveInvariant, InductiveInvariant, Locking, StartHooks, StopHooks
  <2>3. \A p \in Plugins \ loaded : state'[p] = state[p]
    BY <1>4, StateOfTarget DEF RequestTakes, Submit
  <2> QED  BY <1>1, <2>1, <2>2, <2>3 DEF Attempted
<1>5. ASSUME LifespanTakes, phase = "starting" PROVE Attempted'
  <2>1. CASE RunsOn(Lifespan) \/ PluginRuns(Lifespan) \/ TimesOut(Lifespan) \/ IsCancelled(Lifespan)
    <3>1. /\ Operating(Lifespan) /\ target[Lifespan] = Order[cursor]
          /\ cursor \in 1..Len(Order)
      BY <1>5, <2>1, StartupLeaves DEF Attempted, InductiveInvariant, Sweeping
    <3>2. \A p \in Plugins : state'[p] # state[p] => p = target[Lifespan] /\ p \in loaded
      BY <2>1, StateOfTarget
    <3>3. ASSUME NEW i \in 1..Len(Order), i < cursor PROVE state'[Order[i]] \in {"running", "error"}
      <4>1. Order[i] # Order[cursor]
        BY <1>2, <3>1, <3>3, OrderAssumption
      <4> QED  BY <1>2, <1>5, <3>1, <3>2, <3>3, <4>1 DEF Attempted
    <3>4. \A p \in Plugins \ loaded : state'[p] = "error"
      BY <3>2 DEF Attempted
    <3>5. phase' # "ready"
      BY <1>5, <2>1, StartupLeaves
    <3>6. CASE UNCHANGED hostVars
      BY <1>1, <1>5, <2>1, <3>1, <3>3, <3>4, <3>6, StartupLeaves DEF Attempted
    <3>7. CASE phase' = "stopping"
      BY <1>1, <3>4, <3>7 DEF Attempted
    <3>8. CASE /\ phase' = "starting" /\ cursor' = cursor + 1 /\ pc'[Lifespan] = "start_all"
               /\ state'[target[Lifespan]] \in {"running", "error"}
      <4>1. ASSUME NEW i \in 1..Len(Order), i < cursor + 1 PROVE state'[Order[i]] \in {"running", "error"}
        <5>1. i = cursor \/ i < cursor
          BY <1>2, <3>1, <4>1
        <5> QED  BY <3>1, <3>3, <3>8, <5>1
      <4>2. ~Operating(Lifespan)'
        BY <3>8 DEF Operating, Synchronous, StartHooks, StopHooks
      <4> QED  BY <1>1, <3>4, <3>8, <4>1, <4>2 DEF Attempted
    <3> QED  BY <1>5, <2>1, <3>6, <3>7, <3>8, StartupLeaves
  <2>2. CASE StartNext
    <3>1. pc[Lifespan] = "start_all" /\ cursor \in 1..Len(Order) /\ state' = state /\ phase' = phase
      BY <2>2 DEF StartNext
    <3>2. CASE Order[cursor] \in loaded
      <4>1. cursor' = cursor /\ target'[Lifespan] = Order[cursor]
        BY <2>2, <3>2 DEF StartNext, InductiveInvariant, TypeOK
      <4> QED  BY <1>1, <1>5, <3>1, <4>1 DEF Attempted
    <3>3. CASE Order[cursor] \notin loaded
      <4>1. cursor' = cursor + 1 /\ pc' = pc
        BY <2>2, <3>3 DEF StartNext
      <4>2. state[Order[cursor]] = "error"
        BY <1>2, <3>1, <3>3 DEF Attempted
      <4>3. ASSUME NEW i \in 1..Len(Order), i < cursor + 1 PROVE state[Order[i]] \in {"running", "error"}
        <5>1. i = cursor \/ i < cursor
          BY <1>2, <3>1, <4>3
        <5> QED  BY <1>5, <4>2, <5>1 DEF Attempted
      <4>4. ~Operating(Lifespan)'
        BY <3>1, <4>1 DEF Operating, Synchronous, StartHooks, StopHooks
      <4> QED  BY <1>1, <1>5, <3>1, <4>1, <4>3, <4>4 DEF Attempted
    <3> QED  BY <3>2, <3>3
  <2>3. CASE MarkReady
    <3>1. cursor = Len(Order) + 1 /\ phase' = "ready" /\ state' = state
      BY <2>3 DEF MarkReady
    <3>2. ASSUME NEW p \in Plugins PROVE state[p] \in {"running", "error"}
      <4>1. PICK i \in 1..Len(Order) : Order[i] = p
        BY OrderAssumption
      <4>2. i < cursor
        BY <3>1, <4>1, OrderTyped
      <4> QED  BY <1>5, <4>1, <4>2 DEF Attempted
    <3> QED  BY <1>1, <3>1, <3>2 DEF Attempted
  <2>4. ~(Acquire(Lifespan) \/ StopNext \/ StopsNothing \/ AllStopped \/ BeginShutdown)
    BY <1>5 DEF Acquire, At, StopNext, StopsNothing, AllStopped, BeginShutdown, InductiveInvariant,
       Locking, StartHooks, StopHooks
  <2> QED  BY <1>5, <2>1, <2>2, <2>3, <2>4 DEF LifespanTakes, LifespanStep
<1>6. ASSUME LifespanTakes, phase # "starting" PROVE Attempted'
  <2>1. phase' = "stopping"
    <3>1. CASE phase = "ready"
      BY <1>6, <3>1, ShutdownDooms DEF BeginShutdown
    <3>2. CASE phase = "stopping"
      BY <1>6, <3>2, StaysStopping
    <3> QED  BY <1>6, <3>1, <3>2 DEF InductiveInvariant, TypeOK
  <2>2. \A p \in Plugins \ loaded : state'[p] = state[p]
    <3>1. CASE LifespanStep \/ BeginShutdown
      BY <3>1 DEF LifespanStep, StartNext, MarkReady, StopNext, StopsNothing, AllStopped, BeginShutdown,
         InductiveInvariant, TypeOK
    <3> QED  BY <1>6, <3>1, StateOfTarget DEF LifespanTakes
  <2> QED  BY <1>1, <2>1, <2>2 DEF Attempted
<1> QED  BY <1>3, <1>4, <1>5, <1>6, WhoSteps

\* In every reachable state startup has attempted what it went past.
LEMMA AttemptedHolds == Spec => []Attempted
<1>1. Init => Attempted
  <2> SUFFICES ASSUME Init PROVE Attempted
    OBVIOUS
  <2>1. phase = "starting" /\ cursor = 1 /\ ~Operating(Lifespan)
    BY DEF Init, Operating, Synchronous, StartHooks, StopHooks
  <2>2. \A p \in Plugins \ loaded : state[p] = "error"
    BY DEF Init
  <2>3. \A i \in 1..Len(Order) : ~(i < cursor)
    BY <2>1, OrderTyped
  <2> QED  BY <2>1, <2>2, <2>3 DEF Attempted
<1> QED  BY <1>1, AttemptedKept, ErrandsHold, InvariantHolds, PTL DEF Spec

\* The startup order names every plugin, so there are finitely many.
LEMMA FinitelyMany == IsFiniteSet(Plugins)
<1>1. [i \in 1..Len(Order) |-> Order[i]] \in Surjection(1..Len(Order), Plugins)
  BY OrderAssumption, OrderTyped DEF Surjection
<1>2. IsFiniteSet(1..Len(Order))
  BY OrderTyped, FS_Interval
<1> QED  BY <1>1, <1>2, FS_Surjection

\* Every plugin counts as running, or the platform is not called healthy.
LEMMA HealthyCountsAll ==
    ASSUME NEW h, PlatformStatus(h) = "healthy"
    PROVE  \A p \in Plugins : state[p] = "running" /\ h[p] = "healthy"
<1> DEFINE R == {p \in Plugins : Category(p, h) = "running"}
<1>1. Cardinality(R) = Cardinality(Plugins)
  BY DEF PlatformStatus, Counted
<1>2. R = Plugins
  <2> HIDE DEF R
  <2>1. R \in SUBSET Plugins
    BY DEF R
  <2> QED  BY <1>1, <2>1, FinitelyMany, FS_Subset
<1>3. ASSUME NEW p \in Plugins PROVE state[p] = "running" /\ h[p] = "healthy"
  <2>1. Category(p, h) = "running"
    BY <1>2
  <2>2. state[p] = "running" /\ Health(p, h) = "healthy"
    BY <2>1 DEF Category
  <2> QED  BY <2>2 DEF Health
<1> QED  BY <1>3

\* What is true of the manager's state makes its two claims true.
LEMMA ClaimsAreTrue ==
    ASSUME InductiveInvariant, Holdings, Attempted
    PROVE  ProbesTellTheTruth
<1>1. ASSUME NEW h \in [Plugins -> Reports], PlatformStatus(h) = "healthy"
      PROVE  /\ loaded = Plugins
             /\ \A p \in Plugins : /\ state[p] = "running" /\ h[p] = "healthy"
                                   /\ Deps[p] \subseteq attached
                                   /\ MissingCapabilities(p) = {}
  <2>1. \A p \in Plugins : state[p] = "running" /\ h[p] = "healthy"
    BY <1>1, HealthyCountsAll
  <2>2. Plugins \subseteq attached /\ attached \subseteq loaded /\ loaded \subseteq Plugins
    BY <2>1 DEF InductiveInvariant, Standing, TypeOK
  <2>3. \A p \in Plugins : Deps[p] \subseteq Plugins
    BY DepsAssumption
  <2>4. \A p \in Plugins : MissingCapabilities(p) = {}
    BY <2>1 DEF Holdings, RunningOffersItsCapabilities, MissingCapabilities
  <2> QED  BY <2>1, <2>2, <2>3, <2>4
<1>2. ReadyMeansAttempted
  <2> SUFFICES ASSUME phase = "ready", \A t \in Requests : pc[t] = "idle", NEW p \in Plugins
               PROVE  Health(p, [q \in Plugins |-> "healthy"]) \in {"healthy", "error"}
    BY DEF ReadyMeansAttempted, Ready, View
  <2>1. state[p] \in {"running", "error"}
    BY DEF Attempted
  <2> QED  BY <2>1 DEF Health
<1> QED  BY <1>1, <1>2 DEF ProbesTellTheTruth, HealthyPlatformServes

\* "healthy" of the platform status and 200 of the readiness probe are never said of
\* a manager whose plugins do not stand, or have not been started.
THEOREM ProbesAreTruthful == ViewsSpec => []ProbesTellTheTruth
<1>1. Spec => []Holdings
  BY HoldingsBegin, HoldingsKept, InvariantHolds, PTL DEF Spec
<1> QED  BY <1>1, ClaimsAreTrue, AttemptedHolds, InvariantHolds, ViewsAreSpec, PTL
-----------------------------------------------------------------------------
(* What the catalog offers at the beginning of an operation.               *)

\* What was offered stays possible until the operation makes use of it.
OfferOf(t) ==
    /\ Operating(t)
    /\ pc[t] = "granted" => target[t] \in Plugins /\ op[t] \in AvailableActions(target[t])
    /\ pc[t] = "starting" =>
          state[target[t]] # "running" /\ MissingDependencies(target[t]) = {}
    /\ pc[t] \in StopHooks /\ why[t] = "restart" => MissingDependencies(target[t]) = {}

OffersStand == \A t \in Requests : offered[t] => OfferOf(t)

\* While a request operates no other task touches a plugin.
LEMMA OthersKeepOff ==
    ASSUME InductiveInvariant, Errands, NEW t \in Requests, Operating(t), NEW u \in Tasks \ {t},
           \/ u \in Requests /\ RequestTakes(u)
           \/ u = Lifespan /\ LifespanTakes
    PROVE  /\ state' = state
           /\ pc'[t] = pc[t] /\ target'[t] = target[t] /\ why'[t] = why[t] /\ op'[t] = op[t]
<1>1. ~Operating(u)
  BY Solo
<1>2. Alone(u)
  BY RequestGoes, LifespanAlone
<1>3. state' = state
  <2>1. CASE RunsOn(u) \/ PluginRuns(u) \/ TimesOut(u) \/ IsCancelled(u) \/ Acquire(u)
    BY <1>1, <2>1, StateOfTarget
  <2>2. CASE \E o \in Ops, p \in Plugins \cup {Nobody} : Submit(u, o, p)
    BY <2>2 DEF Submit
  <2>3. CASE LifespanStep \/ BeginShutdown
    <3>1. ~StopsNothing
      BY NamesAssumption DEF StopsNothing, InductiveInvariant, Locking, TypeOK, StartHooks, StopHooks
    <3> QED  BY <2>3, <3>1 DEF LifespanStep, StartNext, MarkReady, StopNext, AllStopped, BeginShutdown
  <2> QED  BY <2>1, <2>2, <2>3 DEF RequestTakes, LifespanTakes
<1> QED  BY <1>2, <1>3 DEF Alone

\* The resolver orders a plugin after what it depends on: never after itself.
LEMMA NoSelfDependency == \A p \in Plugins : p \notin Deps[p]
<1> SUFFICES ASSUME NEW p \in Plugins, p \in Deps[p] PROVE FALSE
  OBVIOUS
<1>1. PICK i \in 1..Len(Order) : Order[i] = p
  BY OrderAssumption
<1>2. i < i
  BY <1>1, OrderAssumption
<1> QED  BY <1>2, OrderTyped

\* An operation keeps its target.
LEMMA TargetStays ==
    ASSUME NEW t \in Tasks,
           RunsOn(t) \/ PluginRuns(t) \/ TimesOut(t) \/ IsCancelled(t) \/ Acquire(t)
    PROVE  target' = target
<1>1. CASE RunsOn(t)
  BY <1>1 DEF RunsOn, Unavailable, RefuseDependents, StopBegins, StopsAtOnce, StartsDirectly,
     AlreadyRunning, DependencyMissing, SettingsInvalid, Attach
<1>2. CASE PluginRuns(t)
  BY <1>2 DEF PluginRuns, RegisterService, GetService, Subscribe, InitReturns, InitPublished,
     CapabilityMissing, StartReturns, StartPublished, HookFails, StopReturns, StopFails,
     StopPublished, FinishStop
<1>3. CASE TimesOut(t) \/ IsCancelled(t) \/ Acquire(t)
  BY <1>3 DEF TimesOut, IsCancelled, TimeoutWaiting, TimeoutStart, TimeoutStop, CancelWaiting,
     CancelStart, CancelStop, LeaveQueue, InterruptStart, InterruptStop, Acquire
<1> QED  BY <1>1, <1>2, <1>3

\* A request comes to the start half of its operation with its plugin not running.
LEMMA StartsWhatRests ==
    ASSUME InductiveInvariant, NEW t \in Requests, RequestTakes(t), Operating(t),
           pc'[t] = "starting",
           pc[t] = "granted" => op[t] \in AvailableActions(target[t])
    PROVE  state'[target[t]] # "running"
<1>1. /\ state \in [Plugins -> States] /\ pc \in [Tasks -> Places]
      /\ pc[t] \in StartHooks \cup StopHooks => target[t] \in Plugins
  BY DEF InductiveInvariant, TypeOK, Progress, ProgressOf, Engaged
<1>2. CASE RunsOn(t)
  <2>1. CASE StopsAtOnce(t)
    BY <1>1, <2>1 DEF StopsAtOnce, NeedsStop, InductiveInvariant, TypeOK
  <2>2. CASE StartsDirectly(t)
    BY <2>2 DEF StartsDirectly, AvailableActions
  <2>3. ~(Unavailable(t) \/ RefuseDependents(t) \/ AlreadyRunning(t))
    BY <1>1 DEF Unavailable, RefuseDependents, AlreadyRunning, Answer
  <2>4. ~(DependencyMissing(t) \/ SettingsInvalid(t))
    BY <1>1, RequestsAnswer DEF DependencyMissing, SettingsInvalid, Answer
  <2> QED  BY <1>1, <1>2, <2>1, <2>2, <2>3, <2>4 DEF RunsOn, StopBegins, BeginStop, Goto, Attach
<1>3. CASE PluginRuns(t)
  <2>1. CASE StopFails(t) \/ StopPublished(t)
    <3>1. PICK ok \in BOOLEAN : FinishStop(t, ok) /\ pc[t] \in StopHooks
      BY <2>1 DEF StopFails, StopPublished, At, StopHooks
    <3>2. why[t] = "restart" /\ ok
      BY <1>1, <3>1, RequestsAnswer DEF FinishStop, Answer
    <3> QED  BY <1>1, <3>1, <3>2 DEF FinishStop, StateAfterStop
  <2>2. ~StartPublished(t)
    BY <1>1, RequestsAnswer DEF StartPublished, Answer
  <2>3. pc[t] # "starting" /\ pc[t] # "granted"
    BY <1>3 DEF PluginRuns, RegisterService, GetService, Subscribe, InitReturns, InitPublished,
       CapabilityMissing, StartReturns, StartPublished, HookFails, StopReturns, StopFails,
       StopPublished, At
  <2> QED
    BY <1>1, <1>3, <2>1, <2>2, <2>3
       DEF PluginRuns, RegisterService, GetService, Subscribe, InitReturns, InitPublished,
           CapabilityMissing, StartReturns, HookFails, StopReturns, BeginStop, Goto
<1>4. ~(TimesOut(t) \/ IsCancelled(t) \/ Acquire(t))
  BY <1>1, RequestsAnswer, NamesAssumption
     DEF TimesOut, IsCancelled, TimeoutWaiting, TimeoutStart, TimeoutStop, CancelWaiting,
         CancelStart, CancelStop, LeaveQueue, InterruptStart, InterruptStop, BeginStop, Goto,
         Answer, Acquire
<1>5. ~\E o \in Ops, p \in Plugins \cup {Nobody} : Submit(t, o, p)
  BY DEF Submit, Operating, Synchronous, StartHooks, StopHooks
<1> QED  BY <1>2, <1>3, <1>4, <1>5 DEF RequestTakes

\* What the own steps of a request leave of its offer.
LEMMA OfferLasts ==
    ASSUME InductiveInvariant, Errands, NEW t \in Requests, RequestTakes(t), OfferOf(t),
           pc'[t] # "done", pc[t] # "granted" => pc'[t] # "granted"
    PROVE  OfferOf(t)'
<1>1. ~\E o \in Ops, p \in Plugins \cup {Nobody} : Submit(t, o, p)
  BY DEF Submit, OfferOf, Operating, Synchronous, StartHooks, StopHooks
<1>2. /\ target' = target
      /\ \A p \in Plugins : state'[p] # state[p] => p = target[t]
  BY <1>1, TargetStays, StateOfTarget DEF RequestTakes
<1>3. loaded' = loaded
  BY LoadedStays DEF RequestTakes, Next
<1>4. target[t] \in Plugins
  BY InHand DEF OfferOf, AvailableActions
<1>5. MissingDependencies(target[t]) = {} => MissingDependencies(target[t])' = {}
  BY <1>2, <1>3, <1>4, NoSelfDependency, DepsAssumption DEF MissingDependencies
<1>6. MissingDependencies(target[t]) = {} \/ pc[t] \in StartHooks \cup StopHooks
  BY DEF OfferOf, Operating, Synchronous, AvailableActions
<1>7. Goes(t)
  BY RequestGoes
<1>8. pc'[t] \in {"starting"} \cup StartHooks \cup StopHooks
  BY <1>7 DEF Goes, OfferOf, Operating, Synchronous, StartHooks, StopHooks
<1>9. pc'[t] = "starting" => state'[target[t]] # "running" /\ MissingDependencies(target[t])' = {}
  <2> SUFFICES ASSUME pc'[t] = "starting"
               PROVE  state'[target[t]] # "running" /\ MissingDependencies(target[t])' = {}
    OBVIOUS
  <2>1. pc[t] \in {"granted", "starting"} \/ (pc[t] \in StopHooks /\ why[t] = "restart")
    BY <1>7 DEF Goes, OfferOf, Operating, Synchronous, StartHooks, StopHooks
  <2>2. MissingDependencies(target[t]) = {}
    BY <1>6, <2>1 DEF OfferOf, StartHooks, StopHooks
  <2> QED  BY <1>5, <2>2, StartsWhatRests DEF OfferOf
<1>10. pc'[t] \in StopHooks /\ why'[t] = "restart" => MissingDependencies(target[t])' = {}
  <2> SUFFICES ASSUME pc'[t] \in StopHooks, why'[t] = "restart"
               PROVE  MissingDependencies(target[t]) = {}
    BY <1>5
  <2>1. pc[t] \in {"granted", "starting"} \/ (pc[t] \in StopHooks /\ why[t] = "restart")
    BY <1>7 DEF Goes, OfferOf, Operating, Synchronous, StartHooks, StopHooks
  <2> QED  BY <1>6, <2>1 DEF OfferOf, StartHooks, StopHooks
<1> QED
  BY <1>2, <1>8, <1>9, <1>10 DEF OfferOf, Operating, Synchronous, StartHooks, StopHooks

\* A request that begins is offered what the catalog shows then.
LEMMA OfferBegins ==
    ASSUME InductiveInvariant, Errands, NEW t \in Requests, RequestTakes(t), Begins(t),
           target'[t] \in Plugins, op'[t] \in AvailableActions(target'[t])
    PROVE  OfferOf(t)'
<1>1. pc[t] \in {"idle", "waiting"}
  BY RequestGoes, NamesAssumption DEF Goes, Begins, StartHooks, StopHooks
<1>2. state' = state
  <2>1. ~Operating(t)
    BY <1>1 DEF Operating, Synchronous, StartHooks, StopHooks
  <2> QED  BY <2>1, StateOfTarget DEF RequestTakes, Submit
<1>3. loaded' = loaded
  BY LoadedStays DEF RequestTakes, Next
<1>4. AvailableActions(target'[t]) = AvailableActions(target[t])'
  BY <1>2, <1>3 DEF AvailableActions, ActiveDependents, MissingDependencies
<1> QED  BY <1>4 DEF OfferOf, Begins, Operating, Synchronous, StartHooks, StopHooks

\* The offers stand.
LEMMA OffersKept ==
    ASSUME InductiveInvariant, Errands, OffersStand, [ViewsNext]_<<vars, offered>>
    PROVE  OffersStand'
<1>1. CASE UNCHANGED <<vars, offered>>
  BY <1>1 DEF vars, OffersStand, OfferOf, Operating, AvailableActions, ActiveDependents,
     MissingDependencies
<1>2. CASE ViewsNext
  <2> SUFFICES ASSUME NEW t \in Requests, offered'[t] PROVE OfferOf(t)'
    BY DEF OffersStand
  <2>1. \/ Begins(t) /\ target'[t] \in Plugins /\ op'[t] \in AvailableActions(target'[t])
        \/ ~Begins(t) /\ offered[t] /\ pc'[t] # "done"
    BY <1>2 DEF ViewsNext
  <2>2. ASSUME NEW u \in Tasks \ {t},
               \/ u \in Requests /\ RequestTakes(u)
               \/ u = Lifespan /\ LifespanTakes
        PROVE  OfferOf(t)'
    <3>1. Alone(u)
      BY <2>2, RequestGoes, LifespanAlone
    <3>2. OfferOf(t)
      BY <2>1, <3>1 DEF Alone, Begins, OffersStand
    <3>3. /\ state' = state
          /\ pc'[t] = pc[t] /\ target'[t] = target[t] /\ why'[t] = why[t] /\ op'[t] = op[t]
      BY <2>2, <3>2, OthersKeepOff DEF OfferOf
    <3>4. loaded' = loaded
      BY <1>2, LoadedStays DEF ViewsNext
    <3> QED
      BY <3>2, <3>3, <3>4 DEF OfferOf, Operating, AvailableActions, ActiveDependents,
         MissingDependencies
  <2>3. CASE RequestTakes(t)
    <3>1. CASE Begins(t)
      BY <2>1, <2>3, <3>1, OfferBegins
    <3>2. CASE ~Begins(t)
      BY <2>1, <2>3, <3>2, OfferLasts DEF OffersStand, Begins
    <3> QED  BY <3>1, <3>2
  <2>4. CASE UNCHANGED vars
    BY <2>1, <2>4 DEF vars, Begins, OffersStand, OfferOf, Operating, AvailableActions,
       ActiveDependents, MissingDependencies
  <2> QED  BY <1>2, <2>2, <2>3, <2>4, WhoSteps, NamesAssumption DEF ViewsNext
<1> QED  BY <1>1, <1>2

\* Whatever the catalog offered when an operation began, the operation neither refuses
\* nor finds done, however much happened between the two checks of a restart.
THEOREM OffersAreHonoured == ViewsSpec => OfferedActionsAct
<1>1. ViewsInit => OffersStand
  BY DEF ViewsInit, OffersStand
<1>2. ViewsSpec => []OffersStand
  BY <1>1, OffersKept, InvariantHolds, ErrandsHold, ViewsAreSpec, PTL DEF ViewsSpec
<1>3. OffersStand => [\A t \in Requests : offered[t] =>
          ~(Unavailable(t) \/ RefuseDependents(t) \/ DependencyMissing(t) \/ AlreadyRunning(t))]_vars
  BY DEF OffersStand, OfferOf, AvailableActions, Unavailable, RefuseDependents,
     DependencyMissing, AlreadyRunning
<1> QED  BY <1>2, <1>3, PTL DEF OfferedActionsAct
-----------------------------------------------------------------------------
(* The bundled plugins: their service objects follow their hooks.          *)

\* The way of a task in and out of the hooks of a plugin, and what it does to
\* the plugin on the way.
Course(t) ==
    \/ ~Engaged(t) /\ ~Engaged(t)'
    \/ /\ ~Engaged(t) /\ pc'[t] = "stop_hook"
       /\ pc[t] \in Synchronous \cup {"stop_all"}
    \/ /\ target'[t] = target[t]
       /\ \/ pc[t] = "starting" /\ pc'[t] = "init_hook" /\ state[target[t]] # "running"
          \/ pc[t] = "init_hook" /\ pc'[t] \in {"init_hook", "init_publish"}
          \/ pc[t] = "init_publish" /\ pc'[t] = "start_hook"
          \/ pc[t] = "start_hook" /\ pc'[t] = "start_publish"
          \/ pc[t] = "start_publish" /\ pc'[t] \in Rests /\ state' = state
          \/ pc[t] \in StartHooks /\ pc'[t] = "stop_hook"
          \/ pc[t] = "stop_hook" /\ pc'[t] = "stop_publish"
          \/ /\ pc[t] \in StopHooks /\ pc'[t] \in Rests \cup {"starting"}
             /\ state'[target[t]] # "running"

\* Only the plugin in a task's hand registers services, begins to run and ceases to.
HandsOn(t) ==
    \A p \in Plugins :
        /\ Built(p) => pc[t] = "init_hook" /\ pc'[t] = "init_hook" /\ target[t] = p
        /\ (state[p] = "running" <=> state'[p] = "running") \/ (Engaged(t) /\ target[t] = p)

\* A step that touches neither hooks nor services, nor what runs.
LEMMA KeepsOff ==
    ASSUME NEW t, services' = services, pc[t] \notin StartHooks \cup StopHooks,
           pc'[t] \notin StartHooks \cup StopHooks,
           \A p \in Plugins : state[p] = "running" <=> state'[p] = "running"
    PROVE  Course(t) /\ HandsOn(t)
  BY DEF Course, HandsOn, Engaged, Built

\* What has no context does not run.
LEMMA RunsAttached ==
    ASSUME InductiveInvariant, NEW p \in Plugins, p \notin attached
    PROVE  state[p] # "running"
  BY DEF InductiveInvariant, Standing

\* The steps of a task take this course.
LEMMA TaskCourse ==
    ASSUME InductiveInvariant, NEW t \in Tasks,
           \/ RunsOn(t) \/ PluginRuns(t) \/ TimesOut(t) \/ IsCancelled(t) \/ Acquire(t)
           \/ \E o \in Ops, p \in Plugins \cup {Nobody} : Submit(t, o, p)
    PROVE  Course(t) /\ HandsOn(t)
<1> USE DEF InductiveInvariant, TypeOK
<1>0. ASSUME NEW X, Moves(t, X)  PROVE pc'[t] \in X
  BY <1>0 DEF Moves
<1>1. CASE \/ Unavailable(t) \/ RefuseDependents(t) \/ StartsDirectly(t) \/ AlreadyRunning(t)
           \/ TimeoutWaiting(t) \/ CancelWaiting(t) \/ Acquire(t)
           \/ \E o \in Ops, p \in Plugins \cup {Nobody} : Submit(t, o, p)
  <2>1. services' = services /\ state' = state
    BY <1>1 DEF Unavailable, RefuseDependents, StartsDirectly, AlreadyRunning, TimeoutWaiting,
                CancelWaiting, LeaveQueue, Acquire, Submit
  <2>2. pc[t] \in {"granted", "starting", "waiting", "idle"}
        /\ pc'[t] \in {"done", "starting", "exited", "stop_all", "granted", "waiting"}
    BY <1>1 DEF Unavailable, RefuseDependents, StartsDirectly, AlreadyRunning, Answer, Goto, TimeoutWaiting,
                CancelWaiting, LeaveQueue, Acquire, At, Submit
  <2> QED  BY <2>1, <2>2, KeepsOff DEF StartHooks, StopHooks
<1>2. CASE StopsAtOnce(t)
  <2>1. pc[t] = "granted" /\ pc'[t] \in {"done", "starting"} /\ services' = services
    BY <1>2 DEF StopsAtOnce, NeedsStop, Goto, Answer
  <2>2. \A p \in Plugins : state[p] = "running" <=> state'[p] = "running"
    BY <1>2, RunsAttached DEF StopsAtOnce
  <2> QED  BY <2>1, <2>2, KeepsOff DEF StartHooks, StopHooks
<1>3. CASE DependencyMissing(t) \/ SettingsInvalid(t)
  <2>1. pc[t] = "starting" /\ Moves(t, Rests) /\ services' = services
    BY <1>3, ConcludeMoves DEF DependencyMissing, SettingsInvalid
  <2>2. \A p \in Plugins : state[p] = "running" <=> state'[p] = "running"
    BY <1>3 DEF DependencyMissing, SettingsInvalid
  <2> QED  BY <1>0, <2>1, <2>2, KeepsOff DEF StartHooks, StopHooks, Rests
<1>4. CASE StopBegins(t) \/ Attach(t)
  <2>1. pc[t] \in {"granted", "starting"} /\ services' = services /\ state' = state /\ target' = target
    BY <1>4 DEF StopBegins, NeedsStop, Attach
  <2>2. \/ pc'[t] = "stop_hook"
        \/ pc[t] = "starting" /\ pc'[t] = "init_hook" /\ state[target[t]] # "running"
    BY <1>4 DEF StopBegins, BeginStop, Attach, Goto
  <2> QED  BY <2>1, <2>2 DEF Course, HandsOn, Engaged, Built, Synchronous, StartHooks, StopHooks
<1>5. CASE \/ \E c \in Capabilities : RegisterService(t, c) \/ GetService(t, c)
           \/ Subscribe(t)
  <2>1. /\ pc[t] = "init_hook" /\ pc' = pc /\ state' = state /\ target' = target
        /\ \/ services' = services
           \/ \E c \in Capabilities : services' = [services EXCEPT ![c] = target[t]]
    BY <1>5 DEF RegisterService, GetService, Subscribe, At
  <2> QED  BY <2>1 DEF Course, HandsOn, Built
<1>6. CASE InitReturns(t) \/ InitPublished(t) \/ StartReturns(t) \/ StopReturns(t)
  <2>1. /\ \/ pc[t] = "init_hook" /\ pc'[t] = "init_publish"
           \/ pc[t] = "init_publish" /\ pc'[t] = "start_hook"
           \/ pc[t] = "start_hook" /\ pc'[t] = "start_publish"
           \/ pc[t] = "stop_hook" /\ pc'[t] = "stop_publish"
        /\ services' = services /\ target' = target
        /\ \A p \in Plugins : p # target[t] => state'[p] = state[p]
    BY <1>6 DEF InitReturns, InitPublished, StartReturns, StopReturns, At, Goto
  <2>2. target'[t] = target[t] /\ Course(t)
    BY <2>1 DEF Course
  <2>3. Engaged(t)
    BY <2>1 DEF Engaged, StartHooks, StopHooks
  <2> QED  BY <2>1, <2>2, <2>3 DEF HandsOn, Built
<1>7. CASE CapabilityMissing(t) \/ HookFails(t) \/ TimeoutStart(t) \/ CancelStart(t)
  <2>1. /\ pc[t] \in StartHooks /\ pc'[t] = "stop_hook" /\ services' = services /\ target' = target
        /\ \A p \in Plugins : p # target[t] => state'[p] = state[p]
    BY <1>7 DEF CapabilityMissing, HookFails, TimeoutStart, CancelStart, InterruptStart, BeginStop, At, Goto,
                StartHooks
  <2> QED  BY <2>1 DEF Course, HandsOn, Engaged, Built
<1>8. CASE StartPublished(t)
  <2>1. pc[t] = "start_publish" /\ Moves(t, Rests) /\ services' = services /\ state' = state /\ target' = target
    BY <1>8, ConcludeMoves DEF StartPublished, At
  <2> QED  BY <1>0, <2>1 DEF Course, HandsOn, Built
<1>9. CASE StopFails(t) \/ StopPublished(t) \/ TimeoutStop(t) \/ CancelStop(t)
  <2>1. /\ pc[t] \in StopHooks /\ target' = target /\ Moves(t, Rests \cup {"starting"})
        /\ Cleanup(target[t])
        /\ \E s \in {"stopped", "error"} : state' = [state EXCEPT ![target[t]] = s]
    BY <1>9, ReleasingSteps
  <2>2. pc'[t] \in Rests \cup {"starting"}
    BY <1>0, <2>1
  <2>3. target[t] \in Plugins
    BY <2>1, InHand DEF Operating, StopHooks
  <2>4. \A p \in Plugins : ~Built(p)
    BY <2>1, NamesAssumption DEF Cleanup, Built
  <2>5. state'[target[t]] # "running" /\ \A p \in Plugins : p # target[t] => state'[p] = state[p]
    BY <2>1, <2>3
  <2> QED  BY <2>1, <2>2, <2>4, <2>5 DEF Course, HandsOn, Engaged
<1> QED
  BY <1>1, <1>2, <1>3, <1>4, <1>5, <1>6, <1>7, <1>8, <1>9 DEF RunsOn, PluginRuns, TimesOut, IsCancelled

\* So do those of the lifespan.
LEMMA LifespanCourse ==
    ASSUME InductiveInvariant, LifespanStep \/ BeginShutdown
    PROVE  Course(Lifespan) /\ HandsOn(Lifespan)
<1> USE DEF InductiveInvariant, TypeOK
<1>1. services' = services
  BY DEF LifespanStep, StartNext, MarkReady, StopNext, StopsNothing, AllStopped, BeginShutdown
<1>2. \A p \in Plugins : state[p] = "running" <=> state'[p] = "running"
  BY RunsAttached DEF LifespanStep, StartNext, MarkReady, StopNext, StopsNothing, AllStopped, BeginShutdown
<1>3. pc[Lifespan] \in {"start_all", "serving", "stop_all"}
  BY DEF LifespanStep, StartNext, MarkReady, StopNext, StopsNothing, AllStopped, BeginShutdown
<1>4. pc'[Lifespan] \in {"start_all", "starting", "serving", "stop_all", "exited", "waiting", "stop_hook"}
  BY <1>3 DEF LifespanStep, StartNext, MarkReady, StopNext, StopsNothing, AllStopped, BeginShutdown, Goto, BeginStop
<1>5. pc'[Lifespan] = "stop_hook" => pc[Lifespan] = "stop_all"
  BY DEF LifespanStep, StartNext, MarkReady, StopNext, StopsNothing, AllStopped, BeginShutdown, Goto
<1> QED
  BY <1>1, <1>2, <1>3, <1>4, <1>5 DEF Course, HandsOn, Engaged, Built, StartHooks, StopHooks

\* What the service object of a bundled plugin is, where its hooks have come to.
Matches(p) ==
    /\ (\A t \in Tasks : Engaged(t) => target[t] # p) =>
          (service[p] = "running" <=> state[p] = "running")
    /\ \A t \in Tasks : target[t] = p =>
          /\ pc[t] \in {"init_hook"} \cup StopHooks => service[p] # "running"
          /\ pc[t] = "init_publish" => service[p] = "idle"
          /\ pc[t] \in {"start_hook", "start_publish"} => service[p] = "running"
    /\ \A s \in captured[p] : s[1] \in Deps[p]

\* The service objects follow the hooks, and what was looked up is a provider's.
BundledInvariant ==
    /\ service \in [Bundled -> {"none", "idle", "running"}]
    /\ \A p \in Bundled : Matches(p)

\* The service of a plugin the task has not in hand stays as it is.
LEMMA NotInHand ==
    ASSUME NEW p \in Bundled, NEW t \in Tasks, Matches(p), Alone(t), HandsOn(t),
           service' = [q \in Bundled |-> NextService(q)], BundledHooks,
           ~((Engaged(t) /\ target[t] = p) \/ (Engaged(t)' /\ target'[t] = p))
    PROVE  Matches(p)'
<1>0. ~(Engaged(t) /\ target[t] = p) /\ ~(Engaged(t)' /\ target'[t] = p)
  BY DEF Engaged
<1>1. p \in Plugins
  BY BundledAssumption
<1>2. ~Built(p) /\ (state[p] = "running" <=> state'[p] = "running")
  BY <1>0, <1>1 DEF HandsOn, Engaged, StartHooks
<1>3. \A u \in Tasks \ {t} : pc'[u] = pc[u] /\ target'[u] = target[u]
  BY DEF Alone
<1>4. ~Enters(p, "start_hook") /\ ~Enters(p, "stop_hook") /\ ~Dropped(p)
  BY <1>0, <1>3 DEF Enters, Dropped, Engaged, StartHooks, StopHooks
<1>5. service'[p] = service[p]
  BY <1>2, <1>4 DEF NextService
<1>6. \A u \in Tasks : Engaged(u)' /\ target'[u] = p => u # t /\ Engaged(u) /\ target[u] = p
  BY <1>0, <1>3 DEF Engaged
<1>7. \A u \in Tasks : Engaged(u) /\ target[u] = p => Engaged(u)' /\ target'[u] = p
  BY <1>0, <1>3 DEF Engaged
<1>8. (\A u \in Tasks : Engaged(u)' => target'[u] # p)
         => (service'[p] = "running" <=> state'[p] = "running")
  BY <1>2, <1>5, <1>7 DEF Matches
<1>9. ASSUME NEW u \in Tasks, target'[u] = p
      PROVE  /\ pc'[u] \in {"init_hook"} \cup StopHooks => service'[p] # "running"
             /\ pc'[u] = "init_publish" => service'[p] = "idle"
             /\ pc'[u] \in {"start_hook", "start_publish"} => service'[p] = "running"
  <2>1. CASE Engaged(u)'
    BY <1>3, <1>5, <1>6, <1>9, <2>1 DEF Matches
  <2>2. CASE ~Engaged(u)'
    BY <2>2 DEF Engaged, StartHooks, StopHooks
  <2> QED  BY <2>1, <2>2
<1>10. \A s \in captured'[p] : s[1] \in Deps[p]
  BY DEF BundledHooks
<1> QED  BY <1>8, <1>9, <1>10 DEF Matches, Engaged

\* That of the plugin in its hand follows the hooks.
LEMMA TakenInHand ==
    ASSUME NEW p \in Bundled, NEW t \in Tasks, TypeOK, service \in [Bundled -> {"none", "idle", "running"}],
           Matches(p), Alone(t), Course(t), HandsOn(t),
           Progress,
           service' = [q \in Bundled |-> NextService(q)], BundledHooks,
           (Engaged(t) /\ target[t] = p) \/ (Engaged(t)' /\ target'[t] = p),
           \A u \in Tasks \ {t} : ~(Engaged(u) /\ target[u] = p)
    PROVE  Matches(p)'
<1>1. p \in Plugins /\ p \in Bundled
  BY BundledAssumption
<1>2. \A u \in Tasks \ {t} : pc'[u] = pc[u] /\ target'[u] = target[u]
  BY DEF Alone
<1>3. /\ \A x : Enters(p, x) <=> target'[t] = p /\ pc[t] # x /\ pc'[t] = x
      /\ Dropped(p) <=> target[t] = p /\ pc[t] = "stop_hook" /\ pc'[t] = "stop_publish"
      /\ Built(p) => pc[t] = "init_hook" /\ pc'[t] = "init_hook" /\ target[t] = p
  BY <1>1, <1>2 DEF Enters, Dropped, HandsOn
<1>4. service'[p] = NextService(p) /\ service[p] \in {"none", "idle", "running"}
  OBVIOUS
<1>5. Enters(p, "init_publish") => service[p] # "none"
  BY DEF BundledHooks
<1>6. \A s \in captured'[p] : s[1] \in Deps[p]
  BY DEF BundledHooks
\* It is enough to look at t.
<1>7. ASSUME target'[t] = p,
             ~Engaged(t)' => (service'[p] = "running" <=> state'[p] = "running"),
             pc'[t] \in {"init_hook"} \cup StopHooks => service'[p] # "running",
             pc'[t] = "init_publish" => service'[p] = "idle",
             pc'[t] \in {"start_hook", "start_publish"} => service'[p] = "running"
      PROVE  Matches(p)'
  <2>1. \A u \in Tasks \ {t} : ~(Engaged(u)' /\ target'[u] = p)
    BY <1>2 DEF Engaged
  <2>2. (\A u \in Tasks : Engaged(u)' => target'[u] # p)
           => (service'[p] = "running" <=> state'[p] = "running")
    BY <1>7
  <2>3. ASSUME NEW u \in Tasks, target'[u] = p
        PROVE  /\ pc'[u] \in {"init_hook"} \cup StopHooks => service'[p] # "running"
               /\ pc'[u] = "init_publish" => service'[p] = "idle"
               /\ pc'[u] \in {"start_hook", "start_publish"} => service'[p] = "running"
    <3>1. CASE u = t
      BY <1>7, <3>1
    <3>2. CASE u # t
      BY <2>1, <2>3, <3>2 DEF Engaged, StartHooks, StopHooks
    <3> QED  BY <3>1, <3>2
  <2> QED  BY <1>6, <2>2, <2>3 DEF Matches, Engaged
<1>8. ~Engaged(t) => (service[p] = "running" <=> state[p] = "running")
  BY DEF Matches
<1>9. Engaged(t)' => pc'[t] \in StartHooks \cup StopHooks
  BY DEF Engaged
<1>10. CASE pc'[t] = "stop_hook" /\ pc[t] # "stop_hook" /\ target'[t] = p
  <2>1. service'[p] # "running" /\ Engaged(t)'
    BY <1>3, <1>4, <1>10 DEF NextService, Engaged, StopHooks
  <2> QED  BY <1>7, <1>10, <2>1 DEF StartHooks, StopHooks
<1>11. CASE /\ target'[t] = target[t] /\ target[t] = p
            /\ ~Engaged(t) /\ pc'[t] = "init_hook" /\ state[p] # "running"
  <2>1. service'[p] # "running" /\ Engaged(t)'
    BY <1>3, <1>4, <1>8, <1>11 DEF NextService, Engaged, StartHooks
  <2> QED  BY <1>7, <1>11, <2>1 DEF StopHooks
<1>12. CASE /\ target'[t] = target[t] /\ target[t] = p
            /\ pc[t] = "init_hook" /\ pc'[t] \in {"init_hook", "init_publish"}
  <2>1. service[p] # "running"
    BY <1>12 DEF Matches
  <2>2. pc'[t] = "init_hook" => service'[p] # "running"
    BY <1>3, <1>4, <1>12, <2>1 DEF NextService
  <2>3. pc'[t] = "init_publish" => service'[p] = "idle"
    BY <1>3, <1>4, <1>5, <1>12, <2>1 DEF NextService
  <2>4. Engaged(t)'
    BY <1>12 DEF Engaged, StartHooks
  <2> QED  BY <1>7, <1>12, <2>2, <2>3, <2>4 DEF StopHooks
<1>13. CASE /\ target'[t] = target[t] /\ target[t] = p
            /\ pc[t] = "init_publish" /\ pc'[t] = "start_hook"
  <2>1. service[p] = "idle"
    BY <1>13 DEF Matches
  <2>2. service'[p] = "running"
    BY <1>3, <1>4, <1>13, <2>1 DEF NextService
  <2>3. Engaged(t)'
    BY <1>13 DEF Engaged, StartHooks
  <2> QED  BY <1>7, <1>13, <2>2, <2>3 DEF StopHooks
<1>14. CASE /\ target'[t] = target[t] /\ target[t] = p
            /\ \/ pc[t] = "start_hook" /\ pc'[t] = "start_publish"
               \/ pc[t] = "start_publish" /\ pc'[t] \in Rests /\ state' = state
  <2>1. service[p] = "running"
    BY <1>14 DEF Matches
  <2>3. service'[p] = "running"
    BY <1>3, <1>4, <1>14, <2>1 DEF NextService, Rests
  <2>2. pc[t] = "start_publish" => state[p] = "running"
    BY <1>14 DEF Progress, ProgressOf
  <2> QED  BY <1>7, <1>14, <2>2, <2>3 DEF Engaged, Rests, StartHooks, StopHooks
<1>15. CASE /\ target'[t] = target[t] /\ target[t] = p
            /\ \/ pc[t] = "stop_hook" /\ pc'[t] = "stop_publish"
               \/ /\ pc[t] \in StopHooks /\ pc'[t] \in Rests \cup {"starting"}
                  /\ state'[p] # "running"
  <2>1. service[p] # "running" /\ (service'[p] = service[p] \/ service'[p] = "none")
    BY <1>3, <1>4, <1>15 DEF NextService, Rests, Matches, StopHooks
  <2> QED  BY <1>7, <1>15, <2>1 DEF Engaged, Rests, StartHooks, StopHooks
<1>16. CASE ~Engaged(t)
  <2>1. Engaged(t)' /\ target'[t] = p
    BY <1>16 DEF Engaged
  <2>2. \/ pc'[t] = "stop_hook" /\ pc[t] # "stop_hook"
        \/ target'[t] = target[t] /\ pc'[t] = "init_hook" /\ state[target[t]] # "running"
    BY <1>16, <2>1 DEF Course, Engaged, StartHooks, StopHooks
  <2> QED  BY <1>10, <1>11, <1>16, <2>1, <2>2
<1>17. CASE Engaged(t)
  <2>1. target'[t] = target[t] /\ target[t] = p
    BY <1>17 DEF Course, Engaged, StartHooks, StopHooks
  <2>2. CASE pc'[t] = "stop_hook" /\ pc[t] # "stop_hook"
    BY <1>10, <2>1, <2>2
  <2>3. CASE pc[t] \in {"init_hook", "init_publish"} /\ pc'[t] # "stop_hook"
    BY <1>12, <1>13, <1>17, <2>1, <2>3 DEF Course, Engaged, StartHooks, StopHooks
  <2>4. CASE pc[t] \in {"start_hook", "start_publish"} /\ pc'[t] # "stop_hook"
    BY <1>14, <1>17, <2>1, <2>4 DEF Course, Engaged, StartHooks, StopHooks
  <2>5. CASE pc[t] \in StopHooks
    BY <1>15, <1>17, <2>1, <2>5 DEF Course, Engaged, StartHooks, StopHooks
  <2> QED  BY <1>17, <2>2, <2>3, <2>4, <2>5 DEF Engaged, StartHooks, StopHooks
<1> QED  BY <1>16, <1>17

\* Every step of the bundled plugins keeps their service objects in step.
LEMMA BundledKept ==
    InductiveInvariant /\ Errands /\ BundledInvariant /\ [BundledNext]_<<vars, service>>
        => BundledInvariant'
<1> SUFFICES ASSUME InductiveInvariant, Errands, BundledInvariant, [BundledNext]_<<vars, service>>
             PROVE  BundledInvariant'
  OBVIOUS
<1>1. CASE UNCHANGED <<vars, service>>
  BY <1>1 DEF vars, BundledInvariant, Matches, Engaged
<1>2. CASE BundledNext
  <2>1. Next /\ BundledHooks /\ service' = [p \in Bundled |-> NextService(p)]
    BY <1>2 DEF BundledNext
  <2>2. service' \in [Bundled -> {"none", "idle", "running"}]
    BY <2>1 DEF NextService, BundledInvariant
  <2>3. ASSUME NEW t \in Tasks, Alone(t), Course(t), HandsOn(t),
               Engaged(t) \/ Engaged(t)' => \A u \in Tasks \ {t} : ~Engaged(u),
               NEW p \in Bundled
        PROVE  Matches(p)'
    <3>1. CASE (Engaged(t) /\ target[t] = p) \/ (Engaged(t)' /\ target'[t] = p)
      BY <2>1, <2>3, <3>1, TakenInHand DEF BundledInvariant, InductiveInvariant
    <3>2. CASE ~((Engaged(t) /\ target[t] = p) \/ (Engaged(t)' /\ target'[t] = p))
      <4>1. Matches(p)
        BY <2>3 DEF BundledInvariant
      <4> QED  BY <2>1, <2>3, <3>2, <4>1, NotInHand
    <3> QED  BY <3>1, <3>2
  <2>4. ASSUME NEW t \in Requests, RequestTakes(t), NEW p \in Bundled PROVE Matches(p)'
    <3>1. Alone(t) /\ Course(t) /\ HandsOn(t)
      BY <2>4, RequestGoes, TaskCourse DEF RequestTakes
    <3>2. Engaged(t) \/ Engaged(t)' => Operating(t)
      <4>1. pc[t] # "stop_all"
        BY <2>4 DEF InductiveInvariant, Locking, InFlight, Synchronous, StartHooks, StopHooks
      <4> QED  BY <3>1, <4>1 DEF Course, Engaged, Operating, Synchronous, StartHooks, StopHooks
    <3>3. Engaged(t) \/ Engaged(t)' => \A u \in Tasks \ {t} : ~Engaged(u)
      BY <3>2, Solo DEF Engaged, Operating
    <3> QED  BY <2>3, <3>1, <3>3
  <2>5. ASSUME LifespanTakes, NEW p \in Bundled PROVE Matches(p)'
    <3>1. Alone(Lifespan) /\ Course(Lifespan) /\ HandsOn(Lifespan)
      <4>1. CASE LifespanStep \/ BeginShutdown
        BY <2>5, <4>1, LifespanAlone, LifespanCourse
      <4>2. CASE ~(LifespanStep \/ BeginShutdown)
        BY <2>5, <4>2, LifespanAlone, TaskCourse DEF LifespanTakes
      <4> QED  BY <4>1, <4>2
    <3>2. Engaged(Lifespan) \/ Engaged(Lifespan)' => Operating(Lifespan) \/ pc[Lifespan] = "stop_all"
      BY <3>1 DEF Course, Engaged, Operating, Synchronous, StartHooks, StopHooks
    <3>3. Engaged(Lifespan) \/ Engaged(Lifespan)' => \A u \in Tasks \ {Lifespan} : ~Engaged(u)
      <4>1. CASE Operating(Lifespan)
        BY <4>1, Solo DEF Engaged, Operating
      <4>2. CASE pc[Lifespan] = "stop_all"
        BY <4>2, NamesAssumption
           DEF InductiveInvariant, TypeOK, Locking, Operating, Engaged, StartHooks, StopHooks
      <4> QED  BY <3>2, <4>1, <4>2
    <3> QED  BY <2>3, <3>1, <3>3
  <2>6. CASE UNCHANGED vars
    <3>1. \A p \in Bundled : ~Built(p) /\ ~Dropped(p) /\ \A x : ~Enters(p, x)
      BY <2>6 DEF vars, Built, Enters, Dropped
    <3>2. \A p \in Bundled : service'[p] = service[p]
      BY <2>1, <3>1 DEF NextService
    <3> QED  BY <2>2, <2>6, <3>2 DEF vars, BundledInvariant, Matches, Engaged
  <2> QED  BY <2>1, <2>2, <2>4, <2>5, <2>6, WhoSteps DEF BundledInvariant
<1> QED  BY <1>1, <1>2

\* The bundled plugins run in the manager: what is known of it holds of them.
LEMMA BundledRunInTheManager == BundledSpec => Spec
<1>1. BundledInit => Init
  BY DEF BundledInit
<1>2. [BundledNext]_<<vars, service>> => [Next]_vars
  BY DEF BundledNext
<1> QED  BY <1>1, <1>2, PTL DEF BundledSpec, Spec

\* In every reachable state the service objects are where the hooks left them.
LEMMA BundledInvariantHolds == BundledSpec => []BundledInvariant
<1>1. BundledInit => BundledInvariant
  BY BundledAssumption
     DEF BundledInit, Init, BundledInvariant, Matches, Engaged, StartHooks, StopHooks
<1> QED
  BY <1>1, BundledKept, BundledRunInTheManager, InvariantHolds, ErrandsHold, PTL DEF BundledSpec

\* In every reachable state what plugins hold is in order.
LEMMA HoldingsHold == Spec => []Holdings
  BY HoldingsBegin, HoldingsKept, InvariantHolds, PTL DEF Spec

\* While runbook serves, the greeting object it keeps is the one demo serves with:
\* whatever becomes of demo, the preview answers or says that it is unavailable.
THEOREM PreviewsAnswer == BundledSpec => []PreviewNeverFails
<1>1. InductiveInvariant /\ Holdings /\ BundledInvariant => PreviewNeverFails
  <2> SUFFICES ASSUME InductiveInvariant, Holdings, BundledInvariant, NEW p \in Bundled,
                      NEW title \in Titles, service[p] = "running"
               PROVE  Answering(p) = captured[p]
    BY DEF PreviewNeverFails, Preview, PreviewResult
  <2> SUFFICES ASSUME NEW s \in captured[p]
               PROVE  incarnation[s[1]] = s[2] /\ service[s[1]] = "running"
    BY DEF Answering, Message
  <2>1. p \in Plugins /\ p \in attached /\ incarnation[s[1]] = s[2]
    BY BundledAssumption DEF Holdings
  <2>2. s[1] \in Deps[p] /\ s[1] \in Bundled /\ s[1] \in Plugins
    BY BundledAssumption DEF BundledInvariant, Matches
  <2>3. state[s[1]] = "running"
    BY <2>1, <2>2 DEF InductiveInvariant, Standing
  <2>6. Matches(s[1])
    BY <2>2 DEF BundledInvariant
  <2>4. CASE \A t \in Tasks : Engaged(t) => target[t] # s[1]
    BY <2>1, <2>3, <2>4, <2>6 DEF Matches
  <2>5. ASSUME NEW t \in Tasks, Engaged(t), target[t] = s[1] PROVE service[s[1]] = "running"
    <3>1. ProgressOf(t)
      BY DEF InductiveInvariant, Progress
    <3>2. pc[t] = "start_publish"
      BY <2>1, <2>2, <2>3, <2>5, <3>1 DEF ProgressOf, Stopping, Engaged, StartHooks, StopHooks
    <3> QED  BY <2>2, <2>5, <3>2 DEF BundledInvariant, Matches
  <2> QED  BY <2>1, <2>4, <2>5
<1> QED
  BY <1>1, BundledRunInTheManager, BundledInvariantHolds, HoldingsHold, InvariantHolds, PTL

\* A bundled plugin's route answers exactly when the catalog says that it runs,
\* unless an operation has it in hand, and it is degraded only while it stops.
THEOREM AnswersFollow == BundledSpec => []AnswersFollowTheState
<1>1. BundledInvariant => RoutesFollowTheState
  BY DEF BundledInvariant, Matches, RoutesFollowTheState, Greeting, Message
<1>2. InductiveInvariant /\ BundledInvariant => DegradedOnlyWhileStopping
  <2> SUFFICES ASSUME InductiveInvariant, BundledInvariant, NEW p \in Bundled,
                      Views!Category(p, Report) = "degraded"
               PROVE  \E t \in Tasks : target[t] = p /\ pc[t] \in StopHooks
    BY DEF DegradedOnlyWhileStopping
  <2>1. p \in Plugins
    BY BundledAssumption
  <2>2. state[p] = "running" /\ Views!Health(p, Report) = "degraded"
    BY DEF Views!Category
  <2>3. service[p] # "running"
    BY <2>1, <2>2 DEF Views!Health, Report
  <2>4. PICK t \in Tasks : Engaged(t) /\ target[t] = p
    BY <2>2, <2>3 DEF BundledInvariant, Matches
  <2>5. ProgressOf(t)
    BY DEF InductiveInvariant, Progress
  <2> QED
    BY <2>2, <2>3, <2>4, <2>5
       DEF BundledInvariant, Matches, ProgressOf, Engaged, StartHooks, StopHooks
<1> QED
  BY <1>1, <1>2, BundledRunInTheManager, BundledInvariantHolds, InvariantHolds, PTL
     DEF AnswersFollowTheState
=============================================================================
