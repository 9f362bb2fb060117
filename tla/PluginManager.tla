---------------------------- MODULE PluginManager ----------------------------
(***************************************************************************)
(* The plugin manager of ReliaForge: the lifecycle every plugin runs       *)
(* through (plugins/contract.py), the manager operations that drive it     *)
(* under one operation lock (plugins/manager.py), the services and         *)
(* subscriptions a plugin holds through its context (plugins/context.py),  *)
(* and the application lifespan that starts and stops everything (app.py). *)
(*                                                                         *)
(* One process, one event loop.  A coroutine runs alone from one await     *)
(* that suspends to the next, so an action is the code between two         *)
(* suspension points: the wait for the lock, a plugin hook, and the        *)
(* delivery of a lifecycle event to subscribers.  There, and only there,   *)
(* the task may be resumed, meet its deadline or be cancelled.             *)
(***************************************************************************)
EXTENDS Naturals, Sequences, FiniteSets, SequencesExt

CONSTANTS
    Plugins,        \* the ids of the discovered plugins
    Deps,           \* [Plugins -> SUBSET Plugins], from the manifests
    Capabilities,   \* the names of the shared services
    Declared,       \* [Plugins -> SUBSET Capabilities], from the manifests
    Order,          \* the startup order the resolver returned
    Requests,       \* management requests, each one POST
    Lifespan,       \* the task that runs the application lifespan
    Nobody,         \* no task, no provider; as a target, an id nobody has
    StrayCancel     \* may a hook or handler raise CancelledError by itself?

ASSUME DepsAssumption == Deps \in [Plugins -> SUBSET Plugins]

\* validate() rejects a capability with two owners.
ASSUME DeclaredAssumption ==
    /\ Declared \in [Plugins -> SUBSET Capabilities]
    /\ \A p, q \in Plugins : p # q => Declared[p] \cap Declared[q] = {}

\* resolve() returns every id once, after the ids it depends on.
ASSUME OrderAssumption ==
    /\ Order \in Seq(Plugins)
    /\ \A p \in Plugins : \E i \in 1..Len(Order) : Order[i] = p
    /\ \A i, j \in 1..Len(Order) : Order[i] = Order[j] => i = j
    /\ \A i, j \in 1..Len(Order) : Order[j] \in Deps[Order[i]] => j < i

ASSUME NamesAssumption == /\ Lifespan \notin Requests
                          /\ Nobody \notin Plugins \cup Requests \cup {Lifespan}
                          /\ StrayCancel \in BOOLEAN

VARIABLES
    state,          \* BasePlugin.state, as get_view reports it
    attached,       \* the plugins whose context is not None
    services,       \* ServiceContainer: who registered each name
    subscribers,    \* the plugins with handlers of lifecycle events
    incarnation,    \* how often each plugin was built (identifies its objects)
    captured,       \* the services each plugin looked up: <<provider, incarnation>>
    loaded,         \* the plugins validate() could load
    lock,           \* the holder of _operation_lock
    queue,          \* the tasks that wait for it, first come first served
    pc,             \* where each task is suspended, or about to run
    op,             \* which operation a request runs
    target,         \* the plugin a task works on
    why,            \* on whose account plugin.stop() runs
    reply,          \* the answer of the task
    phase,          \* RuntimeState.phase
    cursor,         \* position of start_all or stop_all in Order
    doomed,         \* requests the server cancelled on its way down
    overdue         \* app_startup_timeout has fired

pluginVars == <<state, attached, services, subscribers, incarnation, captured, loaded>>
lockVars   == <<lock, queue>>
taskVars   == <<pc, op, target, why, reply>>
hostVars   == <<phase, cursor>>
serverVars == <<doomed, overdue>>
vars == <<pluginVars, lockVars, taskVars, hostVars, serverVars>>

Tasks == Requests \cup {Lifespan}

States == {"validated", "initialized", "running", "stopped", "error"}
Ops    == {"start", "stop", "restart"}
Whys   == {"none", "stop", "restart", "failed", "timed_out", "cancelled", "shutdown"}
Replies == {"none", "200", "404", "409", "503", "cancelled"}

\* In these the task runs on without suspending.
Synchronous == {"granted", "starting"}
StartHooks  == {"init_hook", "init_publish", "start_hook", "start_publish"}
StopHooks   == {"stop_hook", "stop_publish"}
InFlight    == {"waiting"} \cup Synchronous \cup StartHooks \cup StopHooks
Places == {"idle", "done", "start_all", "serving", "stop_all", "exited"} \cup InFlight
-----------------------------------------------------------------------------
(* What the manager reads.                                                 *)

\* Mutant: nobody looks for dependents.
NoDependents(p) == {}

\* Mutant: a dependent counts whether it runs or not.
DeclaredDependents(p) == {q \in loaded : p \in Deps[q]}

ActiveDependents(p) ==
    {q \in loaded : p \in Deps[q] /\ state[q] = "running"}

\* Mutant: nobody looks for dependencies.
NoMissingDependencies(p) == {}

MissingDependencies(p) ==
    {d \in Deps[p] : d \notin loaded \/ state[d] # "running"}

MissingCapabilities(p) ==
    {c \in Declared[p] : services[c] # p}

\* Mutant: the catalog looks at the plugin alone.
ActionsByState(p) ==
    IF p \notin loaded THEN {}
    ELSE IF state[p] = "running" THEN {"stop", "restart"} ELSE {"start"}

AvailableActions(p) ==
    IF p \notin loaded \/ ActiveDependents(p) # {} \/ MissingDependencies(p) # {}
    THEN {}
    ELSE IF state[p] = "running" THEN {"stop", "restart"} ELSE {"start"}

\* t can run: it is at this place, and the server has not cancelled it.
At(t, place) == pc[t] = place /\ t \notin doomed

\* Delivery of an event to nobody returns at once; a hook may always suspend.
RunsOnAtOnce(t) ==
    \/ pc[t] \in Synchronous
    \/ pc[t] \in {"init_publish", "start_publish", "stop_publish"} /\ subscribers = {}

Suspended(t) == ~RunsOnAtOnce(t)

\* acquire() takes a lock that is free and for which nobody waits at once.
Free == lock = Nobody /\ queue = <<>>
-----------------------------------------------------------------------------
(* What every operation does at its end.                                   *)

\* context.cleanup() and self.context = None
Cleanup(p) ==
    /\ attached' = attached \ {p}
    /\ services' = [c \in Capabilities |-> IF services[c] = p THEN Nobody ELSE services[c]]
    /\ subscribers' = subscribers \ {p}
    /\ captured' = [captured EXCEPT ![p] = {}]

\* The finally of every operation, and the answer _run_operation makes of it.
Answer(t, r) ==
    /\ t \in Requests
    /\ pc' = [pc EXCEPT ![t] = "done"]
    /\ reply' = [reply EXCEPT ![t] = r]
    /\ why' = [why EXCEPT ![t] = "none"]
    /\ lock' = Nobody
    /\ UNCHANGED <<queue, hostVars>>

\* start_all goes on to the next plugin, whatever became of this one.
NextToStart(t, r) ==
    /\ t = Lifespan /\ phase = "starting" /\ r # "cancelled"
    /\ pc' = [pc EXCEPT ![t] = "start_all"]
    /\ why' = [why EXCEPT ![t] = "none"]
    /\ cursor' = cursor + 1
    /\ UNCHANGED <<reply, lockVars, phase>>

\* start_all is abandoned: mark_stopping, and stop_all takes the free lock.
AbandonStartup(t, r) ==
    /\ t = Lifespan /\ phase = "starting" /\ r = "cancelled"
    /\ pc' = [pc EXCEPT ![t] = "stop_all"]
    /\ why' = [why EXCEPT ![t] = "none"]
    /\ phase' = "stopping"
    /\ cursor' = Len(Order)
    /\ lock' = t
    /\ UNCHANGED <<reply, queue>>

\* Mutant: the position moves on twice.
SkipOneToStop(t, r) ==
    /\ t = Lifespan /\ phase = "stopping" /\ r # "cancelled"
    /\ pc' = [pc EXCEPT ![t] = "stop_all"]
    /\ why' = [why EXCEPT ![t] = "none"]
    /\ cursor' = cursor - 2
    /\ UNCHANGED <<reply, lockVars, phase>>

\* Mutant: a plugin that fails to stop ends stop_all.
EndAtFirstFailure(t, r) ==
    /\ t = Lifespan /\ phase = "stopping" /\ r # "cancelled"
    /\ pc' = [pc EXCEPT ![t] = IF r = "200" THEN "stop_all" ELSE "exited"]
    /\ why' = [why EXCEPT ![t] = "none"]
    /\ cursor' = cursor - 1
    /\ UNCHANGED <<reply, lockVars, phase>>

\* stop_all goes on to the next plugin, whatever became of this one.
NextToStop(t, r) ==
    /\ t = Lifespan /\ phase = "stopping" /\ r # "cancelled"
    /\ pc' = [pc EXCEPT ![t] = "stop_all"]
    /\ why' = [why EXCEPT ![t] = "none"]
    /\ cursor' = cursor - 1
    /\ UNCHANGED <<reply, lockVars, phase>>

\* A CancelledError leaves the loop of stop_all; its finally frees the lock.
AbandonShutdown(t, r) ==
    /\ t = Lifespan /\ phase = "stopping" /\ r = "cancelled"
    /\ pc' = [pc EXCEPT ![t] = "exited"]
    /\ why' = [why EXCEPT ![t] = "none"]
    /\ reply' = [reply EXCEPT ![t] = r]
    /\ lock' = Nobody
    /\ UNCHANGED <<queue, hostVars>>

\* The step of task t ends its work on the target with the outcome r.
Conclude(t, r) ==
    \/ Answer(t, r)
    \/ NextToStart(t, r)
    \/ AbandonStartup(t, r)
    \/ NextToStop(t, r)
    \/ AbandonShutdown(t, r)

Goto(t, place) == pc' = [pc EXCEPT ![t] = place]

\* plugin.stop() begins on account of w and suspends in the plugin's hook.
BeginStop(t, w) == /\ Goto(t, "stop_hook")
                   /\ why' = [why EXCEPT ![t] = w]

\* plugin.stop() is over; ok when neither the hook nor a deadline failed it.
StateAfterStop(w, ok) ==
    IF ok /\ w \in {"stop", "restart", "shutdown"} THEN "stopped" ELSE "error"

\* Mutant: the result of plugin.stop() is ignored.
ReplyIgnoringResult(w, ok) ==
    CASE w = "timed_out" -> "503"
      [] w = "cancelled" -> "cancelled"
      [] w = "failed"    -> "409"
      [] OTHER           -> "200"

ReplyAfterStop(w, ok) ==
    CASE w = "timed_out" -> "503"
      [] w = "cancelled" -> "cancelled"
      [] w = "failed"    -> "409"
      [] OTHER           -> IF ok THEN "200" ELSE "409"

\* Mutant: a stop hook that raises skips the clean-up.
FinishStopLeaking(t, ok) ==
    /\ state' = [state EXCEPT ![target[t]] = StateAfterStop(why[t], ok)]
    /\ IF ok THEN Cleanup(target[t])
             ELSE UNCHANGED <<attached, services, subscribers, captured>>
    /\ IF why[t] = "restart" /\ ok
       THEN /\ Goto(t, "starting")
            /\ why' = [why EXCEPT ![t] = "none"]
            /\ UNCHANGED <<reply, lockVars, hostVars>>
       ELSE Conclude(t, ReplyAfterStop(why[t], ok))
    /\ UNCHANGED <<incarnation, loaded, op, target>>

FinishStop(t, ok) ==
    /\ state' = [state EXCEPT ![target[t]] = StateAfterStop(why[t], ok)]
    /\ Cleanup(target[t])
    /\ IF why[t] = "restart" /\ ok
       THEN /\ Goto(t, "starting")
            /\ why' = [why EXCEPT ![t] = "none"]
            /\ UNCHANGED <<reply, lockVars, hostVars>>
       ELSE Conclude(t, ReplyAfterStop(why[t], ok))
    /\ UNCHANGED <<incarnation, loaded, op, target>>
-----------------------------------------------------------------------------
(* A management request, up to the operation lock.                         *)

\* The router accepts requests once the lifespan has yielded.
Submit(t, o, p) ==
    /\ pc[t] = "idle"
    /\ pc[Lifespan] = "serving"
    /\ op' = [op EXCEPT ![t] = o]
    /\ target' = [target EXCEPT ![t] = p]
    /\ IF Free
       THEN Goto(t, "granted") /\ lock' = t /\ UNCHANGED queue
       ELSE Goto(t, "waiting") /\ queue' = Append(queue, t) /\ UNCHANGED lock
    /\ UNCHANGED <<pluginVars, why, reply, hostVars, serverVars>>

\* Mutant: the operation does not wait for the lock.
AcquireRegardless(t) ==
    /\ At(t, "waiting")
    /\ queue # <<>> /\ Head(queue) = t
    /\ lock' = t
    /\ queue' = Tail(queue)
    /\ Goto(t, IF t = Lifespan THEN "stop_all" ELSE "granted")
    /\ UNCHANGED <<pluginVars, op, target, why, reply, hostVars, serverVars>>

\* _acquire_operation_lock returns to the first task that waits.
Acquire(t) ==
    /\ At(t, "waiting")
    /\ lock = Nobody
    /\ queue # <<>> /\ Head(queue) = t
    /\ lock' = t
    /\ queue' = Tail(queue)
    /\ Goto(t, IF t = Lifespan THEN "stop_all" ELSE "granted")
    /\ UNCHANGED <<pluginVars, op, target, why, reply, hostVars, serverVars>>

\* Where a CancelledError comes from: the caller of the request, the startup
\* timeout of the application (once), or the plugin's own code.
Cancellation(t) ==
    \/ /\ t \in Requests
       /\ doomed' = doomed \ {t}
       /\ UNCHANGED overdue
    \/ /\ t = Lifespan /\ phase = "starting" /\ ~overdue
       /\ overdue' = TRUE
       /\ UNCHANGED doomed
    \/ /\ t = Lifespan /\ StrayCancel
       /\ UNCHANGED serverVars

\* t leaves the queue with the answer r, before the operation began, even if it
\* was woken and has not run yet: the next one is woken instead.
LeaveQueue(t, r) ==
    /\ pc[t] = "waiting"
    /\ \E i \in DOMAIN queue : queue[i] = t /\ queue' = RemoveAt(queue, i)
    /\ Goto(t, IF t = Lifespan THEN "exited" ELSE "done")
    /\ reply' = [reply EXCEPT ![t] = r]
    /\ UNCHANGED <<pluginVars, lock, op, target, why, hostVars>>

\* The deadline passes first; stop_all then returns without stopping anything.
TimeoutWaiting(t) ==
    /\ t \notin doomed
    /\ LeaveQueue(t, "503")
    /\ UNCHANGED serverVars

CancelWaiting(t) ==
    /\ t \in Requests
    /\ LeaveQueue(t, "cancelled")
    /\ Cancellation(t)
-----------------------------------------------------------------------------
(* start_plugin, stop_plugin and restart_plugin, once they hold the lock.  *)

\* _get_runtime_plugin raises.
Unavailable(t) ==
    /\ pc[t] = "granted"
    /\ target[t] \notin loaded
    /\ Answer(t, IF target[t] = Nobody THEN "404" ELSE "409")
    /\ UNCHANGED <<pluginVars, op, target, serverVars>>

RefuseDependents(t) ==
    /\ pc[t] = "granted"
    /\ op[t] \in {"stop", "restart"}
    /\ target[t] \in loaded
    /\ ActiveDependents(target[t]) # {}
    /\ Answer(t, "409")
    /\ UNCHANGED <<pluginVars, op, target, serverVars>>

\* Mutant: running dependents do not matter.
NeedsStopRegardless(t) ==
    /\ pc[t] = "granted"
    /\ target[t] \in loaded
    /\ \/ op[t] = "stop"
       \/ op[t] = "restart" /\ state[target[t]] \notin {"stopped", "validated"}

\* The operation needs plugin.stop() first.
NeedsStop(t) ==
    /\ pc[t] = "granted"
    /\ target[t] \in loaded
    /\ ActiveDependents(target[t]) = {}
    /\ \/ op[t] = "stop"
       \/ op[t] = "restart" /\ state[target[t]] \notin {"stopped", "validated"}

\* plugin.stop() finds a context and suspends in the plugin's hook.
StopBegins(t) ==
    /\ NeedsStop(t)
    /\ target[t] \in attached
    /\ BeginStop(t, op[t])
    /\ UNCHANGED <<pluginVars, lockVars, op, target, reply, hostVars, serverVars>>

\* plugin.stop() finds nothing to release and returns True at once.
StopsAtOnce(t) ==
    /\ NeedsStop(t)
    /\ target[t] \notin attached
    /\ state' = [state EXCEPT ![target[t]] = "stopped"]
    /\ IF op[t] = "restart"
       THEN Goto(t, "starting") /\ UNCHANGED <<why, reply, lockVars, hostVars>>
       ELSE Answer(t, "200")
    /\ UNCHANGED <<attached, services, subscribers, incarnation, captured, loaded, op, target, serverVars>>

\* start, and restart of a plugin that is already stopped.
StartsDirectly(t) ==
    /\ pc[t] = "granted"
    /\ target[t] \in loaded
    /\ \/ op[t] = "start"
       \/ /\ op[t] = "restart"
          /\ ActiveDependents(target[t]) = {}
          /\ state[target[t]] \in {"stopped", "validated"}
    /\ Goto(t, "starting")
    /\ UNCHANGED <<pluginVars, lockVars, op, target, why, reply, hostVars, serverVars>>
-----------------------------------------------------------------------------
(* _start_plugin, for a request and for start_all.                         *)

AlreadyRunning(t) ==
    /\ pc[t] = "starting"
    /\ state[target[t]] = "running"
    /\ Answer(t, "200")
    /\ UNCHANGED <<pluginVars, op, target, serverVars>>

\* A dependency is not running; start_all also marks the plugin as failed.
DependencyMissing(t) ==
    /\ pc[t] = "starting"
    /\ state[target[t]] # "running"
    /\ MissingDependencies(target[t]) # {}
    /\ IF t = Lifespan THEN state' = [state EXCEPT ![target[t]] = "error"]
                       ELSE UNCHANGED state
    /\ Conclude(t, "409")
    /\ UNCHANGED <<attached, services, subscribers, incarnation, captured, loaded, op, target, serverVars>>

SettingsInvalid(t) ==
    /\ pc[t] = "starting"
    /\ state[target[t]] # "running"
    /\ MissingDependencies(target[t]) = {}
    /\ state' = [state EXCEPT ![target[t]] = "error"]
    /\ Conclude(t, "409")
    /\ UNCHANGED <<attached, services, subscribers, incarnation, captured, loaded, op, target, serverVars>>

\* initialize() takes a fresh context and calls the plugin's hook.
Attach(t) ==
    /\ pc[t] = "starting"
    /\ state[target[t]] # "running"
    /\ MissingDependencies(target[t]) = {}
    /\ attached' = attached \cup {target[t]}
    /\ incarnation' = [incarnation EXCEPT ![target[t]] = @ + 1]
    /\ Goto(t, "init_hook")
    /\ UNCHANGED <<state, services, subscribers, captured, loaded,
                   lockVars, op, target, why, reply, hostVars, serverVars>>

\* The hook registers a declared service that is not registered yet.
RegisterService(t, c) ==
    /\ At(t, "init_hook")
    /\ c \in Declared[target[t]]
    /\ services[c] = Nobody
    /\ services' = [services EXCEPT ![c] = target[t]]
    /\ UNCHANGED <<state, attached, subscribers, incarnation, captured, loaded,
                   lockVars, taskVars, hostVars, serverVars>>

\* The hook subscribes to lifecycle events.
Subscribe(t) ==
    /\ At(t, "init_hook")
    /\ target[t] \notin subscribers
    /\ subscribers' = subscribers \cup {target[t]}
    /\ UNCHANGED <<state, attached, services, incarnation, captured, loaded,
                   lockVars, taskVars, hostVars, serverVars>>

\* The hook looks up a service of a declared provider and keeps the object.
GetService(t, c) ==
    /\ At(t, "init_hook")
    /\ services[c] \in Deps[target[t]] \cup {target[t]}
    /\ captured' = [captured EXCEPT ![target[t]] =
                        @ \cup {<<services[c], incarnation[services[c]]>>}]
    /\ captured' # captured
    /\ UNCHANGED <<state, attached, services, subscribers, incarnation, loaded,
                   lockVars, taskVars, hostVars, serverVars>>

InitReturns(t) ==
    /\ At(t, "init_hook")
    /\ state' = [state EXCEPT ![target[t]] = "initialized"]
    /\ Goto(t, "init_publish")
    /\ UNCHANGED <<attached, services, subscribers, incarnation, captured, loaded,
                   lockVars, op, target, why, reply, hostVars, serverVars>>

InitPublished(t) ==
    /\ At(t, "init_publish")
    /\ MissingCapabilities(target[t]) = {}
    /\ Goto(t, "start_hook")
    /\ UNCHANGED <<pluginVars, lockVars, op, target, why, reply, hostVars, serverVars>>

\* A declared service was not registered: stop, then capability_contract.
CapabilityMissing(t) ==
    /\ At(t, "init_publish")
    /\ MissingCapabilities(target[t]) # {}
    /\ BeginStop(t, "failed")
    /\ UNCHANGED <<pluginVars, lockVars, op, target, reply, hostVars, serverVars>>

\* The hook raised, or the first health snapshot is an error.
HookFails(t) ==
    /\ At(t, "init_hook") \/ At(t, "start_hook")
    /\ state' = [state EXCEPT ![target[t]] = "error"]
    /\ BeginStop(t, "failed")
    /\ UNCHANGED <<attached, services, subscribers, incarnation, captured, loaded,
                   lockVars, op, target, reply, hostVars, serverVars>>

StartReturns(t) ==
    /\ At(t, "start_hook")
    /\ state' = [state EXCEPT ![target[t]] = "running"]
    /\ Goto(t, "start_publish")
    /\ UNCHANGED <<attached, services, subscribers, incarnation, captured, loaded,
                   lockVars, op, target, why, reply, hostVars, serverVars>>

StartPublished(t) ==
    /\ At(t, "start_publish")
    /\ Conclude(t, "200")
    /\ UNCHANGED <<pluginVars, op, target, serverVars>>

\* Mutant: an interrupted start is not cleaned up.
InterruptStartOnly(t, w) ==
    /\ pc[t] \in StartHooks
    /\ Suspended(t)
    /\ state' = [state EXCEPT ![target[t]] = "error"]
    /\ Conclude(t, IF w = "cancelled" THEN "cancelled" ELSE "503")
    /\ UNCHANGED <<attached, services, subscribers, incarnation, captured, loaded,
                   op, target>>

\* A deadline or a cancellation ends initialize() or start(): the plugin is in
\* error, keeps its context, and _cleanup_interrupted_start calls its hook.
InterruptStart(t, w) ==
    /\ pc[t] \in StartHooks
    /\ Suspended(t)
    /\ state' = [state EXCEPT ![target[t]] = "error"]
    /\ BeginStop(t, w)
    /\ UNCHANGED <<attached, services, subscribers, incarnation, captured, loaded,
                   lockVars, op, target, reply, hostVars>>
-----------------------------------------------------------------------------
(* BasePlugin.stop, behind its hook.                                       *)

StopReturns(t) ==
    /\ At(t, "stop_hook")
    /\ Goto(t, "stop_publish")
    /\ UNCHANGED <<pluginVars, lockVars, op, target, why, reply, hostVars, serverVars>>

StopFails(t) ==
    /\ At(t, "stop_hook")
    /\ FinishStop(t, FALSE)
    /\ UNCHANGED serverVars

StopPublished(t) ==
    /\ At(t, "stop_publish")
    /\ FinishStop(t, TRUE)
    /\ UNCHANGED serverVars

\* A deadline or a cancellation ends stop(); its finally releases everything.
InterruptStop(t) ==
    /\ pc[t] \in StopHooks
    /\ Suspended(t)
    /\ state' = [state EXCEPT ![target[t]] = "error"]
    /\ Cleanup(target[t])
    /\ UNCHANGED <<incarnation, loaded, op, target>>

TimeoutStart(t) ==
    /\ t \notin doomed
    /\ InterruptStart(t, "timed_out")
    /\ UNCHANGED serverVars

\* Mutant: the clean-up of an interrupted start has no deadline.
TimeoutStopButCleanup(t) ==
    /\ t \notin doomed
    /\ why[t] \notin {"timed_out", "cancelled"}
    /\ InterruptStop(t)
    /\ Conclude(t, "503")
    /\ UNCHANGED serverVars

\* The clean-up of a cancelled start goes on to raise the cancellation.
TimeoutStop(t) ==
    /\ t \notin doomed
    /\ InterruptStop(t)
    /\ Conclude(t, IF why[t] = "cancelled" THEN "cancelled" ELSE "503")
    /\ UNCHANGED serverVars

CancelStart(t) ==
    /\ InterruptStart(t, "cancelled")
    /\ Cancellation(t)

\* Mutant: stop() swallows the cancellation, and a restart goes on.
CancelStopSwallowed(t) ==
    /\ pc[t] \in StopHooks
    /\ Suspended(t)
    /\ FinishStop(t, TRUE)
    /\ Cancellation(t)

CancelStop(t) ==
    /\ InterruptStop(t)
    /\ Conclude(t, "cancelled")
    /\ Cancellation(t)
-----------------------------------------------------------------------------
(* The lifespan of the application.                                        *)

\* start_all takes the next plugin; one that did not load is skipped.
StartNext ==
    /\ pc[Lifespan] = "start_all"
    /\ cursor \in 1..Len(Order)
    /\ IF Order[cursor] \in loaded
       THEN /\ Goto(Lifespan, "starting")
            /\ target' = [target EXCEPT ![Lifespan] = Order[cursor]]
            /\ UNCHANGED cursor
       ELSE /\ cursor' = cursor + 1
            /\ UNCHANGED <<pc, target>>
    /\ UNCHANGED <<pluginVars, lockVars, op, why, reply, phase, serverVars>>

MarkReady ==
    /\ pc[Lifespan] = "start_all"
    /\ cursor = Len(Order) + 1
    /\ Goto(Lifespan, "serving")
    /\ phase' = "ready"
    /\ UNCHANGED <<pluginVars, lockVars, op, target, why, reply, cursor, serverVars>>

\* The server goes down: no new requests, and those it does not wait for are
\* cancelled.  mark_stopping; stop_all takes the lock, or waits for it, if
\* anything is loaded.
BeginShutdown ==
    /\ pc[Lifespan] = "serving"
    /\ \A t \in Requests : ~RunsOnAtOnce(t)
    /\ doomed' = {t \in Requests : pc[t] \in InFlight}
    /\ phase' = "stopping"
    /\ cursor' = Len(Order)
    /\ \/ /\ loaded = {}
          /\ Goto(Lifespan, "exited")
          /\ UNCHANGED lockVars
       \/ /\ loaded # {} /\ Free
          /\ Goto(Lifespan, "stop_all")
          /\ lock' = Lifespan
          /\ UNCHANGED queue
       \/ /\ loaded # {} /\ ~Free
          /\ Goto(Lifespan, "waiting")
          /\ queue' = Append(queue, Lifespan)
          /\ UNCHANGED lock
    /\ UNCHANGED <<pluginVars, op, target, why, reply, overdue>>

\* The next plugin in reverse order that loaded and has something to release.
StopNext ==
    /\ pc[Lifespan] = "stop_all"
    /\ cursor \in 1..Len(Order)
    /\ Order[cursor] \in attached
    /\ target' = [target EXCEPT ![Lifespan] = Order[cursor]]
    /\ BeginStop(Lifespan, "shutdown")
    /\ UNCHANGED <<pluginVars, lockVars, op, reply, hostVars, serverVars>>

\* plugin.stop() finds nothing to release, or the plugin did not load.
StopsNothing ==
    /\ pc[Lifespan] = "stop_all"
    /\ cursor \in 1..Len(Order)
    /\ Order[cursor] \notin attached
    /\ state' = IF Order[cursor] \in loaded
                THEN [state EXCEPT ![Order[cursor]] = "stopped"]
                ELSE state
    /\ cursor' = cursor - 1
    /\ UNCHANGED <<attached, services, subscribers, incarnation, captured, loaded,
                   lockVars, taskVars, phase, serverVars>>

AllStopped ==
    /\ pc[Lifespan] = "stop_all"
    /\ cursor = 0
    /\ Goto(Lifespan, "exited")
    /\ reply' = [reply EXCEPT ![Lifespan] = "200"]
    /\ lock' = Nobody
    /\ UNCHANGED <<pluginVars, queue, op, target, why, hostVars, serverVars>>

\* The process has ended.
Terminated ==
    /\ pc[Lifespan] = "exited"
    /\ \A t \in Requests : pc[t] \in {"idle", "done"}
    /\ UNCHANGED vars
-----------------------------------------------------------------------------
Init ==
    /\ loaded \in {L \in SUBSET Plugins : \A p \in L : Deps[p] \subseteq L}
    /\ state = [p \in Plugins |-> IF p \in loaded THEN "validated" ELSE "error"]
    /\ attached = {}
    /\ services = [c \in Capabilities |-> Nobody]
    /\ subscribers = {}
    /\ incarnation = [p \in Plugins |-> 0]
    /\ captured = [p \in Plugins |-> {}]
    /\ lock = Nobody
    /\ queue = <<>>
    /\ pc = [t \in Tasks |-> IF t = Lifespan THEN "start_all" ELSE "idle"]
    /\ op = [t \in Requests |-> "start"]
    /\ target = [t \in Tasks |-> Nobody]
    /\ why = [t \in Tasks |-> "none"]
    /\ reply = [t \in Tasks |-> "none"]
    /\ phase = "starting"
    /\ cursor = 1
    /\ doomed = {}
    /\ overdue = FALSE

\* A step the manager takes without suspending.
RunsOn(t) ==
    \/ Unavailable(t) \/ RefuseDependents(t)
    \/ StopBegins(t) \/ StopsAtOnce(t) \/ StartsDirectly(t)
    \/ AlreadyRunning(t) \/ DependencyMissing(t) \/ SettingsInvalid(t) \/ Attach(t)

\* A step of the plugin's own code: its hooks, and the handlers of its events.
PluginRuns(t) ==
    \/ \E c \in Capabilities : RegisterService(t, c) \/ GetService(t, c)
    \/ Subscribe(t)
    \/ InitReturns(t) \/ InitPublished(t) \/ CapabilityMissing(t)
    \/ StartReturns(t) \/ StartPublished(t)
    \/ HookFails(t)
    \/ StopReturns(t) \/ StopFails(t) \/ StopPublished(t)

TimesOut(t) == TimeoutWaiting(t) \/ TimeoutStart(t) \/ TimeoutStop(t)
IsCancelled(t) == CancelWaiting(t) \/ CancelStart(t) \/ CancelStop(t)

LifespanStep == StartNext \/ MarkReady \/ StopNext \/ StopsNothing \/ AllStopped

Next ==
    \/ \E t \in Requests, o \in Ops, p \in Plugins \cup {Nobody} : Submit(t, o, p)
    \/ \E t \in Tasks : \/ Acquire(t) \/ RunsOn(t) \/ PluginRuns(t)
                        \/ TimesOut(t) \/ IsCancelled(t)
    \/ LifespanStep
    \/ BeginShutdown
    \/ Terminated

Spec == Init /\ [][Next]_vars

\* Delivery of an event nobody subscribed to does not suspend.
Delivered(t) ==
    /\ subscribers = {}
    /\ InitPublished(t) \/ CapabilityMissing(t) \/ StartPublished(t) \/ StopPublished(t)

\* The server's cancellation reaches the task.
DoomTakesEffect(t) == t \in doomed /\ IsCancelled(t)

\* The event loop runs every task that is ready, wakes the first waiter of a
\* free lock, and fires every deadline.  Nothing is assumed of the plugins'
\* own code but that it does not swallow the cancellation a deadline sends it.
Fairness ==
    /\ WF_vars(LifespanStep)
    /\ \A t \in Tasks : /\ WF_vars(Acquire(t))
                        /\ WF_vars(RunsOn(t))
                        /\ WF_vars(Delivered(t))
                        /\ WF_vars(TimesOut(t))
                        /\ WF_vars(DoomTakesEffect(t))

FairSpec == Spec /\ Fairness
-----------------------------------------------------------------------------
(* Invariants.                                                             *)

\* Every variable stays in its range.
TypeOK ==
    /\ state \in [Plugins -> States]
    /\ attached \subseteq Plugins
    /\ services \in [Capabilities -> Plugins \cup {Nobody}]
    /\ subscribers \subseteq Plugins
    /\ incarnation \in [Plugins -> Nat]
    /\ captured \in [Plugins -> SUBSET (Plugins \X Nat)]
    /\ loaded \subseteq Plugins
    /\ lock \in Tasks \cup {Nobody}
    /\ queue \in Seq(Tasks)
    /\ pc \in [Tasks -> Places]
    /\ op \in [Requests -> Ops]
    /\ target \in [Tasks -> Plugins \cup {Nobody}]
    /\ why \in [Tasks -> Whys]
    /\ reply \in [Tasks -> Replies]
    /\ phase \in {"starting", "ready", "stopping"}
    /\ cursor \in 0..(Len(Order) + 1)
    /\ doomed \subseteq Requests
    /\ overdue \in BOOLEAN

\* The task is between taking a plugin in hand and being done with it.
Operating(t) == pc[t] \in Synchronous \cup StartHooks \cup StopHooks

\* Two operations never overlap: startup takes no lock, so this needs the lock
\* between requests and shutdown, and the lifespan's phases against startup.
OneOperationAtATime ==
    \A t, u \in Tasks : Operating(t) /\ Operating(u) => t = u

\* A running plugin stands on running plugins: no interleaving of starts, stops,
\* failures, deadlines and cancellations takes a provider from under a consumer.
RunningClosedUnderDependencies ==
    \A p \in Plugins : state[p] = "running" =>
        \A d \in Deps[p] : state[d] = "running"

\* Between operations a plugin holds a context exactly when it runs, and no
\* plugin is left in a transient state: every failed, timed out or cancelled
\* path went through its clean-up.
SettledBetweenOperations ==
    (\A t \in Tasks : ~Operating(t)) =>
        \A p \in Plugins : /\ p \in attached <=> state[p] = "running"
                           /\ state[p] # "initialized"

\* Services and subscriptions belong to plugins that hold a context.
ResourcesBelongToAttached ==
    /\ subscribers \subseteq attached
    /\ \A c \in Capabilities : services[c] # Nobody =>
           services[c] \in attached /\ c \in Declared[services[c]]

\* A running plugin offers every service its manifest declares, also while it
\* is being stopped: consumers never find it half withdrawn.
RunningOffersItsCapabilities ==
    \A p \in Plugins : state[p] = "running" =>
        \A c \in Declared[p] : services[c] = p

\* The objects a running plugin looked up are those their providers serve with
\* now: a provider is never rebuilt under a running consumer.
CapturedServicesAreCurrent ==
    \A p \in Plugins : state[p] = "running" =>
        \A s \in captured[p] : state[s[1]] = "running" /\ incarnation[s[1]] = s[2]

\* What the three say of resources together.
ServicesAreSound ==
    /\ ResourcesBelongToAttached
    /\ RunningOffersItsCapabilities
    /\ CapturedServicesAreCurrent

\* Between operations the catalog always offers an action on some loaded plugin.
OperatorNeverStuck ==
    phase = "ready" /\ loaded # {} /\ (\A t \in Tasks : ~Operating(t)) =>
        \E p \in loaded : AvailableActions(p) # {}

\* Once the process has ended, unless shutdown never got the lock, every plugin
\* has given up its context, services and subscriptions.
ShutdownReleasesEverything ==
    pc[Lifespan] = "exited" /\ reply[Lifespan] # "503" =>
        /\ attached = {} /\ subscribers = {}
        /\ \A p \in loaded : state[p] \in {"stopped", "error"}
-----------------------------------------------------------------------------
(* The inductive invariant: what holds at every suspension point.          *)

\* The task has a plugin in hand.
Engaged(t) == pc[t] \in StartHooks \cup StopHooks

\* Startup runs alone; every request that operates, and shutdown, hold the lock.
Locking ==
    /\ phase = "starting" =>
          /\ lock = Nobody
          /\ \A t \in Requests : pc[t] = "idle"
          /\ pc[Lifespan] \in {"start_all", "starting"} \cup StartHooks \cup StopHooks
    /\ phase = "ready" => pc[Lifespan] = "serving"
    /\ phase = "stopping" =>
          /\ pc[Lifespan] \in {"waiting", "stop_all", "exited"} \cup StopHooks
          /\ pc[Lifespan] \in {"stop_all"} \cup StopHooks => lock = Lifespan
    /\ \A t \in Requests :
          /\ pc[t] \in {"idle", "done"} \cup InFlight
          /\ Operating(t) => lock = t

\* On whose account a plugin stops, and in which state it then is.
Stopping(t) ==
    \/ /\ why[t] \in {"failed", "timed_out", "cancelled"}
       /\ state[target[t]] \in {"initialized", "error"}
       /\ t = Lifespan => phase = "starting"
    \/ /\ why[t] \in {"stop", "restart", "shutdown"}
       /\ state[target[t]] = "running"
       /\ \A q \in attached : target[t] \notin Deps[q]
       /\ t = Lifespan => phase = "stopping" /\ why[t] = "shutdown"

\* Where a task is suspended says how far the plugin in its hand has come.
ProgressOf(t) ==
    /\ pc[t] = "starting" \/ Engaged(t) => target[t] \in loaded
    /\ Engaged(t) => target[t] \in attached
    /\ pc[t] = "init_hook" => state[target[t]] \in {"validated", "stopped", "error"}
    /\ pc[t] \in {"init_publish", "start_hook"} => state[target[t]] = "initialized"
    /\ pc[t] = "start_publish" => /\ state[target[t]] = "running"
                                   /\ \A q \in attached : target[t] \notin Deps[q]
    /\ pc[t] \in StopHooks => Stopping(t)

Progress == \A t \in Tasks : ProgressOf(t)

\* A plugin in nobody's hand holds a context exactly when it runs.
Settled ==
    \A p \in Plugins : (\A t \in Tasks : Engaged(t) => target[t] # p) =>
        /\ p \in attached <=> state[p] = "running"
        /\ state[p] # "initialized"

\* What holds a context was loaded and stands on running plugins.
Standing ==
    /\ attached \subseteq loaded
    /\ \A p \in Plugins : state[p] = "running" => p \in attached
    /\ \A p \in attached : \A d \in Deps[p] : state[d] = "running"

\* Where start_all and stop_all are; stop_all leaves nothing behind it.
Sweeping ==
    /\ phase = "starting" /\ Operating(Lifespan) => cursor \in 1..Len(Order)
    /\ phase = "stopping" /\ pc[Lifespan] = "waiting" => cursor = Len(Order)
    /\ phase = "stopping" /\ pc[Lifespan] \in StopHooks =>
          cursor \in 1..Len(Order) /\ target[Lifespan] = Order[cursor]
    /\ phase = "stopping" /\ pc[Lifespan] \in {"stop_all"} \cup StopHooks =>
          \A i \in 1..Len(Order) : i > cursor => Order[i] \notin attached

\* Together these are inductive; the safety properties follow from them.
InductiveInvariant ==
    /\ TypeOK
    /\ Locking
    /\ Progress
    /\ Settled
    /\ Standing
    /\ Sweeping
-----------------------------------------------------------------------------
(* Properties of steps.                                                    *)

\* A 200 of a start or restart means that the plugin runs, with its context; that
\* of a stop, that it is stopped and holds nothing.
AnswersTruly(t) ==
    reply[t] = "none" /\ reply'[t] = "200" =>
        IF op[t] = "stop"
        THEN state'[target[t]] = "stopped" /\ target[t] \notin attached'
        ELSE state'[target[t]] = "running" /\ target[t] \in attached'

\* A 200 is true when it is given.
RepliesAreTrue == [][\A t \in Requests : AnswersTruly(t)]_vars

StartsNothing ==
    /\ attached' \subseteq attached
    /\ \A p \in Plugins : state'[p] = "running" => state[p] = "running"

\* Once the runtime is stopping no plugin is built or begins to run.
NothingStartsOnceStopping == [][phase = "stopping" => StartsNothing]_vars

StopsRunning(p) == state[p] = "running" /\ state'[p] # "running"

\* A plugin stops running only for a task that works on it, and never while a
\* plugin that depends on it runs; in particular shutdown, which does not look
\* for dependents, meets them in the right order.
NoProviderStopsUnderConsumers ==
    [][\A p \in Plugins : StopsRunning(p) =>
          /\ ActiveDependents(p) = {}
          /\ \E t \in Tasks : target[t] = p /\ Operating(t)]_vars

-----------------------------------------------------------------------------
(* The manager implements the abstract plugin host.                        *)

Host == INSTANCE PluginHost WITH
            up   <- {p \in Plugins : state[p] = "running"},
            held <- attached

ImplementsPluginHost == Host!Spec
-----------------------------------------------------------------------------
(* Liveness, under FairSpec.                                               *)

\* Every request is answered, whatever the plugins do.
EveryRequestAnswered ==
    \A t \in Requests : pc[t] # "idle" ~> pc[t] = "done"

\* Startup comes to an end: the process serves, or gives up.
StartupSettles == <>(phase # "starting")

\* A process that is stopping exits.
ShutdownCompletes == phase = "stopping" ~> pc[Lifespan] = "exited"

\* Neither end of the process's life can hang, though each runs hooks that do.
LifespanMovesOn == StartupSettles /\ ShutdownCompletes
=============================================================================
