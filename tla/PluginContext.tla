---------------------------- MODULE PluginContext ----------------------------
(***************************************************************************)
(* What plugins do through their contexts (plugins/context.py) at any      *)
(* time, from hooks, routes, event handlers and tasks: services they       *)
(* register and look up (services.py), events they subscribe to and        *)
(* publish (events.py).  The manager is the one of PluginHost, which       *)
(* PluginManager implements: it gives a plugin a fresh context when it     *)
(* attaches it and cleans that context up when it releases it.             *)
(*                                                                         *)
(* A context is <<plugin, generation>>.  The registries know a plugin only *)
(* by its id, so that they cannot tell its contexts apart.                 *)
(***************************************************************************)
EXTENDS PluginHost, Naturals

CONSTANTS
    Names,          \* of services
    Declared,       \* [Plugins -> SUBSET Names], the capabilities of the manifests
    Generations,    \* bound: how often a plugin is built
    None,
    Keepers         \* the plugins whose code uses a context after its clean-up

ASSUME ContextAssumption ==
    /\ Declared \in [Plugins -> SUBSET Names]
    /\ \A p, q \in Plugins : p # q => Declared[p] \cap Declared[q] = {}
    /\ Generations \in Nat
    /\ Keepers \subseteq Plugins

VARIABLES
    generation,     \* [Plugins -> 0..Generations], the newest context
    records,        \* ServiceContainer: the context that registered each name
    handlers,       \* EventBus: the contexts that subscribed
    delivering,     \* the contexts with a handler at work
    captured        \* the services each plugin keeps, by the context that registered

contextVars == <<generation, records, handlers, delivering, captured>>

Contexts == Plugins \X (1..Generations)

Current(x) == x[1] \in held /\ x[2] = generation[x[1]]
Stale(x)   == x[2] <= generation[x[1]] /\ ~Current(x)

\* Code that holds x may run and use it: as long as it is the plugin's context,
\* and later only if a handler or task kept it.
Uses(x) == Current(x) \/ (x[1] \in Keepers /\ Stale(x))

\* The names registered under the plugin's id.
Registered(p) == {n \in Names : records[n] # None /\ records[n][1] = p}
-----------------------------------------------------------------------------
\* register_service: declared, and not registered by anybody.
RegisterService(x, n) ==
    /\ Uses(x)
    /\ n \in Declared[x[1]]
    /\ records[n] = None
    /\ records' = [records EXCEPT ![n] = x]
    /\ UNCHANGED <<up, held, generation, handlers, delivering, captured>>

\* Mutant: any service may be looked up.
GetAnyService(x, n) ==
    /\ Current(x)
    /\ records[n] # None
    /\ captured' = [captured EXCEPT ![x[1]] = @ \cup {records[n]}]
    /\ UNCHANGED <<up, held, generation, records, handlers, delivering>>

\* get_service: registered by the plugin itself or by a declared dependency.
GetService(x, n) ==
    /\ Current(x)
    /\ records[n] # None /\ records[n][1] \in Deps[x[1]] \cup {x[1]}
    /\ captured' = [captured EXCEPT ![x[1]] = @ \cup {records[n]}]
    /\ UNCHANGED <<up, held, generation, records, handlers, delivering>>

Subscribe(x) ==
    /\ Uses(x)
    /\ handlers' = handlers \cup {x}
    /\ UNCHANGED <<up, held, generation, records, delivering, captured>>

\* publish copies the handlers, and waits for them.
Publish(x) ==
    /\ Uses(x)
    /\ delivering' = delivering \cup handlers
    /\ UNCHANGED <<up, held, generation, records, handlers, captured>>

\* The handlers of x return, raise, or meet their deadline.
HandlerEnds(x) ==
    /\ x \in delivering
    /\ delivering' = delivering \ {x}
    /\ UNCHANGED <<up, held, generation, records, handlers, captured>>
-----------------------------------------------------------------------------
\* The manager builds the plugin, with a new context.
Build(p) ==
    /\ Attach(p)
    /\ generation[p] < Generations
    /\ generation' = [generation EXCEPT ![p] = @ + 1]
    /\ UNCHANGED <<records, handlers, delivering, captured>>

\* It runs, if no declared service is missing.
Serve(p) ==
    /\ Up(p)
    /\ Declared[p] \subseteq Registered(p)
    /\ UNCHANGED contextVars

\* It no longer runs, but holds its context still.
Fail(p) == Fall(p) /\ UNCHANGED contextVars

\* Mutant: the services of all are removed.
CleanupOfAll(p) ==
    /\ Release(p)
    /\ records' = [n \in Names |-> None]
    /\ handlers' = {x \in handlers : x[1] # p}
    /\ captured' = [captured EXCEPT ![p] = {}]
    /\ UNCHANGED <<generation, delivering>>

\* Mutant: the handlers stay subscribed.
CleanupServicesOnly(p) ==
    /\ Release(p)
    /\ records' = [n \in Names |-> IF n \in Registered(p) THEN None ELSE records[n]]
    /\ captured' = [captured EXCEPT ![p] = {}]
    /\ UNCHANGED <<generation, handlers, delivering>>

\* cleanup: all that is registered under the plugin's id goes; what publish has
\* copied goes on.
Cleanup(p) ==
    /\ Release(p)
    /\ records' = [n \in Names |-> IF n \in Registered(p) THEN None ELSE records[n]]
    /\ handlers' = {x \in handlers : x[1] # p}
    /\ captured' = [captured EXCEPT ![p] = {}]
    /\ UNCHANGED <<generation, delivering>>

ContextInit ==
    /\ Init
    /\ generation = [p \in Plugins |-> 0]
    /\ records = [n \in Names |-> None]
    /\ handlers = {}
    /\ delivering = {}
    /\ captured = [p \in Plugins |-> {}]

ContextNext ==
    \/ \E p \in Plugins : Build(p) \/ Serve(p) \/ Fail(p) \/ Cleanup(p)
    \/ \E x \in Contexts : \/ \E n \in Names : RegisterService(x, n) \/ GetService(x, n)
                           \/ Subscribe(x) \/ Publish(x) \/ HandlerEnds(x)

ContextSpec == ContextInit /\ [][ContextNext]_<<vars, contextVars>>

-----------------------------------------------------------------------------
(* Properties.                                                             *)

\* A plugin that is not attached has no service and no handler in the registries,
\* and those of an attached one are of its present context: the clean-up misses
\* nothing, whatever other plugins do with contexts they should have let go.
NoStrayRegistrations ==
    /\ \A n \in Names : records[n] # None /\ records[n][1] \notin Keepers => Current(records[n])
    /\ \A x \in handlers : x[1] \notin Keepers => Current(x)

\* What a running plugin has looked up, at whatever time and from whatever code,
\* is served by a plugin that runs, and by its present context.
LookupsAreServed ==
    \A p \in up : \A x \in captured[p] :
        x[1] \in up /\ (x[1] \notin Keepers => Current(x))

\* A registration is never replaced, and only the clean-up of its own plugin, not
\* that of a neighbour, withdraws it.  Hence a running plugin goes on to offer what
\* it declares.
WithdrawnByOwnerOnly ==
    [][\A n \in Names : records[n] # None /\ records'[n] # records[n] =>
          records'[n] = None /\ records[n][1] \in held \ held']_<<vars, contextVars>>
=============================================================================
