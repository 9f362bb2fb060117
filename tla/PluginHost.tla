----------------------------- MODULE PluginHost -----------------------------
(***************************************************************************)
(* What the plugin manager promises, with none of its machinery: a set of  *)
(* plugins that are up (serve), a set that hold platform resources         *)
(* (services, subscriptions), and four steps.  At most one plugin at a     *)
(* time is between the two, and a plugin that is up stands only on plugins *)
(* that are up.  PluginManager implements this specification.              *)
(***************************************************************************)
EXTENDS FiniteSets

CONSTANTS
    Plugins,    \* the plugin ids of the catalog
    Deps        \* [Plugins -> SUBSET Plugins], the declared dependencies

ASSUME DepsAssumption == Deps \in [Plugins -> SUBSET Plugins]

VARIABLES
    up,         \* the plugins that serve
    held        \* the plugins that hold platform resources

vars == <<up, held>>

Dependents(p) == {q \in Plugins : p \in Deps[q]}

Init == /\ up = {}
        /\ held = {}

\* p starts to be built, on dependencies that serve; nothing else is half built.
Attach(p) == /\ held = up
             /\ p \notin held
             /\ Deps[p] \subseteq up
             /\ held' = held \cup {p}
             /\ UNCHANGED up

\* p serves.
Up(p) == /\ held = up \cup {p}
         /\ up' = up \cup {p}
         /\ UNCHANGED held

\* p stops serving before its resources are released.
Fall(p) == /\ held = up
           /\ p \in up
           /\ Dependents(p) \cap up = {}
           /\ up' = up \ {p}
           /\ UNCHANGED held

\* p gives up everything it holds; nothing that serves stands on it.
Release(p) == /\ p \in held
              /\ held \subseteq up \cup {p}
              /\ Dependents(p) \cap up = {}
              /\ up' = up \ {p}
              /\ held' = held \ {p}

Next == \E p \in Plugins : Attach(p) \/ Up(p) \/ Fall(p) \/ Release(p)

Spec == Init /\ [][Next]_vars
-----------------------------------------------------------------------------
\* Only plugins of the catalog serve or hold resources.
TypeOK == /\ up \subseteq Plugins
          /\ held \subseteq Plugins

\* A plugin that serves holds its resources and stands on plugins that serve.
Grounded == /\ up \subseteq held
            /\ \A p \in up : Deps[p] \subseteq up

\* The dependencies of a plugin that holds resources serve, so that building
\* it or tearing it down never uses a provider that is gone.
BuiltOnServing == \A p \in held : Deps[p] \subseteq up

\* At most one plugin holds resources without serving.
OneAtATime == \A p, q \in held \ up : p = q
=============================================================================
