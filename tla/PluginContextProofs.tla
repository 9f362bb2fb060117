-------------------------- MODULE PluginContextProofs --------------------------
(***************************************************************************)
(* What every plugin host guarantees, and therefore the plugin manager;    *)
(* and what the registries of services and events keep true on top of any  *)
(* such host, whatever plugins do with their contexts and when.            *)
(***************************************************************************)
EXTENDS PluginContext, TLAPS

-----------------------------------------------------------------------------
(* The plugin host.                                                        *)

\* The safety properties are inductive together: a plugin may fall because no
\* dependent serves, and be built because everything that holds resources does.
Guarantees == TypeOK /\ Grounded /\ BuiltOnServing /\ OneAtATime

\* Each step preserves the guarantees.
LEMMA StepKeepsGuarantees == Guarantees /\ [Next]_vars => Guarantees'
<1> SUFFICES ASSUME Guarantees, [Next]_vars
             PROVE  Guarantees'
  OBVIOUS
<1> USE DepsAssumption DEF Guarantees, TypeOK, Grounded, BuiltOnServing, OneAtATime
<1>1. ASSUME NEW p \in Plugins, Attach(p) PROVE Guarantees'
  BY <1>1 DEF Attach
<1>2. ASSUME NEW p \in Plugins, Up(p) PROVE Guarantees'
  BY <1>2 DEF Up
<1>3. ASSUME NEW p \in Plugins, Fall(p) PROVE Guarantees'
  BY <1>3 DEF Fall, Dependents
<1>4. ASSUME NEW p \in Plugins, Release(p) PROVE Guarantees'
  BY <1>4 DEF Release, Dependents
<1>5. CASE UNCHANGED vars
  BY <1>5 DEF vars
<1> QED  BY <1>1, <1>2, <1>3, <1>4, <1>5 DEF Next

\* A plugin that serves stands on plugins that serve, one that holds resources
\* was built on them, and at most one holds resources without serving.
THEOREM HostGuarantees == Spec => [](Grounded /\ BuiltOnServing /\ OneAtATime)
<1>1. Init => Guarantees
  BY DEF Init, Guarantees, TypeOK, Grounded, BuiltOnServing, OneAtATime
<1>2. Guarantees => Grounded /\ BuiltOnServing /\ OneAtATime
  BY DEF Guarantees
<1> QED  BY <1>1, <1>2, StepKeepsGuarantees, PTL DEF Spec
-----------------------------------------------------------------------------
(* The contexts.                                                           *)

\* The ranges of the variables the module adds.
ContextTypes ==
    /\ generation \in [Plugins -> Nat]
    /\ records \in [Names -> Contexts \cup {None}]
    /\ handlers \subseteq Contexts
    /\ captured \in [Plugins -> SUBSET Contexts]

\* A plugin keeps what it or a declared dependency registered, as they serve now,
\* and nothing beyond its own clean-up.
KeptAreServed ==
    \A p \in Plugins :
        /\ p \notin held => captured[p] = {}
        /\ \A x \in captured[p] : /\ x[1] \in Deps[p] \cup {p}
                                  /\ x[1] \notin Keepers => Current(x)

\* Together these are inductive; the properties follow from them.
ContextInvariant == Guarantees /\ ContextTypes /\ NoStrayRegistrations /\ KeptAreServed

\* The parts of a context.
LEMMA ContextParts == \A x \in Contexts : x[1] \in Plugins /\ x[2] \in Nat
  BY ContextAssumption DEF Contexts

\* A step of the context module is a step of the host, or none of its concern.
LEMMA HostSteps == [ContextNext]_<<vars, contextVars>> => [Next]_vars
<1>1. ASSUME NEW p \in Plugins, Build(p) \/ Serve(p) \/ Fail(p) \/ Cleanup(p) PROVE Next
  BY <1>1 DEF Next, Build, Serve, Fail, Cleanup
<1>2. ASSUME NEW x \in Contexts,
             \/ \E n \in Names : RegisterService(x, n) \/ GetService(x, n)
             \/ Subscribe(x) \/ Publish(x) \/ HandlerEnds(x)
      PROVE  UNCHANGED vars
  BY <1>2 DEF RegisterService, GetService, Subscribe, Publish, HandlerEnds, vars
<1> QED  BY <1>1, <1>2 DEF ContextNext

\* Plugins' own code, with the manager at rest.
LEMMA CodeKeeps ==
    ASSUME ContextInvariant, Guarantees', NEW x \in Contexts,
           \/ \E n \in Names : RegisterService(x, n) \/ GetService(x, n)
           \/ Subscribe(x) \/ Publish(x) \/ HandlerEnds(x)
    PROVE  ContextInvariant'
<1> USE DEF ContextInvariant
<1>1. x[1] \in Plugins
  BY ContextParts
<1>2. \A y : Current(y) => Current(y)'
  BY DEF Current, RegisterService, GetService, Subscribe, Publish, HandlerEnds
<1>3. x[1] \notin Keepers => Current(x) \/ ~Uses(x)
  BY DEF Uses
<1>4. ASSUME NEW n \in Names, RegisterService(x, n) PROVE ContextInvariant'
  <2>1. ContextTypes'
    BY <1>4 DEF RegisterService, ContextTypes
  <2>2. NoStrayRegistrations'
    BY <1>2, <1>3, <1>4 DEF RegisterService, NoStrayRegistrations, ContextTypes
  <2>3. KeptAreServed'
    BY <1>2, <1>4 DEF RegisterService, KeptAreServed
  <2> QED  BY <2>1, <2>2, <2>3
<1>5. ASSUME NEW n \in Names, GetService(x, n) PROVE ContextInvariant'
  <2>1. records[n] \in Contexts
    BY <1>5 DEF GetService, ContextTypes
  <2>2. ContextTypes'
    BY <1>1, <1>5, <2>1 DEF GetService, ContextTypes
  <2>3. NoStrayRegistrations'
    BY <1>2, <1>5 DEF GetService, NoStrayRegistrations
  <2>4. KeptAreServed'
    <3>1. \A p \in Plugins : captured'[p] = IF p = x[1] THEN captured[p] \cup {records[n]}
                                                         ELSE captured[p]
      BY <1>5 DEF GetService, ContextTypes
    <3>2. /\ x[1] \in held
          /\ records[n][1] \in Deps[x[1]] \cup {x[1]}
          /\ records[n][1] \notin Keepers => Current(records[n])
      BY <1>5 DEF GetService, Current, NoStrayRegistrations
    <3>3. held' = held
      BY <1>5 DEF GetService
    <3>4. ASSUME NEW p \in Plugins, NEW y \in captured'[p]
          PROVE  /\ y[1] \in Deps[p] \cup {p}
                 /\ y[1] \notin Keepers => Current(y)'
      <4>1. CASE y \in captured[p]
        BY <1>2, <4>1 DEF KeptAreServed
      <4>2. CASE y \notin captured[p]
        <5>1. p = x[1] /\ y = records[n]
          BY <3>1, <3>4, <4>2
        <5> QED  BY <1>2, <3>2, <5>1
      <4> QED  BY <4>1, <4>2
    <3>5. \A p \in Plugins : p \notin held' => captured'[p] = {}
      BY <3>1, <3>2, <3>3 DEF KeptAreServed
    <3> QED  BY <3>4, <3>5 DEF KeptAreServed
  <2> QED  BY <2>2, <2>3, <2>4
<1>6. CASE Subscribe(x) \/ Publish(x) \/ HandlerEnds(x)
  <2>1. ContextTypes'
    BY <1>6 DEF Subscribe, Publish, HandlerEnds, ContextTypes
  <2>2. NoStrayRegistrations'
    BY <1>2, <1>3, <1>6 DEF Subscribe, Publish, HandlerEnds, NoStrayRegistrations
  <2>3. KeptAreServed'
    BY <1>2, <1>6 DEF Subscribe, Publish, HandlerEnds, KeptAreServed
  <2> QED  BY <2>1, <2>2, <2>3
<1> QED  BY <1>4, <1>5, <1>6

\* A plugin is built: nothing of an earlier context of it is left.
LEMMA BuildKeeps ==
    ASSUME ContextInvariant, Guarantees', NEW p \in Plugins, Build(p)
    PROVE  ContextInvariant'
<1> USE DEF ContextInvariant
<1>1. /\ held' = held \cup {p} /\ p \notin held
      /\ \A q \in Plugins : q # p => generation'[q] = generation[q]
  BY DEF Build, Attach, ContextTypes
<1>2. ASSUME NEW x, x[1] \in Plugins, Current(x) PROVE Current(x)'
  BY <1>1, <1>2 DEF Current
<1>3. ContextTypes'
  BY DEF Build, ContextTypes
<1>4. NoStrayRegistrations'
  BY <1>2, ContextParts DEF Build, NoStrayRegistrations, ContextTypes
<1>5. KeptAreServed'
  BY <1>1, <1>2, DepsAssumption DEF Build, KeptAreServed
<1> QED  BY <1>3, <1>4, <1>5

\* A plugin is released: nothing of it stays, and nobody left has anything of it.
LEMMA CleanupKeeps ==
    ASSUME ContextInvariant, Guarantees', NEW p \in Plugins, Cleanup(p)
    PROVE  ContextInvariant'
<1> USE DEF ContextInvariant
<1>1. held' = held \ {p} /\ generation' = generation
  BY DEF Cleanup, Release
<1>2. ASSUME NEW x, x[1] # p, Current(x) PROVE Current(x)'
  BY <1>1, <1>2 DEF Current
<1>3. ContextTypes'
  BY DEF Cleanup, ContextTypes
<1>4. NoStrayRegistrations'
  <2>1. \A n \in Names : records'[n] # None => records'[n] = records[n] /\ records[n][1] # p
    BY DEF Cleanup, Registered
  <2>2. \A x \in handlers' : x \in handlers /\ x[1] # p
    BY DEF Cleanup
  <2> QED  BY <1>2, <2>1, <2>2 DEF NoStrayRegistrations
<1>5. KeptAreServed'
  <2> SUFFICES ASSUME NEW q \in Plugins
               PROVE  /\ q \notin held' => captured'[q] = {}
                      /\ \A x \in captured'[q] : /\ x[1] \in Deps[q] \cup {q}
                                                 /\ x[1] \notin Keepers => Current(x)'
    BY DEF KeptAreServed
  <2>1. captured'[q] = IF q = p THEN {} ELSE captured[q]
    BY DEF Cleanup, ContextTypes
  <2>2. ASSUME q # p, NEW x \in captured[q] PROVE x[1] # p
    <3>1. q \in held /\ x[1] \in Deps[q] \cup {q}
      BY <2>2 DEF KeptAreServed
    <3>2. q \in up /\ Dependents(p) \cap up = {}
      BY <2>2, <3>1 DEF Cleanup, Release
    <3> QED  BY <2>2, <3>1, <3>2 DEF Dependents
  <2> QED  BY <1>1, <1>2, <2>1, <2>2 DEF KeptAreServed
<1> QED  BY <1>3, <1>4, <1>5

\* Every step preserves the invariant.
LEMMA ContextStepKeeps ==
    ContextInvariant /\ [ContextNext]_<<vars, contextVars>> => ContextInvariant'
<1> SUFFICES ASSUME ContextInvariant, [ContextNext]_<<vars, contextVars>>
             PROVE  ContextInvariant'
  OBVIOUS
<1>1. Guarantees'
  BY HostSteps, StepKeepsGuarantees DEF ContextInvariant
<1>2. ASSUME NEW p \in Plugins, Serve(p) \/ Fail(p) PROVE ContextInvariant'
  <2>1. held' = held /\ UNCHANGED contextVars
    BY <1>2 DEF Serve, Fail, Up, Fall
  <2> QED
    BY <1>1, <2>1 DEF contextVars, ContextInvariant, ContextTypes, NoStrayRegistrations,
       KeptAreServed, Current
<1>3. CASE UNCHANGED <<vars, contextVars>>
  BY <1>1, <1>3 DEF vars, contextVars, ContextInvariant, ContextTypes, NoStrayRegistrations,
     KeptAreServed, Current
<1> QED  BY <1>1, <1>2, <1>3, CodeKeeps, BuildKeeps, CleanupKeeps DEF ContextNext

\* In every reachable state the invariant holds.
LEMMA ContextInvariantHolds == ContextSpec => []ContextInvariant
<1>1. ContextInit => ContextInvariant
  <2> SUFFICES ASSUME ContextInit PROVE ContextInvariant
    OBVIOUS
  <2>1. Guarantees
    BY DEF ContextInit, Init, Guarantees, TypeOK, Grounded, BuiltOnServing, OneAtATime
  <2>2. ContextTypes /\ NoStrayRegistrations /\ KeptAreServed
    BY DEF ContextInit, ContextTypes, NoStrayRegistrations, KeptAreServed
  <2> QED  BY <2>1, <2>2 DEF ContextInvariant
<1> QED  BY <1>1, ContextStepKeeps, PTL DEF ContextSpec

\* After the clean-up of a plugin the registries know nothing of it, and what they
\* know of an attached plugin is of its present context, unless its own code goes on
\* to use a context it was told to let go.
THEOREM NothingStraysRegistered == ContextSpec => []NoStrayRegistrations
  BY ContextInvariantHolds, PTL DEF ContextInvariant

\* A running plugin never keeps an object of a provider that does not run or was
\* built again, whenever and from wherever it looked the object up.
THEOREM LookupsStayServed == ContextSpec => []LookupsAreServed
<1>1. ContextInvariant => LookupsAreServed
  BY DEF ContextInvariant, Guarantees, TypeOK, Grounded, KeptAreServed, LookupsAreServed
<1> QED  BY <1>1, ContextInvariantHolds, PTL

\* A registration is never replaced and never withdrawn by a neighbour's clean-up.
THEOREM OwnersWithdraw == ContextSpec => WithdrawnByOwnerOnly
<1> DEFINE Withdrawn == \A n \in Names : records[n] # None /\ records'[n] # records[n] =>
                           records'[n] = None /\ records[n][1] \in held \ held'
<1>1. ContextInvariant /\ [ContextNext]_<<vars, contextVars>> => [Withdrawn]_<<vars, contextVars>>
  <2> SUFFICES ASSUME ContextInvariant, ContextNext PROVE Withdrawn
    OBVIOUS
  <2>1. ASSUME NEW x \in Contexts, NEW m \in Names, RegisterService(x, m) PROVE Withdrawn
    BY <2>1 DEF RegisterService, ContextInvariant, ContextTypes
  <2>2. ASSUME NEW p \in Plugins, Cleanup(p) PROVE Withdrawn
    BY <2>2 DEF Cleanup, Release, Registered
  <2>3. ASSUME \/ \E p \in Plugins : Build(p) \/ Serve(p) \/ Fail(p)
               \/ \E x \in Contexts : \/ \E n \in Names : GetService(x, n)
                                      \/ Subscribe(x) \/ Publish(x) \/ HandlerEnds(x)
        PROVE  Withdrawn
    BY <2>3 DEF Build, Serve, Fail, GetService, Subscribe, Publish, HandlerEnds, contextVars
  <2> QED  BY <2>1, <2>2, <2>3 DEF ContextNext
<1> QED  BY <1>1, ContextInvariantHolds, PTL DEF ContextSpec, WithdrawnByOwnerOnly
=============================================================================
