-------------------------- MODULE MCPluginManager --------------------------
(***************************************************************************)
(* Small catalogs for the model checker: a consumer on a provider, as the  *)
(* bundled runbook and demo plugins, and a chain of three with a shortcut. *)
(***************************************************************************)
EXTENDS PluginManager, TLC

CONSTANTS demo, runbook, audit, catalog

\* runbook needs demo, and demo offers its catalog.
MCPair       == {demo, runbook}
MCPairDeps   == (demo :> {}) @@ (runbook :> {demo})
MCPairOffers == (demo :> {catalog}) @@ (runbook :> {})
MCPairOrder  == <<demo, runbook>>

\* audit needs runbook and demo.
MCTrio       == {demo, runbook, audit}
MCTrioDeps   == (demo :> {}) @@ (runbook :> {demo}) @@ (audit :> {demo, runbook})
MCTrioOffers == (demo :> {catalog}) @@ (runbook :> {}) @@ (audit :> {})
MCTrioOrder  == <<demo, runbook, audit>>

MCSymmetry == Permutations(Requests)
=============================================================================
