-------------------------- MODULE MCPlatformViews --------------------------
(***************************************************************************)
(* A consumer on a provider, as the bundled runbook and demo plugins.      *)
(***************************************************************************)
EXTENDS PlatformViews, TLC

CONSTANTS demo, runbook, catalog

MCPair       == {demo, runbook}
MCPairDeps   == (demo :> {}) @@ (runbook :> {demo})
MCPairOffers == (demo :> {catalog}) @@ (runbook :> {})
MCPairOrder  == <<demo, runbook>>
=============================================================================
