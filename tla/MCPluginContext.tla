-------------------------- MODULE MCPluginContext --------------------------
(***************************************************************************)
(* A provider, its consumer, and a neighbour that keeps using its contexts  *)
(* after their clean-up, each built twice.                                  *)
(***************************************************************************)
EXTENDS PluginContext, TLC

CONSTANTS demo, runbook, audit, greeting, preview, trail

MCPlugins  == {demo, runbook, audit}
MCDeps     == (audit :> {}) @@ (demo :> {}) @@ (runbook :> {demo})
MCDeclared == (audit :> {trail}) @@ (demo :> {greeting}) @@ (runbook :> {preview})
=============================================================================
