-------------------------- MODULE MCBundledPlugins --------------------------
(***************************************************************************)
(* The bundled plugins beside one that only listens: its handler is what   *)
(* suspends, and lets fail by deadline or cancellation, the publications   *)
(* that end the bundled plugins' hooks.                                    *)
(***************************************************************************)
EXTENDS BundledPlugins, TLC

CONSTANTS demo, runbook, audit, greeting, preview

MCPlugins  == {demo, runbook, audit}
MCBundled  == {demo, runbook}
MCDeps     == (audit :> {}) @@ (demo :> {}) @@ (runbook :> {demo})
MCDeclared == (audit :> {}) @@ (demo :> {greeting}) @@ (runbook :> {preview})
MCOrder    == <<audit, demo, runbook>>

MCSymmetry == Permutations(Requests)
=============================================================================
