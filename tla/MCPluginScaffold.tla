-------------------------- MODULE MCPluginScaffold --------------------------
(***************************************************************************)
(* Runs, and the names of their staging directories, are interchangeable.  *)
(***************************************************************************)
EXTENDS PluginScaffold, TLC

MCSymmetry == Permutations(Runs) \cup Permutations(Dirs)
=============================================================================
