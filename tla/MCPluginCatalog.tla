---------------------------- MODULE MCPluginCatalog ----------------------------
(***************************************************************************)
(* Small installations of up to three plugins in one or two roots, one id  *)
(* in both roots included: every graph, a bad root, a rejected version,    *)
(* and a capability with one owner, two or none.                           *)
(***************************************************************************)
EXTENDS PluginCatalog

CONSTANT catalog

MCIds == 1..3

MCGraphs == [MCIds -> SUBSET MCIds]

MCRoots == {<<{1, 2, 3}>>, <<{1, 2}, {3}>>, <<{2}, {1, 3}>>, <<{1, 2}, {2, 3}>>, <<{3}, {1}>>}

MCSilent == [p \in MCIds |-> {}]
MCOwned  == [p \in MCIds |-> IF p < 3 THEN {} ELSE {catalog}]
MCShared == [p \in MCIds |-> IF p < 2 THEN {} ELSE {catalog}]

MCInstallations ==
    {[roots |-> r, bad |-> {}, declares |-> d, requires |-> g, rejects |-> {}] :
        r \in MCRoots, d \in {MCOwned, MCShared}, g \in MCGraphs}
    \cup
    {[roots |-> <<{1, 2}, {3}>>, bad |-> b, declares |-> MCSilent, requires |-> g,
      rejects |-> x] : b \in SUBSET {1, 2}, x \in {{}, {<<2, 1>>}}, g \in MCGraphs}

\* The manifests resolve() then gets.
MCCatalogs == [ids : SUBSET MCIds, requires : MCGraphs, rejects : {{}, {<<2, 1>>}}]
=============================================================================
