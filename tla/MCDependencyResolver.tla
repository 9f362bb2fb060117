------------------------- MODULE MCDependencyResolver -------------------------
(***************************************************************************)
(* Small catalogs: every declaration over up to three ids, absent ones and *)
(* a rejected version included, and every graph on four present ids.       *)
(***************************************************************************)
EXTENDS DependencyResolver

MCIds == 1..4

Declarations(P, Q) == {f \in [MCIds -> SUBSET Q] : \A p \in MCIds \ P : f[p] = {}}

Edges(f) == {e \in MCIds \X MCIds : e[2] \in f[e[1]]}

MCThree ==
    UNION {{[ids |-> P, requires |-> f, rejects |-> R] :
                R \in {{}} \cup {{e} : e \in Edges(f)}} :
           <<P, f>> \in UNION {{<<P, f>> : f \in Declarations(P, 1..3)} : P \in SUBSET (1..3)}}

MCFour ==
    {[ids |-> MCIds, requires |-> f, rejects |-> {}] :
        f \in {g \in [MCIds -> SUBSET MCIds] : \A p \in MCIds : p \notin g[p]}}

MCCatalogs == MCThree \cup MCFour
=============================================================================
