----------------------------- MODULE MCRegistry -----------------------------
(***************************************************************************)
(* Small instances of Registry: a namespace where two backends own a type   *)
(* each, and another with a backend of its own.                             *)
(***************************************************************************)
EXTENDS Registry, TLC

CONSTANTS i1, i2, j1

MCLink == {<<"n1", i1>>, <<"n1", i2>>, <<"n2", j1>>}
OneLink == {<<"n1", i1>>}
MCNamespaceOf == [b \in Backend |-> IF b = "far" THEN "n2" ELSE "n1"]
MCEntities == [b \in Backend |-> IF b = "bridges" THEN {"bridge"} ELSE {"ethernet"}]
Symmetry == Permutations(Name) \cup Permutations({i1, i2})
=============================================================================
