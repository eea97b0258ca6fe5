---------------------------- MODULE MCOrganization ----------------------------
(* Organization and the reading of its KPIs for TLC.                       *)
EXTENDS OrganizationKpi, TLC

Symmetry == Permutations(Users) \cup Permutations(Workers)
BothTrees == {"unilevel", "binary"}
BinaryTree == {"binary"}
=============================================================================
