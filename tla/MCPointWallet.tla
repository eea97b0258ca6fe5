---------------------------- MODULE MCPointWallet ----------------------------
(* PointWallet for TLC: two owners, three requests.  Owners, actors and    *)
(* request identifiers are interchangeable.                                *)
EXTENDS PointWallet, TLC

Symmetry == Permutations(Users) \cup Permutations(Actors) \cup Permutations(Requests)
MCAmounts == {-1, 1, 2}
=============================================================================
