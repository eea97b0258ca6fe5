------------------------- MODULE MCWithdrawalWorkflow -------------------------
(* WithdrawalWorkflow for TLC.                                             *)
EXTENDS WithdrawalWorkflow, TLC

Symmetry == Permutations(Requests) \cup Permutations(Actors)
WorkerSymmetry == Permutations(Workers) \cup Permutations(Actors)
MCAmounts == {1, 2, 3}
AllFaults == {"lost", "crash", "alert"}
MCOne == {1}
NoFaults == {}
MCOrigins == {Plain} \cup [ip : {"other"}, device : {NoDevice}] \cup [ip : {"trusted", "blocked"}, device : Devices]
MCPlain == {Plain}
=============================================================================
