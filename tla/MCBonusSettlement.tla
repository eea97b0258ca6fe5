-------------------------- MODULE MCBonusSettlement --------------------------
(* BonusSettlement for TLC.                                                *)
EXTENDS BonusSettlement

AllFaults == {"lost", "crash"}
=============================================================================
