-------------------------- MODULE MCProviderServices --------------------------
(* ProviderServices for TLC.                                               *)
EXTENDS ProviderServices

MCFaults == {"lost", "crash", "alert"}
=============================================================================
