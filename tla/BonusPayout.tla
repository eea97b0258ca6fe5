------------------------------ MODULE BonusPayout ------------------------------
(***************************************************************************)
(* What settling promises of a recorded bonus, without queue, retries or   *)
(* jobs: it is owed until it is paid or waived, several at a time, it       *)
(* is paid only after money has moved, money moves only while it is owed,  *)
(* and nothing is owed for ever.  It does not promise that money moves      *)
(* once.                                                                   *)
(***************************************************************************)
EXTENDS Naturals

CONSTANT Bonuses

VARIABLES phase,  \* [Bonuses -> {"none", "owed", "paid", "waived"}]
          moved   \* how often money went out for a bonus

vars == <<phase, moved>>

Init ==
  /\ phase = [b \in Bonuses |-> "none"]
  /\ moved = [b \in Bonuses |-> 0]

Owe(b) ==
  /\ phase[b] = "none"
  /\ phase' = [phase EXCEPT ![b] = "owed"]
  /\ UNCHANGED moved

Move(b) ==
  /\ phase[b] = "owed"
  /\ moved' = [moved EXCEPT ![b] = @ + 1]
  /\ UNCHANGED phase

Settle(pay, waive) ==
  /\ pay \cap waive = {}
  /\ \A b \in pay \cup waive : phase[b] = "owed"
  /\ \A b \in pay : moved[b] > 0
  /\ phase' = [b \in Bonuses |-> IF b \in pay THEN "paid" ELSE IF b \in waive THEN "waived" ELSE phase[b]]
  /\ UNCHANGED moved

Next ==
  \/ \E b \in Bonuses : Owe(b) \/ Move(b)
  \/ \E pay, waive \in SUBSET Bonuses : Settle(pay, waive)

Safety == Init /\ [][Next]_vars

Spec ==
  /\ Safety
  /\ \A b \in Bonuses : phase[b] = "owed" ~> phase[b] # "owed"
=============================================================================
