----------------------------- MODULE FundsAccount -----------------------------
(***************************************************************************)
(* What a wallet with withdrawals promises, without holds, approvals or     *)
(* tables: money enters by deposits and leaves by spending or by the        *)
(* settlement of a request that was open; a settled request may be refunded *)
(* once, whole; an open one may be returned without moving money; what is   *)
(* returned is over.  A request's terms never change.                       *)
(***************************************************************************)
EXTENDS Integers

CONSTANTS Users, Requests, Nobody

VARIABLES funds,   \* [Users -> Int]
          phase,   \* [Requests -> {"none", "open", "settled", "returned"}]
          stake,   \* the amount of each request
          holder   \* the user each request draws on

vars == <<funds, phase, stake, holder>>

Init ==
  /\ funds = [u \in Users |-> 0]
  /\ phase = [r \in Requests |-> "none"]
  /\ stake = [r \in Requests |-> 0]
  /\ holder = [r \in Requests |-> Nobody]

Moved(r, from, to) == phase[r] = from /\ phase' = [phase EXCEPT ![r] = to]
Paid(u, a) == funds' = [funds EXCEPT ![u] = @ + a]

Deposit(u) ==
  /\ funds'[u] > funds[u]
  /\ Paid(u, funds'[u] - funds[u])
  /\ UNCHANGED <<phase, stake, holder>>

Spend(u) ==
  /\ funds'[u] < funds[u]
  /\ Paid(u, funds'[u] - funds[u])
  /\ UNCHANGED <<phase, stake, holder>>

Open(r) ==
  /\ Moved(r, "none", "open")
  /\ stake'[r] > 0 /\ stake' = [stake EXCEPT ![r] = stake'[r]]
  /\ holder'[r] \in Users /\ holder' = [holder EXCEPT ![r] = holder'[r]]
  /\ UNCHANGED funds

(* A request refused at once: opened and returned in one step.             *)
Refuse(r) ==
  /\ Moved(r, "none", "returned")
  /\ stake'[r] > 0 /\ stake' = [stake EXCEPT ![r] = stake'[r]]
  /\ holder'[r] \in Users /\ holder' = [holder EXCEPT ![r] = holder'[r]]
  /\ UNCHANGED funds

Settle(r) ==
  /\ Moved(r, "open", "settled")
  /\ Paid(holder[r], -stake[r])
  /\ UNCHANGED <<stake, holder>>

Return(r) ==
  /\ Moved(r, "open", "returned")
  /\ UNCHANGED <<funds, stake, holder>>

Refund(r) ==
  /\ Moved(r, "settled", "returned")
  /\ Paid(holder[r], stake[r])
  /\ UNCHANGED <<stake, holder>>

Next ==
  \/ \E u \in Users : Deposit(u) \/ Spend(u)
  \/ \E r \in Requests : Open(r) \/ Refuse(r) \/ Settle(r) \/ Return(r) \/ Refund(r)

Spec == Init /\ [][Next]_vars
=============================================================================
