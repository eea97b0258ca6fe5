---------------------------- MODULE PointWalletRows ----------------------------
(***************************************************************************)
(* The rows of the point_wallets and point_withdrawals tables and what      *)
(* PointWalletService (core/point_wallet.py) does to them.  Every operator  *)
(* here is pure: a guard over rows, or the row an operation writes.  The    *)
(* module PointWallet makes one atomic action of each operation; the module *)
(* WithdrawalWorkflow runs the same operations inside database sessions.    *)
(*                                                                         *)
(* A wallet belongs to one user (user_id is unique), so a user names the    *)
(* wallet.  Points are integers: the code uses Decimal and only adds,       *)
(* subtracts and compares.                                                  *)
(***************************************************************************)
EXTENDS Integers

CONSTANTS Users,     \* the owners of point wallets
          Actors,    \* whoever an approval, rejection or cancellation names
          Requests,  \* identifiers of withdrawal requests
          Nobody     \* an unset owner or actor column

ASSUME NobodyAssumption == Nobody \notin Users \cup Actors

WalletStatus == {"absent", "active", "suspended"}
RequestStatus == {"none", "pending", "approved_pending", "approved",
                  "rejected", "cancelled", "failed"}
EntryType == {"credit", "debit", "hold", "withdrawal", "release"}

WalletRow == [status: WalletStatus, balance: Int, pending: Int]
RequestRow == [status: RequestStatus, amount: Nat, owner: Users \cup {Nobody},
               stage1: Actors \cup {Nobody}, approvedBy: Actors \cup {Nobody}]

NoWallet == [status |-> "absent", balance |-> 0, pending |-> 0]
NewWallet == [status |-> "active", balance |-> 0, pending |-> 0]
NoRequest == [status |-> "none", amount |-> 0, owner |-> Nobody,
              stage1 |-> Nobody, approvedBy |-> Nobody]

-----------------------------------------------------------------------------
(* Guards: the checks that raise before anything is written.               *)

Active(w) == w.status = "active"
(* Mutant: what is held is spent again.                                   *)
Sufficient_IgnoringHolds(w, a) == a <= w.balance

Sufficient(w, a) == a <= w.balance - w.pending
SufficientWithPending(w, a) == a <= w.balance
Releasable(w, a) == w.pending >= a

(* _get_or_create_record: a credit opens the wallet of a user without one. *)
GetOrCreate(w) == IF w.status = "absent" THEN NewWallet ELSE w

CanCredit(w, a) == Active(GetOrCreate(w)) /\ a > 0
CanDebit(w, a) == Active(w) /\ a > 0 /\ Sufficient(w, a)
(* Mutant: _ensure_positive forgotten.                                     *)
CanRequest_AnyAmount(w, a) == Active(w) /\ Sufficient(w, a)

CanRequest(w, a) == Active(w) /\ a > 0 /\ Sufficient(w, a)
CanApprove(w, q) ==
  /\ q.status \in {"pending", "approved_pending"}
  /\ Active(w)
  /\ SufficientWithPending(w, q.amount)
(* Mutant: a final approval can be followed by a first one.                *)
CanMarkStage1_AgainAfterFinal(q) == q.status \in {"pending", "approved"}

CanMarkStage1(q) == q.status = "pending"
(* Mutant: a failed withdrawal fails again.                                *)
CanFail_Again(q) == q.status \in {"approved", "approved_pending", "failed"}

CanFail(q) == q.status \in {"approved", "approved_pending"}
(* Mutant: a request can be rejected or cancelled after it was approved.   *)
CanClose_AfterApproval(w, q) ==
  q.status \in {"pending", "approved"} /\ Releasable(w, q.amount)

CanClose(w, q) == q.status = "pending" /\ Releasable(w, q.amount)

-----------------------------------------------------------------------------
(* The wallet row an operation writes.                                     *)

Credited(w, a) == [GetOrCreate(w) EXCEPT !.balance = @ + a]
Debited(w, a) == [w EXCEPT !.balance = @ - a]
Held(w, a) == [w EXCEPT !.pending = @ + a]
Released(w, a) == [w EXCEPT !.pending = @ - a]
(* Mutant: an approval does not end the hold.                              *)
Settled_StillHeld(w, a) == Debited(w, a)

Settled(w, a) == Released(Debited(w, a), a)

(* Mutants: the refund does not ask whether the points had left; there is  *)
(* no refund.                                                              *)
Refunded_Unasked(w, q) == [w EXCEPT !.balance = @ + q.amount]
Refunded_Never(w, q) == w

(* fail_withdrawal: an approved request gets its points back, and its      *)
(* amount leaves pending_withdrawal (not below zero) whether it was still  *)
(* counted there or not.                                                   *)
Refunded(w, q) == IF q.status = "approved" THEN [w EXCEPT !.balance = @ + q.amount] ELSE w
GivenBack(w, q) ==
  [Refunded(w, q) EXCEPT !.pending = IF @ >= q.amount THEN @ - q.amount ELSE 0]

-----------------------------------------------------------------------------
(* The request row an operation writes.                                    *)

Opened(u, a) == [NoRequest EXCEPT !.status = "pending", !.amount = a, !.owner = u]

(* metadata.setdefault("stage1_approver", approver_id)                     *)
Stage1Marked(q, by) ==
  [q EXCEPT !.status = "approved_pending",
            !.stage1 = IF @ = Nobody THEN by ELSE @]
Approved(q, by) == [q EXCEPT !.status = "approved", !.approvedBy = by]
Closed(q, s) == [q EXCEPT !.status = s]

(* Where a request's points are, by its status (see FundsAccount).         *)
phaseOf(s) ==
  CASE s = "none" -> "none"
    [] s \in {"pending", "approved_pending"} -> "open"
    [] s = "approved" -> "settled"
    [] OTHER -> "returned"
=============================================================================
