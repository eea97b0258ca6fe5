------------------------------ MODULE PointWallet ------------------------------
(***************************************************************************)
(* PointWalletService (core/point_wallet.py) over its repository, one       *)
(* action per operation.  Each operation is atomic here: a caller runs it   *)
(* in a session whose exceptions roll everything back, so an operation      *)
(* either raises and changes nothing, or writes the wallet row, the request *)
(* row and one ledger entry together.                                       *)
(*                                                                         *)
(* The ledger is append-only.  What the properties need of it is the total  *)
(* of each entry type per wallet, so that is what `ledger' holds.           *)
(***************************************************************************)
EXTENDS PointWalletRows, FiniteSets

CONSTANTS Amounts,    \* amounts callers pass, not all of them acceptable
          MaxCredit   \* bound of the model: most points ever credited to a wallet

ASSUME AmountsAssumption == Amounts \subseteq Int
ASSUME MaxCreditAssumption == MaxCredit \in Nat
ASSUME RequestsAssumption == IsFiniteSet(Requests)

VARIABLES wallet,   \* [Users -> WalletRow]
          request,  \* [Requests -> RequestRow]
          ledger    \* [Users -> [EntryType -> Nat]]

vars == <<wallet, request, ledger>>

Init ==
  /\ wallet = [u \in Users |-> NoWallet]
  /\ request = [r \in Requests |-> NoRequest]
  /\ ledger = [u \in Users |-> [t \in EntryType |-> 0]]

(* _append_ledger                                                          *)
Post(u, t, a) == ledger' = [ledger EXCEPT ![u][t] = @ + a]

-----------------------------------------------------------------------------
EnsureWallet(u) ==
  /\ wallet[u].status = "absent"
  /\ wallet' = [wallet EXCEPT ![u] = NewWallet]
  /\ UNCHANGED <<request, ledger>>

Credit(u, a) ==
  /\ CanCredit(wallet[u], a)
  /\ ledger[u]["credit"] + a <= MaxCredit
  /\ wallet' = [wallet EXCEPT ![u] = Credited(@, a)]
  /\ Post(u, "credit", a)
  /\ UNCHANGED request

Debit(u, a) ==
  /\ CanDebit(wallet[u], a)
  /\ wallet' = [wallet EXCEPT ![u] = Debited(@, a)]
  /\ Post(u, "debit", a)
  /\ UNCHANGED request

(* The requester must own the wallet it names.                             *)
RequestWithdrawal(r, u, requestedBy, a) ==
  /\ request[r].status = "none"
  /\ requestedBy = u
  /\ CanRequest(wallet[u], a)
  /\ wallet' = [wallet EXCEPT ![u] = Held(@, a)]
  /\ request' = [request EXCEPT ![r] = Opened(u, a)]
  /\ Post(u, "hold", a)

MarkStage1Approval(r, by) ==
  /\ CanMarkStage1(request[r])
  /\ request' = [request EXCEPT ![r] = Stage1Marked(@, by)]
  /\ UNCHANGED <<wallet, ledger>>

ApproveWithdrawal(r, by) ==
  LET q == request[r] IN
  /\ CanApprove(wallet[q.owner], q)
  /\ wallet' = [wallet EXCEPT ![q.owner] = Settled(@, q.amount)]
  /\ request' = [request EXCEPT ![r] = Approved(@, by)]
  /\ Post(q.owner, "withdrawal", q.amount)

FailWithdrawal(r) ==
  LET q == request[r] IN
  /\ CanFail(q)
  /\ wallet' = [wallet EXCEPT ![q.owner] = GivenBack(@, q)]
  /\ request' = [request EXCEPT ![r] = Closed(@, "failed")]
  /\ Post(q.owner, "release", q.amount)

(* reject_withdrawal and cancel_withdrawal differ in the status they leave. *)
CloseWithdrawal(r, s) ==
  LET q == request[r] IN
  /\ CanClose(wallet[q.owner], q)
  /\ wallet' = [wallet EXCEPT ![q.owner] = Released(@, q.amount)]
  /\ request' = [request EXCEPT ![r] = Closed(@, s)]
  /\ Post(q.owner, "release", q.amount)

RejectWithdrawal(r) == CloseWithdrawal(r, "rejected")
CancelWithdrawal(r) == CloseWithdrawal(r, "cancelled")

(* No operation of the service writes point_wallets.status: an operator    *)
(* suspends and reactivates a wallet in the database.                      *)
SetWalletStatus(u, s) ==
  /\ wallet[u].status \notin {"absent", s}
  /\ wallet' = [wallet EXCEPT ![u].status = s]
  /\ UNCHANGED <<request, ledger>>

-----------------------------------------------------------------------------
WalletStep(u) ==
  \/ EnsureWallet(u)
  \/ \E a \in Amounts : Credit(u, a)
  \/ \E a \in Amounts : Debit(u, a)
  \/ \E s \in {"active", "suspended"} : SetWalletStatus(u, s)

RequestStep(r) ==
  \/ \E u, by \in Users, a \in Amounts : RequestWithdrawal(r, u, by, a)
  \/ \E by \in Actors : MarkStage1Approval(r, by)
  \/ \E by \in Actors : ApproveWithdrawal(r, by)
  \/ FailWithdrawal(r)
  \/ RejectWithdrawal(r)
  \/ CancelWithdrawal(r)

Next == (\E u \in Users : WalletStep(u)) \/ (\E r \in Requests : RequestStep(r))

Spec == Init /\ [][Next]_vars

-----------------------------------------------------------------------------
(***************************************************************************)
(* Sums.  The points of a set of requests are counted one by one, so the    *)
(* sum of their amounts is a cardinality.                                   *)
(***************************************************************************)
(* Failed after its approval: approved_by stays set on a failed request.   *)
Class(q) ==
  IF q.status = "failed" /\ q.approvedBy # Nobody THEN "refunded" ELSE q.status

RequestsIn(q, u, C) == {r \in Requests : q[r].owner = u /\ Class(q[r]) \in C}
PointsOf(q, R) == UNION {{r} \X (1 .. q[r].amount) : r \in R}
SumOf(q, u, C) == Cardinality(PointsOf(q, RequestsIn(q, u, C)))

OpenClasses == {"pending", "approved_pending"}
ReleasedClasses == {"rejected", "cancelled", "failed", "refunded"}

OpenTotal(u) == SumOf(request, u, OpenClasses)
ApprovedTotal(u) == SumOf(request, u, {"approved"})
ReleasedTotal(u) == SumOf(request, u, ReleasedClasses)
RefundedTotal(u) == SumOf(request, u, {"refunded"})

(* The rows keep the types of their columns, and an amount is never        *)
(* negative (_ensure_positive).                                            *)
TypeOK ==
  /\ wallet \in [Users -> WalletRow]
  /\ request \in [Requests -> RequestRow]
  /\ ledger \in [Users -> [EntryType -> Nat]]

(* A balance can be rebuilt from the ledger and the requests: it is what   *)
(* was credited, less debits and withdrawals, plus what failed withdrawals *)
(* gave back.  No order of operations loses or mints a point.              *)
LedgerReplaysBalance ==
  \A u \in Users :
    wallet[u].balance = ledger[u]["credit"] - ledger[u]["debit"]
                        - ledger[u]["withdrawal"] + RefundedTotal(u)

(* Every hold in the ledger ends in one withdrawal or one release, except  *)
(* that a withdrawal failed after its approval has both.                   *)
LedgerClosesHolds ==
  \A u \in Users :
    /\ ledger[u]["withdrawal"] = ApprovedTotal(u) + RefundedTotal(u)
    /\ ledger[u]["release"] = ReleasedTotal(u)
    /\ ledger[u]["hold"] = OpenTotal(u) + ApprovedTotal(u) + ReleasedTotal(u)

(* pending_withdrawal never exceeds what the open requests hold, so no     *)
(* point stays locked for a request that is over; and it falls short of    *)
(* their sum by no more than the withdrawals that failed after approval,   *)
(* whose amount fail_withdrawal takes off a second time.                   *)
PendingTracksOpenRequests ==
  \A u \in Users :
    /\ wallet[u].pending <= OpenTotal(u)
    /\ wallet[u].pending >= OpenTotal(u) - RefundedTotal(u)

(* On a wallet none of whose withdrawals failed after approval, the        *)
(* balance pays for every open request together, whatever was spent,       *)
(* approved or released in between.                                        *)
OpenRequestsCovered ==
  \A u \in Users :
    RefundedTotal(u) = 0 => OpenTotal(u) <= wallet[u].balance

(* core/point_wallet.py:465-467: what a pending request holds is there to  *)
(* be released, so that it can be rejected or cancelled.                   *)
PendingRequestsReleasable ==
  \A r \in Requests :
    request[r].status = "pending" => Releasable(wallet[request[r].owner], request[r].amount)

-----------------------------------------------------------------------------
(***************************************************************************)
(* The service implements FundsAccount: a request's money leaves the wallet *)
(* at most once, comes back only after it left, and only whole.             *)
(***************************************************************************)
Account == INSTANCE FundsAccount WITH
  funds <- [u \in Users |-> wallet[u].balance],
  phase <- [r \in Requests |-> phaseOf(request[r].status)],
  stake <- [r \in Requests |-> request[r].amount],
  holder <- [r \in Requests |-> request[r].owner]

(* Every operation of the service is one step of the abstract account, or  *)
(* none.                                                                   *)
ImplementsFundsAccount == Account!Spec
=============================================================================
