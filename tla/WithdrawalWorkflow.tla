-------------------------- MODULE WithdrawalWorkflow --------------------------
(***************************************************************************)
(* WithdrawalWorkflowService (core/withdrawal_workflow.py) inside database   *)
(* sessions (withdrawal_workflow_scope), with the HashDam payment that the  *)
(* second approval triggers (MiningWithdrawalOrchestrator, MiningService).  *)
(*                                                                         *)
(* A worker is a process of the API.  It runs one call at a time, in one    *)
(* session: it reads a request row and a wallet row, computes new rows,     *)
(* updates them (row locks until the end of the transaction), pays, and     *)
(* commits.  Whoever reads a row without updating it holds no lock, and no  *)
(* row has a version, so what a session computed may be stale when it       *)
(* writes.  Two-step approval by two people is what                         *)
(* withdrawal_workflow_scope configures; a person is the name the request   *)
(* body gives (api/http.py:301).  The ledger is PointWallet's.              *)
(*                                                                         *)
(* A request is screened by RiskService between its writes and the commit, *)
(* by the rules of WithdrawalRisk.  A workflow without a risk service is    *)
(* one whose requests come from Plain origins and stay under the limits.    *)
(***************************************************************************)
EXTENDS PointWalletRows, WithdrawalRisk, FiniteSets, SequencesExt

CONSTANTS Workers,
          Amounts,    \* amounts users ask for
          Funds,      \* the balance every wallet starts with
          Origins,    \* where requests come from
          Attempts,   \* RetryConfig.attempts
          Faults,     \* which of "lost", "crash", "alert" can go wrong
          MaxFaults   \* bound of the model: how many times something goes wrong

ASSUME OriginsAssumption == Origins \subseteq Origin
ASSUME WorkflowAssumption == Amounts \subseteq Int /\ Funds \in Int /\ Attempts \in Nat \ {0}

Plain == [ip |-> "none", device |-> NoDevice]
Routes == {"manual", "coin", "coinless"}  \* what a request's metadata says of HashDam

VARIABLES wallet,    \* committed point_wallets rows
          request,   \* committed point_withdrawals rows
          route,     \* their metadata: coin named, provider without coin, neither
          audit,     \* committed withdrawal_audit_logs of each request
          devices,   \* committed risk_known_devices of each user
          events,    \* committed risk_events of each request
          receipts,  \* committed mining_withdrawals rows with status "submitted"
          paid,      \* payouts HashDam has executed, per request
          hidden,    \* history: those whose answer was lost or died with its process
          session,   \* the call each worker is in
          faults     \* bound of the model

tables == <<wallet, request, route, audit, devices, events, receipts>>
outside == <<paid, hidden, faults>>
vars == <<wallet, request, route, audit, devices, events, receipts, paid, hidden, session, faults>>

Idle == [step |-> "idle", op |-> "none", r |-> Nobody, by |-> Nobody, pays |-> "manual",
         from |-> Plain, found |-> {}, seen |-> {}, q |-> NoRequest, row |-> NoWallet, qset |-> {}, rowset |-> {},
         log |-> <<>>, tries |-> 0, acked |-> FALSE]

Init ==
  /\ wallet = [u \in Users |-> [NewWallet EXCEPT !.balance = Funds]]
  /\ request = [r \in Requests |-> NoRequest]
  /\ route = [r \in Requests |-> "manual"]
  /\ audit = [r \in Requests |-> <<>>]
  /\ devices = [u \in Users |-> {}]
  /\ events = [r \in Requests |-> {}]
  /\ receipts = [r \in Requests |-> 0]
  /\ paid = [r \in Requests |-> 0] /\ hidden = [r \in Requests |-> 0]
  /\ session = [w \in Workers |-> Idle]
  /\ faults = 0

Entry(action, actor, status) == [action |-> action, actor |-> actor, status |-> status]

Fault(kind) == kind \in Faults /\ faults < MaxFaults /\ faults' = faults + 1

At(w, step) == session[w].step = step
Begin(w, s) == At(w, "idle") /\ session' = [session EXCEPT ![w] = s] /\ UNCHANGED <<tables, outside>>
Continue(w, s) == session' = [session EXCEPT ![w] = s] /\ UNCHANGED tables
(* An exception other than WithdrawalExecutionError rolls the session back. *)
RollBack(w) == Continue(w, Idle)

-----------------------------------------------------------------------------
(* Calls.  A call that raises on what it reads first changes nothing and   *)
(* is no step.                                                             *)

BeginRequest(w, r, u, a, how, from) ==
  /\ request[r].status = "none"
  /\ \A v \in Workers : session[v].r # r
  /\ CanRequest(wallet[u], a)
  /\ Begin(w, [Idle EXCEPT !.step = "update", !.op = "request", !.r = r, !.by = u, !.pays = how,
                           !.from = from, !.q = Opened(u, a), !.row = Held(wallet[u], a),
                           !.log = <<Entry("requested", u, "pending")>>])

(* approve(finalize=False)                                                 *)
BeginStage1(w, r, by) ==
  LET q == request[r] IN
  /\ CanMarkStage1(q)
  /\ Begin(w, [Idle EXCEPT !.step = "update", !.op = "stage1", !.r = r, !.by = by,
                           !.q = Stage1Marked(q, by), !.row = wallet[q.owner],
                           !.log = <<Entry("approved_stage1", by, "approved_pending")>>])

BeginClose(w, r, by, s) ==
  LET q == request[r] IN
  /\ CanClose(wallet[q.owner], q)
  /\ Begin(w, [Idle EXCEPT !.step = "update", !.op = "close", !.r = r, !.by = by,
                           !.q = Closed(q, s), !.row = Released(wallet[q.owner], q.amount),
                           !.log = <<Entry(s, by, s)>>])

(* Mutant: the first approval is skipped.                                  *)
BeginFinal_AtOnce(w, r, by, named) ==
  /\ request[r].status # "none"
  /\ request[r].status = "approved_pending" => request[r].stage1 # by
  /\ Begin(w, [Idle EXCEPT !.step = "read", !.op = "final", !.r = r, !.by = by,
                           !.pays = IF named THEN "coin" ELSE route[r]])

(* approve(finalize=True): only a pending request is refused here, and only *)
(* at approved_pending are the approvers compared.  approve_withdrawal      *)
(* reads the rows again and decides.                                       *)
BeginFinal(w, r, by, named) ==
  /\ request[r].status \notin {"none", "pending"}
  /\ request[r].status = "approved_pending" => request[r].stage1 # by
  /\ Begin(w, [Idle EXCEPT !.step = "read", !.op = "final", !.r = r, !.by = by,
                           !.pays = IF named THEN "coin" ELSE route[r]])

(* Without a coin HashDam cannot be called, and the failure is logged of a *)
(* request that stays approved.                                            *)
ReadForFinal(w) ==
  LET s == session[w]
      q == request[s.r]
      action == IF s.pays = "coinless" THEN "failed" ELSE "approved" IN
  /\ At(w, "read")
  /\ IF CanApprove(wallet[q.owner], q)
       THEN Continue(w, [s EXCEPT !.step = "update", !.q = Approved(q, s.by),
                                  !.row = Settled(wallet[q.owner], q.amount),
                                  !.log = <<Entry(action, s.by, "approved")>>])
       ELSE RollBack(w)
  /\ UNCHANGED outside

-----------------------------------------------------------------------------
(***************************************************************************)
(* Updates.  update_wallet and update_withdrawal_request query the row      *)
(* again and assign every column; the session sends the columns whose       *)
(* values differ from those the query found.                                *)
(***************************************************************************)
Differing(old, new) == {c \in DOMAIN old : old[c] # new[c]}
Written(old, new, columns) == [c \in DOMAIN old |-> IF c \in columns THEN new[c] ELSE old[c]]

Update(w) ==
  LET s == session[w] IN
  /\ At(w, "update")
  /\ Continue(w, [s EXCEPT !.step = "flush", !.qset = Differing(request[s.r], s.q),
                           !.rowset = IF s.op = "stage1" THEN {}
                                      ELSE Differing(wallet[s.q.owner], s.row)])
  /\ UNCHANGED outside

(* A flushed row stays locked until its transaction ends.                  *)
Flushed == {"risk", "call", "alert", "fail", "commit"}
Blocks(s, t) ==
  /\ t.step \in Flushed
  /\ \/ t.r = s.r
     \/ s.op # "stage1" /\ t.op # "stage1" /\ s.q.owner = t.q.owner

NextStep(s) ==
  CASE s.op = "request" -> "risk"
    [] s.op = "final" /\ s.pays = "coin" -> "call"
    [] OTHER -> "commit"

Flush(w) ==
  LET s == session[w] IN
  /\ At(w, "flush")
  /\ \A v \in Workers \ {w} : ~Blocks(s, session[v])
  /\ Continue(w, [s EXCEPT !.step = NextStep(s), !.qset = {}, !.rowset = {},
                           !.q = Written(request[s.r], @, s.qset),
                           !.row = Written(wallet[s.q.owner], @, s.rowset)])
  /\ UNCHANGED outside

(***************************************************************************)
(* RiskService.evaluate_withdrawal.  A blocked request is cancelled in its *)
(* session; RiskRejected then rolls the session back, unless the caller     *)
(* keeps it (tests/integration/test_withdrawal_workflow.py:72).             *)
(***************************************************************************)
Screened(w) ==
  LET s == session[w] IN
  [s EXCEPT !.step = "commit", !.found = Findings(s.q.amount, s.from, devices[s.q.owner]),
            !.seen = Stored(s.from, devices[s.q.owner])]

Clear(w) ==
  /\ At(w, "risk")
  /\ Screened(w).found = {}
  /\ Continue(w, Screened(w))
  /\ UNCHANGED outside

(* Mutant: the flag is forgotten.                                          *)
Flag_Unlogged(w) ==
  /\ At(w, "risk")
  /\ RequiresReview(Screened(w).found) /\ ~Blocked(Screened(w).found)
  /\ Continue(w, Screened(w))
  /\ UNCHANGED outside

Flag(w) ==
  /\ At(w, "risk")
  /\ RequiresReview(Screened(w).found) /\ ~Blocked(Screened(w).found)
  /\ Continue(w, [Screened(w) EXCEPT !.log = Append(@, Entry("flagged", Nobody, "pending"))])
  /\ UNCHANGED outside

Block(w) ==
  LET s == session[w] IN
  /\ At(w, "risk")
  /\ Blocked(Screened(w).found)
  /\ \/ Continue(w, [Screened(w) EXCEPT !.q = Closed(@, "cancelled"), !.row = Released(@, s.q.amount),
                                      !.log = Append(@, Entry("cancelled", Nobody, "cancelled"))])
     \/ RollBack(w)
  /\ UNCHANGED outside

(* Findings are announced before the decision; a webhook that raises takes *)
(* the request with it, a harmless one too.                                *)
ScreenUnalerted(w) ==
  /\ At(w, "risk")
  /\ Screened(w).found # {}
  /\ RollBack(w)
  /\ Fault("alert")
  /\ UNCHANGED <<paid, hidden>>

-----------------------------------------------------------------------------
(* MiningService.request_withdrawal: attempts until HashDam answers.       *)

(* Mutant: the payout is announced, and a webhook that raises takes it.    *)
Answered_Announced(w) ==
  /\ At(w, "call")
  /\ paid' = [paid EXCEPT ![session[w].r] = @ + 1]
  /\ \/ Continue(w, [session[w] EXCEPT !.step = "commit", !.acked = TRUE]) /\ UNCHANGED faults
     \/ RollBack(w) /\ Fault("alert")
  /\ UNCHANGED hidden

Answered(w) ==
  LET s == session[w] IN
  /\ At(w, "call")
  /\ Continue(w, [s EXCEPT !.step = "commit", !.acked = TRUE])
  /\ paid' = [paid EXCEPT ![s.r] = @ + 1]
  /\ UNCHANGED <<hidden, faults>>

(* Mutants: the receipt is written before HashDam answers; attempts are    *)
(* not counted.                                                            *)
Refused_Recorded(w) ==
  /\ At(w, "call")
  /\ Continue(w, [session[w] EXCEPT !.step = "alert", !.tries = @ + 1, !.acked = TRUE])
  /\ UNCHANGED outside

Refused_Uncounted(w) ==
  /\ At(w, "call")
  /\ Continue(w, [session[w] EXCEPT !.step = "alert"])
  /\ UNCHANGED outside

Refused(w) ==
  /\ At(w, "call")
  /\ Continue(w, [session[w] EXCEPT !.step = "alert", !.tries = @ + 1])
  /\ UNCHANGED outside

(* HashDam pays, the response does not arrive (timeout, unreadable body).  *)
AnswerLost(w) ==
  /\ At(w, "call")
  /\ Continue(w, [session[w] EXCEPT !.step = "alert", !.tries = @ + 1])
  /\ paid' = [paid EXCEPT ![session[w].r] = @ + 1]
  /\ hidden' = [hidden EXCEPT ![session[w].r] = @ + 1]
  /\ Fault("lost")

(* Mutant: one attempt too many.                                           *)
Alert_OneMore(w) ==
  /\ At(w, "alert")
  /\ Continue(w, [session[w] EXCEPT !.step = IF session[w].tries <= Attempts THEN "call" ELSE "fail"])
  /\ UNCHANGED outside

(* Every failed attempt is alerted; the last one, or one whose alert       *)
(* raises, gives up.                                                       *)
Alert(w) ==
  /\ At(w, "alert")
  /\ \/ Continue(w, [session[w] EXCEPT !.step = IF session[w].tries < Attempts THEN "call" ELSE "fail"])
        /\ UNCHANGED faults
     \/ Continue(w, [session[w] EXCEPT !.step = "fail"]) /\ Fault("alert")
  /\ UNCHANGED <<paid, hidden>>

(* Mutant: the failure is not logged.                                      *)
Fail_Unlogged(w) ==
  LET s == session[w] IN
  /\ At(w, "fail")
  /\ Continue(w, [s EXCEPT !.step = "commit", !.q = Closed(@, "failed"), !.row = GivenBack(@, s.q)])
  /\ UNCHANGED outside

(* approve_and_execute: fail_withdrawal, then an alert, then               *)
(* WithdrawalExecutionError, on which the scope commits.                   *)
Fail(w) ==
  LET s == session[w] IN
  /\ At(w, "fail")
  /\ Continue(w, [s EXCEPT !.step = "commit", !.q = Closed(@, "failed"),
                           !.row = GivenBack(@, s.q), !.log = <<Entry("failed", s.by, "failed")>>])
  /\ UNCHANGED outside

(* A webhook that raises replaces that error, and everything rolls back.   *)
FailUnalerted(w) ==
  /\ At(w, "fail")
  /\ RollBack(w)
  /\ Fault("alert")
  /\ UNCHANGED <<paid, hidden>>

-----------------------------------------------------------------------------
Commit(w) ==
  LET s == session[w] IN
  /\ At(w, "commit")
  /\ wallet' = [wallet EXCEPT ![s.q.owner] = IF s.op = "stage1" THEN @ ELSE s.row]
  /\ request' = [request EXCEPT ![s.r] = s.q]
  /\ route' = [route EXCEPT ![s.r] = IF s.op = "request" THEN s.pays ELSE @]
  /\ audit' = [audit EXCEPT ![s.r] = @ \o s.log]
  /\ devices' = [devices EXCEPT ![s.q.owner] = @ \cup s.seen]
  /\ events' = [events EXCEPT ![s.r] = @ \cup s.found]
  /\ receipts' = [receipts EXCEPT ![s.r] = IF s.acked THEN @ + 1 ELSE @]
  /\ session' = [session EXCEPT ![w] = Idle]
  /\ UNCHANGED outside

(* The process dies; so does its transaction.                              *)
Crash(w) ==
  /\ ~At(w, "idle")
  /\ RollBack(w)
  /\ Fault("crash")
  /\ hidden' = [r \in Requests |-> IF r = session[w].r /\ session[w].acked THEN hidden[r] + 1 ELSE hidden[r]]
  /\ UNCHANGED paid

-----------------------------------------------------------------------------
Call(w) ==
  \E r \in Requests :
    \/ \E u \in Users, a \in Amounts, how \in Routes, from \in Origins :
         BeginRequest(w, r, u, a, how, from)
    \/ \E by \in Actors : BeginStage1(w, r, by)
    \/ \E by \in Actors, named \in BOOLEAN : BeginFinal(w, r, by, named)
    \/ \E by \in Actors, s \in {"rejected", "cancelled"} : BeginClose(w, r, by, s)

Work(w) ==
  \/ ReadForFinal(w) \/ Update(w) \/ Flush(w)
  \/ Clear(w) \/ Flag(w) \/ Block(w) \/ ScreenUnalerted(w)
  \/ Answered(w) \/ Refused(w) \/ AnswerLost(w) \/ Alert(w)
  \/ Fail(w) \/ FailUnalerted(w)
  \/ Commit(w)

Next == \E w \in Workers : Call(w) \/ Work(w) \/ Crash(w)

(* A call that has begun goes on: its statements return, its HTTP requests  *)
(* time out, and the database queues those who wait for a row lock.         *)
Fairness == \A w \in Workers : WF_vars(Work(w)) /\ SF_vars(Flush(w))

Spec == Init /\ [][Next]_vars /\ Fairness

-----------------------------------------------------------------------------
Steps == {"idle", "read", "update", "flush"} \cup Flushed
Ops == {"none", "request", "stage1", "final", "close"}

(* Columns keep their types and no session works on a row of another type. *)
TypeOK ==
  /\ wallet \in [Users -> WalletRow]
  /\ request \in [Requests -> RequestRow]
  /\ route \in [Requests -> Routes]
  /\ devices \in [Users -> SUBSET Devices] /\ events \in [Requests -> SUBSET Finding]
  /\ \A f \in {receipts, paid, hidden} : f \in [Requests -> Nat]
  /\ \A w \in Workers :
       /\ session[w].step \in Steps /\ session[w].op \in Ops
       /\ session[w].q \in RequestRow /\ session[w].row \in WalletRow
       /\ session[w].tries \in 0 .. Attempts

Acked(r) == {w \in Workers : session[w].r = r /\ session[w].acked}

(* Every payout HashDam executed is in mining_withdrawals or about to be,   *)
(* but for those of that request whose answer was lost or died with its     *)
(* process: no error path of the workflow, raising alerts and their         *)
(* rollbacks included, forgets a confirmed payout.                          *)
UnrecordedPayoutsAreFaults ==
  \A r \in Requests : paid[r] = receipts[r] + Cardinality(Acked(r)) + hidden[r]

(* A request is recorded as paid out at most once, only while approved, and *)
(* always if its metadata names a coin: retries, re-approvals after a crash *)
(* and refunds do not leave a receipt for a refunded request.  An approved  *)
(* request ends in "failed" in the trail if and only if HashDam was to pay  *)
(* it and was never called.                                                 *)
ReceiptsMatchStatus ==
  \A r \in Requests :
    /\ receipts[r] \in {0, 1}
    /\ receipts[r] = 1 => request[r].status = "approved"
    /\ request[r].status = "approved" =>
         /\ route[r] = "coin" => receipts[r] = 1
         /\ Last(audit[r]).action = "failed" <=> route[r] = "coinless" /\ receipts[r] = 0

(* docs/planning/integration_strategy.md:65: a withdrawal goes through its *)
(* approvals in order and never back.  One process keeps that order.       *)
Forward == {<<"none", "pending">>, <<"none", "cancelled">>,
            <<"pending", "approved_pending">>, <<"pending", "rejected">>, <<"pending", "cancelled">>,
            <<"approved_pending", "approved">>, <<"approved_pending", "failed">>}

ApprovalsGoForward ==
  [][\A r \in Requests : request'[r].status # request[r].status =>
       <<request[r].status, request'[r].status>> \in Forward]_vars

(* The audit trail tells the request's history: its last entry has the     *)
(* status of the request, whatever was flagged, failed or rolled back.     *)
TrailEndsInStatus ==
  \A r \in Requests :
    IF request[r].status = "none" THEN audit[r] = <<>>
    ELSE audit[r] # <<>> /\ Last(audit[r]).status = request[r].status

(* In the trail, every final approval, also one whose payment failed,      *)
(* follows a first approval by somebody else.  One process keeps that; two *)
(* do not.                                                                 *)
TrailShowsTwoPeople ==
  \A r \in Requests : \A i \in DOMAIN audit[r] :
    audit[r][i].action \in {"approved", "failed"} =>
      \E j \in 1 .. i - 1 :
        audit[r][j].action = "approved_stage1" /\ audit[r][j].actor # audit[r][i].actor

(* However stale what a process writes back: nothing is finally approved    *)
(* before a first approval, and nothing is paid that no first approval of   *)
(* the trail stands for.                                                   *)
NothingSkipsFirstApproval ==
  \A r \in Requests :
    /\ \A i \in DOMAIN audit[r] :
         audit[r][i].action \in {"approved", "failed"} =>
           \E j \in 1 .. i - 1 : audit[r][j].action = "approved_stage1"
    /\ paid[r] > 0 => \E i \in DOMAIN audit[r] : audit[r][i].action = "approved_stage1"

(* What the risk service found is on record with what was decided: a       *)
(* request with a block event was cancelled and never approved or paid, and *)
(* the trail flags exactly those with review events only.                  *)
RiskOnRecord ==
  \A r \in Requests :
    /\ Blocked(events[r]) => request[r].status = "cancelled" /\ paid[r] = 0
    /\ (RequiresReview(events[r]) /\ ~Blocked(events[r]))
         = \E i \in DOMAIN audit[r] : audit[r][i].action = "flagged"

(* Where every request is worth a review, each device a user is known by    *)
(* was introduced by one request on record with the event of it: requests   *)
(* that were rolled back teach nothing, and no device comes in unseen.      *)
DevicesIntroduced ==
  (\A a \in Amounts : a >= ReviewLimit) =>
    \A u \in Users :
      Cardinality(devices[u]) =
        Cardinality({r \in Requests : request[r].owner = u
                                       /\ Found("device_novelty", "review") \subseteq events[r]})

Account == INSTANCE FundsAccount WITH
  funds <- [u \in Users |-> wallet[u].balance - Funds],
  phase <- [r \in Requests |-> phaseOf(request[r].status)],
  stake <- [r \in Requests |-> request[r].amount],
  holder <- [r \in Requests |-> request[r].owner]

(* What commits, payment failures and risk decisions included, is what the *)
(* account promises: a request's points leave at most once and come back   *)
(* only whole.                                                             *)
ImplementsFundsAccount == Account!Spec

(* No call hangs: retries end, and whoever waits for a row lock gets it.   *)
SessionsEnd == \A w \in Workers : ~At(w, "idle") ~> At(w, "idle")
=============================================================================
