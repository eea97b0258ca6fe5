--------------------------- MODULE ProviderServices ---------------------------
(***************************************************************************)
(* WalletService (MBLOCK, core/wallet_service.py) and MiningService         *)
(* (HashDam, core/mining_service.py) in scopes of their own                *)
(* (wallet_service_scope, mining_service_scope): one database session in   *)
(* which a caller makes any number of calls and that commits when the       *)
(* caller leaves it.  What a provider has done stays done; the rows that    *)
(* say so live and die with the session.  No call carries an idempotency    *)
(* key, so a provider executes every attempt that reaches it.               *)
(***************************************************************************)
EXTENDS Integers, FiniteSets

CONSTANTS Workers,
          Calls,     \* identifies a call whose effect or row may outlive it
          Kinds,     \* a subset of AllKinds
          Users,     \* whose hash balance is read
          LongCoins, \* transfers and transits whose coin is too long for wallet_transactions.coin
          Nothing,   \* no call, no user
          Attempts,  \* RetryConfig.attempts
          Faults,    \* which of "lost", "crash", "alert" can go wrong
          MaxFaults  \* bound of the model: how many times something goes wrong

AllKinds == {"wallet", "transfer", "transit", "withdrawal"}

ASSUME ProviderAssumption ==
  /\ Nothing \notin Calls \cup Users
  /\ Kinds \subseteq AllKinds
  /\ LongCoins \subseteq Calls
  /\ Attempts \in Nat \ {0}

VARIABLES row,       \* committed wallets, wallet_transactions, mining_withdrawals rows: the status
          balances,  \* users with a committed mining_balances row
          executed,  \* how often its provider has executed a call
          company,   \* calls that shared their scope with anything else that can fail
          scope,     \* the session and the call each worker is in
          faults     \* bound of the model

vars == <<row, balances, executed, company, scope, faults>>

Services == {"mblock", "hashdam"}
Service(kind) == IF kind = "withdrawal" THEN "hashdam" ELSE "mblock"

(* A wallets row has no status: it is there or not.                        *)
Done(kind) == CASE kind = "wallet" -> "stored" [] kind = "transit" -> "pending-transit" [] OTHER -> "submitted"
Failed(kind) == IF kind = "transit" THEN "failed-transit" ELSE "failed"
DoneStatus == {Done(k) : k \in AllKinds}
FailedStatus == {Failed(k) : k \in AllKinds}

NoRows == [c \in Calls |-> "none"]

(* rows: what the session will write; inserts: first balances it will add. *)
Idle == [step |-> "idle", service |-> "mblock", rows |-> NoRows, inserts |-> {}, reads |-> Nothing,
         call |-> Nothing, kind |-> "wallet", tries |-> 0]

Init ==
  /\ row = NoRows
  /\ balances = {}
  /\ executed = [c \in Calls |-> 0]
  /\ company = {}
  /\ scope = [w \in Workers |-> Idle]
  /\ faults = [k \in {"lost", "crash", "alert"} |-> 0]

At(w, step) == scope[w].step = step
Continue(w, s) == scope' = [scope EXCEPT ![w] = s] /\ UNCHANGED <<row, balances>>
Fault(kind) ==
  /\ kind \in Faults
  /\ faults["lost"] + faults["crash"] + faults["alert"] < MaxFaults
  /\ faults' = [faults EXCEPT ![kind] = @ + 1]
Executes(w) == executed' = [executed EXCEPT ![scope[w].call] = @ + 1]
Logged(s, status) == [s EXCEPT !.rows[s.call] = status]

Returned(s) == [s EXCEPT !.step = "open", !.call = Nothing, !.kind = "wallet", !.tries = 0]

Used(s) == {c \in Calls : s.rows[c] # "none"}

(* wallet_transactions.coin has 32 characters.  A transit logs the address  *)
(* of its contract there, which has 42, and a transfer what its caller     *)
(* names.  PostgreSQL refuses the row, done or failed, when it is flushed.  *)
Unstorable(s) == Used(s) \cap LongCoins # {}

Unused(c) ==
  /\ row[c] = "none" /\ executed[c] = 0
  /\ \A w \in Workers : scope[w].call # c /\ scope[w].rows[c] = "none"

-----------------------------------------------------------------------------
Open(w, service) ==
  /\ At(w, "idle")
  /\ Continue(w, [Idle EXCEPT !.step = "open", !.service = service])
  /\ UNCHANGED <<executed, company, faults>>

Begin(w, c, kind) ==
  LET s == scope[w] IN
  /\ At(w, "open") /\ s.service = Service(kind) /\ Unused(c)
  /\ c \in LongCoins => kind \in {"transfer", "transit"}
  /\ Continue(w, [s EXCEPT !.step = "call", !.call = c, !.kind = kind, !.tries = 0])
  /\ company' = IF Used(s) = {} /\ s.reads = Nothing THEN company ELSE company \cup Used(s) \cup {c}
  /\ UNCHANGED <<executed, faults>>

(* MiningService.get_balance: upsert_balance finds a committed row or adds *)
(* one, which reaches the database at the commit.  A scope reads at most   *)
(* one balance (bound of the model).                                       *)
GetBalance(w, u) ==
  LET s == scope[w] IN
  /\ At(w, "open") /\ s.service = "hashdam" /\ s.reads = Nothing
  /\ Continue(w, [s EXCEPT !.reads = u, !.inserts = {u} \ balances])
  /\ company' = company \cup Used(s)
  /\ UNCHANGED <<executed, faults>>

(* Neither service stores anything of a balance it does not get, and       *)
(* WalletService.get_balance never does.  The caller's own code may raise   *)
(* in the scope as well.                                                   *)
OtherFails(w) ==
  /\ At(w, "open")
  /\ Continue(w, [scope[w] EXCEPT !.step = "raised"])
  /\ company' = company \cup Used(scope[w])
  /\ UNCHANGED <<executed, faults>>

-----------------------------------------------------------------------------
(* Mutants: the answer's row is left out; an answer is taken for a failure. *)
Answered_Unlogged(w) ==
  /\ At(w, "call")
  /\ Continue(w, Returned(scope[w]))
  /\ Executes(w)
  /\ UNCHANGED <<company, faults>>

Answered_Misread(w) ==
  /\ At(w, "call")
  /\ Continue(w, [scope[w] EXCEPT !.step = "alert", !.tries = @ + 1])
  /\ Executes(w)
  /\ UNCHANGED <<company, faults>>

(* save_wallet flushes the session, what it cannot store included; the     *)
(* other rows wait for the commit.                                         *)
Stored(s) ==
  IF s.kind = "wallet" /\ Unstorable(s)
  THEN [Returned(s) EXCEPT !.step = "raised"]
  ELSE Returned(Logged(s, Done(s.kind)))

Answered(w) ==
  /\ At(w, "call")
  /\ Continue(w, Stored(scope[w]))
  /\ Executes(w)
  /\ UNCHANGED <<company, faults>>

(* A new wallet is asked for once and its failure is not logged.           *)
AfterFailure(s) ==
  IF s.kind = "wallet" THEN [s EXCEPT !.step = "raised"] ELSE [s EXCEPT !.step = "alert", !.tries = @ + 1]

Refused(w) ==
  /\ At(w, "call")
  /\ Continue(w, AfterFailure(scope[w]))
  /\ UNCHANGED <<executed, company, faults>>

(* The provider executes the call and the answer does not arrive, or is    *)
(* one that _validate_result does not take.                                *)
AnswerLost(w) ==
  /\ At(w, "call")
  /\ Continue(w, AfterFailure(scope[w]))
  /\ Executes(w)
  /\ Fault("lost")
  /\ UNCHANGED company

(* Mutant: the last attempt is not the last.                               *)
Alert_OneMore(w) ==
  /\ At(w, "alert")
  /\ Continue(w, [scope[w] EXCEPT !.step = IF scope[w].tries <= Attempts THEN "call" ELSE "fail"])
  /\ UNCHANGED <<executed, company, faults>>

(* Mutant: attempts go on for ever.                                        *)
Alert_Always(w) ==
  /\ At(w, "alert")
  /\ Continue(w, [scope[w] EXCEPT !.step = "call", !.tries = 0])
  /\ UNCHANGED <<executed, company, faults>>

(* retry() with _notify_failure: an alert that raises ends the attempts.   *)
Alert(w) ==
  /\ At(w, "alert")
  /\ \/ Continue(w, [scope[w] EXCEPT !.step = IF scope[w].tries < Attempts THEN "call" ELSE "fail"])
        /\ UNCHANGED faults
     \/ Continue(w, [scope[w] EXCEPT !.step = "fail"]) /\ Fault("alert")
  /\ UNCHANGED <<executed, company>>

(* The failure is logged in the session and raised.                        *)
Fail(w) ==
  LET s == scope[w] IN
  /\ At(w, "fail")
  /\ Continue(w, [Logged(s, Failed(s.kind)) EXCEPT !.step = "raised"])
  /\ UNCHANGED <<executed, company, faults>>

(* The caller handles the error inside the scope and goes on, or the error  *)
(* leaves the scope and rolls everything in it back.                       *)
Handle(w) ==
  /\ At(w, "raised")
  /\ Continue(w, Returned(scope[w]))
  /\ UNCHANGED <<executed, company, faults>>

RollBack(w) ==
  /\ At(w, "raised")
  /\ Continue(w, Idle)
  /\ UNCHANGED <<executed, company, faults>>

-----------------------------------------------------------------------------
(* Leaving the scope commits.  mining_balances.user_id is unique: of two   *)
(* scopes that each add a user's first balance, the later is rolled back.  *)
(* wallets.address is unique too; MBLOCK issues every address once.        *)
Commit(w) ==
  LET s == scope[w] IN
  /\ At(w, "open") /\ s.inserts \cap balances = {} /\ ~Unstorable(s)
  /\ row' = [c \in Calls |-> IF c \in Used(s) THEN s.rows[c] ELSE row[c]]
  /\ balances' = balances \cup s.inserts
  /\ scope' = [scope EXCEPT ![w] = Idle]
  /\ UNCHANGED <<executed, company, faults>>

Collide(w) ==
  /\ At(w, "open") /\ scope[w].inserts \cap balances # {}
  /\ Continue(w, Idle)
  /\ UNCHANGED <<executed, company, faults>>

(* A row the database does not take, found now or by an earlier flush,     *)
(* takes the whole scope with it.                                          *)
CommitRefused(w) ==
  /\ At(w, "open") /\ Unstorable(scope[w])
  /\ Continue(w, Idle)
  /\ UNCHANGED <<executed, company, faults>>

(* The process dies, or loses the database before the commit.              *)
Crash(w) ==
  /\ ~At(w, "idle")
  /\ Continue(w, Idle)
  /\ Fault("crash")
  /\ UNCHANGED <<executed, company>>

-----------------------------------------------------------------------------
Caller(w) ==
  \/ \E service \in Services : Open(w, service)
  \/ \E c \in Calls, kind \in Kinds : Begin(w, c, kind)
  \/ \E u \in Users : GetBalance(w, u)
  \/ OtherFails(w)
  \/ Commit(w) \/ Collide(w) \/ CommitRefused(w)

Work(w) ==
  \/ Answered(w) \/ Refused(w) \/ AnswerLost(w) \/ Alert(w) \/ Fail(w)
  \/ Handle(w) \/ RollBack(w)

Next == \E w \in Workers : Caller(w) \/ Work(w) \/ Crash(w)

(* HTTP requests time out after 10 seconds, sleeps end, errors propagate.   *)
(* When a caller makes its calls and leaves the scope is its own affair.   *)
Spec == Init /\ [][Next]_vars /\ \A w \in Workers : WF_vars(Work(w))

-----------------------------------------------------------------------------
Steps == {"idle", "open", "call", "alert", "fail", "raised"}
Status == {"none"} \cup DoneStatus \cup FailedStatus

(* Rows keep their statuses, and no call is attempted more often than the  *)
(* retry configuration says.                                               *)
TypeOK ==
  /\ row \in [Calls -> Status] /\ balances \subseteq Users
  /\ executed \in [Calls -> Nat] /\ company \subseteq Calls
  /\ \A w \in Workers :
       /\ scope[w].step \in Steps /\ scope[w].service \in Services
       /\ scope[w].rows \in [Calls -> Status] /\ scope[w].inserts \subseteq Users
       /\ scope[w].kind \in AllKinds /\ scope[w].tries \in 0 .. Attempts

Recorded(c) == row[c] \in DoneStatus \/ \E w \in Workers : scope[w].rows[c] \in DoneStatus

(* What a provider executed for a call, a wallet it issued included, is on *)
(* record or about to be, but for lost answers, dead processes, coins too   *)
(* long for their column, and calls whose scope was used for something     *)
(* else too: the failure of the other, of a first balance at the commit or *)
(* of another's row, takes their rows with it.                             *)
OnlyCompanyLosesRows ==
  \A c \in Calls :
    executed[c] - (IF Recorded(c) THEN 1 ELSE 0)
      \in 0 .. faults["lost"] + faults["crash"] + (IF c \in company \cup LongCoins THEN 1 ELSE 0)

(* A row tells what happened at the provider: without lost answers a done  *)
(* row stands for one execution and a failed row for none, however many     *)
(* attempts, alerts and other scopes there were.                           *)
RowsTellOutcomes ==
  \A c \in Calls :
    LET least == IF row[c] \in DoneStatus THEN 1 ELSE 0
        most == IF row[c] \in FailedStatus THEN 0 ELSE 1 IN
    executed[c] \in least .. most + faults["lost"]

(* A call returns or raises, whatever the provider and the webhook do.     *)
CallsReturn == \A w \in Workers : scope[w].step \in {"call", "alert", "fail", "raised"} ~> scope[w].step \in {"open", "idle"}
=============================================================================
