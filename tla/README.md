# AEGHASH in TLA+

Models of the AEGHASH backend (Python, FastAPI over SQLAlchemy): what its services promise about
points, withdrawals, bonuses, orders and the organization trees, checked with TLC on small
instances, and what of it is safety proved with TLAPS for all of them. Paths without a directory
are below `src/src/aeghash/`.

## The system

One process serves HTTP (`api/http.py`). Its handlers are `async def` and call synchronous code, so
**a process runs one call at a time**; what is concurrent are processes of the API, the bonus jobs,
and operators at the database. A call opens one database session (`infrastructure/session.py`):
it commits when the call returns and rolls back when it raises. Rows have no version and reads
take no lock, so what keeps two sessions apart is only the unique indexes and the row locks a
flush takes (the database is PostgreSQL, `docs/planning/database_strategy.md:8`).

| Component | State | Operations | What is hard | What makes it correct |
|---|---|---|---|---|
| Point wallets (`core/point_wallet.py`) | `point_wallets`, `point_withdrawals`, `point_ledger` | credit, debit, request, first and final approval, fail, reject, cancel | long sequences of calls each legal alone | balance, holds and ledger account for one another; a request's points leave once and come back whole |
| Withdrawal workflow (`core/withdrawal_workflow.py`) | the above, `withdrawal_audit_logs` | request, approve (twice), reject, cancel | two processes on one request, a stale read written back, errors that commit and errors that roll back | a first approval comes before the final one, and by another name; the trail tells the history; approvals go forward |
| HashDam payment (`core/mining_workflow.py`, `core/mining_service.py`, `adapters/hashdam.py`) | `mining_withdrawals`, payouts at HashDam | pay with retries, alert, refund | lost answers, alerts that raise, a crash between payment and commit | a receipt for each confirmed payout, none for a refunded request |
| Risk rules (`security/risk.py`) | `risk_events`, `risk_known_devices` | evaluate_withdrawal | its exception rolls back what it recorded; a device is learnt before the decision | what was found is on record with what was decided; no device becomes known unseen |
| Inbound orders (`core/commerce_service.py`) | `idempotency_keys`, `commerce_orders` | process_order | repeated keys, two processes on one key, retries inside one session | a key is processed once |
| Bonus pipeline (`core/bonus_pipeline.py`, `core/bonus.py`) | `bonus_transactions` | process_order | a retry starts over with the rows of the attempt that failed | every level once |
| Bonus closing and retry (`core/bonus_closing.py`, `core/bonus_retry.py`) | `bonus_transactions`, `bonus_retry_queue`, wallets | run_closing, process | overlapping jobs; the wallet is credited outside the transaction | a bonus is credited once or given up, and always one of the two |
| Organization (`core/organization.py`) | `organization_nodes`, `organization_closure`, `binary_slots`, spillover log | create_root, add_member | two searches find one slot | one forest told by four tables |
| Login, OAuth, sessions, sign-up, two-factor (`core/login_service.py`, `core/auth_flow.py`, `core/auth_service.py`, `core/signup_service.py`, `core/two_factor.py`, `infrastructure/audit.py`, three of `src/scripts`) | `user_accounts`, `user_identities`, `auth_sessions`, `two_factor_secrets`, `login_audit_logs` | login, callback, register, enable, verify, disable, seed, change roles | audits that commit apart from what they are about, a unique address, scripts that write the rows a request has read | accounts and identities in pairs; a session has an authentication in the log; who disabled a second factor is in the log |
| MBLOCK wallets and mining balances (`core/wallet_service.py`, `core/mining_service.py`, `adapters/mblock.py`) | `wallets`, `wallet_transactions`, `mining_withdrawals`, `mining_balances`, what the providers did | create_wallet, transfer_token, request_transit, get_balance, request_withdrawal | many calls in one session: what a provider did stays, its row may roll back with another call | a row tells what the provider did; only faults and company lose rows; calls return |
| Organization KPI and access (`api/kpi.py`, `security/access.py`, `security/permissions.py`) | reads `organization_metrics_daily` and the closure | get_summary | scopes with a tree, without one, of another one | exactly the entitled read |
| Carts, Turnstile, masking, settings, QA page, in-memory repositories, the other scripts, migrations, the frontend examples | - | - | pure functions, one HTTP call, or presentation | not modelled |

They interact by shared tables and by calls. The workflow calls the wallet service, the audit
repository, the risk service and, at the final approval, the HashDam orchestrator, which calls the
wallet service again. An order writes bonus rows for the ancestors that the organization tables
name; the closing and retry jobs take those rows from there to the wallets.

## Modules

`PointWalletRows` - pure operators: the guard of every operation of `PointWalletService` and the
row it writes. `CanX` are the checks that raise; `Held`, `Settled`, `GivenBack`, `Stage1Marked`...
are the rows. Both modules below are built from it.

`PointWallet` - one atomic action for each operation. `ledger` holds the totals per entry type.
An operator suspends and reactivates wallets (the service reads the column and never writes it).

`FundsAccount` - the abstract specification: deposits, spending, and requests that are opened,
settled once, returned or refunded whole. No holds, approvals or tables. `PointWallet` and
`WithdrawalWorkflow` both implement it (`Account == INSTANCE FundsAccount WITH ...`).

`WithdrawalWorkflow` - the same operations inside sessions. A worker is a process, `session[w]` the
call it is in, with the rows it computed; the tables change only in `Commit`. The steps of a call
follow the code: read (`Begin...`, `ReadForFinal`), query again and assign columns (`Update`), send
the columns that differ under row locks (`Flush`), screening (`Clear`, `Flag`, `Block`, `ScreenUnalerted`), attempts at HashDam
(`Answered`, `Refused`, `AnswerLost`, `Alert`), refund (`Fail`), `Commit`. `RollBack` is an exception
other than `WithdrawalExecutionError`, on which alone `withdrawal_workflow_scope` commits. `BeginFinal` is
the first read of a final approval, which compares approvers only if it finds `approved_pending` and refuses only
`pending`; `ReadForFinal` is the second, in `approve_withdrawal`, which decides. `hidden` is a history variable: the
payouts of a request whose answer was lost or whose process died. A person is a name: the API takes the approver from the body of the
request (`api/http.py:301`), so that "two people" says two names.

`WithdrawalRisk` - pure operators: what the three rules of `RiskService` find in a request from an address and
a device, and which new devices they store. `WithdrawalWorkflow` extends it: `found` and `seen` of a session
become `events` and `devices` in `Commit`. `Block` cancels the request in its session and raises; the scope
then rolls back, unless the caller keeps the session, as `src/tests/integration/test_withdrawal_workflow.py`
does: both are in the action.
`withdrawal_workflow_scope` itself gives the workflow no risk service; requests from the `Plain` origin below
`WarnLimit` are that case.

`ProviderServices` - `WalletService` and `MiningService` in `wallet_service_scope` and `mining_service_scope`. A scope is
one session with any number of calls; `scope[w].rows` are the rows it will write at its `Commit`, `executed` counts
what a provider did for a call and never goes back. `company` remembers which calls shared their scope with something
else that can fail (another call, a balance, the caller's own code). `LongCoins` are the transits, and transfers whose caller names such
a coin, whose row PostgreSQL refuses: a transit logs the address of its contract, 42 characters, in `wallet_transactions.coin`
of 32 (`infrastructure/repositories.py:70`, `core/wallet_service.py:165,175`). `CommitRefused` is the end of their scope; SQLite,
which the tests use, stores them. `wallets.address` is unique as well; that MBLOCK issues each address once is assumed. The two services have the same retry loop
and alerts (`Refused`, `AnswerLost`, `Alert`, `Fail`); creating a wallet has neither. A caller catches an
error in the scope (`Handle`) or lets it out (`RollBack`).

`OrganizationKpi` - extends `Organization` with the question `MayRead`: base permission, global permission, scopes, or the
reader's own node, over the closure rows of the moment.

`BonusPayout` - the abstract specification of settling: a bonus is owed until it is paid or waived, money
moves only while it is owed and before it is paid, and nothing is owed for ever. It does not promise
that money moves once: the code does not (`CreditsAccounted` says by how much it can be off).
`Safety` is the specification without its liveness. `BonusSettlement` implements it.

`BonusSettlement` - one run of a job is one transaction that works on a copy of the rows and commits
the ones it handled; `credited` counts credits of wallets, which do not roll back.

`AegmallOrders` - an order's session: key, order and bonus rows it added, attempts of the pipeline,
and the flush before each query, where unique indexes make it fail or wait.

`Organization` - a call of `add_member` has its queue in `session[w]`. Every `list_children` of the search is a step
of its own that reads what is committed by then (`LocateBinarySlot`: `SearchOn` or `TakeSlot`), and the insert is
another (`AddMember`), so that other members are placed between any two. A node is named by its user,
which is unique in a tree.

`Accounts` - the rows of sign-up, login and the second factor, and in `job[p]` the database session a
process or script is in. `Begin...` is what a session reads and decides, `Commit...` what it writes.
`PasswordLoginService` logs in its own session (`LoginOutcome` is all of it), `AuthService` and
`TwoFactorService` through `LoginAuditLogger`, which commits in another: the callback has the steps
`BeginCallback`, `Exchanged` or `ExchangeFails`, `LookUp`, `OpenSession`; disabling has `BeginDisable`,
`EmitDisabled`, `CommitDisable`. `Saved` writes the columns that differ from what the session read,
which is what SQLAlchemy sends. Sessions and audit entries are bags, as equal ones count: `With` and `Without` add
and remove a copy, and properties count copies as the elements of a set (`CopiesOf`).
A crash may fall between any two of these commits.

`PointWalletProofs`, `WithdrawalWorkflowProofs` (any number of processes), `WithdrawalSoloProofs` (one process),
`BonusSettlementProofs`, `AegmallOrdersProofs`, `OrganizationProofs` (with the KPI readers), `AccountsProofs`,
`ProviderServicesProofs` - the theorems about the module each extends.

Abstractions that matter: amounts are small integers (the code adds, subtracts and compares
`Decimal`); row locks of a wallet and a request are taken together; bonus amounts are left out,
a level stands for its bonus; of a user's roles only admin is kept, a TOTP code names the secret it
belongs to, a password is right or wrong; ids are unique unless `IdsRestart`; time is a flag `due`. Definitions
named `X_Something` after a definition `X` are mutants of it, used to see that each property can fail.

## What is checked

| Run | Instance | Shows |
|---|---|---|
| `points` | 2 owners, 3 requests, amounts -1, 1, 2, at most 3 points credited to a wallet | every property of `PointWallet`, also in states where several withdrawals failed after approval |
| `withdrawals` | 1 process, 2 requests of 1 to 3 points on one wallet of 3, limits 1 (device), 2 (review) and 3 (block), 4 origins, 1 device, 2 approvers, 2 attempts, 2 faults | status, receipts, trail, risk tables and points agree after every commit; the trail shows two people; the refinement of `FundsAccount` |
| `withdrawals_two_processes` | 2 processes, 1 request, 1 fault | a first approval precedes every final one and every payout, every call ends |
| `bonus_settlement` | 3 bonuses, limit 2, 3 tries, 1 crash or lost answer | entries and queue agree, credits are accounted for; the refinement of `BonusPayout`, with its liveness: every recorded bonus is settled |
| `orders` | 2 processes, 3 requests from 5 payloads (a key with two payloads, an order with two keys, buyers missing from a tree), 3 attempts, 1 fault | one session for each key, complete bonuses, every request ends |
| `organization` | 2 processes, 5 members, binary tree, depth at most 2 | paths, closure, slots and spillover log describe one forest, taken slots included; until a slot is taken twice a search ends in the first open slot; KPI readers with no or one scope see exactly their part of the forest |
| `accounts` | 2 users, 1 address, 1 provider with 1 subject, 1 API process, 1 script, 3 audit entries before the last request, 2 secrets | accounts have identities, sessions and disabled factors are in the log, outcomes follow starts, codes go with their secret |
| `provider_services` | 2 processes, a call of 3 kinds (wallet, transit, withdrawal) and a transit with a long coin, 1 user's balance, 2 attempts, 1 fault | which executed calls end up without a row, rows tell outcomes, every call returns |

The instances are the smallest with the interesting cases: three requests let one request's failure
take the hold of another while a third is opened; a limit below the number of bonuses leaves some
behind; five members fill two levels and spill over into a third, while the other process searches there. More of anything adds symmetric states.
In `accounts` one process and one script suffice for every race of the two, as every row is written by
one or both; one address with two users races a sign-up against the seeding of its local identity.
Two addresses, and more processes, are covered by the proofs.
In `withdrawals` every limit has an amount on either side and two rules can disagree on one request; two
requests of one device tell whether the first taught it. In `provider_services` two calls are enough for one to
take the other's row along, in one scope, and for two scopes to collide on a first balance; a transfer differs
from a transit in the names of its statuses. A second fault (tried while modelling) shows nothing new
and takes three minutes.
In the unilevel tree the parent is the sponsor, and no search precedes the insert; the binary tree
exercises the rest, and the proofs are about both.
`CHECK_DEADLOCK FALSE` stands where everything may be done: all requests closed, all bonuses
settled, all members placed, all calls made. `points` never stops, as wallets can always be suspended, nor does `accounts`, as a login can always
be refused.

Bounds: one balance for each scope of `ProviderServices`, `MaxCredit`, `MaxFaults`, `MaxRequests`, `MaxDepth`, `MaxAudits`, `MaxSecrets` appear in guards and say so where they
are declared.

Four runs end in a violation, each of one sentence in the repository (see `findings` in
`PROJECT.json`):

| Run | Property | In short |
|---|---|---|
| `double_release` | `PendingRequestsReleasable` | failing an approved request takes another request's hold |
| `one_approver` | `TrailShowsTwoPeople` | holds with one process; with two, the approvers are compared on a read that finds the request rejected, and the approval follows from a later one that finds a stale first approval by the same person |
| `order_retry` | `OneBonusPerLevel` | attempts of the pipeline add up, with the default ids that restart |
| `slot_race` | `SlotTakenOnce` | two searches, one slot |

What the passing properties say carefully, because the plain statement is false: a receipt may be
missing for a payout whose answer was lost or that a crash hid (`UnrecordedPayoutsAreFaults`, of the same
request, and for no other reason); a bonus may be credited once more for each crash or lost answer
(`CreditsAccounted`); holds fall short by withdrawals failed after approval
(`PendingTracksOpenRequests`); an executed call without a row takes a lost answer, a crash, company or a coin too long for its
column (`OnlyCompanyLosesRows`). With two processes `TrailShowsTwoPeople`, `ApprovalsGoForward`, `ReceiptsMatchStatus` and the
refinement do not hold: one session writes back the status that another has moved on from, as
the trace of `one_approver` shows. The run `withdrawals_two_processes` checks what survives.

Where the documents say something else and no run is spent on it, the models follow the code:

- An alert that raises replaces `WithdrawalExecutionError` (`core/mining_workflow.py:74`), so the failed
  status it reports rolls back (`FailUnalerted`), though `docs/planning/integration_strategy.md:62` says it is
  recorded.
- An inbound order that keeps failing leaves no key: `AegmallOrderService` marks it FAILED in the session that its
  exception rolls back (`Raise`), though `docs/planning/integration_strategy.md:63` says it is kept as FAILED. The
  default bonus ids restart at 1 in every pipeline (`core/bonus_pipeline.py:227`), so that with them (`IdsRestart`) every
  order after the first fails this way; `orders` checks factories whose ids are unique.
- A key reused with another payload raises before anything is written (`Begin`, `Accepted`), and the key stays as it is, though
  `docs/planning/integration_strategy.md:61` says the conflict is recorded on it as FAILED_CONFLICT. `OneSessionPerKey` and
  `KeysAndOrdersAgree` hold of either (`HasProcessed`).
- A bonus is given up at its `max_retries`-th failure (`HandleFailure`, `core/bonus_retry.py:96`), though
  `docs/planning/organization_bonus_design.md:152` says after more than five. `QueueFollowsEntry` asks only that it is not given up
  earlier; that no count exceeds `MaxRetries` is part of `TypeOK`.
- The `failed` row of a transfer or withdrawal is written in the scope whose error rolls it back (`Fail`, `RollBack`):
  it stays only where the caller catches the error inside. `docs/planning/retry_notification_strategy.md:11` and
  `docs/planning/database_strategy.md:43` say that failures are recorded.
- A request that the risk rules block leaves no cancellation, event or device when the exception leaves the scope
  (`Block`), though `docs/planning/integration_strategy.md:71` says the cancellation is logged.
- A refused password login leaves neither `STARTED` nor `FAILED` in the log: both are in the session that the
  `LoginError` rolls back (`EndLogin`). `src/README.md:39` lists both as recorded.
- `register` sets the local identity's `two_factor_enabled` to false and nothing sets it afterwards, so
  password login never asks a signed-up user for a code (`AccountsHaveIdentities` has this as a conjunct);
  `src/README.md:40` says it does.
- `scripts/enable_two_factor.py` builds its service without an event hook, so that enabling leaves no entry;
  `docs/planning/two_factor_policy.md:35` asks for one for every change.
- A script that enables a factor while a request disables it may end with the row disabled and the
  script's secret and codes in it.

## Fairness

`WithdrawalWorkflow` and `AegmallOrders`: a call that has begun goes on (weak fairness of its steps:
statements return and HTTP requests time out), and who waits for a row lock or an index entry gets
it in the end (strong fairness of the waiting steps: the database queues waiters). Nothing
says that calls begin, or that HashDam accepts. `ProviderServices`: the same weak fairness of a call's steps,
and of handling its error; when callers make calls or leave their scope is their affair. `BonusSettlement`: a scheduler keeps starting both jobs
(`docs/planning/organization_bonus_design.md:147-152`), a run goes on, and `retry_after` passes. It
is the environment's fairness: no scheduler is in the repository. Two runs of the same job do not
overlap in the model; nothing in the code prevents it, and `CreditsAccounted` needs it.

## What is proved

Every safety property a passing run checks is a theorem, for all values of the constants that the
named assumptions of the modules allow, with the exceptions listed at the end of this section. The bounds
of the models (`MaxCredit`, `MaxFaults`, `MaxDepth`...) stay constants of the theorems; they may be as large as one likes.
No property is inductive alone. Each proof names an invariant (`IInv`, in `AccountsProofs` `Inv`) that is,
and TLC has checked each on its run's instance (for `Ancestry`, which quantifies over everything, the equivalent
`ClosureIsAncestry`).

**`PointWalletProofs`**, for every finite set of requests (`RequestsAssumption`) and all integer amounts
(`AmountsAssumption`): types, the four money invariants, and `Refinement`: `Spec => ImplementsFundsAccount`.
`PendingTracksOpenRequests` bounds `pending` from two sides and needs that every open request is of a wallet
that exists and has a positive amount (`RowsWellFormed`); `OpenRequestsCovered` needs the first and that refunds
stay with requests marked as approved. `IInv` is `TypeOK`, `RowsWellFormed` and `Money(u)` for each user, which relates
a wallet row and its ledger to four sums over its requests. Sums are cardinalities (`PointsOf` counts points one by
one), so that no recursion over data is needed: `SumSplit` and `SumChange` say what one changed request does to a
sum, the `Balanced...` lemmas what each operation does to numbers in balance, `MoneyStep` puts one of each
together for every action.

**`WithdrawalWorkflowProofs`**, for any number of processes (`WorkflowAssumption`, `OriginsAssumption`,
`RiskAssumption`): types, `UnrecordedPayoutsAreFaults`, and `NothingSkipsFirstApproval`. Sessions write back rows that are stale, so the types need
to know what a stale row can be: `Sound(session[w])` says what each step holds, `Private` that a request being
opened is in no other session. `PayoutsCounted` counts payouts on record, those acknowledged to a session that has not
committed yet, and those hidden by faults. `FirstApprovals` says that a request past `pending` has a first approval in
its trail, and of every session (`Traced`) that it would write no status past it without one, be it stale.

**`WithdrawalSoloProofs`**, under the hypothesis `Alone` (no two processes), which every theorem states since
the properties fail without it: `TrailEndsInStatus`, `TrailShowsTwoPeople`, `ReceiptsMatchStatus`, `RiskOnRecord`,
`DevicesIntroduced`, the action property `ApprovalsGoForward`, and the refinement of `FundsAccount`. `Solo` says of the
session what it is about to commit (`AsksFor`, `Marks`, `Closes`, `Finishes`, one for each operation) against
the rows as they are now, which nobody else can have changed since; and of each request what its
status, approver, trail, receipts and risk events say of one another (`Recorded`). Only `Commit` changes tables
(`OnlyCommits`), so each property is a matter of one lemma for each operation's commit. What the listed devices count
(`Introduced`) is a sum of its own, over the requests whose events name a new device.

**`BonusSettlementProofs`** (`MaxRetriesAssumption`, `LimitAssumption`): types, `QueueFollowsEntry`, `CreditsAccounted`,
and `Refinement`: the jobs implement the safety part of `BonusPayout`. All of it rests on `RunsOwnRows`, which nothing in
the code says: the rows a run has listed do not change under it, since a closing lists bonuses that
are `PENDING`, a retry run those that wait in the queue, and no bonus is both while the queue follows the
entries. Two runs of the same job would break it.

**`AegmallOrdersProofs`** (`OrdersAssumption`; trees of any depth, any payloads): types, `OneSessionPerKey`,
`KeysAndOrdersAgree`, `BonusesComplete`. `KeysHold` and `OrdersHold` tie each key, its order and its bonus rows together, `IdsHold`
is the unique index, and `Sound(session[w])` says what a session has added so far: rows numbered from one that are
its own, at most recommend bonuses while attempts fail, and exactly what is due at the end of a
pipeline (the `Rule...` lemmas, one rule after another). What a losing session added never enters the tables.

**`OrganizationProofs`** (`OrganizationAssumption`; any members, trees and processes): types, `AncestryAgrees`,
`PlacementsRecorded`, `ReadersAreEntitled`, and `SearchFindsFirst`. `IInv` says that a row fits its tree
(`Forest`: paths are prefixes of one another), that closure, log and slot rows follow, and where a search may land
(`Landing`: on or below its sponsor, whatever is placed meanwhile). `SearchInv` is what makes a search right: while
no slot is shared, every open slot below the sponsor lies below some member of the queue, the queue is in
level order, and what was found comes before every slot still open. A member placed by somebody else takes an open
slot and opens two below it, which come later. After a slot is taken twice the queue skips a subtree, and the
statement ends there.

**`AccountsProofs`** (`ProcessesAssumption`, `NoneAssumption`, `ProvidersAssumption`): types, `AccountsHaveIdentities`,
`CodesOfSecret`, `DisabledRowsAudited`, `LogAccountsForSessions`. Their strengthening has four parts. `RolesFound`: a role script has
found the row it will write. `SignupsFresh`: the user of a sign-up under way is of no committed row and of no
other row about to be. `FactorsKnown`: a request about to disable a factor has logged it and found the
row, and an enabling script that read a row writes to one. `Counted`: the sessions of a user and the callbacks
about to open one are at most the user's successes in the log (`SessionsCounted`); the same for callbacks
that look up a key nobody owns yet (`LookUpsCounted`), which a script may give to a user between their two commits, with all
their successes; and outcomes together with callbacks that have none yet are at most the starts
(`OutcomesCounted`). Equal sessions and entries count, so these are cardinalities of sets of copies (`CopiesOf`), which
`TokenAdded` and `TokenRemoved` change by one. `Covers` and `StillCovers` say when one step keeps such an account:
for each commit, at most one thing more to account for, and then one more entry.

**`ProviderServicesProofs`** (`ProviderAssumption`): types, `RowsTellOutcomes`, `OnlyCompanyLosesRows`. A call is in one scope
and not in the tables before that scope commits (`HeldOnce`); what is known of its executions (`Counted`) depends
on where it is, and `Shared` says that a scope has told `company` of everything an error could take away: of two
calls in one scope, both, so that a row that cannot be stored takes none along that is not on that list.

Only model-checked:

- liveness under fairness (`SessionsEnd`, `RequestsEnd`, `CallsReturn`, and the `~>` in `ImplementsBonusPayout`), which the
  prover does not reach.

## Not modelled

`annotate_withdrawal` and the workflow's listeners (free-form data); the summary of daily metrics and its alerts (sums over a
table that nothing in the repository writes); `core/commerce.py` (one pass over lines that no other component calls);
Turnstile (one HTTP call without state) and the providers' side of OAuth, which is the success or failure of an
exchange; masking, settings, logging, the QA page, design tokens and test doubles. Expired idempotency keys: `expires_at`
is stored and never compared. Delays of retries. Locks of a `mining_balances` row between its insert and its
commit: the later of two first inserts waits for the earlier and then fails, which `Collide` has in one step.

## Plan

Done: wallets, workflow, settlement, orders, organization, accounts, risk rules, provider services and KPI access are
modelled, and their safety is proved. Next:

1. Proofs: for any number of processes, which of `WithdrawalSoloProofs` a request keeps that only one process ever works on.
2. An abstract order ledger (each key once) that `AegmallOrders` implements, with the refinement proved from its `IInv`.
3. Two processes on one wallet with a ledger: which of the wallet's invariants survive a stale balance.
