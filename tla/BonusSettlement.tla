---------------------------- MODULE BonusSettlement ----------------------------
(***************************************************************************)
(* How a recorded bonus reaches a wallet: BonusClosingService               *)
(* (core/bonus_closing.py) credits the pending ones and puts those that     *)
(* fail in bonus_retry_queue, BonusRetryService (core/bonus_retry.py)        *)
(* credits them later or gives up.                                          *)
(*                                                                         *)
(* Each job runs in a session of its own, and one run of a job is one       *)
(* transaction: SqlAlchemyBonusRepository never commits.  The wallet        *)
(* creditor is a callable that gets only the payload, so what it credits    *)
(* does not roll back with the job.  A closing and a retry run may overlap; *)
(* two runs of the same job do not.                                         *)
(***************************************************************************)
EXTENDS Integers, FiniteSets, FiniteSetsExt

CONSTANTS Bonuses,
          MaxRetries,  \* max_retries of both services
          Limit,       \* of list_pending and list_retry_candidates
          Faults,      \* which of "lost", "crash" can go wrong
          MaxFaults    \* bound of the model: how many times something goes wrong

ASSUME MaxRetriesAssumption == MaxRetries \in Nat \ {0}
ASSUME LimitAssumption == Limit \in Nat \ {0}

Jobs == {"closing", "retry"}

VARIABLES entry,     \* committed bonus_transactions rows: status, metadata.retry_count
          queue,     \* committed bonus_retry_queue rows: status, retry_count, retry_after <= now
          credited,  \* how often each bonus was credited to its wallet
          job,       \* the run of each job, idle when it has no bonuses left to do or commit
          faults     \* bound of the model

vars == <<entry, queue, credited, job, faults>>

EntryStatus == {"absent", "PENDING", "RETRY", "CONFIRMED", "FAILED"}
QueueStatus == {"absent", "PENDING", "COMPLETED", "FAILED"}

Idle == [todo |-> {}, done |-> {}, entry |-> <<>>, queue |-> <<>>]

Init ==
  /\ entry = [b \in Bonuses |-> [status |-> "absent", retries |-> 0]]
  /\ queue = [b \in Bonuses |-> [status |-> "absent", retries |-> 0, due |-> FALSE]]
  /\ credited = [b \in Bonuses |-> 0]
  /\ job = [j \in Jobs |-> Idle]
  /\ faults = 0

Fault(kind) == kind \in Faults /\ faults < MaxFaults /\ faults' = faults + 1

(* record_bonus of a bonus pipeline whose session has committed            *)
RecordBonus(b) ==
  /\ entry[b].status = "absent"
  /\ entry' = [entry EXCEPT ![b].status = "PENDING"]
  /\ UNCHANGED <<queue, credited, job, faults>>

(* Time passes a bonus's retry_after.                                      *)
Elapse(b) ==
  /\ queue[b].status = "PENDING" /\ ~queue[b].due
  /\ queue' = [queue EXCEPT ![b].due = TRUE]
  /\ UNCHANGED <<entry, credited, job, faults>>

-----------------------------------------------------------------------------
(* Mutant: the closing also lists what waits for a retry.                  *)
Candidates_Waiting(j) ==
  IF j = "closing" THEN {b \in Bonuses : entry[b].status \in {"PENDING", "RETRY"}}
  ELSE {b \in Bonuses : queue[b].status = "PENDING" /\ queue[b].due}

(* list_pending, list_retry_candidates: the oldest ones, up to a limit     *)
Candidates(j) ==
  IF j = "closing" THEN {b \in Bonuses : entry[b].status = "PENDING"}
  ELSE {b \in Bonuses : queue[b].status = "PENDING" /\ queue[b].due}

Listing(S) == {T \in SUBSET S : Cardinality(T) = Min({Limit, Cardinality(S)})}

Start(j) ==
  /\ job[j] = Idle
  /\ \E T \in Listing(Candidates(j)) \ {{}} :
       job' = [job EXCEPT ![j] = [todo |-> T, done |-> {}, entry |-> entry, queue |-> queue]]
  /\ UNCHANGED <<entry, queue, credited, faults>>

(* mark_confirmed, mark_retry_completed                                    *)
Confirm(s, b) ==
  [s EXCEPT !.entry[b].status = "CONFIRMED",
            !.queue[b].status = IF @ = "absent" THEN @ ELSE "COMPLETED"]

(* Mutant: the queue row of a bonus given up is left.                      *)
GiveUp_Queued(s, b, n) == [s EXCEPT !.entry[b] = [status |-> "FAILED", retries |-> n]]

(* mark_failed, mark_retry_failed                                          *)
GiveUp(s, b, n) ==
  [s EXCEPT !.entry[b] = [status |-> "FAILED", retries |-> n],
            !.queue[b].status = IF @ = "absent" THEN @ ELSE "FAILED"]

(* Mutant: a bonus that waits for a retry stays PENDING.                   *)
ScheduleRetry_Pending(s, b, n) ==
  [s EXCEPT !.entry[b].retries = n, !.queue[b] = [status |-> "PENDING", retries |-> n, due |-> FALSE]]

(* schedule_retry; the delay grows with the retry count and is not zero    *)
ScheduleRetry(s, b, n) ==
  [s EXCEPT !.entry[b] = [status |-> "RETRY", retries |-> n],
            !.queue[b] = [status |-> "PENDING", retries |-> n, due |-> FALSE]]

(* BonusClosingService counts from the entry, BonusRetryService from the   *)
(* larger of the entry's count and the queue's.                            *)
NextRetryCount(j, s, b) ==
  1 + IF j = "closing" THEN s.entry[b].retries
      ELSE Max({s.queue[b].retries, s.entry[b].retries})

(* Mutant: no failure is the last.                                         *)
HandleFailure_Endless(j, s, b) == ScheduleRetry(s, b, NextRetryCount(j, s, b))

(* _schedule_retry of the closing, _handle_failure of the retry service    *)
HandleFailure(j, s, b) ==
  LET n == NextRetryCount(j, s, b) IN
  IF n >= MaxRetries THEN GiveUp(s, b, n) ELSE ScheduleRetry(s, b, n)

Processed(j, b, s) ==
  job' = [job EXCEPT ![j] = [s EXCEPT !.todo = @ \ {b}, !.done = @ \cup {b}]]

Credit(j, b) ==
  /\ b \in job[j].todo
  /\ Processed(j, b, Confirm(job[j], b))
  /\ credited' = [credited EXCEPT ![b] = @ + 1]
  /\ UNCHANGED <<entry, queue, faults>>

CreditRaises(j, b) ==
  /\ b \in job[j].todo
  /\ Processed(j, b, HandleFailure(j, job[j], b))
  /\ UNCHANGED <<entry, queue, credited, faults>>

(* The wallet is credited, but the creditor raises all the same.           *)
CreditLost(j, b) ==
  /\ b \in job[j].todo
  /\ Processed(j, b, HandleFailure(j, job[j], b))
  /\ credited' = [credited EXCEPT ![b] = @ + 1]
  /\ Fault("lost")
  /\ UNCHANGED <<entry, queue>>

Override(f, g, S) == [x \in DOMAIN f |-> IF x \in S THEN g[x] ELSE f[x]]

Commit(j) ==
  LET s == job[j] IN
  /\ s.done # {} /\ s.todo = {}
  /\ entry' = Override(entry, s.entry, s.done)
  /\ queue' = Override(queue, s.queue, s.done)
  /\ job' = [job EXCEPT ![j] = Idle]
  /\ UNCHANGED <<credited, faults>>

(* The worker dies, or its database does: the run is rolled back.          *)
Crash(j) ==
  /\ job[j] # Idle
  /\ job' = [job EXCEPT ![j] = Idle]
  /\ Fault("crash")
  /\ UNCHANGED <<entry, queue, credited>>

-----------------------------------------------------------------------------
Run(j) ==
  \/ Start(j) \/ Commit(j)
  \/ \E b \in Bonuses : Credit(j, b) \/ CreditRaises(j, b) \/ CreditLost(j, b)

Next ==
  \/ \E b \in Bonuses : RecordBonus(b) \/ Elapse(b)
  \/ \E j \in Jobs : Run(j) \/ Crash(j)

(* The scheduler keeps starting both jobs, a job that runs goes on, and    *)
(* time passes.                                                            *)
Fairness ==
  /\ \A j \in Jobs : WF_vars(Run(j))
  /\ \A b \in Bonuses : WF_vars(Elapse(b))

Spec == Init /\ [][Next]_vars /\ Fairness

-----------------------------------------------------------------------------
EntryRow == [status: EntryStatus, retries: 0 .. MaxRetries]
QueueRow == [status: QueueStatus, retries: 0 .. MaxRetries, due: BOOLEAN]

(* Columns keep their types, and a run only holds bonuses it listed.       *)
TypeOK ==
  /\ entry \in [Bonuses -> EntryRow]
  /\ queue \in [Bonuses -> QueueRow]
  /\ credited \in [Bonuses -> Nat]
  /\ \A j \in Jobs :
       /\ job[j].todo \cup job[j].done \subseteq Bonuses
       /\ job[j] # Idle => job[j].entry \in [Bonuses -> EntryRow]
       /\ job[j] # Idle => job[j].queue \in [Bonuses -> QueueRow]

(* A bonus some run has credited, committed or about to be.                *)
Credited(b) ==
  \/ entry[b].status = "CONFIRMED"
  \/ \E j \in Jobs : b \in job[j].done /\ job[j].entry[b].status = "CONFIRMED"

(* A wallet is credited once for a confirmed bonus and never for another:  *)
(* a second credit, or one for a bonus given up, takes a crash or a lost   *)
(* answer, one for each.                                                   *)
CreditsAccounted ==
  \A b \in Bonuses : credited[b] - (IF Credited(b) THEN 1 ELSE 0) \in 0 .. faults

(* The queue and the entries tell the same story: a bonus waits for its    *)
(* retry in both or in neither, with the same count, no row is left        *)
(* waiting for a bonus that is settled, and none is given up before it has *)
(* failed MaxRetries times.  The code gives up at that failure; docs/      *)
(* planning/organization_bonus_design.md:152 wants one more attempt, which *)
(* this leaves open.                                                       *)
QueueFollowsEntry ==
  \A b \in Bonuses :
    LET e == entry[b]
        q == queue[b] IN
    /\ (e.status = "RETRY") = (q.status = "PENDING")
    /\ e.status = "RETRY" => q.retries = e.retries /\ e.retries > 0
    /\ e.status \in {"absent", "PENDING"} => q.status = "absent"
    /\ e.status = "CONFIRMED" => q.status \in {"absent", "COMPLETED"}
    /\ e.status = "FAILED" => q.status \in {"absent", "FAILED"} /\ e.retries >= MaxRetries

PhaseOf(status) ==
  CASE status = "absent" -> "none"
    [] status \in {"PENDING", "RETRY"} -> "owed"
    [] status = "CONFIRMED" -> "paid"
    [] status = "FAILED" -> "waived"

Payout == INSTANCE BonusPayout WITH
  phase <- [b \in Bonuses |-> PhaseOf(entry[b].status)],
  moved <- credited

(* What the two jobs do together, overlapping and crashing, is what the     *)
(* payout promises: a settled bonus stays settled and is credited no more,  *)
(* a confirmed one was credited, and every recorded bonus is settled in the *)
(* end: none is forgotten in the queue, behind the limit or by a crash.    *)
ImplementsBonusPayout == Payout!Spec
=============================================================================
