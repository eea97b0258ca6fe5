------------------------- MODULE BonusSettlementProofs -------------------------
(***************************************************************************)
(* What holds of BonusSettlement for any bonuses, retries, limits and       *)
(* faults: types, the agreement of entries and queue, the accounting of    *)
(* credits, and that every step is one of BonusPayout.                     *)
(*                                                                         *)
(* All of it rests on one fact nothing in the code says: the rows a run    *)
(* has listed do not change under it, since a closing lists bonuses that   *)
(* are PENDING, a retry run those that wait in the queue, and no bonus is  *)
(* both while the queue follows the entries.                               *)
(***************************************************************************)
EXTENDS BonusSettlement, TLAPS

Snapshot == [todo: SUBSET Bonuses, done: SUBSET Bonuses,
             entry: [Bonuses -> EntryRow], queue: [Bonuses -> QueueRow]]

(* The types of TypeOK, and what a run that is not idle is.                *)
Typed ==
  /\ entry \in [Bonuses -> EntryRow]
  /\ queue \in [Bonuses -> QueueRow]
  /\ credited \in [Bonuses -> Nat]
  /\ job \in [Jobs -> Snapshot \cup {Idle}]
  /\ faults \in Nat

(* QueueFollowsEntry of one bonus, and that counting starts from zero and   *)
(* ends at MaxRetries.                                                     *)
RowsAgree(e, q) ==
  /\ (e.status = "RETRY") = (q.status = "PENDING")
  /\ e.status = "RETRY" => q.retries = e.retries /\ e.retries \in 1 .. MaxRetries - 1
  /\ e.status \in {"absent", "PENDING"} => q.status = "absent" /\ e.retries = 0 /\ q.retries = 0
  /\ e.status = "CONFIRMED" => q.status \in {"absent", "COMPLETED"}
  /\ e.status = "FAILED" => q.status \in {"absent", "FAILED"} /\ e.retries = MaxRetries

(* A run holds what it listed as long as it has not ended, and works on    *)
(* the rows that are committed.                                            *)
Holds(j, b) == b \in job[j].todo \cup job[j].done

RunsOwnRows ==
  \A j \in Jobs :
    /\ job[j].todo \cap job[j].done = {}
    /\ \A b \in Bonuses : Holds(j, b) => b \in Candidates(j)
    /\ \A b \in job[j].todo : job[j].entry[b] = entry[b] /\ job[j].queue[b] = queue[b]
    /\ \A b \in job[j].done : /\ RowsAgree(job[j].entry[b], job[j].queue[b])
                              /\ job[j].entry[b].status \in {"RETRY", "CONFIRMED", "FAILED"}

IInv ==
  /\ Typed
  /\ \A b \in Bonuses : RowsAgree(entry[b], queue[b])
  /\ RunsOwnRows
  /\ CreditsAccounted

-----------------------------------------------------------------------------
LEMMA MaxOfOne == ASSUME NEW n \in Int PROVE Max({n, n}) = n
<1>1. \E m \in {n, n} : \A k \in {n, n} : m >= k
  OBVIOUS
<1> QED BY <1>1 DEF Max

(* What handling one bonus makes of the rows a run works on: those of the  *)
(* others stay, its own agree, and it does not stay PENDING.               *)
Handled(s, t, b) ==
  /\ t \in Snapshot /\ t.todo = s.todo /\ t.done = s.done
  /\ \A c \in Bonuses \ {b} : t.entry[c] = s.entry[c] /\ t.queue[c] = s.queue[c]
  /\ RowsAgree(t.entry[b], t.queue[b])
  /\ t.entry[b].status \in {"RETRY", "CONFIRMED", "FAILED"}

Waiting(s, b) ==
  /\ RowsAgree(s.entry[b], s.queue[b])
  /\ s.entry[b].status \in {"PENDING", "RETRY"}

SetRows(s, e, q) == [s EXCEPT !.entry = e, !.queue = q]

LEMMA RowsSet ==
  ASSUME NEW s \in Snapshot, NEW b \in Bonuses, NEW e \in [Bonuses -> EntryRow], NEW q \in [Bonuses -> QueueRow],
         \A c \in Bonuses \ {b} : e[c] = s.entry[c] /\ q[c] = s.queue[c],
         RowsAgree(e[b], q[b]), e[b].status \in {"RETRY", "CONFIRMED", "FAILED"}
  PROVE  Handled(s, SetRows(s, e, q), b) /\ SetRows(s, e, q).entry = e
<1> DEFINE t == SetRows(s, e, q)
<1>1. t \in Snapshot
  BY DEF SetRows, Snapshot
<1>2. t.todo = s.todo /\ t.done = s.done /\ t.entry = e /\ t.queue = q
  BY DEF SetRows, Snapshot
<1> QED BY <1>1, <1>2 DEF Handled

LEMMA ConfirmHandles ==
  ASSUME NEW s \in Snapshot, NEW b \in Bonuses, Waiting(s, b)
  PROVE  Handled(s, Confirm(s, b), b) /\ Confirm(s, b).entry[b].status = "CONFIRMED"
<1> DEFINE e == [s.entry EXCEPT ![b].status = "CONFIRMED"]
           q == [s.queue EXCEPT ![b].status = IF @ = "absent" THEN @ ELSE "COMPLETED"]
<1>1. e \in [Bonuses -> EntryRow] /\ q \in [Bonuses -> QueueRow]
  BY DEF Snapshot, EntryRow, QueueRow, EntryStatus, QueueStatus
<1>2. Confirm(s, b) = SetRows(s, e, q)
  BY DEF SetRows, Confirm, Snapshot
<1>3. e[b].status = "CONFIRMED" /\ q[b].status \in {"absent", "COMPLETED"}
  BY DEF Snapshot, EntryRow, QueueRow
<1>4. \A c \in Bonuses \ {b} : e[c] = s.entry[c] /\ q[c] = s.queue[c]
  BY DEF Snapshot
<1>5. RowsAgree(e[b], q[b])
  BY <1>3 DEF RowsAgree
<1> HIDE DEF e, q
<1> QED BY <1>1, <1>2, <1>3, <1>4, <1>5, RowsSet

(* The count that decides is one more than the entry's, for both services. *)
LEMMA NextRetryCountBound ==
  ASSUME NEW s \in Snapshot, NEW b \in Bonuses, NEW j \in Jobs, Waiting(s, b)
  PROVE  NextRetryCount(j, s, b) \in 1 .. MaxRetries
<1>1. s.entry[b].retries \in 0 .. MaxRetries - 1 /\ s.queue[b].retries = s.entry[b].retries
  BY MaxRetriesAssumption DEF Waiting, RowsAgree, Snapshot, EntryRow, QueueRow
<1>2. Max({s.queue[b].retries, s.entry[b].retries}) = s.entry[b].retries
  BY <1>1, MaxOfOne
<1> QED BY <1>1, <1>2, MaxRetriesAssumption DEF NextRetryCount

(* A failure that is not given up leaves fewer retries than MaxRetries.    *)
LEMMA FailureHandles ==
  ASSUME NEW s \in Snapshot, NEW b \in Bonuses, NEW j \in Jobs, Waiting(s, b)
  PROVE  Handled(s, HandleFailure(j, s, b), b) /\ HandleFailure(j, s, b).entry[b].status # "CONFIRMED"
<1> DEFINE n == NextRetryCount(j, s, b)
<1>1. n \in 1 .. MaxRetries
  BY NextRetryCountBound
<1>2. HandleFailure(j, s, b) = IF n >= MaxRetries THEN GiveUp(s, b, n) ELSE ScheduleRetry(s, b, n)
  BY DEF HandleFailure
<1> HIDE DEF n
<1>3. CASE n >= MaxRetries
  <2> DEFINE e == [s.entry EXCEPT ![b] = [status |-> "FAILED", retries |-> n]]
             q == [s.queue EXCEPT ![b].status = IF @ = "absent" THEN @ ELSE "FAILED"]
  <2>1. e \in [Bonuses -> EntryRow] /\ q \in [Bonuses -> QueueRow]
    BY <1>1 DEF Snapshot, EntryRow, QueueRow, EntryStatus, QueueStatus
  <2>2. GiveUp(s, b, n) = SetRows(s, e, q)
    BY DEF SetRows, GiveUp, Snapshot
  <2>3. e[b] = [status |-> "FAILED", retries |-> n] /\ q[b].status \in {"absent", "FAILED"}
    BY DEF Snapshot, EntryRow, QueueRow
  <2>4. \A c \in Bonuses \ {b} : e[c] = s.entry[c] /\ q[c] = s.queue[c]
    BY DEF Snapshot
  <2>5. RowsAgree(e[b], q[b])
    BY <1>1, <1>3, <2>3, MaxRetriesAssumption DEF RowsAgree
  <2> HIDE DEF e, q
  <2> QED BY <1>2, <1>3, <2>1, <2>2, <2>3, <2>4, <2>5, RowsSet
<1>4. CASE ~(n >= MaxRetries)
  <2> DEFINE e == [s.entry EXCEPT ![b] = [status |-> "RETRY", retries |-> n]]
             q == [s.queue EXCEPT ![b] = [status |-> "PENDING", retries |-> n, due |-> FALSE]]
  <2>1. e \in [Bonuses -> EntryRow] /\ q \in [Bonuses -> QueueRow]
    BY <1>1 DEF Snapshot, EntryRow, QueueRow, EntryStatus, QueueStatus
  <2>2. ScheduleRetry(s, b, n) = SetRows(s, e, q)
    BY DEF SetRows, ScheduleRetry, Snapshot
  <2>3. /\ e[b] = [status |-> "RETRY", retries |-> n]
        /\ q[b] = [status |-> "PENDING", retries |-> n, due |-> FALSE]
    BY DEF Snapshot
  <2>4. \A c \in Bonuses \ {b} : e[c] = s.entry[c] /\ q[c] = s.queue[c]
    BY DEF Snapshot
  <2>5. RowsAgree(e[b], q[b])
    BY <1>1, <1>4, <2>3, MaxRetriesAssumption DEF RowsAgree
  <2>6. HandleFailure(j, s, b) = SetRows(s, e, q)
    BY <1>2, <1>4, <2>2
  <2>7. e[b].status = "RETRY"
    BY <2>3
  <2> HIDE DEF e, q
  <2> QED BY <2>1, <2>4, <2>5, <2>6, <2>7, RowsSet
<1> QED BY <1>3, <1>4

-----------------------------------------------------------------------------
(* What a run holds.                                                       *)
LEMMA HeldRows ==
  ASSUME IInv, NEW j \in Jobs
  PROVE  /\ \A b : Holds(j, b) => b \in Bonuses /\ job[j] \in Snapshot /\ job[j] # Idle
         /\ \A b \in job[j].todo : Waiting(job[j], b) /\ b \notin job[j].done
         /\ \A b \in Bonuses : Holds(j, b) => entry[b].status \in {"PENDING", "RETRY"}
<1>1. job[j] \in Snapshot \cup {Idle}
  BY DEF IInv, Typed
<1>2. \A b : Holds(j, b) => job[j] \in Snapshot /\ job[j] # Idle
  BY <1>1 DEF Idle, Holds
<1>3. \A b : Holds(j, b) => b \in Bonuses
  BY <1>2 DEF Holds, Snapshot
<1>4. \A b \in Bonuses : Holds(j, b) => entry[b].status \in {"PENDING", "RETRY"}
  BY DEF IInv, RunsOwnRows, Candidates, RowsAgree
<1>5. \A b \in job[j].todo : Waiting(job[j], b) /\ b \notin job[j].done
  BY <1>3, <1>4 DEF IInv, RunsOwnRows, Waiting, Holds
<1> QED BY <1>2, <1>3, <1>4, <1>5

(* No bonus is in a closing and in a retry run.                            *)
LEMMA HeldOnce ==
  ASSUME IInv, NEW j \in Jobs, NEW k \in Jobs, NEW b, Holds(j, b), Holds(k, b)
  PROVE  j = k
<1>1. b \in Bonuses /\ b \in Candidates(j) /\ b \in Candidates(k)
  BY HeldRows DEF IInv, RunsOwnRows
<1>2. RowsAgree(entry[b], queue[b])
  BY <1>1 DEF IInv
<1> QED BY <1>1, <1>2 DEF Candidates, RowsAgree, Jobs

(* A run that has handled a bonus still owns its rows.                     *)
LEMMA ProcessedOwns ==
  ASSUME IInv, NEW j \in Jobs, NEW b \in job[j].todo, NEW s, Handled(job[j], s, b), Processed(j, b, s),
         UNCHANGED <<entry, queue>>
  PROVE  /\ job' \in [Jobs -> Snapshot \cup {Idle}]
         /\ RunsOwnRows'
         /\ \A c \in Bonuses \ {b} : Credited(c)' = Credited(c)
         /\ ~Credited(b)
         /\ Credited(b)' <=> s.entry[b].status = "CONFIRMED"
<1> DEFINE t == [s EXCEPT !.todo = @ \ {b}, !.done = @ \cup {b}]
<1>1. Holds(j, b) /\ b \in Bonuses /\ job[j] \in Snapshot /\ b \notin job[j].done
  BY HeldRows DEF Holds
<1>2. /\ t \in Snapshot /\ t.entry = s.entry /\ t.queue = s.queue
      /\ t.todo = job[j].todo \ {b} /\ t.done = job[j].done \cup {b}
  BY <1>1 DEF Handled, Snapshot
<1>3. job' = [job EXCEPT ![j] = t]
  BY DEF Processed
<1> HIDE DEF t
<1>4. job' \in [Jobs -> Snapshot \cup {Idle}] /\ job'[j] = t /\ \A k \in Jobs \ {j} : job'[k] = job[k]
  BY <1>2, <1>3 DEF IInv, Typed
<1>5. \A k \in Jobs : \A c : Holds(k, c)' = Holds(k, c)
  BY <1>1, <1>2, <1>4 DEF Holds
<1>6. RunsOwnRows'
  <2> SUFFICES ASSUME NEW k \in Jobs
               PROVE  /\ job'[k].todo \cap job'[k].done = {}
                      /\ \A c \in Bonuses : Holds(k, c)' => c \in Candidates(k)
                      /\ \A c \in job'[k].todo : job'[k].entry[c] = entry[c] /\ job'[k].queue[c] = queue[c]
                      /\ \A c \in job'[k].done : /\ RowsAgree(job'[k].entry[c], job'[k].queue[c])
                                                 /\ job'[k].entry[c].status \in {"RETRY", "CONFIRMED", "FAILED"}
    BY DEF RunsOwnRows, Candidates
  <2>1. \A c \in Bonuses : Holds(k, c)' => c \in Candidates(k)
    BY <1>5 DEF IInv, RunsOwnRows
  <2>2. CASE k = j
    <3>1. \A c \in t.todo \cup t.done : c \in Bonuses
      BY <1>2 DEF Snapshot
    <3>2. \A c \in t.todo \cup t.done : c # b => t.entry[c] = job[j].entry[c] /\ t.queue[c] = job[j].queue[c]
      BY <1>2, <3>1 DEF Handled
    <3> QED BY <1>1, <1>2, <1>4, <2>1, <2>2, <3>1, <3>2 DEF IInv, RunsOwnRows, Handled
  <2>3. CASE k # j
    BY <1>4, <2>1, <2>3 DEF IInv, RunsOwnRows
  <2> QED BY <2>2, <2>3
<1>7. \A c \in Bonuses \ {b} : Credited(c)' = Credited(c)
  BY <1>2, <1>4 DEF Credited, Handled
<1>8. entry[b].status # "CONFIRMED"
  BY <1>1, HeldRows
<1>9. \A k \in Jobs : b \in job[k].done => FALSE
  BY <1>1, HeldOnce DEF Holds
<1>10. Credited(b)' <=> s.entry[b].status = "CONFIRMED"
  BY <1>2, <1>4, <1>8, <1>9 DEF Credited
<1> QED BY <1>4, <1>6, <1>7, <1>8, <1>9, <1>10 DEF Credited

-----------------------------------------------------------------------------
LEMMA InitInv == Init => IInv
<1> SUFFICES ASSUME Init PROVE IInv
  OBVIOUS
<1>1. Typed
  <2>1. 0 \in 0 .. MaxRetries
    BY MaxRetriesAssumption
  <2>2. entry \in [Bonuses -> EntryRow] /\ queue \in [Bonuses -> QueueRow]
    BY <2>1 DEF Init, EntryRow, QueueRow, EntryStatus, QueueStatus
  <2> QED BY <2>2 DEF Init, Typed
<1>2. \A b \in Bonuses : RowsAgree(entry[b], queue[b])
  BY DEF Init, RowsAgree
<1>3. RunsOwnRows
  BY DEF Init, RunsOwnRows, Holds, Idle
<1>4. CreditsAccounted
  BY DEF Init, CreditsAccounted, Credited, Idle
<1> QED BY <1>1, <1>2, <1>3, <1>4 DEF IInv

(* Credits are accounted for by a step that changes what is known of one   *)
(* bonus b, or lets a fault happen.                                        *)
LEMMA CreditsStep ==
  ASSUME IInv, NEW b \in Bonuses, NEW n \in {0, 1}, NEW f \in {0, 1},
         credited' = [credited EXCEPT ![b] = @ + n], faults' = faults + f,
         \A c \in Bonuses \ {b} : Credited(c)' = Credited(c), ~Credited(b), 
         Credited(b)' => n = 1, n = 1 => Credited(b)' \/ f = 1
  PROVE  CreditsAccounted' /\ credited' \in [Bonuses -> Nat] /\ faults' \in Nat
<1>1. credited \in [Bonuses -> Nat] /\ faults \in Nat
  BY DEF IInv, Typed
<1>2. \A c \in Bonuses \ {b} : credited'[c] = credited[c]
  BY <1>1
<1>3. credited'[b] = credited[b] + n
  BY <1>1
<1>4. ASSUME NEW c \in Bonuses
      PROVE  credited'[c] - (IF Credited(c)' THEN 1 ELSE 0) \in 0 .. faults'
  <2>1. credited[c] - (IF Credited(c) THEN 1 ELSE 0) \in 0 .. faults /\ credited[c] \in Nat
    BY <1>1 DEF IInv, CreditsAccounted
  <2>2. CASE c # b
    <3>1. Credited(c)' = Credited(c) /\ credited'[c] = credited[c]
      BY <1>2, <2>2
    <3> QED BY <1>1, <2>1, <3>1
  <2>3. CASE c = b
    <3>1. credited[b] \in 0 .. faults
      BY <2>1, <2>3
    <3> QED BY <1>1, <1>3, <2>3, <3>1
  <2> QED BY <2>2, <2>3
<1> QED BY <1>1, <1>4 DEF CreditsAccounted

LEMMA InvStep == IInv /\ [Next]_vars => IInv'
<1> SUFFICES ASSUME IInv, [Next]_vars PROVE IInv'
  OBVIOUS
<1>1. ASSUME NEW b \in Bonuses, RecordBonus(b)
      PROVE  IInv'
  <2>1. entry \in [Bonuses -> EntryRow] /\ entry[b].status = "absent"
    BY <1>1 DEF IInv, Typed, RecordBonus
  <2>2. entry' \in [Bonuses -> EntryRow] /\ entry'[b].status = "PENDING" /\ entry'[b].retries = entry[b].retries
    BY <1>1, <2>1 DEF RecordBonus, EntryRow, EntryStatus
  <2>3. \A c \in Bonuses \ {b} : entry'[c] = entry[c]
    BY <1>1, <2>1 DEF RecordBonus
  <2>4. \A j \in Jobs : ~Holds(j, b)
    BY <2>1, HeldRows
  <2>5. Typed'
    BY <1>1, <2>2 DEF IInv, Typed, RecordBonus
  <2>6. \A c \in Bonuses : RowsAgree(entry'[c], queue'[c])
    BY <1>1, <2>1, <2>2, <2>3 DEF IInv, RecordBonus, RowsAgree
  <2>7. RunsOwnRows'
    <3>1. \A j \in Jobs, c \in Bonuses : Holds(j, c) => entry'[c] = entry[c]
      BY <2>3, <2>4
    <3>2. \A j \in Jobs, c \in Bonuses : Holds(j, c) => c \in Candidates(j)'
      BY <1>1, <3>1 DEF IInv, RunsOwnRows, Candidates, RecordBonus
    <3>3. \A j \in Jobs : \A c \in job[j].todo : c \in Bonuses /\ Holds(j, c)
      BY HeldRows DEF Holds
    <3> QED BY <1>1, <3>1, <3>2, <3>3 DEF IInv, RunsOwnRows, RecordBonus, Holds
  <2>8. CreditsAccounted'
    BY <1>1, <2>1, <2>2, <2>3 DEF IInv, CreditsAccounted, Credited, RecordBonus
  <2> QED BY <2>5, <2>6, <2>7, <2>8 DEF IInv
<1>2. ASSUME NEW b \in Bonuses, Elapse(b)
      PROVE  IInv'
  <2>1. queue \in [Bonuses -> QueueRow] /\ queue[b].status = "PENDING" /\ ~queue[b].due
    BY <1>2 DEF IInv, Typed, Elapse
  <2>2. /\ queue' \in [Bonuses -> QueueRow]
        /\ queue'[b].status = queue[b].status /\ queue'[b].retries = queue[b].retries
    BY <1>2, <2>1 DEF Elapse, QueueRow
  <2>3. \A c \in Bonuses \ {b} : queue'[c] = queue[c]
    BY <1>2, <2>1 DEF Elapse
  <2>4. \A j \in Jobs : ~Holds(j, b)
    <3>1. RowsAgree(entry[b], queue[b])
      BY DEF IInv
    <3> QED BY <2>1, <3>1 DEF IInv, RunsOwnRows, Candidates, RowsAgree
  <2>5. Typed'
    BY <1>2, <2>2 DEF IInv, Typed, Elapse
  <2>6. \A c \in Bonuses : RowsAgree(entry'[c], queue'[c])
    BY <1>2, <2>1, <2>2, <2>3 DEF IInv, Elapse, RowsAgree
  <2>7. RunsOwnRows'
    <3>1. \A j \in Jobs, c \in Bonuses : Holds(j, c) => queue'[c] = queue[c]
      BY <2>3, <2>4
    <3>2. \A j \in Jobs, c \in Bonuses : Holds(j, c) => c \in Candidates(j)'
      BY <1>2, <3>1 DEF IInv, RunsOwnRows, Candidates, Elapse
    <3>3. \A j \in Jobs : \A c \in job[j].todo : c \in Bonuses /\ Holds(j, c)
      BY HeldRows DEF Holds
    <3> QED BY <1>2, <3>1, <3>2, <3>3 DEF IInv, RunsOwnRows, Elapse, Holds
  <2>8. CreditsAccounted'
    BY <1>2 DEF IInv, CreditsAccounted, Credited, Elapse
  <2> QED BY <2>5, <2>6, <2>7, <2>8 DEF IInv
<1>3. ASSUME NEW j \in Jobs, Start(j)
      PROVE  IInv'
  <2>1. PICK T \in SUBSET Candidates(j) :
          job' = [job EXCEPT ![j] = [todo |-> T, done |-> {}, entry |-> entry, queue |-> queue]]
    BY <1>3 DEF Start, Listing
  <2> DEFINE s == [todo |-> T, done |-> {}, entry |-> entry, queue |-> queue]
  <2>2. T \subseteq Bonuses
    BY DEF Candidates
  <2>3. s \in Snapshot
    BY <2>2 DEF Snapshot, IInv, Typed
  <2>4. job' \in [Jobs -> Snapshot \cup {Idle}] /\ job'[j] = s /\ \A k \in Jobs \ {j} : job'[k] = job[k]
    BY <2>1, <2>3 DEF IInv, Typed
  <2>5. UNCHANGED <<entry, queue, credited, faults>>
    BY <1>3 DEF Start
  <2>6. Typed' /\ \A b \in Bonuses : RowsAgree(entry'[b], queue'[b])
    BY <2>4, <2>5 DEF IInv, Typed
  <2>7. RunsOwnRows'
    <3>1. \A c \in Bonuses : Holds(j, c)' => c \in Candidates(j)
      BY <2>1, <2>4 DEF Holds
    <3>2. \A k \in Jobs : Candidates(k)' = Candidates(k)
      BY <2>5 DEF Candidates
    <3> QED BY <2>4, <2>5, <3>1, <3>2 DEF IInv, RunsOwnRows, Holds
  <2>8. job[j].done = {} \/ j \notin Jobs
    BY <1>3 DEF Start, Idle
  <2>9. \A b \in Bonuses : Credited(b)' = Credited(b)
    BY <2>4, <2>5, <2>8 DEF Credited
  <2> QED BY <2>5, <2>6, <2>7, <2>9 DEF IInv, CreditsAccounted
<1>4. ASSUME NEW j \in Jobs, NEW b \in Bonuses, Credit(j, b) \/ CreditRaises(j, b) \/ CreditLost(j, b)
      PROVE  IInv'
  <2>1. b \in job[j].todo /\ UNCHANGED <<entry, queue>>
    BY <1>4 DEF Credit, CreditRaises, CreditLost
  <2>2. job[j] \in Snapshot /\ Waiting(job[j], b)
    BY <2>1, HeldRows DEF Holds
  <2>3. CASE Credit(j, b)
    <3> DEFINE s == Confirm(job[j], b)
    <3>1. Handled(job[j], s, b) /\ s.entry[b].status = "CONFIRMED"
      BY <2>2, ConfirmHandles
    <3>2. Processed(j, b, s) /\ credited' = [credited EXCEPT ![b] = @ + 1] /\ faults' = faults + 0
      BY <2>3 DEF Credit, IInv, Typed
    <3> HIDE DEF s
    <3>3. /\ job' \in [Jobs -> Snapshot \cup {Idle}] /\ RunsOwnRows'
          /\ \A c \in Bonuses \ {b} : Credited(c)' = Credited(c)
          /\ ~Credited(b) /\ Credited(b)'
      BY <2>1, <3>1, <3>2, ProcessedOwns
    <3>4. CreditsAccounted' /\ credited' \in [Bonuses -> Nat] /\ faults' \in Nat
      BY <3>2, <3>3, CreditsStep
    <3> QED BY <2>1, <3>3, <3>4 DEF IInv, Typed
  <2>4. CASE CreditRaises(j, b) \/ CreditLost(j, b)
    <3> DEFINE s == HandleFailure(j, job[j], b)
    <3>1. Handled(job[j], s, b) /\ s.entry[b].status # "CONFIRMED"
      BY <2>2, FailureHandles
    <3>2. Processed(j, b, s)
      BY <2>4 DEF CreditRaises, CreditLost
    <3>3. PICK n \in {0, 1} : credited' = [credited EXCEPT ![b] = @ + n] /\ faults' = faults + n
      <4>1. CASE CreditRaises(j, b)
        <5>1. credited \in [Bonuses -> Nat] /\ faults \in Nat /\ UNCHANGED <<credited, faults>>
          BY <4>1 DEF CreditRaises, IInv, Typed
        <5>2. credited[b] + 0 = credited[b] /\ faults + 0 = faults
          BY <5>1
        <5>3. credited = [credited EXCEPT ![b] = credited[b]]
          BY <5>1
        <5> QED BY <5>1, <5>2, <5>3
      <4>2. CASE CreditLost(j, b)
        BY <4>2 DEF CreditLost, Fault
      <4> QED BY <2>4, <4>1, <4>2
    <3> HIDE DEF s
    <3>4. /\ job' \in [Jobs -> Snapshot \cup {Idle}] /\ RunsOwnRows'
          /\ \A c \in Bonuses \ {b} : Credited(c)' = Credited(c)
          /\ ~Credited(b) /\ ~Credited(b)'
      BY <2>1, <3>1, <3>2, ProcessedOwns
    <3>5. CreditsAccounted' /\ credited' \in [Bonuses -> Nat] /\ faults' \in Nat
      BY <3>3, <3>4, CreditsStep
    <3> QED BY <2>1, <3>4, <3>5 DEF IInv, Typed
  <2> QED BY <1>4, <2>3, <2>4
<1>5. ASSUME NEW j \in Jobs, Commit(j)
      PROVE  IInv'
  <2> DEFINE s == job[j]
  <2>1. s \in Snapshot /\ s.todo = {}
    <3>1. \E b : Holds(j, b)
      BY <1>5 DEF Commit, Holds
    <3> QED BY <1>5, <3>1, HeldRows DEF Commit
  <2>2. /\ entry' = [b \in Bonuses |-> IF b \in s.done THEN s.entry[b] ELSE entry[b]]
        /\ queue' = [b \in Bonuses |-> IF b \in s.done THEN s.queue[b] ELSE queue[b]]
    BY <1>5 DEF Commit, Override, IInv, Typed
  <2>3. job' \in [Jobs -> Snapshot \cup {Idle}] /\ job'[j] = Idle /\ \A k \in Jobs \ {j} : job'[k] = job[k]
    BY <1>5 DEF Commit, IInv, Typed
  <2>4. s.entry \in [Bonuses -> EntryRow] /\ s.queue \in [Bonuses -> QueueRow] /\ s.done \subseteq Bonuses
    BY <2>1 DEF Snapshot
  <2>5. \A b \in s.done : RowsAgree(s.entry[b], s.queue[b]) /\ Holds(j, b)
    BY DEF IInv, RunsOwnRows, Holds
  <2> HIDE DEF s
  <2>6. Typed'
    BY <1>5, <2>2, <2>3, <2>4 DEF IInv, Typed, Commit
  <2>7. \A b \in Bonuses : RowsAgree(entry'[b], queue'[b])
    BY <2>2, <2>5 DEF IInv
  <2>8. RunsOwnRows'
    <3>1. \A k \in Jobs \ {j}, b \in Bonuses : Holds(k, b) => entry'[b] = entry[b] /\ queue'[b] = queue[b]
      BY <2>2, <2>5, HeldOnce
    <3>2. \A k \in Jobs \ {j}, b \in Bonuses : Holds(k, b) => b \in Candidates(k)'
      BY <3>1 DEF IInv, RunsOwnRows, Candidates
    <3>3. \A k \in Jobs : \A b \in job[k].todo : b \in Bonuses /\ Holds(k, b)
      BY HeldRows DEF Holds
    <3> QED BY <2>3, <3>1, <3>2, <3>3 DEF IInv, RunsOwnRows, Holds, Idle
  <2>9. \A b \in Bonuses : Credited(b)' = Credited(b)
    <3>1. \A k \in Jobs \ {j}, b \in Bonuses : b \in s.done => b \notin job[k].done
      BY <2>5, HeldOnce DEF Holds
    <3>2. \A b \in Bonuses : b \in s.done => entry[b].status # "CONFIRMED"
      BY <2>5, HeldRows
    <3>3. \A k \in Jobs, b \in Bonuses : b \in job'[k].done <=> k # j /\ b \in job[k].done
      BY <2>3 DEF Idle
    <3> QED BY <2>2, <2>3, <3>1, <3>2, <3>3 DEF Credited, s
  <2> QED BY <1>5, <2>6, <2>7, <2>8, <2>9 DEF IInv, CreditsAccounted, Commit
<1>6. ASSUME NEW j \in Jobs, Crash(j)
      PROVE  IInv'
  <2>1. job' \in [Jobs -> Snapshot \cup {Idle}] /\ job'[j] = Idle /\ \A k \in Jobs \ {j} : job'[k] = job[k]
    BY <1>6 DEF Crash, IInv, Typed
  <2>2. UNCHANGED <<entry, queue, credited>> /\ faults' = faults + 1
    BY <1>6 DEF Crash, Fault
  <2>3. Typed' /\ \A b \in Bonuses : RowsAgree(entry'[b], queue'[b])
    BY <2>1, <2>2 DEF IInv, Typed
  <2>4. RunsOwnRows'
    BY <2>1, <2>2 DEF IInv, RunsOwnRows, Holds, Candidates, Idle
  <2>5. \A b \in Bonuses : Credited(b)' => Credited(b)
    BY <2>1, <2>2 DEF Credited, Idle
  <2>6. CreditsAccounted'
    BY <2>2, <2>5 DEF IInv, CreditsAccounted, Typed
  <2> QED BY <2>3, <2>4, <2>6 DEF IInv
<1>7. CASE UNCHANGED vars
  BY <1>7 DEF vars, IInv, Typed, RunsOwnRows, Holds, Candidates, CreditsAccounted, Credited
<1> QED BY <1>1, <1>2, <1>3, <1>4, <1>5, <1>6, <1>7 DEF Next, Run

-----------------------------------------------------------------------------
THEOREM Invariant == Spec => []IInv
<1>1. Init => IInv
  BY InitInv
<1>2. IInv /\ [Next]_vars => IInv'
  BY InvStep
<1> QED BY <1>1, <1>2, PTL DEF Spec

(* Entries, queue rows and the copies runs work on keep the types of their *)
(* columns: the retry count never passes max_retries, whichever of the two *)
(* services has counted it.                                                *)
THEOREM TypeCorrect == Spec => []TypeOK
<1>1. IInv => TypeOK
  <2> SUFFICES ASSUME IInv PROVE TypeOK
    OBVIOUS
  <2>1. \A j \in Jobs : job[j] \in Snapshot \cup {Idle}
    BY DEF IInv, Typed
  <2> QED BY <2>1 DEF TypeOK, IInv, Typed, Snapshot, Idle
<1> QED BY <1>1, Invariant, PTL

(* A wallet is credited once for a confirmed bonus and for no other, up to *)
(* one credit for each crash or lost answer, while closing and retry runs  *)
(* overlap in any way.                                                     *)
THEOREM CreditsAreAccounted == Spec => []CreditsAccounted
<1>1. IInv => CreditsAccounted
  BY DEF IInv
<1> QED BY <1>1, Invariant, PTL

(* mark_confirmed, schedule_retry and mark_failed of both services leave   *)
(* the two tables telling the same of every bonus.                         *)
THEOREM QueueFollows == Spec => []QueueFollowsEntry
<1>1. IInv => QueueFollowsEntry
  BY MaxRetriesAssumption DEF IInv, RowsAgree, QueueFollowsEntry
<1> QED BY <1>1, Invariant, PTL

-----------------------------------------------------------------------------
(* Every commit of a run is a settlement that BonusPayout allows, every    *)
(* credit one of what is owed, and everything else is invisible: the part  *)
(* of ImplementsBonusPayout that is not liveness.                          *)
THEOREM Refinement == Spec => Payout!Safety
<1> DEFINE phase == [b \in Bonuses |-> PhaseOf(entry[b].status)]
<1>1. Init => Payout!Init
  BY DEF Init, Payout!Init, PhaseOf
<1>2. IInv /\ [Next]_vars => [Payout!Next]_(Payout!vars)
  <2> SUFFICES ASSUME IInv, [Next]_vars
               PROVE  Payout!Next \/ UNCHANGED <<phase, credited>>
    BY DEF Payout!vars
  <2>a. entry \in [Bonuses -> EntryRow] /\ credited \in [Bonuses -> Nat]
    BY DEF IInv, Typed
  <2>1. ASSUME NEW b \in Bonuses, RecordBonus(b)
        PROVE  Payout!Owe(b)
    <3>1. entry[b].status = "absent" /\ entry'[b].status = "PENDING"
      BY <2>1, <2>a DEF RecordBonus, EntryRow
    <3>2. \A c \in Bonuses \ {b} : entry'[c] = entry[c]
      BY <2>1, <2>a DEF RecordBonus
    <3>3. PhaseOf(entry[b].status) = "none" /\ PhaseOf(entry'[b].status) = "owed"
      BY <3>1 DEF PhaseOf
    <3> DEFINE next == [c \in Bonuses |-> PhaseOf(entry'[c].status)]
    <3>4. phase[b] = "none" /\ next = [phase EXCEPT ![b] = "owed"]
      <4>1. phase[b] = "none"
        BY <3>3
      <4>2. \A c \in Bonuses : next[c] = IF c = b THEN "owed" ELSE phase[c]
        BY <3>2, <3>3
      <4>3. DOMAIN next = Bonuses /\ DOMAIN phase = Bonuses
        OBVIOUS
      <4>4. next = [c \in Bonuses |-> next[c]]
        OBVIOUS
      <4> HIDE DEF next, phase
      <4> QED BY <4>1, <4>2, <4>3, <4>4
    <3>6. phase' = next
      BY DEF PhaseOf
    <3>5. UNCHANGED credited
      BY <2>1 DEF RecordBonus
    <3> HIDE DEF phase, next
    <3> QED BY <3>4, <3>5, <3>6 DEF Payout!Owe, phase
  <2>2. ASSUME NEW j \in Jobs, NEW b \in Bonuses, Credit(j, b) \/ CreditLost(j, b)
        PROVE  Payout!Move(b)
    <3>1. entry[b].status \in {"PENDING", "RETRY"}
      BY <2>2, HeldRows DEF Credit, CreditLost, Holds
    <3>2. phase[b] = "owed"
      BY <3>1 DEF PhaseOf
    <3> QED BY <2>2, <3>2 DEF Payout!Move, Credit, CreditLost
  <2>3. ASSUME NEW j \in Jobs, Commit(j)
        PROVE  Payout!Next
    <3> DEFINE s == job[j]
               pay == {b \in s.done : s.entry[b].status = "CONFIRMED"}
               waive == {b \in s.done : s.entry[b].status = "FAILED"}
    <3>1. s.done \subseteq Bonuses
      BY HeldRows DEF Holds
    <3>2. \A b \in s.done : s.entry[b].status \in {"RETRY", "CONFIRMED", "FAILED"}
      BY DEF IInv, RunsOwnRows
    <3>3. \A b \in s.done : entry[b].status \in {"PENDING", "RETRY"}
      BY <3>1, HeldRows DEF Holds
    <3>4. \A b \in s.done : phase[b] = "owed"
      BY <3>1, <3>3 DEF PhaseOf
    <3>5. \A b \in pay : credited[b] > 0
      BY <2>a, <3>1 DEF IInv, Typed, CreditsAccounted, Credited
    <3>6. entry' = [b \in Bonuses |-> IF b \in s.done THEN s.entry[b] ELSE entry[b]]
      BY <2>3, <2>a DEF Commit, Override
    <3>7. phase' = [b \in Bonuses |-> IF b \in pay THEN "paid" ELSE IF b \in waive THEN "waived" ELSE phase[b]]
      <4> SUFFICES ASSUME NEW b \in Bonuses
                   PROVE  PhaseOf(entry'[b].status) =
                            IF b \in pay THEN "paid" ELSE IF b \in waive THEN "waived" ELSE phase[b]
        OBVIOUS
      <4>1. CASE b \in s.done
        BY <3>2, <3>3, <3>6, <4>1 DEF PhaseOf
      <4>2. CASE b \notin s.done
        BY <3>6, <4>2
      <4> QED BY <4>1, <4>2
    <3>8. pay \in SUBSET Bonuses /\ waive \in SUBSET Bonuses /\ pay \cap waive = {}
      BY <3>1
    <3>9. UNCHANGED credited
      BY <2>3 DEF Commit
    <3> HIDE DEF phase
    <3>10. Payout!Settle(pay, waive)
      BY <3>4, <3>5, <3>7, <3>8, <3>9 DEF Payout!Settle, phase
    <3> HIDE DEF pay, waive
    <3> QED BY <3>8, <3>10 DEF Payout!Next
  <2>4. ASSUME NEW j \in Jobs, NEW b \in Bonuses, CreditRaises(j, b)
        PROVE  UNCHANGED <<phase, credited>>
    BY <2>4 DEF CreditRaises
  <2>5. CASE UNCHANGED vars
    BY <2>5 DEF vars
  <2>6. ASSUME NEW b \in Bonuses, Elapse(b)
        PROVE  UNCHANGED <<phase, credited>>
    BY <2>6 DEF Elapse
  <2>7. ASSUME NEW j \in Jobs, Start(j) \/ Crash(j)
        PROVE  UNCHANGED <<phase, credited>>
    BY <2>7 DEF Start, Crash
  <2> HIDE DEF phase
  <2> QED BY <2>1, <2>2, <2>3, <2>4, <2>5, <2>6, <2>7 DEF Next, Run, Payout!Next
<1> QED BY <1>1, <1>2, Invariant, PTL DEF Spec, Payout!Safety
=============================================================================
