----------------------------- MODULE AegmallOrders -----------------------------
(***************************************************************************)
(* AegmallOrderService (core/commerce_service.py) and the BonusPipeline it  *)
(* runs (core/bonus_pipeline.py, core/bonus.py) for one inbound order per   *)
(* session (aegmall_order_service_scope).  Bonuses become rows of           *)
(* bonus_transactions; BonusSettlement takes them from there.               *)
(*                                                                         *)
(* The session flushes what it has added before every query, so the key,    *)
(* order and bonus rows of a session meet the unique indexes at the first   *)
(* query of a pipeline attempt, and a session whose flush failed only       *)
(* raises from then on.                                                     *)
(***************************************************************************)
EXTENDS Integers, FiniteSets, Sequences

CONSTANTS Payloads,    \* inbound orders: [key, order, user, hash, centers]
          Unilevel,    \* [users -> how many ancestors, at most 10, or Unregistered]
          Binary,      \* the same in the binary tree, at most 20
          IdsRestart,  \* the id factory of a pipeline counts from 1 (the default one does)
          Workers,
          Attempts,    \* RetryConfig.attempts
          MaxRequests, \* bound of the model: sessions ever begun
          MaxFaults    \* bound of the model: transient errors and crashes

Unregistered == -1
Nothing == [key |-> "none", order |-> "none", user |-> "none", hash |-> 0, centers |-> {}]

ASSUME OrdersAssumption ==
  /\ Nothing \notin Payloads
  /\ \A p \in Payloads :
       {Unilevel[p.user], Binary[p.user]} \subseteq Nat \cup {Unregistered}
  /\ Attempts \in Nat \ {0}

ScopedKeys == {<<p.user, p.key>> : p \in Payloads}  \* scope aegmall:<user> and key
Orders == {p.order : p \in Payloads}

VARIABLES key,      \* committed idempotency_keys rows
          order,    \* committed commerce_orders rows
          bonus,    \* committed bonus_transactions rows
          session,  \* the request each worker is in
          begun,    \* sessions begun, which numbers their pipelines
          faults    \* bound of the model

tables == <<key, order, bonus>>
vars == <<key, order, bonus, session, begun, faults>>

Idle == [step |-> "idle", p |-> Nothing, pipeline |-> 0, newKey |-> FALSE, newOrder |-> FALSE,
         flushed |-> FALSE, rows |-> {}, tries |-> 0]

Init ==
  /\ key = [k \in ScopedKeys |-> [status |-> "absent", payload |-> Nothing]]
  /\ order = [o \in Orders |-> Nothing]
  /\ bonus = {}
  /\ session = [w \in Workers |-> Idle]
  /\ begun = 0 /\ faults = 0

At(w, step) == session[w].step = step
Continue(w, s) == session' = [session EXCEPT ![w] = s] /\ UNCHANGED tables
Fault == faults < MaxFaults /\ faults' = faults + 1
KeyOf(s) == <<s.p.user, s.p.key>>

-----------------------------------------------------------------------------
(* Mutant: a key that has succeeded is processed again.                    *)
Accepted_Again(row, p) == row.status = "absent" \/ row.payload = p

(* A key reused with another payload, or one that has succeeded, ends the  *)
(* request at once (409, or the stored order again).                       *)
Accepted(row, p) == row.status = "absent" \/ (row.payload = p /\ row.status # "SUCCEEDED")

Begin(w, p) ==
  LET row == key[<<p.user, p.key>>] IN
  /\ At(w, "idle")
  /\ begun < MaxRequests
  /\ Accepted(row, p)
  /\ begun' = begun + 1
  /\ Continue(w, [Idle EXCEPT !.step = "attempt", !.p = p, !.pipeline = begun',
                              !.newKey = row.status = "absent",
                              !.newOrder = order[p.order] = Nothing])
  /\ UNCHANGED faults

-----------------------------------------------------------------------------
(* BonusPipeline.                                                          *)

BonusId(s, n) == <<IF IdsRestart THEN 0 ELSE s.pipeline, n>>

Row(s, n, type, level) ==
  [id |-> BonusId(s, Cardinality(s.rows) + n), key |-> KeyOf(s), order |-> s.p.order,
   pipeline |-> s.pipeline, type |-> type, level |-> level]

(* BonusService.distribute: one bonus for each ancestor                    *)
Distributed(s, type, n) == [s EXCEPT !.rows = @ \cup {Row(s, l, type, l) : l \in 1 .. n}]

(* The buyer's share, and the centers the metadata names.                  *)
DirectTypes(p) ==
  LET named(t) == IF t \in p.centers THEN <<t>> ELSE <<>> IN
  <<"share">> \o named("center") \o named("center_referral")

Direct(s) ==
  LET types == DirectTypes(s.p) IN
  [s EXCEPT !.rows = @ \cup {Row(s, i, types[i], 0) : i \in DOMAIN types}]

(* A flush of what the session added would break a unique index.           *)
Collides(s) ==
  \/ s.newKey /\ key[KeyOf(s)].status # "absent"
  \/ s.newOrder /\ order[s.p.order] # Nothing
  \/ \E x \in s.rows, y \in bonus : x.id = y.id

(* Mutant: sessions also wait for those that have written nothing yet.     *)
Blocks_Unflushed(s, t) == t.step # "idle" /\ (KeyOf(t) = KeyOf(s) \/ t.p.order = s.p.order)

(* The unique indexes make a session wait for another one that has flushed *)
(* the same key, order or bonus id and not ended.                          *)
Blocks(s, t) ==
  /\ t.flushed
  /\ \/ KeyOf(t) = KeyOf(s) \/ t.p.order = s.p.order
     \/ IdsRestart /\ t.rows # {}

Free(w) == \A v \in Workers \ {w} : ~Blocks(session[w], session[v])

(* Mutants: one attempt too many; any error counts as processed.           *)
Retried_OneMore(s, error) ==
  [s EXCEPT !.tries = @ + 1,
            !.step = IF s.tries < Attempts THEN "attempt"
                     ELSE IF error = "ValueError" THEN "finish" ELSE "raise"]
Retried_Swallowed(s, error) == [s EXCEPT !.tries = @ + 1, !.step = "finish"]

(* The order counts as processed without bonuses when the last error is a  *)
(* ValueError.  The next attempt adds to the rows of this one.             *)
Retried(s, error) ==
  [s EXCEPT !.tries = @ + 1,
            !.step = IF s.tries + 1 < Attempts THEN "attempt"
                     ELSE IF error = "ValueError" THEN "finish" ELSE "raise"]

(* process_order: recommend bonuses, then sponsor bonuses, then the direct *)
(* ones.  distribute raises ValueError for a user its tree does not have.  *)
Attempted(s) ==
  LET user == s.p.user
      recommended == Distributed(s, "recommend", Unilevel[user])
      sponsored == Distributed(recommended, "sponsor", Binary[user]) IN
  CASE Collides(s) -> [s EXCEPT !.step = "raise"]
    [] ~Collides(s) /\ Unilevel[user] = Unregistered -> Retried(s, "ValueError")
    [] ~Collides(s) /\ Unilevel[user] # Unregistered /\ Collides(recommended) ->
         [recommended EXCEPT !.step = "raise"]
    [] OTHER -> IF Binary[user] = Unregistered THEN Retried(recommended, "ValueError")
                ELSE [Direct(sponsored) EXCEPT !.step = "finish"]

Attempt(w) ==
  /\ At(w, "attempt") /\ Free(w)
  /\ Continue(w, Attempted([session[w] EXCEPT !.flushed = TRUE]))
  /\ UNCHANGED <<begun, faults>>

(* A query fails before or after the recommend bonuses, and the next one   *)
(* may succeed.                                                            *)
AttemptFails(w) ==
  LET s == [session[w] EXCEPT !.flushed = TRUE] IN
  /\ At(w, "attempt") /\ Free(w)
  /\ ~Collides(s)
  /\ \/ Continue(w, Retried(s, "Error"))
     \/ /\ Unilevel[s.p.user] # Unregistered
        /\ Continue(w, Retried(Distributed(s, "recommend", Unilevel[s.p.user]), "Error"))
  /\ Fault
  /\ UNCHANGED begun

-----------------------------------------------------------------------------
(* mark_status(SUCCEEDED), and the session commits                         *)
Finish(w) ==
  LET s == session[w] IN
  /\ At(w, "finish") /\ Free(w)
  /\ IF Collides(s) THEN Continue(w, [s EXCEPT !.step = "raise"])
     ELSE /\ key' = [key EXCEPT ![KeyOf(s)] = [status |-> "SUCCEEDED", payload |-> s.p]]
          /\ order' = [order EXCEPT ![s.p.order] = s.p]
          /\ bonus' = bonus \cup s.rows
          /\ session' = [session EXCEPT ![w] = Idle]
  /\ UNCHANGED <<begun, faults>>

(* Mutant: a request that failed leaves a key that counts as processed.    *)
Raise_Processed(w) ==
  /\ At(w, "raise")
  /\ key' = [key EXCEPT ![KeyOf(session[w])] = [status |-> "SUCCEEDED", payload |-> session[w].p]]
  /\ session' = [session EXCEPT ![w] = Idle]
  /\ UNCHANGED <<order, bonus, begun, faults>>

(* mark_status(FAILED), and the exception that follows it rolls it back    *)
Raise(w) ==
  /\ At(w, "raise")
  /\ Continue(w, Idle)
  /\ UNCHANGED <<begun, faults>>

Crash(w) ==
  /\ ~At(w, "idle")
  /\ Continue(w, Idle)
  /\ Fault
  /\ UNCHANGED begun

-----------------------------------------------------------------------------
Work(w) == Attempt(w) \/ AttemptFails(w) \/ Finish(w) \/ Raise(w)

Next == \E w \in Workers : (\E p \in Payloads : Begin(w, p)) \/ Work(w) \/ Crash(w)

(* A request goes on, and the database queues those who wait for an index  *)
(* entry.                                                                  *)
Fairness == \A w \in Workers : WF_vars(Work(w)) /\ SF_vars(Attempt(w)) /\ SF_vars(Finish(w))

Spec == Init /\ [][Next]_vars /\ Fairness

-----------------------------------------------------------------------------
Levels(x) == <<x.type, x.level>>
RowsOf(k) == {x \in bonus : x.key = k}

(* What the rules give for an order of a user in both trees.               *)
Due(p) ==
  ({"recommend"} \X (1 .. Unilevel[p.user])) \cup ({"sponsor"} \X (1 .. Binary[p.user]))
    \cup {<<DirectTypes(p)[i], 0>> : i \in DOMAIN DirectTypes(p)}

InBothTrees(u) == Unilevel[u] # Unregistered /\ Binary[u] # Unregistered

(* Rows have their types, and no two bonuses have one id.                  *)
TypeOK ==
  /\ \A k \in ScopedKeys : key[k].status \in {"absent", "SUCCEEDED"}
  /\ \A k \in ScopedKeys : key[k].payload \in Payloads \cup {Nothing}
  /\ order \in [Orders -> Payloads \cup {Nothing}]
  /\ \A x, y \in bonus : x.id = y.id => x = y
  /\ \A w \in Workers :
       session[w].step \in {"idle", "attempt", "finish", "raise"} /\ session[w].tries \in 0 .. Attempts

(* The key is on record as processed.  Reused with another payload, it is   *)
(* refused and stays as it is; docs/planning/integration_strategy.md:61    *)
(* says that the conflict is recorded on it.  Either would do for the       *)
(* properties below.                                                       *)
HasProcessed(k) == key[k].status \in {"SUCCEEDED", "FAILED_CONFLICT"}

(* However often and from wherever a request is repeated, the bonuses of   *)
(* its key come from one session, and the payload they were computed from  *)
(* is the one the key remembers.                                           *)
OneSessionPerKey ==
  \A k \in ScopedKeys :
    /\ \A x, y \in RowsOf(k) : x.pipeline = y.pipeline
    /\ RowsOf(k) # {} => HasProcessed(k)
    /\ \A x \in RowsOf(k) : x.order = key[k].payload.order

(* A key that has succeeded leads to a stored order, so repeating it is    *)
(* always answered; no order is stored that no key was processed for, and  *)
(* the key remembers the payload of the order whatever it is reused with.  *)
KeysAndOrdersAgree ==
  /\ \A k \in ScopedKeys : key[k].status = "SUCCEEDED" => order[key[k].payload.order] # Nothing
  /\ \A o \in Orders : order[o] # Nothing =>
       LET k == <<order[o].user, order[o].key>> IN
       HasProcessed(k) /\ key[k].payload = order[o]

(* An order of a user in both trees gets every bonus the rules give, none  *)
(* of them twice unless an attempt failed halfway, whatever ran beside it. *)
BonusesComplete ==
  \A k \in ScopedKeys : key[k].status = "SUCCEEDED" /\ InBothTrees(key[k].payload.user) =>
    /\ {Levels(x) : x \in RowsOf(k)} = Due(key[k].payload)
    /\ faults = 0 => Cardinality(RowsOf(k)) = Cardinality(Due(key[k].payload))

(* Every request ends, also those that wait for one another's rows.        *)
RequestsEnd == \A w \in Workers : ~At(w, "idle") ~> At(w, "idle")

(* docs/planning/organization_bonus_design.md:108: each level of ancestors *)
(* gets its percentage of an order, once.                                  *)
OneBonusPerLevel ==
  \A x, y \in bonus : x.key = y.key /\ Levels(x) = Levels(y) => x = y
=============================================================================
