------------------------- MODULE WithdrawalSoloProofs -------------------------
(***************************************************************************)
(* WithdrawalWorkflow with one process: what the trail, the receipts, the  *)
(* risk tables and the points say of one another, for any requests, users, *)
(* amounts, limits, attempts and faults.  With more processes the order of *)
(* approvals is lost (the run one_approver).                               *)
(***************************************************************************)
EXTENDS WithdrawalWorkflowProofs

(* One process, if any.                                                    *)
Alone == \A v, w \in Workers : v = w

(* What a session is about to commit, against the tables it has read: they *)
(* cannot have changed since.                                              *)
OpenedLog(s) == <<Entry("requested", s.q.owner, "pending")>>

AsksFor(s) ==
  LET found == Findings(s.q.amount, s.from, devices[s.q.owner]) IN
  /\ s.step \in {"update", "flush", "risk", "commit"} /\ ~s.acked
  /\ s.q.amount \in Amounts /\ s.q.amount > 0 /\ s.q.stage1 = Nobody
  /\ s.row.balance = wallet[s.q.owner].balance
  /\ s.step # "commit" => s.q.status = "pending" /\ s.found = {} /\ s.seen = {} /\ s.log = OpenedLog(s)
  /\ s.step = "commit" =>
       /\ s.found = found /\ s.seen = Stored(s.from, devices[s.q.owner])
       /\ \/ Blocked(found) /\ s.q.status = "cancelled"
             /\ s.log = Append(OpenedLog(s), Entry("cancelled", Nobody, "cancelled"))
          \/ ~Blocked(found) /\ RequiresReview(found) /\ s.q.status = "pending"
             /\ s.log = Append(OpenedLog(s), Entry("flagged", Nobody, "pending"))
          \/ found = {} /\ s.q.status = "pending" /\ s.log = OpenedLog(s)

Marks(s) ==
  /\ s.step \in {"update", "flush", "commit"} /\ ~s.acked /\ request[s.r].status = "pending"
  /\ s.q.status = "approved_pending" /\ s.q.stage1 = s.by /\ s.q.amount = request[s.r].amount
  /\ s.found = {} /\ s.seen = {}
  /\ s.log = <<Entry("approved_stage1", s.by, "approved_pending")>>

Closes(s) ==
  /\ s.step \in {"update", "flush", "commit"} /\ ~s.acked /\ request[s.r].status = "pending"
  /\ s.q.status \in {"rejected", "cancelled"} /\ s.q.amount = request[s.r].amount
  /\ s.row.balance = wallet[s.q.owner].balance
  /\ s.found = {} /\ s.seen = {}
  /\ s.log = <<Entry(s.q.status, s.by, s.q.status)>>

Verdict(s) == IF s.pays = "coinless" THEN "failed" ELSE "approved"

Settles(s) ==
  /\ s.q.status = "approved" /\ s.row.balance = wallet[s.q.owner].balance - s.q.amount
  /\ s.log = <<Entry(Verdict(s), s.by, "approved")>>

Finishes(s) ==
  /\ s.step \in {"read", "update", "flush", "call", "alert", "fail", "commit"}
  /\ request[s.r].status \notin {"none", "pending"}
  /\ request[s.r].status = "approved_pending" => request[s.r].stage1 # s.by
  /\ s.step # "read" => request[s.r].status = "approved_pending"
  /\ s.found = {} /\ s.seen = {}
  /\ s.pays = "coin" \/ s.pays = route[s.r]
  /\ s.step # "read" => s.q.amount = request[s.r].amount
  /\ s.step \in {"update", "flush", "call", "alert", "fail"} => Settles(s) /\ ~s.acked
  /\ s.step \in {"call", "alert", "fail"} => s.pays = "coin"
  /\ s.step = "commit" =>
       \/ Settles(s) /\ (s.acked <=> s.pays = "coin")
       \/ /\ s.q.status = "failed" /\ ~s.acked /\ s.row.balance = wallet[s.q.owner].balance
          /\ s.log = <<Entry("failed", s.by, "failed")>>

Current(s) ==
  s.step = "flush" =>
    /\ s.qset = Differing(request[s.r], s.q)
    /\ s.op # "stage1" => s.rowset = Differing(wallet[s.q.owner], s.row)

Working(s) ==
  s.step # "idle" =>
    /\ Current(s)
    /\ \/ s.op = "request" /\ AsksFor(s)
       \/ s.op = "stage1" /\ Marks(s)
       \/ s.op = "close" /\ Closes(s)
       \/ s.op = "final" /\ Finishes(s)

(* What the tables say of a request.                                       *)
Flagged(r) == \E i \in DOMAIN audit[r] : audit[r][i].action = "flagged"

Untouched(r) ==
  request[r].status = "none" => audit[r] = <<>> /\ events[r] = {}

Approvals(r) ==
  /\ request[r].status = "pending" => request[r].stage1 = Nobody
  /\ request[r].status = "approved_pending" =>
       \E j \in DOMAIN audit[r] : audit[r][j].action = "approved_stage1" /\ audit[r][j].actor = request[r].stage1

Paying(r) ==
  /\ request[r].status \notin {"approved_pending", "approved", "failed"} => paid[r] = 0
  /\ receipts[r] = 0 \/ (receipts[r] = 1 /\ request[r].status = "approved")
  /\ request[r].status = "approved" =>
       /\ route[r] = "coin" => receipts[r] = 1
       /\ Last(audit[r]).action = "failed" <=> route[r] = "coinless" /\ receipts[r] = 0

TrailEnds(r) ==
  IF request[r].status = "none" THEN audit[r] = <<>>
  ELSE audit[r] # <<>> /\ Last(audit[r]).status = request[r].status

TwoPeople(r) ==
  \A i \in DOMAIN audit[r] :
    audit[r][i].action \in {"approved", "failed"} =>
      \E j \in 1 .. i - 1 :
        audit[r][j].action = "approved_stage1" /\ audit[r][j].actor # audit[r][i].actor

Screens(r) ==
  /\ Blocked(events[r]) => request[r].status = "cancelled"
  /\ RequiresReview(events[r]) /\ ~Blocked(events[r]) <=> Flagged(r)

Recorded(r) == Untouched(r) /\ Approvals(r) /\ Paying(r) /\ TrailEnds(r) /\ TwoPeople(r) /\ Screens(r)

Solo == (\A w \in Workers : Working(session[w])) /\ (\A r \in Requests : Recorded(r))

-----------------------------------------------------------------------------
(* ---- steps that leave the tables alone ---- *)
LEMMA WorkingStep ==
  ASSUME IInv, Solo, NEW w \in Workers, NEW s, Working(s),
         session' = [session EXCEPT ![w] = s], UNCHANGED tables,
         \A r \in Requests : paid'[r] = paid[r] \/ request[r].status = "approved_pending"
  PROVE  Solo'
<1>1. session'[w] = s /\ \A v \in Workers \ {w} : session'[v] = session[v]
  BY DEF IInv, Typed
<1>2. \A v \in Workers : Working(session'[v])
  BY <1>1 DEF Solo
<1>3. ASSUME NEW v \in Workers PROVE Working(session[v])'
  <2>1. /\ UNCHANGED wallet /\ UNCHANGED request /\ UNCHANGED route /\ UNCHANGED devices
    BY DEF tables
  <2>2. AsksFor(session[v])' <=> AsksFor(session'[v])
    BY <2>1 DEF AsksFor, OpenedLog
  <2>3. Marks(session[v])' <=> Marks(session'[v])
    BY <2>1 DEF Marks
  <2>4. Closes(session[v])' <=> Closes(session'[v])
    BY <2>1 DEF Closes
  <2>5. Finishes(session[v])' <=> Finishes(session'[v])
    BY <2>1 DEF Finishes, Settles, Verdict
  <2>6. Current(session[v])' <=> Current(session'[v])
    BY <2>1 DEF Current
  <2> QED BY <1>2, <2>2, <2>3, <2>4, <2>5, <2>6 DEF Working
<1>4. \A r \in Requests : Recorded(r)'
  BY DEF Solo, tables, Recorded, Untouched, Approvals, Paying, TrailEnds, TwoPeople, Screens, Flagged
<1> QED BY <1>3, <1>4 DEF Solo

LEMMA RollBackSolo ==
  ASSUME IInv, Solo, NEW w \in Workers, RollBack(w), UNCHANGED paid
  PROVE  Solo'
<1>1. Working(Idle)
  BY IdleFacts DEF Working
<1> QED BY <1>1, WorkingStep DEF RollBack, Continue

(* ---- calls that begin ---- *)
LEMMA BeginRequestSolo ==
  ASSUME IInv, Solo, NEW w \in Workers, NEW r \in Requests, NEW u \in Users, NEW a \in Amounts, NEW how \in Routes,
         NEW from \in Origins, BeginRequest(w, r, u, a, how, from)
  PROVE  Solo'
<1> DEFINE q == Opened(u, a)
           row == Held(wallet[u], a)
           log == <<Entry("requested", u, "pending")>>
           s == [Idle EXCEPT !.step = "update", !.op = "request", !.r = r, !.by = u, !.pays = how,
                             !.from = from, !.q = q, !.row = row, !.log = log]
<1>1. session' = [session EXCEPT ![w] = s] /\ UNCHANGED tables /\ UNCHANGED paid /\ a > 0
  BY DEF BeginRequest, Begin, outside, CanRequest
<1>2. a \in Nat /\ a \in Int
  BY <1>1, WorkflowAssumption
<1>3. q.status = "pending" /\ q.owner = u /\ q.amount = a /\ q.stage1 = Nobody
  BY <1>2, OpenedType
<1>4. row.balance = wallet[u].balance
  BY <1>2, WalletTypes DEF IInv, Typed
<1> HIDE DEF q, row, log
<1>5. /\ s.step = "update" /\ s.op = "request" /\ s.q = q /\ s.row = row /\ s.log = log /\ ~s.acked
      /\ s.found = {} /\ s.seen = {}
  BY DEF Idle
<1> HIDE DEF s
<1>6. Working(s)
  BY <1>1, <1>3, <1>4, <1>5 DEF Working, Current, AsksFor, OpenedLog, log
<1> QED BY <1>1, <1>6, WorkingStep

LEMMA BeginStage1Solo ==
  ASSUME IInv, Solo, NEW w \in Workers, NEW r \in Requests, NEW by \in Actors, BeginStage1(w, r, by)
  PROVE  Solo'
<1> DEFINE q == Stage1Marked(request[r], by)
           log == <<Entry("approved_stage1", by, "approved_pending")>>
           s == [Idle EXCEPT !.step = "update", !.op = "stage1", !.r = r, !.by = by,
                             !.q = q, !.row = wallet[request[r].owner], !.log = log]
<1>1. session' = [session EXCEPT ![w] = s] /\ UNCHANGED tables /\ UNCHANGED paid /\ request[r].status = "pending"
  BY DEF BeginStage1, Begin, outside, CanMarkStage1
<1>2. request[r].stage1 = Nobody /\ request[r] \in RequestRow
  BY <1>1 DEF Solo, Recorded, Approvals, IInv, Typed
<1>3. q.status = "approved_pending" /\ q.stage1 = by /\ q.amount = request[r].amount
  BY <1>2, RequestTypes
<1> HIDE DEF q, log
<1>4. /\ s.step = "update" /\ s.op = "stage1" /\ s.r = r /\ s.by = by /\ s.q = q /\ s.log = log /\ ~s.acked
      /\ s.found = {} /\ s.seen = {}
  BY DEF Idle
<1> HIDE DEF s
<1>5. Working(s)
  BY <1>1, <1>3, <1>4 DEF Working, Current, Marks, log
<1> QED BY <1>1, <1>5, WorkingStep

LEMMA BeginCloseSolo ==
  ASSUME IInv, Solo, NEW w \in Workers, NEW r \in Requests, NEW by \in Actors, NEW st \in {"rejected", "cancelled"},
         BeginClose(w, r, by, st)
  PROVE  Solo'
<1> DEFINE q == Closed(request[r], st)
           row == Released(wallet[request[r].owner], request[r].amount)
           log == <<Entry(st, by, st)>>
           s == [Idle EXCEPT !.step = "update", !.op = "close", !.r = r, !.by = by,
                             !.q = q, !.row = row, !.log = log]
<1>1. session' = [session EXCEPT ![w] = s] /\ UNCHANGED tables /\ UNCHANGED paid /\ request[r].status = "pending"
  BY DEF BeginClose, Begin, outside, CanClose
<1>2. request[r] \in RequestRow /\ request[r].owner \in Users /\ request[r].amount \in Int
  BY <1>1 DEF IInv, Typed, RowsOwned, RequestRow
<1>3. st \in RequestStatus
  BY DEF RequestStatus
<1>4. q.status = st /\ q.amount = request[r].amount /\ q.owner = request[r].owner
  BY <1>2, <1>3, RequestTypes
<1>5. row.balance = wallet[request[r].owner].balance
  BY <1>2, WalletTypes DEF IInv, Typed
<1> HIDE DEF q, row, log
<1>6. /\ s.step = "update" /\ s.op = "close" /\ s.r = r /\ s.by = by /\ s.q = q /\ s.row = row /\ s.log = log /\ ~s.acked
      /\ s.found = {} /\ s.seen = {}
  BY DEF Idle
<1> HIDE DEF s
<1>7. Working(s)
  BY <1>1, <1>4, <1>5, <1>6 DEF Working, Current, Closes, log
<1> QED BY <1>1, <1>7, WorkingStep

LEMMA BeginFinalSolo ==
  ASSUME IInv, Solo, NEW w \in Workers, NEW r \in Requests, NEW by \in Actors, NEW named \in BOOLEAN,
         BeginFinal(w, r, by, named)
  PROVE  Solo'
<1> DEFINE pays == IF named THEN "coin" ELSE route[r]
           s == [Idle EXCEPT !.step = "read", !.op = "final", !.r = r, !.by = by, !.pays = pays]
<1>1. /\ session' = [session EXCEPT ![w] = s] /\ UNCHANGED tables /\ UNCHANGED paid
      /\ request[r].status \notin {"none", "pending"}
      /\ request[r].status = "approved_pending" => request[r].stage1 # by
  BY DEF BeginFinal, Begin, outside
<1>2. pays = "coin" \/ pays = route[r]
  OBVIOUS
<1> HIDE DEF pays
<1>3. /\ s.step = "read" /\ s.op = "final" /\ s.r = r /\ s.by = by /\ s.pays = pays /\ ~s.acked
      /\ s.found = {} /\ s.seen = {}
  BY DEF Idle
<1> HIDE DEF s
<1>4. Working(s)
  BY <1>1, <1>2, <1>3 DEF Working, Current, Finishes
<1> QED BY <1>1, <1>4, WorkingStep

(* ---- calls that go on ---- *)
(* With one process rows are written as they were computed.                *)
LEMMA WrittenAll ==
  /\ \A old, new \in RequestRow : Written(old, new, Differing(old, new)) = new
  /\ \A old, new \in WalletRow : Written(old, new, Differing(old, new)) = new
<1>1. ASSUME NEW old \in RequestRow, NEW new \in RequestRow PROVE Written(old, new, Differing(old, new)) = new
  <2>1. Written(old, new, Differing(old, new)) = [c \in RequestColumns |-> new[c]]
    BY Columns DEF Written, Differing
  <2>2. new = [c \in RequestColumns |-> new[c]]
    BY Columns DEF RequestRow, RequestColumns
  <2> QED BY <2>1, <2>2
<1>2. ASSUME NEW old \in WalletRow, NEW new \in WalletRow PROVE Written(old, new, Differing(old, new)) = new
  <2>1. Written(old, new, Differing(old, new)) = [c \in WalletColumns |-> new[c]]
    BY Columns DEF Written, Differing
  <2>2. new = [c \in WalletColumns |-> new[c]]
    BY Columns DEF WalletRow, WalletColumns
  <2> QED BY <2>1, <2>2
<1> QED BY <1>1, <1>2

LEMMA ReadForFinalSolo == ASSUME IInv, Solo, NEW w \in Workers, ReadForFinal(w) PROVE Solo'
<1> DEFINE o == session[w]
           old == request[o.r]
           q == Approved(old, o.by)
           row == Settled(wallet[old.owner], old.amount)
           log == <<Entry(Verdict(o), o.by, "approved")>>
           s == [o EXCEPT !.step = "update", !.q = q, !.row = row, !.log = log]
<1>1. o.step = "read" /\ UNCHANGED paid
  BY DEF ReadForFinal, At, outside
<1>2. RollBack(w) \/ (session' = [session EXCEPT ![w] = s] /\ UNCHANGED tables /\ CanApprove(wallet[old.owner], old))
  BY DEF ReadForFinal, Continue, Verdict
<1>3. /\ o \in SessionType /\ Sound(o) /\ old \in RequestRow /\ old.owner \in Users /\ old.amount \in Int
      /\ o.op = "final" /\ o.acked = FALSE
  <2>1. o \in SessionType /\ Sound(o) /\ old \in RequestRow /\ o.acked = FALSE /\ (o.op # "request" => old.owner \in Users)
    BY <1>1, InCall
  <2>2. o.op = "final"
    BY <1>1, <2>1 DEF Sound
  <2> QED BY <2>1, <2>2 DEF RequestRow
<1>4. Finishes(o)
  BY <1>1, <1>3 DEF Solo, Working
<1>5. CASE RollBack(w)
  BY <1>1, <1>5, RollBackSolo
<1>6. CASE session' = [session EXCEPT ![w] = s] /\ UNCHANGED tables /\ CanApprove(wallet[old.owner], old)
  <2>1. q.status = "approved" /\ q.owner = old.owner /\ q.amount = old.amount
    BY <1>3 DEF Approved, RequestRow
  <2>2. row.balance = wallet[old.owner].balance - old.amount
    BY <1>3, WalletTypes DEF IInv, Typed
  <2>3. log = <<Entry(Verdict(o), o.by, "approved")>> /\ old.status = "approved_pending"
    BY <1>4, <1>6 DEF CanApprove, Finishes
  <2> HIDE DEF q, row, log
  <2>4. /\ s.step = "update" /\ s.q = q /\ s.row = row /\ s.log = log /\ s.r = o.r /\ s.op = o.op /\ s.by = o.by
        /\ s.pays = o.pays /\ s.found = o.found /\ s.seen = o.seen /\ s.acked = o.acked
    BY <1>3 DEF SessionType
  <2> HIDE DEF s
  <2>5. Working(s)
    BY <1>1, <1>3, <1>4, <2>1, <2>2, <2>3, <2>4 DEF Working, Current, Finishes, Settles, Verdict
  <2> QED BY <1>1, <1>6, <2>5, WorkingStep
<1> QED BY <1>2, <1>5, <1>6

LEMMA UpdateSolo == ASSUME IInv, Solo, NEW w \in Workers, Update(w) PROVE Solo'
<1> DEFINE o == session[w]
           qset == Differing(request[o.r], o.q)
           rowset == IF o.op = "stage1" THEN {} ELSE Differing(wallet[o.q.owner], o.row)
           s == [o EXCEPT !.step = "flush", !.qset = qset, !.rowset = rowset]
<1>1. o.step = "update" /\ session' = [session EXCEPT ![w] = s] /\ UNCHANGED tables /\ UNCHANGED paid
  BY DEF Update, At, Continue, outside
<1>2. o \in SessionType /\ Working(o)
  BY DEF IInv, Typed, Solo
<1>3. qset = Differing(request[o.r], o.q) /\ (o.op # "stage1" => rowset = Differing(wallet[o.q.owner], o.row))
  OBVIOUS
<1> HIDE DEF qset, rowset
<1>4. /\ s.step = "flush" /\ s.qset = qset /\ s.rowset = rowset /\ s.q = o.q /\ s.row = o.row /\ s.log = o.log /\ s.r = o.r
      /\ s.op = o.op /\ s.by = o.by /\ s.pays = o.pays /\ s.from = o.from /\ s.found = o.found /\ s.seen = o.seen /\ s.acked = o.acked
  BY <1>2 DEF SessionType
<1> HIDE DEF s
<1>5. Current(s)
  BY <1>3, <1>4 DEF Current
<1>6. AsksFor(o) => AsksFor(s)
  BY <1>1, <1>4 DEF AsksFor, OpenedLog
<1>7. (Marks(o) => Marks(s)) /\ (Closes(o) => Closes(s))
  BY <1>1, <1>4 DEF Marks, Closes
<1>8. Finishes(o) => Finishes(s)
  BY <1>1, <1>4 DEF Finishes, Settles, Verdict
<1>9. Working(s)
  BY <1>1, <1>2, <1>4, <1>5, <1>6, <1>7, <1>8 DEF Working
<1> QED BY <1>1, <1>9, WorkingStep

LEMMA FlushSolo == ASSUME IInv, Solo, NEW w \in Workers, Flush(w) PROVE Solo'
<1> DEFINE o == session[w]
           q == Written(request[o.r], o.q, o.qset)
           row == Written(wallet[o.q.owner], o.row, o.rowset)
           step == NextStep(o)
           s == [o EXCEPT !.step = step, !.qset = {}, !.rowset = {}, !.q = q, !.row = row]
<1>1. o.step = "flush" /\ session' = [session EXCEPT ![w] = s] /\ UNCHANGED tables /\ UNCHANGED paid
  BY DEF Flush, At, Continue, outside
<1>2. /\ o \in SessionType /\ request[o.r] \in RequestRow /\ o.q \in RequestRow
      /\ wallet[o.q.owner] \in WalletRow /\ o.row \in WalletRow /\ o.acked = FALSE
  BY <1>1, InCall DEF SessionType
<1>3. Working(o) /\ Current(o)
  BY <1>1 DEF Solo, Working
<1>4. q = o.q
  BY <1>1, <1>2, <1>3, WrittenAll DEF Current
<1>5. o.op # "stage1" => row = o.row
  BY <1>1, <1>2, <1>3, WrittenAll DEF Current
<1>6. /\ o.op = "request" => step = "risk"
      /\ o.op = "final" => step = IF o.pays = "coin" THEN "call" ELSE "commit"
      /\ o.op \in {"stage1", "close"} => step = "commit"
  BY DEF NextStep
<1>7. step # "flush"
  BY DEF NextStep
<1> HIDE DEF q, row, step
<1>8. /\ s.step = step /\ s.q = q /\ s.row = row /\ s.log = o.log /\ s.r = o.r
      /\ s.op = o.op /\ s.by = o.by /\ s.pays = o.pays /\ s.from = o.from /\ s.found = o.found /\ s.seen = o.seen /\ s.acked = o.acked
  BY <1>2 DEF SessionType
<1> HIDE DEF s
<1>9. Current(s)
  BY <1>7, <1>8 DEF Current
<1>10. o.op = "request" /\ AsksFor(o) => AsksFor(s)
  BY <1>1, <1>4, <1>5, <1>6, <1>8 DEF AsksFor, OpenedLog
<1>11. o.op = "stage1" /\ Marks(o) => Marks(s)
  BY <1>1, <1>4, <1>6, <1>8 DEF Marks
<1>12. o.op = "close" /\ Closes(o) => Closes(s)
  BY <1>1, <1>4, <1>5, <1>6, <1>8 DEF Closes
<1>13. o.op = "final" /\ Finishes(o) => Finishes(s)
  <2> SUFFICES ASSUME o.op = "final", Finishes(o) PROVE Finishes(s)
    OBVIOUS
  <2>1. Settles(o) /\ Settles(s)
    BY <1>1, <1>4, <1>5, <1>8 DEF Finishes, Settles, Verdict
  <2> QED BY <1>1, <1>2, <1>4, <1>5, <1>6, <1>8, <2>1 DEF Finishes
<1>14. Working(s)
  BY <1>1, <1>3, <1>8, <1>9, <1>10, <1>11, <1>12, <1>13 DEF Working
<1> QED BY <1>1, <1>14, WorkingStep

(* ---- screening ---- *)
(* Only a request is screened, and this is what its session puts down.     *)
LEMMA ScreenedAsks ==
  ASSUME IInv, Solo, NEW w \in Workers, session[w].step = "risk", NEW s, s = Screened(w)
  PROVE  /\ session[w].op = "request" /\ AsksFor(session[w]) /\ session[w] \in SessionType
         /\ s \in SessionType /\ s.step = "commit" /\ s.q = session[w].q /\ s.row = session[w].row
         /\ s.op = session[w].op /\ s.log = session[w].log /\ s.acked = FALSE /\ s.from = session[w].from
         /\ s.found = Findings(s.q.amount, s.from, devices[s.q.owner])
         /\ s.seen = Stored(s.from, devices[s.q.owner])
<1> DEFINE o == session[w]
           found == Findings(o.q.amount, o.from, devices[o.q.owner])
           seen == Stored(o.from, devices[o.q.owner])
<1>1. o \in SessionType /\ Working(o)
  BY DEF IInv, Typed, Solo
<1>2. o.op = "request" /\ AsksFor(o)
  <2>1. ~Marks(o) /\ ~Closes(o) /\ ~Finishes(o)
    BY DEF Marks, Closes, Finishes
  <2> QED BY <1>1, <2>1 DEF Working
<1>3. s = [o EXCEPT !.step = "commit", !.found = found, !.seen = seen]
  BY DEF Screened
<1>4. /\ s \in SessionType /\ s.q = o.q /\ s.row = o.row /\ s.op = o.op /\ s.log = o.log /\ s.step = "commit" /\ s.acked = FALSE
  BY ScreenedFacts
<1>5. s.found = found /\ s.seen = seen /\ s.from = o.from
  <2> HIDE DEF found, seen
  <2> QED BY <1>1, <1>3 DEF SessionType
<1> QED BY <1>1, <1>2, <1>4, <1>5

(* Severities are the only ones there are.                                 *)
LEMMA FoundSomething ==
  ASSUME NEW f \in SUBSET Finding
  PROVE  (~Blocked(f) /\ ~RequiresReview(f)) <=> f = {}
BY DEF Finding, Blocked, RequiresReview

LEMMA ClearSolo == ASSUME IInv, Solo, NEW w \in Workers, Clear(w) PROVE Solo'
<1>1. PICK s : s = Screened(w)
  OBVIOUS
<1>2. session[w].step = "risk" /\ session' = [session EXCEPT ![w] = s] /\ UNCHANGED tables /\ UNCHANGED paid /\ s.found = {}
  BY <1>1 DEF Clear, At, Continue, outside
<1>3. /\ AsksFor(session[w]) /\ s.op = "request" /\ s.step = "commit" /\ s.q = session[w].q /\ s.row = session[w].row
      /\ s.log = session[w].log /\ s.acked = FALSE
      /\ s.found = Findings(s.q.amount, s.from, devices[s.q.owner])
      /\ s.seen = Stored(s.from, devices[s.q.owner])
  BY <1>1, <1>2, ScreenedAsks
<1>4. AsksFor(s)
  BY <1>2, <1>3 DEF AsksFor, OpenedLog
<1>5. Working(s)
  BY <1>3, <1>4 DEF Working, Current
<1> QED BY <1>2, <1>5, WorkingStep

LEMMA FlagSolo == ASSUME IInv, Solo, NEW w \in Workers, Flag(w) PROVE Solo'
<1>1. PICK t : t = Screened(w)
  OBVIOUS
<1> DEFINE log == Append(t.log, Entry("flagged", Nobody, "pending"))
           s == [t EXCEPT !.log = log]
<1>2. /\ session[w].step = "risk" /\ session' = [session EXCEPT ![w] = s] /\ UNCHANGED tables /\ UNCHANGED paid
      /\ RequiresReview(t.found) /\ ~Blocked(t.found)
  BY <1>1 DEF Flag, At, Continue, outside
<1>3. /\ AsksFor(session[w]) /\ t \in SessionType /\ t.op = "request" /\ t.step = "commit" /\ t.q = session[w].q
      /\ t.row = session[w].row /\ t.log = session[w].log /\ t.acked = FALSE
      /\ t.found = Findings(t.q.amount, t.from, devices[t.q.owner])
      /\ t.seen = Stored(t.from, devices[t.q.owner])
  BY <1>1, <1>2, ScreenedAsks
<1>4. t.log = OpenedLog(t)
  BY <1>2, <1>3 DEF AsksFor, OpenedLog
<1>5. log = Append(OpenedLog(t), Entry("flagged", Nobody, "pending"))
  BY <1>4
<1> HIDE DEF log
<1>6. /\ s.log = log /\ s.op = t.op /\ s.step = t.step /\ s.q = t.q /\ s.row = t.row /\ s.acked = t.acked
      /\ s.found = t.found /\ s.seen = t.seen /\ s.from = t.from
  BY <1>3 DEF SessionType
<1> HIDE DEF s
<1>7. OpenedLog(s) = OpenedLog(t)
  BY <1>6 DEF OpenedLog
<1>8. AsksFor(s)
  BY <1>2, <1>3, <1>5, <1>6, <1>7 DEF AsksFor
<1>9. Working(s)
  BY <1>3, <1>6, <1>8 DEF Working, Current
<1> QED BY <1>2, <1>9, WorkingStep

LEMMA BlockSolo == ASSUME IInv, Solo, NEW w \in Workers, Block(w) PROVE Solo'
<1>1. PICK t : t = Screened(w)
  OBVIOUS
<1> DEFINE q == Closed(t.q, "cancelled")
           row == Released(t.row, session[w].q.amount)
           log == Append(t.log, Entry("cancelled", Nobody, "cancelled"))
           s == [t EXCEPT !.q = q, !.row = row, !.log = log]
<1>2. session[w].step = "risk" /\ UNCHANGED paid /\ Blocked(t.found)
  BY <1>1 DEF Block, At, outside
<1>3. (session' = [session EXCEPT ![w] = s] /\ UNCHANGED tables) \/ RollBack(w)
  BY <1>1 DEF Block, Continue
<1>4. CASE RollBack(w)
  BY <1>2, <1>4, RollBackSolo
<1>5. CASE session' = [session EXCEPT ![w] = s] /\ UNCHANGED tables
  <2>1. /\ AsksFor(session[w]) /\ session[w] \in SessionType /\ t \in SessionType /\ t.op = "request" /\ t.step = "commit"
        /\ t.q = session[w].q /\ t.row = session[w].row /\ t.log = session[w].log /\ t.acked = FALSE
        /\ t.found = Findings(t.q.amount, t.from, devices[t.q.owner])
        /\ t.seen = Stored(t.from, devices[t.q.owner])
    BY <1>1, <1>2, ScreenedAsks
  <2>2. t.q \in RequestRow /\ t.row \in WalletRow /\ session[w].q.amount \in Int
    BY <2>1 DEF SessionType, RequestRow
  <2>3. "cancelled" \in RequestStatus
    BY DEF RequestStatus
  <2>4. q.status = "cancelled" /\ q.owner = t.q.owner /\ q.amount = t.q.amount
    BY <2>2, <2>3, RequestTypes
  <2>5. q.stage1 = t.q.stage1
    BY <2>2 DEF Closed, RequestRow
  <2>6. row.balance = t.row.balance
    BY <2>2, WalletTypes
  <2>7. t.log = OpenedLog(t)
    BY <1>2, <2>1 DEF AsksFor, OpenedLog
  <2>8. log = Append(OpenedLog(t), Entry("cancelled", Nobody, "cancelled"))
    BY <2>7
  <2> HIDE DEF q, row, log
  <2>9. /\ s.log = log /\ s.op = t.op /\ s.step = t.step /\ s.q = q /\ s.row = row /\ s.acked = t.acked
        /\ s.found = t.found /\ s.seen = t.seen /\ s.from = t.from
    BY <2>1 DEF SessionType
  <2> HIDE DEF s
  <2>10. OpenedLog(s) = OpenedLog(t)
    BY <2>4, <2>9 DEF OpenedLog
  <2>11. AsksFor(s)
    BY <1>2, <2>1, <2>4, <2>5, <2>6, <2>8, <2>9, <2>10 DEF AsksFor
  <2>12. Working(s)
    BY <2>1, <2>9, <2>11 DEF Working, Current
  <2> QED BY <1>2, <1>5, <2>12, WorkingStep
<1> QED BY <1>3, <1>4, <1>5

LEMMA ScreenUnalertedSolo == ASSUME IInv, Solo, NEW w \in Workers, ScreenUnalerted(w) PROVE Solo'
BY RollBackSolo DEF ScreenUnalerted

(* ---- payment ---- *)
(* Only a final approval pays.                                             *)
LEMMA OnlyFinishersPay ==
  ASSUME IInv, Solo, NEW w \in Workers, session[w].step \in {"call", "alert", "fail"}
  PROVE  /\ session[w].op = "final" /\ Finishes(session[w]) /\ session[w] \in SessionType
         /\ session[w].r \in Requests /\ request[session[w].r].status = "approved_pending"
         /\ Settles(session[w]) /\ session[w].pays = "coin"
<1>1. Working(session[w])
  BY DEF Solo
<1>2. ~AsksFor(session[w]) /\ ~Marks(session[w]) /\ ~Closes(session[w])
  BY DEF AsksFor, Marks, Closes
<1>3. session[w].op = "final" /\ Finishes(session[w])
  BY <1>1, <1>2 DEF Working
<1> QED BY <1>3, InCall DEF Finishes

LEMMA AttemptSolo ==
  ASSUME IInv, Solo, NEW w \in Workers, session[w].step = "call", NEW s, s = Attempted(session[w]),
         session' = [session EXCEPT ![w] = s], UNCHANGED tables,
         \A r \in Requests : paid'[r] = paid[r] \/ request[r].status = "approved_pending"
  PROVE  Solo'
<1> DEFINE o == session[w]
<1>1. /\ o.op = "final" /\ Finishes(o) /\ o \in SessionType /\ Settles(o) /\ o.pays = "coin"
  BY OnlyFinishersPay
<1>2. /\ s.step = "alert" /\ s.q = o.q /\ s.r = o.r /\ s.op = o.op /\ s.by = o.by /\ s.acked = FALSE
  BY AttemptFacts
<1>3. s.row = o.row /\ s.log = o.log /\ s.pays = o.pays /\ s.found = o.found /\ s.seen = o.seen
  BY <1>1 DEF Attempted, SessionType
<1>4. Settles(s)
  BY <1>1, <1>2, <1>3 DEF Settles, Verdict
<1>5. Finishes(s)
  BY <1>1, <1>2, <1>3, <1>4 DEF Finishes
<1>6. Working(s)
  BY <1>1, <1>2, <1>5 DEF Working, Current
<1> QED BY <1>6, WorkingStep

LEMMA RefusedSolo == ASSUME IInv, Solo, NEW w \in Workers, Refused(w) PROVE Solo'
<1>1. PICK s : s = Attempted(session[w])
  OBVIOUS
<1>2. session[w].step = "call" /\ session' = [session EXCEPT ![w] = s] /\ UNCHANGED tables /\ UNCHANGED paid
  BY <1>1 DEF Attempted, Refused, At, Continue, outside
<1> QED BY <1>1, <1>2, AttemptSolo

LEMMA PayingSome ==
  ASSUME IInv, Solo, NEW w \in Workers, session[w].step = "call", paid' = [paid EXCEPT ![session[w].r] = @ + 1],
         NEW r \in Requests
  PROVE  paid'[r] = paid[r] \/ request[r].status = "approved_pending"
BY OnlyFinishersPay DEF IInv, Typed

LEMMA AnswerLostSolo == ASSUME IInv, Solo, NEW w \in Workers, AnswerLost(w) PROVE Solo'
<1>1. PICK s : s = Attempted(session[w])
  OBVIOUS
<1>2. session[w].step = "call" /\ session' = [session EXCEPT ![w] = s] /\ UNCHANGED tables
  BY <1>1 DEF Attempted, AnswerLost, At, Continue
<1>3. paid' = [paid EXCEPT ![session[w].r] = @ + 1]
  BY DEF AnswerLost
<1>4. \A r \in Requests : paid'[r] = paid[r] \/ request[r].status = "approved_pending"
  BY <1>2, <1>3, PayingSome
<1> QED BY <1>1, <1>2, <1>4, AttemptSolo

LEMMA AnsweredSolo == ASSUME IInv, Solo, NEW w \in Workers, Answered(w) PROVE Solo'
<1> DEFINE o == session[w]
           s == [o EXCEPT !.step = "commit", !.acked = TRUE]
<1>1. o.step = "call" /\ session' = [session EXCEPT ![w] = s] /\ UNCHANGED tables /\ paid' = [paid EXCEPT ![o.r] = @ + 1]
  BY DEF Answered, At, Continue
<1>2. /\ o.op = "final" /\ Finishes(o) /\ o \in SessionType /\ Settles(o) /\ o.pays = "coin"
  BY <1>1, OnlyFinishersPay
<1>3. /\ s.step = "commit" /\ s.acked = TRUE /\ s.q = o.q /\ s.r = o.r /\ s.op = o.op /\ s.by = o.by
      /\ s.row = o.row /\ s.log = o.log /\ s.pays = o.pays /\ s.found = o.found /\ s.seen = o.seen
  BY <1>2 DEF SessionType
<1> HIDE DEF s
<1>4. Settles(s)
  BY <1>2, <1>3 DEF Settles, Verdict
<1>5. Finishes(s)
  BY <1>1, <1>2, <1>3, <1>4 DEF Finishes
<1>6. Working(s)
  BY <1>2, <1>3, <1>5 DEF Working, Current
<1>7. \A r \in Requests : paid'[r] = paid[r] \/ request[r].status = "approved_pending"
  BY <1>1, PayingSome
<1> QED BY <1>1, <1>6, <1>7, WorkingStep

LEMMA AlertSolo == ASSUME IInv, Solo, NEW w \in Workers, Alert(w) PROVE Solo'
<1>1. PICK x \in {"call", "fail"} : session' = [session EXCEPT ![w] = [session[w] EXCEPT !.step = x]]
  BY DEF Alert, Continue
<1> DEFINE o == session[w]
           s == [o EXCEPT !.step = x]
<1>2. o.step = "alert" /\ UNCHANGED tables /\ UNCHANGED paid /\ session' = [session EXCEPT ![w] = s]
  BY <1>1 DEF Alert, At, Continue
<1>3. /\ o.op = "final" /\ Finishes(o) /\ o \in SessionType /\ Settles(o) /\ o.pays = "coin"
  BY <1>2, OnlyFinishersPay
<1>4. /\ s.step = x /\ s.acked = o.acked /\ s.q = o.q /\ s.r = o.r /\ s.op = o.op /\ s.by = o.by
      /\ s.row = o.row /\ s.log = o.log /\ s.pays = o.pays /\ s.found = o.found /\ s.seen = o.seen
  BY <1>3 DEF SessionType
<1> HIDE DEF s
<1>5. Settles(s)
  BY <1>3, <1>4 DEF Settles, Verdict
<1>6. Finishes(s)
  BY <1>1, <1>2, <1>3, <1>4, <1>5 DEF Finishes
<1>7. Working(s)
  BY <1>3, <1>4, <1>6 DEF Working, Current
<1> QED BY <1>2, <1>7, WorkingStep

LEMMA FailSolo == ASSUME IInv, Solo, NEW w \in Workers, Fail(w) PROVE Solo'
<1> DEFINE o == session[w]
           q == Closed(o.q, "failed")
           row == GivenBack(o.row, o.q)
           log == <<Entry("failed", o.by, "failed")>>
           s == [o EXCEPT !.step = "commit", !.q = q, !.row = row, !.log = log]
<1>1. o.step = "fail" /\ session' = [session EXCEPT ![w] = s] /\ UNCHANGED tables /\ UNCHANGED paid
  BY DEF Fail, At, Continue, outside
<1>2. /\ o.op = "final" /\ Finishes(o) /\ o \in SessionType /\ Settles(o) /\ o.pays = "coin"
      /\ o.r \in Requests /\ o.q.owner \in Users
  BY <1>1, OnlyFinishersPay, InCall
<1>3. o.q \in RequestRow /\ o.row \in WalletRow /\ o.q.status = "approved"
  BY <1>2 DEF SessionType, Settles
<1>4. "failed" \in RequestStatus
  BY DEF RequestStatus
<1>5. q.status = "failed" /\ q.amount = o.q.amount /\ q.owner = o.q.owner
  BY <1>3, <1>4, RequestTypes
<1>6. row.balance = o.row.balance + o.q.amount
  BY <1>3, GivenBackType
<1>7. row.balance = wallet[o.q.owner].balance
  <2>1. o.row.balance = wallet[o.q.owner].balance - o.q.amount
    BY <1>2 DEF Settles
  <2>2. wallet[o.q.owner].balance \in Int /\ o.q.amount \in Int
    BY <1>2, <1>3 DEF IInv, Typed, WalletRow, RequestRow
  <2> HIDE DEF row
  <2> QED BY <1>6, <2>1, <2>2
<1> HIDE DEF q, row, log
<1>8. /\ s.step = "commit" /\ s.acked = o.acked /\ s.q = q /\ s.r = o.r /\ s.op = o.op /\ s.by = o.by
      /\ s.row = row /\ s.log = log /\ s.pays = o.pays /\ s.found = o.found /\ s.seen = o.seen
  BY <1>2 DEF SessionType
<1> HIDE DEF s
<1>9. Finishes(s)
  BY <1>1, <1>2, <1>5, <1>7, <1>8 DEF Finishes, log
<1>10. Working(s)
  BY <1>2, <1>8, <1>9 DEF Working, Current
<1> QED BY <1>1, <1>10, WorkingStep

LEMMA FailUnalertedSolo == ASSUME IInv, Solo, NEW w \in Workers, FailUnalerted(w) PROVE Solo'
BY RollBackSolo DEF FailUnalerted

LEMMA CrashSolo == ASSUME IInv, Solo, NEW w \in Workers, Crash(w) PROVE Solo'
BY RollBackSolo DEF Crash

-----------------------------------------------------------------------------
(* ---- the commit ---- *)
LEMMA Trails ==
  ASSUME NEW e, NEW f
  PROVE  /\ DOMAIN <<e>> = 1 .. 1 /\ <<e>>[1] = e /\ <<e>> # <<>> /\ Last(<<e>>) = e
         /\ DOMAIN Append(<<e>>, f) = 1 .. 2 /\ Append(<<e>>, f)[1] = e /\ Append(<<e>>, f)[2] = f
         /\ Append(<<e>>, f) # <<>> /\ Last(Append(<<e>>, f)) = f
<1>1. /\ <<e>> \in Seq({e, f}) /\ Len(<<e>>) = 1 /\ <<e>>[1] = e
  OBVIOUS
<1>2. /\ Append(<<e>>, f) \in Seq({e, f}) /\ Len(Append(<<e>>, f)) = 2 /\ Append(<<e>>, f)[1] = e /\ Append(<<e>>, f)[2] = f
  BY <1>1
<1>3. /\ DOMAIN <<e>> = 1 .. 1 /\ <<e>> # <<>>
  BY <1>1
<1>4. /\ DOMAIN Append(<<e>>, f) = 1 .. 2 /\ Append(<<e>>, f) # <<>>
  BY <1>2
<1>5. Last(<<e>>) = e
  BY <1>1 DEF Last
<1>6. Last(Append(<<e>>, f)) = f
  BY <1>2 DEF Last
<1> QED BY <1>1, <1>2, <1>3, <1>4, <1>5, <1>6

LEMMA TrailGrows ==
  ASSUME NEW S, NEW trail \in Seq(S), NEW e \in S
  PROVE  /\ DOMAIN trail = 1 .. Len(trail) /\ Len(trail) \in Nat /\ <<>> \o trail = trail
         /\ DOMAIN (trail \o <<e>>) = 1 .. Len(trail) + 1 /\ trail \o <<e>> # <<>>
         /\ \A i \in DOMAIN trail : (trail \o <<e>>)[i] = trail[i]
         /\ (trail \o <<e>>)[Len(trail) + 1] = e /\ Last(trail \o <<e>>) = e
<1>1. <<e>> \in Seq(S) /\ Len(<<e>>) = 1 /\ <<e>>[1] = e /\ Len(trail) \in Nat
  OBVIOUS
<1>2. trail \o <<e>> \in Seq(S) /\ Len(trail \o <<e>>) = Len(trail) + 1
  BY <1>1
<1>3. DOMAIN trail = 1 .. Len(trail) /\ DOMAIN (trail \o <<e>>) = 1 .. Len(trail) + 1 /\ trail \o <<e>> # <<>>
  BY <1>1, <1>2
<1>4. \A i \in DOMAIN trail : (trail \o <<e>>)[i] = trail[i]
  BY <1>1, <1>3
<1>5. (trail \o <<e>>)[Len(trail) + 1] = e
  BY <1>1, <1>3
<1>6. Last(trail \o <<e>>) = e
  BY <1>2, <1>5 DEF Last
<1>7. <<>> \o trail = trail
  OBVIOUS
<1> QED BY <1>1, <1>2, <1>3, <1>4, <1>5, <1>6, <1>7

LEMMA CommitFacts ==
  ASSUME IInv, Solo, NEW w \in Workers, Commit(w), NEW o, o = session[w]
  PROVE  o.step = "commit" /\ Working(o) /\ Sound(o) /\ o \in SessionType /\ o.r \in Requests /\ Recorded(o.r)
<1>1. o.step = "commit"
  BY DEF Commit, At
<1> QED BY <1>1, InCall DEF Solo

LEMMA CommitRows ==
  ASSUME IInv, Solo, NEW w \in Workers, Commit(w), NEW o, o = session[w]
  PROVE  request'[o.r] = o.q /\ audit'[o.r] = audit[o.r] \o o.log /\ events'[o.r] = events[o.r] \cup o.found
<1>1. /\ request' = [request EXCEPT ![o.r] = o.q]
      /\ audit' = [audit EXCEPT ![o.r] = @ \o o.log]
      /\ events' = [events EXCEPT ![o.r] = @ \cup o.found]
  BY DEF Commit
<1>2. o.r \in Requests
  BY CommitFacts
<1> QED BY <1>1, <1>2 DEF IInv, Typed

LEMMA CommitPayouts ==
  ASSUME IInv, Solo, NEW w \in Workers, Commit(w), NEW o, o = session[w]
  PROVE  /\ route'[o.r] = (IF o.op = "request" THEN o.pays ELSE route[o.r])
         /\ receipts'[o.r] = (IF o.acked THEN receipts[o.r] + 1 ELSE receipts[o.r])
         /\ UNCHANGED paid
<1>1. /\ route' = [route EXCEPT ![o.r] = IF o.op = "request" THEN o.pays ELSE @]
      /\ receipts' = [receipts EXCEPT ![o.r] = IF o.acked THEN @ + 1 ELSE @]
      /\ UNCHANGED paid
  BY DEF Commit, outside
<1>2. o.r \in Requests
  BY CommitFacts
<1> QED BY <1>1, <1>2 DEF IInv, Typed

LEMMA CommitOthers ==
  ASSUME IInv, Solo, NEW w \in Workers, Commit(w), NEW o, o = session[w]
  PROVE  \A r \in Requests \ {o.r} : /\ request'[r] = request[r] /\ audit'[r] = audit[r] /\ events'[r] = events[r]
                                      /\ route'[r] = route[r] /\ receipts'[r] = receipts[r]
<1>1. /\ request' = [request EXCEPT ![o.r] = o.q]
      /\ route' = [route EXCEPT ![o.r] = IF o.op = "request" THEN o.pays ELSE @]
      /\ audit' = [audit EXCEPT ![o.r] = @ \o o.log]
      /\ events' = [events EXCEPT ![o.r] = @ \cup o.found]
      /\ receipts' = [receipts EXCEPT ![o.r] = IF o.acked THEN @ + 1 ELSE @]
  BY DEF Commit
<1> QED BY <1>1 DEF IInv, Typed

LEMMA CommitRequest ==
  ASSUME IInv, Solo, NEW w \in Workers, Commit(w), NEW o, o = session[w], o.op = "request"
  PROVE  Recorded(o.r)'
<1>1. /\ o.step = "commit" /\ Sound(o) /\ o \in SessionType /\ o.r \in Requests /\ Recorded(o.r)
      /\ request'[o.r] = o.q /\ audit'[o.r] = audit[o.r] \o o.log /\ events'[o.r] = events[o.r] \cup o.found
      /\ receipts'[o.r] = (IF o.acked THEN receipts[o.r] + 1 ELSE receipts[o.r]) /\ UNCHANGED paid
  <2>1. o.step = "commit" /\ Sound(o) /\ o \in SessionType /\ o.r \in Requests /\ Recorded(o.r)
    BY CommitFacts
  <2>2. request'[o.r] = o.q /\ audit'[o.r] = audit[o.r] \o o.log /\ events'[o.r] = events[o.r] \cup o.found
    BY CommitRows
  <2>3. receipts'[o.r] = (IF o.acked THEN receipts[o.r] + 1 ELSE receipts[o.r]) /\ UNCHANGED paid
    BY CommitPayouts
  <2> QED BY <2>1, <2>2, <2>3
<1>2. AsksFor(o)
  BY CommitFacts DEF Working
<1>3. request[o.r].status = "none"
  BY <1>1 DEF Sound
<1>4. audit'[o.r] = o.log /\ events'[o.r] = o.found /\ receipts'[o.r] = 0 /\ paid'[o.r] = 0
  <2>1. audit[o.r] = <<>> /\ events[o.r] = {} /\ receipts[o.r] = 0 /\ paid[o.r] = 0
    BY <1>1, <1>3 DEF Recorded, Untouched, Paying
  <2>2. o.log \in Seq(EntryRow)
    BY <1>1 DEF SessionType
  <2>3. <<>> \o o.log = o.log
    BY <2>2
  <2> QED BY <1>1, <1>2, <2>1, <2>3 DEF AsksFor
<1> DEFINE e == Entry("requested", o.q.owner, "pending")
<1>5. e.action = "requested" /\ e.status = "pending"
  BY DEF Entry
<1>6. PICK f : /\ o.q.stage1 = Nobody
               /\ \/ /\ Blocked(o.found) /\ o.q.status = "cancelled" /\ o.log = Append(<<e>>, f)
                     /\ f.action = "cancelled" /\ f.status = "cancelled"
                  \/ /\ ~Blocked(o.found) /\ RequiresReview(o.found) /\ o.q.status = "pending" /\ o.log = Append(<<e>>, f)
                     /\ f.action = "flagged" /\ f.status = "pending"
                  \/ o.found = {} /\ o.q.status = "pending" /\ o.log = <<e>>
  BY <1>1, <1>2 DEF AsksFor, OpenedLog, Entry
<1> HIDE DEF e
<1>7. Untouched(o.r)' /\ Approvals(o.r)' /\ Paying(o.r)'
  BY <1>1, <1>4, <1>6 DEF Untouched, Approvals, Paying
<1>8. /\ o.log # <<>> /\ Last(o.log).status = o.q.status /\ o.q.status # "none"
      /\ \A i \in DOMAIN o.log : o.log[i].action \notin {"approved", "failed"}
      /\ (\E i \in DOMAIN o.log : o.log[i].action = "flagged") <=> RequiresReview(o.found) /\ ~Blocked(o.found)
  <2>1. CASE Blocked(o.found)
    <3>1. o.q.status = "cancelled" /\ o.log = Append(<<e>>, f) /\ f.action = "cancelled" /\ f.status = "cancelled"
      BY <1>6, <2>1 DEF Blocked
    <3>2. DOMAIN o.log = 1 .. 2 /\ o.log[1] = e /\ o.log[2] = f /\ o.log # <<>> /\ Last(o.log) = f
      BY <3>1, Trails
    <3>3. \A i \in DOMAIN o.log : o.log[i] = e \/ o.log[i] = f
      BY <3>2
    <3> QED BY <1>5, <2>1, <3>1, <3>2, <3>3
  <2>2. CASE ~Blocked(o.found) /\ RequiresReview(o.found)
    <3>1. o.q.status = "pending" /\ o.log = Append(<<e>>, f) /\ f.action = "flagged" /\ f.status = "pending"
      BY <1>6, <2>2 DEF RequiresReview
    <3>2. DOMAIN o.log = 1 .. 2 /\ o.log[1] = e /\ o.log[2] = f /\ o.log # <<>> /\ Last(o.log) = f
      BY <3>1, Trails
    <3>3. \A i \in DOMAIN o.log : o.log[i] = e \/ o.log[i] = f
      BY <3>2
    <3>4. 2 \in DOMAIN o.log /\ o.log[2].action = "flagged"
      BY <3>1, <3>2
    <3> QED BY <1>5, <2>2, <3>1, <3>2, <3>3, <3>4
  <2>3. CASE ~Blocked(o.found) /\ ~RequiresReview(o.found)
    <3>1. o.q.status = "pending" /\ o.log = <<e>>
      BY <1>6, <2>3
    <3>2. DOMAIN o.log = 1 .. 1 /\ o.log[1] = e /\ o.log # <<>> /\ Last(o.log) = e
      BY <3>1, Trails
    <3>3. \A i \in DOMAIN o.log : o.log[i] = e
      BY <3>2
    <3> QED BY <1>5, <2>3, <3>1, <3>2, <3>3
  <2> QED BY <2>1, <2>2, <2>3
<1>9. TrailEnds(o.r)'
  BY <1>1, <1>4, <1>8 DEF TrailEnds
<1>10. TwoPeople(o.r)'
  BY <1>4, <1>8 DEF TwoPeople
<1>11. Flagged(o.r)' <=> RequiresReview(o.found) /\ ~Blocked(o.found)
  BY <1>4, <1>8 DEF Flagged
<1>12. Blocked(o.found) => o.q.status = "cancelled"
  BY <1>6 DEF Blocked
<1>13. Screens(o.r)'
  BY <1>1, <1>4, <1>11, <1>12 DEF Screens
<1> QED BY <1>7, <1>9, <1>10, <1>13 DEF Recorded

(* One more entry, and nothing more found.                                 *)
LEMMA TrailOfDecision ==
  ASSUME IInv, NEW r \in Requests, NEW e \in EntryRow, audit'[r] = audit[r] \o <<e>>, TwoPeople(r), e.action # "flagged",
         e.action \in {"approved", "failed"} =>
           \E j \in DOMAIN audit[r] : audit[r][j].action = "approved_stage1" /\ audit[r][j].actor # e.actor
  PROVE  /\ Flagged(r)' <=> Flagged(r)
         /\ TwoPeople(r)'
         /\ audit'[r] # <<>> /\ Last(audit'[r]) = e /\ \E i \in DOMAIN audit'[r] : audit'[r][i] = e
<1> DEFINE n == Len(audit[r])
<1>1. audit[r] \in Seq(EntryRow)
  BY DEF IInv, Typed
<1>2. /\ DOMAIN audit[r] = 1 .. n /\ DOMAIN audit'[r] = 1 .. n + 1 /\ n \in Nat /\ audit'[r] # <<>> /\ Last(audit'[r]) = e
      /\ (\A i \in 1 .. n : audit'[r][i] = audit[r][i]) /\ audit'[r][n + 1] = e
  BY <1>1, TrailGrows
<1> HIDE DEF n
<1>3. Flagged(r)' <=> Flagged(r)
  <2>1. \A i \in 1 .. n + 1 : i \in 1 .. n \/ i = n + 1
    BY <1>2
  <2>2. \A i \in 1 .. n : i \in 1 .. n + 1
    BY <1>2
  <2> QED BY <1>2, <2>1, <2>2 DEF Flagged
<1>4. ASSUME NEW i \in DOMAIN audit'[r], audit'[r][i].action \in {"approved", "failed"}
      PROVE  \E j \in 1 .. i - 1 : audit'[r][j].action = "approved_stage1" /\ audit'[r][j].actor # audit'[r][i].actor
  <2>1. CASE i \in 1 .. n
    <3>1. PICK j \in 1 .. i - 1 : audit[r][j].action = "approved_stage1" /\ audit[r][j].actor # audit[r][i].actor
      BY <1>2, <1>4, <2>1 DEF TwoPeople
    <3>2. j \in 1 .. n
      BY <1>2, <2>1
    <3>3. audit'[r][j] = audit[r][j] /\ audit'[r][i] = audit[r][i]
      BY <1>2, <2>1, <3>2
    <3>4. audit'[r][j].action = "approved_stage1" /\ audit'[r][j].actor # audit'[r][i].actor
      BY <3>1, <3>3
    <3> QED BY <3>1, <3>4
  <2>2. CASE i = n + 1
    <3>1. PICK j \in 1 .. n : audit[r][j].action = "approved_stage1" /\ audit[r][j].actor # e.actor
      BY <1>2, <1>4, <2>2
    <3>2. j \in 1 .. i - 1
      BY <1>2, <2>2
    <3> QED BY <1>2, <2>2, <3>1, <3>2
  <2>3. i \in 1 .. n \/ i = n + 1
    BY <1>2, <1>4
  <2> QED BY <2>1, <2>2, <2>3
<1>5. TwoPeople(r)'
  BY <1>4 DEF TwoPeople
<1>6. n + 1 \in DOMAIN audit'[r]
  BY <1>2
<1> QED BY <1>2, <1>3, <1>5, <1>6

(* What a commit does to a request that exists.                            *)
LEMMA CommitExisting ==
  ASSUME IInv, Solo, NEW w \in Workers, Commit(w), NEW o, o = session[w], o.op # "request", o.found = {},
         NEW e \in EntryRow, o.log = <<e>>, e.action # "flagged", e.status = o.q.status,
         request[o.r].status \in {"pending", "approved_pending"},
         e.action \in {"approved", "failed"} =>
           \E j \in DOMAIN audit[o.r] : audit[o.r][j].action = "approved_stage1" /\ audit[o.r][j].actor # e.actor,
         o.q.status = "pending" => FALSE,
         o.q.status = "approved_pending" => e.action = "approved_stage1" /\ e.actor = o.q.stage1,
         Paying(o.r)'
  PROVE  Recorded(o.r)'
<1>1. Sound(o) /\ o.r \in Requests /\ o.step = "commit"
  BY CommitFacts
<1>2. Recorded(o.r)
  BY CommitFacts
<1>3. request'[o.r] = o.q /\ audit'[o.r] = audit[o.r] \o o.log /\ events'[o.r] = events[o.r] \cup o.found
  BY CommitRows
<1>4. o.q.status # "none"
  BY <1>1 DEF Sound
<1>5. TwoPeople(o.r) /\ audit'[o.r] = audit[o.r] \o <<e>>
  BY <1>2, <1>3 DEF Recorded
<1>6. /\ Flagged(o.r)' <=> Flagged(o.r)
      /\ TwoPeople(o.r)'
      /\ audit'[o.r] # <<>> /\ Last(audit'[o.r]) = e /\ \E i \in DOMAIN audit'[o.r] : audit'[o.r][i] = e
  BY <1>1, <1>5, TrailOfDecision
<1>7. Untouched(o.r)'
  BY <1>3, <1>4 DEF Untouched
<1>8. Approvals(o.r)'
  BY <1>3, <1>6 DEF Approvals
<1>9. TrailEnds(o.r)'
  BY <1>3, <1>4, <1>6 DEF TrailEnds
<1>10. events'[o.r] = events[o.r]
  BY <1>3
<1>11. ~Blocked(events[o.r]) /\ (RequiresReview(events[o.r]) <=> Flagged(o.r))
  BY <1>2 DEF Recorded, Screens
<1>12. Screens(o.r)'
  BY <1>6, <1>10, <1>11 DEF Screens
<1> QED BY <1>6, <1>7, <1>8, <1>9, <1>12 DEF Recorded

LEMMA CommitStage1 ==
  ASSUME IInv, Solo, NEW w \in Workers, Commit(w), NEW o, o = session[w], o.op = "stage1"
  PROVE  Recorded(o.r)'
<1>1. o.step = "commit" /\ o \in SessionType /\ o.r \in Requests /\ Working(o) /\ Recorded(o.r)
  BY CommitFacts
<1>2. /\ request'[o.r] = o.q /\ receipts'[o.r] = (IF o.acked THEN receipts[o.r] + 1 ELSE receipts[o.r])
      /\ UNCHANGED paid
  <2>1. request'[o.r] = o.q
    BY CommitRows
  <2> QED BY <2>1, CommitPayouts
<1>3. Marks(o)
  BY <1>1 DEF Working
<1> DEFINE e == Entry("approved_stage1", o.by, "approved_pending")
<1>4. e \in EntryRow
  BY <1>1, EntryTypes DEF SessionType, Actions, RequestStatus
<1>5. e.action = "approved_stage1" /\ e.actor = o.by /\ e.status = "approved_pending"
  BY DEF Entry
<1>6. o.log = <<e>>
  BY <1>3 DEF Marks
<1> HIDE DEF e
<1>7. Paying(o.r)'
  BY <1>1, <1>2, <1>3 DEF Marks, Recorded, Paying
<1> QED BY <1>3, <1>4, <1>5, <1>6, <1>7, CommitExisting DEF Marks

LEMMA CommitClose ==
  ASSUME IInv, Solo, NEW w \in Workers, Commit(w), NEW o, o = session[w], o.op = "close"
  PROVE  Recorded(o.r)'
<1>1. o.step = "commit" /\ o \in SessionType /\ o.r \in Requests /\ Working(o) /\ Recorded(o.r)
  BY CommitFacts
<1>2. /\ request'[o.r] = o.q /\ receipts'[o.r] = (IF o.acked THEN receipts[o.r] + 1 ELSE receipts[o.r])
      /\ UNCHANGED paid
  <2>1. request'[o.r] = o.q
    BY CommitRows
  <2> QED BY <2>1, CommitPayouts
<1>3. Closes(o)
  BY <1>1 DEF Working
<1> DEFINE e == Entry(o.q.status, o.by, o.q.status)
<1>4. o.q.status \in Actions /\ o.q.status \in RequestStatus
  BY <1>3 DEF Closes, Actions, RequestStatus
<1>5. e \in EntryRow
  BY <1>1, <1>4, EntryTypes DEF SessionType
<1>6. e.action = o.q.status /\ e.actor = o.by /\ e.status = o.q.status
  BY DEF Entry
<1>7. o.log = <<e>>
  BY <1>3 DEF Closes
<1> HIDE DEF e
<1>8. Paying(o.r)'
  BY <1>1, <1>2, <1>3 DEF Closes, Recorded, Paying
<1> QED BY <1>3, <1>5, <1>6, <1>7, <1>8, CommitExisting DEF Closes

LEMMA CommitFinal ==
  ASSUME IInv, Solo, NEW w \in Workers, Commit(w), NEW o, o = session[w], o.op = "final"
  PROVE  Recorded(o.r)'
<1>1. o.step = "commit" /\ o \in SessionType /\ o.r \in Requests /\ Working(o) /\ Recorded(o.r)
  BY CommitFacts
<1>2. /\ request'[o.r] = o.q /\ receipts'[o.r] = (IF o.acked THEN receipts[o.r] + 1 ELSE receipts[o.r])
      /\ UNCHANGED paid
  <2>1. request'[o.r] = o.q
    BY CommitRows
  <2> QED BY <2>1, CommitPayouts
<1>3. route'[o.r] = route[o.r]
  <2>1. o.op # "request"
    OBVIOUS
  <2> QED BY <2>1, CommitPayouts
<1>4. Finishes(o)
  BY <1>1 DEF Working
<1>5. PICK e : /\ o.log = <<e>> /\ e.action \in {"approved", "failed"} /\ e.actor = o.by /\ e.status = o.q.status
               /\ e \in EntryRow /\ (o.q.status = "approved" => e.action = Verdict(o))
  <2>1. o.by \in Users \cup Actors \cup {Nobody} /\ Verdict(o) \in {"approved", "failed"}
    BY <1>1 DEF SessionType, Verdict
  <2>2. Entry(Verdict(o), o.by, "approved") \in EntryRow /\ Entry("failed", o.by, "failed") \in EntryRow
    BY <2>1, EntryTypes DEF Actions, RequestStatus
  <2>3. \/ o.log = <<Entry(Verdict(o), o.by, "approved")>> /\ o.q.status = "approved"
        \/ o.log = <<Entry("failed", o.by, "failed")>> /\ o.q.status = "failed"
    BY <1>1, <1>4 DEF Finishes, Settles
  <2>4. \A a, st : Entry(a, o.by, st).action = a /\ Entry(a, o.by, st).actor = o.by /\ Entry(a, o.by, st).status = st
    BY DEF Entry
  <2> QED BY <2>1, <2>2, <2>3, <2>4
<1>6. request[o.r].status = "approved_pending" /\ request[o.r].stage1 # o.by /\ o.found = {}
  BY <1>1, <1>4 DEF Finishes
<1>7. \E j \in DOMAIN audit[o.r] : audit[o.r][j].action = "approved_stage1" /\ audit[o.r][j].actor # e.actor
  BY <1>1, <1>5, <1>6 DEF Recorded, Approvals
<1>8. o.q.status \in {"approved", "failed"}
  BY <1>1, <1>4 DEF Finishes, Settles
<1>9. Last(audit'[o.r]) = e
  <2>1. audit'[o.r] = audit[o.r] \o <<e>> /\ audit[o.r] \in Seq(EntryRow)
    BY <1>1, <1>5, CommitRows DEF IInv, Typed
  <2> QED BY <1>5, <2>1, TrailGrows
<1>10. Paying(o.r)'
  <2>1. receipts[o.r] = 0
    BY <1>1, <1>6 DEF Recorded, Paying
  <2>2. CASE o.q.status = "failed"
    <3>1. ~o.acked
      BY <1>1, <1>4, <2>2 DEF Finishes, Settles
    <3> QED BY <1>2, <2>1, <2>2, <3>1 DEF Paying
  <2>3. CASE o.q.status = "approved"
    <3>1. (o.acked <=> o.pays = "coin") /\ (o.pays = "coin" \/ o.pays = route[o.r])
      BY <1>1, <1>4, <2>3 DEF Finishes, Settles
    <3>2. receipts'[o.r] = IF o.pays = "coin" THEN 1 ELSE 0
      BY <1>2, <2>1, <3>1
    <3>3. e.action = "failed" <=> o.pays = "coinless"
      BY <1>5, <2>3 DEF Verdict
    <3> QED BY <1>2, <1>3, <1>9, <2>3, <3>1, <3>2, <3>3 DEF Paying
  <2> QED BY <1>8, <2>2, <2>3
<1> QED BY <1>5, <1>6, <1>7, <1>8, <1>10, CommitExisting

LEMMA CommitSolo == ASSUME Alone, IInv, Solo, NEW w \in Workers, Commit(w) PROVE Solo'
<1>1. PICK o : o = session[w]
  OBVIOUS
<1>2. o.step = "commit" /\ Working(o) /\ o.r \in Requests
  BY <1>1, CommitFacts
<1>3. Recorded(o.r)'
  BY <1>1, <1>2, CommitRequest, CommitStage1, CommitClose, CommitFinal DEF Working
<1>4. ASSUME NEW r \in Requests \ {o.r} PROVE Recorded(r)'
  <2>1. /\ request'[r] = request[r] /\ audit'[r] = audit[r] /\ events'[r] = events[r]
        /\ route'[r] = route[r] /\ receipts'[r] = receipts[r]
    BY <1>1, CommitOthers
  <2>2. paid' = paid /\ Recorded(r)
    BY <1>1, CommitPayouts DEF Solo
  <2> QED BY <2>1, <2>2 DEF Recorded, Untouched, Approvals, Paying, TrailEnds, TwoPeople, Screens, Flagged
<1>5. ASSUME NEW v \in Workers PROVE Working(session[v])'
  <2>1. session'[v] = Idle
    BY DEF Alone, Commit, IInv, Typed
  <2> QED BY <2>1, IdleFacts DEF Working
<1> QED BY <1>2, <1>3, <1>4, <1>5 DEF Solo

-----------------------------------------------------------------------------
LEMMA InitSolo == Init => Solo
<1> SUFFICES ASSUME Init PROVE Solo
  OBVIOUS
<1>1. \A w \in Workers : Working(session[w])
  BY IdleFacts DEF Init, Working
<1>2. ASSUME NEW r \in Requests PROVE Recorded(r)
  <2>1. /\ request[r].status = "none" /\ audit[r] = <<>> /\ events[r] = {} /\ receipts[r] = 0 /\ paid[r] = 0
    BY NoRowTypes DEF Init
  <2>2. ~Flagged(r) /\ TwoPeople(r)
    BY <2>1 DEF Flagged, TwoPeople
  <2>3. Screens(r)
    BY <2>1, <2>2 DEF Screens, RequiresReview, Blocked
  <2> QED BY <2>1, <2>2, <2>3 DEF Recorded, Untouched, Approvals, Paying, TrailEnds
<1> QED BY <1>1, <1>2 DEF Solo

LEMMA SoloStep == ASSUME Alone, IInv, Solo, [Next]_vars PROVE Solo'
<1>1. ASSUME NEW w \in Workers, Call(w) PROVE Solo'
  BY <1>1, BeginRequestSolo, BeginStage1Solo, BeginFinalSolo, BeginCloseSolo DEF Call
<1>2. ASSUME NEW w \in Workers, Work(w) PROVE Solo'
  BY <1>2, ReadForFinalSolo, UpdateSolo, FlushSolo, ClearSolo, FlagSolo, BlockSolo, ScreenUnalertedSolo,
     AnsweredSolo, RefusedSolo, AnswerLostSolo, AlertSolo, FailSolo, FailUnalertedSolo, CommitSolo DEF Work
<1>3. ASSUME NEW w \in Workers, Crash(w) PROVE Solo'
  BY <1>3, CrashSolo
<1>4. CASE UNCHANGED vars
  <2>1. /\ UNCHANGED wallet /\ UNCHANGED request /\ UNCHANGED route /\ UNCHANGED audit /\ UNCHANGED devices
        /\ UNCHANGED events /\ UNCHANGED receipts /\ UNCHANGED paid /\ UNCHANGED session
    BY <1>4 DEF vars
  <2>2. \A r \in Requests : Recorded(r)'
    BY <2>1 DEF Solo, Recorded, Untouched, Approvals, Paying, TrailEnds, TwoPeople, Screens, Flagged
  <2>3. ASSUME NEW w \in Workers PROVE Working(session[w])'
    <3>1. Working(session[w])
      BY DEF Solo
    <3> QED BY <2>1, <3>1 DEF Working, Current, AsksFor, OpenedLog, Marks, Closes, Finishes, Settles, Verdict
  <2> QED BY <2>2, <2>3 DEF Solo
<1> QED BY <1>1, <1>2, <1>3, <1>4 DEF Next

THEOREM SoloInvariant == ASSUME Alone PROVE Spec => [](IInv /\ Solo)
<1>1. Init => IInv /\ Solo
  BY InitInv, InitSolo
<1>2. IInv /\ Solo /\ [Next]_vars => (IInv /\ Solo)'
  BY InvStep, SoloStep
<1> QED BY <1>1, <1>2, PTL DEF Spec

(* The trail of a request ends in the request's status, and is empty as    *)
(* long as there is no request: no rollback, flag or failed payment leaves *)
(* the two apart.                                                          *)
THEOREM TrailFollows == ASSUME Alone PROVE Spec => []TrailEndsInStatus
<1>1. Solo => TrailEndsInStatus
  BY DEF Solo, Recorded, TrailEnds, TrailEndsInStatus
<1> QED BY <1>1, SoloInvariant, PTL

(* Every final approval, its payment failed or not, follows in the trail   *)
(* a first approval by somebody else.                                      *)
THEOREM TwoApprovers == ASSUME Alone PROVE Spec => []TrailShowsTwoPeople
<1>1. Solo => TrailShowsTwoPeople
  BY DEF Solo, Recorded, TwoPeople, TrailShowsTwoPeople
<1> QED BY <1>1, SoloInvariant, PTL

(* One receipt at most, for an approved request only, and for every        *)
(* approved request whose metadata names a coin; the trail of an approved  *)
(* request ends in "failed" exactly if HashDam was to pay and was not       *)
(* called.                                                                 *)
THEOREM OneReceipt == ASSUME Alone PROVE Spec => []ReceiptsMatchStatus
<1>1. Solo => ReceiptsMatchStatus
  BY DEF Solo, Recorded, Paying, ReceiptsMatchStatus
<1> QED BY <1>1, SoloInvariant, PTL

(* A request with a block event on record is cancelled and nothing was     *)
(* paid for it; the trail flags exactly those with review events only.     *)
THEOREM RiskRecorded == ASSUME Alone PROVE Spec => []RiskOnRecord
<1>1. ASSUME Solo, NEW r \in Requests
      PROVE  /\ Blocked(events[r]) => request[r].status = "cancelled" /\ paid[r] = 0
             /\ RequiresReview(events[r]) /\ ~Blocked(events[r]) <=> Flagged(r)
  BY <1>1 DEF Solo, Recorded, Paying, Screens
<1>2. Solo => RiskOnRecord
  <2> SUFFICES ASSUME Solo, NEW r \in Requests
               PROVE  /\ Blocked(events[r]) => request[r].status = "cancelled" /\ paid[r] = 0
                      /\ (RequiresReview(events[r]) /\ ~Blocked(events[r]))
                           = \E i \in DOMAIN audit[r] : audit[r][i].action = "flagged"
    BY DEF RiskOnRecord
  <2> QED BY <1>1 DEF Flagged
<1> QED BY <1>2, SoloInvariant, PTL

-----------------------------------------------------------------------------
(* ---- steps of the tables ---- *)
LEMMA OnlyCommits ==
  ASSUME [Next]_vars
  PROVE  (UNCHANGED tables) \/ \E w \in Workers : Commit(w)
<1>1. ASSUME NEW w \in Workers, Call(w) PROVE UNCHANGED tables
  BY <1>1 DEF Call, BeginRequest, BeginStage1, BeginFinal, BeginClose, Begin
<1>2. ASSUME NEW w \in Workers, Work(w), ~Commit(w) PROVE UNCHANGED tables
  BY <1>2 DEF Work, ReadForFinal, Update, Flush, Clear, Flag, Block, ScreenUnalerted, Answered, Refused, AnswerLost,
              Alert, Fail, FailUnalerted, Continue, RollBack
<1>3. ASSUME NEW w \in Workers, Crash(w) PROVE UNCHANGED tables
  BY <1>3 DEF Crash, Continue, RollBack
<1>4. CASE UNCHANGED vars
  BY <1>4 DEF vars, tables
<1> QED BY <1>1, <1>2, <1>3, <1>4 DEF Next

(* The four commits: a request appears, gets its first approval, is closed, *)
(* or is paid out (or not).                                                *)
LEMMA CommitKinds ==
  ASSUME IInv, Solo, NEW w \in Workers, Commit(w), NEW o, o = session[w]
  PROVE  /\ o.r \in Requests /\ o.q \in RequestRow /\ o.q.owner \in Users
         /\ request' = [request EXCEPT ![o.r] = o.q]
         /\ wallet' = [wallet EXCEPT ![o.q.owner] = IF o.op = "stage1" THEN @ ELSE o.row]
         /\ o.op # "request" => o.q.owner = request[o.r].owner /\ o.q.amount = request[o.r].amount
         /\ \/ /\ o.op = "request" /\ request[o.r].status = "none" /\ o.q.status \in {"pending", "cancelled"}
               /\ o.q.amount > 0 /\ o.row.balance = wallet[o.q.owner].balance
            \/ o.op = "stage1" /\ request[o.r].status = "pending" /\ o.q.status = "approved_pending"
            \/ /\ o.op = "close" /\ request[o.r].status = "pending" /\ o.q.status \in {"rejected", "cancelled"}
               /\ o.row.balance = wallet[o.q.owner].balance
            \/ /\ o.op = "final" /\ request[o.r].status = "approved_pending" /\ o.q.status = "approved"
               /\ o.row.balance = wallet[o.q.owner].balance - o.q.amount
            \/ /\ o.op = "final" /\ request[o.r].status = "approved_pending" /\ o.q.status = "failed"
               /\ o.row.balance = wallet[o.q.owner].balance
<1>1. o.step = "commit" /\ Working(o) /\ Sound(o) /\ o \in SessionType /\ o.r \in Requests
  BY CommitFacts
<1>2. o.q \in RequestRow /\ o.q.owner \in Users /\ (o.op # "request" => o.q.owner = request[o.r].owner)
  BY <1>1 DEF Sound, SessionType
<1>3. request' = [request EXCEPT ![o.r] = o.q]
      /\ wallet' = [wallet EXCEPT ![o.q.owner] = IF o.op = "stage1" THEN @ ELSE o.row]
  BY DEF Commit
<1>4. CASE o.op = "request" /\ AsksFor(o)
  <2>1. request[o.r].status = "none"
    BY <1>1, <1>4 DEF Sound
  <2> QED BY <1>1, <1>2, <1>3, <1>4, <2>1 DEF AsksFor
<1>5. CASE o.op = "stage1" /\ Marks(o)
  BY <1>1, <1>2, <1>3, <1>5 DEF Marks
<1>6. CASE o.op = "close" /\ Closes(o)
  BY <1>1, <1>2, <1>3, <1>6 DEF Closes
<1>7. CASE o.op = "final" /\ Finishes(o)
  BY <1>1, <1>2, <1>3, <1>7 DEF Finishes, Settles
<1> QED BY <1>1, <1>4, <1>5, <1>6, <1>7 DEF Working

(* A request goes through its approvals in order and never back.           *)
THEOREM NeverBack == ASSUME Alone PROVE Spec => ApprovalsGoForward
<1>1. ASSUME IInv, Solo, [Next]_vars, NEW r \in Requests, request'[r].status # request[r].status
      PROVE  <<request[r].status, request'[r].status>> \in Forward
  <2>1. PICK w \in Workers : Commit(w)
    BY <1>1, OnlyCommits DEF tables
  <2>2. PICK o : o = session[w]
    OBVIOUS
  <2>3. request' = [request EXCEPT ![o.r] = o.q] /\ o.r \in Requests
    BY <1>1, <2>1, <2>2, CommitKinds
  <2>4. r = o.r /\ request'[r].status = o.q.status
    BY <1>1, <2>3 DEF IInv, Typed
  <2>5. \/ request[r].status = "none" /\ o.q.status \in {"pending", "cancelled"}
        \/ request[r].status = "pending" /\ o.q.status \in {"approved_pending", "rejected", "cancelled"}
        \/ request[r].status = "approved_pending" /\ o.q.status \in {"approved", "failed"}
    BY <1>1, <2>1, <2>2, <2>4, CommitKinds
  <2> QED BY <2>4, <2>5 DEF Forward
<1>2. IInv /\ Solo /\ [Next]_vars =>
        [\A r \in Requests : request'[r].status # request[r].status =>
           <<request[r].status, request'[r].status>> \in Forward]_vars
  BY <1>1
<1> QED BY <1>2, SoloInvariant, PTL DEF Spec, ApprovalsGoForward

-----------------------------------------------------------------------------
(* ---- the account ---- *)
funds == [u \in Users |-> wallet[u].balance - Funds]
phase == [r \in Requests |-> phaseOf(request[r].status)]
stake == [r \in Requests |-> request[r].amount]
holder == [r \in Requests |-> request[r].owner]

(* What a commit does to points and requests, seen from the account.       *)
LEMMA CommitAccount ==
  ASSUME IInv, Solo, NEW w \in Workers, Commit(w), NEW o, o = session[w]
  PROVE  /\ phase' = [phase EXCEPT ![o.r] = phaseOf(o.q.status)]
         /\ stake' = [stake EXCEPT ![o.r] = o.q.amount] /\ holder' = [holder EXCEPT ![o.r] = o.q.owner]
         /\ o.op # "request" => UNCHANGED <<stake, holder>>
         /\ o.op = "stage1" \/ o.row.balance = wallet[o.q.owner].balance => UNCHANGED funds
         /\ o.op # "stage1" /\ o.row.balance = wallet[o.q.owner].balance - o.q.amount =>
              funds' = [funds EXCEPT ![o.q.owner] = funds[o.q.owner] + (-o.q.amount)]
         /\ funds[o.q.owner] \in Int
<1>1. /\ o.r \in Requests /\ o.q \in RequestRow /\ o.q.owner \in Users
      /\ request' = [request EXCEPT ![o.r] = o.q]
      /\ wallet' = [wallet EXCEPT ![o.q.owner] = IF o.op = "stage1" THEN @ ELSE o.row]
      /\ o.op # "request" => o.q.owner = request[o.r].owner /\ o.q.amount = request[o.r].amount
  BY CommitKinds
<1>2. request \in [Requests -> RequestRow] /\ wallet \in [Users -> WalletRow] /\ \A u \in Users : wallet[u].balance \in Int
  BY DEF IInv, Typed, WalletRow
<1>3. /\ phase' = [phase EXCEPT ![o.r] = phaseOf(o.q.status)]
      /\ stake' = [stake EXCEPT ![o.r] = o.q.amount] /\ holder' = [holder EXCEPT ![o.r] = o.q.owner]
  BY <1>1, <1>2 DEF phase, stake, holder
<1>4. o.op # "request" => UNCHANGED <<stake, holder>>
  BY <1>1, <1>2 DEF stake, holder
<1>5. ASSUME o.op = "stage1" \/ o.row.balance = wallet[o.q.owner].balance PROVE UNCHANGED funds
  <2>1. \A u \in Users : wallet'[u].balance = wallet[u].balance
    BY <1>1, <1>2, <1>5
  <2> QED BY <2>1 DEF funds
<1>6. ASSUME o.op # "stage1", o.row.balance = wallet[o.q.owner].balance - o.q.amount
      PROVE  funds' = [funds EXCEPT ![o.q.owner] = funds[o.q.owner] + (-o.q.amount)]
  <2>1. \A u \in Users : wallet'[u].balance = IF u = o.q.owner THEN o.row.balance ELSE wallet[u].balance
    BY <1>1, <1>2, <1>6
  <2>2. o.q.amount \in Int /\ Funds \in Int
    BY <1>1, WorkflowAssumption DEF RequestRow
  <2>3. \A u \in Users : funds'[u] = IF u = o.q.owner THEN funds[o.q.owner] + (-o.q.amount) ELSE funds[u]
    BY <1>1, <1>2, <1>6, <2>1, <2>2 DEF funds
  <2> QED BY <1>1, <2>3 DEF funds
<1>7. funds[o.q.owner] \in Int
  BY <1>1, <1>2, WorkflowAssumption DEF funds
<1> QED BY <1>3, <1>4, <1>5, <1>6, <1>7

LEMMA Phases ==
  /\ phaseOf("none") = "none" /\ phaseOf("pending") = "open" /\ phaseOf("approved_pending") = "open"
  /\ phaseOf("approved") = "settled"
  /\ \A s \in {"rejected", "cancelled", "failed"} : phaseOf(s) = "returned"
BY DEF phaseOf

LEMMA AccountStep ==
  ASSUME IInv, Solo, NEW w \in Workers, Commit(w)
  PROVE  Account!Next \/ UNCHANGED <<funds, phase, stake, holder>>
<1>1. PICK o : o = session[w]
  OBVIOUS
<1>2. /\ o.r \in Requests /\ o.q \in RequestRow /\ o.q.owner \in Users
      /\ o.op # "request" => o.q.owner = request[o.r].owner /\ o.q.amount = request[o.r].amount
  BY <1>1, CommitKinds
<1>3. /\ phase' = [phase EXCEPT ![o.r] = phaseOf(o.q.status)]
      /\ stake' = [stake EXCEPT ![o.r] = o.q.amount] /\ holder' = [holder EXCEPT ![o.r] = o.q.owner]
      /\ o.op # "request" => UNCHANGED <<stake, holder>>
  BY <1>1, CommitAccount
<1>4. /\ phase[o.r] = phaseOf(request[o.r].status) /\ stake[o.r] = request[o.r].amount /\ holder[o.r] = request[o.r].owner
      /\ stake'[o.r] = o.q.amount /\ holder'[o.r] = o.q.owner
  BY <1>2, <1>3 DEF phase, stake, holder
<1>5. CASE /\ o.op = "request" /\ request[o.r].status = "none" /\ o.q.status \in {"pending", "cancelled"}
           /\ o.q.amount > 0 /\ o.row.balance = wallet[o.q.owner].balance
  <2>1. UNCHANGED funds
    BY <1>1, <1>5, CommitAccount
  <2>2. CASE o.q.status = "pending"
    <3>1. phase[o.r] = "none" /\ phase' = [phase EXCEPT ![o.r] = "open"]
      BY <1>3, <1>4, <1>5, <2>2, Phases
    <3>2. Account!Open(o.r)
      BY <1>2, <1>3, <1>4, <1>5, <2>1, <3>1 DEF Account!Open, Account!Moved, funds, phase, stake, holder
    <3> QED BY <1>2, <3>2 DEF Account!Next
  <2>3. CASE o.q.status = "cancelled"
    <3>1. phase[o.r] = "none" /\ phase' = [phase EXCEPT ![o.r] = "returned"]
      BY <1>3, <1>4, <1>5, <2>3, Phases
    <3>2. Account!Refuse(o.r)
      BY <1>2, <1>3, <1>4, <1>5, <2>1, <3>1 DEF Account!Refuse, Account!Moved, funds, phase, stake, holder
    <3> QED BY <1>2, <3>2 DEF Account!Next
  <2> QED BY <1>5, <2>2, <2>3
<1>6. CASE o.op = "stage1" /\ request[o.r].status = "pending" /\ o.q.status = "approved_pending"
  <2>1. UNCHANGED funds
    BY <1>1, <1>6, CommitAccount
  <2>2. phase[o.r] = "open" /\ phase' = [phase EXCEPT ![o.r] = "open"]
    BY <1>3, <1>4, <1>6, Phases
  <2>3. UNCHANGED phase
    BY <1>2, <2>2 DEF phase
  <2> QED BY <1>3, <1>6, <2>1, <2>3
<1>7. CASE /\ o.op \in {"close", "final"} /\ request[o.r].status \in {"pending", "approved_pending"}
           /\ o.q.status \in {"rejected", "cancelled", "failed"} /\ o.row.balance = wallet[o.q.owner].balance
  <2>1. UNCHANGED funds
    BY <1>1, <1>7, CommitAccount
  <2>2. phase[o.r] = "open" /\ phase' = [phase EXCEPT ![o.r] = "returned"]
    BY <1>3, <1>4, <1>7, Phases
  <2>3. UNCHANGED <<stake, holder>>
    BY <1>3, <1>7
  <2>4. Account!Return(o.r)
    BY <2>1, <2>2, <2>3 DEF Account!Return, Account!Moved, funds, phase, stake, holder
  <2> QED BY <1>2, <2>4 DEF Account!Next
<1>8. CASE /\ o.op = "final" /\ request[o.r].status = "approved_pending" /\ o.q.status = "approved"
           /\ o.row.balance = wallet[o.q.owner].balance - o.q.amount
  <2>1. funds' = [funds EXCEPT ![o.q.owner] = funds[o.q.owner] + (-o.q.amount)]
    BY <1>1, <1>8, CommitAccount
  <2>2. phase[o.r] = "open" /\ phase' = [phase EXCEPT ![o.r] = "settled"]
    BY <1>3, <1>4, <1>8, Phases
  <2>3. UNCHANGED <<stake, holder>>
    BY <1>3, <1>8
  <2>4. holder[o.r] = o.q.owner /\ stake[o.r] = o.q.amount
    BY <1>2, <1>4, <1>8
  <2>5. funds' = [funds EXCEPT ![holder[o.r]] = @ + (-stake[o.r])]
    BY <2>1, <2>4, Zenon
  <2>6. Account!Settle(o.r)
    BY <2>2, <2>3, <2>5 DEF Account!Settle, Account!Moved, Account!Paid, funds, phase, stake, holder
  <2> QED BY <1>2, <2>6 DEF Account!Next
<1> QED BY <1>1, <1>5, <1>6, <1>7, <1>8, CommitKinds

(* What commits implements the account, payment failures and cancellations *)
(* by the risk service included: points leave once and come back whole.    *)
THEOREM Refinement == ASSUME Alone PROVE Spec => ImplementsFundsAccount
<1> USE DEF funds, phase, stake, holder
<1>1. Init => Account!Init
  BY WorkflowAssumption, NoRowTypes, Phases DEF Init, Account!Init, NewWallet
<1>2. IInv /\ Solo /\ [Next]_vars => [Account!Next]_(Account!vars)
  <2> SUFFICES ASSUME IInv, Solo, [Next]_vars
               PROVE  Account!Next \/ UNCHANGED <<funds, phase, stake, holder>>
    BY DEF Account!vars
  <2>1. CASE UNCHANGED tables
    BY <2>1 DEF tables
  <2> QED BY <2>1, OnlyCommits, AccountStep
<1> QED BY <1>1, <1>2, SoloInvariant, PTL DEF Spec, Account!Spec, ImplementsFundsAccount

-----------------------------------------------------------------------------
(* ---- devices ---- *)
Novel == Found("device_novelty", "review")
Introducing(u) == {r \in Requests : request[r].owner = u /\ Novel \subseteq events[r]}
Watched == \A a \in Amounts : a >= ReviewLimit

Introduced ==
  \A u \in Users :
    /\ IsFiniteSet(devices[u]) /\ IsFiniteSet(Introducing(u))
    /\ Watched => Cardinality(devices[u]) = Cardinality(Introducing(u))

(* No other rule finds what the novelty rule finds.                        *)
LEMMA NoveltyFound ==
  ASSUME NEW a \in Int, a >= ReviewLimit, NEW from \in Origin, NEW known
  PROVE  /\ Novel \subseteq Findings(a, from, known) <=> New(from.device, known)
         /\ Stored(from, known) = IF New(from.device, known) THEN {from.device} ELSE {}
<1> DEFINE n == [rule |-> "device_novelty", severity |-> "review"]
<1>1. \A x, y : [rule |-> "amount_limit", severity |-> y] # n /\ [rule |-> "ip_reputation", severity |-> y] # n
  <2>1. n.rule = "device_novelty"
    OBVIOUS
  <2>2. \A y : [rule |-> "amount_limit", severity |-> y].rule = "amount_limit" /\ [rule |-> "ip_reputation", severity |-> y].rule = "ip_reputation"
    OBVIOUS
  <2> HIDE DEF n
  <2> QED BY <2>1, <2>2
<1>2. Novel = {n}
  BY DEF Novel, Found
<1>3. n \notin AmountLimit(a)
  BY <1>1 DEF AmountLimit, Found
<1>4. n \notin IpReputation(from.ip)
  BY <1>1 DEF IpReputation, Found
<1>5. DeviceNovelty(a, from.device, known) = IF New(from.device, known) THEN {n} ELSE {}
  BY DEF DeviceNovelty, Found
<1> HIDE DEF n
<1>6. n \in Findings(a, from, known) <=> New(from.device, known)
  BY <1>3, <1>4, <1>5 DEF Findings
<1>7. Stored(from, known) = IF New(from.device, known) THEN {from.device} ELSE {}
  BY DEF Stored
<1> QED BY <1>2, <1>6, <1>7

LEMMA DevicesCommit ==
  ASSUME IInv, Solo, NEW w \in Workers, Commit(w), NEW o, o = session[w]
  PROVE  /\ devices' = [devices EXCEPT ![o.q.owner] = @ \cup o.seen] /\ events' = [events EXCEPT ![o.r] = @ \cup o.found]
         /\ o.op # "request" => o.seen = {} /\ o.found = {}
         /\ o.op = "request" => /\ AsksFor(o) /\ o.from \in Origin /\ request[o.r].owner \notin Users /\ events[o.r] = {}
                               /\ o.found = Findings(o.q.amount, o.from, devices[o.q.owner])
                               /\ o.seen = Stored(o.from, devices[o.q.owner]) /\ o.q.amount \in Amounts
<1>1. o.step = "commit" /\ Working(o) /\ Sound(o) /\ o \in SessionType /\ o.r \in Requests
  BY CommitFacts
<1>2. Recorded(o.r)
  BY CommitFacts
<1>3. ASSUME o.op # "request" PROVE o.seen = {} /\ o.found = {}
  BY <1>1, <1>3 DEF Working, Marks, Closes, Finishes
<1>4. ASSUME o.op = "request"
      PROVE  /\ AsksFor(o) /\ o.from \in Origin /\ request[o.r].owner \notin Users /\ events[o.r] = {}
             /\ o.found = Findings(o.q.amount, o.from, devices[o.q.owner])
             /\ o.seen = Stored(o.from, devices[o.q.owner]) /\ o.q.amount \in Amounts
  <2>1. AsksFor(o) /\ o.from \in Origin
    BY <1>1, <1>4 DEF Working, SessionType
  <2>2. request[o.r].status = "none"
    BY <1>1, <1>4 DEF Sound
  <2>3. request[o.r].owner \notin Users
    BY <1>1, <2>2, NoRowTypes, NobodyAssumption DEF IInv, RowsOwned
  <2> QED BY <1>1, <1>2, <2>1, <2>2, <2>3 DEF AsksFor, Recorded, Untouched
<1> QED BY <1>3, <1>4 DEF Commit

LEMMA CommitIntroduces == ASSUME IInv, Solo, Introduced, NEW w \in Workers, Commit(w) PROVE Introduced'
<1>1. PICK o : o = session[w]
  OBVIOUS
<1>2. /\ o.r \in Requests /\ o.q \in RequestRow /\ o.q.owner \in Users
      /\ request' = [request EXCEPT ![o.r] = o.q]
      /\ o.op # "request" => o.q.owner = request[o.r].owner
  BY <1>1, CommitKinds
<1>3. devices' = [devices EXCEPT ![o.q.owner] = @ \cup o.seen] /\ events' = [events EXCEPT ![o.r] = @ \cup o.found]
  BY <1>1, DevicesCommit
<1>4. /\ \A r \in Requests : request'[r] = IF r = o.r THEN o.q ELSE request[r]
      /\ \A r \in Requests : events'[r] = IF r = o.r THEN events[r] \cup o.found ELSE events[r]
      /\ \A u \in Users : devices'[u] = IF u = o.q.owner THEN devices[u] \cup o.seen ELSE devices[u]
  BY <1>2, <1>3 DEF IInv, Typed
<1> SUFFICES ASSUME NEW u \in Users
             PROVE  /\ IsFiniteSet(devices'[u]) /\ IsFiniteSet(Introducing(u)')
                    /\ Watched => Cardinality(devices'[u]) = Cardinality(Introducing(u)')
  BY DEF Introduced, Watched
<1>5. /\ IsFiniteSet(devices[u]) /\ IsFiniteSet(Introducing(u))
      /\ Watched => Cardinality(devices[u]) = Cardinality(Introducing(u))
  BY DEF Introduced
<1>6. CASE o.op # "request"
  <2>1. o.seen = {} /\ o.found = {}
    BY <1>1, <1>6, DevicesCommit
  <2>2. devices'[u] = devices[u]
    BY <1>4, <2>1
  <2>3. Introducing(u)' = Introducing(u)
    BY <1>2, <1>4, <1>6, <2>1 DEF Introducing
  <2> QED BY <1>5, <2>2, <2>3
<1>7. CASE o.op = "request"
  <2>1. /\ o.from \in Origin /\ request[o.r].owner \notin Users /\ events[o.r] = {} /\ o.q.amount \in Amounts
        /\ o.found = Findings(o.q.amount, o.from, devices[o.q.owner]) /\ o.seen = Stored(o.from, devices[o.q.owner])
    BY <1>1, <1>7, DevicesCommit
  <2>2. o.r \notin Introducing(u)
    BY <2>1 DEF Introducing
  <2>3. Introducing(u)' = IF u = o.q.owner /\ Novel \subseteq o.found THEN Introducing(u) \cup {o.r} ELSE Introducing(u)
    <3>1. Introducing(u)' = {r \in Requests : request'[r].owner = u /\ Novel \subseteq events'[r]}
      BY DEF Introducing, Novel
    <3>2. ASSUME NEW r \in Requests, r # o.r PROVE r \in Introducing(u)' <=> r \in Introducing(u)
      BY <1>4, <3>1, <3>2 DEF Introducing
    <3>3. o.r \in Introducing(u)' <=> u = o.q.owner /\ Novel \subseteq o.found
      BY <1>2, <1>4, <2>1, <3>1
    <3>4. Introducing(u) \subseteq Requests /\ Introducing(u)' \subseteq Requests
      BY <3>1 DEF Introducing
    <3> QED BY <1>2, <2>2, <3>2, <3>3, <3>4
  <2>4. o.seen \subseteq {o.from.device}
    BY <2>1 DEF Stored
  <2>5. IsFiniteSet(Introducing(u)')
    BY <1>5, <2>3, FS_AddElement
  <2>6. devices'[u] \in {devices[u], devices[u] \cup {o.from.device}}
    <3>1. o.seen = {} \/ o.seen = {o.from.device}
      BY <2>4
    <3> QED BY <1>4, <3>1
  <2>7. IsFiniteSet(devices'[u])
    BY <1>5, <2>6, FS_AddElement
  <2>8. ASSUME Watched PROVE Cardinality(devices'[u]) = Cardinality(Introducing(u)')
    <3>1. o.q.amount \in Int /\ o.q.amount >= ReviewLimit
      BY <2>1, <2>8, WorkflowAssumption DEF Watched
    <3>2. CASE u # o.q.owner
      BY <1>4, <1>5, <2>3, <2>8, <3>2
    <3>3. CASE u = o.q.owner /\ ~New(o.from.device, devices[u])
      <4>1. o.seen = {} /\ ~(Novel \subseteq o.found)
        BY <2>1, <3>1, <3>3, NoveltyFound
      <4>2. devices'[u] = devices[u] /\ Introducing(u)' = Introducing(u)
        BY <1>4, <2>3, <4>1
      <4> QED BY <1>5, <2>8, <4>2
    <3>4. CASE u = o.q.owner /\ New(o.from.device, devices[u])
      <4>1. o.seen = {o.from.device} /\ Novel \subseteq o.found /\ o.from.device \notin devices[u]
        BY <2>1, <3>1, <3>4, NoveltyFound DEF New
      <4>2. devices'[u] = devices[u] \cup {o.from.device} /\ Introducing(u)' = Introducing(u) \cup {o.r}
        BY <1>4, <2>3, <3>4, <4>1
      <4>3. Cardinality(devices'[u]) = Cardinality(devices[u]) + 1
        BY <1>5, <4>1, <4>2, FS_AddElement
      <4>4. Cardinality(Introducing(u)') = Cardinality(Introducing(u)) + 1
        BY <1>5, <2>2, <4>2, FS_AddElement
      <4> QED BY <1>5, <2>8, <4>3, <4>4
    <3> QED BY <3>2, <3>3, <3>4
  <2> QED BY <2>5, <2>7, <2>8
<1> QED BY <1>6, <1>7

(* Where every request is worth a review, a user has as many known devices *)
(* as requests with the event of a new one: none comes in unseen, none is  *)
(* learnt from a request that was rolled back.                             *)
THEOREM NoDeviceUnseen == ASSUME Alone PROVE Spec => []DevicesIntroduced
<1>1. Init => Introduced
  <2> SUFFICES ASSUME Init, NEW u \in Users
               PROVE  /\ IsFiniteSet(devices[u]) /\ IsFiniteSet(Introducing(u))
                      /\ Cardinality(devices[u]) = Cardinality(Introducing(u))
    BY DEF Introduced
  <2>1. devices[u] = {} /\ Introducing(u) = {}
    BY NoRowTypes, NobodyAssumption DEF Init, Introducing
  <2> QED BY <2>1, FS_EmptySet
<1>2. Introduced /\ (IInv /\ Solo) /\ [Next]_vars => Introduced'
  <2> SUFFICES ASSUME Introduced, IInv, Solo, [Next]_vars PROVE Introduced'
    OBVIOUS
  <2>1. CASE UNCHANGED tables
    <3>1. UNCHANGED devices /\ \A u : Introducing(u)' = Introducing(u)
      BY <2>1 DEF tables, Introducing
    <3> QED BY <3>1 DEF Introduced, Watched
  <2> QED BY <2>1, OnlyCommits, CommitIntroduces
<1>3. Introduced => DevicesIntroduced
  BY DEF Introduced, DevicesIntroduced, Introducing, Watched, Novel
<1> QED BY <1>1, <1>2, <1>3, SoloInvariant, PTL DEF Spec
=============================================================================
