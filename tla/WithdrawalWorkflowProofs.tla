------------------------ MODULE WithdrawalWorkflowProofs ------------------------
(***************************************************************************)
(* What holds of WithdrawalWorkflow with any number of processes: types,    *)
(* the account of payouts, and that a first approval precedes every final   *)
(* one.  WithdrawalSoloProofs has what holds with one process only.         *)
(***************************************************************************)
EXTENDS WithdrawalWorkflow, FiniteSetTheorems, TLAPS

Actions == {"requested", "approved_stage1", "approved", "failed", "rejected", "cancelled", "flagged"}
EntryRow == [action : Actions, actor : Users \cup Actors \cup {Nobody}, status : RequestStatus]

RequestColumns == {"status", "amount", "owner", "stage1", "approvedBy"}
WalletColumns == {"status", "balance", "pending"}

SessionType ==
  [step : Steps, op : Ops, r : Requests \cup {Nobody}, by : Users \cup Actors \cup {Nobody}, pays : Routes,
   from : Origin, found : SUBSET Finding, seen : SUBSET Devices, q : RequestRow, row : WalletRow,
   qset : SUBSET RequestColumns, rowset : SUBSET WalletColumns, log : Seq(EntryRow),
   tries : 0 .. Attempts, acked : BOOLEAN]

Typed ==
  /\ wallet \in [Users -> WalletRow] /\ request \in [Requests -> RequestRow]
  /\ route \in [Requests -> Routes] /\ audit \in [Requests -> Seq(EntryRow)]
  /\ devices \in [Users -> SUBSET Devices] /\ events \in [Requests -> SUBSET Finding]
  /\ receipts \in [Requests -> Nat] /\ paid \in [Requests -> Nat] /\ hidden \in [Requests -> Nat]
  /\ session \in [Workers -> SessionType] /\ faults \in Nat

RowsOwned ==
  \A r \in Requests : IF request[r].status = "none" THEN request[r] = NoRequest ELSE request[r].owner \in Users

(* A session that opens a request has it for itself; every other one works *)
(* on a request that exists and stays its owner's.                         *)
Sound(s) ==
  /\ s.step = "idle" => s = Idle
  /\ s.step # "idle" => s.r \in Requests /\ (s.op = "request" <=> request[s.r].status = "none")
  /\ s.step \notin {"idle", "read"} => s.q.status # "none" /\ s.q.owner \in Users
  /\ s.step \notin {"idle", "read"} /\ s.op # "request" => s.q.owner = request[s.r].owner
  /\ s.step = "flush" /\ s.op = "request" => {"status", "owner"} \subseteq s.qset
  /\ s.step \in {"read", "update", "flush"} => s.tries = 0
  /\ s.step = "call" => s.tries < Attempts
  /\ s.op = "final" => s.by \in Actors
  /\ s.acked => s.step = "commit"
  /\ s.step = "read" => s.op = "final"

Opening(w) == session[w].step # "idle" /\ session[w].op = "request"
Private == \A w \in Workers : Opening(w) => \A v \in Workers \ {w} : session[v].step # "idle" => session[v].r # session[w].r

PayoutsCounted ==
  \A r \in Requests : IsFiniteSet(Acked(r)) /\ paid[r] = receipts[r] + Cardinality(Acked(r)) + hidden[r]

IInv ==
  /\ Typed /\ RowsOwned /\ Private
  /\ \A w \in Workers : Sound(session[w])
  /\ PayoutsCounted

-----------------------------------------------------------------------------
(* ---- rows ---- *)
LEMMA Columns ==
  /\ \A q \in RequestRow : DOMAIN q = RequestColumns
  /\ \A row \in WalletRow : DOMAIN row = WalletColumns
BY DEF RequestRow, WalletRow, RequestColumns, WalletColumns

LEMMA NoRowTypes ==
  /\ NoRequest \in RequestRow /\ NoWallet \in WalletRow /\ NewWallet \in WalletRow
  /\ NoRequest.status = "none" /\ NoRequest.owner = Nobody /\ NoRequest.amount = 0
  /\ NewWallet.balance = 0
BY DEF NoRequest, NoWallet, NewWallet, RequestRow, WalletRow, RequestStatus, WalletStatus

(* Columns that are not written keep what the row had.                     *)
LEMMA WrittenRequest ==
  ASSUME NEW old \in RequestRow, NEW new \in RequestRow, NEW columns
  PROVE  /\ Written(old, new, columns) \in RequestRow
         /\ Written(old, new, columns).status = IF "status" \in columns THEN new.status ELSE old.status
         /\ Written(old, new, columns).owner = IF "owner" \in columns THEN new.owner ELSE old.owner
         /\ Written(old, new, columns).amount = IF "amount" \in columns THEN new.amount ELSE old.amount
<1> DEFINE wr == [c \in RequestColumns |-> IF c \in columns THEN new[c] ELSE old[c]]
<1>1. Written(old, new, columns) = wr
  BY Columns DEF Written
<1>2. wr = [status |-> wr["status"], amount |-> wr["amount"], owner |-> wr["owner"],
            stage1 |-> wr["stage1"], approvedBy |-> wr["approvedBy"]]
  BY DEF RequestColumns
<1>3. /\ wr["status"] = IF "status" \in columns THEN new.status ELSE old.status
      /\ wr["owner"] = IF "owner" \in columns THEN new.owner ELSE old.owner
      /\ wr["amount"] = IF "amount" \in columns THEN new.amount ELSE old.amount
      /\ wr["stage1"] = IF "stage1" \in columns THEN new.stage1 ELSE old.stage1
      /\ wr["approvedBy"] = IF "approvedBy" \in columns THEN new.approvedBy ELSE old.approvedBy
  BY DEF RequestColumns
<1> HIDE DEF wr
<1>4. wr \in RequestRow
  BY <1>2, <1>3 DEF RequestRow
<1> QED BY <1>1, <1>3, <1>4

LEMMA WrittenWallet ==
  ASSUME NEW old \in WalletRow, NEW new \in WalletRow, NEW columns
  PROVE  Written(old, new, columns) \in WalletRow
<1> DEFINE wr == [c \in WalletColumns |-> IF c \in columns THEN new[c] ELSE old[c]]
<1>1. Written(old, new, columns) = wr
  BY Columns DEF Written
<1>2. wr = [status |-> wr["status"], balance |-> wr["balance"], pending |-> wr["pending"]]
  BY DEF WalletColumns
<1>3. wr["status"] \in WalletStatus /\ wr["balance"] \in Int /\ wr["pending"] \in Int
  BY DEF WalletColumns, WalletRow
<1> HIDE DEF wr
<1> QED BY <1>1, <1>2, <1>3 DEF WalletRow

LEMMA WalletTypes ==
  ASSUME NEW row \in WalletRow, NEW a \in Int
  PROVE  /\ Held(row, a) \in WalletRow /\ Held(row, a).balance = row.balance
         /\ Released(row, a) \in WalletRow /\ Released(row, a).balance = row.balance
         /\ Settled(row, a) \in WalletRow /\ Settled(row, a).balance = row.balance - a
<1>1. Held(row, a) \in WalletRow /\ Held(row, a).balance = row.balance
  BY DEF WalletRow, Held
<1>2. \A r \in WalletRow : Released(r, a) \in WalletRow /\ Released(r, a).balance = r.balance
  BY DEF WalletRow, Released
<1>3. Debited(row, a) \in WalletRow /\ Debited(row, a).balance = row.balance - a
  BY DEF WalletRow, Debited
<1> QED BY <1>1, <1>2, <1>3 DEF Settled

LEMMA GivenBackType ==
  ASSUME NEW row \in WalletRow, NEW q \in RequestRow
  PROVE  /\ GivenBack(row, q) \in WalletRow
         /\ q.status = "approved" => GivenBack(row, q).balance = row.balance + q.amount
<1>1. Refunded(row, q) \in WalletRow /\ (q.status = "approved" => Refunded(row, q).balance = row.balance + q.amount)
  BY DEF WalletRow, RequestRow, Refunded
<1>2. q.amount \in Int
  BY DEF RequestRow
<1> DEFINE ref == Refunded(row, q)
           left == IF ref.pending >= q.amount THEN ref.pending - q.amount ELSE 0
<1>3. left \in Int
  BY <1>1, <1>2 DEF WalletRow
<1>4. GivenBack(row, q) = [ref EXCEPT !.pending = left]
  BY DEF GivenBack
<1> HIDE DEF left
<1> QED BY <1>1, <1>3, <1>4 DEF WalletRow

LEMMA OpenedType ==
  ASSUME NEW u \in Users, NEW a \in Nat
  PROVE  /\ Opened(u, a) \in RequestRow /\ Opened(u, a).status = "pending" /\ Opened(u, a).owner = u
         /\ Opened(u, a).amount = a /\ Opened(u, a).stage1 = Nobody
BY DEF Opened, NoRequest, RequestRow, RequestStatus

LEMMA RequestTypes ==
  ASSUME NEW q \in RequestRow
  PROVE  /\ \A by \in Actors :
              /\ Stage1Marked(q, by) \in RequestRow /\ Stage1Marked(q, by).status = "approved_pending"
              /\ Stage1Marked(q, by).owner = q.owner /\ Stage1Marked(q, by).amount = q.amount
              /\ q.stage1 = Nobody => Stage1Marked(q, by).stage1 = by
              /\ Approved(q, by) \in RequestRow /\ Approved(q, by).status = "approved"
              /\ Approved(q, by).owner = q.owner /\ Approved(q, by).amount = q.amount
         /\ \A s \in RequestStatus :
              /\ Closed(q, s) \in RequestRow /\ Closed(q, s).status = s
              /\ Closed(q, s).owner = q.owner /\ Closed(q, s).amount = q.amount
BY DEF RequestRow, RequestStatus, Stage1Marked, Approved, Closed

LEMMA FindingTypes ==
  ASSUME NEW a, NEW from \in Origin, NEW known \in SUBSET Devices
  PROVE  Findings(a, from, known) \in SUBSET Finding /\ Stored(from, known) \in SUBSET Devices
<1>1. AmountLimit(a) \in SUBSET Finding
  BY DEF AmountLimit, Found, Finding
<1>2. IpReputation(from.ip) \in SUBSET Finding /\ DeviceNovelty(a, from.device, known) \in SUBSET Finding
  BY DEF IpReputation, DeviceNovelty, Found, Finding
<1> QED BY <1>1, <1>2 DEF Findings, Stored, New

LEMMA EntryTypes ==
  ASSUME NEW a \in Actions, NEW who \in Users \cup Actors \cup {Nobody}, NEW st \in RequestStatus
  PROVE  Entry(a, who, st) \in EntryRow /\ <<Entry(a, who, st)>> \in Seq(EntryRow)
BY DEF Entry, EntryRow

LEMMA IdleFacts ==
  /\ Idle \in SessionType /\ Sound(Idle) /\ Idle.step = "idle" /\ Idle.op = "none" /\ Idle.acked = FALSE
  /\ Idle.tries = 0 /\ Idle.q = NoRequest /\ Idle.row = NoWallet /\ Idle.found = {} /\ Idle.seen = {} /\ Idle.r = Nobody
<1>1. 0 \in 0 .. Attempts /\ <<>> \in Seq(EntryRow) /\ Plain \in Origin
  BY WorkflowAssumption DEF Plain, Origin
<1>2. Idle \in SessionType
  BY <1>1, NoRowTypes DEF Idle, SessionType, Steps, Ops, Routes
<1> QED BY <1>2 DEF Idle, Sound

-----------------------------------------------------------------------------
(* ---- steps of a session ---- *)
(* A session that goes on, begins or ends without touching the tables.     *)
SessionStep(w, s) ==
  /\ session' = [session EXCEPT ![w] = s] /\ UNCHANGED tables
  /\ paid' \in [Requests -> Nat] /\ hidden' \in [Requests -> Nat] /\ faults' \in Nat

(* The calls others are in leave it its request.                           *)
Undisturbed(w, s) ==
  s.step # "idle" =>
    \A v \in Workers \ {w} : session[v].step # "idle" /\ session[v].r = s.r => session[v].op # "request" /\ s.op # "request"

LEMMA StepKeeps ==
  ASSUME IInv, NEW w \in Workers, NEW s \in SessionType, Sound(s), SessionStep(w, s), Undisturbed(w, s)
  PROVE  Typed' /\ RowsOwned' /\ Private' /\ \A v \in Workers : Sound(session[v])'
<1>1. session'[w] = s /\ \A v \in Workers \ {w} : session'[v] = session[v]
  BY DEF IInv, Typed, SessionStep
<1>2. Typed' /\ RowsOwned'
  BY DEF IInv, Typed, RowsOwned, SessionStep, tables
<1>3. \A v \in Workers : Sound(session'[v])
  BY <1>1 DEF IInv
<1>4. request' = request
  BY DEF SessionStep, tables
<1>5. \A v \in Workers : Sound(session[v])'
  BY <1>3, <1>4 DEF Sound
<1>6. ASSUME NEW x \in Workers, NEW v \in Workers \ {x}, Opening(x)', session'[v].step # "idle"
      PROVE  session'[v].r # session'[x].r
  <2>1. CASE x = w
    BY <1>1, <1>6, <2>1 DEF Undisturbed, Opening
  <2>2. CASE v = w
    BY <1>1, <1>6, <2>2 DEF Undisturbed, Opening
  <2>3. CASE x # w /\ v # w
    BY <1>1, <1>6, <2>3 DEF IInv, Private, Opening
  <2> QED BY <2>1, <2>2, <2>3
<1>7. Private'
  BY <1>6 DEF Private
<1> QED BY <1>2, <1>5, <1>7

(* What goes on with its request stays undisturbed.                        *)
LEMMA StaysUndisturbed ==
  ASSUME IInv, NEW w \in Workers, NEW s, session[w].step # "idle", s.r = session[w].r, s.op = session[w].op
  PROVE  Undisturbed(w, s)
BY DEF IInv, Private, Undisturbed, Opening

LEMMA AckedStep ==
  ASSUME IInv, NEW w \in Workers, NEW s, session' = [session EXCEPT ![w] = s], NEW r \in Requests,
         ~(session[w].r = r /\ session[w].acked)
  PROVE  Acked(r)' = IF s.r = r /\ s.acked THEN Acked(r) \cup {w} ELSE Acked(r)
<1>1. session'[w] = s /\ \A v \in Workers \ {w} : session'[v] = session[v]
  BY DEF IInv, Typed
<1> QED BY <1>1 DEF Acked

FaultsTyped == faults' \in Nat

(* No payout, no confirmation.                                             *)
LEMMA QuietStep ==
  ASSUME IInv, NEW w \in Workers, NEW s \in SessionType, Sound(s), Undisturbed(w, s),
         session' = [session EXCEPT ![w] = s], UNCHANGED tables, UNCHANGED <<paid, hidden>>, FaultsTyped,
         ~session[w].acked, ~s.acked
  PROVE  IInv'
<1>1. SessionStep(w, s)
  BY DEF SessionStep, IInv, Typed, FaultsTyped
<1>2. Typed' /\ RowsOwned' /\ Private' /\ \A v \in Workers : Sound(session[v])'
  BY <1>1, StepKeeps
<1>3. \A r \in Requests : Acked(r)' = Acked(r)
  BY AckedStep
<1>4. UNCHANGED receipts
  BY DEF tables
<1>5. PayoutsCounted'
  BY <1>3, <1>4 DEF IInv, PayoutsCounted
<1> QED BY <1>2, <1>5 DEF IInv

LEMMA FaultTyped ==
  ASSUME IInv
  PROVE  /\ UNCHANGED faults => FaultsTyped
         /\ \A k : Fault(k) => FaultsTyped
BY DEF IInv, Typed, Fault, FaultsTyped

LEMMA RollBackKeeps ==
  ASSUME IInv, NEW w \in Workers, RollBack(w), UNCHANGED <<paid, hidden>>, FaultsTyped, ~session[w].acked
  PROVE  IInv'
<1>1. session' = [session EXCEPT ![w] = Idle] /\ UNCHANGED tables
  BY DEF RollBack, Continue
<1>2. Undisturbed(w, Idle)
  BY IdleFacts DEF Undisturbed
<1> QED BY <1>1, <1>2, IdleFacts, QuietStep

(* ---- calls that begin ---- *)
LEMMA BeginRequestKeeps ==
  ASSUME IInv, NEW w \in Workers, NEW r \in Requests, NEW u \in Users, NEW a \in Amounts, NEW how \in Routes,
         NEW from \in Origins, BeginRequest(w, r, u, a, how, from)
  PROVE  IInv'
<1> DEFINE q == Opened(u, a)
           row == Held(wallet[u], a)
           log == <<Entry("requested", u, "pending")>>
           s == [Idle EXCEPT !.step = "update", !.op = "request", !.r = r, !.by = u, !.pays = how,
                             !.from = from, !.q = q, !.row = row, !.log = log]
<1>1. /\ session[w] = Idle /\ request[r].status = "none" /\ \A v \in Workers : session[v].r # r
      /\ session' = [session EXCEPT ![w] = s] /\ UNCHANGED tables /\ UNCHANGED <<paid, hidden, faults>> /\ a > 0
  BY DEF BeginRequest, Begin, At, IInv, Sound, outside, CanRequest
<1>2. a \in Nat /\ a \in Int
  BY <1>1, WorkflowAssumption
<1>3. q \in RequestRow /\ q.status = "pending" /\ q.owner = u
  BY <1>2, OpenedType
<1>4. row \in WalletRow
  BY <1>2, WalletTypes DEF IInv, Typed
<1>5. log \in Seq(EntryRow)
  BY EntryTypes DEF Actions, RequestStatus
<1> HIDE DEF q, row, log
<1>6. s \in SessionType /\ s.step = "update" /\ s.op = "request" /\ s.r = r /\ s.q = q /\ s.acked = FALSE /\ s.tries = 0
  BY <1>3, <1>4, <1>5, IdleFacts, OriginsAssumption DEF SessionType, Steps, Ops
<1> HIDE DEF s
<1>7. Sound(s)
  BY <1>1, <1>3, <1>6 DEF Sound
<1>8. Undisturbed(w, s)
  BY <1>1, <1>6 DEF Undisturbed
<1> QED BY <1>1, <1>6, <1>7, <1>8, IdleFacts, FaultTyped, QuietStep

(* A request that exists is nobody's to open.                              *)
LEMMA Existing ==
  ASSUME IInv, NEW w \in Workers, NEW r \in Requests, request[r].status # "none", NEW s, s.r = r, s.op # "request"
  PROVE  Undisturbed(w, s) /\ request[r].owner \in Users /\ request[r] \in RequestRow
<1>1. \A v \in Workers : session[v].step # "idle" /\ session[v].r = r => session[v].op # "request"
  BY DEF IInv, Sound
<1> QED BY <1>1 DEF IInv, Typed, RowsOwned, Undisturbed

LEMMA BeginStage1Keeps ==
  ASSUME IInv, NEW w \in Workers, NEW r \in Requests, NEW by \in Actors, BeginStage1(w, r, by)
  PROVE  IInv'
<1> DEFINE q == Stage1Marked(request[r], by)
           row == wallet[request[r].owner]
           log == <<Entry("approved_stage1", by, "approved_pending")>>
           s == [Idle EXCEPT !.step = "update", !.op = "stage1", !.r = r, !.by = by,
                             !.q = q, !.row = row, !.log = log]
<1>1. /\ session[w] = Idle /\ request[r].status = "pending"
      /\ session' = [session EXCEPT ![w] = s] /\ UNCHANGED tables /\ UNCHANGED <<paid, hidden, faults>>
  BY DEF BeginStage1, Begin, At, IInv, Sound, outside, CanMarkStage1
<1>2. request[r].owner \in Users /\ request[r] \in RequestRow
  BY <1>1 DEF IInv, Typed, RowsOwned
<1>3. q \in RequestRow /\ q.status = "approved_pending" /\ q.owner = request[r].owner
  BY <1>2, RequestTypes
<1>4. row \in WalletRow
  BY <1>2 DEF IInv, Typed
<1>5. log \in Seq(EntryRow)
  BY EntryTypes DEF Actions, RequestStatus
<1> HIDE DEF q, row, log
<1>6. s \in SessionType /\ s.step = "update" /\ s.op = "stage1" /\ s.r = r /\ s.q = q /\ s.acked = FALSE /\ s.tries = 0
  BY <1>3, <1>4, <1>5, IdleFacts DEF SessionType, Steps, Ops
<1> HIDE DEF s
<1>7. Sound(s)
  BY <1>1, <1>2, <1>3, <1>6 DEF Sound
<1>8. Undisturbed(w, s)
  BY <1>1, <1>6, Existing
<1> QED BY <1>1, <1>6, <1>7, <1>8, IdleFacts, FaultTyped, QuietStep

LEMMA BeginCloseKeeps ==
  ASSUME IInv, NEW w \in Workers, NEW r \in Requests, NEW by \in Actors, NEW st \in {"rejected", "cancelled"},
         BeginClose(w, r, by, st)
  PROVE  IInv'
<1> DEFINE q == Closed(request[r], st)
           row == Released(wallet[request[r].owner], request[r].amount)
           log == <<Entry(st, by, st)>>
           s == [Idle EXCEPT !.step = "update", !.op = "close", !.r = r, !.by = by,
                             !.q = q, !.row = row, !.log = log]
<1>1. /\ session[w] = Idle /\ request[r].status = "pending"
      /\ session' = [session EXCEPT ![w] = s] /\ UNCHANGED tables /\ UNCHANGED <<paid, hidden, faults>>
  BY DEF BeginClose, Begin, At, IInv, Sound, outside, CanClose
<1>2. request[r].owner \in Users /\ request[r] \in RequestRow
  BY <1>1 DEF IInv, Typed, RowsOwned
<1>3. q \in RequestRow /\ q.status = st /\ q.owner = request[r].owner
  <2>1. st \in RequestStatus
    BY DEF RequestStatus
  <2> QED BY <1>2, <2>1, RequestTypes
<1>4. row \in WalletRow
  BY <1>2, WalletTypes DEF IInv, Typed, RequestRow
<1>5. log \in Seq(EntryRow)
  BY EntryTypes DEF Actions, RequestStatus
<1> HIDE DEF q, row, log
<1>6. s \in SessionType /\ s.step = "update" /\ s.op = "close" /\ s.r = r /\ s.q = q /\ s.acked = FALSE /\ s.tries = 0
  BY <1>3, <1>4, <1>5, IdleFacts DEF SessionType, Steps, Ops
<1> HIDE DEF s
<1>7. Sound(s)
  BY <1>1, <1>2, <1>3, <1>6 DEF Sound
<1>8. Undisturbed(w, s)
  BY <1>1, <1>6, Existing
<1> QED BY <1>1, <1>6, <1>7, <1>8, IdleFacts, FaultTyped, QuietStep

LEMMA BeginFinalKeeps ==
  ASSUME IInv, NEW w \in Workers, NEW r \in Requests, NEW by \in Actors, NEW named \in BOOLEAN,
         BeginFinal(w, r, by, named)
  PROVE  IInv'
<1> DEFINE pays == IF named THEN "coin" ELSE route[r]
           s == [Idle EXCEPT !.step = "read", !.op = "final", !.r = r, !.by = by, !.pays = pays]
<1>1. /\ session[w] = Idle /\ request[r].status # "none"
      /\ session' = [session EXCEPT ![w] = s] /\ UNCHANGED tables /\ UNCHANGED <<paid, hidden, faults>>
  BY DEF BeginFinal, Begin, At, IInv, Sound, outside
<1>2. pays \in Routes
  BY DEF IInv, Typed, Routes
<1> HIDE DEF pays
<1>3. s \in SessionType /\ s.step = "read" /\ s.op = "final" /\ s.r = r /\ s.acked = FALSE /\ s.tries = 0 /\ s.by = by
  BY <1>2, IdleFacts DEF SessionType, Steps, Ops
<1> HIDE DEF s
<1>4. Sound(s)
  BY <1>1, <1>3 DEF Sound
<1>5. Undisturbed(w, s)
  BY <1>1, <1>3, Existing
<1> QED BY <1>1, <1>3, <1>4, <1>5, IdleFacts, FaultTyped, QuietStep

(* ---- calls that go on ---- *)
LEMMA InCall ==
  ASSUME IInv, NEW w \in Workers, session[w].step # "idle"
  PROVE  /\ session[w] \in SessionType /\ Sound(session[w]) /\ session[w].r \in Requests
         /\ request[session[w].r] \in RequestRow
         /\ session[w].op # "request" => request[session[w].r].owner \in Users
         /\ session[w].step # "commit" => session[w].acked = FALSE
         /\ session[w].step # "read" => session[w].q.owner \in Users /\ wallet[session[w].q.owner] \in WalletRow
<1>1. session[w] \in SessionType /\ Sound(session[w])
  BY DEF IInv, Typed
<1>2. session[w].r \in Requests /\ (session[w].op # "request" => request[session[w].r].status # "none")
  BY <1>1 DEF Sound
<1>3. session[w].step # "commit" => session[w].acked = FALSE
  BY <1>1 DEF Sound, SessionType
<1>4. session[w].step # "read" => session[w].q.owner \in Users
  BY <1>1 DEF Sound
<1> QED BY <1>1, <1>2, <1>3, <1>4 DEF IInv, Typed, RowsOwned

(* Steps that keep the rows a session works on, or give them a status.     *)
LEMMA GoesOn ==
  ASSUME IInv, NEW w \in Workers, session[w].step \notin {"idle", "commit"}, NEW s \in SessionType,
         session' = [session EXCEPT ![w] = s], UNCHANGED tables, UNCHANGED <<paid, hidden>>, FaultsTyped,
         s.r = session[w].r, s.op = session[w].op, s.step \notin {"idle", "read"}, ~s.acked,
         s.q.status # "none", s.q.owner \in Users,
         s.op # "request" => s.q.owner = request[s.r].owner,
         s.step = "flush" /\ s.op = "request" => {"status", "owner"} \subseteq s.qset,
         s.step \in {"update", "flush"} => s.tries = 0, s.step = "call" => s.tries < Attempts,
         s.by = session[w].by
  PROVE  IInv'
<1>1. Sound(session[w]) /\ ~session[w].acked
  BY InCall
<1>2. Sound(s)
  BY <1>1 DEF Sound
<1>3. Undisturbed(w, s)
  BY StaysUndisturbed
<1> QED BY <1>1, <1>2, <1>3, QuietStep

LEMMA ReadForFinalKeeps == ASSUME IInv, NEW w \in Workers, ReadForFinal(w) PROVE IInv'
<1>1. session[w].step = "read" /\ UNCHANGED <<paid, hidden, faults>>
  BY DEF ReadForFinal, At, outside
<1> DEFINE o == session[w]
           old == request[o.r]
           q == Approved(old, o.by)
           row == Settled(wallet[old.owner], old.amount)
           log == <<Entry(IF o.pays = "coinless" THEN "failed" ELSE "approved", o.by, "approved")>>
           s == [o EXCEPT !.step = "update", !.q = q, !.row = row, !.log = log]
<1>2. RollBack(w) \/ (session' = [session EXCEPT ![w] = s] /\ UNCHANGED tables /\ CanApprove(wallet[old.owner], old))
  BY DEF ReadForFinal, Continue
<1>3. /\ o \in SessionType /\ Sound(o) /\ old \in RequestRow /\ old.owner \in Users
      /\ o.op = "final" /\ o.acked = FALSE /\ o.r \in Requests /\ o.tries = 0
  BY <1>1, InCall DEF Sound
<1>4. CASE RollBack(w)
  BY <1>1, <1>3, <1>4, FaultTyped, RollBackKeeps
<1>5. CASE session' = [session EXCEPT ![w] = s] /\ UNCHANGED tables
  <2>1. q \in RequestRow /\ q.status = "approved" /\ q.owner = old.owner
    <3>1. q = [old EXCEPT !.status = "approved", !.approvedBy = o.by]
      BY DEF Approved
    <3>2. o.by \in Actors
      BY <1>1, <1>3 DEF Sound, SessionType
    <3> QED BY <1>3, <3>1, <3>2 DEF RequestRow, RequestStatus
  <2>2. row \in WalletRow
    BY <1>3, WalletTypes DEF IInv, Typed, RequestRow
  <2>3. log \in Seq(EntryRow)
    BY <1>3, EntryTypes DEF SessionType, Actions, RequestStatus
  <2> HIDE DEF q, row, log
  <2>4. /\ s \in SessionType /\ s.step = "update" /\ s.q = q /\ s.r = o.r /\ s.op = o.op /\ s.acked = FALSE /\ s.tries = o.tries /\ s.by = o.by
    BY <1>3, <2>1, <2>2, <2>3 DEF SessionType, Steps
  <2> HIDE DEF s
  <2> QED BY <1>1, <1>3, <1>5, <2>1, <2>4, FaultTyped, GoesOn
<1> QED BY <1>2, <1>4, <1>5

LEMMA UpdateKeeps == ASSUME IInv, NEW w \in Workers, Update(w) PROVE IInv'
<1> DEFINE o == session[w]
           qset == Differing(request[o.r], o.q)
           rowset == IF o.op = "stage1" THEN {} ELSE Differing(wallet[o.q.owner], o.row)
           s == [o EXCEPT !.step = "flush", !.qset = qset, !.rowset = rowset]
<1>1. o.step = "update" /\ session' = [session EXCEPT ![w] = s] /\ UNCHANGED tables /\ UNCHANGED <<paid, hidden, faults>>
  BY DEF Update, At, Continue, outside
<1>2. /\ o \in SessionType /\ Sound(o) /\ request[o.r] \in RequestRow /\ o.acked = FALSE
      /\ o.q.owner \in Users /\ wallet[o.q.owner] \in WalletRow
  BY <1>1, InCall
<1>3. qset \subseteq RequestColumns /\ rowset \subseteq WalletColumns
  BY <1>2, Columns DEF Differing
<1>4. o.op = "request" => {"status", "owner"} \subseteq qset
  <2> SUFFICES ASSUME o.op = "request" PROVE {"status", "owner"} \subseteq qset
    OBVIOUS
  <2>1. request[o.r] = NoRequest
    BY <1>1, <1>2 DEF Sound, IInv, RowsOwned
  <2>2. o.q.status # "none" /\ o.q.owner # Nobody
    BY <1>1, <1>2, NobodyAssumption DEF Sound
  <2> QED BY <1>2, <2>1, <2>2, NoRowTypes, Columns DEF Differing, RequestColumns
<1> HIDE DEF qset, rowset
<1>5. /\ s \in SessionType /\ s.step = "flush" /\ s.q = o.q /\ s.r = o.r /\ s.op = o.op /\ s.acked = FALSE
      /\ s.qset = qset /\ s.tries = o.tries /\ s.by = o.by
  BY <1>2, <1>3 DEF SessionType, Steps, Flushed
<1> HIDE DEF s
<1>6. o.q.status # "none" /\ (o.op # "request" => o.q.owner = request[o.r].owner) /\ o.tries = 0
  BY <1>1, <1>2 DEF Sound
<1> QED BY <1>1, <1>2, <1>4, <1>5, <1>6, FaultTyped, GoesOn

LEMMA FlushKeeps == ASSUME IInv, NEW w \in Workers, Flush(w) PROVE IInv'
<1> DEFINE o == session[w]
           old == request[o.r]
           q == Written(old, o.q, o.qset)
           row == Written(wallet[o.q.owner], o.row, o.rowset)
           step == NextStep(o)
           s == [o EXCEPT !.step = step, !.qset = {}, !.rowset = {}, !.q = q, !.row = row]
<1>1. o.step = "flush" /\ session' = [session EXCEPT ![w] = s] /\ UNCHANGED tables /\ UNCHANGED <<paid, hidden, faults>>
  BY DEF Flush, At, Continue, outside
<1>2. /\ o \in SessionType /\ Sound(o) /\ old \in RequestRow /\ o.acked = FALSE
      /\ o.q.owner \in Users /\ wallet[o.q.owner] \in WalletRow /\ o.q \in RequestRow /\ o.row \in WalletRow
  BY <1>1, InCall DEF SessionType
<1>3. /\ q \in RequestRow /\ q.status = (IF "status" \in o.qset THEN o.q.status ELSE old.status)
      /\ q.owner = (IF "owner" \in o.qset THEN o.q.owner ELSE old.owner)
  BY <1>2, WrittenRequest
<1>4. row \in WalletRow
  BY <1>2, WrittenWallet
<1>5. step \in {"risk", "call", "commit"}
  BY DEF NextStep
<1>6. q.status # "none" /\ q.owner \in Users /\ (o.op # "request" => q.owner = old.owner)
  <2>1. o.q.status # "none" /\ (o.op = "request" => {"status", "owner"} \subseteq o.qset)
    BY <1>1, <1>2 DEF Sound
  <2>2. o.op # "request" => old.status # "none" /\ o.q.owner = old.owner
    BY <1>1, <1>2 DEF Sound
  <2> QED BY <1>2, <1>3, <2>1, <2>2
<1>7. o.tries < Attempts
  BY <1>1, <1>2, WorkflowAssumption DEF Sound
<1> HIDE DEF q, row, step
<1>8. s \in SessionType /\ s.step = step /\ s.q = q /\ s.r = o.r /\ s.op = o.op /\ s.acked = FALSE /\ s.tries = o.tries /\ s.by = o.by
  BY <1>2, <1>3, <1>4, <1>5 DEF SessionType, Steps, Flushed
<1> HIDE DEF s
<1> QED BY <1>1, <1>5, <1>6, <1>7, <1>8, FaultTyped, GoesOn

(* What the screening puts down.                                           *)
LEMMA ScreenedFacts ==
  ASSUME IInv, NEW w \in Workers, session[w].step = "risk", NEW s, s = Screened(w)
  PROVE  /\ s \in SessionType /\ s.step = "commit" /\ s.q = session[w].q /\ s.row = session[w].row
         /\ s.r = session[w].r /\ s.op = session[w].op /\ s.by = session[w].by /\ s.acked = FALSE
         /\ s.log = session[w].log
         /\ s.q.status # "none" /\ s.q.owner \in Users /\ (s.op # "request" => s.q.owner = request[s.r].owner)
<1> DEFINE o == session[w]
           found == Findings(o.q.amount, o.from, devices[o.q.owner])
           seen == Stored(o.from, devices[o.q.owner])
<1>1. o \in SessionType /\ Sound(o) /\ o.acked = FALSE /\ o.q.owner \in Users
  BY InCall
<1>2. found \in SUBSET Finding /\ seen \in SUBSET Devices
  BY <1>1, FindingTypes DEF SessionType, IInv, Typed
<1>3. s = [o EXCEPT !.step = "commit", !.found = found, !.seen = seen]
  BY DEF Screened
<1> HIDE DEF found, seen
<1>4. /\ s \in SessionType /\ s.step = "commit" /\ s.q = o.q /\ s.row = o.row /\ s.r = o.r /\ s.op = o.op
      /\ s.by = o.by /\ s.acked = o.acked /\ s.log = o.log
  BY <1>1, <1>2, <1>3 DEF SessionType, Steps, Flushed
<1>5. o.q.status # "none" /\ (o.op # "request" => o.q.owner = request[o.r].owner)
  BY <1>1 DEF Sound
<1> QED BY <1>1, <1>4, <1>5

LEMMA ClearKeeps == ASSUME IInv, NEW w \in Workers, Clear(w) PROVE IInv'
<1>1. PICK s : s = Screened(w)
  OBVIOUS
<1>2. session[w].step = "risk" /\ session' = [session EXCEPT ![w] = s] /\ UNCHANGED tables /\ UNCHANGED <<paid, hidden, faults>>
  BY <1>1 DEF Clear, At, Continue, outside
<1> QED BY <1>1, <1>2, ScreenedFacts, FaultTyped, GoesOn

LEMMA FlagKeeps == ASSUME IInv, NEW w \in Workers, Flag(w) PROVE IInv'
<1>1. PICK t : t = Screened(w)
  OBVIOUS
<1> DEFINE log == Append(t.log, Entry("flagged", Nobody, "pending"))
           s == [t EXCEPT !.log = log]
<1>2. session[w].step = "risk" /\ session' = [session EXCEPT ![w] = s] /\ UNCHANGED tables /\ UNCHANGED <<paid, hidden, faults>>
  BY <1>1 DEF Flag, At, Continue, outside
<1>3. /\ t \in SessionType /\ t.step = "commit" /\ t.r = session[w].r /\ t.op = session[w].op /\ t.by = session[w].by
      /\ t.acked = FALSE /\ t.q.status # "none" /\ t.q.owner \in Users
      /\ (t.op # "request" => t.q.owner = request[t.r].owner)
  BY <1>1, <1>2, ScreenedFacts
<1>4. log \in Seq(EntryRow)
  BY <1>3, EntryTypes DEF SessionType, Actions, RequestStatus
<1> HIDE DEF log
<1>5. s \in SessionType /\ s.step = t.step /\ s.q = t.q /\ s.r = t.r /\ s.op = t.op /\ s.by = t.by /\ s.acked = t.acked
  BY <1>3, <1>4 DEF SessionType
<1> HIDE DEF s
<1> QED BY <1>2, <1>3, <1>5, FaultTyped, GoesOn

LEMMA BlockKeeps == ASSUME IInv, NEW w \in Workers, Block(w) PROVE IInv'
<1>1. PICK t : t = Screened(w)
  OBVIOUS
<1> DEFINE q == Closed(t.q, "cancelled")
           row == Released(t.row, session[w].q.amount)
           log == Append(t.log, Entry("cancelled", Nobody, "cancelled"))
           s == [t EXCEPT !.q = q, !.row = row, !.log = log]
<1>2. session[w].step = "risk" /\ UNCHANGED <<paid, hidden, faults>>
  BY DEF Block, At, outside
<1>3. (session' = [session EXCEPT ![w] = s] /\ UNCHANGED tables) \/ RollBack(w)
  BY <1>1 DEF Block, Continue
<1>4. CASE RollBack(w)
  BY <1>2, <1>4, InCall, FaultTyped, RollBackKeeps
<1>5. CASE session' = [session EXCEPT ![w] = s] /\ UNCHANGED tables
  <2>9. /\ t \in SessionType /\ t.step = "commit" /\ t.r = session[w].r /\ t.op = session[w].op /\ t.by = session[w].by
        /\ t.acked = FALSE /\ t.q.status # "none" /\ t.q.owner \in Users
        /\ (t.op # "request" => t.q.owner = request[t.r].owner)
    BY <1>1, <1>2, ScreenedFacts
  <2>10. session[w] \in SessionType
    BY <1>2, InCall
  <2>1. t.q \in RequestRow /\ t.row \in WalletRow /\ session[w].q.amount \in Int
    BY <2>9, <2>10 DEF SessionType, RequestRow
  <2>2. log \in Seq(EntryRow)
    BY <2>9, EntryTypes DEF SessionType, Actions, RequestStatus
  <2>3. row \in WalletRow
    BY <2>1, WalletTypes
  <2>4. "cancelled" \in RequestStatus
    BY DEF RequestStatus
  <2>5. q \in RequestRow /\ q.status = "cancelled" /\ q.owner = t.q.owner
    BY <2>1, <2>4, RequestTypes
  <2> HIDE DEF q, row, log
  <2>6. s \in SessionType /\ s.step = t.step /\ s.q = q /\ s.r = t.r /\ s.op = t.op /\ s.by = t.by /\ s.acked = t.acked
    BY <2>9, <2>2, <2>3, <2>5 DEF SessionType
  <2> HIDE DEF s
  <2> QED BY <1>2, <1>5, <2>9, <2>5, <2>6, FaultTyped, GoesOn
<1> QED BY <1>3, <1>4, <1>5

LEMMA ScreenUnalertedKeeps == ASSUME IInv, NEW w \in Workers, ScreenUnalerted(w) PROVE IInv'
<1>1. session[w].step = "risk" /\ RollBack(w) /\ UNCHANGED <<paid, hidden>> /\ FaultsTyped
  BY FaultTyped DEF ScreenUnalerted, At
<1> QED BY <1>1, InCall, RollBackKeeps

LEMMA FailUnalertedKeeps == ASSUME IInv, NEW w \in Workers, FailUnalerted(w) PROVE IInv'
<1>1. session[w].step = "fail" /\ RollBack(w) /\ UNCHANGED <<paid, hidden>> /\ FaultsTyped
  BY FaultTyped DEF FailUnalerted, At
<1> QED BY <1>1, InCall, RollBackKeeps

(* A failed attempt.                                                       *)
Attempted(s) == [s EXCEPT !.step = "alert", !.tries = @ + 1]

LEMMA AttemptFacts ==
  ASSUME IInv, NEW w \in Workers, session[w].step = "call",
         NEW s, s = Attempted(session[w])
  PROVE  /\ s \in SessionType /\ s.step = "alert" /\ s.q = session[w].q
         /\ s.r = session[w].r /\ s.op = session[w].op /\ s.by = session[w].by /\ s.acked = FALSE
         /\ s.q.status # "none" /\ s.q.owner \in Users /\ (s.op # "request" => s.q.owner = request[s.r].owner)
<1>1. session[w] \in SessionType /\ Sound(session[w]) /\ session[w].acked = FALSE
  BY InCall
<1>2. session[w].tries + 1 \in 0 .. Attempts
  BY <1>1, WorkflowAssumption DEF Sound, SessionType
<1>3. /\ s \in SessionType /\ s.step = "alert" /\ s.q = session[w].q
      /\ s.r = session[w].r /\ s.op = session[w].op /\ s.by = session[w].by /\ s.acked = FALSE
  BY <1>1, <1>2 DEF SessionType, Steps, Flushed, Attempted
<1> QED BY <1>1, <1>3 DEF Sound

LEMMA RefusedKeeps == ASSUME IInv, NEW w \in Workers, Refused(w) PROVE IInv'
<1>1. PICK s : s = Attempted(session[w])
  OBVIOUS
<1>2. session[w].step = "call" /\ session' = [session EXCEPT ![w] = s] /\ UNCHANGED tables /\ UNCHANGED <<paid, hidden, faults>>
  BY <1>1 DEF Attempted, Refused, At, Continue, outside
<1> QED BY <1>1, <1>2, AttemptFacts, FaultTyped, GoesOn

LEMMA AlertKeeps == ASSUME IInv, NEW w \in Workers, Alert(w) PROVE IInv'
<1>1. PICK x \in {"call", "fail"} :
        /\ session' = [session EXCEPT ![w] = [session[w] EXCEPT !.step = x]]
        /\ x = "call" => session[w].tries < Attempts
        /\ UNCHANGED faults \/ Fault("alert")
  BY DEF Alert, Continue
<1> DEFINE s == [session[w] EXCEPT !.step = x]
<1>2. session[w].step = "alert" /\ UNCHANGED tables /\ UNCHANGED <<paid, hidden>> /\ FaultsTyped
  BY <1>1, FaultTyped DEF Alert, At, Continue
<1>3. session[w] \in SessionType /\ Sound(session[w]) /\ session[w].acked = FALSE /\ session[w].q.owner \in Users
  BY <1>2, InCall
<1>4. /\ s \in SessionType /\ s.step = x /\ s.q = session[w].q /\ s.tries = session[w].tries
      /\ s.r = session[w].r /\ s.op = session[w].op /\ s.by = session[w].by /\ s.acked = FALSE
  BY <1>3 DEF SessionType, Steps, Flushed
<1>5. s.q.status # "none" /\ (s.op # "request" => s.q.owner = request[s.r].owner)
  BY <1>2, <1>3, <1>4 DEF Sound
<1>6. session' = [session EXCEPT ![w] = s]
  BY <1>1
<1> HIDE DEF s
<1> QED BY <1>1, <1>2, <1>3, <1>4, <1>5, <1>6, GoesOn

LEMMA FailKeeps == ASSUME IInv, NEW w \in Workers, Fail(w) PROVE IInv'
<1> DEFINE o == session[w]
           q == Closed(o.q, "failed")
           row == GivenBack(o.row, o.q)
           log == <<Entry("failed", o.by, "failed")>>
           s == [o EXCEPT !.step = "commit", !.q = q, !.row = row, !.log = log]
<1>1. o.step = "fail" /\ session' = [session EXCEPT ![w] = s] /\ UNCHANGED tables /\ UNCHANGED <<paid, hidden, faults>>
  BY DEF Fail, At, Continue, outside
<1>2. o \in SessionType /\ Sound(o) /\ o.acked = FALSE /\ o.q.owner \in Users /\ o.q \in RequestRow /\ o.row \in WalletRow
  BY <1>1, InCall DEF SessionType
<1>3. "failed" \in RequestStatus /\ "failed" \in Actions /\ o.by \in Users \cup Actors \cup {Nobody}
  BY <1>2 DEF SessionType, RequestStatus, Actions
<1>4. q \in RequestRow /\ q.status = "failed" /\ q.owner = o.q.owner /\ row \in WalletRow /\ log \in Seq(EntryRow)
  BY <1>2, <1>3, RequestTypes, GivenBackType, EntryTypes
<1> HIDE DEF q, row, log
<1>5. s \in SessionType /\ s.step = "commit" /\ s.q = q /\ s.r = o.r /\ s.op = o.op /\ s.by = o.by /\ s.acked = FALSE
  BY <1>2, <1>4 DEF SessionType, Steps, Flushed
<1> HIDE DEF s
<1>6. o.op # "request" => o.q.owner = request[o.r].owner
  BY <1>1, <1>2 DEF Sound
<1> QED BY <1>1, <1>2, <1>4, <1>5, <1>6, FaultTyped, GoesOn

-----------------------------------------------------------------------------
(* ---- payouts ---- *)
LEMMA CountTypes ==
  ASSUME IInv, NEW r \in Requests
  PROVE  /\ paid[r] \in Nat /\ receipts[r] \in Nat /\ hidden[r] \in Nat /\ IsFiniteSet(Acked(r)) /\ Cardinality(Acked(r)) \in Nat
         /\ paid[r] = receipts[r] + Cardinality(Acked(r)) + hidden[r]
BY FS_CardinalityType DEF IInv, Typed, PayoutsCounted

LEMMA AnsweredKeeps == ASSUME IInv, NEW w \in Workers, Answered(w) PROVE IInv'
<1> DEFINE o == session[w]
           s == [o EXCEPT !.step = "commit", !.acked = TRUE]
<1>1. /\ o.step = "call" /\ session' = [session EXCEPT ![w] = s] /\ UNCHANGED tables /\ UNCHANGED <<hidden, faults>>
      /\ paid' = [paid EXCEPT ![o.r] = @ + 1]
  BY DEF Answered, At, Continue
<1>2. o \in SessionType /\ Sound(o) /\ o.acked = FALSE /\ o.r \in Requests
  BY <1>1, InCall
<1>3. s \in SessionType /\ s.step = "commit" /\ s.q = o.q /\ s.r = o.r /\ s.op = o.op /\ s.by = o.by /\ s.acked = TRUE
  BY <1>2 DEF SessionType, Steps, Flushed
<1> HIDE DEF s
<1>4. Sound(s)
  BY <1>1, <1>2, <1>3 DEF Sound
<1>5. Undisturbed(w, s)
  BY <1>1, <1>3, StaysUndisturbed
<1>6. SessionStep(w, s)
  BY <1>1, <1>2 DEF SessionStep, IInv, Typed
<1>7. Typed' /\ RowsOwned' /\ Private' /\ \A v \in Workers : Sound(session[v])'
  BY <1>3, <1>4, <1>5, <1>6, StepKeeps
<1>8. ASSUME NEW r \in Requests
      PROVE  (IsFiniteSet(Acked(r)) /\ paid[r] = receipts[r] + Cardinality(Acked(r)) + hidden[r])'
  <2>9. ~(session[w].r = r /\ session[w].acked)
    BY <1>2
  <2>10. Acked(r)' = IF s.r = r /\ s.acked THEN Acked(r) \cup {w} ELSE Acked(r)
    BY <1>1, <2>9, AckedStep
  <2>1. Acked(r)' = IF r = o.r THEN Acked(r) \cup {w} ELSE Acked(r)
    BY <1>3, <2>10
  <2>2. w \notin Acked(r)
    BY <1>2 DEF Acked
  <2>3. paid'[r] = IF r = o.r THEN paid[r] + 1 ELSE paid[r]
    BY <1>1 DEF IInv, Typed
  <2>4. receipts'[r] = receipts[r] /\ hidden'[r] = hidden[r]
    BY <1>1 DEF tables
  <2>5. IsFiniteSet(Acked(r)') /\ Cardinality(Acked(r)') = IF r = o.r THEN Cardinality(Acked(r)) + 1 ELSE Cardinality(Acked(r))
    BY <2>1, <2>2, CountTypes, FS_AddElement
  <2>6. paid'[r] = receipts'[r] + Cardinality(Acked(r)') + hidden'[r]
    BY <2>3, <2>4, <2>5, CountTypes
  <2> QED BY <2>5, <2>6
<1> QED BY <1>7, <1>8 DEF IInv, PayoutsCounted

LEMMA AnswerLostKeeps == ASSUME IInv, NEW w \in Workers, AnswerLost(w) PROVE IInv'
<1> DEFINE o == session[w]
<1>1. PICK s : s = Attempted(session[w])
  OBVIOUS
<1>2. /\ o.step = "call" /\ session' = [session EXCEPT ![w] = s] /\ UNCHANGED tables
      /\ paid' = [paid EXCEPT ![o.r] = @ + 1] /\ hidden' = [hidden EXCEPT ![o.r] = @ + 1] /\ faults' = faults + 1
  BY <1>1 DEF Attempted, AnswerLost, At, Continue, Fault
<1>3. Sound(o) /\ o.acked = FALSE /\ o.r \in Requests
  BY <1>2, InCall
<1>10. session[w].step = "call"
  BY <1>2
<1>4. /\ s \in SessionType /\ s.step = "alert" /\ s.r = o.r /\ s.op = o.op /\ s.by = o.by /\ s.acked = FALSE
      /\ s.q.status # "none" /\ s.q.owner \in Users /\ (s.op # "request" => s.q.owner = request[s.r].owner)
  BY <1>1, <1>10, AttemptFacts
<1>5. Sound(s)
  BY <1>2, <1>3, <1>4 DEF Sound
<1>6. Undisturbed(w, s)
  BY <1>2, <1>4, StaysUndisturbed
<1>7. SessionStep(w, s)
  BY <1>2, <1>3 DEF SessionStep, IInv, Typed
<1>8. Typed' /\ RowsOwned' /\ Private' /\ \A v \in Workers : Sound(session[v])'
  BY <1>4, <1>5, <1>6, <1>7, StepKeeps
<1>9. ASSUME NEW r \in Requests
      PROVE  (IsFiniteSet(Acked(r)) /\ paid[r] = receipts[r] + Cardinality(Acked(r)) + hidden[r])'
  <2>1. Acked(r)' = Acked(r)
    BY <1>2, <1>3, <1>4, AckedStep
  <2>2. /\ paid'[r] = IF r = o.r THEN paid[r] + 1 ELSE paid[r]
        /\ hidden'[r] = IF r = o.r THEN hidden[r] + 1 ELSE hidden[r]
    BY <1>2 DEF IInv, Typed
  <2>3. receipts'[r] = receipts[r]
    BY <1>2 DEF tables
  <2>4. paid'[r] = receipts'[r] + Cardinality(Acked(r)') + hidden'[r]
    BY <1>2, <2>1, <2>2, <2>3, CountTypes
  <2> QED BY <2>1, <2>4, CountTypes
<1> QED BY <1>8, <1>9 DEF IInv, PayoutsCounted

LEMMA CrashKeeps == ASSUME IInv, NEW w \in Workers, Crash(w) PROVE IInv'
<1> DEFINE o == session[w]
<1>1. /\ o.step # "idle" /\ session' = [session EXCEPT ![w] = Idle] /\ UNCHANGED tables /\ UNCHANGED paid /\ faults' = faults + 1
      /\ hidden' = [r \in Requests |-> IF r = o.r /\ o.acked THEN hidden[r] + 1 ELSE hidden[r]]
  BY DEF Crash, RollBack, Continue, Fault, At
<1>2. Undisturbed(w, Idle)
  BY IdleFacts DEF Undisturbed
<1>3. SessionStep(w, Idle)
  BY <1>1 DEF SessionStep, IInv, Typed
<1>4. Typed' /\ RowsOwned' /\ Private' /\ \A v \in Workers : Sound(session[v])'
  BY <1>2, <1>3, IdleFacts, StepKeeps
<1>5. session'[w] = Idle /\ \A v \in Workers \ {w} : session'[v] = session[v]
  BY <1>1 DEF IInv, Typed
<1>6. ASSUME NEW r \in Requests
      PROVE  (IsFiniteSet(Acked(r)) /\ paid[r] = receipts[r] + Cardinality(Acked(r)) + hidden[r])'
  <2>1. Acked(r)' = Acked(r) \ {w}
    BY <1>5, IdleFacts DEF Acked
  <2>2. w \in Acked(r) <=> r = o.r /\ o.acked
    BY <1>1, InCall DEF Acked, SessionType
  <2>3. IsFiniteSet(Acked(r)') /\ Cardinality(Acked(r)') = IF r = o.r /\ o.acked THEN Cardinality(Acked(r)) - 1 ELSE Cardinality(Acked(r))
    BY <2>1, <2>2, CountTypes, FS_RemoveElement
  <2>4. /\ receipts'[r] = receipts[r] /\ paid'[r] = paid[r]
        /\ hidden'[r] = IF r = o.r /\ o.acked THEN hidden[r] + 1 ELSE hidden[r]
    BY <1>1 DEF tables
  <2>5. paid'[r] = receipts'[r] + Cardinality(Acked(r)') + hidden'[r]
    BY <2>3, <2>4, CountTypes
  <2> QED BY <2>3, <2>5
<1> QED BY <1>4, <1>6 DEF IInv, PayoutsCounted

LEMMA CommitKeeps == ASSUME IInv, NEW w \in Workers, Commit(w) PROVE IInv'
<1> DEFINE o == session[w]
<1>1. /\ o.step = "commit" /\ session' = [session EXCEPT ![w] = Idle] /\ UNCHANGED <<paid, hidden, faults>>
      /\ wallet' = [wallet EXCEPT ![o.q.owner] = IF o.op = "stage1" THEN @ ELSE o.row]
      /\ request' = [request EXCEPT ![o.r] = o.q]
      /\ route' = [route EXCEPT ![o.r] = IF o.op = "request" THEN o.pays ELSE @]
      /\ audit' = [audit EXCEPT ![o.r] = @ \o o.log]
      /\ devices' = [devices EXCEPT ![o.q.owner] = @ \cup o.seen]
      /\ events' = [events EXCEPT ![o.r] = @ \cup o.found]
      /\ receipts' = [receipts EXCEPT ![o.r] = IF o.acked THEN @ + 1 ELSE @]
  BY DEF Commit, At, outside
<1>2. o \in SessionType /\ Sound(o) /\ o.r \in Requests /\ o.q.owner \in Users
  BY <1>1, InCall
<1>3. /\ o.q \in RequestRow /\ o.row \in WalletRow /\ o.pays \in Routes /\ o.log \in Seq(EntryRow)
      /\ o.seen \subseteq Devices /\ o.found \subseteq Finding /\ o.q.status # "none"
  BY <1>1, <1>2 DEF SessionType, Sound
<1>4. session'[w] = Idle /\ \A v \in Workers \ {w} : session'[v] = session[v]
  BY <1>1 DEF IInv, Typed
<1>5. request'[o.r] = o.q /\ \A r \in Requests \ {o.r} : request'[r] = request[r]
  BY <1>1, <1>2 DEF IInv, Typed
<1>6. Typed'
  <2>1. wallet' \in [Users -> WalletRow] /\ request' \in [Requests -> RequestRow] /\ route' \in [Requests -> Routes]
    BY <1>1, <1>2, <1>3 DEF IInv, Typed
  <2>2. audit' \in [Requests -> Seq(EntryRow)]
    <3>1. audit[o.r] \o o.log \in Seq(EntryRow)
      BY <1>2, <1>3 DEF IInv, Typed
    <3> QED BY <1>1, <3>1 DEF IInv, Typed
  <2>3. devices' \in [Users -> SUBSET Devices] /\ events' \in [Requests -> SUBSET Finding]
    BY <1>1, <1>2, <1>3 DEF IInv, Typed
  <2>4. receipts' \in [Requests -> Nat]
    BY <1>1, <1>2 DEF IInv, Typed
  <2> QED BY <1>1, <2>1, <2>2, <2>3, <2>4, IdleFacts DEF IInv, Typed
<1>7. RowsOwned'
  BY <1>2, <1>3, <1>5 DEF IInv, RowsOwned
<1>8. Private'
  BY <1>4, IdleFacts DEF IInv, Private, Opening
<1>9. ASSUME NEW v \in Workers PROVE Sound(session[v])'
  <2>1. CASE v = w
    <3>1. Sound(session'[v])
      BY <1>4, <2>1, IdleFacts
    <3>2. session'[v] = Idle
      BY <1>4, <2>1
    <3> QED BY <3>2, IdleFacts DEF Sound
  <2>2. CASE v # w
    <3>1. session'[v] = session[v] /\ Sound(session[v])
      BY <1>4, <2>2 DEF IInv
    <3>2. CASE session[v].step = "idle" \/ session[v].r # o.r
      <4>1. session[v].step # "idle" => request'[session[v].r] = request[session[v].r]
        BY <1>5, <3>1, <3>2 DEF Sound
      <4> QED BY <3>1, <4>1 DEF Sound
    <3>3. CASE session[v].step # "idle" /\ session[v].r = o.r
      <4>1. o.op # "request" /\ session[v].op # "request"
        BY <1>1, <2>2, <3>3 DEF IInv, Private, Opening
      <4>2. o.q.owner = request[o.r].owner
        BY <1>1, <1>2, <4>1 DEF Sound
      <4> QED BY <1>3, <1>5, <3>1, <3>3, <4>1, <4>2 DEF Sound
    <3> QED BY <3>2, <3>3
  <2> QED BY <2>1, <2>2
<1>10. ASSUME NEW r \in Requests
      PROVE  (IsFiniteSet(Acked(r)) /\ paid[r] = receipts[r] + Cardinality(Acked(r)) + hidden[r])'
  <2>1. Acked(r)' = Acked(r) \ {w}
    BY <1>4, IdleFacts DEF Acked
  <2>2. w \in Acked(r) <=> r = o.r /\ o.acked
    BY <1>2 DEF Acked, SessionType
  <2>3. IsFiniteSet(Acked(r)') /\ Cardinality(Acked(r)') = IF r = o.r /\ o.acked THEN Cardinality(Acked(r)) - 1 ELSE Cardinality(Acked(r))
    BY <2>1, <2>2, CountTypes, FS_RemoveElement
  <2>4. receipts'[r] = IF r = o.r /\ o.acked THEN receipts[r] + 1 ELSE receipts[r]
    BY <1>1 DEF IInv, Typed
  <2>5. paid'[r] = receipts'[r] + Cardinality(Acked(r)') + hidden'[r]
    BY <1>1, <2>3, <2>4, CountTypes
  <2> QED BY <2>3, <2>5
<1> QED BY <1>6, <1>7, <1>8, <1>9, <1>10 DEF IInv, PayoutsCounted

-----------------------------------------------------------------------------
LEMMA InitInv == Init => IInv
<1> SUFFICES ASSUME Init PROVE IInv
  OBVIOUS
<1>1. \A w \in Workers : session[w] = Idle
  BY DEF Init
<1>2. [NewWallet EXCEPT !.balance = Funds] \in WalletRow
  BY NoRowTypes, WorkflowAssumption DEF WalletRow
<1>3. "manual" \in Routes /\ <<>> \in Seq(EntryRow)
  BY DEF Routes
<1>4. Typed
  BY <1>2, <1>3, NoRowTypes, IdleFacts DEF Init, Typed
<1>5. RowsOwned
  BY NoRowTypes DEF Init, RowsOwned
<1>6. Private /\ \A w \in Workers : Sound(session[w])
  BY <1>1, IdleFacts DEF Private, Opening
<1>7. \A r \in Requests : Acked(r) = {}
  BY <1>1, IdleFacts DEF Acked
<1>8. PayoutsCounted
  <2>1. \A r \in Requests : IsFiniteSet(Acked(r)) /\ Cardinality(Acked(r)) = 0
    BY <1>7, FS_EmptySet
  <2>2. \A r \in Requests : paid[r] = 0 /\ receipts[r] = 0 /\ hidden[r] = 0
    BY DEF Init
  <2> QED BY <2>1, <2>2 DEF PayoutsCounted
<1> QED BY <1>4, <1>5, <1>6, <1>8 DEF IInv

LEMMA InvStep == ASSUME IInv, [Next]_vars PROVE IInv'
<1>1. ASSUME NEW w \in Workers, Call(w) PROVE IInv'
  BY <1>1, BeginRequestKeeps, BeginStage1Keeps, BeginFinalKeeps, BeginCloseKeeps DEF Call
<1>2. ASSUME NEW w \in Workers, Work(w) PROVE IInv'
  BY <1>2, ReadForFinalKeeps, UpdateKeeps, FlushKeeps, ClearKeeps, FlagKeeps, BlockKeeps, ScreenUnalertedKeeps,
     AnsweredKeeps, RefusedKeeps, AnswerLostKeeps, AlertKeeps, FailKeeps, FailUnalertedKeeps, CommitKeeps DEF Work
<1>3. ASSUME NEW w \in Workers, Crash(w) PROVE IInv'
  BY <1>3, CrashKeeps
<1>4. CASE UNCHANGED vars
  <2>1. \A r \in Requests : Acked(r)' = Acked(r)
    BY <1>4 DEF vars, Acked
  <2>2. PayoutsCounted'
    BY <1>4, <2>1 DEF vars, IInv, PayoutsCounted
  <2> QED BY <1>4, <2>2 DEF vars, IInv, Typed, RowsOwned, Private, Opening, Sound
<1> QED BY <1>1, <1>2, <1>3, <1>4 DEF Next

THEOREM Invariant == Spec => []IInv
BY InitInv, InvStep, PTL DEF Spec

(* Columns keep their types and no session works on a row of another type, *)
(* however many processes write back what they read too early.             *)
THEOREM TypeCorrect == Spec => []TypeOK
<1>1. IInv => TypeOK
  BY DEF IInv, Typed, TypeOK, SessionType
<1> QED BY <1>1, Invariant, PTL

(* Of any number of processes none forgets a confirmed payout: a request    *)
(* was paid as often as receipts say, or are about to say, but for the      *)
(* payouts of it whose answer was lost or died with the process.            *)
THEOREM PayoutsOnRecord == Spec => []UnrecordedPayoutsAreFaults
<1>1. IInv => UnrecordedPayoutsAreFaults
  BY DEF IInv, PayoutsCounted, UnrecordedPayoutsAreFaults
<1> QED BY <1>1, Invariant, PTL

-----------------------------------------------------------------------------
(* ---- first approvals ---- *)
Past == {"approved_pending", "approved", "failed"}
PaySteps == {"call", "alert", "fail"}
Marked(r) == \E i \in DOMAIN audit[r] : audit[r][i].action = "approved_stage1"
Ends(e) == e.action \in {"approved", "failed"}

(* A request once decided upon never pends again: a session that writes    *)
(* another status, or the column it did not change, leaves a first         *)
(* approval behind it, or has none to need.                                *)
Traced(s) ==
  s.step # "idle" =>
    /\ s.step = "read" => request[s.r].status # "pending"
    /\ s.step # "read" =>
         IF s.op = "request" THEN s.q.status \in {"pending", "cancelled"}
         ELSE s.q.status # "pending" /\ (s.q.status \in Past => s.op = "stage1" \/ Marked(s.r))
    /\ s.op = "final" /\ s.step # "read" => Marked(s.r)
    /\ s.step = "flush" /\ s.op # "request" => "status" \in s.qset \/ request[s.r].status # "pending"
    /\ s.step \in PaySteps => s.op = "final"
    /\ s.step = "risk" => s.op = "request"
    /\ s.op = "stage1" => \E i \in DOMAIN s.log : s.log[i].action = "approved_stage1"
    /\ \A i \in DOMAIN s.log : Ends(s.log[i]) => s.op = "final"

InOrder(r) ==
  /\ request[r].status \in Past => Marked(r)
  /\ paid[r] > 0 => Marked(r)
  /\ \A i \in DOMAIN audit[r] : Ends(audit[r][i]) => \E j \in 1 .. i - 1 : audit[r][j].action = "approved_stage1"

FirstApprovals == (\A w \in Workers : Traced(session[w])) /\ (\A r \in Requests : InOrder(r))

LEMMA TracedStep ==
  ASSUME IInv, FirstApprovals, NEW w \in Workers, NEW s, Traced(s),
         session' = [session EXCEPT ![w] = s], UNCHANGED tables,
         \A r \in Requests : paid'[r] = paid[r] \/ Marked(r)
  PROVE  FirstApprovals'
<1>1. session'[w] = s /\ \A v \in Workers \ {w} : session'[v] = session[v]
  BY DEF IInv, Typed
<1>2. UNCHANGED request /\ UNCHANGED audit
  BY DEF tables
<1>3. \A r : Marked(r)' <=> Marked(r)
  BY <1>2 DEF Marked
<1>4. ASSUME NEW v \in Workers PROVE Traced(session[v])'
  <2>1. Traced(session'[v])
    BY <1>1 DEF FirstApprovals
  <2> QED BY <1>2, <1>3, <2>1 DEF Traced
<1>5. ASSUME NEW r \in Requests PROVE InOrder(r)'
  BY <1>2, <1>3 DEF FirstApprovals, InOrder
<1> QED BY <1>4, <1>5 DEF FirstApprovals

LEMMA RollBackTraced ==
  ASSUME IInv, FirstApprovals, NEW w \in Workers, RollBack(w), UNCHANGED paid
  PROVE  FirstApprovals'
<1>1. Traced(Idle)
  BY IdleFacts DEF Traced
<1> QED BY <1>1, TracedStep DEF RollBack, Continue

(* A session that keeps its request, its log and its status stays traced.  *)
LEMMA StaysTraced ==
  ASSUME IInv, FirstApprovals, NEW w \in Workers, session[w].step \notin {"idle", "read"},
         NEW s, s.step \notin {"idle", "read", "flush"}, s.r = session[w].r, s.op = session[w].op,
         s.q.status = session[w].q.status, s.log = session[w].log,
         s.step \in PaySteps => s.op = "final", s.step = "risk" => s.op = "request"
  PROVE  Traced(s)
<1>1. Traced(session[w])
  BY DEF FirstApprovals
<1> QED BY <1>1 DEF Traced

(* A log of one entry.                                                     *)
LEMMA OneEntry ==
  ASSUME NEW a, NEW who, NEW st
  PROVE  LET log == <<Entry(a, who, st)>> IN
         /\ \A i \in DOMAIN log : log[i].action = a
         /\ \E i \in DOMAIN log : log[i].action = a
<1> DEFINE e == Entry(a, who, st)
<1>1. e.action = a
  BY DEF Entry
<1> HIDE DEF e
<1>2. DOMAIN <<e>> = {1} /\ <<e>>[1] = e
  OBVIOUS
<1> QED BY <1>1, <1>2 DEF e

(* One entry more that ends nothing.                                       *)
LEMMA OneMore ==
  ASSUME NEW log \in Seq(EntryRow), NEW e \in EntryRow, ~Ends(e), \A i \in DOMAIN log : ~Ends(log[i])
  PROVE  \A i \in DOMAIN Append(log, e) : ~Ends(Append(log, e)[i])
<1>1. \A i \in DOMAIN Append(log, e) : Append(log, e)[i] = e \/ (i \in DOMAIN log /\ Append(log, e)[i] = log[i])
  OBVIOUS
<1> QED BY <1>1

LEMMA BeginTraced ==
  ASSUME IInv, FirstApprovals, NEW w \in Workers, Call(w)
  PROVE  FirstApprovals'
<1>1. ASSUME NEW r \in Requests, NEW u \in Users, NEW a \in Amounts, NEW how \in Routes, NEW from \in Origins,
             BeginRequest(w, r, u, a, how, from)
      PROVE  FirstApprovals'
  <2> DEFINE q == Opened(u, a)
             log == <<Entry("requested", u, "pending")>>
             s == [Idle EXCEPT !.step = "update", !.op = "request", !.r = r, !.by = u, !.pays = how,
                               !.from = from, !.q = q, !.row = Held(wallet[u], a), !.log = log]
  <2>1. session' = [session EXCEPT ![w] = s] /\ UNCHANGED tables /\ UNCHANGED paid /\ a > 0
    BY <1>1 DEF BeginRequest, Begin, outside, CanRequest
  <2>2. q.status = "pending"
    BY DEF Opened, NoRequest
  <2>3. \A i \in DOMAIN log : ~Ends(log[i])
    BY OneEntry DEF Ends
  <2> HIDE DEF q, log
  <2>4. s.step = "update" /\ s.op = "request" /\ s.q = q /\ s.log = log
    BY DEF Idle
  <2> HIDE DEF s
  <2>5. Traced(s)
    BY <2>2, <2>3, <2>4 DEF Traced, PaySteps
  <2> QED BY <2>1, <2>5, TracedStep
<1>2. ASSUME NEW r \in Requests, NEW by \in Actors, BeginStage1(w, r, by)
      PROVE  FirstApprovals'
  <2> DEFINE q == Stage1Marked(request[r], by)
             log == <<Entry("approved_stage1", by, "approved_pending")>>
             s == [Idle EXCEPT !.step = "update", !.op = "stage1", !.r = r, !.by = by,
                               !.q = q, !.row = wallet[request[r].owner], !.log = log]
  <2>1. session' = [session EXCEPT ![w] = s] /\ UNCHANGED tables /\ UNCHANGED paid
    BY <1>2 DEF BeginStage1, Begin, outside
  <2>2. q.status = "approved_pending"
    BY RequestTypes DEF IInv, Typed
  <2>3. (\A i \in DOMAIN log : ~Ends(log[i])) /\ \E i \in DOMAIN log : log[i].action = "approved_stage1"
    BY OneEntry DEF Ends
  <2> HIDE DEF q, log
  <2>4. s.step = "update" /\ s.op = "stage1" /\ s.q = q /\ s.log = log
    BY DEF Idle
  <2> HIDE DEF s
  <2>5. Traced(s)
    BY <2>2, <2>3, <2>4 DEF Traced, PaySteps
  <2> QED BY <2>1, <2>5, TracedStep
<1>3. ASSUME NEW r \in Requests, NEW by \in Actors, NEW named \in BOOLEAN, BeginFinal(w, r, by, named)
      PROVE  FirstApprovals'
  <2> DEFINE pays == IF named THEN "coin" ELSE route[r]
             s == [Idle EXCEPT !.step = "read", !.op = "final", !.r = r, !.by = by, !.pays = pays]
  <2>1. /\ session' = [session EXCEPT ![w] = s] /\ UNCHANGED tables /\ UNCHANGED paid
        /\ request[r].status # "pending"
    BY <1>3 DEF BeginFinal, Begin, outside
  <2> HIDE DEF pays
  <2>2. s.step = "read" /\ s.op = "final" /\ s.r = r
    BY DEF Idle
  <2> HIDE DEF s
  <2>3. Traced(s)
    BY <2>1, <2>2 DEF Traced, PaySteps
  <2> QED BY <2>1, <2>3, TracedStep
<1>4. ASSUME NEW r \in Requests, NEW by \in Actors, NEW st \in {"rejected", "cancelled"}, BeginClose(w, r, by, st)
      PROVE  FirstApprovals'
  <2> DEFINE q == Closed(request[r], st)
             log == <<Entry(st, by, st)>>
             row == Released(wallet[request[r].owner], request[r].amount)
             s == [Idle EXCEPT !.step = "update", !.op = "close", !.r = r, !.by = by,
                               !.q = q, !.row = row, !.log = log]
  <2>1. session' = [session EXCEPT ![w] = s] /\ UNCHANGED tables /\ UNCHANGED paid
    BY <1>4 DEF BeginClose, Begin, outside
  <2>2. st \in RequestStatus
    BY DEF RequestStatus
  <2>3. q.status = st
    BY <2>2, RequestTypes DEF IInv, Typed
  <2>4. \A i \in DOMAIN log : ~Ends(log[i])
    BY OneEntry DEF Ends
  <2> HIDE DEF q, log, row
  <2>5. s.step = "update" /\ s.op = "close" /\ s.q = q /\ s.log = log
    BY DEF Idle
  <2> HIDE DEF s
  <2>6. Traced(s)
    BY <2>3, <2>4, <2>5 DEF Traced, PaySteps, Past
  <2> QED BY <2>1, <2>6, TracedStep
<1> QED BY <1>1, <1>2, <1>3, <1>4 DEF Call

(* What is approved now had its first approval.                            *)
LEMMA ReadTraced == ASSUME IInv, FirstApprovals, NEW w \in Workers, ReadForFinal(w) PROVE FirstApprovals'
<1> DEFINE o == session[w]
           old == request[o.r]
           q == Approved(old, o.by)
           row == Settled(wallet[old.owner], old.amount)
           log == <<Entry(IF o.pays = "coinless" THEN "failed" ELSE "approved", o.by, "approved")>>
           s == [o EXCEPT !.step = "update", !.q = q, !.row = row, !.log = log]
<1>1. o.step = "read" /\ UNCHANGED paid
  BY DEF ReadForFinal, At, outside
<1>2. RollBack(w) \/ (session' = [session EXCEPT ![w] = s] /\ UNCHANGED tables /\ CanApprove(wallet[old.owner], old))
  BY DEF ReadForFinal, Continue
<1>3. o \in SessionType /\ Sound(o) /\ old \in RequestRow /\ o.r \in Requests /\ Traced(o) /\ InOrder(o.r)
  BY <1>1, InCall DEF FirstApprovals
<1>4. CASE RollBack(w)
  BY <1>1, <1>4, RollBackTraced
<1>5. CASE session' = [session EXCEPT ![w] = s] /\ UNCHANGED tables /\ CanApprove(wallet[old.owner], old)
  <2>1. old.status = "approved_pending"
    BY <1>1, <1>3, <1>5 DEF CanApprove, Traced
  <2>2. Marked(o.r) /\ o.op = "final"
    BY <1>1, <1>3, <2>1 DEF InOrder, Past, Sound
  <2>3. q.status = "approved"
    BY <1>3 DEF Approved, RequestRow
  <2> HIDE DEF q, row, log
  <2>4. s.step = "update" /\ s.op = "final" /\ s.r = o.r /\ s.q = q
    BY <1>3, <2>2 DEF SessionType
  <2> HIDE DEF s
  <2>5. Traced(s)
    BY <2>2, <2>3, <2>4 DEF Traced, PaySteps
  <2> QED BY <1>1, <1>5, <2>5, TracedStep
<1> QED BY <1>2, <1>4, <1>5

LEMMA UpdateTraced == ASSUME IInv, FirstApprovals, NEW w \in Workers, Update(w) PROVE FirstApprovals'
<1> DEFINE o == session[w]
           qset == Differing(request[o.r], o.q)
           rowset == IF o.op = "stage1" THEN {} ELSE Differing(wallet[o.q.owner], o.row)
           s == [o EXCEPT !.step = "flush", !.qset = qset, !.rowset = rowset]
<1>1. o.step = "update" /\ session' = [session EXCEPT ![w] = s] /\ UNCHANGED tables /\ UNCHANGED paid
  BY DEF Update, At, Continue, outside
<1>2. o \in SessionType /\ Traced(o) /\ request[o.r] \in RequestRow
  BY <1>1, InCall DEF FirstApprovals
<1>3. request[o.r].status # o.q.status => "status" \in qset
  BY <1>2, Columns DEF Differing, RequestColumns
<1> HIDE DEF qset, rowset
<1>4. s.step = "flush" /\ s.op = o.op /\ s.r = o.r /\ s.q = o.q /\ s.log = o.log /\ s.qset = qset
  BY <1>2 DEF SessionType
<1> HIDE DEF s
<1>5. Traced(s)
  BY <1>1, <1>2, <1>3, <1>4 DEF Traced, PaySteps
<1> QED BY <1>1, <1>5, TracedStep

LEMMA FlushTraced == ASSUME IInv, FirstApprovals, NEW w \in Workers, Flush(w) PROVE FirstApprovals'
<1> DEFINE o == session[w]
           q == Written(request[o.r], o.q, o.qset)
           row == Written(wallet[o.q.owner], o.row, o.rowset)
           step == NextStep(o)
           s == [o EXCEPT !.step = step, !.qset = {}, !.rowset = {}, !.q = q, !.row = row]
<1>1. o.step = "flush" /\ session' = [session EXCEPT ![w] = s] /\ UNCHANGED tables /\ UNCHANGED paid
  BY DEF Flush, At, Continue, outside
<1>2. /\ o \in SessionType /\ Sound(o) /\ Traced(o) /\ request[o.r] \in RequestRow /\ o.q \in RequestRow
      /\ o.r \in Requests /\ InOrder(o.r)
  BY <1>1, InCall DEF FirstApprovals, SessionType
<1>3. q.status = IF "status" \in o.qset THEN o.q.status ELSE request[o.r].status
  BY <1>2, WrittenRequest
<1>4. o.op = "request" => "status" \in o.qset
  BY <1>1, <1>2 DEF Sound
<1>5. step \in {"risk", "call", "commit"} /\ (step = "risk" => o.op = "request") /\ (step = "call" => o.op = "final")
  BY DEF NextStep
<1> HIDE DEF q, row, step
<1>6. s.step = step /\ s.op = o.op /\ s.r = o.r /\ s.q = q /\ s.log = o.log
  BY <1>2 DEF SessionType
<1> HIDE DEF s
<1>7. IF s.op = "request" THEN s.q.status \in {"pending", "cancelled"}
      ELSE s.q.status # "pending" /\ (s.q.status \in Past => s.op = "stage1" \/ Marked(s.r))
  BY <1>1, <1>2, <1>3, <1>4, <1>6 DEF Traced, InOrder
<1>8. Traced(s)
  BY <1>1, <1>2, <1>5, <1>6, <1>7 DEF Traced, PaySteps
<1> QED BY <1>1, <1>8, TracedStep

LEMMA ScreenTraced ==
  ASSUME IInv, FirstApprovals, NEW w \in Workers, Clear(w) \/ Flag(w) \/ Block(w)
  PROVE  FirstApprovals'
<1> DEFINE o == session[w]
<1>1. PICK t : t = Screened(w)
  OBVIOUS
<1>2. o.step = "risk" /\ UNCHANGED paid
  BY DEF Clear, Flag, Block, At, outside
<1>3. Traced(o) /\ o.op = "request" /\ o \in SessionType /\ \A i \in DOMAIN o.log : ~Ends(o.log[i])
  BY <1>2, InCall DEF FirstApprovals, Traced
<1>4. t \in SessionType /\ t.step = "commit" /\ t.q = o.q /\ t.r = o.r /\ t.op = o.op /\ t.log = o.log
  BY <1>1, <1>2, ScreenedFacts
<1>5. Traced(t)
  BY <1>2, <1>4, StaysTraced DEF PaySteps
<1>6. CASE Clear(w)
  BY <1>1, <1>2, <1>5, <1>6, TracedStep DEF Clear, Continue
<1>7. CASE Flag(w)
  <2> DEFINE log == Append(t.log, Entry("flagged", Nobody, "pending"))
             s == [t EXCEPT !.log = log]
  <2>1. session' = [session EXCEPT ![w] = s] /\ UNCHANGED tables
    BY <1>1, <1>7 DEF Flag, Continue
  <2>2. log \in Seq(EntryRow)
    BY <1>4, EntryTypes DEF SessionType, Actions, RequestStatus
  <2>3. s \in SessionType /\ s.step = "commit" /\ s.op = t.op /\ s.q = o.q /\ s.log = log
    <3> HIDE DEF log
    <3> QED BY <1>4, <2>2 DEF SessionType
  <2> HIDE DEF s
  <2>4. \A i \in DOMAIN s.log : ~Ends(s.log[i])
    <3>1. Entry("flagged", Nobody, "pending") \in EntryRow /\ ~Ends(Entry("flagged", Nobody, "pending"))
      BY EntryTypes DEF Actions, RequestStatus, Ends, Entry
    <3>2. t.log \in Seq(EntryRow) /\ \A i \in DOMAIN t.log : ~Ends(t.log[i])
      BY <1>3, <1>4 DEF SessionType
    <3> QED BY <2>3, <3>1, <3>2, OneMore
  <2>5. Traced(s)
    BY <1>2, <1>3, <1>4, <2>3, <2>4 DEF Traced, PaySteps
  <2> QED BY <1>2, <2>1, <2>5, TracedStep
<1>8. CASE Block(w)
  <2> DEFINE q == Closed(t.q, "cancelled")
             row == Released(t.row, o.q.amount)
             e == Entry("cancelled", Nobody, "cancelled")
             log == Append(t.log, e)
             s == [t EXCEPT !.q = q, !.row = row, !.log = log]
  <2>1. (session' = [session EXCEPT ![w] = s] /\ UNCHANGED tables) \/ RollBack(w)
    BY <1>1, <1>8 DEF Block, Continue
  <2>2. CASE RollBack(w)
    BY <1>2, <2>2, RollBackTraced
  <2>3. CASE session' = [session EXCEPT ![w] = s] /\ UNCHANGED tables
    <3>1. t.q \in RequestRow
      BY <1>4 DEF SessionType
    <3>2. q.status = "cancelled"
      BY <3>1, RequestTypes DEF RequestStatus
    <3>3. e \in EntryRow /\ ~Ends(e)
      BY EntryTypes DEF Actions, RequestStatus, Ends, Entry
    <3>4. t.log \in Seq(EntryRow) /\ \A i \in DOMAIN t.log : ~Ends(t.log[i])
      BY <1>3, <1>4 DEF SessionType
    <3> HIDE DEF e
    <3>5. \A i \in DOMAIN log : ~Ends(log[i])
      BY <3>3, <3>4, OneMore
    <3> HIDE DEF q, row, log
    <3>6. s.step = "commit" /\ s.op = "request" /\ s.q = q /\ s.log = log
      BY <1>3, <1>4 DEF SessionType
    <3> HIDE DEF s
    <3>7. Traced(s)
      BY <3>2, <3>5, <3>6 DEF Traced, PaySteps
    <3> QED BY <1>2, <2>3, <3>7, TracedStep
  <2> QED BY <2>1, <2>2, <2>3
<1> QED BY <1>6, <1>7, <1>8

LEMMA PaymentTraced ==
  ASSUME IInv, FirstApprovals, NEW w \in Workers, Answered(w) \/ Refused(w) \/ AnswerLost(w) \/ Alert(w)
  PROVE  FirstApprovals'
<1> DEFINE o == session[w]
<1>1. o \in SessionType
  BY DEF IInv, Typed
<1>2. PICK s : /\ session' = [session EXCEPT ![w] = s] /\ s.step \in PaySteps \cup {"commit"}
               /\ s.op = o.op /\ s.r = o.r /\ s.q = o.q /\ s.log = o.log
  <2>1. CASE Answered(w)
    <3> DEFINE s == [o EXCEPT !.step = "commit", !.acked = TRUE]
    <3>1. session' = [session EXCEPT ![w] = s]
      BY <2>1 DEF Answered, Continue
    <3>2. s.step = "commit" /\ s.op = o.op /\ s.r = o.r /\ s.q = o.q /\ s.log = o.log
      BY <1>1 DEF SessionType
    <3> QED BY <3>1, <3>2
  <2>2. CASE Refused(w) \/ AnswerLost(w)
    <3> DEFINE s == [o EXCEPT !.step = "alert", !.tries = @ + 1]
    <3>1. session' = [session EXCEPT ![w] = s]
      BY <2>2 DEF Refused, AnswerLost, Continue
    <3>2. s.step = "alert" /\ s.op = o.op /\ s.r = o.r /\ s.q = o.q /\ s.log = o.log
      BY <1>1 DEF SessionType
    <3> HIDE DEF s
    <3> QED BY <3>1, <3>2 DEF PaySteps
  <2>3. CASE Alert(w)
    <3>1. PICK x \in {"call", "fail"} : session' = [session EXCEPT ![w] = [o EXCEPT !.step = x]]
      BY <2>3 DEF Alert, Continue
    <3> DEFINE s == [o EXCEPT !.step = x]
    <3>2. s.step = x /\ s.op = o.op /\ s.r = o.r /\ s.q = o.q /\ s.log = o.log
      BY <1>1 DEF SessionType
    <3>3. session' = [session EXCEPT ![w] = s]
      BY <3>1
    <3> HIDE DEF s
    <3> QED BY <3>2, <3>3 DEF PaySteps
  <2> QED BY <2>1, <2>2, <2>3
<1>3. /\ o.step \in {"call", "alert"} /\ UNCHANGED tables
      /\ UNCHANGED paid \/ paid' = [paid EXCEPT ![o.r] = @ + 1]
  BY DEF Answered, Refused, AnswerLost, Alert, At, Continue, outside
<1>4. o \in SessionType /\ Traced(o) /\ o.r \in Requests
  BY <1>3, InCall DEF FirstApprovals
<1>5. o.op = "final" /\ Marked(o.r)
  BY <1>3, <1>4 DEF Traced, PaySteps
<1>6. Traced(s)
  BY <1>3, <1>5, <1>2, StaysTraced DEF PaySteps
<1>7. \A r \in Requests : paid'[r] = paid[r] \/ Marked(r)
  BY <1>3, <1>5 DEF IInv, Typed
<1> QED BY <1>3, <1>6, <1>7, <1>2, TracedStep

LEMMA FailTraced == ASSUME IInv, FirstApprovals, NEW w \in Workers, Fail(w) PROVE FirstApprovals'
<1> DEFINE o == session[w]
           q == Closed(o.q, "failed")
           row == GivenBack(o.row, o.q)
           log == <<Entry("failed", o.by, "failed")>>
           s == [o EXCEPT !.step = "commit", !.q = q, !.row = row, !.log = log]
<1>1. o.step = "fail" /\ session' = [session EXCEPT ![w] = s] /\ UNCHANGED tables /\ UNCHANGED paid
  BY DEF Fail, At, Continue, outside
<1>2. o \in SessionType /\ Traced(o) /\ o.q \in RequestRow
  BY <1>1, InCall DEF FirstApprovals, SessionType
<1>3. o.op = "final" /\ Marked(o.r)
  BY <1>1, <1>2 DEF Traced, PaySteps
<1>4. q.status = "failed"
  BY <1>2, RequestTypes DEF RequestStatus
<1> HIDE DEF q, row, log
<1>5. s.step = "commit" /\ s.op = "final" /\ s.r = o.r /\ s.q = q
  BY <1>2, <1>3 DEF SessionType
<1> HIDE DEF s
<1>6. Traced(s)
  BY <1>3, <1>4, <1>5 DEF Traced, PaySteps
<1> QED BY <1>1, <1>6, TracedStep

(* A trail that grows by a log.                                            *)
LEMMA TrailAndLog ==
  ASSUME NEW trail \in Seq(EntryRow), NEW log \in Seq(EntryRow)
  PROVE  /\ Len(trail) \in Nat /\ DOMAIN trail = 1 .. Len(trail)
         /\ DOMAIN (trail \o log) = 1 .. Len(trail) + Len(log)
         /\ \A i \in DOMAIN trail : i \in DOMAIN (trail \o log) /\ (trail \o log)[i] = trail[i]
         /\ \A i \in DOMAIN log : i + Len(trail) \in DOMAIN (trail \o log) /\ (trail \o log)[i + Len(trail)] = log[i]
         /\ \A i \in DOMAIN (trail \o log) :
              i \in DOMAIN trail \/ (i - Len(trail) \in DOMAIN log /\ (trail \o log)[i] = log[i - Len(trail)])
<1>1. trail \o log \in Seq(EntryRow) /\ Len(trail \o log) = Len(trail) + Len(log) /\ Len(trail) \in Nat /\ Len(log) \in Nat
  OBVIOUS
<1>2. DOMAIN trail = 1 .. Len(trail) /\ DOMAIN log = 1 .. Len(log) /\ DOMAIN (trail \o log) = 1 .. Len(trail) + Len(log)
  BY <1>1
<1>3. \A i \in DOMAIN (trail \o log) : (trail \o log)[i] = IF i <= Len(trail) THEN trail[i] ELSE log[i - Len(trail)]
  BY <1>1, <1>2
<1> QED BY <1>1, <1>2, <1>3

LEMMA CommitTraced == ASSUME IInv, FirstApprovals, NEW w \in Workers, Commit(w) PROVE FirstApprovals'
<1>1. PICK o : o = session[w]
  OBVIOUS
<1>2. /\ o.step = "commit" /\ session' = [session EXCEPT ![w] = Idle] /\ UNCHANGED paid
      /\ request' = [request EXCEPT ![o.r] = o.q]
      /\ audit' = [audit EXCEPT ![o.r] = @ \o o.log]
  BY <1>1 DEF Commit, At, outside
<1>3. o \in SessionType /\ Sound(o) /\ Traced(o) /\ o.r \in Requests /\ o.log \in Seq(EntryRow) /\ audit[o.r] \in Seq(EntryRow)
  BY <1>2, <1>1, InCall DEF FirstApprovals, SessionType, IInv, Typed
<1>4. /\ request'[o.r] = o.q /\ audit'[o.r] = audit[o.r] \o o.log
      /\ \A r \in Requests \ {o.r} : request'[r] = request[r] /\ audit'[r] = audit[r]
  BY <1>2, <1>3 DEF IInv, Typed
<1> DEFINE n == Len(audit[o.r])
<1>5. /\ n \in Nat /\ DOMAIN audit[o.r] = 1 .. n
      /\ \A i \in DOMAIN audit[o.r] : i \in DOMAIN audit'[o.r] /\ audit'[o.r][i] = audit[o.r][i]
      /\ \A i \in DOMAIN o.log : i + n \in DOMAIN audit'[o.r] /\ audit'[o.r][i + n] = o.log[i]
      /\ \A i \in DOMAIN audit'[o.r] : i \in DOMAIN audit[o.r] \/ (i - n \in DOMAIN o.log /\ audit'[o.r][i] = o.log[i - n])
      /\ \A i \in DOMAIN audit'[o.r] : i \in Int
  <2> DEFINE grown == audit[o.r] \o o.log
  <2>1. /\ n \in Nat /\ DOMAIN audit[o.r] = 1 .. n /\ DOMAIN grown = 1 .. n + Len(o.log)
        /\ \A i \in DOMAIN audit[o.r] : i \in DOMAIN grown /\ grown[i] = audit[o.r][i]
        /\ \A i \in DOMAIN o.log : i + n \in DOMAIN grown /\ grown[i + n] = o.log[i]
        /\ \A i \in DOMAIN grown : i \in DOMAIN audit[o.r] \/ (i - n \in DOMAIN o.log /\ grown[i] = o.log[i - n])
    BY <1>3, TrailAndLog
  <2>2. audit'[o.r] = grown
    BY <1>4
  <2> HIDE DEF grown, n
  <2> QED BY <2>1, <2>2
<1> HIDE DEF n
<1>6. \A r \in Requests : Marked(r) => Marked(r)'
  <2>1. Marked(o.r) => Marked(o.r)'
    BY <1>5 DEF Marked
  <2>2. \A r \in Requests \ {o.r} : Marked(r) => Marked(r)'
    BY <1>4 DEF Marked
  <2> QED BY <2>1, <2>2
<1>7. o.op = "stage1" => Marked(o.r)'
  <2> SUFFICES ASSUME o.op = "stage1" PROVE Marked(o.r)'
    OBVIOUS
  <2>1. PICK i \in DOMAIN o.log : o.log[i].action = "approved_stage1"
    BY <1>2, <1>3 DEF Traced
  <2> QED BY <1>5, <2>1 DEF Marked
<1>8. ASSUME NEW r \in Requests PROVE InOrder(r)'
  <2>1. CASE r # o.r
    BY <1>2, <1>4, <2>1 DEF FirstApprovals, InOrder, Marked
  <2>2. CASE r = o.r
    <3>1. request'[r].status \in Past => Marked(r)'
      BY <1>2, <1>3, <1>4, <1>6, <1>7, <2>2 DEF Traced, Past
    <3>2. paid'[r] > 0 => Marked(r)'
      BY <1>2, <1>6 DEF FirstApprovals, InOrder
    <3>3. ASSUME NEW i \in DOMAIN audit'[r], Ends(audit'[r][i])
          PROVE  \E j \in 1 .. i - 1 : audit'[r][j].action = "approved_stage1"
      <4>1. CASE i \in DOMAIN audit[r]
        <5>1. PICK j \in 1 .. i - 1 : audit[r][j].action = "approved_stage1"
          BY <1>5, <2>2, <3>3, <4>1 DEF FirstApprovals, InOrder
        <5>2. j \in DOMAIN audit[r]
          BY <1>5, <2>2, <4>1
        <5> QED BY <1>5, <2>2, <5>1, <5>2
      <4>2. CASE i \notin DOMAIN audit[r]
        <5>1. i - n \in DOMAIN o.log /\ audit'[r][i] = o.log[i - n] /\ i \in Int
          BY <1>5, <2>2, <4>2
        <5>2. o.op = "final"
          BY <1>2, <1>3, <3>3, <5>1 DEF Traced
        <5>3. PICK j \in DOMAIN audit[o.r] : audit[o.r][j].action = "approved_stage1"
          BY <1>2, <1>3, <5>2 DEF Traced, Marked
        <5>4. DOMAIN o.log = 1 .. Len(o.log) /\ Len(o.log) \in Nat
          BY <1>3
        <5>5. j \in 1 .. i - 1
          BY <1>5, <5>1, <5>3, <5>4
        <5> QED BY <1>5, <2>2, <5>3, <5>5
      <4> QED BY <4>1, <4>2
    <3> QED BY <3>1, <3>2, <3>3 DEF InOrder
  <2> QED BY <2>1, <2>2
<1>9. ASSUME NEW v \in Workers PROVE Traced(session[v])'
  <2>1. CASE v = w
    <3>1. session'[v] = Idle
      BY <1>2, <2>1 DEF IInv, Typed
    <3> QED BY <3>1, IdleFacts DEF Traced
  <2>2. CASE v # w
    <3>1. session'[v] = session[v] /\ Traced(session[v]) /\ Sound(session[v])
      BY <1>2, <2>2 DEF IInv, Typed, FirstApprovals
    <3>2. session[v].step # "idle" => session[v].r \in Requests
      BY <3>1 DEF Sound
    <3>3. ASSUME session[v].step # "idle", request[session[v].r].status # "pending"
          PROVE  request'[session[v].r].status # "pending"
      <4>1. CASE session[v].r # o.r
        BY <1>4, <3>2, <3>3, <4>1
      <4>2. CASE session[v].r = o.r
        <5>1. o.op # "request"
          BY <1>2, <1>1, <2>2, <3>3, <4>2 DEF IInv, Private, Opening
        <5> QED BY <1>2, <1>3, <1>4, <4>2, <5>1 DEF Traced
      <4> QED BY <4>1, <4>2
    <3> QED BY <1>6, <3>1, <3>2, <3>3 DEF Traced
  <2> QED BY <2>1, <2>2
<1> QED BY <1>8, <1>9 DEF FirstApprovals

LEMMA FirstApprovalsStep == ASSUME IInv, FirstApprovals, [Next]_vars PROVE FirstApprovals'
<1>1. ASSUME NEW w \in Workers, Work(w) PROVE FirstApprovals'
  <2>1. ASSUME ScreenUnalerted(w) \/ FailUnalerted(w) PROVE FirstApprovals'
    BY <2>1, RollBackTraced DEF ScreenUnalerted, FailUnalerted
  <2> QED BY <1>1, <2>1, ReadTraced, UpdateTraced, FlushTraced, ScreenTraced, PaymentTraced, FailTraced, CommitTraced DEF Work
<1>2. ASSUME NEW w \in Workers, Crash(w) PROVE FirstApprovals'
  BY <1>2, RollBackTraced DEF Crash
<1>3. CASE UNCHANGED vars
  BY <1>3 DEF vars, FirstApprovals, Traced, InOrder, Marked
<1> QED BY <1>1, <1>2, <1>3, BeginTraced DEF Next

(* However many processes write back what they read too early: no final    *)
(* approval and no payout without a first approval before it in the trail. *)
THEOREM FirstApprovalFirst == Spec => []NothingSkipsFirstApproval
<1>1. Init => FirstApprovals
  BY IdleFacts, NoRowTypes DEF Init, FirstApprovals, Traced, InOrder, Past
<1>2. IInv /\ FirstApprovals /\ [Next]_vars => FirstApprovals'
  BY FirstApprovalsStep
<1>3. FirstApprovals => NothingSkipsFirstApproval
  BY DEF FirstApprovals, InOrder, Marked, Ends, NothingSkipsFirstApproval
<1> QED BY <1>1, <1>2, <1>3, Invariant, PTL DEF Spec
=============================================================================
