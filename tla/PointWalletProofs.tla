-------------------------- MODULE PointWalletProofs --------------------------
(***************************************************************************)
(* Proofs about PointWallet for every set of users, actors and amounts and  *)
(* every finite set of requests.                                            *)
(***************************************************************************)
EXTENDS PointWallet, FiniteSetTheorems, FunctionTheorems, TLAPS

-----------------------------------------------------------------------------
(***************************************************************************)
(* Sums over requests.                                                      *)
(***************************************************************************)
Rows == [Requests -> RequestRow]

(* The points of a set of requests are finitely many.                      *)
LEMMA PointsFinite ==
  ASSUME NEW q \in Rows, NEW R \in SUBSET Requests
  PROVE  IsFiniteSet(PointsOf(q, R))
<1> DEFINE Part(r) == {r} \X (1 .. q[r].amount)
           F == [r \in R |-> Part(r)]
           Parts == {Part(r) : r \in R}
<1>1. IsFiniteSet(R)
  BY FS_Subset, RequestsAssumption
<1>2. F \in Surjection(R, Parts)
  BY DEF Surjection
<1>3. IsFiniteSet(Parts)
  BY <1>1, <1>2, FS_Surjection
<1>4. ASSUME NEW r \in R
      PROVE  IsFiniteSet(Part(r))
  <2>1. q[r].amount \in Int
    BY DEF Rows, RequestRow
  <2>2. IsFiniteSet({r})
    BY FS_Singleton
  <2>3. IsFiniteSet(1 .. q[r].amount)
    BY <2>1, FS_Interval
  <2> QED
    BY <2>2, <2>3, FS_Product
<1>5. \A T \in Parts : IsFiniteSet(T)
  BY <1>4
<1>6. IsFiniteSet(UNION Parts)
  BY <1>3, <1>5, FS_UNION
<1> QED
  BY <1>6 DEF PointsOf

(* One more request adds its amount.                                       *)
LEMMA PointsAdd ==
  ASSUME NEW q \in Rows, NEW R \in SUBSET Requests, NEW r \in Requests \ R
  PROVE  Cardinality(PointsOf(q, R \cup {r})) = Cardinality(PointsOf(q, R)) + q[r].amount
<1> DEFINE Part == {r} \X (1 .. q[r].amount)
<1>1. q[r].amount \in Nat
  BY DEF Rows, RequestRow
<1>2. PointsOf(q, R \cup {r}) = PointsOf(q, R) \cup Part
  BY DEF PointsOf
<1>3. PointsOf(q, R) \cap Part = {}
  BY DEF PointsOf
<1>4. IsFiniteSet({r}) /\ Cardinality({r}) = 1
  BY FS_Singleton
<1>5. IsFiniteSet(1 .. q[r].amount) /\ Cardinality(1 .. q[r].amount) = q[r].amount
  <2> DEFINE n == q[r].amount
  <2> SUFFICES ASSUME n \in Nat
               PROVE  IsFiniteSet(1 .. n) /\ Cardinality(1 .. n) = n
    BY <1>1
  <2> HIDE DEF n
  <2>1. IsFiniteSet(1 .. n) /\ Cardinality(1 .. n) = IF 1 > n THEN 0 ELSE n - 1 + 1
    BY FS_Interval
  <2> QED
    BY <2>1
<1>6. IsFiniteSet(Part) /\ Cardinality(Part) = q[r].amount
  <2> DEFINE I == 1 .. q[r].amount
  <2>1. IsFiniteSet(I) /\ Cardinality(I) = q[r].amount
    BY <1>5
  <2> HIDE DEF I
  <2>2. IsFiniteSet({r} \X I) /\ Cardinality({r} \X I) = Cardinality({r}) * Cardinality(I)
    BY <1>4, <2>1, FS_Product
  <2>3. Cardinality({r} \X I) = q[r].amount
    BY <1>1, <1>4, <2>1, <2>2
  <2> QED
    BY <2>2, <2>3 DEF I
<1>7. IsFiniteSet(PointsOf(q, R))
  BY PointsFinite
<1>8. Cardinality({}) = 0
  BY FS_EmptySet
<1>9. Cardinality(PointsOf(q, R)) \in Nat
  BY <1>7, FS_CardinalityType
<1>10. Cardinality(PointsOf(q, R) \cup Part)
         = Cardinality(PointsOf(q, R)) + Cardinality(Part) - Cardinality(PointsOf(q, R) \cap Part)
  <2> HIDE DEF Part
  <2> QED
    BY <1>6, <1>7, FS_Union
<1> HIDE DEF Part
<1>11. Cardinality(PointsOf(q, R) \cap Part) = 0
  BY <1>3, <1>8, Zenon
<1>12. Cardinality(PointsOf(q, R) \cup Part) = Cardinality(PointsOf(q, R)) + q[r].amount
  BY <1>1, <1>6, <1>9, <1>10, <1>11
<1>13. Cardinality(PointsOf(q, R \cup {r})) = Cardinality(PointsOf(q, R) \cup Part)
  BY <1>2, Zenon
<1> QED
  BY <1>12, <1>13

(* What one request row contributes to the sum of a class of requests.     *)
Share(row, u, C) == IF row.owner = u /\ Class(row) \in C THEN row.amount ELSE 0

(* A sum is the share of one request and the sum over the others, which    *)
(* does not depend on that request's row.                                  *)
LEMMA SumSplit ==
  ASSUME NEW q \in Rows, NEW r \in Requests, NEW u, NEW C
  PROVE  /\ SumOf(q, u, C) =
              Cardinality(PointsOf(q, RequestsIn(q, u, C) \ {r})) + Share(q[r], u, C)
         /\ Cardinality(PointsOf(q, RequestsIn(q, u, C) \ {r})) \in Nat
<1> DEFINE R == RequestsIn(q, u, C) \ {r}
<1>1. R \in SUBSET Requests /\ r \in Requests \ R
  BY DEF RequestsIn
<1>2. Cardinality(PointsOf(q, R)) \in Nat
  BY <1>1, PointsFinite, FS_CardinalityType
<1>3. CASE r \in RequestsIn(q, u, C)
  <2>1. RequestsIn(q, u, C) = R \cup {r}
    BY <1>3
  <2>2. Share(q[r], u, C) = q[r].amount
    BY <1>3 DEF Share, RequestsIn
  <2> QED
    BY <1>1, <1>2, <2>1, <2>2, PointsAdd DEF SumOf
<1>4. CASE r \notin RequestsIn(q, u, C)
  <2>1. RequestsIn(q, u, C) = R
    BY <1>4
  <2>2. Share(q[r], u, C) = 0
    BY <1>4 DEF Share, RequestsIn
  <2> QED
    BY <1>2, <2>1, <2>2 DEF SumOf
<1> QED
  BY <1>3, <1>4

LEMMA SumType ==
  ASSUME NEW q \in Rows, NEW u, NEW C
  PROVE  SumOf(q, u, C) \in Nat
BY PointsFinite, FS_CardinalityType DEF SumOf, RequestsIn

(* Changing one row changes a sum by the difference of that row's shares.  *)
LEMMA SumChange ==
  ASSUME NEW q \in Rows, NEW p \in Rows, NEW r \in Requests, NEW u, NEW C,
         \A z \in Requests \ {r} : p[z] = q[z]
  PROVE  SumOf(p, u, C) = SumOf(q, u, C) + (Share(p[r], u, C) - Share(q[r], u, C))
<1>1. RequestsIn(p, u, C) \ {r} = RequestsIn(q, u, C) \ {r}
  BY DEF RequestsIn
<1>2. PointsOf(p, RequestsIn(p, u, C) \ {r}) = PointsOf(q, RequestsIn(q, u, C) \ {r})
  BY <1>1 DEF PointsOf, RequestsIn
<1>3. Share(q[r], u, C) \in Nat /\ Share(p[r], u, C) \in Nat
  BY DEF Share, Rows, RequestRow
<1> DEFINE rest == Cardinality(PointsOf(q, RequestsIn(q, u, C) \ {r}))
<1>4. rest \in Nat /\ SumOf(q, u, C) = rest + Share(q[r], u, C)
  BY SumSplit
<1>5. SumOf(p, u, C) = rest + Share(p[r], u, C)
  <2>1. \A z \in Rows : SumOf(z, u, C) =
          Cardinality(PointsOf(z, RequestsIn(z, u, C) \ {r})) + Share(z[r], u, C)
    BY SumSplit
  <2> QED
    BY <1>2, <2>1
<1> HIDE DEF rest
<1> QED
  BY <1>3, <1>4, <1>5

-----------------------------------------------------------------------------
(***************************************************************************)
(* Types.                                                                   *)
(***************************************************************************)

(* Every wallet row an operation writes is a wallet row.                   *)
LEMMA WalletRowTypes ==
  ASSUME NEW w \in WalletRow, NEW a \in Int
  PROVE  /\ Credited(w, a) \in WalletRow
         /\ Debited(w, a) \in WalletRow
         /\ Held(w, a) \in WalletRow
         /\ Settled(w, a) \in WalletRow
         /\ Released(w, a) \in WalletRow
<1>1. GetOrCreate(w) \in WalletRow
  BY DEF GetOrCreate, NewWallet, WalletRow, WalletStatus
<1>2. Credited(w, a) \in WalletRow
  BY <1>1 DEF Credited, WalletRow
<1>3. Debited(w, a) \in WalletRow
  BY DEF Debited, WalletRow
<1>4. Held(w, a) \in WalletRow
  BY DEF Held, WalletRow
<1>5. \A v \in WalletRow : Released(v, a) \in WalletRow
  BY DEF Released, WalletRow
<1>6. Settled(w, a) \in WalletRow
  BY <1>3, <1>5 DEF Settled
<1> QED
  BY <1>2, <1>3, <1>4, <1>5, <1>6

LEMMA GivenBackType ==
  ASSUME NEW w \in WalletRow, NEW q \in RequestRow
  PROVE  /\ Refunded(w, q) \in WalletRow
         /\ GivenBack(w, q) \in WalletRow
<1>1. q.amount \in Int
  BY DEF RequestRow
<1>2. Refunded(w, q) \in WalletRow
  BY <1>1 DEF Refunded, WalletRow
<1>3. \A v \in WalletRow :
        [v EXCEPT !.pending = IF @ >= q.amount THEN @ - q.amount ELSE 0] \in WalletRow
  BY <1>1 DEF WalletRow
<1> QED
  BY <1>2, <1>3 DEF GivenBack

(* Every request row an operation writes is a request row.                 *)
LEMMA OpenedType ==
  ASSUME NEW u \in Users, NEW a \in Nat
  PROVE  Opened(u, a) \in RequestRow
BY DEF Opened, NoRequest, RequestRow, RequestStatus

LEMMA ClosedType ==
  ASSUME NEW q \in RequestRow, NEW s \in {"rejected", "cancelled", "failed"}
  PROVE  Closed(q, s) \in RequestRow
BY DEF Closed, RequestRow, RequestStatus

LEMMA ApprovalTypes ==
  ASSUME NEW q \in RequestRow, NEW by \in Actors
  PROVE  /\ Stage1Marked(q, by) \in RequestRow
         /\ Approved(q, by) \in RequestRow
<1>1. Stage1Marked(q, by) \in RequestRow
  BY DEF Stage1Marked, RequestRow, RequestStatus
<1>2. Approved(q, by) \in RequestRow
  BY DEF Approved, RequestRow, RequestStatus
<1> QED
  BY <1>1, <1>2

(* A ledger entry of a natural amount keeps the ledger's type.             *)
Ledgers == [Users -> [EntryType -> Nat]]

LEMMA PostType ==
  ASSUME NEW l \in Ledgers, NEW u, NEW t \in EntryType, NEW a \in Nat
  PROVE  [l EXCEPT ![u][t] = @ + a] \in Ledgers
<1>1. ASSUME u \in Users
      PROVE  [l[u] EXCEPT ![t] = @ + a] \in [EntryType -> Nat]
  <2>1. l[u] \in [EntryType -> Nat]
    BY <1>1 DEF Ledgers
  <2>2. l[u][t] + a \in Nat
    BY <2>1
  <2> QED
    BY <2>1, <2>2
<1> QED
  BY <1>1 DEF Ledgers

(* The rows keep the types of their columns under every operation.         *)
LEMMA TypeStep == TypeOK /\ [Next]_vars => TypeOK'
<1> SUFFICES ASSUME TypeOK, [Next]_vars
             PROVE  TypeOK'
  OBVIOUS
<1>a. ledger \in Ledgers /\ request \in Rows /\ wallet \in [Users -> WalletRow]
  BY DEF TypeOK, Ledgers, Rows
<1>b. ASSUME NEW u, NEW t \in EntryType, NEW a \in Nat, Post(u, t, a)
      PROVE  ledger' \in Ledgers
  <2>1. [ledger EXCEPT ![u][t] = @ + a] \in Ledgers
    BY <1>a, PostType
  <2> QED
    BY <1>b, <2>1 DEF Post
<1>c. \A u, row : row \in WalletRow => [wallet EXCEPT ![u] = row] \in [Users -> WalletRow]
  BY <1>a
<1>d. \A r, row : row \in RequestRow => [request EXCEPT ![r] = row] \in Rows
  BY <1>a DEF Rows
<1>e. \A r \in Requests : request[r] \in RequestRow /\ request[r].amount \in Nat
  BY <1>a DEF Rows, RequestRow
<1>f. wallet' \in [Users -> WalletRow] /\ request' \in Rows /\ ledger' \in Ledgers => TypeOK'
  BY DEF TypeOK, Ledgers, Rows
<1>g. \A u \in Users : wallet[u] \in WalletRow
  BY <1>a
<1>1. ASSUME NEW u \in Users, EnsureWallet(u)
      PROVE  TypeOK'
  <2>1. NewWallet \in WalletRow
    BY DEF NewWallet, WalletRow, WalletStatus
  <2> QED
    BY <1>1, <1>a, <1>c, <1>f, <2>1 DEF EnsureWallet
<1>2. ASSUME NEW u \in Users, NEW a \in Amounts, Credit(u, a)
      PROVE  TypeOK'
  <2>1. a \in Nat
    BY <1>2, AmountsAssumption DEF Credit, CanCredit
  <2>2. Credited(wallet[u], a) \in WalletRow
    BY <2>1, <1>g, WalletRowTypes
  <2>3. wallet' \in [Users -> WalletRow]
    BY <1>2, <1>c, <2>2 DEF Credit
  <2>4. ledger' \in Ledgers
    BY <1>2, <1>b, <2>1 DEF Credit, EntryType
  <2> QED
    BY <1>2, <1>a, <1>f, <2>3, <2>4 DEF Credit
<1>3. ASSUME NEW u \in Users, NEW a \in Amounts, Debit(u, a)
      PROVE  TypeOK'
  <2>1. a \in Nat
    BY <1>3, AmountsAssumption DEF Debit, CanDebit
  <2>2. Debited(wallet[u], a) \in WalletRow
    BY <2>1, <1>g, WalletRowTypes
  <2>3. wallet' \in [Users -> WalletRow]
    BY <1>3, <1>c, <2>2 DEF Debit
  <2>4. ledger' \in Ledgers
    BY <1>3, <1>b, <2>1 DEF Debit, EntryType
  <2> QED
    BY <1>3, <1>a, <1>f, <2>3, <2>4 DEF Debit
<1>4. ASSUME NEW u \in Users, NEW s \in {"active", "suspended"}, SetWalletStatus(u, s)
      PROVE  TypeOK'
  <2>1. [wallet[u] EXCEPT !.status = s] \in WalletRow
    BY <1>g DEF WalletRow, WalletStatus
  <2>2. wallet' = [wallet EXCEPT ![u] = [wallet[u] EXCEPT !.status = s]]
    BY <1>4, <1>a DEF SetWalletStatus
  <2> QED
    BY <1>4, <1>a, <1>c, <1>f, <2>1, <2>2 DEF SetWalletStatus
<1>5. ASSUME NEW r \in Requests, NEW u \in Users, NEW by \in Users, NEW a \in Amounts,
             RequestWithdrawal(r, u, by, a)
      PROVE  TypeOK'
  <2>1. a \in Nat
    BY <1>5, AmountsAssumption DEF RequestWithdrawal, CanRequest
  <2>2. Held(wallet[u], a) \in WalletRow
    BY <2>1, <1>g, WalletRowTypes
  <2>3. Opened(u, a) \in RequestRow
    BY <2>1 DEF Opened, NoRequest, RequestRow, RequestStatus
  <2>4. wallet' \in [Users -> WalletRow] /\ request' \in Rows
    BY <1>5, <1>c, <1>d, <2>2, <2>3 DEF RequestWithdrawal
  <2>5. ledger' \in Ledgers
    BY <1>5, <1>b, <2>1 DEF RequestWithdrawal, EntryType
  <2> QED
    BY <1>f, <2>4, <2>5
<1>6. ASSUME NEW r \in Requests, NEW by \in Actors, MarkStage1Approval(r, by)
      PROVE  TypeOK'
  <2>1. Stage1Marked(request[r], by) \in RequestRow
    BY <1>e, ApprovalTypes
  <2> QED
    BY <1>6, <1>a, <1>d, <1>f, <2>1 DEF MarkStage1Approval
<1>7. ASSUME NEW r \in Requests, NEW by \in Actors, ApproveWithdrawal(r, by)
      PROVE  TypeOK'
  <2> DEFINE q == request[r]
  <2>1. Approved(q, by) \in RequestRow /\ q.amount \in Int
    BY <1>e, ApprovalTypes
  <2>2. q.owner \in Users => Settled(wallet[q.owner], q.amount) \in WalletRow
    BY <1>g, <2>1, WalletRowTypes
  <2>3. wallet' \in [Users -> WalletRow]
    BY <1>7, <1>a, <1>c, <2>2 DEF ApproveWithdrawal
  <2>4. request' \in Rows
    BY <1>7, <1>d, <2>1 DEF ApproveWithdrawal
  <2>5. ledger' \in Ledgers
    BY <1>7, <1>b, <1>e DEF ApproveWithdrawal, EntryType
  <2> QED
    BY <1>f, <2>3, <2>4, <2>5
<1>8. ASSUME NEW r \in Requests, FailWithdrawal(r)
      PROVE  TypeOK'
  <2> DEFINE q == request[r]
  <2>1. Closed(q, "failed") \in RequestRow
    BY <1>e DEF Closed, RequestRow, RequestStatus
  <2>2. q.owner \in Users => GivenBack(wallet[q.owner], q) \in WalletRow
    BY <1>e, <1>g, GivenBackType
  <2>3. wallet' \in [Users -> WalletRow]
    BY <1>8, <1>a, <1>c, <2>2 DEF FailWithdrawal
  <2>4. request' \in Rows
    BY <1>8, <1>d, <2>1 DEF FailWithdrawal
  <2>5. ledger' \in Ledgers
    BY <1>8, <1>b, <1>e DEF FailWithdrawal, EntryType
  <2> QED
    BY <1>f, <2>3, <2>4, <2>5
<1>9. ASSUME NEW r \in Requests, NEW s \in {"rejected", "cancelled"}, CloseWithdrawal(r, s)
      PROVE  TypeOK'
  <2> DEFINE q == request[r]
  <2>1. Closed(q, s) \in RequestRow /\ q.amount \in Int
    BY <1>e DEF Closed, RequestRow, RequestStatus
  <2>2. q.owner \in Users => Released(wallet[q.owner], q.amount) \in WalletRow
    BY <1>g, <2>1, WalletRowTypes
  <2>3. wallet' \in [Users -> WalletRow]
    BY <1>9, <1>a, <1>c, <2>2 DEF CloseWithdrawal
  <2>4. request' \in Rows
    BY <1>9, <1>d, <2>1 DEF CloseWithdrawal
  <2>5. ledger' \in Ledgers
    BY <1>9, <1>b, <1>e DEF CloseWithdrawal, EntryType
  <2> QED
    BY <1>f, <2>3, <2>4, <2>5
<1>10. CASE UNCHANGED vars
  BY <1>10, <1>a, <1>f DEF vars
<1> QED
  BY <1>1, <1>2, <1>3, <1>4, <1>5, <1>6, <1>7, <1>8, <1>9, <1>10
     DEF Next, WalletStep, RequestStep, RejectWithdrawal, CancelWithdrawal

(* The rows of the tables always have the types of their columns.          *)
THEOREM TypeCorrect == Spec => []TypeOK
<1>1. Init => TypeOK
  BY DEF Init, TypeOK, WalletRow, RequestRow, WalletStatus, RequestStatus, NoWallet, NoRequest
<1>2. TypeOK /\ [Next]_vars => TypeOK'
  BY TypeStep
<1> QED
  BY <1>1, <1>2, PTL DEF Spec

-----------------------------------------------------------------------------
(***************************************************************************)
(* Money.  For one wallet: its row w, its ledger totals l, and the sums o,  *)
(* a, f, x of its open, approved, released and refunded requests.           *)
(***************************************************************************)
Balanced(w, l, o, a, f, x) ==
  /\ w.balance = l["credit"] - l["debit"] - l["withdrawal"] + x
  /\ l["withdrawal"] = a + x
  /\ l["release"] = f
  /\ l["hold"] = o + a + f
  /\ w.pending <= o
  /\ w.pending >= o - x
  /\ x = 0 => o <= w.balance

Entered(l, t, n) == [l EXCEPT ![t] = @ + n]

(* Each operation keeps its own wallet balanced, given what it does to the *)
(* sums.                                                                   *)
LEMMA BalancedCredit ==
  ASSUME NEW w \in WalletRow, NEW l \in [EntryType -> Nat], NEW n \in Nat,
         NEW o \in Nat, NEW a \in Nat, NEW f \in Nat, NEW x \in Nat,
         Balanced(w, l, o, a, f, x),
         w.status = "absent" => w = NoWallet
  PROVE  Balanced(Credited(w, n), Entered(l, "credit", n), o, a, f, x)
<1>1. w.balance \in Int /\ w.pending \in Int
  BY DEF WalletRow
<1>2. Credited(w, n).balance = w.balance + n /\ Credited(w, n).pending = w.pending
  BY <1>1 DEF Credited, GetOrCreate, NoWallet, NewWallet, WalletRow
<1> QED
  BY <1>1, <1>2 DEF Balanced, Entered, EntryType

LEMMA BalancedDebit ==
  ASSUME NEW w \in WalletRow, NEW l \in [EntryType -> Nat], NEW n \in Nat,
         NEW o \in Nat, NEW a \in Nat, NEW f \in Nat, NEW x \in Nat,
         Balanced(w, l, o, a, f, x), CanDebit(w, n)
  PROVE  Balanced(Debited(w, n), Entered(l, "debit", n), o, a, f, x)
<1>1. w.balance \in Int /\ w.pending \in Int
  BY DEF WalletRow
<1>2. Debited(w, n).balance = w.balance - n /\ Debited(w, n).pending = w.pending
  BY DEF Debited, WalletRow
<1> QED
  BY <1>1, <1>2 DEF Balanced, Entered, EntryType, CanDebit, Sufficient

LEMMA BalancedHold ==
  ASSUME NEW w \in WalletRow, NEW l \in [EntryType -> Nat], NEW n \in Nat,
         NEW o \in Nat, NEW a \in Nat, NEW f \in Nat, NEW x \in Nat,
         Balanced(w, l, o, a, f, x), CanRequest(w, n)
  PROVE  Balanced(Held(w, n), Entered(l, "hold", n), o + n, a, f, x)
<1>1. w.balance \in Int /\ w.pending \in Int
  BY DEF WalletRow
<1>2. Held(w, n).balance = w.balance /\ Held(w, n).pending = w.pending + n
  BY DEF Held, WalletRow
<1> QED
  BY <1>1, <1>2 DEF Balanced, Entered, EntryType, CanRequest, Sufficient

LEMMA BalancedSettle ==
  ASSUME NEW w \in WalletRow, NEW l \in [EntryType -> Nat], NEW n \in Nat,
         NEW o \in Nat, NEW a \in Nat, NEW f \in Nat, NEW x \in Nat,
         Balanced(w, l, o, a, f, x)
  PROVE  Balanced(Settled(w, n), Entered(l, "withdrawal", n), o - n, a + n, f, x)
<1>1. w.balance \in Int /\ w.pending \in Int
  BY DEF WalletRow
<1>2. Settled(w, n).balance = w.balance - n /\ Settled(w, n).pending = w.pending - n
  <2>1. /\ Debited(w, n).balance = w.balance - n /\ Debited(w, n).pending = w.pending
        /\ Debited(w, n) \in WalletRow
    BY WalletRowTypes DEF Debited, WalletRow
  <2> QED
    BY <2>1 DEF Settled, Released, WalletRow
<1> QED
  BY <1>1, <1>2 DEF Balanced, Entered, EntryType

LEMMA BalancedRelease ==
  ASSUME NEW w \in WalletRow, NEW l \in [EntryType -> Nat], NEW n \in Nat,
         NEW o \in Nat, NEW a \in Nat, NEW f \in Nat, NEW x \in Nat,
         Balanced(w, l, o, a, f, x)
  PROVE  Balanced(Released(w, n), Entered(l, "release", n), o - n, a, f + n, x)
<1>1. w.balance \in Int /\ w.pending \in Int
  BY DEF WalletRow
<1>2. Released(w, n).balance = w.balance /\ Released(w, n).pending = w.pending - n
  BY DEF Released, WalletRow
<1> QED
  BY <1>1, <1>2 DEF Balanced, Entered, EntryType

(* A failed withdrawal: what was approved comes back and counts as         *)
(* refunded; what was not leaves the open requests.                        *)
LEMMA BalancedFail ==
  ASSUME NEW w \in WalletRow, NEW l \in [EntryType -> Nat], NEW q \in RequestRow,
         NEW o \in Nat, NEW a \in Nat, NEW f \in Nat, NEW x \in Nat,
         Balanced(w, l, o, a, f, x)
  PROVE  /\ q.status = "approved" /\ q.amount > 0 =>
               Balanced(GivenBack(w, q), Entered(l, "release", q.amount),
                        o, a - q.amount, f + q.amount, x + q.amount)
         /\ q.status = "approved_pending" /\ o - q.amount \in Nat =>
               Balanced(GivenBack(w, q), Entered(l, "release", q.amount),
                        o - q.amount, a, f + q.amount, x)
<1> DEFINE n == q.amount
           b == IF q.status = "approved" THEN w.balance + n ELSE w.balance
           p == IF w.pending >= n THEN w.pending - n ELSE 0
<1>1. w.balance \in Int /\ w.pending \in Int /\ n \in Nat
  BY DEF WalletRow, RequestRow
<1>2. Refunded(w, q).balance = b /\ Refunded(w, q).pending = w.pending
  BY DEF Refunded, WalletRow
<1>3. Refunded(w, q) \in WalletRow
  BY GivenBackType
<1>4. GivenBack(w, q).balance = b /\ GivenBack(w, q).pending = p
  BY <1>2, <1>3 DEF GivenBack, WalletRow
<1>5. /\ Entered(l, "release", n)["release"] = l["release"] + n
      /\ \A t \in EntryType \ {"release"} : Entered(l, "release", n)[t] = l[t]
      /\ \A t \in EntryType : l[t] \in Nat
  BY DEF Entered, EntryType
<1> DEFINE g == GivenBack(w, q)
           m == Entered(l, "release", n)
<1> HIDE DEF g, m
<1>6. g.balance = b /\ g.pending = p
  BY <1>4 DEF g
<1>7. /\ m["release"] = l["release"] + n /\ m["credit"] = l["credit"] /\ m["debit"] = l["debit"]
      /\ m["withdrawal"] = l["withdrawal"] /\ m["hold"] = l["hold"]
      /\ \A t \in EntryType : l[t] \in Nat
  BY <1>5 DEF m, EntryType
<1>8. ASSUME q.status = "approved", n > 0
      PROVE  Balanced(g, m, o, a - n, f + n, x + n)
  BY <1>1, <1>6, <1>7, <1>8 DEF Balanced, EntryType
<1>9. ASSUME q.status = "approved_pending", o - n \in Nat
      PROVE  Balanced(g, m, o - n, a, f + n, x)
  BY <1>1, <1>6, <1>7, <1>9 DEF Balanced, EntryType
<1> QED
  BY <1>8, <1>9 DEF g, m

-----------------------------------------------------------------------------
(***************************************************************************)
(* The inductive invariant.  The sums alone are not inductive: a credit     *)
(* opens an absent wallet, which must be empty; an operation on a request   *)
(* must find a wallet, an owner and an amount in its row; and approved_by   *)
(* must tell a request failed after its approval from one failed before.    *)
(***************************************************************************)
RequestWellFormed(q) ==
  /\ q.status # "none" => q.owner \in Users /\ q.amount > 0
  /\ q.status \in {"pending", "approved_pending"} => q.approvedBy = Nobody
  /\ q.status = "approved" => q.approvedBy # Nobody

RowsWellFormed ==
  /\ \A u \in Users : wallet[u].status = "absent" => wallet[u] = NoWallet
  /\ \A r \in Requests :
       /\ RequestWellFormed(request[r])
       /\ request[r].status # "none" => wallet[request[r].owner].status # "absent"

Money(u) == Balanced(wallet[u], ledger[u], OpenTotal(u), ApprovedTotal(u),
                     ReleasedTotal(u), RefundedTotal(u))

IInv == TypeOK /\ RowsWellFormed /\ \A u \in Users : Money(u)

(* Rows stay well formed.                                                  *)
LEMMA RowsStep == TypeOK /\ RowsWellFormed /\ [Next]_vars => RowsWellFormed'
<1> SUFFICES ASSUME TypeOK, RowsWellFormed, [Next]_vars
             PROVE  RowsWellFormed'
  OBVIOUS
<1>a. /\ wallet \in [Users -> WalletRow]
      /\ request \in [Requests -> RequestRow]
  BY DEF TypeOK
<1>b. /\ \A u \in Users : wallet[u].status = "absent" => wallet[u] = NoWallet
      /\ \A r \in Requests :
           /\ RequestWellFormed(request[r])
           /\ request[r].status # "none" => wallet[request[r].owner].status # "absent"
  BY DEF RowsWellFormed
<1>c. ASSUME UNCHANGED request, NEW u \in Users, NEW row, row.status # "absent",
             wallet' = [wallet EXCEPT ![u] = row]
      PROVE  RowsWellFormed'
  <2>1. \A v \in Users : wallet'[v] = wallet[v] \/ wallet'[v].status # "absent"
    BY <1>a, <1>c
  <2>2. \A r \in Requests : request'[r].status # "none" => request'[r].owner \in Users
    BY <1>b, <1>c DEF RequestWellFormed
  <2> QED
    BY <1>a, <1>b, <1>c, <2>1, <2>2 DEF RowsWellFormed
<1>d. ASSUME NEW r \in Requests, NEW row, RequestWellFormed(row), row.status # "none",
             request' = [request EXCEPT ![r] = row],
             NEW u \in Users, row.owner = u, wallet'[u].status # "absent",
             \A v \in Users \ {u} : wallet'[v] = wallet[v]
      PROVE  RowsWellFormed'
  <2>1. \A x \in Requests : request[x].status # "none" => request[x].owner \in Users
    BY <1>b DEF RequestWellFormed
  <2> QED
    BY <1>a, <1>b, <1>d, <2>1 DEF RowsWellFormed
<1>e. \A r \in Requests : request[r] \in RequestRow /\ RequestWellFormed(request[r])
  BY <1>a, <1>b
<1>f. \A r \in Requests : request[r].status # "none" =>
        request[r].owner \in Users /\ wallet[request[r].owner].status # "absent"
  BY <1>b DEF RequestWellFormed
<1>1. ASSUME NEW u \in Users, EnsureWallet(u)
      PROVE  RowsWellFormed'
  BY <1>1, <1>c DEF EnsureWallet, NewWallet
<1>2. ASSUME NEW u \in Users, NEW a \in Amounts, Credit(u, a)
      PROVE  RowsWellFormed'
  <2>1. Credited(wallet[u], a).status # "absent"
    BY <1>2 DEF Credit, CanCredit, Active, Credited, GetOrCreate, NewWallet
  <2> QED
    BY <1>2, <1>c, <2>1 DEF Credit
<1>3. ASSUME NEW u \in Users, NEW a \in Amounts, Debit(u, a)
      PROVE  RowsWellFormed'
  <2>1. Debited(wallet[u], a).status # "absent"
    BY <1>3, <1>a DEF Debit, CanDebit, Active, Debited, WalletRow
  <2> QED
    BY <1>3, <1>c, <2>1 DEF Debit
<1>4. ASSUME NEW u \in Users, NEW s \in {"active", "suspended"}, SetWalletStatus(u, s)
      PROVE  RowsWellFormed'
  <2> DEFINE row == [wallet[u] EXCEPT !.status = s]
  <2>1. row.status # "absent"
    BY <1>a DEF WalletRow
  <2>2. wallet' = [wallet EXCEPT ![u] = row]
    BY <1>4, <1>a DEF SetWalletStatus
  <2> QED
    BY <1>4, <1>c, <2>1, <2>2 DEF SetWalletStatus
<1>5. ASSUME NEW r \in Requests, NEW u \in Users, NEW by \in Users, NEW a \in Amounts,
             RequestWithdrawal(r, u, by, a)
      PROVE  RowsWellFormed'
  <2>1. RequestWellFormed(Opened(u, a))
    BY <1>5 DEF RequestWithdrawal, CanRequest, RequestWellFormed, Opened, NoRequest
  <2>2. /\ Opened(u, a).status = "pending" /\ Opened(u, a).owner = u
        /\ Held(wallet[u], a).status = "active"
    BY <1>5, <1>a DEF Opened, NoRequest, RequestWithdrawal, CanRequest, Active, Held, WalletRow
  <2>3. wallet'[u].status # "absent" /\ \A v \in Users \ {u} : wallet'[v] = wallet[v]
    BY <1>5, <1>a, <2>2 DEF RequestWithdrawal
  <2> QED
    BY <1>5, <1>d, <2>1, <2>2, <2>3 DEF RequestWithdrawal
<1>6. ASSUME NEW r \in Requests, NEW by \in Actors, MarkStage1Approval(r, by)
      PROVE  RowsWellFormed'
  <2> DEFINE row == Stage1Marked(request[r], by)
  <2>1. /\ RequestWellFormed(row) /\ row.status = "approved_pending"
        /\ row.owner = request[r].owner
    BY <1>6, <1>e DEF MarkStage1Approval, CanMarkStage1, Stage1Marked, RequestWellFormed, RequestRow
  <2>2. request[r].owner \in Users /\ wallet[request[r].owner].status # "absent"
    BY <1>6, <1>f DEF MarkStage1Approval, CanMarkStage1
  <2> QED
    BY <1>6, <1>d, <2>1, <2>2 DEF MarkStage1Approval
<1>7. ASSUME NEW r \in Requests, NEW by \in Actors, ApproveWithdrawal(r, by)
      PROVE  RowsWellFormed'
  <2> DEFINE q == request[r]
             row == Approved(q, by)
  <2>1. RequestWellFormed(row) /\ row.status = "approved" /\ row.owner = q.owner
    BY <1>7, <1>e, NobodyAssumption
       DEF ApproveWithdrawal, CanApprove, Approved, RequestWellFormed, RequestRow
  <2>2. q.owner \in Users /\ wallet[q.owner].status = "active"
    BY <1>7, <1>e DEF ApproveWithdrawal, CanApprove, Active, RequestWellFormed
  <2>3. Settled(wallet[q.owner], q.amount).status = "active"
    BY <1>a, <2>2 DEF Settled, Released, Debited, WalletRow
  <2>4. /\ wallet'[q.owner].status # "absent"
        /\ \A v \in Users \ {q.owner} : wallet'[v] = wallet[v]
    BY <1>7, <1>a, <2>2, <2>3 DEF ApproveWithdrawal
  <2> QED
    BY <1>7, <1>d, <2>1, <2>2, <2>4 DEF ApproveWithdrawal
<1>8. ASSUME NEW r \in Requests, FailWithdrawal(r)
      PROVE  RowsWellFormed'
  <2> DEFINE q == request[r]
             row == Closed(q, "failed")
  <2>1. RequestWellFormed(row) /\ row.status = "failed" /\ row.owner = q.owner
    BY <1>8, <1>e DEF FailWithdrawal, CanFail, Closed, RequestWellFormed, RequestRow
  <2>2. q.owner \in Users /\ wallet[q.owner].status # "absent"
    BY <1>8, <1>f DEF FailWithdrawal, CanFail
  <2>3. GivenBack(wallet[q.owner], q).status = wallet[q.owner].status
    BY <1>a, <1>e, <2>2, GivenBackType DEF GivenBack, Refunded, WalletRow
  <2>4. /\ wallet'[q.owner].status # "absent"
        /\ \A v \in Users \ {q.owner} : wallet'[v] = wallet[v]
    BY <1>8, <1>a, <2>2, <2>3 DEF FailWithdrawal
  <2> QED
    BY <1>8, <1>d, <2>1, <2>2, <2>4 DEF FailWithdrawal
<1>9. ASSUME NEW r \in Requests, NEW s \in {"rejected", "cancelled"}, CloseWithdrawal(r, s)
      PROVE  RowsWellFormed'
  <2> DEFINE q == request[r]
             row == Closed(q, s)
  <2>1. RequestWellFormed(row) /\ row.status = s /\ row.owner = q.owner
    BY <1>9, <1>e DEF CloseWithdrawal, CanClose, Closed, RequestWellFormed, RequestRow
  <2>2. q.owner \in Users /\ wallet[q.owner].status # "absent"
    BY <1>9, <1>f DEF CloseWithdrawal, CanClose
  <2>3. Released(wallet[q.owner], q.amount).status = wallet[q.owner].status
    BY <1>a, <2>2 DEF Released, WalletRow
  <2>4. /\ wallet'[q.owner].status # "absent"
        /\ \A v \in Users \ {q.owner} : wallet'[v] = wallet[v]
    BY <1>9, <1>a, <2>2, <2>3 DEF CloseWithdrawal
  <2> QED
    BY <1>9, <1>d, <2>1, <2>2, <2>4 DEF CloseWithdrawal
<1>10. CASE UNCHANGED vars
  BY <1>10, <1>b DEF vars, RowsWellFormed
<1> QED
  BY <1>1, <1>2, <1>3, <1>4, <1>5, <1>6, <1>7, <1>8, <1>9, <1>10
     DEF Next, WalletStep, RequestStep, RejectWithdrawal, CancelWithdrawal

(* Every wallet stays balanced.                                            *)
LEMMA MoneyStep == IInv /\ [Next]_vars => \A v \in Users : Money(v)'
<1> SUFFICES ASSUME IInv, [Next]_vars, NEW v \in Users
             PROVE  Money(v)'
  OBVIOUS
<1>a. /\ wallet \in [Users -> WalletRow] /\ request \in Rows /\ ledger \in Ledgers
      /\ wallet[v] \in WalletRow /\ ledger[v] \in [EntryType -> Nat]
  BY DEF IInv, TypeOK, Rows, Ledgers
<1>b. wallet[v].status = "absent" => wallet[v] = NoWallet
  BY DEF IInv, RowsWellFormed
<1>c. \A r \in Requests : request[r] \in RequestRow /\ request[r].amount \in Nat
                          /\ RequestWellFormed(request[r])
  BY <1>a DEF IInv, RowsWellFormed, Rows, RequestRow
<1> DEFINE o == OpenTotal(v)
           a == ApprovedTotal(v)
           f == ReleasedTotal(v)
           x == RefundedTotal(v)
<1>d. Balanced(wallet[v], ledger[v], o, a, f, x)
  BY DEF IInv, Money
<1>t. o \in Nat /\ a \in Nat /\ f \in Nat /\ x \in Nat
  BY <1>a, SumType DEF OpenTotal, ApprovedTotal, ReleasedTotal, RefundedTotal
(* A step on a wallet alone leaves the sums.                               *)
<1>e. ASSUME UNCHANGED request,
             Balanced(wallet'[v], ledger'[v], o, a, f, x)
      PROVE  Money(v)'
  BY <1>e DEF Money, OpenTotal, ApprovedTotal, ReleasedTotal, RefundedTotal
(* A step on a request changes each sum by the shares of its row.          *)
<1>f. ASSUME NEW r \in Requests, NEW row \in RequestRow, request' = [request EXCEPT ![r] = row],
             NEW C
      PROVE  SumOf(request', v, C) =
               SumOf(request, v, C) + (Share(row, v, C) - Share(request[r], v, C))
  <2>1. request' \in Rows
    BY <1>a, <1>f DEF Rows
  <2>2. request'[r] = row /\ \A z \in Requests \ {r} : request'[z] = request[z]
    BY <1>a, <1>f DEF Rows
  <2> QED
    BY <1>a, <2>1, <2>2, SumChange
(* A request of another wallet has no share in these.                      *)
<1>g. ASSUME NEW r \in Requests, NEW row \in RequestRow, request' = [request EXCEPT ![r] = row],
             row.owner # v, request[r].status = "none" \/ request[r].owner # v,
             wallet'[v] = wallet[v], ledger'[v] = ledger[v]
      PROVE  Money(v)'
  <2>1. ASSUME NEW C, "none" \notin C
        PROVE  SumOf(request', v, C) = SumOf(request, v, C)
    <3>1. Share(row, v, C) = 0 /\ Share(request[r], v, C) = 0
      BY <1>g, <2>1 DEF Share, Class
    <3>2. SumOf(request, v, C) \in Nat
      BY <1>a, SumType
    <3>3. SumOf(request', v, C) = SumOf(request, v, C) + (Share(row, v, C) - Share(request[r], v, C))
      BY <1>f, <1>g
    <3> QED
      BY <3>1, <3>2, <3>3
  <2>2. OpenTotal(v)' = o /\ ReleasedTotal(v)' = f
    BY <2>1 DEF OpenTotal, ReleasedTotal, OpenClasses, ReleasedClasses
  <2>3. ApprovedTotal(v)' = a /\ RefundedTotal(v)' = x
    BY <2>1 DEF ApprovedTotal, RefundedTotal
  <2> QED
    BY <1>d, <1>g, <2>2, <2>3 DEF Money
<1>1. ASSUME NEW u \in Users, EnsureWallet(u)
      PROVE  Money(v)'
  <2>1. Balanced(wallet'[v], ledger'[v], o, a, f, x)
    BY <1>1, <1>a, <1>b, <1>d DEF EnsureWallet, NoWallet, NewWallet, Balanced
  <2> QED
    BY <1>1, <1>e, <2>1 DEF EnsureWallet
<1>2. ASSUME NEW u \in Users, NEW n \in Amounts, Credit(u, n)
      PROVE  Money(v)'
  <2>1. n \in Nat
    BY <1>2, AmountsAssumption DEF Credit, CanCredit
  <2>2. CASE u = v
    <3>1. wallet'[v] = Credited(wallet[v], n) /\ ledger'[v] = Entered(ledger[v], "credit", n)
      BY <1>2, <1>a, <2>2 DEF Credit, Post, Entered, Ledgers
    <3>2. Balanced(wallet'[v], ledger'[v], o, a, f, x)
      <4> HIDE DEF o, a, f, x
      <4>1. Balanced(Credited(wallet[v], n), Entered(ledger[v], "credit", n), o, a, f, x)
        BY <1>a, <1>b, <1>d, <1>t, <2>1, BalancedCredit
      <4> QED
        BY <3>1, <4>1, Zenon
    <3> QED
      BY <1>2, <1>e, <3>2 DEF Credit
  <2>3. CASE u # v
    <3>1. wallet'[v] = wallet[v] /\ ledger'[v] = ledger[v]
      BY <1>2, <1>a, <2>3 DEF Credit, Post, Ledgers
    <3> QED
      BY <1>2, <1>d, <1>e, <3>1 DEF Credit
  <2> QED
    BY <2>2, <2>3
<1>3. ASSUME NEW u \in Users, NEW n \in Amounts, Debit(u, n)
      PROVE  Money(v)'
  <2>1. n \in Nat
    BY <1>3, AmountsAssumption DEF Debit, CanDebit
  <2>2. CASE u = v
    <3>1. wallet'[v] = Debited(wallet[v], n) /\ ledger'[v] = Entered(ledger[v], "debit", n)
      BY <1>3, <1>a, <2>2 DEF Debit, Post, Entered, Ledgers
    <3>2. Balanced(wallet'[v], ledger'[v], o, a, f, x)
      <4> HIDE DEF o, a, f, x
      <4>1. CanDebit(wallet[v], n)
        BY <1>3, <2>2 DEF Debit
      <4>2. Balanced(Debited(wallet[v], n), Entered(ledger[v], "debit", n), o, a, f, x)
        BY <1>a, <1>d, <1>t, <2>1, <4>1, BalancedDebit
      <4> QED
        BY <3>1, <4>2, Zenon
    <3> QED
      BY <1>3, <1>e, <3>2 DEF Debit
  <2>3. CASE u # v
    <3>1. wallet'[v] = wallet[v] /\ ledger'[v] = ledger[v]
      BY <1>3, <1>a, <2>3 DEF Debit, Post, Ledgers
    <3> QED
      BY <1>3, <1>d, <1>e, <3>1 DEF Debit
  <2> QED
    BY <2>2, <2>3
<1>4. ASSUME NEW u \in Users, NEW s \in {"active", "suspended"}, SetWalletStatus(u, s)
      PROVE  Money(v)'
  <2>1. wallet'[v].balance = wallet[v].balance /\ wallet'[v].pending = wallet[v].pending
    BY <1>4, <1>a DEF SetWalletStatus, WalletRow
  <2>2. Balanced(wallet'[v], ledger'[v], o, a, f, x)
    <3> HIDE DEF o, a, f, x
    <3> QED
      BY <1>4, <1>d, <2>1 DEF SetWalletStatus, Balanced
  <2> QED
    BY <1>4, <1>e, <2>2 DEF SetWalletStatus
<1>5. ASSUME NEW r \in Requests, NEW u \in Users, NEW by \in Users, NEW m \in Amounts,
             RequestWithdrawal(r, u, by, m)
      PROVE  Money(v)'
  <2> DEFINE q == request[r]
             n == m
             row == Opened(u, m)
  <2>1. n \in Nat /\ n > 0 /\ row \in RequestRow /\ request' = [request EXCEPT ![r] = row]
    <3>1. n \in Nat /\ n > 0
      BY <1>5, AmountsAssumption DEF RequestWithdrawal, CanRequest
    <3> QED
      BY <1>5, <3>1, OpenedType DEF RequestWithdrawal
  <2>2. /\ q.status = "none" /\ row.status = "pending" /\ row.amount = n /\ row.owner = u
        /\ CanRequest(wallet[u], n)
    BY <1>5 DEF RequestWithdrawal, Opened, NoRequest
  <2>3. CASE u = v
    <3>1. /\ Share(q, v, OpenClasses) = 0 /\ Share(row, v, OpenClasses) = n
          /\ Share(q, v, {"approved"}) = 0 /\ Share(row, v, {"approved"}) = 0
          /\ Share(q, v, ReleasedClasses) = 0 /\ Share(row, v, ReleasedClasses) = 0
          /\ Share(q, v, {"refunded"}) = 0 /\ Share(row, v, {"refunded"}) = 0
      BY <2>2, <2>3 DEF Share, Class, OpenClasses, ReleasedClasses
    <3>2. /\ OpenTotal(v)' = o + n /\ ApprovedTotal(v)' = a
          /\ ReleasedTotal(v)' = f /\ RefundedTotal(v)' = x
      <4> HIDE DEF row, n
      <4>1. \A C : SumOf(request', v, C) = SumOf(request, v, C) + (Share(row, v, C) - Share(q, v, C))
        BY <1>f, <2>1
      <4> HIDE DEF q
      <4>2. OpenTotal(v)' = o + (n - 0)
        BY <3>1, <4>1, Zenon DEF OpenTotal
      <4>3. ApprovedTotal(v)' = a + (0 - 0)
        BY <3>1, <4>1, Zenon DEF ApprovedTotal
      <4>4. ReleasedTotal(v)' = f + (0 - 0)
        BY <3>1, <4>1, Zenon DEF ReleasedTotal
      <4>5. RefundedTotal(v)' = x + (0 - 0)
        BY <3>1, <4>1, Zenon DEF RefundedTotal
      <4> HIDE DEF o, a, f, x
      <4> QED
        BY <1>t, <2>1, <4>2, <4>3, <4>4, <4>5
    <3>3. wallet'[v] = Held(wallet[v], n) /\ ledger'[v] = Entered(ledger[v], "hold", n)
      BY <1>a, <1>5, <2>3 DEF RequestWithdrawal, Post, Entered, Ledgers
    <3>4. Balanced(Held(wallet[v], n), Entered(ledger[v], "hold", n), o + n, a, f, x)
      <4> HIDE DEF o, a, f, x
      <4> QED
        BY <1>a, <1>d, <1>t, <2>1, <2>2, <2>3, BalancedHold
    <3> QED
      BY <3>2, <3>3, <3>4, Zenon DEF Money
  <2>4. CASE u # v
    <3>1. wallet'[v] = wallet[v] /\ ledger'[v] = ledger[v]
      BY <1>a, <1>5, <2>4 DEF RequestWithdrawal, Post, Ledgers
    <3>2. row.owner # v /\ (q.status = "none" \/ q.owner # v)
      BY <2>2, <2>4
    <3> HIDE DEF row
    <3> QED
      BY <1>g, <2>1, <3>1, <3>2
  <2> QED
    BY <2>3, <2>4
<1>6. ASSUME NEW r \in Requests, NEW by \in Actors, MarkStage1Approval(r, by)
      PROVE  Money(v)'
  <2> DEFINE q == request[r]
             row == Stage1Marked(q, by)
  <2>1. row \in RequestRow /\ request' = [request EXCEPT ![r] = row]
    BY <1>6, <1>c, ApprovalTypes DEF MarkStage1Approval
  <2>2. /\ q.status = "pending" /\ row.status = "approved_pending"
        /\ row.amount = q.amount /\ row.owner = q.owner
    BY <1>6, <1>c DEF MarkStage1Approval, CanMarkStage1, Stage1Marked, RequestRow
  <2>3. \A C \in {OpenClasses, {"approved"}, ReleasedClasses, {"refunded"}} :
          Share(row, v, C) = Share(q, v, C)
    BY <2>2 DEF Share, Class, OpenClasses, ReleasedClasses
  <2>4. ASSUME NEW C \in {OpenClasses, {"approved"}, ReleasedClasses, {"refunded"}}
        PROVE  SumOf(request', v, C) = SumOf(request, v, C)
    <3> HIDE DEF row
    <3>1. SumOf(request', v, C) = SumOf(request, v, C) + (Share(row, v, C) - Share(q, v, C))
      BY <1>f, <2>1
    <3>2. SumOf(request, v, C) \in Nat
      BY <1>a, SumType
    <3>3. Share(q, v, C) \in Nat
      BY <1>c DEF Share
    <3> QED
      BY <2>3, <3>1, <3>2, <3>3
  <2>5. /\ OpenTotal(v)' = o /\ ApprovedTotal(v)' = a
        /\ ReleasedTotal(v)' = f /\ RefundedTotal(v)' = x
    BY <2>4 DEF OpenTotal, ApprovedTotal, ReleasedTotal, RefundedTotal
  <2> QED
    BY <1>6, <1>d, <2>5 DEF MarkStage1Approval, Money
<1>7. ASSUME NEW r \in Requests, NEW by \in Actors, ApproveWithdrawal(r, by)
      PROVE  Money(v)'
  <2> DEFINE q == request[r]
             n == q.amount
             row == Approved(q, by)
  <2>1. n \in Nat /\ n > 0 /\ row \in RequestRow /\ request' = [request EXCEPT ![r] = row]
    BY <1>7, <1>c, ApprovalTypes DEF ApproveWithdrawal, CanApprove, RequestWellFormed
  <2>2. /\ q.status \in {"pending", "approved_pending"} /\ row.status = "approved"
        /\ row.amount = n /\ row.owner = q.owner
    BY <1>7, <1>c DEF ApproveWithdrawal, CanApprove, Approved, RequestRow
  <2>3. CASE q.owner = v
    <3>1. /\ Share(q, v, OpenClasses) = n /\ Share(row, v, OpenClasses) = 0
          /\ Share(q, v, {"approved"}) = 0 /\ Share(row, v, {"approved"}) = n
          /\ Share(q, v, ReleasedClasses) = 0 /\ Share(row, v, ReleasedClasses) = 0
          /\ Share(q, v, {"refunded"}) = 0 /\ Share(row, v, {"refunded"}) = 0
      BY <2>2, <2>3 DEF Share, Class, OpenClasses, ReleasedClasses
    <3>2. /\ OpenTotal(v)' = o - n /\ ApprovedTotal(v)' = a + n
          /\ ReleasedTotal(v)' = f /\ RefundedTotal(v)' = x
      <4> HIDE DEF row, n
      <4>1. \A C : SumOf(request', v, C) = SumOf(request, v, C) + (Share(row, v, C) - Share(q, v, C))
        BY <1>f, <2>1
      <4> HIDE DEF q
      <4>2. OpenTotal(v)' = o + (0 - n)
        BY <3>1, <4>1, Zenon DEF OpenTotal
      <4>3. ApprovedTotal(v)' = a + (n - 0)
        BY <3>1, <4>1, Zenon DEF ApprovedTotal
      <4>4. ReleasedTotal(v)' = f + (0 - 0)
        BY <3>1, <4>1, Zenon DEF ReleasedTotal
      <4>5. RefundedTotal(v)' = x + (0 - 0)
        BY <3>1, <4>1, Zenon DEF RefundedTotal
      <4> HIDE DEF o, a, f, x
      <4> QED
        BY <1>t, <2>1, <4>2, <4>3, <4>4, <4>5
    <3>3. wallet'[v] = Settled(wallet[v], n) /\ ledger'[v] = Entered(ledger[v], "withdrawal", n)
      BY <1>a, <1>7, <2>3 DEF ApproveWithdrawal, Post, Entered, Ledgers
    <3>4. Balanced(Settled(wallet[v], n), Entered(ledger[v], "withdrawal", n), o - n, a + n, f, x)
      <4> HIDE DEF o, a, f, x
      <4> QED
        BY <1>a, <1>d, <1>t, <2>1, BalancedSettle
    <3> QED
      BY <3>2, <3>3, <3>4, Zenon DEF Money
  <2>4. CASE q.owner # v
    <3>1. wallet'[v] = wallet[v] /\ ledger'[v] = ledger[v]
      BY <1>a, <1>7, <2>4 DEF ApproveWithdrawal, Post, Ledgers
    <3>2. row.owner # v /\ (q.status = "none" \/ q.owner # v)
      BY <2>2, <2>4
    <3> HIDE DEF row
    <3> QED
      BY <1>g, <2>1, <3>1, <3>2
  <2> QED
    BY <2>3, <2>4
<1>8. ASSUME NEW r \in Requests, NEW s \in {"rejected", "cancelled"}, CloseWithdrawal(r, s)
      PROVE  Money(v)'
  <2> DEFINE q == request[r]
             n == q.amount
             row == Closed(q, s)
  <2>1. n \in Nat /\ n > 0 /\ row \in RequestRow /\ request' = [request EXCEPT ![r] = row]
    BY <1>8, <1>c, ClosedType DEF CloseWithdrawal, CanClose, RequestWellFormed
  <2>2. /\ q.status = "pending" /\ row.status \in {"rejected", "cancelled"}
        /\ row.amount = n /\ row.owner = q.owner
    BY <1>8, <1>c DEF CloseWithdrawal, CanClose, Closed, RequestRow
  <2>3. CASE q.owner = v
    <3>1. /\ Share(q, v, OpenClasses) = n /\ Share(row, v, OpenClasses) = 0
          /\ Share(q, v, {"approved"}) = 0 /\ Share(row, v, {"approved"}) = 0
          /\ Share(q, v, ReleasedClasses) = 0 /\ Share(row, v, ReleasedClasses) = n
          /\ Share(q, v, {"refunded"}) = 0 /\ Share(row, v, {"refunded"}) = 0
      BY <2>2, <2>3 DEF Share, Class, OpenClasses, ReleasedClasses
    <3>2. /\ OpenTotal(v)' = o - n /\ ApprovedTotal(v)' = a
          /\ ReleasedTotal(v)' = f + n /\ RefundedTotal(v)' = x
      <4> HIDE DEF row, n
      <4>1. \A C : SumOf(request', v, C) = SumOf(request, v, C) + (Share(row, v, C) - Share(q, v, C))
        BY <1>f, <2>1
      <4> HIDE DEF q
      <4>2. OpenTotal(v)' = o + (0 - n)
        BY <3>1, <4>1, Zenon DEF OpenTotal
      <4>3. ApprovedTotal(v)' = a + (0 - 0)
        BY <3>1, <4>1, Zenon DEF ApprovedTotal
      <4>4. ReleasedTotal(v)' = f + (n - 0)
        BY <3>1, <4>1, Zenon DEF ReleasedTotal
      <4>5. RefundedTotal(v)' = x + (0 - 0)
        BY <3>1, <4>1, Zenon DEF RefundedTotal
      <4> HIDE DEF o, a, f, x
      <4> QED
        BY <1>t, <2>1, <4>2, <4>3, <4>4, <4>5
    <3>3. wallet'[v] = Released(wallet[v], n) /\ ledger'[v] = Entered(ledger[v], "release", n)
      BY <1>a, <1>8, <2>3 DEF CloseWithdrawal, Post, Entered, Ledgers
    <3>4. Balanced(Released(wallet[v], n), Entered(ledger[v], "release", n), o - n, a, f + n, x)
      <4> HIDE DEF o, a, f, x
      <4> QED
        BY <1>a, <1>d, <1>t, <2>1, BalancedRelease
    <3> QED
      BY <3>2, <3>3, <3>4, Zenon DEF Money
  <2>4. CASE q.owner # v
    <3>1. wallet'[v] = wallet[v] /\ ledger'[v] = ledger[v]
      BY <1>a, <1>8, <2>4 DEF CloseWithdrawal, Post, Ledgers
    <3>2. row.owner # v /\ (q.status = "none" \/ q.owner # v)
      BY <2>2, <2>4
    <3> HIDE DEF row
    <3> QED
      BY <1>g, <2>1, <3>1, <3>2
  <2> QED
    BY <2>3, <2>4
<1>9. ASSUME NEW r \in Requests, FailWithdrawal(r), request[r].status = "approved"
      PROVE  Money(v)'
  <2> DEFINE q == request[r]
             n == q.amount
             row == Closed(q, "failed")
  <2>1. n \in Nat /\ n > 0 /\ row \in RequestRow /\ request' = [request EXCEPT ![r] = row]
    BY <1>9, <1>c, ClosedType DEF FailWithdrawal, RequestWellFormed
  <2>2. /\ q.status = "approved" /\ row.status = "failed" /\ q.approvedBy # Nobody
        /\ row.amount = n /\ row.owner = q.owner /\ row.approvedBy = q.approvedBy
    BY <1>9, <1>c DEF FailWithdrawal, Closed, RequestRow, RequestWellFormed
  <2>3. CASE q.owner = v
    <3>1. /\ Share(q, v, OpenClasses) = 0 /\ Share(row, v, OpenClasses) = 0
          /\ Share(q, v, {"approved"}) = n /\ Share(row, v, {"approved"}) = 0
          /\ Share(q, v, ReleasedClasses) = 0 /\ Share(row, v, ReleasedClasses) = n
          /\ Share(q, v, {"refunded"}) = 0 /\ Share(row, v, {"refunded"}) = n
      BY <2>2, <2>3 DEF Share, Class, OpenClasses, ReleasedClasses
    <3>2. /\ OpenTotal(v)' = o /\ ApprovedTotal(v)' = a - n
          /\ ReleasedTotal(v)' = f + n /\ RefundedTotal(v)' = x + n
      <4> HIDE DEF row, n
      <4>1. \A C : SumOf(request', v, C) = SumOf(request, v, C) + (Share(row, v, C) - Share(q, v, C))
        BY <1>f, <2>1
      <4> HIDE DEF q
      <4>2. OpenTotal(v)' = o + (0 - 0)
        BY <3>1, <4>1, Zenon DEF OpenTotal
      <4>3. ApprovedTotal(v)' = a + (0 - n)
        BY <3>1, <4>1, Zenon DEF ApprovedTotal
      <4>4. ReleasedTotal(v)' = f + (n - 0)
        BY <3>1, <4>1, Zenon DEF ReleasedTotal
      <4>5. RefundedTotal(v)' = x + (n - 0)
        BY <3>1, <4>1, Zenon DEF RefundedTotal
      <4> HIDE DEF o, a, f, x
      <4> QED
        BY <1>t, <2>1, <4>2, <4>3, <4>4, <4>5
    <3>3. wallet'[v] = GivenBack(wallet[v], q) /\ ledger'[v] = Entered(ledger[v], "release", n)
      BY <1>a, <1>9, <2>3 DEF FailWithdrawal, Post, Entered, Ledgers
    <3>4. Balanced(GivenBack(wallet[v], q), Entered(ledger[v], "release", n), o, a - n, f + n, x + n)
      <4> HIDE DEF o, a, f, x
      <4> QED
        BY <1>a, <1>c, <1>d, <1>t, <2>1, <2>2, BalancedFail
    <3> QED
      BY <3>2, <3>3, <3>4, Zenon DEF Money
  <2>4. CASE q.owner # v
    <3>1. wallet'[v] = wallet[v] /\ ledger'[v] = ledger[v]
      BY <1>a, <1>9, <2>4 DEF FailWithdrawal, Post, Ledgers
    <3>2. row.owner # v /\ (q.status = "none" \/ q.owner # v)
      BY <2>2, <2>4
    <3> HIDE DEF row
    <3> QED
      BY <1>g, <2>1, <3>1, <3>2
  <2> QED
    BY <2>3, <2>4
<1>10. ASSUME NEW r \in Requests, FailWithdrawal(r), request[r].status = "approved_pending"
      PROVE  Money(v)'
  <2> DEFINE q == request[r]
             n == q.amount
             row == Closed(q, "failed")
  <2>1. n \in Nat /\ n > 0 /\ row \in RequestRow /\ request' = [request EXCEPT ![r] = row]
    BY <1>10, <1>c, ClosedType DEF FailWithdrawal, RequestWellFormed
  <2>2. /\ q.status = "approved_pending" /\ row.status = "failed" /\ row.approvedBy = Nobody
        /\ row.amount = n /\ row.owner = q.owner
    BY <1>10, <1>c DEF FailWithdrawal, Closed, RequestRow, RequestWellFormed
  <2>3. CASE q.owner = v
    <3>1. /\ Share(q, v, OpenClasses) = n /\ Share(row, v, OpenClasses) = 0
          /\ Share(q, v, {"approved"}) = 0 /\ Share(row, v, {"approved"}) = 0
          /\ Share(q, v, ReleasedClasses) = 0 /\ Share(row, v, ReleasedClasses) = n
          /\ Share(q, v, {"refunded"}) = 0 /\ Share(row, v, {"refunded"}) = 0
      BY <2>2, <2>3 DEF Share, Class, OpenClasses, ReleasedClasses
    <3>2. /\ OpenTotal(v)' = o - n /\ ApprovedTotal(v)' = a
          /\ ReleasedTotal(v)' = f + n /\ RefundedTotal(v)' = x
      <4> HIDE DEF row, n
      <4>1. \A C : SumOf(request', v, C) = SumOf(request, v, C) + (Share(row, v, C) - Share(q, v, C))
        BY <1>f, <2>1
      <4> HIDE DEF q
      <4>2. OpenTotal(v)' = o + (0 - n)
        BY <3>1, <4>1, Zenon DEF OpenTotal
      <4>3. ApprovedTotal(v)' = a + (0 - 0)
        BY <3>1, <4>1, Zenon DEF ApprovedTotal
      <4>4. ReleasedTotal(v)' = f + (n - 0)
        BY <3>1, <4>1, Zenon DEF ReleasedTotal
      <4>5. RefundedTotal(v)' = x + (0 - 0)
        BY <3>1, <4>1, Zenon DEF RefundedTotal
      <4> HIDE DEF o, a, f, x
      <4> QED
        BY <1>t, <2>1, <4>2, <4>3, <4>4, <4>5
    <3>5. o - n \in Nat
      <4>1. OpenTotal(v)' \in Nat
        <5>1. request' \in Rows
          BY <1>a, <2>1 DEF Rows
        <5> QED
          BY <5>1, SumType DEF OpenTotal
      <4> QED
        BY <3>2, <4>1
    <3>3. wallet'[v] = GivenBack(wallet[v], q) /\ ledger'[v] = Entered(ledger[v], "release", n)
      BY <1>a, <1>10, <2>3 DEF FailWithdrawal, Post, Entered, Ledgers
    <3>4. Balanced(GivenBack(wallet[v], q), Entered(ledger[v], "release", n), o - n, a, f + n, x)
      <4> HIDE DEF o, a, f, x
      <4> QED
        BY <1>a, <1>c, <1>d, <1>t, <2>1, <2>2, <3>5, BalancedFail
    <3> QED
      BY <3>2, <3>3, <3>4, Zenon DEF Money
  <2>4. CASE q.owner # v
    <3>1. wallet'[v] = wallet[v] /\ ledger'[v] = ledger[v]
      BY <1>a, <1>10, <2>4 DEF FailWithdrawal, Post, Ledgers
    <3>2. row.owner # v /\ (q.status = "none" \/ q.owner # v)
      BY <2>2, <2>4
    <3> HIDE DEF row
    <3> QED
      BY <1>g, <2>1, <3>1, <3>2
  <2> QED
    BY <2>3, <2>4
<1>11. CASE UNCHANGED vars
  BY <1>11, <1>d DEF vars, Money, OpenTotal, ApprovedTotal, ReleasedTotal, RefundedTotal
<1>12. ASSUME NEW r \in Requests, FailWithdrawal(r)
       PROVE  Money(v)'
  BY <1>9, <1>10, <1>12 DEF FailWithdrawal, CanFail
<1> QED
  BY <1>1, <1>2, <1>3, <1>4, <1>5, <1>6, <1>7, <1>8, <1>11, <1>12
     DEF Next, WalletStep, RequestStep, RejectWithdrawal, CancelWithdrawal

(* Initially every sum is zero.                                            *)
LEMMA InitMoney == Init => IInv
<1> SUFFICES ASSUME Init
             PROVE  IInv
  OBVIOUS
<1>1. TypeOK
  BY DEF Init, TypeOK, WalletRow, RequestRow, WalletStatus, RequestStatus, NoWallet, NoRequest
<1>2. RowsWellFormed
  BY DEF Init, RowsWellFormed, RequestWellFormed, NoRequest, NoWallet
<1>3. ASSUME NEW u \in Users
      PROVE  Money(u)
  <2>1. ASSUME NEW C, "none" \notin C
        PROVE  SumOf(request, u, C) = 0
    <3>1. RequestsIn(request, u, C) = {}
      BY <2>1 DEF Init, RequestsIn, Class, NoRequest
    <3>2. PointsOf(request, RequestsIn(request, u, C)) = {}
      BY <3>1 DEF PointsOf
    <3> QED
      BY <3>2, FS_EmptySet, Zenon DEF SumOf
  <2>2. OpenTotal(u) = 0 /\ ReleasedTotal(u) = 0
    BY <2>1 DEF OpenTotal, ReleasedTotal, OpenClasses, ReleasedClasses
  <2>3. ApprovedTotal(u) = 0 /\ RefundedTotal(u) = 0
    BY <2>1 DEF ApprovedTotal, RefundedTotal
  <2> QED
    BY <2>2, <2>3 DEF Init, Money, Balanced, NoWallet, EntryType
<1> QED
  BY <1>1, <1>2, <1>3 DEF IInv

(* The invariant behind every money theorem.                               *)
THEOREM Invariant == Spec => []IInv
<1>1. Init => IInv
  BY InitMoney
<1>2. IInv /\ [Next]_vars => IInv'
  <2> SUFFICES ASSUME IInv, [Next]_vars
               PROVE  IInv'
    OBVIOUS
  <2>1. TypeOK'
    BY TypeStep DEF IInv
  <2>2. RowsWellFormed'
    BY RowsStep DEF IInv
  <2>3. \A u \in Users : Money(u)'
    BY MoneyStep
  <2> QED
    BY <2>1, <2>2, <2>3 DEF IInv
<1> QED
  BY <1>1, <1>2, PTL DEF Spec

(* A balance is always what the ledger and the requests say it is.         *)
THEOREM BalanceReplayed == Spec => []LedgerReplaysBalance
<1>1. IInv => LedgerReplaysBalance
  BY DEF IInv, Money, Balanced, LedgerReplaysBalance
<1> QED
  BY <1>1, Invariant, PTL

(* Every hold is closed once, except by a failure after approval.          *)
THEOREM HoldsClosed == Spec => []LedgerClosesHolds
<1>1. IInv => LedgerClosesHolds
  BY DEF IInv, Money, Balanced, LedgerClosesHolds
<1> QED
  BY <1>1, Invariant, PTL

(* No hold outlives its request, and only refunds release too much.        *)
THEOREM PendingTracked == Spec => []PendingTracksOpenRequests
<1>1. IInv => PendingTracksOpenRequests
  BY DEF IInv, Money, Balanced, PendingTracksOpenRequests
<1> QED
  BY <1>1, Invariant, PTL

(* Without a refund, the balance covers all open requests together.        *)
THEOREM OpenCovered == Spec => []OpenRequestsCovered
<1>1. IInv => OpenRequestsCovered
  BY DEF IInv, Money, Balanced, OpenRequestsCovered
<1> QED
  BY <1>1, Invariant, PTL

-----------------------------------------------------------------------------
(***************************************************************************)
(* Refinement.                                                              *)
(***************************************************************************)
funds == [u \in Users |-> wallet[u].balance]
phase == [r \in Requests |-> phaseOf(request[r].status)]
stake == [r \in Requests |-> request[r].amount]
holder == [r \in Requests |-> request[r].owner]

LEMMA SettledBalance ==
  ASSUME NEW w \in WalletRow, NEW a \in Nat
  PROVE  Settled(w, a).balance = w.balance - a
<1>1. Debited(w, a).balance = w.balance - a /\ Debited(w, a) \in WalletRow
  BY WalletRowTypes DEF Debited, WalletRow
<1> QED
  BY <1>1 DEF Settled, Released, WalletRow

LEMMA GivenBackBalance ==
  ASSUME NEW w \in WalletRow, NEW q \in RequestRow
  PROVE  GivenBack(w, q).balance = Refunded(w, q).balance
BY GivenBackType DEF GivenBack, WalletRow

(* Every operation of the service is a step of the abstract account, or a  *)
(* stutter: no request is paid or refunded twice or from another wallet.   *)
THEOREM Refinement == Spec => ImplementsFundsAccount
<1> USE DEF funds, phase, stake, holder
<1>1. Init => Account!Init
  BY DEF Init, Account!Init, NoWallet, NoRequest, phaseOf
<1>2. IInv /\ [Next]_vars => [Account!Next]_(Account!vars)
  <2> SUFFICES ASSUME IInv, [Next]_vars
               PROVE  Account!Next \/ UNCHANGED <<funds, phase, stake, holder>>
    BY DEF Account!vars
  <2>a. /\ wallet \in [Users -> WalletRow] /\ request \in [Requests -> RequestRow]
        /\ \A u \in Users : wallet[u].balance \in Int
    BY DEF IInv, TypeOK, WalletRow
  <2>b. \A r \in Requests : RequestWellFormed(request[r]) /\ request[r] \in RequestRow
    BY <2>a DEF IInv, RowsWellFormed
  (* A step on one request changes its phase alone.                        *)
  <2>c. ASSUME NEW r \in Requests, NEW row, request' = [request EXCEPT ![r] = row],
               row.amount = request[r].amount, row.owner = request[r].owner
        PROVE  /\ phase' = [phase EXCEPT ![r] = phaseOf(row.status)]
               /\ UNCHANGED <<stake, holder>>
    BY <2>a, <2>c
  (* A step on one wallet changes its balance alone.                       *)
  <2>d. ASSUME NEW u \in Users, NEW row, wallet' = [wallet EXCEPT ![u] = row]
        PROVE  funds' = [funds EXCEPT ![u] = row.balance]
    BY <2>a, <2>d
  <2>e. ASSUME UNCHANGED request
        PROVE  UNCHANGED <<phase, stake, holder>>
    BY <2>e
  <2>1. ASSUME NEW u \in Users, EnsureWallet(u)
        PROVE  UNCHANGED <<funds, phase, stake, holder>>
    <3>1. wallet[u].balance = 0
      BY <2>1 DEF EnsureWallet, IInv, RowsWellFormed, NoWallet
    <3>2. UNCHANGED funds
      BY <2>1, <2>a, <3>1 DEF EnsureWallet, NewWallet
    <3> QED
      BY <2>1, <2>e, <3>2 DEF EnsureWallet
  <2>2. ASSUME NEW u \in Users, NEW n \in Amounts, Credit(u, n)
        PROVE  Account!Deposit(u)
    <3>1. n \in Int /\ n > 0
      BY <2>2, AmountsAssumption DEF Credit, CanCredit
    <3>2. Credited(wallet[u], n).balance = wallet[u].balance + n
      BY <2>2, <2>a, <3>1
         DEF Credit, Credited, GetOrCreate, IInv, RowsWellFormed, NoWallet, NewWallet, WalletRow
    <3>3. funds' = [funds EXCEPT ![u] = wallet[u].balance + n]
      BY <2>2, <2>d, <3>2 DEF Credit
    <3>4. funds'[u] = funds[u] + n
      BY <3>3
    <3>5. n = funds'[u] - funds[u]
      BY <2>a, <3>1, <3>4
    <3> QED
      <4>1. funds[u] = wallet[u].balance /\ funds[u] + n = funds[u] + (n)
        BY <2>a, <3>1
      <4>2. funds' = [funds EXCEPT ![u] = funds[u] + (n)]
        BY <3>3, <4>1, Zenon
      <4>3. funds' = [funds EXCEPT ![u] = @ + (funds'[u] - funds[u])]
        BY <3>5, <4>2, Zenon
      <4>4. funds'[u] > funds[u]
        BY <2>a, <3>1, <3>4, <4>1
      <4>5. UNCHANGED <<phase, stake, holder>>
        BY <2>2, <2>e DEF Credit
      <4> QED
        BY <4>3, <4>4, <4>5, Zenon DEF Account!Deposit, Account!Paid
  <2>3. ASSUME NEW u \in Users, NEW n \in Amounts, Debit(u, n)
        PROVE  Account!Spend(u)
    <3>1. n \in Int /\ n > 0
      BY <2>3, AmountsAssumption DEF Debit, CanDebit
    <3>2. Debited(wallet[u], n).balance = wallet[u].balance - n
      BY <2>a DEF Debited, WalletRow
    <3>3. funds' = [funds EXCEPT ![u] = wallet[u].balance - n]
      BY <2>3, <2>d, <3>2 DEF Debit
    <3>4. funds'[u] = funds[u] - n
      BY <3>3
    <3>5. -n = funds'[u] - funds[u]
      BY <2>a, <3>1, <3>4
    <3> QED
      <4>1. funds[u] = wallet[u].balance /\ funds[u] - n = funds[u] + (-n)
        BY <2>a, <3>1
      <4>2. funds' = [funds EXCEPT ![u] = funds[u] + (-n)]
        BY <3>3, <4>1, Zenon
      <4>3. funds' = [funds EXCEPT ![u] = @ + (funds'[u] - funds[u])]
        BY <3>5, <4>2, Zenon
      <4>4. funds'[u] < funds[u]
        BY <2>a, <3>1, <3>4, <4>1
      <4>5. UNCHANGED <<phase, stake, holder>>
        BY <2>3, <2>e DEF Debit
      <4> QED
        BY <4>3, <4>4, <4>5, Zenon DEF Account!Spend, Account!Paid
  <2>4. ASSUME NEW u \in Users, NEW s \in {"active", "suspended"}, SetWalletStatus(u, s)
        PROVE  UNCHANGED <<funds, phase, stake, holder>>
    <3>1. UNCHANGED funds
      BY <2>4, <2>a DEF SetWalletStatus, WalletRow
    <3> QED
      BY <2>4, <2>e, <3>1 DEF SetWalletStatus
  <2>5. ASSUME NEW r \in Requests, NEW u \in Users, NEW by \in Users, NEW n \in Amounts,
               RequestWithdrawal(r, u, by, n)
        PROVE  Account!Open(r)
    <3>1. n \in Int /\ n > 0
      BY <2>5, AmountsAssumption DEF RequestWithdrawal, CanRequest
    <3>2. UNCHANGED funds
      BY <2>5, <2>a DEF RequestWithdrawal, Held, WalletRow
    <3>3. request' = [request EXCEPT ![r] = Opened(u, n)] /\ request[r].status = "none"
      BY <2>5 DEF RequestWithdrawal
    <3>4. /\ Opened(u, n).status = "pending" /\ Opened(u, n).amount = n
          /\ Opened(u, n).owner = u
      BY DEF Opened, NoRequest
    <3>5. /\ phase' = [phase EXCEPT ![r] = "open"] /\ phase[r] = "none"
          /\ stake' = [stake EXCEPT ![r] = n]
          /\ holder' = [holder EXCEPT ![r] = u]
      BY <2>a, <3>3, <3>4 DEF phaseOf
    <3>6. stake'[r] = n /\ holder'[r] = u
      BY <3>5
    <3> QED
      BY <3>1, <3>2, <3>5, <3>6 DEF Account!Open, Account!Moved
  <2>6. ASSUME NEW r \in Requests, NEW by \in Actors, MarkStage1Approval(r, by)
        PROVE  UNCHANGED <<funds, phase, stake, holder>>
    <3> DEFINE row == Stage1Marked(request[r], by)
    <3>1. /\ row.status = "approved_pending" /\ request[r].status = "pending"
          /\ row.amount = request[r].amount /\ row.owner = request[r].owner
      BY <2>6, <2>b DEF MarkStage1Approval, CanMarkStage1, Stage1Marked, RequestRow
    <3>2. phase' = [phase EXCEPT ![r] = phaseOf(row.status)] /\ UNCHANGED <<stake, holder>>
      BY <2>6, <2>c, <3>1 DEF MarkStage1Approval
    <3>3. phaseOf(row.status) = phase[r]
      BY <3>1 DEF phaseOf
    <3> QED
      BY <2>6, <3>2, <3>3 DEF MarkStage1Approval
  <2>7. ASSUME NEW r \in Requests, NEW by \in Actors, ApproveWithdrawal(r, by)
        PROVE  Account!Settle(r)
    <3> DEFINE q == request[r]
               row == Approved(q, by)
    <3>1. /\ row.status = "approved" /\ q.status \in {"pending", "approved_pending"}
          /\ row.amount = q.amount /\ row.owner = q.owner
          /\ q.owner \in Users /\ q.amount \in Nat
      BY <2>7, <2>b DEF ApproveWithdrawal, CanApprove, Approved, RequestRow, RequestWellFormed
    <3>2. phase' = [phase EXCEPT ![r] = phaseOf(row.status)] /\ UNCHANGED <<stake, holder>>
      BY <2>7, <2>c, <3>1 DEF ApproveWithdrawal
    <3>3. phaseOf(row.status) = "settled" /\ phase[r] = "open"
      BY <3>1 DEF phaseOf
    <3>4. Settled(wallet[q.owner], q.amount).balance = wallet[q.owner].balance - q.amount
      <4>1. wallet[q.owner] \in WalletRow
        BY <2>a, <3>1
      <4> QED
        BY <3>1, <4>1, SettledBalance, Zenon
    <3>5. funds' = [funds EXCEPT ![q.owner] = wallet[q.owner].balance - q.amount]
      <4>1. wallet' = [wallet EXCEPT ![q.owner] = Settled(wallet[q.owner], q.amount)]
        BY <2>7 DEF ApproveWithdrawal
      <4>2. funds' = [funds EXCEPT ![q.owner] = Settled(wallet[q.owner], q.amount).balance]
        <5> HIDE DEF funds
        <5> QED
          BY <2>d, <3>1, <4>1
      <4> HIDE DEF funds
      <4> QED
        BY <3>4, <4>2, Zenon
    <3>6. funds' = [funds EXCEPT ![holder[r]] = @ + -stake[r]]
      BY <2>a, <3>1, <3>5
    <3> QED
      BY <3>2, <3>3, <3>6 DEF Account!Settle, Account!Moved, Account!Paid
  <2>8. ASSUME NEW r \in Requests, FailWithdrawal(r)
        PROVE  Account!Return(r) \/ Account!Refund(r)
    <3> DEFINE q == request[r]
               row == Closed(q, "failed")
    <3>1. /\ row.status = "failed" /\ q.status \in {"approved", "approved_pending"}
          /\ row.amount = q.amount /\ row.owner = q.owner
          /\ q.owner \in Users /\ q.amount \in Nat /\ q \in RequestRow
      BY <2>8, <2>b DEF FailWithdrawal, CanFail, Closed, RequestRow, RequestWellFormed
    <3>2. phase' = [phase EXCEPT ![r] = phaseOf(row.status)] /\ UNCHANGED <<stake, holder>>
      BY <2>8, <2>c, <3>1 DEF FailWithdrawal
    <3>3. phaseOf(row.status) = "returned"
      BY <3>1 DEF phaseOf
    <3>4. GivenBack(wallet[q.owner], q).balance = Refunded(wallet[q.owner], q).balance
      <4>1. wallet[q.owner] \in WalletRow
        BY <2>a, <3>1
      <4> QED
        BY <3>1, <4>1, GivenBackBalance, Zenon
    <3>5. funds' = [funds EXCEPT ![q.owner] = Refunded(wallet[q.owner], q).balance]
      <4>1. wallet' = [wallet EXCEPT ![q.owner] = GivenBack(wallet[q.owner], q)]
        BY <2>8 DEF FailWithdrawal
      <4>2. funds' = [funds EXCEPT ![q.owner] = GivenBack(wallet[q.owner], q).balance]
        <5> HIDE DEF funds
        <5> QED
          BY <2>d, <3>1, <4>1
      <4> HIDE DEF funds
      <4> QED
        BY <3>4, <4>2, Zenon
    <3>6. CASE q.status = "approved"
      <4>1. Refunded(wallet[q.owner], q).balance = wallet[q.owner].balance + q.amount
        BY <2>a, <3>1, <3>6 DEF Refunded, WalletRow
      <4>2. funds' = [funds EXCEPT ![holder[r]] = @ + stake[r]]
        BY <3>1, <3>5, <4>1
      <4>3. phase[r] = "settled"
        BY <3>6 DEF phaseOf
      <4> QED
        BY <3>2, <3>3, <4>2, <4>3 DEF Account!Refund, Account!Moved, Account!Paid
    <3>7. CASE q.status = "approved_pending"
      <4>1. Refunded(wallet[q.owner], q).balance = wallet[q.owner].balance
        BY <3>7 DEF Refunded
      <4>2. UNCHANGED funds
        BY <2>8, <2>a, <3>1, <3>4, <4>1 DEF FailWithdrawal
      <4>3. phase[r] = "open"
        BY <3>7 DEF phaseOf
      <4> QED
        BY <3>2, <3>3, <4>2, <4>3 DEF Account!Return, Account!Moved
    <3> QED
      BY <3>1, <3>6, <3>7
  <2>9. ASSUME NEW r \in Requests, NEW s \in {"rejected", "cancelled"}, CloseWithdrawal(r, s)
        PROVE  Account!Return(r)
    <3> DEFINE q == request[r]
               row == Closed(q, s)
    <3>1. /\ row.status = s /\ q.status = "pending"
          /\ row.amount = q.amount /\ row.owner = q.owner /\ q.owner \in Users
      BY <2>9, <2>b DEF CloseWithdrawal, CanClose, Closed, RequestRow, RequestWellFormed
    <3>2. phase' = [phase EXCEPT ![r] = phaseOf(row.status)] /\ UNCHANGED <<stake, holder>>
      BY <2>9, <2>c, <3>1 DEF CloseWithdrawal
    <3>3. phaseOf(row.status) = "returned" /\ phase[r] = "open"
      BY <3>1 DEF phaseOf
    <3>4. Released(wallet[q.owner], q.amount).balance = wallet[q.owner].balance
      BY <2>a, <3>1 DEF Released, WalletRow
    <3>5. UNCHANGED funds
      BY <2>9, <2>a, <3>1, <3>4 DEF CloseWithdrawal
    <3> QED
      BY <3>2, <3>3, <3>5 DEF Account!Return, Account!Moved
  <2>10. CASE UNCHANGED vars
    BY <2>10 DEF vars
  <2> HIDE DEF funds, phase, stake, holder
  <2> QED
    BY <2>1, <2>2, <2>3, <2>4, <2>5, <2>6, <2>7, <2>8, <2>9, <2>10
       DEF Next, WalletStep, RequestStep, RejectWithdrawal, CancelWithdrawal, Account!Next
<1> QED
  BY <1>1, <1>2, Invariant, PTL DEF Spec, Account!Spec, ImplementsFundsAccount
=============================================================================
