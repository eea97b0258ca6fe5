-------------------------- MODULE AegmallOrdersProofs --------------------------
(***************************************************************************)
(* Theorems of AegmallOrders, for any orders, trees, processes, attempts    *)
(* and faults.                                                             *)
(***************************************************************************)
EXTENDS AegmallOrders, FiniteSetTheorems, SequenceTheorems, TLAPS

Types == {"recommend", "sponsor", "share", "center", "center_referral"}

BonusRow == [id : Nat \X Nat, key : ScopedKeys, order : Orders, pipeline : Nat, type : Types, level : Nat]

Request ==
  [step : {"idle", "attempt", "finish", "raise"}, p : Payloads \cup {Nothing}, pipeline : Nat,
   newKey : BOOLEAN, newOrder : BOOLEAN, flushed : BOOLEAN, rows : SUBSET BonusRow, tries : 0 .. Attempts]

(* The rows of a session are numbered from 1, and are its own.             *)
Numbered(s) ==
  /\ IsFiniteSet(s.rows)
  /\ \A x \in s.rows : /\ x.key = KeyOf(s) /\ x.order = s.p.order /\ x.pipeline = s.pipeline
                       /\ \E n \in 1 .. Cardinality(s.rows) : x.id = BonusId(s, n)
  /\ \A x, y \in s.rows : x.id = y.id => x = y

Paid(rows) == {Levels(x) : x \in rows}
Once(rows) == \A x, y \in rows : Levels(x) = Levels(y) => x = y

(* While attempts fail there are recommend bonuses at most, and without     *)
(* faults none; a pipeline that ends has computed what is due.             *)
SoundAt(s, n) ==
  /\ s \in Request /\ Numbered(s)
  /\ s.step # "idle" => s.p \in Payloads /\ s.newKey
  /\ s.step = "attempt" =>
       /\ s.tries < Attempts
       /\ InBothTrees(s.p.user) =>
            /\ Paid(s.rows) \subseteq {"recommend"} \X (1 .. Unilevel[s.p.user])
            /\ n = 0 => s.rows = {}
  /\ s.step = "finish" /\ InBothTrees(s.p.user) => Paid(s.rows) = Due(s.p) /\ (n = 0 => Once(s.rows))

Sound(s) == SoundAt(s, faults)

Typed ==
  /\ key \in [ScopedKeys -> [status : {"absent", "SUCCEEDED"}, payload : Payloads \cup {Nothing}]]
  /\ order \in [Orders -> Payloads \cup {Nothing}]
  /\ bonus \subseteq BonusRow
  /\ session \in [Workers -> Request]
  /\ begun \in Nat /\ faults \in Nat

KeysHold ==
  \A k \in ScopedKeys :
    IF key[k].status = "absent" THEN RowsOf(k) = {}
    ELSE /\ key[k].payload \in Payloads /\ order[key[k].payload.order] # Nothing
         /\ \A x, y \in RowsOf(k) : x.pipeline = y.pipeline
         /\ \A x \in RowsOf(k) : x.order = key[k].payload.order
         /\ InBothTrees(key[k].payload.user) =>
              /\ Paid(RowsOf(k)) = Due(key[k].payload)
              /\ faults = 0 => IsFiniteSet(RowsOf(k)) /\ Once(RowsOf(k))

OrdersHold ==
  \A o \in Orders : order[o] # Nothing =>
    key[KeyOf([p |-> order[o]])] = [status |-> "SUCCEEDED", payload |-> order[o]]

IdsHold == \A x, y \in bonus : x.id = y.id => x = y

IInv == Typed /\ KeysHold /\ OrdersHold /\ IdsHold /\ \A w \in Workers : Sound(session[w])

-----------------------------------------------------------------------------
(* The rows of one more rule, b: row R[l] is numbered behind those before. *)
NextRows(s, n, R, b) ==
  /\ \A l \in 1 .. n : /\ R[l].id = BonusId(s, Cardinality(s.rows) + l)
                       /\ R[l].key = KeyOf(s) /\ R[l].order = s.p.order /\ R[l].pipeline = s.pipeline
  /\ \A x : x \in b <=> \E l \in 1 .. n : x = R[l]

LEMMA Numbering ==
  ASSUME NEW s, Numbered(s), s.pipeline \in Nat, NEW n \in Nat, NEW R, NEW b, NextRows(s, n, R, b),
         NEW z, z.p = s.p, z.pipeline = s.pipeline, z.rows = s.rows \cup b
  PROVE  Numbered(z)
<1> USE DEF NextRows
<1>1. PICK a : a = s.rows
  OBVIOUS
<1>2. PICK m : m = Cardinality(a)
  OBVIOUS
<1>3. PICK f : f = [l \in 1 .. n |-> R[l]]
  OBVIOUS
<1>4. \A x : x \in b <=> \E l \in 1 .. n : x = R[l]
  OBVIOUS
<1>5. IsFiniteSet(a) /\ m \in Nat
  BY <1>1, <1>2, FS_CardinalityType DEF Numbered
<1>6. \A i, j : BonusId(s, i) = BonusId(s, j) => i = j
  BY DEF BonusId
<1>7. \A i, j \in 1 .. n : R[i].id = R[j].id => i = j
  <2> TAKE i, j \in 1 .. n
  <2>1. R[i].id = BonusId(s, m + i) /\ R[j].id = BonusId(s, m + j)
    BY <1>1, <1>2
  <2>2. R[i].id = R[j].id => m + i = m + j
    BY <1>6, <2>1
  <2> QED BY <1>5, <2>2
<1>8. f \in Bijection(1 .. n, b)
  <2>1. f \in [1 .. n -> b]
    BY <1>3, <1>4
  <2>2. \A i, j \in 1 .. n : f[i] = f[j] => i = j
    BY <1>3, <1>7
  <2>3. \A x \in b : \E i \in 1 .. n : f[i] = x
    BY <1>3, <1>4
  <2> QED BY <2>1, <2>2, <2>3 DEF Bijection, Injection, IsInjective, Surjection
<1>9. IsFiniteSet(b) /\ Cardinality(b) = n
  <2>1. IsFiniteSet(1 .. n) /\ Cardinality(1 .. n) = n
    <3>1. IsFiniteSet(1 .. n) /\ Cardinality(1 .. n) = IF 1 > n THEN 0 ELSE n - 1 + 1
      BY FS_Interval
    <3> QED BY <3>1
  <2>2. ExistsBijection(1 .. n, b)
    BY <1>8 DEF ExistsBijection
  <2> QED BY <2>1, <2>2, FS_Bijection
<1>10. \A x \in a : \E i \in 1 .. m : x.id = BonusId(s, i)
  BY <1>1, <1>2 DEF Numbered
<1>11. \A x \in b : \E l \in 1 .. n : x = R[l] /\ x.id = BonusId(s, m + l)
  BY <1>1, <1>2, <1>4
<1>12. \A x \in a, y \in b : x.id # y.id
  <2> SUFFICES ASSUME NEW x \in a, NEW y \in b, x.id = y.id PROVE FALSE
    OBVIOUS
  <2>1. PICK i \in 1 .. m : x.id = BonusId(s, i)
    BY <1>10
  <2>2. PICK l \in 1 .. n : y.id = BonusId(s, m + l)
    BY <1>11
  <2>3. i = m + l
    BY <1>6, <2>1, <2>2
  <2> QED BY <1>5, <2>3
<1>13. PICK c : c = a \cup b
  OBVIOUS
<1>14. IsFiniteSet(c) /\ Cardinality(c) = m + n
  <2>1. a \cap b = {}
    BY <1>12
  <2>2. IsFiniteSet(c) /\ Cardinality(c) = m + n - Cardinality(a \cap b)
    BY <1>2, <1>5, <1>9, <1>13, FS_Union
  <2>3. Cardinality(a \cap b) = 0
    BY <2>1, FS_EmptySet
  <2> QED BY <1>5, <2>2, <2>3
<1>15. z.rows = c /\ KeyOf(z) = KeyOf(s) /\ \A i : BonusId(z, i) = BonusId(s, i)
  BY <1>1, <1>4, <1>13 DEF KeyOf, BonusId
<1>16. ASSUME NEW x \in c
       PROVE  /\ x.key = KeyOf(s) /\ x.order = s.p.order /\ x.pipeline = s.pipeline
              /\ \E i \in 1 .. m + n : x.id = BonusId(s, i)
  <2>1. CASE x \in a
    <3>1. PICK i \in 1 .. m : x.id = BonusId(s, i)
      BY <1>10, <2>1
    <3>2. i \in 1 .. m + n
      BY <1>5
    <3> QED BY <1>1, <2>1, <3>1, <3>2 DEF Numbered
  <2>2. CASE x \in b
    <3>1. PICK l \in 1 .. n : x = R[l] /\ x.id = BonusId(s, m + l)
      BY <1>11, <2>2
    <3>2. m + l \in 1 .. m + n
      BY <1>5
    <3> QED BY <3>1, <3>2
  <2> QED BY <1>13, <2>1, <2>2
<1>17. ASSUME NEW x \in c, NEW y \in c, x.id = y.id PROVE x = y
  <2>1. CASE x \in a /\ y \in a
    BY <1>1, <1>17, <2>1 DEF Numbered
  <2>2. CASE x \in b /\ y \in b
    <3>1. PICK i \in 1 .. n : x = R[i]
      BY <1>11, <2>2
    <3>2. PICK j \in 1 .. n : y = R[j]
      BY <1>11, <2>2
    <3> QED BY <1>7, <1>17, <3>1, <3>2
  <2> QED BY <1>12, <1>13, <1>17, <2>1, <2>2
<1>18. IsFiniteSet(z.rows) /\ Cardinality(z.rows) = m + n
  BY <1>14, <1>15
<1>19. ASSUME NEW x \in z.rows
       PROVE  /\ x.key = KeyOf(z) /\ x.order = z.p.order /\ x.pipeline = z.pipeline
              /\ \E i \in 1 .. Cardinality(z.rows) : x.id = BonusId(z, i)
  <2>1. PICK i \in 1 .. m + n : x.id = BonusId(s, i)
    BY <1>15, <1>16
  <2>2. x.id = BonusId(z, i) /\ i \in 1 .. Cardinality(z.rows)
    BY <1>15, <1>18, <2>1
  <2> QED BY <1>15, <1>16, <2>2
<1>20. \A x, y \in z.rows : x.id = y.id => x = y
  BY <1>15, <1>17
<1> QED BY <1>18, <1>19, <1>20 DEF Numbered

LEMMA RowFields ==
  ASSUME NEW s, NEW n, NEW type, NEW level, NEW x, x = Row(s, n, type, level)
  PROVE  /\ x.id = BonusId(s, Cardinality(s.rows) + n) /\ x.key = KeyOf(s) /\ x.order = s.p.order
         /\ x.pipeline = s.pipeline /\ x.type = type /\ x.level = level /\ Levels(x) = <<type, level>>
BY DEF Row, Levels

LEMMA RowTyped ==
  ASSUME NEW s \in Request, s.p \in Payloads, Numbered(s), NEW n \in Nat, NEW type \in Types, NEW level \in Nat
  PROVE  Row(s, n, type, level) \in BonusRow
<1>1. Cardinality(s.rows) \in Nat /\ s.pipeline \in Nat
  BY FS_CardinalityType DEF Numbered, Request
<1>2. BonusId(s, Cardinality(s.rows) + n) \in Nat \X Nat
  BY <1>1 DEF BonusId
<1>3. KeyOf(s) \in ScopedKeys /\ s.p.order \in Orders
  BY DEF KeyOf, ScopedKeys, Orders
<1> QED BY <1>1, <1>2, <1>3 DEF Row, BonusRow

(* A rule pays n bonuses, the lth of type T[l] and level V[l].             *)
Pays(n, T, V) == \A l \in 1 .. n : T[l] \in Types /\ V[l] \in Nat
Applied(s, n, T, V) == [s EXCEPT !.rows = s.rows \cup {Row(s, l, T[l], V[l]) : l \in 1 .. n}]
Differ(s, n, T, V) ==
  /\ \A l \in 1 .. n : <<T[l], V[l]>> \notin Paid(s.rows)
  /\ \A k, l \in 1 .. n : <<T[k], V[k]>> = <<T[l], V[l]>> => k = l

Grows(s, z) ==
  /\ z \in Request /\ Numbered(z)
  /\ z.p = s.p /\ z.step = s.step /\ z.newKey = s.newKey /\ z.tries = s.tries /\ z.pipeline = s.pipeline

LEMMA RuleApplied ==
  ASSUME NEW s \in Request, s.p \in Payloads, Numbered(s), NEW n \in Nat, NEW T, NEW V, Pays(n, T, V),
         NEW z, z = Applied(s, n, T, V)
  PROVE  /\ Grows(s, z)
         /\ Paid(z.rows) = Paid(s.rows) \cup {<<T[l], V[l]>> : l \in 1 .. n}
         /\ Once(s.rows) /\ Differ(s, n, T, V) => Once(z.rows)
<1> USE DEF Pays, Applied
<1>1. PICK R : R = [l \in 1 .. n |-> Row(s, l, T[l], V[l])]
  OBVIOUS
<1>2. PICK b : b = {R[l] : l \in 1 .. n}
  OBVIOUS
<1>3. {Row(s, l, T[l], V[l]) : l \in 1 .. n} = b
  BY <1>1, <1>2
<1>4. \A l \in 1 .. n : R[l] = Row(s, l, T[l], V[l])
  BY <1>1
<1>5. b \subseteq BonusRow
  <2> SUFFICES ASSUME NEW l \in 1 .. n PROVE R[l] \in BonusRow
    BY <1>2
  <2> QED BY <1>4, RowTyped
<1>6. /\ z \in Request /\ z.rows = s.rows \cup b
      /\ z.p = s.p /\ z.step = s.step /\ z.newKey = s.newKey /\ z.tries = s.tries /\ z.pipeline = s.pipeline
  BY <1>3, <1>5 DEF Request
<1>7. ASSUME NEW l \in 1 .. n
      PROVE  /\ R[l].id = BonusId(s, Cardinality(s.rows) + l) /\ R[l].key = KeyOf(s) /\ R[l].order = s.p.order
             /\ R[l].pipeline = s.pipeline /\ Levels(R[l]) = <<T[l], V[l]>>
  BY <1>4, RowFields
<1>8. Numbered(z)
  <2>1. s.pipeline \in Nat
    BY DEF Request
  <2>2. NextRows(s, n, R, b)
    BY <1>2, <1>7 DEF NextRows
  <2> QED BY <1>6, <2>1, <2>2, Numbering
<1>9. Paid(z.rows) = Paid(s.rows) \cup {<<T[l], V[l]>> : l \in 1 .. n}
  <2>1. Paid(z.rows) = Paid(s.rows) \cup {Levels(x) : x \in b}
    BY <1>6 DEF Paid
  <2>2. {Levels(x) : x \in b} = {<<T[l], V[l]>> : l \in 1 .. n}
    BY <1>2, <1>7
  <2> QED BY <2>1, <2>2
<1>10. ASSUME Once(s.rows), Differ(s, n, T, V), NEW x \in z.rows, NEW y \in z.rows, Levels(x) = Levels(y)
       PROVE  x = y
  <2>1. \A v \in b : \E l \in 1 .. n : v = R[l] /\ Levels(v) = <<T[l], V[l]>>
    BY <1>2, <1>7
  <2>2. \A v \in s.rows : Levels(v) \in Paid(s.rows)
    BY DEF Paid
  <2>3. CASE x \in s.rows /\ y \in s.rows
    BY <1>10, <2>3 DEF Once
  <2>4. CASE x \in b /\ y \in b
    BY <1>10, <2>1, <2>4 DEF Differ
  <2>5. CASE (x \in b /\ y \in s.rows) \/ (x \in s.rows /\ y \in b)
    BY <1>10, <2>1, <2>2, <2>5 DEF Differ
  <2> QED BY <1>6, <2>3, <2>4, <2>5
<1> QED BY <1>6, <1>8, <1>9, <1>10 DEF Once, Grows

LEMMA DistributedApplied ==
  ASSUME NEW s \in Request, s.p \in Payloads, Numbered(s), NEW type \in Types, NEW n \in Nat,
         NEW z, z = Distributed(s, type, n)
  PROVE  /\ Grows(s, z)
         /\ Paid(z.rows) = Paid(s.rows) \cup ({type} \X (1 .. n))
         /\ Once(s.rows) /\ (\A v : <<type, v>> \notin Paid(s.rows)) => Once(z.rows)
<1>1. PICK T : T = [l \in 1 .. n |-> type]
  OBVIOUS
<1>2. PICK V : V = [l \in 1 .. n |-> l]
  OBVIOUS
<1>3. \A l \in 1 .. n : T[l] = type /\ V[l] = l /\ l \in Nat
  BY <1>1, <1>2
<1>4. {Row(s, l, type, l) : l \in 1 .. n} = {Row(s, l, T[l], V[l]) : l \in 1 .. n}
  BY <1>3
<1>5. z = Applied(s, n, T, V)
  BY <1>4 DEF Distributed, Applied
<1>6. Pays(n, T, V)
  BY <1>3 DEF Pays
<1>7. /\ Grows(s, z)
      /\ Paid(z.rows) = Paid(s.rows) \cup {<<T[l], V[l]>> : l \in 1 .. n}
      /\ Once(s.rows) /\ Differ(s, n, T, V) => Once(z.rows)
  BY <1>5, <1>6, RuleApplied
<1>8. {<<T[l], V[l]>> : l \in 1 .. n} = {type} \X (1 .. n)
  BY <1>3
<1>9. (\A v : <<type, v>> \notin Paid(s.rows)) => Differ(s, n, T, V)
  BY <1>3 DEF Differ
<1> QED BY <1>7, <1>8, <1>9

LEMMA Joined ==
  ASSUME NEW S, NEW s \in Seq(S), NEW e \in S, NEW z, z = s \o <<e>>
  PROVE  /\ z \in Seq(S) /\ Len(s) \in Nat /\ Len(z) = Len(s) + 1
         /\ z[Len(s) + 1] = e /\ \A i \in 1 .. Len(s) : z[i] = s[i]
<1>1. PICK a : a = <<e>>
  OBVIOUS
<1>2. a \in Seq(S) /\ Len(a) = 1 /\ a[1] = e
  BY <1>1
<1>3. /\ s \o a \in Seq(S) /\ Len(s \o a) = Len(s) + Len(a)
      /\ \A i \in 1 .. Len(s) + Len(a) : (s \o a)[i] = IF i <= Len(s) THEN s[i] ELSE a[i - Len(s)]
  BY <1>2, ConcatProperties
<1>4. Len(s) \in Nat
  OBVIOUS
<1>5. Len(s) + 1 \in 1 .. Len(s) + Len(a) /\ Len(s) + 1 - Len(s) = 1 /\ 1 .. Len(s) \subseteq 1 .. Len(s) + Len(a)
  BY <1>2, <1>4
<1>6. (s \o a)[Len(s) + 1] = e
  BY <1>2, <1>3, <1>4, <1>5
<1>7. \A i \in 1 .. Len(s) : (s \o a)[i] = s[i]
  BY <1>3, <1>4, <1>5
<1> QED BY <1>1, <1>2, <1>3, <1>4, <1>6, <1>7

DirectOnes == {"share", "center", "center_referral"}

(* The direct bonuses differ in type.                                      *)
LEMMA DirectTypesOf ==
  ASSUME NEW p
  PROVE  /\ DirectTypes(p) \in Seq(DirectOnes)
         /\ \A i, j \in DOMAIN DirectTypes(p) : DirectTypes(p)[i] = DirectTypes(p)[j] => i = j
<1>1. PICK a : a = <<"share">>
  OBVIOUS
<1>2. a \in Seq(DirectOnes) /\ Len(a) = 1 /\ a[1] = "share"
  BY <1>1 DEF DirectOnes
<1>3. PICK b : b = a \o (IF "center" \in p.centers THEN <<"center">> ELSE <<>>)
  OBVIOUS
<1>4. PICK c : c = b \o (IF "center_referral" \in p.centers THEN <<"center_referral">> ELSE <<>>)
  OBVIOUS
<1>5. /\ b \in Seq(DirectOnes) /\ Len(b) \in Nat /\ \A i \in 1 .. Len(b) : b[i] # "center_referral"
      /\ \A i, j \in 1 .. Len(b) : b[i] = b[j] => i = j
  <2>1. CASE "center" \in p.centers
    <3>1. b = a \o <<"center">>
      BY <1>3, <2>1
    <3>2. "center" \in DirectOnes
      BY DEF DirectOnes
    <3>3. /\ b \in Seq(DirectOnes) /\ Len(b) = Len(a) + 1 /\ b[Len(a) + 1] = "center"
          /\ \A i \in 1 .. Len(a) : b[i] = a[i]
      BY <1>2, <3>1, <3>2, Joined
    <3>4. Len(b) = 2 /\ b[1] = "share" /\ b[2] = "center"
      BY <1>2, <3>3
    <3>5. \A i \in 1 .. Len(b) : i = 1 \/ i = 2
      BY <3>4
    <3> QED BY <3>3, <3>4, <3>5
  <2>2. CASE "center" \notin p.centers
    <3>1. b = a
      <4>1. b = a \o <<>>
        BY <1>3, <2>2
      <4> QED BY <1>2, <4>1, ConcatEmptySeq
    <3>2. Len(b) = 1 /\ b[1] = "share" /\ b \in Seq(DirectOnes)
      BY <1>2, <3>1
    <3>3. \A i \in 1 .. Len(b) : i = 1
      BY <3>2
    <3> QED BY <3>2, <3>3
  <2> QED BY <2>1, <2>2
<1>6. c \in Seq(DirectOnes) /\ \A i, j \in 1 .. Len(c) : c[i] = c[j] => i = j
  <2>1. CASE "center_referral" \in p.centers
    <3>1. c = b \o <<"center_referral">>
      BY <1>4, <2>1
    <3>2. "center_referral" \in DirectOnes
      BY DEF DirectOnes
    <3>3. /\ c \in Seq(DirectOnes) /\ Len(c) = Len(b) + 1 /\ c[Len(b) + 1] = "center_referral"
          /\ \A i \in 1 .. Len(b) : c[i] = b[i]
      BY <1>5, <3>1, <3>2, Joined
    <3>4. \A i \in 1 .. Len(c) : i \in 1 .. Len(b) \/ i = Len(b) + 1
      BY <1>5, <3>3
    <3> QED BY <1>5, <3>3, <3>4
  <2>2. CASE "center_referral" \notin p.centers
    <3>1. c = b
      <4>1. c = b \o <<>>
        BY <1>4, <2>2
      <4> QED BY <1>5, <4>1, ConcatEmptySeq
    <3> QED BY <1>5, <3>1
  <2> QED BY <2>1, <2>2
<1>7. DirectTypes(p) = c
  BY <1>1, <1>3, <1>4 DEF DirectTypes
<1>8. DOMAIN c = 1 .. Len(c)
  BY <1>6
<1> QED BY <1>6, <1>7, <1>8

LEMMA DirectApplied ==
  ASSUME NEW s \in Request, s.p \in Payloads, Numbered(s), NEW z, z = Direct(s)
  PROVE  /\ Grows(s, z)
         /\ Paid(z.rows) = Paid(s.rows) \cup {<<DirectTypes(s.p)[i], 0>> : i \in DOMAIN DirectTypes(s.p)}
         /\ Once(s.rows) /\ (\A t \in DirectOnes : \A v : <<t, v>> \notin Paid(s.rows)) => Once(z.rows)
<1>1. PICK T : T = DirectTypes(s.p)
  OBVIOUS
<1>2. PICK n : n = Len(T)
  OBVIOUS
<1>3. /\ T \in Seq(DirectOnes) /\ n \in Nat /\ DOMAIN T = 1 .. n
      /\ \A i, j \in 1 .. n : T[i] = T[j] => i = j
  BY <1>1, <1>2, DirectTypesOf
<1>4. PICK V : V = [l \in 1 .. n |-> 0]
  OBVIOUS
<1>5. \A l \in 1 .. n : T[l] \in DirectOnes /\ T[l] \in Types /\ V[l] = 0
  <2>1. DirectOnes \subseteq Types
    BY DEF DirectOnes, Types
  <2> QED BY <1>3, <1>4, <2>1
<1>6. {Row(s, i, T[i], 0) : i \in DOMAIN T} = {Row(s, l, T[l], V[l]) : l \in 1 .. n}
  BY <1>3, <1>5
<1>7. z = Applied(s, n, T, V)
  <2>1. z = [s EXCEPT !.rows = s.rows \cup {Row(s, i, T[i], 0) : i \in DOMAIN T}]
    BY <1>1 DEF Direct
  <2>2. PICK r : r = {Row(s, i, T[i], 0) : i \in DOMAIN T}
    OBVIOUS
  <2>3. z = [s EXCEPT !.rows = s.rows \cup r]
    BY <2>1, <2>2
  <2>4. r = {Row(s, l, T[l], V[l]) : l \in 1 .. n}
    BY <1>6, <2>2
  <2>5. Applied(s, n, T, V) = [s EXCEPT !.rows = s.rows \cup r]
    BY <2>4 DEF Applied
  <2> QED BY <2>3, <2>5
<1>8. Pays(n, T, V)
  BY <1>5 DEF Pays
<1>9. /\ Grows(s, z)
      /\ Paid(z.rows) = Paid(s.rows) \cup {<<T[l], V[l]>> : l \in 1 .. n}
      /\ Once(s.rows) /\ Differ(s, n, T, V) => Once(z.rows)
  BY <1>3, <1>7, <1>8, RuleApplied
<1>10. {<<T[l], V[l]>> : l \in 1 .. n} = {<<T[i], 0>> : i \in DOMAIN T}
  BY <1>3, <1>5
<1>11. (\A t \in DirectOnes : \A v : <<t, v>> \notin Paid(s.rows)) => Differ(s, n, T, V)
  BY <1>3, <1>5 DEF Differ
<1> QED BY <1>1, <1>9, <1>10, <1>11

-----------------------------------------------------------------------------
(* The fields of a request but its rows.                                   *)
LEMMA Stepped ==
  ASSUME NEW s \in Request, Numbered(s), NEW z \in Request, z.p = s.p, z.pipeline = s.pipeline, z.rows = s.rows
  PROVE  Numbered(z)
<1>1. KeyOf(z) = KeyOf(s) /\ \A n : BonusId(z, n) = BonusId(s, n)
  BY DEF KeyOf, BonusId
<1> QED BY <1>1 DEF Numbered

(* A request ends without a commit.                                        *)
LEMMA RaiseSound ==
  ASSUME NEW s \in Request, Numbered(s), s.p \in Payloads, s.newKey, NEW z, z = [s EXCEPT !.step = "raise"], NEW n
  PROVE  SoundAt(z, n)
<1>1. /\ z \in Request /\ z.p = s.p /\ z.pipeline = s.pipeline /\ z.rows = s.rows /\ z.newKey = s.newKey
      /\ z.step = "raise"
  BY DEF Request
<1>2. Numbered(z)
  BY <1>1, Stepped
<1> QED BY <1>1, <1>2 DEF SoundAt

(* The next attempt, or the end: for a buyer in both trees only a fault     *)
(* leads here.                                                             *)
LEMMA RetriedSound ==
  ASSUME NEW s \in Request, Numbered(s), s.p \in Payloads, s.newKey, s.tries < Attempts, s.step = "attempt",
         NEW error, NEW n, NEW z, z = Retried(s, error),
         InBothTrees(s.p.user) =>
           /\ error # "ValueError" /\ n # 0
           /\ Paid(s.rows) \subseteq {"recommend"} \X (1 .. Unilevel[s.p.user])
  PROVE  SoundAt(z, n)
<1>1. PICK step : step = IF s.tries + 1 < Attempts THEN "attempt" ELSE IF error = "ValueError" THEN "finish" ELSE "raise"
  OBVIOUS
<1>2. PICK tries : tries = s.tries + 1
  OBVIOUS
<1>3. /\ tries \in 0 .. Attempts /\ step \in {"attempt", "finish", "raise"}
      /\ step = "attempt" => tries < Attempts
      /\ step = "finish" => error = "ValueError"
  BY <1>1, <1>2, OrdersAssumption DEF Request
<1>4. z = [s EXCEPT !.tries = tries, !.step = step]
  BY <1>1, <1>2 DEF Retried
<1>5. /\ z \in Request /\ z.p = s.p /\ z.pipeline = s.pipeline /\ z.rows = s.rows /\ z.newKey = s.newKey
      /\ z.step = step /\ z.tries = tries
  BY <1>3, <1>4 DEF Request
<1>6. Numbered(z)
  BY <1>5, Stepped
<1>7. step # "idle"
  BY <1>3
<1> QED BY <1>3, <1>5, <1>6, <1>7 DEF SoundAt

LEMMA AttemptedSound ==
  ASSUME NEW n, NEW s, SoundAt(s, n), s.step = "attempt", NEW z, z = Attempted([s EXCEPT !.flushed = TRUE])
  PROVE  SoundAt(z, n)
<1>1. PICK r : r = [s EXCEPT !.flushed = TRUE]
  OBVIOUS
<1>2. /\ s \in Request /\ Numbered(s) /\ s.p \in Payloads /\ s.newKey /\ s.tries < Attempts
      /\ InBothTrees(s.p.user) =>
           /\ Paid(s.rows) \subseteq {"recommend"} \X (1 .. Unilevel[s.p.user])
           /\ n = 0 => s.rows = {}
  BY DEF SoundAt
<1>3. /\ r \in Request /\ r.p = s.p /\ r.pipeline = s.pipeline /\ r.rows = s.rows /\ r.newKey = s.newKey
      /\ r.step = "attempt" /\ r.tries = s.tries
  BY <1>1, <1>2 DEF Request
<1>4. Numbered(r)
  BY <1>2, <1>3, Stepped
<1>5. PICK up : up = Unilevel[s.p.user]
  OBVIOUS
<1>6. PICK line : line = Binary[s.p.user]
  OBVIOUS
<1>7. up \in Nat \cup {Unregistered} /\ line \in Nat \cup {Unregistered} /\ Unregistered \notin Nat
      /\ (InBothTrees(s.p.user) <=> up # Unregistered /\ line # Unregistered)
  BY <1>2, <1>5, <1>6, OrdersAssumption DEF InBothTrees, Unregistered
<1>8. PICK recommended : recommended = Distributed(r, "recommend", up)
  OBVIOUS
<1>9. PICK sponsored : sponsored = Distributed(recommended, "sponsor", line)
  OBVIOUS
<1>10. /\ Collides(r) => z = [r EXCEPT !.step = "raise"]
       /\ ~Collides(r) /\ up = Unregistered => z = Retried(r, "ValueError")
       /\ ~Collides(r) /\ up # Unregistered /\ Collides(recommended) => z = [recommended EXCEPT !.step = "raise"]
       /\ ~Collides(r) /\ up # Unregistered /\ ~Collides(recommended) /\ line = Unregistered =>
            z = Retried(recommended, "ValueError")
       /\ ~Collides(r) /\ up # Unregistered /\ ~Collides(recommended) /\ line # Unregistered =>
            z = [Direct(sponsored) EXCEPT !.step = "finish"]
  <2> HIDE DEF Collides
  <2> QED BY <1>1, <1>3, <1>5, <1>6, <1>8, <1>9 DEF Attempted
<1>11. CASE Collides(r)
  BY <1>2, <1>3, <1>4, <1>10, <1>11, RaiseSound
<1>12. CASE ~Collides(r) /\ up = Unregistered
  <2>1. z = Retried(r, "ValueError") /\ ~InBothTrees(r.p.user)
    BY <1>3, <1>7, <1>10, <1>12
  <2> QED BY <1>2, <1>3, <1>4, <2>1, RetriedSound
<1>13. CASE ~Collides(r) /\ up # Unregistered
  <2>1. up \in Nat /\ "recommend" \in Types /\ "sponsor" \in Types
    BY <1>7, <1>13 DEF Types
  <2>2. /\ Grows(r, recommended)
        /\ Paid(recommended.rows) = Paid(r.rows) \cup ({"recommend"} \X (1 .. up))
        /\ Once(r.rows) /\ (\A v : <<"recommend", v>> \notin Paid(r.rows)) => Once(recommended.rows)
    BY <1>2, <1>3, <1>4, <1>8, <2>1, DistributedApplied
  <2>3. /\ recommended \in Request /\ Numbered(recommended) /\ recommended.p = s.p /\ recommended.newKey
        /\ recommended.tries < Attempts /\ recommended.step = "attempt"
    BY <1>2, <1>3, <2>2 DEF Grows
  <2>4. CASE Collides(recommended)
    BY <1>2, <1>10, <1>13, <2>3, <2>4, RaiseSound
  <2>5. CASE ~Collides(recommended) /\ line = Unregistered
    <3>1. z = Retried(recommended, "ValueError") /\ ~InBothTrees(recommended.p.user)
      BY <1>7, <1>10, <1>13, <2>3, <2>5
    <3> QED BY <1>2, <2>3, <3>1, RetriedSound
  <2>6. CASE ~Collides(recommended) /\ line # Unregistered
    <3>1. line \in Nat
      BY <1>7, <2>6
    <3>2. /\ Grows(recommended, sponsored)
          /\ Paid(sponsored.rows) = Paid(recommended.rows) \cup ({"sponsor"} \X (1 .. line))
          /\ Once(recommended.rows) /\ (\A v : <<"sponsor", v>> \notin Paid(recommended.rows)) => Once(sponsored.rows)
      BY <1>2, <1>9, <2>1, <2>3, <3>1, DistributedApplied
    <3>3. sponsored \in Request /\ Numbered(sponsored) /\ sponsored.p = s.p /\ sponsored.newKey
      BY <2>3, <3>2 DEF Grows
    <3>4. PICK d : d = Direct(sponsored)
      OBVIOUS
    <3>5. /\ Grows(sponsored, d)
          /\ Paid(d.rows) = Paid(sponsored.rows) \cup {<<DirectTypes(s.p)[i], 0>> : i \in DOMAIN DirectTypes(s.p)}
          /\ Once(sponsored.rows) /\ (\A t \in DirectOnes : \A v : <<t, v>> \notin Paid(sponsored.rows)) => Once(d.rows)
      BY <1>2, <3>3, <3>4, DirectApplied
    <3>6. z = [d EXCEPT !.step = "finish"]
      BY <1>10, <1>13, <2>6, <3>4
    <3>7. d \in Request /\ Numbered(d) /\ d.p = s.p /\ d.newKey
      BY <3>3, <3>5 DEF Grows
    <3>8. /\ z \in Request /\ z.p = s.p /\ z.pipeline = d.pipeline /\ z.rows = d.rows /\ z.newKey /\ z.step = "finish"
      BY <3>6, <3>7 DEF Request
    <3>9. Numbered(z)
      BY <3>7, <3>8, Stepped
    <3>10. ASSUME InBothTrees(s.p.user) PROVE Paid(z.rows) = Due(s.p)
      <4>1. Paid(r.rows) \subseteq {"recommend"} \X (1 .. up)
        BY <1>2, <1>3, <1>5, <3>10
      <4>2. Paid(recommended.rows) = {"recommend"} \X (1 .. up)
        BY <2>2, <4>1
      <4>3. Due(s.p) = ({"recommend"} \X (1 .. up)) \cup ({"sponsor"} \X (1 .. line))
                         \cup {<<DirectTypes(s.p)[i], 0>> : i \in DOMAIN DirectTypes(s.p)}
        BY <1>5, <1>6 DEF Due
      <4> QED BY <3>2, <3>5, <3>8, <4>2, <4>3
    <3>11. ASSUME InBothTrees(s.p.user), n = 0 PROVE Once(z.rows)
      <4>1. Paid(r.rows) = {} /\ Once(r.rows)
        BY <1>2, <1>3, <3>11 DEF Paid, Once
      <4>2. Once(recommended.rows) /\ Paid(recommended.rows) = {"recommend"} \X (1 .. up)
        BY <2>2, <4>1
      <4>3. Once(sponsored.rows)
        BY <3>2, <4>2
      <4>4. \A t \in DirectOnes : \A v : <<t, v>> \notin Paid(sponsored.rows)
        BY <3>2, <4>2 DEF DirectOnes
      <4> QED BY <3>5, <3>8, <4>3, <4>4
    <3> QED BY <1>2, <3>8, <3>9, <3>10, <3>11 DEF SoundAt
  <2> QED BY <2>4, <2>5, <2>6
<1> QED BY <1>11, <1>12, <1>13

(* A fault in an attempt, before or after its recommend bonuses.           *)
LEMMA FailedSound ==
  ASSUME NEW s \in Request, Numbered(s), s.p \in Payloads, s.newKey, s.tries < Attempts, s.step = "attempt",
         InBothTrees(s.p.user) => Paid(s.rows) \subseteq {"recommend"} \X (1 .. Unilevel[s.p.user]),
         NEW up, up = Unilevel[s.p.user], up # Unregistered, NEW recommended, recommended = Distributed(s, "recommend", up),
         NEW n, n # 0, NEW z, z = Retried(recommended, "Error")
  PROVE  SoundAt(z, n)
<1>1. up \in Nat /\ "recommend" \in Types
  BY OrdersAssumption DEF Types
<1>2. Grows(s, recommended) /\ Paid(recommended.rows) = Paid(s.rows) \cup ({"recommend"} \X (1 .. up))
  BY <1>1, DistributedApplied
<1>3. /\ recommended \in Request /\ Numbered(recommended) /\ recommended.p = s.p /\ recommended.newKey
      /\ recommended.tries < Attempts /\ recommended.step = "attempt"
  BY <1>2 DEF Grows
<1>4. InBothTrees(s.p.user) => Paid(recommended.rows) \subseteq {"recommend"} \X (1 .. Unilevel[s.p.user])
  BY <1>2
<1>5. "Error" # "ValueError"
  OBVIOUS
<1> QED BY <1>3, <1>4, <1>5, RetriedSound

LEMMA IdleSound == ASSUME NEW n PROVE Idle \in Request /\ SoundAt(Idle, n)
<1>1. PICK z : z = Idle
  OBVIOUS
<1>2. /\ z.step = "idle" /\ z.rows = {} /\ z.tries = 0
      /\ z = [step |-> "idle", p |-> Nothing, pipeline |-> 0, newKey |-> FALSE, newOrder |-> FALSE,
              flushed |-> FALSE, rows |-> {}, tries |-> 0]
  BY <1>1 DEF Idle
<1>3. 0 \in 0 .. Attempts
  BY OrdersAssumption
<1>4. z \in Request
  BY <1>2, <1>3 DEF Request
<1>5. Numbered(z)
  BY <1>2, FS_EmptySet DEF Numbered
<1> QED BY <1>1, <1>2, <1>4, <1>5 DEF SoundAt

LEMMA InitIInv == Init => IInv
<1> SUFFICES ASSUME Init PROVE IInv
  OBVIOUS
<1>1. Typed
  BY IdleSound DEF Init, Typed
<1>2. KeysHold /\ IdsHold
  BY DEF Init, KeysHold, IdsHold, RowsOf
<1>3. OrdersHold
  BY DEF Init, OrdersHold
<1>4. \A w \in Workers : Sound(session[w])
  BY IdleSound DEF Init, Sound
<1> QED BY <1>1, <1>2, <1>3, <1>4 DEF IInv

LEMMA SoundMore ==
  ASSUME NEW s, NEW m \in Nat, SoundAt(s, m), NEW n, n = m \/ n = m + 1
  PROVE  SoundAt(s, n)
<1>1. n = 0 => m = 0
  OBVIOUS
<1> QED BY <1>1 DEF SoundAt

(* A step that commits nothing.                                            *)
LEMMA SessionStep ==
  ASSUME IInv, NEW w \in Workers, NEW z, SoundAt(z, faults'), session' = [session EXCEPT ![w] = z], UNCHANGED tables,
         begun' \in Nat, faults' = faults \/ faults' = faults + 1
  PROVE  IInv'
<1>1. key' = key /\ order' = order /\ bonus' = bonus
  BY DEF tables
<1>2. faults \in Nat /\ faults' \in Nat /\ (faults' = 0 => faults = 0)
  BY DEF IInv, Typed
<1>3. Typed'
  BY <1>1, <1>2 DEF IInv, Typed, SoundAt
<1>4. \A k : RowsOf(k)' = RowsOf(k)
  BY <1>1 DEF RowsOf
<1>5. KeysHold'
  BY <1>1, <1>2, <1>4 DEF IInv, KeysHold
<1>6. OrdersHold' /\ IdsHold'
  BY <1>1 DEF IInv, OrdersHold, IdsHold
<1>7. \A v \in Workers : Sound(session[v])'
  <2> TAKE v \in Workers
  <2>1. PICK o : o = session'[v]
    OBVIOUS
  <2>2. o = z \/ (o = session[v] /\ SoundAt(o, faults))
    BY <2>1 DEF IInv, Typed, Sound
  <2>3. SoundAt(o, faults')
    BY <1>2, <2>2, SoundMore
  <2> QED BY <2>1, <2>3 DEF Sound
<1> QED BY <1>3, <1>5, <1>6, <1>7 DEF IInv

LEMMA BeginStep ==
  ASSUME IInv, NEW w \in Workers, NEW p \in Payloads, Begin(w, p)
  PROVE  IInv'
<1>1. PICK k : k = <<p.user, p.key>>
  OBVIOUS
<1>2. k \in ScopedKeys
  BY <1>1 DEF ScopedKeys
<1>3. key[k].status = "absent"
  BY <1>1, <1>2 DEF IInv, Typed, Begin, Accepted
<1>4. PICK fresh : fresh = (order[p.order] = Nothing)
  OBVIOUS
<1>5. PICK z : z = [Idle EXCEPT !.step = "attempt", !.p = p, !.pipeline = begun + 1, !.newKey = TRUE, !.newOrder = fresh]
  OBVIOUS
<1>6. /\ begun' = begun + 1 /\ UNCHANGED tables /\ faults' = faults
      /\ session' = [session EXCEPT ![w] = [Idle EXCEPT !.step = "attempt", !.p = p, !.pipeline = begun',
                                                        !.newKey = key[k].status = "absent",
                                                        !.newOrder = order[p.order] = Nothing]]
  BY <1>1 DEF Begin, Continue
<1>7. session' = [session EXCEPT ![w] = z]
  <2>1. (key[k].status = "absent") = TRUE
    BY <1>3
  <2> QED BY <1>4, <1>5, <1>6, <2>1
<1>8. begun + 1 \in Nat /\ begun' \in Nat
  BY <1>6 DEF IInv, Typed
<1>9. fresh \in BOOLEAN
  BY <1>4
<1>10. /\ z \in Request /\ z.step = "attempt" /\ z.p = p /\ z.newKey /\ z.tries = 0 /\ z.rows = {}
  <2>1. Idle \in Request /\ Idle.rows = {} /\ Idle.tries = 0
    BY IdleSound DEF Idle
  <2> HIDE DEF Idle
  <2> QED BY <1>5, <1>8, <1>9, <2>1 DEF Request
<1>11. SoundAt(z, faults')
  <2>1. Numbered(z)
    BY <1>10, FS_EmptySet DEF Numbered
  <2>2. Paid({}) = {}
    BY DEF Paid
  <2> QED BY <1>10, <2>1, <2>2, OrdersAssumption DEF SoundAt
<1> QED BY <1>6, <1>7, <1>8, <1>11, SessionStep

LEMMA CommitStep ==
  ASSUME IInv, NEW w \in Workers, NEW s, s = session[w], s.step = "finish", ~Collides(s),
         key' = [key EXCEPT ![KeyOf(s)] = [status |-> "SUCCEEDED", payload |-> s.p]],
         order' = [order EXCEPT ![s.p.order] = s.p], bonus' = bonus \cup s.rows,
         session' = [session EXCEPT ![w] = Idle], UNCHANGED <<begun, faults>>
  PROVE  IInv'
<1>1. /\ s \in Request /\ Numbered(s) /\ s.p \in Payloads /\ s.newKey
      /\ InBothTrees(s.p.user) => Paid(s.rows) = Due(s.p) /\ (faults = 0 => Once(s.rows))
  BY DEF IInv, Sound, SoundAt
<1>2. PICK c : c = KeyOf(s)
  OBVIOUS
<1>3. c \in ScopedKeys /\ s.p.order \in Orders /\ c = <<s.p.user, s.p.key>>
  BY <1>1, <1>2 DEF KeyOf, ScopedKeys, Orders
<1>4. key[c].status = "absent" /\ \A x \in s.rows, y \in bonus : x.id # y.id
  BY <1>1, <1>2 DEF Collides
<1>5. /\ key'[c] = [status |-> "SUCCEEDED", payload |-> s.p] /\ \A k \in ScopedKeys \ {c} : key'[k] = key[k]
      /\ order'[s.p.order] = s.p /\ \A o \in Orders \ {s.p.order} : order'[o] = order[o]
  BY <1>2, <1>3 DEF IInv, Typed
<1>6. \A x \in s.rows : x.key = c /\ x.order = s.p.order /\ x.pipeline = s.pipeline
  BY <1>1, <1>2 DEF Numbered
<1>7. RowsOf(c)' = s.rows
  <2>1. RowsOf(c) = {}
    BY <1>3, <1>4 DEF IInv, KeysHold
  <2> QED BY <1>6, <2>1 DEF RowsOf
<1>8. \A k \in ScopedKeys \ {c} : RowsOf(k)' = RowsOf(k)
  BY <1>6 DEF RowsOf
<1>9. Typed'
  <2>1. key' \in [ScopedKeys -> [status : {"absent", "SUCCEEDED"}, payload : Payloads \cup {Nothing}]]
    BY <1>1, <1>2, <1>3 DEF IInv, Typed
  <2>2. order' \in [Orders -> Payloads \cup {Nothing}]
    BY <1>1, <1>3 DEF IInv, Typed
  <2>3. bonus' \subseteq BonusRow
    BY <1>1 DEF IInv, Typed, Request
  <2>4. session' \in [Workers -> Request]
    BY IdleSound DEF IInv, Typed
  <2> QED BY <2>1, <2>2, <2>3, <2>4 DEF IInv, Typed
<1>10. s.p # Nothing
  BY <1>1, OrdersAssumption
<1>11. KeysHold'
  <2> SUFFICES ASSUME NEW k \in ScopedKeys
               PROVE  IF key'[k].status = "absent" THEN RowsOf(k)' = {}
                      ELSE /\ key'[k].payload \in Payloads /\ order'[key'[k].payload.order] # Nothing
                           /\ \A x, y \in RowsOf(k)' : x.pipeline = y.pipeline
                           /\ \A x \in RowsOf(k)' : x.order = key'[k].payload.order
                           /\ InBothTrees(key'[k].payload.user) =>
                                /\ Paid(RowsOf(k)') = Due(key'[k].payload)
                                /\ faults = 0 => IsFiniteSet(RowsOf(k)') /\ Once(RowsOf(k)')
    BY DEF KeysHold, Paid, Once, Levels
  <2>1. CASE k = c
    <3>1. key'[k].status = "SUCCEEDED" /\ key'[k].payload = s.p /\ RowsOf(k)' = s.rows
      BY <1>5, <1>7, <2>1
    <3>2. IsFiniteSet(s.rows)
      BY <1>1 DEF Numbered
    <3> QED BY <1>1, <1>5, <1>6, <1>10, <3>1, <3>2
  <2>2. CASE k # c
    <3>1. key'[k] = key[k] /\ RowsOf(k)' = RowsOf(k)
      BY <1>5, <1>8, <2>2
    <3>2. key[k].status # "absent" => key[k].payload \in Payloads /\ order'[key[k].payload.order] # Nothing
      <4> SUFFICES ASSUME key[k].status # "absent"
                   PROVE  key[k].payload \in Payloads /\ order'[key[k].payload.order] # Nothing
        OBVIOUS
      <4>1. key[k].payload \in Payloads /\ order[key[k].payload.order] # Nothing
        BY DEF IInv, KeysHold
      <4>2. key[k].payload.order \in Orders
        BY <4>1 DEF Orders
      <4> QED BY <1>5, <1>10, <4>1, <4>2
    <3> QED BY <3>1, <3>2 DEF IInv, KeysHold
  <2> QED BY <2>1, <2>2
<1>12. OrdersHold'
  <2> SUFFICES ASSUME NEW o \in Orders, order'[o] # Nothing
               PROVE  key'[KeyOf([p |-> order'[o]])] = [status |-> "SUCCEEDED", payload |-> order'[o]]
    BY DEF OrdersHold, KeyOf
  <2>1. \A x : KeyOf([p |-> x]) = <<x.user, x.key>>
    BY DEF KeyOf
  <2>2. CASE o = s.p.order
    BY <1>3, <1>5, <2>1, <2>2
  <2>3. CASE o # s.p.order
    <3>1. PICK x : x = order[o]
      OBVIOUS
    <3>2. order'[o] = x /\ x \in Payloads
      BY <1>5, <2>3, <3>1 DEF IInv, Typed
    <3>3. PICK k : k = <<x.user, x.key>>
      OBVIOUS
    <3>4. k \in ScopedKeys
      BY <3>2, <3>3 DEF ScopedKeys
    <3>5. key[k] = [status |-> "SUCCEEDED", payload |-> x]
      BY <2>1, <3>1, <3>2, <3>3 DEF IInv, OrdersHold
    <3>6. k # c
      BY <1>4, <3>5
    <3> QED BY <1>5, <2>1, <3>2, <3>3, <3>4, <3>5, <3>6
  <2> QED BY <2>2, <2>3
<1>13. IdsHold'
  BY <1>1, <1>4 DEF IInv, IdsHold, Numbered
<1>14. \A v \in Workers : Sound(session[v])'
  <2> TAKE v \in Workers
  <2>1. PICK o : o = session'[v]
    OBVIOUS
  <2>2. o = Idle \/ SoundAt(o, faults)
    BY <2>1 DEF IInv, Typed, Sound
  <2>3. SoundAt(o, faults)
    BY <2>2, IdleSound
  <2> QED BY <2>1, <2>3 DEF Sound
<1> QED BY <1>9, <1>11, <1>12, <1>13, <1>14 DEF IInv

(* What a request at its attempt is when the attempt begins.               *)
LEMMA Flushed ==
  ASSUME NEW n, NEW s, SoundAt(s, n), s.step = "attempt", NEW r, r = [s EXCEPT !.flushed = TRUE]
  PROVE  /\ r \in Request /\ Numbered(r) /\ r.p \in Payloads /\ r.newKey /\ r.tries < Attempts /\ r.step = "attempt"
         /\ InBothTrees(r.p.user) => Paid(r.rows) \subseteq {"recommend"} \X (1 .. Unilevel[r.p.user])
<1>1. /\ s \in Request /\ Numbered(s) /\ s.p \in Payloads /\ s.newKey /\ s.tries < Attempts
      /\ InBothTrees(s.p.user) => Paid(s.rows) \subseteq {"recommend"} \X (1 .. Unilevel[s.p.user])
  BY DEF SoundAt
<1>2. /\ r \in Request /\ r.p = s.p /\ r.pipeline = s.pipeline /\ r.rows = s.rows /\ r.newKey = s.newKey
      /\ r.step = "attempt" /\ r.tries = s.tries
  BY <1>1 DEF Request
<1>3. Numbered(r)
  BY <1>1, <1>2, Stepped
<1> QED BY <1>1, <1>2, <1>3

LEMMA AttemptStep ==
  ASSUME IInv, NEW w \in Workers, Attempt(w)
  PROVE  IInv'
<1>1. PICK s : s = session[w]
  OBVIOUS
<1>2. SoundAt(s, faults) /\ s.step = "attempt"
  BY <1>1 DEF IInv, Sound, Attempt, At
<1>3. PICK z : z = Attempted([s EXCEPT !.flushed = TRUE])
  OBVIOUS
<1>4. /\ session' = [session EXCEPT ![w] = z] /\ UNCHANGED tables /\ faults' = faults /\ begun' \in Nat
  BY <1>1, <1>3 DEF Attempt, Continue, IInv, Typed
<1>5. SoundAt(z, faults')
  BY <1>2, <1>3, <1>4, AttemptedSound
<1> QED BY <1>4, <1>5, SessionStep

LEMMA AttemptFailsStep ==
  ASSUME IInv, NEW w \in Workers, AttemptFails(w)
  PROVE  IInv'
<1>1. PICK s : s = session[w]
  OBVIOUS
<1>2. SoundAt(s, faults) /\ s.step = "attempt"
  BY <1>1 DEF IInv, Sound, AttemptFails, At
<1>3. PICK r : r = [s EXCEPT !.flushed = TRUE]
  OBVIOUS
<1>4. /\ r \in Request /\ Numbered(r) /\ r.p \in Payloads /\ r.newKey /\ r.tries < Attempts /\ r.step = "attempt"
      /\ InBothTrees(r.p.user) => Paid(r.rows) \subseteq {"recommend"} \X (1 .. Unilevel[r.p.user])
  BY <1>2, <1>3, Flushed
<1>5. faults' = faults + 1 /\ faults' # 0 /\ begun' \in Nat
  BY DEF AttemptFails, Fault, IInv, Typed
<1>6. PICK up : up = Unilevel[r.p.user]
  OBVIOUS
<1>7. PICK recommended : recommended = Distributed(r, "recommend", up)
  OBVIOUS
<1>8. \/ Continue(w, Retried(r, "Error"))
      \/ up # Unregistered /\ Continue(w, Retried(recommended, "Error"))
  BY <1>1, <1>3, <1>6, <1>7 DEF AttemptFails
<1>9. CASE Continue(w, Retried(r, "Error"))
  <2>1. PICK z : z = Retried(r, "Error")
    OBVIOUS
  <2>2. "Error" # "ValueError"
    OBVIOUS
  <2>3. SoundAt(z, faults')
    BY <1>4, <1>5, <2>1, <2>2, RetriedSound
  <2> QED BY <1>5, <1>9, <2>1, <2>3, SessionStep DEF Continue
<1>10. CASE up # Unregistered /\ Continue(w, Retried(recommended, "Error"))
  <2>1. PICK z : z = Retried(recommended, "Error")
    OBVIOUS
  <2>2. SoundAt(z, faults')
    BY <1>4, <1>5, <1>6, <1>7, <1>10, <2>1, FailedSound
  <2> QED BY <1>5, <1>10, <2>1, <2>2, SessionStep DEF Continue
<1> QED BY <1>8, <1>9, <1>10

LEMMA FinishStep ==
  ASSUME IInv, NEW w \in Workers, Finish(w)
  PROVE  IInv'
<1>1. PICK s : s = session[w]
  OBVIOUS
<1>2. SoundAt(s, faults) /\ s.step = "finish" /\ begun' = begun /\ faults' = faults
  BY <1>1 DEF IInv, Sound, Finish, At
<1>3. CASE Collides(s)
  <2>1. PICK z : z = [s EXCEPT !.step = "raise"]
    OBVIOUS
  <2>2. session' = [session EXCEPT ![w] = z] /\ UNCHANGED tables
    BY <1>1, <1>3, <2>1 DEF Finish, Continue
  <2>3. s \in Request /\ Numbered(s) /\ s.p \in Payloads /\ s.newKey
    BY <1>2 DEF SoundAt
  <2>4. SoundAt(z, faults')
    BY <2>1, <2>3, RaiseSound
  <2>5. begun' \in Nat
    BY <1>2 DEF IInv, Typed
  <2> QED BY <1>2, <2>2, <2>4, <2>5, SessionStep
<1>4. CASE ~Collides(s)
  <2>1. /\ key' = [key EXCEPT ![KeyOf(s)] = [status |-> "SUCCEEDED", payload |-> s.p]]
        /\ order' = [order EXCEPT ![s.p.order] = s.p] /\ bonus' = bonus \cup s.rows
        /\ session' = [session EXCEPT ![w] = Idle]
    BY <1>1, <1>4 DEF Finish
  <2> QED BY <1>1, <1>2, <1>4, <2>1, CommitStep
<1> QED BY <1>3, <1>4

LEMMA IInvStep == ASSUME IInv, [Next]_vars PROVE IInv'
<1>1. CASE UNCHANGED vars
  <2>1. /\ key' = key /\ order' = order /\ bonus' = bonus /\ session' = session /\ begun' = begun /\ faults' = faults
    BY <1>1 DEF vars
  <2>2. Typed' /\ OrdersHold' /\ IdsHold' /\ \A w \in Workers : Sound(session[w])'
    BY <2>1 DEF IInv, Typed, OrdersHold, IdsHold, Sound
  <2>3. KeysHold'
    BY <2>1 DEF IInv, KeysHold, RowsOf
  <2> QED BY <2>2, <2>3 DEF IInv
<1>2. ASSUME NEW w \in Workers, NEW p \in Payloads, Begin(w, p) PROVE IInv'
  BY <1>2, BeginStep
<1>3. ASSUME NEW w \in Workers, Attempt(w) PROVE IInv'
  BY <1>3, AttemptStep
<1>4. ASSUME NEW w \in Workers, AttemptFails(w) PROVE IInv'
  BY <1>4, AttemptFailsStep
<1>5. ASSUME NEW w \in Workers, Finish(w) PROVE IInv'
  BY <1>5, FinishStep
<1>6. ASSUME NEW w \in Workers, Raise(w) \/ Crash(w) PROVE IInv'
  <2>1. /\ session' = [session EXCEPT ![w] = Idle] /\ UNCHANGED tables /\ begun' = begun
        /\ faults' = faults \/ faults' = faults + 1
    BY <1>6 DEF Raise, Crash, Continue, Fault
  <2>2. begun' \in Nat
    BY <2>1 DEF IInv, Typed
  <2>3. SoundAt(Idle, faults')
    BY IdleSound
  <2> QED BY <2>1, <2>2, <2>3, SessionStep
<1> QED BY <1>1, <1>2, <1>3, <1>4, <1>5, <1>6 DEF Next, Work

(* The inductive invariant.                                                *)
THEOREM Invariant == Spec => []IInv
BY InitIInv, IInvStep, PTL DEF Spec

(* Keys, orders and requests keep their types, and no two bonuses have one  *)
(* id, also where every pipeline counts from 1: the unique index ends the   *)
(* second session, and within a session ids go on from attempt to attempt.  *)
THEOREM TypeCorrect == Spec => []TypeOK
<1>1. IInv => TypeOK
  <2> SUFFICES ASSUME IInv PROVE TypeOK
    OBVIOUS
  <2>1. /\ \A k \in ScopedKeys : key[k].status \in {"absent", "SUCCEEDED"} /\ key[k].payload \in Payloads \cup {Nothing}
        /\ order \in [Orders -> Payloads \cup {Nothing}]
    BY DEF IInv, Typed
  <2>2. \A w \in Workers :
          session[w].step \in {"idle", "attempt", "finish", "raise"} /\ session[w].tries \in 0 .. Attempts
    BY DEF IInv, Typed, Request
  <2> QED BY <2>1, <2>2 DEF IInv, IdsHold, TypeOK
<1> QED BY <1>1, Invariant, PTL

(* The bonuses of a key come from one session, whose payload the key        *)
(* remembers, however requests repeat and whatever processes do meanwhile:  *)
(* a session that would add to them has found the key absent, and the       *)
(* unique index is asked once more before it commits.                      *)
THEOREM OneSessionHolds == Spec => []OneSessionPerKey
<1>1. IInv => OneSessionPerKey
  BY DEF IInv, Typed, KeysHold, OneSessionPerKey, HasProcessed
<1> QED BY <1>1, Invariant, PTL

(* A key that has succeeded leads to a stored order, and an order to the    *)
(* key that last succeeded for it.                                         *)
THEOREM KeysAndOrdersHold == Spec => []KeysAndOrdersAgree
<1>1. IInv => KeysAndOrdersAgree
  <2> SUFFICES ASSUME IInv PROVE KeysAndOrdersAgree
    OBVIOUS
  <2>1. \A k \in ScopedKeys : key[k].status = "SUCCEEDED" => order[key[k].payload.order] # Nothing
    BY DEF IInv, KeysHold
  <2>2. \A x : KeyOf([p |-> x]) = <<x.user, x.key>>
    BY DEF KeyOf
  <2>3. ASSUME NEW o \in Orders, order[o] # Nothing
        PROVE  /\ key[<<order[o].user, order[o].key>>].status = "SUCCEEDED"
               /\ key[<<order[o].user, order[o].key>>].payload = order[o]
    <3>1. PICK x : x = order[o]
      OBVIOUS
    <3>2. key[KeyOf([p |-> x])] = [status |-> "SUCCEEDED", payload |-> x]
      BY <2>3, <3>1 DEF IInv, OrdersHold
    <3>3. PICK k : k = <<x.user, x.key>>
      OBVIOUS
    <3>4. key[k] = [status |-> "SUCCEEDED", payload |-> x]
      BY <2>2, <3>2, <3>3
    <3>5. key[k].status = "SUCCEEDED" /\ key[k].payload = x
      BY <3>4
    <3> QED BY <3>1, <3>3, <3>5
  <2> QED BY <2>1, <2>3 DEF KeysAndOrdersAgree, HasProcessed
<1> QED BY <1>1, Invariant, PTL

(* An order of a buyer in both trees is paid every bonus the rules give,    *)
(* and without faults none of them twice.                                  *)
THEOREM BonusesAreComplete == Spec => []BonusesComplete
<1>1. IInv => BonusesComplete
  <2> SUFFICES ASSUME IInv, NEW k \in ScopedKeys, key[k].status = "SUCCEEDED", InBothTrees(key[k].payload.user)
               PROVE  /\ {Levels(x) : x \in RowsOf(k)} = Due(key[k].payload)
                      /\ faults = 0 => Cardinality(RowsOf(k)) = Cardinality(Due(key[k].payload))
    BY DEF BonusesComplete
  <2>1. PICK a : a = RowsOf(k)
    OBVIOUS
  <2>2. Paid(a) = Due(key[k].payload) /\ (faults = 0 => IsFiniteSet(a) /\ Once(a))
    BY <2>1 DEF IInv, KeysHold
  <2>3. ASSUME faults = 0 PROVE Cardinality(a) = Cardinality(Paid(a))
    <3>1. PICK f : f = [x \in a |-> Levels(x)]
      OBVIOUS
    <3>2. f \in Bijection(a, Paid(a))
      <4>1. f \in [a -> Paid(a)]
        BY <3>1 DEF Paid
      <4>2. \A x, y \in a : f[x] = f[y] => x = y
        BY <2>2, <2>3, <3>1 DEF Once
      <4>3. \A l \in Paid(a) : \E x \in a : f[x] = l
        BY <3>1 DEF Paid
      <4> QED BY <4>1, <4>2, <4>3 DEF Bijection, Injection, IsInjective, Surjection
    <3>3. ExistsBijection(a, Paid(a))
      BY <3>2 DEF ExistsBijection
    <3> QED BY <2>2, <2>3, <3>3, FS_Bijection
  <2> QED BY <2>1, <2>2, <2>3 DEF Paid
<1> QED BY <1>1, Invariant, PTL
=============================================================================
