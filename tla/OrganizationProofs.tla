-------------------------- MODULE OrganizationProofs --------------------------
(***************************************************************************)
(* Theorems of Organization and of the reading of its KPIs, for any number  *)
(* of members, trees and processes.                                        *)
(***************************************************************************)
EXTENDS OrganizationKpi, SequenceTheorems, TLAPS

Typed ==
  /\ node \in [Trees -> [Users -> Row]]
  /\ closure \in [Trees -> SUBSET [ancestor : Users, descendant : Users, depth : Nat]]
  /\ slot \in [Users -> [Positions -> Users \cup {Nobody}]]
  /\ spillovers \subseteq Call
  /\ session \in [Workers -> Call \cup {Idle}]

(* Row n fits user u of tree t: its path is its parent's and itself, and   *)
(* every node of the path has its part of the path.                        *)
Fits(t, u, n) ==
  /\ n \in Row /\ n.depth \in 0 .. MaxDepth /\ Len(n.path) = n.depth + 1 /\ n.path[Len(n.path)] = u
  /\ n.parent = Nobody => n.depth = 0 /\ n.position = "none"
  /\ n.parent # Nobody =>
       /\ n.parent # u /\ In(t, n.parent) /\ n.path = Append(node[t][n.parent].path, u)
       /\ Contains(node[t][n.parent].path, n.sponsor)
       /\ IF t = "binary" THEN n.position \in Positions ELSE n.position = "none" /\ n.parent = n.sponsor
  /\ \A i \in 1 .. n.depth :
       /\ In(t, n.path[i]) /\ n.path[i] # u /\ Len(node[t][n.path[i]].path) = i
       /\ \A j \in 1 .. i : node[t][n.path[i]].path[j] = n.path[j]

Forest == \A t \in Trees : \A u \in Members(t) : Fits(t, u, node[t][u])

PathRow(u, path, i) == [ancestor |-> path[i], descendant |-> u, depth |-> Len(path) - i]

Ancestry ==
  \A t \in Trees : \A c :
    c \in closure[t] <=> \E u \in Members(t) : \E i \in DOMAIN node[t][u].path : c = PathRow(u, node[t][u].path, i)

Logged ==
  /\ \A s \in spillovers : In(s.tree, s.user)
  /\ \A t \in Trees : \A u \in Members(t) :
       node[t][u].parent # Nobody =>
         (node[t][u].parent # node[t][u].sponsor
            <=> \E s \in spillovers : s.tree = t /\ s.user = u /\ s.parent = node[t][u].parent)

SlotsHold ==
  "binary" \in Trees =>
    \A u \in Users, p \in Positions :
      IF slot[u][p] = Nobody THEN ChildrenAt(u, p) = {} ELSE slot[u][p] \in ChildrenAt(u, p)

(* Member v of tree t lies on or below s.                                  *)
Under(t, s, v) == In(t, v) /\ Contains(node[t][v].path, s)

Landing(o) ==
  o # Idle =>
    /\ In(o.tree, o.sponsor)
    /\ o.queue # <<>> => o.tree = "binary" /\ \A i \in DOMAIN o.queue : Under(o.tree, o.sponsor, o.queue[i])
    /\ o.queue = <<>> =>
         /\ o.parent \in Users /\ Under(o.tree, o.sponsor, o.parent) /\ node[o.tree][o.parent].depth < MaxDepth
         /\ IF o.tree = "binary" THEN o.position \in Positions ELSE o.position = "none" /\ o.parent = o.sponsor

IInv == Typed /\ Forest /\ Ancestry /\ Logged /\ SlotsHold /\ \A w \in Workers : Landing(session[w])

-----------------------------------------------------------------------------
LEMMA Appended ==
  ASSUME NEW S, NEW s \in Seq(S), NEW e \in S
  PROVE  /\ Append(s, e) \in Seq(S) /\ Len(s) \in Nat /\ Len(Append(s, e)) = Len(s) + 1
         /\ DOMAIN s = 1 .. Len(s) /\ DOMAIN Append(s, e) = 1 .. Len(s) + 1
         /\ \A i \in 1 .. Len(s) : Append(s, e)[i] = s[i]
         /\ Append(s, e)[Len(s) + 1] = e
         /\ \A x : Contains(Append(s, e), x) <=> Contains(s, x) \/ x = e
         /\ Front(Append(s, e)) = s
<1>1. /\ Append(s, e) \in Seq(S) /\ Len(s) \in Nat /\ Len(Append(s, e)) = Len(s) + 1
      /\ \A i \in 1 .. Len(s) : Append(s, e)[i] = s[i]
      /\ Append(s, e)[Len(s) + 1] = e
  BY AppendProperties
<1>2. DOMAIN s = 1 .. Len(s) /\ DOMAIN Append(s, e) = 1 .. Len(s) + 1
  BY <1>1
<1> DEFINE a == Append(s, e)
           n == Len(s)
<1>3. \A x : Contains(a, x) <=> Contains(s, x) \/ x = e
  <2>1. \A i \in 1 .. n + 1 : i \in 1 .. n \/ i = n + 1
    BY <1>1
  <2>2. 1 .. n \subseteq 1 .. n + 1 /\ n + 1 \in 1 .. n + 1
    BY <1>1
  <2> QED BY <1>1, <2>1, <2>2 DEF Contains
<1>4. Front(a) = s
  <2>1. \A i \in 1 .. n : a[i] \in S
    BY <1>1
  <2>2. /\ SubSeq(a, 1, n) \in Seq(S) /\ Len(SubSeq(a, 1, n)) = n
        /\ \A i \in 1 .. n : SubSeq(a, 1, n)[i] = a[i]
    <3> HIDE DEF a, n
    <3>1. n \in Nat
      BY <1>1 DEF n
    <3>2. SubSeq(a, 1, n) \in Seq(S) /\ Len(SubSeq(a, 1, n)) = (IF 1 <= n THEN n - 1 + 1 ELSE 0)
      BY <2>1, <3>1, SubSeqProperties
    <3>3. \A i \in 1 .. n - 1 + 1 : SubSeq(a, 1, n)[i] = a[1 + i - 1]
      BY <2>1, <3>1, SubSeqProperties
    <3> QED BY <3>1, <3>2, <3>3
  <2>3. SubSeq(a, 1, n) = s
    BY <1>1, <2>2, SeqEqual
  <2>4. Len(a) - 1 = n
    BY <1>1
  <2> QED BY <2>3, <2>4 DEF Front
<1> QED BY <1>1, <1>2, <1>3, <1>4

LEMMA Absent ==
  /\ NoNode \in Row /\ NoNode.depth = -1
  /\ \A n \in Row : n.depth \in 0 .. MaxDepth => n # NoNode
<1>1. -1 \in -1 .. MaxDepth /\ -1 \notin 0 .. MaxDepth /\ 0 .. MaxDepth \subseteq -1 .. MaxDepth
  BY OrganizationAssumption
<1>2. <<>> \in Seq(Users)
  OBVIOUS
<1>3. NoNode \in Row /\ NoNode.depth = -1
  BY <1>1, <1>2 DEF NoNode, Row
<1> QED BY <1>1, <1>3

(* What inserting a node that fits does to the rows.                       *)
LEMMA Grown ==
  ASSUME Typed, NEW t \in Trees, NEW u \in Users, NEW row, CreateNode(t, u, row), Fits(t, u, row)
  PROVE  /\ ~In(t, u) /\ In(t, u)' /\ node'[t][u] = row /\ node' \in [Trees -> [Users -> Row]]
         /\ \A x \in Trees, y \in Users : ~(x = t /\ y = u) => node'[x][y] = node[x][y] /\ (In(x, y)' <=> In(x, y))
         /\ \A x \in Trees, y \in Users : In(x, y) => In(x, y)' /\ node'[x][y] = node[x][y]
<1>1. ~In(t, u) /\ node' = [node EXCEPT ![t][u] = row]
  BY DEF CreateNode
<1>2. row \in Row /\ row # NoNode
  BY Absent DEF Fits
<1>3. node \in [Trees -> [Users -> Row]]
  BY DEF Typed
<1>4. node'[t][u] = row /\ node' \in [Trees -> [Users -> Row]]
  BY <1>1, <1>2, <1>3
<1>5. \A x \in Trees, y \in Users : ~(x = t /\ y = u) => node'[x][y] = node[x][y]
  BY <1>1, <1>3
<1>6. In(t, u)' /\ \A x \in Trees, y \in Users : ~(x = t /\ y = u) => (In(x, y)' <=> In(x, y))
  BY <1>2, <1>4, <1>5 DEF In
<1> QED BY <1>1, <1>4, <1>5, <1>6

LEMMA FitsStays ==
  ASSUME Typed, NEW t \in Trees, NEW u \in Users, NEW row, CreateNode(t, u, row), Fits(t, u, row),
         NEW x \in Trees, NEW y \in Users, NEW n, Fits(x, y, n)
  PROVE  Fits(x, y, n)'
<1>1. n \in Row /\ n.depth \in 0 .. MaxDepth /\ Len(n.path) = n.depth + 1 /\ n.path[Len(n.path)] = y
  BY DEF Fits
<1>2. n.parent = Nobody => n.depth = 0 /\ n.position = "none"
  BY DEF Fits
<1>3. ASSUME n.parent # Nobody
      PROVE  /\ n.parent # y /\ In(x, n.parent)' /\ n.path = Append(node'[x][n.parent].path, y)
             /\ Contains(node'[x][n.parent].path, n.sponsor)
             /\ IF x = "binary" THEN n.position \in Positions ELSE n.position = "none" /\ n.parent = n.sponsor
  <2>1. n.parent \in Users /\ In(x, n.parent)
    BY <1>1, <1>3 DEF Fits, Row
  <2>2. In(x, n.parent)' /\ node'[x][n.parent] = node[x][n.parent]
    BY <2>1, Grown
  <2> QED BY <1>3, <2>2 DEF Fits
<1>4. ASSUME NEW i \in 1 .. n.depth
      PROVE  /\ In(x, n.path[i])' /\ n.path[i] # y /\ Len(node'[x][n.path[i]].path) = i
             /\ \A j \in 1 .. i : node'[x][n.path[i]].path[j] = n.path[j]
  <2>1. n.path \in Seq(Users) /\ i \in 1 .. Len(n.path)
    BY <1>1 DEF Row
  <2>2. n.path[i] \in Users /\ In(x, n.path[i])
    BY <2>1 DEF Fits
  <2>3. In(x, n.path[i])' /\ node'[x][n.path[i]] = node[x][n.path[i]]
    BY <2>2, Grown
  <2> QED BY <2>3 DEF Fits
<1> QED BY <1>1, <1>2, <1>3, <1>4 DEF Fits

LEMMA GrownForest ==
  ASSUME IInv, NEW t \in Trees, NEW u \in Users, NEW row, CreateNode(t, u, row), Fits(t, u, row)
  PROVE  Forest'
<1> SUFFICES ASSUME NEW x \in Trees, NEW y \in Users, In(x, y)' PROVE Fits(x, y, node[x][y])'
  BY DEF Forest, Members
<1>1. PICK n : n = node'[x][y]
  OBVIOUS
<1>2. Fits(x, y, n)
  <2>1. CASE x = t /\ y = u
    BY <1>1, <2>1, Grown DEF IInv
  <2>2. CASE ~(x = t /\ y = u)
    <3>1. n = node[x][y] /\ In(x, y)
      BY <1>1, <2>2, Grown DEF IInv
    <3> QED BY <3>1 DEF IInv, Forest, Members
  <2> QED BY <2>1, <2>2
<1>3. Fits(x, y, n)'
  BY <1>2, FitsStays DEF IInv
<1> QED BY <1>1, <1>3

LEMMA NewClosure ==
  ASSUME IInv, NEW t \in Trees, NEW u \in Users, NEW row, Fits(t, u, row), NEW c
  PROVE  c \in ClosureOf(t, u, row.parent) <=> \E i \in DOMAIN row.path : c = PathRow(u, row.path, i)
<1> DEFINE n == row.depth
           above == {d \in closure[t] : d.descendant = row.parent}
           self == [ancestor |-> u, descendant |-> u, depth |-> 0]
           lower(d) == [ancestor |-> d.ancestor, descendant |-> u, depth |-> d.depth + 1]
<1>1. n \in Nat /\ row.path \in Seq(Users) /\ Len(row.path) = n + 1 /\ DOMAIN row.path = 1 .. n + 1 /\ row.path[n + 1] = u
  BY OrganizationAssumption DEF Fits, Row
<1>2. PathRow(u, row.path, n + 1) = self
  BY <1>1 DEF PathRow
<1>3. c \in ClosureOf(t, u, row.parent) <=> c = self \/ \E d \in above : c = lower(d)
  BY DEF ClosureOf
<1> HIDE DEF self, above, n
<1>4. CASE row.parent = Nobody
  <2>1. n = 0
    BY <1>4 DEF Fits, n
  <2>2. \A d \in above : d.descendant \in Users
    BY DEF IInv, Typed, above
  <2>3. above = {}
    BY <1>4, <2>2, OrganizationAssumption DEF above
  <2>4. DOMAIN row.path = {1}
    BY <1>1, <2>1
  <2> QED BY <1>2, <1>3, <2>1, <2>3, <2>4
<1>5. CASE row.parent # Nobody
  <2> DEFINE up == node[t][row.parent].path
  <2>1. row.parent \in Users /\ In(t, row.parent) /\ row.path = Append(up, u)
    BY <1>5 DEF Fits, Row
  <2>2. up \in Seq(Users)
    BY <2>1 DEF IInv, Typed, Row
  <2> HIDE DEF up
  <2>3. Len(up) = n /\ DOMAIN up = 1 .. n /\ \A i \in 1 .. n : row.path[i] = up[i]
    <3>1. Len(row.path) = Len(up) + 1 /\ Len(up) \in Nat /\ DOMAIN up = 1 .. Len(up)
          /\ \A i \in 1 .. Len(up) : Append(up, u)[i] = up[i]
      BY <2>1, <2>2, Appended
    <3>2. Len(row.path) = n + 1 /\ n \in Nat /\ Len(row.path) = Len(up) + 1 /\ Len(up) \in Nat
      BY <1>1, <3>1
    <3>3. Len(up) = n
      BY <3>2
    <3> QED BY <2>1, <3>1, <3>3
  <2>4. \A d : d \in above <=> \E i \in 1 .. n : d = PathRow(row.parent, up, i)
    <3>1. ASSUME NEW d \in above PROVE \E i \in 1 .. n : d = PathRow(row.parent, up, i)
      <4>1. PICK v \in Members(t) : \E i \in DOMAIN node[t][v].path : d = PathRow(v, node[t][v].path, i)
        BY <3>1 DEF IInv, Ancestry, above
      <4>2. v = row.parent
        BY <3>1, <4>1 DEF above, PathRow
      <4> QED BY <2>3, <4>1, <4>2 DEF up
    <3>2. ASSUME NEW d, NEW i \in 1 .. n, d = PathRow(row.parent, up, i) PROVE d \in above
      <4>1. row.parent \in Members(t) /\ i \in DOMAIN up
        BY <2>1, <2>3 DEF Members
      <4>2. d \in closure[t]
        BY <3>2, <4>1 DEF IInv, Ancestry, up
      <4> QED BY <3>2, <4>2 DEF above, PathRow
    <3> QED BY <3>1, <3>2
  <2>5. \A i \in 1 .. n : lower(PathRow(row.parent, up, i)) = PathRow(u, row.path, i)
    <3> TAKE i \in 1 .. n
    <3>1. n - i + 1 = n + 1 - i
      BY <1>1
    <3> QED BY <1>1, <2>3, <3>1 DEF PathRow
  <2>6. (\E d \in above : c = lower(d)) <=> \E i \in 1 .. n : c = PathRow(u, row.path, i)
    <3> HIDE DEF lower
    <3> QED BY <2>4, <2>5
  <2>7. \A i : i \in 1 .. n + 1 <=> i \in 1 .. n \/ i = n + 1
    BY <1>1
  <2> QED BY <1>1, <1>2, <1>3, <2>6, <2>7
<1> QED BY <1>4, <1>5

LEMMA GrownAncestry ==
  ASSUME IInv, NEW t \in Trees, NEW u \in Users, NEW row, CreateNode(t, u, row), Fits(t, u, row)
  PROVE  /\ Ancestry'
         /\ closure' \in [Trees -> SUBSET [ancestor : Users, descendant : Users, depth : Nat]]
<1>1. closure' = [closure EXCEPT ![t] = closure[t] \cup ClosureOf(t, u, row.parent)]
  BY DEF CreateNode
<1>2. closure \in [Trees -> SUBSET [ancestor : Users, descendant : Users, depth : Nat]]
  BY DEF IInv, Typed
<1>3. closure'[t] = closure[t] \cup ClosureOf(t, u, row.parent) /\ \A x \in Trees \ {t} : closure'[x] = closure[x]
  BY <1>1, <1>2
<1>4. ASSUME NEW x \in Trees, NEW c
      PROVE  c \in closure'[x] <=> \E y \in Members(x)' : \E i \in DOMAIN node'[x][y].path : c = PathRow(y, node'[x][y].path, i)
  <2> DEFINE old == \E y \in Members(x) : \E i \in DOMAIN node[x][y].path : c = PathRow(y, node[x][y].path, i)
             new == \E y \in Members(x)' : \E i \in DOMAIN node'[x][y].path : c = PathRow(y, node'[x][y].path, i)
             own == \E i \in DOMAIN row.path : c = PathRow(u, row.path, i)
  <2>1. \A y \in Users : ~(x = t /\ y = u) => (y \in Members(x)' <=> y \in Members(x)) /\ node'[x][y] = node[x][y]
    BY Grown DEF Members, IInv
  <2>2. u \notin Members(t) /\ u \in Members(t)' /\ node'[t][u] = row
    BY Grown DEF Members, IInv
  <2>3. Members(x) \subseteq Users /\ Members(x)' \subseteq Users
    BY DEF Members
  <2>4. new <=> old \/ (x = t /\ own)
    <3>1. ASSUME x = t, own PROVE new
      BY <2>2, <3>1
    <3>2. ASSUME old PROVE new
      <4>1. PICK y \in Members(x) : \E i \in DOMAIN node[x][y].path : c = PathRow(y, node[x][y].path, i)
        BY <3>2
      <4>2. y \in Members(x)' /\ node'[x][y] = node[x][y]
        BY <2>1, <2>2, <2>3
      <4> QED BY <4>1, <4>2
    <3>3. ASSUME new PROVE old \/ (x = t /\ own)
      <4>1. PICK y \in Members(x)' : \E i \in DOMAIN node'[x][y].path : c = PathRow(y, node'[x][y].path, i)
        BY <3>3
      <4>2. CASE x = t /\ y = u
        BY <2>2, <4>1, <4>2
      <4>3. CASE ~(x = t /\ y = u)
        <5>1. y \in Members(x) /\ node'[x][y] = node[x][y]
          BY <2>1, <2>3, <4>3
        <5> QED BY <4>1, <5>1
      <4> QED BY <4>2, <4>3
    <3> QED BY <3>1, <3>2, <3>3
  <2>5. c \in closure[x] <=> old
    BY DEF IInv, Ancestry
  <2>6. c \in ClosureOf(t, u, row.parent) <=> own
    BY NewClosure
  <2> HIDE DEF old, new, own
  <2>7. c \in closure'[x] <=> new
    BY <1>3, <2>4, <2>5, <2>6
  <2> QED BY <2>7 DEF new
<1>5. ClosureOf(t, u, row.parent) \subseteq [ancestor : Users, descendant : Users, depth : Nat]
  <2> SUFFICES ASSUME NEW d \in closure[t]
               PROVE  [ancestor |-> d.ancestor, descendant |-> u, depth |-> d.depth + 1]
                        \in [ancestor : Users, descendant : Users, depth : Nat]
    BY DEF ClosureOf
  <2>1. d \in [ancestor : Users, descendant : Users, depth : Nat]
    BY <1>2
  <2> QED BY <2>1
<1> QED BY <1>1, <1>2, <1>4, <1>5 DEF Ancestry

LEMMA UnderStays ==
  ASSUME Typed, NEW t \in Trees, NEW u \in Users, NEW row, CreateNode(t, u, row), Fits(t, u, row),
         NEW x \in Trees, NEW y \in Users, NEW s, Under(x, s, y)
  PROVE  Under(x, s, y)'
BY Grown DEF Under

LEMMA LandingStays ==
  ASSUME IInv, NEW t \in Trees, NEW u \in Users, NEW row, CreateNode(t, u, row), Fits(t, u, row),
         NEW o \in Call \cup {Idle}, Landing(o)
  PROVE  Landing(o)'
<1> SUFFICES ASSUME o # Idle
             PROVE  /\ In(o.tree, o.sponsor)'
                    /\ o.queue # <<>> =>
                         o.tree = "binary" /\ \A i \in DOMAIN o.queue : Under(o.tree, o.sponsor, o.queue[i])'
                    /\ o.queue = <<>> =>
                         /\ o.parent \in Users /\ Under(o.tree, o.sponsor, o.parent)' /\ node'[o.tree][o.parent].depth < MaxDepth
                         /\ IF o.tree = "binary" THEN o.position \in Positions
                            ELSE o.position = "none" /\ o.parent = o.sponsor
  BY DEF Landing
<1>1. o.tree \in Trees /\ o.sponsor \in Users /\ o.queue \in Seq(Users) /\ o.parent \in Users \cup {Nobody}
  BY DEF Call
<1>2. In(o.tree, o.sponsor)'
  BY <1>1, Grown DEF IInv, Landing
<1>3. ASSUME o.queue # <<>>
      PROVE  o.tree = "binary" /\ \A i \in DOMAIN o.queue : Under(o.tree, o.sponsor, o.queue[i])'
  <2>1. \A i \in DOMAIN o.queue : o.queue[i] \in Users
    BY <1>1
  <2> QED BY <1>1, <1>3, <2>1, UnderStays DEF IInv, Landing
<1>4. ASSUME o.queue = <<>>
      PROVE  /\ o.parent \in Users /\ Under(o.tree, o.sponsor, o.parent)' /\ node'[o.tree][o.parent].depth < MaxDepth
             /\ IF o.tree = "binary" THEN o.position \in Positions ELSE o.position = "none" /\ o.parent = o.sponsor
  <2>1. Under(o.tree, o.sponsor, o.parent) /\ node[o.tree][o.parent].depth < MaxDepth
    BY <1>4 DEF Landing
  <2>2. o.parent \in Users
    BY <1>4 DEF Landing
  <2>3. node'[o.tree][o.parent] = node[o.tree][o.parent]
    BY <1>1, <2>1, <2>2, Grown DEF IInv, Under
  <2> QED BY <1>1, <1>4, <2>1, <2>2, <2>3, UnderStays DEF IInv, Landing
<1> QED BY <1>2, <1>3, <1>4

LEMMA GrownSlots ==
  ASSUME IInv, NEW t \in Trees, NEW u \in Users, NEW row, CreateNode(t, u, row), Fits(t, u, row)
  PROVE  SlotsHold' /\ slot' \in [Users -> [Positions -> Users \cup {Nobody}]]
<1>1. slot \in [Users -> [Positions -> Users \cup {Nobody}]]
  BY DEF IInv, Typed
<1>2. row.parent \in Users \cup {Nobody} /\ row.position \in Positions \cup {"none"} /\ "none" \notin Positions
  BY DEF Fits, Row, Positions
<1>3. CASE row.position \notin Positions
  <2>1. slot' = slot
    BY <1>3 DEF CreateNode
  <2>2. SlotsHold'
    <3> SUFFICES ASSUME "binary" \in Trees, NEW y \in Users, NEW p \in Positions
                 PROVE  ChildrenAt(y, p)' = ChildrenAt(y, p)
      BY <2>1 DEF IInv, SlotsHold
    <3>1. t = "binary" => row.parent = Nobody
      BY <1>3 DEF Fits
    <3>2. \A c \in Users : c \in ChildrenAt(y, p)' <=> c \in ChildrenAt(y, p)
      <4> TAKE c \in Users
      <4>1. CASE t = "binary" /\ c = u
        <5>1. node'["binary"][c].parent = Nobody /\ ~In("binary", c)
          BY <3>1, <4>1, Grown DEF IInv
        <5> QED BY <5>1, OrganizationAssumption DEF ChildrenAt, Members
      <4>2. CASE ~(t = "binary" /\ c = u)
        <5>1. node'["binary"][c] = node["binary"][c] /\ (In("binary", c)' <=> In("binary", c))
          BY <4>2, Grown DEF IInv
        <5> QED BY <5>1 DEF ChildrenAt, Members
      <4> QED BY <4>1, <4>2
    <3> QED BY <3>2 DEF ChildrenAt, Members
  <2> QED BY <1>1, <2>1, <2>2
<1>4. CASE row.position \in Positions
  <2>1. t = "binary" /\ row.parent \in Users
    BY <1>2, <1>4 DEF Fits
  <2>2. slot' = [slot EXCEPT ![row.parent][row.position] = u]
    BY <1>4 DEF CreateNode
  <2>3. slot'[row.parent][row.position] = u /\ slot' \in [Users -> [Positions -> Users \cup {Nobody}]]
    BY <1>1, <1>4, <2>1, <2>2
  <2>4. \A y \in Users, p \in Positions : ~(y = row.parent /\ p = row.position) => slot'[y][p] = slot[y][p]
    BY <1>1, <2>2
  <2>5. node'["binary"][u] = row /\ In("binary", u)'
    BY <2>1, Grown DEF IInv
  <2>6. \A c \in Users \ {u} : node'["binary"][c] = node["binary"][c] /\ (In("binary", c)' <=> In("binary", c))
    BY <2>1, Grown DEF IInv
  <2>7. ASSUME NEW y \in Users, NEW p \in Positions
        PROVE  IF slot'[y][p] = Nobody THEN ChildrenAt(y, p)' = {} ELSE slot'[y][p] \in ChildrenAt(y, p)'
    <3>1. CASE y = row.parent /\ p = row.position
      <4>1. u \in ChildrenAt(y, p)'
        BY <2>5, <3>1 DEF ChildrenAt, Members
      <4> QED BY <2>3, <3>1, <4>1, OrganizationAssumption
    <3>2. CASE ~(y = row.parent /\ p = row.position)
      <4>1. u \notin ChildrenAt(y, p)'
        BY <2>5, <3>2 DEF ChildrenAt
      <4>2. u \notin ChildrenAt(y, p)
        BY <2>1, Grown DEF ChildrenAt, Members, IInv
      <4>3. \A c \in Users \ {u} : c \in ChildrenAt(y, p)' <=> c \in ChildrenAt(y, p)
        BY <2>6 DEF ChildrenAt, Members
      <4>4. ChildrenAt(y, p) \subseteq Users /\ ChildrenAt(y, p)' \subseteq Users
        BY DEF ChildrenAt, Members
      <4>5. ChildrenAt(y, p)' = ChildrenAt(y, p)
        BY <4>1, <4>2, <4>3, <4>4
      <4> QED BY <2>1, <2>4, <3>2, <4>5 DEF IInv, SlotsHold
    <3> QED BY <3>1, <3>2
  <2> QED BY <2>3, <2>7 DEF SlotsHold
<1> QED BY <1>3, <1>4

(* Each member but the new one is logged as before.                        *)
LEMMA GrownLog ==
  ASSUME IInv, NEW t \in Trees, NEW u \in Users, NEW row, CreateNode(t, u, row), Fits(t, u, row),
         NEW s \in Call, s.tree = t, s.user = u, s.parent = row.parent, s.sponsor = row.sponsor,
         spillovers' = IF row.parent # Nobody /\ row.parent # row.sponsor THEN spillovers \cup {s} ELSE spillovers
  PROVE  Logged' /\ spillovers' \subseteq Call
<1>1. spillovers' \subseteq spillovers \cup {s} /\ spillovers \subseteq spillovers' /\ spillovers \subseteq Call
  BY DEF IInv, Typed
<1>2. \A z \in spillovers' : In(z.tree, z.user)'
  <2> TAKE z \in spillovers'
  <2>1. CASE z = s
    BY <2>1, Grown DEF IInv
  <2>2. CASE z \in spillovers
    BY <1>1, <2>2, Grown DEF IInv, Logged, Call
  <2> QED BY <1>1, <2>1, <2>2
<1>3. ASSUME NEW x \in Trees, NEW y \in Users, In(x, y)', node'[x][y].parent # Nobody
      PROVE  node'[x][y].parent # node'[x][y].sponsor
               <=> \E z \in spillovers' : z.tree = x /\ z.user = y /\ z.parent = node'[x][y].parent
  <2>1. CASE x = t /\ y = u
    <3>1. node'[x][y] = row /\ \A z \in spillovers : ~(z.tree = x /\ z.user = y)
      BY <2>1, Grown DEF IInv, Logged
    <3>2. CASE row.parent # row.sponsor
      <4>1. s \in spillovers'
        BY <1>3, <3>1, <3>2
      <4> QED BY <2>1, <3>1, <3>2, <4>1
    <3>3. CASE row.parent = row.sponsor
      BY <3>1, <3>3
    <3> QED BY <3>2, <3>3
  <2>2. CASE ~(x = t /\ y = u)
    <3>1. node'[x][y] = node[x][y] /\ y \in Members(x)
      BY <1>3, <2>2, Grown DEF IInv, Members
    <3>2. \A z \in spillovers' : z.tree = x /\ z.user = y => z \in spillovers
      BY <1>1, <2>2
    <3>3. node[x][y].parent # node[x][y].sponsor
            <=> \E z \in spillovers : z.tree = x /\ z.user = y /\ z.parent = node[x][y].parent
      BY <1>3, <3>1 DEF IInv, Logged
    <3> QED BY <1>1, <3>1, <3>2, <3>3
  <2> QED BY <2>1, <2>2
<1> QED BY <1>1, <1>2, <1>3 DEF Logged, Members

-----------------------------------------------------------------------------
LEMMA InitIInv == Init => IInv
<1> SUFFICES ASSUME Init PROVE IInv
  OBVIOUS
<1>1. \A t \in Trees, u \in Users : ~In(t, u)
  BY DEF Init, In
<1>2. \A t \in Trees : Members(t) = {}
  BY <1>1 DEF Members
<1>3. Typed
  BY Absent DEF Init, Typed, OpenSlots, Idle
<1>4. Forest /\ Logged
  BY <1>2 DEF Forest, Logged, Init
<1>5. Ancestry
  BY <1>2 DEF Ancestry, Init
<1>6. SlotsHold
  BY <1>2 DEF SlotsHold, Init, OpenSlots, ChildrenAt
<1>7. \A w \in Workers : Landing(session[w])
  BY DEF Init, Landing
<1> QED BY <1>3, <1>4, <1>5, <1>6, <1>7 DEF IInv

(* A root fits.                                                            *)
LEMMA RootFits ==
  ASSUME NEW t \in Trees, NEW u \in Users, NEW row, row = [NoNode EXCEPT !.depth = 0, !.path = <<u>>]
  PROVE  Fits(t, u, row) /\ row.parent = Nobody /\ row.position = "none"
<1>1. PICK p : p = <<u>>
  OBVIOUS
<1>2. p \in Seq(Users) /\ Len(p) = 1 /\ p[1] = u
  BY <1>1
<1>3. 0 \in 0 .. MaxDepth /\ 0 \in -1 .. MaxDepth /\ 1 .. 0 = {}
  BY OrganizationAssumption
<1>4. /\ row.parent = Nobody /\ row.sponsor = Nobody /\ row.position = "none" /\ row.depth = 0 /\ row.path = p
      /\ row = [parent |-> Nobody, sponsor |-> Nobody, position |-> "none", depth |-> 0, path |-> p]
  BY <1>1 DEF NoNode
<1>5. row \in Row
  BY <1>2, <1>3, <1>4, Zenon DEF Row
<1> QED BY <1>2, <1>3, <1>4, <1>5 DEF Fits

(* So does the row below the slot that was found.                          *)
LEMMA BelowFits ==
  ASSUME IInv, NEW o \in Call, o # Idle, o.queue = <<>>, Landing(o), ~In(o.tree, o.user), NEW row, row = NewRow(o)
  PROVE  Fits(o.tree, o.user, row)
<1> DEFINE above == node[o.tree][o.parent]
<1>1. o.tree \in Trees /\ o.sponsor \in Users /\ o.parent \in Users /\ o.user \in Users
      /\ o.position \in Positions \cup {"none"}
  BY DEF Call, Landing
<1>2. row = [parent |-> o.parent, sponsor |-> o.sponsor, position |-> o.position,
             depth |-> above.depth + 1, path |-> Append(above.path, o.user)]
  BY DEF NewRow, RowBelow
<1>3. In(o.tree, o.parent) /\ Contains(above.path, o.sponsor) /\ above.depth < MaxDepth
  BY DEF Landing, Under
<1>4. Fits(o.tree, o.parent, above)
  BY <1>1, <1>3 DEF IInv, Forest, Members
<1> HIDE DEF above
<1>5. above.path \in Seq(Users) /\ above.depth \in 0 .. MaxDepth /\ Len(above.path) = above.depth + 1
      /\ above.path[Len(above.path)] = o.parent
  BY <1>4 DEF Fits, Row
<1>6. above.depth + 1 \in 0 .. MaxDepth /\ above.depth + 1 \in -1 .. MaxDepth /\ above.depth \in Nat
  BY <1>3, <1>5, OrganizationAssumption
<1>7. /\ Append(above.path, o.user) \in Seq(Users) /\ Len(Append(above.path, o.user)) = above.depth + 1 + 1
      /\ Append(above.path, o.user)[above.depth + 1 + 1] = o.user
      /\ \A i \in 1 .. above.depth + 1 : Append(above.path, o.user)[i] = above.path[i]
  BY <1>1, <1>5, Appended
<1>8. row \in Row
  BY <1>1, <1>2, <1>6, <1>7 DEF Row
<1>9. row.parent # Nobody /\ row.parent # o.user
  BY <1>1, <1>2, <1>3, OrganizationAssumption
<1>10. IF o.tree = "binary" THEN row.position \in Positions ELSE row.position = "none" /\ row.parent = row.sponsor
  BY <1>2 DEF Landing
<1>11. ASSUME NEW i \in 1 .. row.depth
       PROVE  /\ In(o.tree, row.path[i]) /\ row.path[i] # o.user /\ Len(node[o.tree][row.path[i]].path) = i
              /\ \A j \in 1 .. i : node[o.tree][row.path[i]].path[j] = row.path[j]
  <2>1. i \in 1 .. above.depth + 1 /\ row.path[i] = above.path[i] /\ \A j \in 1 .. i : row.path[j] = above.path[j]
    BY <1>2, <1>6, <1>7
  <2>2. CASE i = above.depth + 1
    <3>1. row.path[i] = o.parent
      BY <1>5, <2>1, <2>2
    <3> QED BY <1>3, <1>5, <2>1, <2>2, <3>1 DEF above
  <2>3. CASE i \in 1 .. above.depth
    <3>1. /\ In(o.tree, above.path[i]) /\ Len(node[o.tree][above.path[i]].path) = i
          /\ \A j \in 1 .. i : node[o.tree][above.path[i]].path[j] = above.path[j]
      BY <1>4, <2>3 DEF Fits
    <3> QED BY <2>1, <3>1
  <2> QED BY <1>6, <2>1, <2>2, <2>3
<1>12. row.parent = o.parent /\ row.sponsor = o.sponsor /\ row.depth = above.depth + 1
       /\ row.path = Append(above.path, o.user)
  BY <1>2
<1> QED BY <1>3, <1>6, <1>7, <1>8, <1>9, <1>10, <1>11, <1>12 DEF Fits, above

LEMMA IInvRoot ==
  ASSUME IInv, NEW t \in Trees, NEW u \in Users, CreateRoot(t, u)
  PROVE  IInv'
<1>1. PICK row : row = [NoNode EXCEPT !.depth = 0, !.path = <<u>>]
  OBVIOUS
<1>2. CreateNode(t, u, row) /\ Fits(t, u, row) /\ row.parent = Nobody /\ UNCHANGED <<spillovers, session>>
  BY <1>1, RootFits DEF CreateRoot
<1>3. Typed'
  BY <1>2, Grown, GrownAncestry, GrownSlots DEF IInv, Typed
<1>4. Logged'
  <2>1. \A z \in spillovers : In(z.tree, z.user)'
    BY <1>2, Grown DEF IInv, Typed, Logged, Call
  <2>2. ASSUME NEW x \in Trees, NEW y \in Users, In(x, y)', node'[x][y].parent # Nobody
        PROVE  node'[x][y].parent # node'[x][y].sponsor
                 <=> \E z \in spillovers : z.tree = x /\ z.user = y /\ z.parent = node'[x][y].parent
    <3>1. ~(x = t /\ y = u)
      BY <1>2, <2>2, Grown DEF IInv
    <3>2. node'[x][y] = node[x][y] /\ y \in Members(x)
      BY <1>2, <2>2, <3>1, Grown DEF IInv, Members
    <3> QED BY <2>2, <3>2 DEF IInv, Logged
  <2> QED BY <1>2, <2>1, <2>2 DEF Logged, Members
<1>5. \A w \in Workers : Landing(session[w])'
  <2> TAKE w \in Workers
  <2>1. PICK o : o = session[w]
    OBVIOUS
  <2>2. o \in Call \cup {Idle} /\ Landing(o) /\ session'[w] = o
    BY <1>2, <2>1 DEF IInv, Typed
  <2>3. Landing(o)'
    BY <1>2, <2>2, LandingStays
  <2> QED BY <2>2, <2>3
<1> QED BY <1>2, <1>3, <1>4, <1>5, GrownForest, GrownAncestry, GrownSlots DEF IInv

LEMMA IInvAdd ==
  ASSUME IInv, NEW w \in Workers, AddMember(w)
  PROVE  IInv'
<1>1. PICK o : o = session[w]
  OBVIOUS
<1>2. /\ o \in Call /\ o # Idle /\ o.queue = <<>> /\ Landing(o)
      /\ o.tree \in Trees /\ o.user \in Users /\ o.parent \in Users /\ o.sponsor \in Users
  BY <1>1 DEF AddMember, IInv, Typed, Call, Landing
<1>3. PICK row : row = NewRow(o)
  OBVIOUS
<1>4. CreateNode(o.tree, o.user, row)
  BY <1>1, <1>3 DEF AddMember
<1>5. Fits(o.tree, o.user, row)
  BY <1>2, <1>3, <1>4, BelowFits DEF CreateNode
<1>6. row.parent = o.parent /\ row.sponsor = o.sponsor
  BY <1>3 DEF NewRow, RowBelow
<1>7. Logged' /\ spillovers' \subseteq Call
  <2>1. Spilled(o) <=> row.parent # Nobody /\ row.parent # row.sponsor
    BY <1>2, <1>6, OrganizationAssumption DEF Spilled, Landing
  <2>2. spillovers' = IF Spilled(o) THEN spillovers \cup {o} ELSE spillovers
    BY <1>1 DEF AddMember
  <2> QED BY <1>2, <1>4, <1>5, <1>6, <2>1, <2>2, GrownLog
<1>8. session' = [session EXCEPT ![w] = Idle]
  BY DEF AddMember
<1>9. Typed'
  BY <1>2, <1>4, <1>5, <1>7, <1>8, Grown, GrownAncestry, GrownSlots DEF IInv, Typed
<1>10. \A v \in Workers : Landing(session[v])'
  <2> TAKE v \in Workers
  <2>1. PICK z : z = session'[v]
    OBVIOUS
  <2>2. z = Idle \/ z = session[v]
    BY <1>8, <2>1 DEF IInv, Typed
  <2>3. CASE z = Idle
    BY <2>1, <2>3 DEF Landing
  <2>4. CASE z = session[v]
    <3>1. z \in Call \cup {Idle} /\ Landing(z)
      BY <2>4 DEF IInv, Typed
    <3>2. Landing(z)'
      BY <1>2, <1>4, <1>5, <3>1, LandingStays
    <3> QED BY <2>1, <3>2
  <2> QED BY <2>2, <2>3, <2>4
<1> QED BY <1>2, <1>4, <1>5, <1>7, <1>9, <1>10, GrownForest, GrownAncestry, GrownSlots DEF IInv

-----------------------------------------------------------------------------
(* Queue b is q without its head and with l and r behind.                  *)
Follows(q, l, r, b) ==
  /\ Len(q) \in Nat \ {0} /\ DOMAIN q = 1 .. Len(q)
  /\ b \in Seq(Users) /\ Len(b) = Len(q) + 1 /\ DOMAIN b = 1 .. Len(q) + 1 /\ b # <<>>
  /\ \A i \in 1 .. Len(q) - 1 : b[i] = q[i + 1]
  /\ b[Len(q)] = l /\ b[Len(q) + 1] = r

LEMMA NextQueue ==
  ASSUME NEW q \in Seq(Users), q # <<>>, NEW l \in Users, NEW r \in Users, NEW b, b = QueueAfter(q, l, r)
  PROVE  Follows(q, l, r, b)
<1>1. PICK t : t = Tail(q)
  OBVIOUS
<1>2. Len(q) \in Nat \ {0} /\ DOMAIN q = 1 .. Len(q)
  OBVIOUS
<1>3. t \in Seq(Users) /\ Len(t) = Len(q) - 1 /\ \A i \in 1 .. Len(q) - 1 : t[i] = q[i + 1]
  BY <1>1, HeadTailProperties
<1>4. PICK a : a = Append(t, l)
  OBVIOUS
<1>5. a \in Seq(Users) /\ Len(a) = Len(q) /\ a[Len(q)] = l /\ \A i \in 1 .. Len(q) - 1 : a[i] = q[i + 1]
  <2>1. /\ a \in Seq(Users) /\ Len(a) = Len(t) + 1 /\ a[Len(t) + 1] = l
        /\ \A i \in 1 .. Len(t) : a[i] = t[i]
    BY <1>3, <1>4, AppendProperties
  <2>2. Len(t) + 1 = Len(q)
    BY <1>2, <1>3
  <2> QED BY <1>3, <2>1, <2>2
<1>6. b = Append(a, r)
  BY <1>1, <1>4 DEF QueueAfter
<1>7. b \in Seq(Users) /\ Len(b) = Len(q) + 1 /\ b[Len(q) + 1] = r /\ \A i \in 1 .. Len(q) : b[i] = a[i]
  BY <1>5, <1>6, AppendProperties
<1>8. DOMAIN b = 1 .. Len(q) + 1 /\ b # <<>>
  BY <1>2, <1>7
<1>9. b[Len(q)] = l /\ \A i \in 1 .. Len(q) - 1 : b[i] = q[i + 1]
  BY <1>2, <1>5, <1>7
<1> QED BY <1>2, <1>7, <1>8, <1>9 DEF Follows

LEMMA ChildUnder ==
  ASSUME IInv, "binary" \in Trees, NEW s, NEW u \in Users, Under("binary", s, u), NEW p \in Positions,
         NEW c \in ChildrenAt(u, p)
  PROVE  /\ c \in Users /\ In("binary", c) /\ Under("binary", s, c)
         /\ node["binary"][c].path = Append(node["binary"][u].path, c)
         /\ node["binary"][c].parent = u /\ node["binary"][c].position = p
<1>1. c \in Users /\ In("binary", c) /\ node["binary"][c].parent = u /\ node["binary"][c].position = p
  BY DEF ChildrenAt, Members
<1>2. Fits("binary", c, node["binary"][c])
  BY <1>1 DEF IInv, Forest, Members
<1>3. node["binary"][c].path = Append(node["binary"][u].path, c)
  BY <1>1, <1>2, OrganizationAssumption DEF Fits
<1>4. node["binary"][u].path \in Seq(Users)
  BY DEF IInv, Typed, Row
<1>5. Contains(node["binary"][c].path, s)
  BY <1>1, <1>3, <1>4, Appended DEF Under
<1> QED BY <1>1, <1>3, <1>5 DEF Under

(* A step of a session that changes no row.                                *)
LEMMA SessionStep ==
  ASSUME IInv, NEW w \in Workers, NEW o \in Call \cup {Idle}, Landing(o), session' = [session EXCEPT ![w] = o],
         UNCHANGED <<node, closure, slot, spillovers>>
  PROVE  IInv'
<1>1. Typed'
  BY DEF IInv, Typed
<1>2. Forest' /\ Logged' /\ Ancestry'
  BY DEF IInv, Forest, Fits, In, Members, Logged, Ancestry
<1>3. SlotsHold'
  BY DEF IInv, SlotsHold, ChildrenAt, Members, In
<1>4. \A v \in Workers : Landing(session[v])'
  <2> TAKE v \in Workers
  <2>1. Landing(session'[v])
    BY DEF IInv, Typed
  <2> QED BY <2>1 DEF Landing, Under, In
<1> QED BY <1>1, <1>2, <1>3, <1>4 DEF IInv

LEMMA IInvBegin ==
  ASSUME IInv, NEW w \in Workers, NEW t \in Trees, NEW u \in Users, NEW s \in Users, BeginAddMember(w, t, u, s)
  PROVE  IInv'
<1>1. PICK q : q = <<s>>
  OBVIOUS
<1>2. q \in Seq(Users) /\ DOMAIN q = {1} /\ q[1] = s /\ q # <<>> /\ <<>> \in Seq(Users)
  BY <1>1
<1>3. PICK asked : asked = [Idle EXCEPT !.user = u, !.tree = t, !.sponsor = s]
  OBVIOUS
<1>4. PICK o : o = IF t = "binary" THEN [asked EXCEPT !.queue = <<s>>] ELSE [asked EXCEPT !.parent = s]
  OBVIOUS
<1>5. session' = [session EXCEPT ![w] = o] /\ UNCHANGED <<node, closure, slot, spillovers>>
  BY <1>3, <1>4 DEF BeginAddMember
<1>6. /\ o \in Call /\ o.tree = t /\ o.sponsor = s /\ o.position = "none"
      /\ IF t = "binary" THEN o.queue = q ELSE o.queue = <<>> /\ o.parent = s
  <2>1. asked = [user |-> u, tree |-> t, sponsor |-> s, parent |-> Nobody, position |-> "none", queue |-> <<>>]
    BY <1>3 DEF Idle
  <2>2. CASE t = "binary"
    <3>1. o = [user |-> u, tree |-> t, sponsor |-> s, parent |-> Nobody, position |-> "none", queue |-> q]
      BY <1>1, <1>4, <2>1, <2>2
    <3> QED BY <1>2, <2>2, <3>1, Zenon DEF Call
  <2>3. CASE t # "binary"
    <3>1. o = [user |-> u, tree |-> t, sponsor |-> s, parent |-> s, position |-> "none", queue |-> <<>>]
      BY <1>4, <2>1, <2>3
    <3> QED BY <1>2, <2>3, <3>1, Zenon DEF Call
  <2> QED BY <2>2, <2>3
<1>7. In(t, s)
  BY DEF BeginAddMember
<1>8. Under(t, s, s)
  <2>1. Fits(t, s, node[t][s]) /\ node[t][s].path \in Seq(Users)
    BY <1>7 DEF IInv, Forest, Members, Typed, Row
  <2>2. Len(node[t][s].path) \in Nat \ {0} /\ node[t][s].path[Len(node[t][s].path)] = s
    BY <2>1, OrganizationAssumption DEF Fits
  <2>3. Len(node[t][s].path) \in 1 .. Len(node[t][s].path)
    BY <2>2
  <2> QED BY <1>7, <2>2, <2>3 DEF Under, Contains
<1>9. Landing(o)
  <2>1. CASE t = "binary"
    BY <1>2, <1>6, <1>7, <1>8, <2>1 DEF Landing
  <2>2. CASE t # "binary"
    <3>1. node[t][s].depth < MaxDepth
      BY <2>2 DEF BeginAddMember
    <3> QED BY <1>6, <1>7, <1>8, <2>2, <3>1 DEF Landing
  <2> QED BY <2>1, <2>2
<1> QED BY <1>5, <1>6, <1>9, SessionStep

LEMMA Seeks ==
  ASSUME IInv, NEW w \in Workers, session[w].queue # <<>>, NEW o, o = session[w]
  PROVE  /\ o \in Call /\ o # Idle /\ o.tree = "binary" /\ "binary" \in Trees /\ o.sponsor \in Users
         /\ In("binary", o.sponsor) /\ o.queue \in Seq(Users) /\ DOMAIN o.queue = 1 .. Len(o.queue)
         /\ Head(o.queue) \in Users /\ Head(o.queue) = o.queue[1] /\ Under("binary", o.sponsor, Head(o.queue))
<1>1. o \in Call /\ o # Idle
  BY DEF IInv, Typed, Idle
<1>2. o.queue \in Seq(Users) /\ o.tree \in Trees /\ o.sponsor \in Users
  BY <1>1 DEF Call
<1>3. Landing(o)
  BY DEF IInv
<1>4. Head(o.queue) \in Users /\ Head(o.queue) = o.queue[1] /\ 1 \in DOMAIN o.queue /\ DOMAIN o.queue = 1 .. Len(o.queue)
  BY <1>2
<1> QED BY <1>1, <1>2, <1>3, <1>4 DEF Landing

LEMMA IInvTake ==
  ASSUME IInv, NEW w \in Workers, session[w].queue # <<>>, NEW p \in Positions, TakeSlot(w, p),
         UNCHANGED <<node, closure, slot, spillovers>>
  PROVE  IInv'
<1>1. PICK o : o = session[w]
  OBVIOUS
<1>2. PICK u : u = Head(o.queue)
  OBVIOUS
<1>3. o \in Call /\ o # Idle /\ o.tree = "binary" /\ In("binary", o.sponsor) /\ u \in Users /\ Under("binary", o.sponsor, u)
  BY <1>1, <1>2, Seeks
<1>4. PICK z : z = [o EXCEPT !.parent = u, !.position = p, !.queue = <<>>]
  OBVIOUS
<1>5. z \in Call /\ z.tree = "binary" /\ z.sponsor = o.sponsor /\ z.parent = u /\ z.position = p /\ z.queue = <<>>
  <2>1. PICK e : e = <<>>
    OBVIOUS
  <2> e \in Seq(Users)
    BY <2>1
  <2>2. z = [o EXCEPT !.parent = u, !.position = p, !.queue = e]
    BY <1>4, <2>1
  <2> QED BY <1>3, <2>1, <2>2 DEF Call
<1>6. session' = [session EXCEPT ![w] = z] /\ node["binary"][u].depth < MaxDepth
  BY <1>1, <1>2, <1>4 DEF TakeSlot
<1>7. Landing(z)
  BY <1>3, <1>5, <1>6 DEF Landing
<1> QED BY <1>5, <1>6, <1>7, SessionStep

LEMMA IInvSearch ==
  ASSUME IInv, NEW w \in Workers, session[w].queue # <<>>, SearchOn(w),
         UNCHANGED <<node, closure, slot, spillovers>>
  PROVE  IInv'
<1>1. PICK o : o = session[w]
  OBVIOUS
<1>2. PICK k : k = o.queue
  OBVIOUS
<1>3. PICK u : u = Head(k)
  OBVIOUS
<1>4. /\ o \in Call /\ o # Idle /\ o.tree = "binary" /\ "binary" \in Trees /\ In("binary", o.sponsor)
      /\ u \in Users /\ Under("binary", o.sponsor, u) /\ k \in Seq(Users) /\ k # <<>>
  BY <1>1, <1>2, <1>3, Seeks
<1>5. PICK l \in ChildrenAt(u, "L"), r \in ChildrenAt(u, "R") :
        session' = [session EXCEPT ![w].queue = QueueAfter(k, l, r)]
  BY <1>1, <1>2, <1>3 DEF SearchOn
<1>6. l \in Users /\ r \in Users /\ Under("binary", o.sponsor, l) /\ Under("binary", o.sponsor, r)
  BY <1>4, ChildUnder DEF Positions
<1>7. PICK q : q = QueueAfter(k, l, r)
  OBVIOUS
<1>8. /\ Len(k) \in Nat \ {0} /\ DOMAIN k = 1 .. Len(k) /\ q \in Seq(Users) /\ DOMAIN q = 1 .. Len(k) + 1 /\ q # <<>>
      /\ \A i \in 1 .. Len(k) - 1 : q[i] = k[i + 1]
      /\ q[Len(k)] = l /\ q[Len(k) + 1] = r
  <2>1. k \in Seq(Users) /\ k # <<>> /\ l \in Users /\ r \in Users
    BY <1>4, <1>6
  <2>2. Follows(k, l, r, q)
    BY <1>7, <2>1, NextQueue
  <2> QED BY <2>2 DEF Follows
<1>9. PICK z : z = [o EXCEPT !.queue = q]
  OBVIOUS
<1>10. z \in Call /\ z.tree = "binary" /\ z.sponsor = o.sponsor /\ z.queue = q
  BY <1>4, <1>8, <1>9 DEF Call
<1>11. session' = [session EXCEPT ![w] = z]
  BY <1>1, <1>5, <1>7, <1>9 DEF IInv, Typed
<1>12. ASSUME NEW i \in DOMAIN q PROVE Under("binary", o.sponsor, q[i])
  <2>1. CASE i \in 1 .. Len(k) - 1
    <3>1. q[i] = k[i + 1] /\ i + 1 \in DOMAIN k
      BY <1>8, <2>1
    <3> QED BY <1>1, <1>2, <1>4, <3>1 DEF IInv, Landing
  <2>2. i \in 1 .. Len(k) - 1 \/ i = Len(k) \/ i = Len(k) + 1
    BY <1>8
  <2> QED BY <1>6, <1>8, <2>1, <2>2
<1>13. Landing(z)
  BY <1>4, <1>8, <1>10, <1>12 DEF Landing
<1> QED BY <1>10, <1>11, <1>13, SessionStep

LEMMA IInvStep == ASSUME IInv, [Next]_vars PROVE IInv'
<1>1. CASE UNCHANGED vars
  BY <1>1 DEF vars, IInv, Typed, Forest, Fits, Ancestry, Logged, SlotsHold, ChildrenAt, Landing, Under, Members, In
<1>2. ASSUME NEW t \in Trees, NEW u \in Users, CreateRoot(t, u) PROVE IInv'
  BY <1>2, IInvRoot
<1>3. ASSUME NEW w \in Workers, NEW t \in Trees, NEW u \in Users, NEW s \in Users, BeginAddMember(w, t, u, s) PROVE IInv'
  BY <1>3, IInvBegin
<1>4. ASSUME NEW w \in Workers, LocateBinarySlot(w) PROVE IInv'
  BY <1>4, IInvSearch, IInvTake DEF LocateBinarySlot
<1>5. ASSUME NEW w \in Workers, AddMember(w) PROVE IInv'
  BY <1>5, IInvAdd
<1>6. ASSUME NEW w \in Workers, RollBack(w) PROVE IInv'
  <2>1. Landing(Idle)
    BY DEF Landing
  <2> QED BY <1>6, <2>1, SessionStep DEF RollBack
<1> QED BY <1>1, <1>2, <1>3, <1>4, <1>5, <1>6 DEF Next

(* The inductive invariant.                                                *)
THEOREM Invariant == Spec => []IInv
BY InitIInv, IInvStep, PTL DEF Spec

-----------------------------------------------------------------------------
(* organization_nodes, organization_closure, binary_slots, the spillover    *)
(* log and every add_member under way keep their types, no closure row is   *)
(* longer than the deepest path.                                           *)
THEOREM TypeCorrect == Spec => []TypeOK
<1>1. IInv => TypeOK
  <2> SUFFICES ASSUME IInv PROVE TypeOK
    OBVIOUS
  <2>1. ASSUME NEW t \in Trees, NEW c \in closure[t] PROVE c.depth \in 0 .. MaxDepth
    <3>1. PICK u \in Members(t) : \E i \in DOMAIN node[t][u].path : c = PathRow(u, node[t][u].path, i)
      BY DEF IInv, Ancestry
    <3>2. PICK i \in DOMAIN node[t][u].path : c = PathRow(u, node[t][u].path, i)
      BY <3>1
    <3>3. Fits(t, u, node[t][u])
      BY DEF IInv, Forest
    <3>4. node[t][u].path \in Seq(Users) /\ node[t][u].depth \in 0 .. MaxDepth /\ Len(node[t][u].path) = node[t][u].depth + 1
      BY <3>3 DEF Fits, Row
    <3>5. i \in 1 .. node[t][u].depth + 1
      BY <3>4
    <3>6. c.depth = node[t][u].depth + 1 - i
      BY <3>2, <3>4 DEF PathRow
    <3> QED BY <3>4, <3>5, <3>6, OrganizationAssumption
  <2>2. closure \in [Trees -> SUBSET [ancestor : Users, descendant : Users, depth : 0 .. MaxDepth]]
    <3>1. closure \in [Trees -> SUBSET [ancestor : Users, descendant : Users, depth : Nat]]
      BY DEF IInv, Typed
    <3>2. \A t \in Trees : closure[t] \subseteq [ancestor : Users, descendant : Users, depth : 0 .. MaxDepth]
      BY <2>1, <3>1
    <3> QED BY <3>1, <3>2
  <2> QED BY <2>2 DEF IInv, Typed, TypeOK
<1> QED BY <1>1, Invariant, PTL

(* Paths, depths and closure rows describe the same forest, whatever is     *)
(* placed between the reads of a search and its insert: a new row copies    *)
(* the path and the closure rows of a parent whose own do not change.       *)
THEOREM AncestryHolds == Spec => []AncestryAgrees
<1>1. IInv => PathsFollowParents
  <2> SUFFICES ASSUME IInv, NEW t \in Trees, NEW u \in Members(t)
               PROVE  /\ node[t][u].depth = Len(node[t][u].path) - 1 /\ Last(node[t][u].path) = u
                      /\ IF node[t][u].parent = Nobody THEN node[t][u].depth = 0
                         ELSE In(t, node[t][u].parent) /\ Front(node[t][u].path) = node[t][node[t][u].parent].path
    BY DEF PathsFollowParents
  <2>1. Fits(t, u, node[t][u]) /\ u \in Users
    BY DEF IInv, Forest, Members
  <2>2. node[t][u].depth = Len(node[t][u].path) - 1 /\ Last(node[t][u].path) = u
    BY <2>1 DEF Fits, Last
  <2>3. ASSUME node[t][u].parent # Nobody PROVE Front(node[t][u].path) = node[t][node[t][u].parent].path
    <3>1. node[t][u].parent \in Users
      BY <2>1, <2>3 DEF Fits, Row
    <3>2. node[t][node[t][u].parent].path \in Seq(Users)
      BY <3>1 DEF IInv, Typed, Row
    <3>3. node[t][u].path = Append(node[t][node[t][u].parent].path, u)
      BY <2>1, <2>3 DEF Fits
    <3> QED BY <2>1, <3>2, <3>3, Appended
  <2> QED BY <2>1, <2>2, <2>3 DEF Fits
<1>2. IInv => ClosureIsAncestry
  <2> SUFFICES ASSUME IInv, NEW t \in Trees
               PROVE  closure[t] = UNION {{[ancestor |-> node[t][u].path[i], descendant |-> u,
                                            depth |-> Len(node[t][u].path) - i] : i \in DOMAIN node[t][u].path} :
                                            u \in Members(t)}
    BY DEF ClosureIsAncestry
  <2>1. \A c : c \in closure[t] <=>
                 \E u \in Members(t) : \E i \in DOMAIN node[t][u].path :
                   c = [ancestor |-> node[t][u].path[i], descendant |-> u, depth |-> Len(node[t][u].path) - i]
    BY DEF IInv, Ancestry, PathRow
  <2> QED BY <2>1
<1> QED BY <1>1, <1>2, Invariant, PTL DEF AncestryAgrees

(* The spillover log and the slot rows name the parents that nodes have.   *)
THEOREM PlacementsHold == Spec => []PlacementsRecorded
<1>1. IInv => SpilloversFollow
  <2> SUFFICES ASSUME IInv, NEW t \in Trees, NEW u \in Members(t), node[t][u].parent # Nobody
               PROVE  /\ Contains(Front(node[t][u].path), node[t][u].sponsor)
                      /\ (node[t][u].parent # node[t][u].sponsor)
                           = (\E s \in spillovers : s.tree = t /\ s.user = u /\ s.parent = node[t][u].parent)
    BY DEF SpilloversFollow
  <2>1. Fits(t, u, node[t][u]) /\ u \in Users
    BY DEF IInv, Forest, Members
  <2>2. node[t][node[t][u].parent].path \in Seq(Users)
    <3>1. node[t][u].parent \in Users
      BY <2>1 DEF Fits, Row
    <3> QED BY <3>1 DEF IInv, Typed, Row
  <2>3. Contains(Front(node[t][u].path), node[t][u].sponsor)
    <3>1. /\ node[t][u].path = Append(node[t][node[t][u].parent].path, u)
          /\ Contains(node[t][node[t][u].parent].path, node[t][u].sponsor)
      BY <2>1 DEF Fits
    <3>2. Front(node[t][u].path) = node[t][node[t][u].parent].path
      BY <2>1, <2>2, <3>1, Appended
    <3> QED BY <3>1, <3>2
  <2> QED BY <2>3 DEF IInv, Logged
<1>2. IInv => SlotsNameChildren
  BY DEF IInv, SlotsHold, SlotsNameChildren, Members
<1> QED BY <1>1, <1>2, Invariant, PTL DEF PlacementsRecorded

-----------------------------------------------------------------------------
(* A closure row is what says that one member lies below another.          *)
LEMMA Descends ==
  ASSUME IInv, NEW t \in Trees, NEW a, NEW u \in Users
  PROVE  (\E c \in closure[t] : c.ancestor = a /\ c.descendant = u) <=> Under(t, a, u)
<1>1. ASSUME NEW c \in closure[t], c.ancestor = a, c.descendant = u PROVE Under(t, a, u)
  <2>1. PICK v \in Members(t) : \E i \in DOMAIN node[t][v].path : c = PathRow(v, node[t][v].path, i)
    BY DEF IInv, Ancestry
  <2>2. PICK i \in DOMAIN node[t][v].path : c = PathRow(v, node[t][v].path, i)
    BY <2>1
  <2>3. v = u /\ node[t][v].path[i] = a
    BY <1>1, <2>2 DEF PathRow
  <2>4. In(t, u) /\ i \in 1 .. Len(node[t][u].path)
    BY <2>2, <2>3 DEF Members, IInv, Typed, Row
  <2> QED BY <2>3, <2>4 DEF Under, Contains
<1>2. ASSUME Under(t, a, u) PROVE \E c \in closure[t] : c.ancestor = a /\ c.descendant = u
  <2>1. PICK i \in 1 .. Len(node[t][u].path) : node[t][u].path[i] = a
    BY <1>2 DEF Under, Contains
  <2>2. u \in Members(t) /\ i \in DOMAIN node[t][u].path
    BY <1>2 DEF Under, Members, IInv, Typed, Row
  <2>3. PICK c : c = PathRow(u, node[t][u].path, i)
    OBVIOUS
  <2>4. c \in closure[t]
    BY <2>2, <2>3 DEF IInv, Ancestry
  <2>5. c.ancestor = a /\ c.descendant = u
    BY <2>1, <2>3 DEF PathRow
  <2> QED BY <2>4, <2>5
<1> QED BY <1>1, <1>2

(* Everybody is on the own path, and only members are on a path.           *)
LEMMA OnPath ==
  ASSUME IInv, NEW t \in Trees, NEW u \in Users, In(t, u)
  PROVE  Under(t, u, u) /\ \A a : Under(t, a, u) => In(t, a)
<1>1. Fits(t, u, node[t][u])
  BY DEF IInv, Forest, Members
<1>2. PICK n : n = node[t][u].depth
  OBVIOUS
<1>3. n \in Nat /\ Len(node[t][u].path) = n + 1 /\ node[t][u].path[n + 1] = u /\ node[t][u].path \in Seq(Users)
  BY <1>1, <1>2, OrganizationAssumption DEF Fits, Row
<1>4. Under(t, u, u)
  <2>1. n + 1 \in 1 .. Len(node[t][u].path)
    BY <1>3
  <2> QED BY <1>3, <2>1 DEF Under, Contains
<1>5. ASSUME NEW a, Under(t, a, u) PROVE In(t, a)
  <2>1. PICK i \in 1 .. n + 1 : node[t][u].path[i] = a
    BY <1>3, <1>5 DEF Under, Contains
  <2>2. CASE i = n + 1
    BY <1>3, <2>1, <2>2
  <2>3. CASE i \in 1 .. n
    BY <1>1, <1>2, <2>1, <2>3 DEF Fits
  <2> QED BY <1>3, <2>1, <2>2, <2>3
<1> QED BY <1>4, <1>5

LEMMA Reads ==
  ASSUME IInv, NEW access \in AccessContext, NEW id \in NodeId, NEW tree \in AllTrees,
         "kpi:read" \in PermissionsFor(access.roles), ~HasGlobalKpiAccess(access)
  PROVE  MayRead(access, id, tree) <=> Entitled(access, id, tree)
<1> DEFINE own == [tree |-> tree, user |-> access.user]
           named == {s.id : s \in {t \in access.scopes : t.tree \in {"any", tree}}}
<1>1. CASE ~(id.tree = tree /\ In(tree, id.user))
  BY <1>1 DEF MayRead, Entitled
<1>2. CASE id.tree = tree /\ In(tree, id.user)
  <2>1. tree \in Trees /\ id.user \in Users /\ access.user \in Users
    BY <1>2 DEF NodeId, AccessContext
  <2>2. \A c : IsDescendant(c, id, tree) <=> c.tree = tree /\ Under(tree, c.user, id.user)
    BY <1>2, <2>1, Descends DEF IsDescendant
  <2>3. Entitled(access, id, tree) <=> \E r \in Roots(access, tree) : r.tree = tree /\ Under(tree, r.user, id.user)
    BY <1>2 DEF Entitled, Under
  <2>4. CASE access.scopes = {}
    <3>1. MayRead(access, id, tree) <=> In(tree, access.user) /\ IsDescendant(own, id, tree)
      BY <1>2, <2>4 DEF MayRead
    <3>2. Entitled(access, id, tree) <=> Under(tree, access.user, id.user)
      BY <2>3, <2>4 DEF Roots
    <3>3. Under(tree, access.user, id.user) => In(tree, access.user)
      BY <1>2, <2>1, OnPath
    <3> QED BY <2>2, <3>1, <3>2, <3>3
  <2>5. CASE access.scopes # {}
    <3>1. named = AllowedKpiNodes(access, "any") \cup AllowedKpiNodes(access, tree)
      BY DEF AllowedKpiNodes
    <3>2. MayRead(access, id, tree) <=> id \in named \/ \E c \in named : IsDescendant(c, id, tree)
      BY <1>2, <2>5, <3>1 DEF MayRead, IsNodeInScope
    <3>3. Entitled(access, id, tree) <=> \E r \in named : r.tree = tree /\ Under(tree, r.user, id.user)
      BY <2>3, <2>5 DEF Roots
    <3>4. Under(tree, id.user, id.user)
      BY <1>2, <2>1, OnPath
    <3> HIDE DEF named
    <3> QED BY <1>2, <2>2, <3>2, <3>3, <3>4
  <2> QED BY <2>4, <2>5
<1> QED BY <1>1, <1>2

(* Whatever scopes a reader without global access has, it reads exactly    *)
(* those nodes that lie on or below what the scopes name or, without any,   *)
(* its own node: _enforce_access looks at closure rows, the property at     *)
(* the paths.                                                              *)
THEOREM ReadersHold ==
  Spec => [](/\ ReadersAreEntitled
             /\ \A access \in AccessContext, id \in NodeId, tree \in AllTrees :
                  ~HasGlobalKpiAccess(access) =>
                    (MayRead(access, id, tree)
                       <=> "kpi:read" \in PermissionsFor(access.roles) /\ Entitled(access, id, tree)))
<1>1. IInv => \A access \in AccessContext, id \in NodeId, tree \in AllTrees :
                ~HasGlobalKpiAccess(access) =>
                  (MayRead(access, id, tree)
                     <=> "kpi:read" \in PermissionsFor(access.roles) /\ Entitled(access, id, tree))
  <2> SUFFICES ASSUME IInv, NEW access \in AccessContext, NEW id \in NodeId, NEW tree \in AllTrees,
                      ~HasGlobalKpiAccess(access)
               PROVE  MayRead(access, id, tree)
                        <=> "kpi:read" \in PermissionsFor(access.roles) /\ Entitled(access, id, tree)
    OBVIOUS
  <2>1. MayRead(access, id, tree) => "kpi:read" \in PermissionsFor(access.roles)
    BY DEF MayRead
  <2> QED BY <2>1, Reads
<1>2. IInv => ReadersAreEntitled
  <2> SUFFICES ASSUME IInv, NEW u \in Users, NEW scopes \in {{}} \cup {{s} : s \in Scope}, NEW id \in NodeId,
                      NEW tree \in AllTrees, NEW access, access = [user |-> u, roles |-> {"support"}, scopes |-> scopes]
               PROVE  MayRead(access, id, tree) = Entitled(access, id, tree)
    BY DEF ReadersAreEntitled
  <2>1. access \in AccessContext /\ access.roles = {"support"}
    <3>1. {"support"} \in SUBSET DOMAIN RoleMatrix
      BY DEF RoleMatrix
    <3>2. scopes \in SUBSET Scope
      OBVIOUS
    <3> QED BY <3>1, <3>2 DEF AccessContext
  <2>2. PermissionsFor(access.roles) = {"kpi:read"}
    <3>1. RoleMatrix["support"] = {"kpi:read"}
      BY DEF RoleMatrix
    <3> QED BY <2>1, <3>1 DEF PermissionsFor
  <2>3. MayRead(access, id, tree) <=> Entitled(access, id, tree)
    BY <2>1, <2>2, Reads DEF HasGlobalKpiAccess
  <2> QED BY <2>3, Zenon DEF MayRead, Entitled
<1> QED BY <1>1, <1>2, Invariant, PTL

-----------------------------------------------------------------------------
(* ---- the search in the binary tree ---- *)
(* x and y part where x turns left and y right.                            *)
Turned(x, y) == \E i \in DOMAIN x \cap DOMAIN y : x[i] = "L" /\ y[i] = "R" /\ \A j \in 1 .. i - 1 : x[j] = y[j]

(* The order of a queue: a level from left to right, then the next.        *)
InOrder(u, v) ==
  \/ Len(Turns(u)) = Len(Turns(v)) /\ Turned(Turns(u), Turns(v))
  \/ Len(Turns(v)) = Len(Turns(u)) + 1 /\ Turned(Turns(v), Turns(u))

Open(s, v, p) == v \in Users /\ p \in Positions /\ Under("binary", s, v) /\ ChildrenAt(v, p) = {}

Earlier(u, p, v, r) ==
  LET x == Append(Turns(u), p)
      y == Append(Turns(v), r) IN
  Len(x) < Len(y) \/ (Len(x) = Len(y) /\ Turned(x, y))

(* As long as no slot is shared, what is open lies below the queue, and    *)
(* what was found comes first.                                             *)
Searching(o) ==
  o.queue # <<>> /\ OneChildPerSlot =>
    /\ \A v \in Users, p \in Positions : Open(o.sponsor, v, p) => \E i \in DOMAIN o.queue : Under("binary", o.queue[i], v)
    /\ \A i, j \in DOMAIN o.queue : i < j => InOrder(o.queue[i], o.queue[j])

Found(o) ==
  o.tree = "binary" /\ o.queue = <<>> /\ OneChildPerSlot =>
    \A v \in Users, p \in Positions :
      Open(o.sponsor, v, p) /\ ~(v = o.parent /\ p = o.position) => Earlier(o.parent, o.position, v, p)

SearchInv == "binary" \in Trees => \A w \in Workers : Searching(session[w]) /\ Found(session[w])

Turn == Positions \cup {"none"}

LEMMA Turnings ==
  ASSUME NEW x \in Seq(Turn), NEW y \in Seq(Turn), Turned(x, y), NEW a \in Turn, NEW b \in Turn
  PROVE  Turned(Append(x, a), y) /\ Turned(x, Append(y, b)) /\ Turned(Append(x, a), Append(y, b))
<1>1. PICK i \in DOMAIN x \cap DOMAIN y : x[i] = "L" /\ y[i] = "R" /\ \A j \in 1 .. i - 1 : x[j] = y[j]
  BY DEF Turned
<1>2. PICK v : v = Append(x, a)
  OBVIOUS
<1>3. PICK z : z = Append(y, b)
  OBVIOUS
<1>4. /\ DOMAIN x = 1 .. Len(x) /\ DOMAIN v = 1 .. Len(x) + 1 /\ Len(x) \in Nat
      /\ \A j \in 1 .. Len(x) : v[j] = x[j]
  BY <1>2, Appended
<1>5. /\ DOMAIN y = 1 .. Len(y) /\ DOMAIN z = 1 .. Len(y) + 1 /\ Len(y) \in Nat
      /\ \A j \in 1 .. Len(y) : z[j] = y[j]
  BY <1>3, Appended
<1>6. i \in DOMAIN v /\ v[i] = "L" /\ i \in 1 .. Len(x) /\ \A j \in 1 .. i - 1 : v[j] = x[j]
  BY <1>1, <1>4
<1>7. i \in DOMAIN z /\ z[i] = "R" /\ \A j \in 1 .. i - 1 : z[j] = y[j]
  BY <1>1, <1>5
<1>8. Turned(v, y)
  BY <1>1, <1>6 DEF Turned
<1>9. Turned(x, z)
  BY <1>1, <1>7 DEF Turned
<1>10. Turned(v, z)
  BY <1>1, <1>6, <1>7 DEF Turned
<1> QED BY <1>2, <1>3, <1>8, <1>9, <1>10

LEMMA Forks ==
  ASSUME NEW x \in Seq(Turn)
  PROVE  Turned(Append(x, "L"), Append(x, "R"))
<1>1. PICK l : l = Append(x, "L")
  OBVIOUS
<1>2. PICK r : r = Append(x, "R")
  OBVIOUS
<1>3. Len(x) \in Nat /\ DOMAIN l = 1 .. Len(x) + 1 /\ l[Len(x) + 1] = "L" /\ \A j \in 1 .. Len(x) : l[j] = x[j]
  BY <1>1, Appended DEF Turn, Positions
<1>4. DOMAIN r = 1 .. Len(x) + 1 /\ r[Len(x) + 1] = "R" /\ \A j \in 1 .. Len(x) : r[j] = x[j]
  BY <1>2, Appended DEF Turn, Positions
<1>5. PICK i : i = Len(x) + 1
  OBVIOUS
<1>6. i \in DOMAIN l \cap DOMAIN r /\ l[i] = "L" /\ r[i] = "R" /\ \A j \in 1 .. i - 1 : l[j] = r[j]
  BY <1>3, <1>4, <1>5
<1>7. Turned(l, r)
  BY <1>6 DEF Turned
<1> QED BY <1>1, <1>2, <1>7

LEMMA TurnsOf ==
  ASSUME IInv, "binary" \in Trees, NEW u \in Users, In("binary", u)
  PROVE  /\ node["binary"][u].path \in Seq(Users) /\ DOMAIN node["binary"][u].path = 1 .. Len(node["binary"][u].path)
         /\ Len(node["binary"][u].path) \in Nat \ {0}
         /\ Turns(u) \in Seq(Turn) /\ Len(Turns(u)) = Len(node["binary"][u].path)
<1>1. Fits("binary", u, node["binary"][u])
  BY DEF IInv, Forest, Members
<1>2. PICK path : path = node["binary"][u].path
  OBVIOUS
<1>3. PICK n : n = Len(path)
  OBVIOUS
<1>4. path \in Seq(Users) /\ n \in Nat \ {0} /\ DOMAIN path = 1 .. n
  BY <1>1, <1>2, <1>3, OrganizationAssumption DEF Fits, Row
<1>5. Turns(u) = [i \in 1 .. n |-> node["binary"][path[i]].position]
  BY <1>2, <1>4 DEF Turns
<1>6. \A i \in 1 .. n : node["binary"][path[i]].position \in Turn
  BY <1>4 DEF IInv, Typed, Row, Turn
<1>7. Turns(u) \in [1 .. n -> Turn]
  BY <1>5, <1>6
<1>8. Turns(u) \in Seq(Turn) /\ Len(Turns(u)) = n
  BY <1>4, <1>7
<1> QED BY <1>2, <1>3, <1>4, <1>8

LEMMA TurnsChild ==
  ASSUME IInv, "binary" \in Trees, NEW u \in Users, In("binary", u), NEW p \in Positions, NEW c \in ChildrenAt(u, p)
  PROVE  c \in Users /\ In("binary", c) /\ Turns(c) = Append(Turns(u), p)
<1>1. Under("binary", u, u)
  BY OnPath
<1>2. /\ c \in Users /\ In("binary", c) /\ node["binary"][c].position = p
      /\ node["binary"][c].path = Append(node["binary"][u].path, c)
  BY <1>1, ChildUnder
<1>3. PICK a : a = node["binary"][u].path
  OBVIOUS
<1>4. PICK b : b = node["binary"][c].path
  OBVIOUS
<1>5. PICK n : n = Len(a)
  OBVIOUS
<1>6. a \in Seq(Users) /\ n \in Nat \ {0} /\ DOMAIN a = 1 .. n /\ Turns(u) \in Seq(Turn) /\ Len(Turns(u)) = n
  BY <1>3, <1>5, TurnsOf
<1>7. b = Append(a, c)
  BY <1>2, <1>3, <1>4
<1>8. DOMAIN b = 1 .. n + 1 /\ b[n + 1] = c /\ (\A i \in 1 .. n : b[i] = a[i]) /\ Len(b) = n + 1
  BY <1>2, <1>5, <1>6, <1>7, Appended
<1>9. Turns(u) = [i \in 1 .. n |-> node["binary"][a[i]].position]
  BY <1>3, <1>6 DEF Turns
<1>10. Turns(c) = [i \in 1 .. n + 1 |-> node["binary"][b[i]].position]
  BY <1>4, <1>8 DEF Turns
<1>11. PICK x : x = Turns(u)
  OBVIOUS
<1>12. PICK y : y = Append(x, p)
  OBVIOUS
<1>13. y \in Seq(Turn) /\ Len(y) = n + 1 /\ y[n + 1] = p /\ \A i \in 1 .. n : y[i] = x[i]
  BY <1>6, <1>11, <1>12, Appended DEF Turn
<1>14. Turns(c) \in Seq(Turn) /\ Len(Turns(c)) = n + 1
  BY <1>2, <1>4, <1>8, TurnsOf
<1>15. \A i \in 1 .. n + 1 : Turns(c)[i] = y[i]
  <2> TAKE i \in 1 .. n + 1
  <2>1. CASE i \in 1 .. n
    BY <1>8, <1>9, <1>10, <1>11, <1>13, <2>1
  <2>2. CASE i = n + 1
    BY <1>2, <1>8, <1>10, <1>13, <2>2
  <2> QED BY <1>6, <2>1, <2>2
<1>16. Turns(c) = y
  BY <1>13, <1>14, <1>15, SeqEqual
<1> QED BY <1>2, <1>11, <1>12, <1>16

(* Who lies below u lies deeper, below a child of u.                       *)
LEMMA ChildOnWay ==
  ASSUME IInv, "binary" \in Trees, NEW u \in Users, NEW v \in Users, Under("binary", u, v), v # u
  PROVE  /\ Len(node["binary"][u].path) < Len(node["binary"][v].path)
         /\ \E p \in Positions : \E c \in ChildrenAt(u, p) : Under("binary", c, v)
<1>1. PICK b : b = node["binary"][v].path
  OBVIOUS
<1>2. In("binary", v) /\ Fits("binary", v, node["binary"][v])
  BY DEF Under, IInv, Forest, Members
<1>3. PICK n : n = node["binary"][v].depth
  OBVIOUS
<1>4. n \in Nat /\ Len(b) = n + 1 /\ b[n + 1] = v /\ b \in Seq(Users)
  BY <1>1, <1>2, <1>3, OrganizationAssumption DEF Fits, Row
<1>5. PICK i \in 1 .. n + 1 : b[i] = u
  BY <1>1, <1>4 DEF Under, Contains
<1>6. i \in 1 .. n
  BY <1>4, <1>5
<1>7. Len(node["binary"][u].path) = i
  BY <1>1, <1>2, <1>3, <1>5, <1>6 DEF Fits
<1>8. PICK c : c = b[i + 1]
  OBVIOUS
<1>9. i + 1 \in 1 .. n + 1 /\ c \in Users
  BY <1>4, <1>6, <1>8
<1>10. /\ In("binary", c) /\ Len(node["binary"][c].path) = i + 1 /\ Under("binary", c, v)
       /\ \A j \in 1 .. i + 1 : node["binary"][c].path[j] = b[j]
  <2>1. Contains(b, c)
    BY <1>4, <1>8, <1>9 DEF Contains
  <2>2. CASE i + 1 = n + 1
    BY <1>1, <1>2, <1>4, <1>8, <2>1, <2>2 DEF Under
  <2>3. CASE i + 1 \in 1 .. n
    <3>1. /\ In("binary", c) /\ Len(node["binary"][c].path) = i + 1
          /\ \A j \in 1 .. i + 1 : node["binary"][c].path[j] = b[j]
      BY <1>1, <1>2, <1>3, <1>8, <2>3 DEF Fits
    <3> QED BY <1>1, <1>2, <2>1, <3>1 DEF Under
  <2> QED BY <1>4, <1>6, <2>2, <2>3
<1>11. Fits("binary", c, node["binary"][c])
  BY <1>9, <1>10 DEF IInv, Forest, Members
<1>12. PICK a : a = node["binary"][c].parent
  OBVIOUS
<1>13. node["binary"][c].depth = i
  BY <1>6, <1>10, <1>11 DEF Fits
<1>14. a # Nobody /\ a \in Users /\ In("binary", a) /\ node["binary"][c].position \in Positions
       /\ node["binary"][c].path = Append(node["binary"][a].path, c)
  <2>1. a # Nobody
    BY <1>6, <1>11, <1>12, <1>13 DEF Fits
  <2> QED BY <1>11, <1>12, <2>1 DEF Fits, Row
<1>15. a = u
  <2>1. Fits("binary", a, node["binary"][a]) /\ node["binary"][a].path \in Seq(Users)
    BY <1>14 DEF IInv, Forest, Members, Typed, Row
  <2>2. /\ Len(node["binary"][c].path) = Len(node["binary"][a].path) + 1 /\ Len(node["binary"][a].path) \in Nat
        /\ \A j \in 1 .. Len(node["binary"][a].path) : node["binary"][c].path[j] = node["binary"][a].path[j]
    BY <1>9, <1>14, <2>1, Appended
  <2>3. Len(node["binary"][a].path) = i
    BY <1>6, <1>10, <2>2
  <2>4. node["binary"][a].path[i] = a
    BY <2>1, <2>3 DEF Fits
  <2>5. node["binary"][a].path[i] = b[i]
    BY <1>6, <1>10, <2>2, <2>3
  <2> QED BY <1>5, <2>4, <2>5
<1>16. c \in ChildrenAt(u, node["binary"][c].position)
  BY <1>9, <1>10, <1>12, <1>15 DEF ChildrenAt, Members
<1> QED BY <1>1, <1>4, <1>6, <1>7, <1>10, <1>14, <1>16

LEMMA TreeGrows ==
  ASSUME IInv, "binary" \in Trees, NEW t \in Trees, NEW u \in Users, NEW row, CreateNode(t, u, row), Fits(t, u, row)
  PROVE  /\ \A v \in Users : In("binary", v) =>
              In("binary", v)' /\ node'["binary"][v] = node["binary"][v] /\ Turns(v)' = Turns(v)
         /\ \A v \in Users, p \in Positions : ChildrenAt(v, p) \subseteq ChildrenAt(v, p)'
         /\ OneChildPerSlot' => OneChildPerSlot
<1>1. \A v \in Users : In("binary", v) => In("binary", v)' /\ node'["binary"][v] = node["binary"][v]
  BY Grown DEF IInv
<1>2. ASSUME NEW v \in Users, In("binary", v) PROVE Turns(v)' = Turns(v)
  <2>1. PICK path : path = node["binary"][v].path
    OBVIOUS
  <2>2. node'["binary"][v].path = path
    BY <1>1, <1>2, <2>1
  <2>3. path \in Seq(Users) /\ DOMAIN path = 1 .. Len(path)
    BY <1>2, <2>1, TurnsOf
  <2>4. \A i \in DOMAIN path : path[i] \in Users /\ In("binary", path[i])
    <3> TAKE i \in DOMAIN path
    <3>1. path[i] \in Users /\ Under("binary", path[i], v)
      BY <1>2, <2>1, <2>3 DEF Under, Contains
    <3> QED BY <1>2, <3>1, OnPath
  <2>5. \A i \in DOMAIN path : node'["binary"][path[i]].position = node["binary"][path[i]].position
    BY <1>1, <2>4
  <2>6. Turns(v) = [i \in DOMAIN path |-> node["binary"][path[i]].position]
    BY <2>1 DEF Turns
  <2>7. Turns(v)' = [i \in DOMAIN path |-> node'["binary"][path[i]].position]
    BY <2>2 DEF Turns
  <2> QED BY <2>5, <2>6, <2>7
<1>3. ASSUME NEW v \in Users, NEW p \in Positions, NEW c \in ChildrenAt(v, p) PROVE c \in ChildrenAt(v, p)'
  BY <1>1 DEF ChildrenAt, Members
<1>4. OneChildPerSlot' => OneChildPerSlot
  <2> SUFFICES ASSUME OneChildPerSlot', NEW v \in Members("binary"), NEW p \in Positions,
                      NEW c \in ChildrenAt(v, p), NEW d \in ChildrenAt(v, p)
               PROVE  c = d
    BY DEF OneChildPerSlot
  <2>1. v \in Members("binary")'
    BY <1>1 DEF Members
  <2>2. c \in ChildrenAt(v, p)' /\ d \in ChildrenAt(v, p)'
    BY <1>3 DEF Members
  <2> QED BY <2>1, <2>2 DEF OneChildPerSlot
<1> QED BY <1>1, <1>2, <1>3, <1>4

(* What is open was open before, or hangs on a slot that was.              *)
LEMMA OpenBefore ==
  ASSUME IInv, "binary" \in Trees, NEW t \in Trees, NEW u \in Users, NEW row, CreateNode(t, u, row), Fits(t, u, row),
         OneChildPerSlot', NEW s \in Users, In("binary", s), NEW v, NEW p, Open(s, v, p)'
  PROVE  /\ v \in Users /\ p \in Positions
         /\ \/ Open(s, v, p)
            \/ /\ v = u /\ t = "binary" /\ row.parent \in Users /\ row.position \in Positions
               /\ Open(s, row.parent, row.position)
<1>1. v \in Users /\ p \in Positions /\ Under("binary", s, v)' /\ ChildrenAt(v, p)' = {}
  BY DEF Open
<1>2. CASE In("binary", v)
  <2>1. Under("binary", s, v)
    BY <1>1, <1>2, TreeGrows DEF Under
  <2>2. ChildrenAt(v, p) = {}
    BY <1>1, TreeGrows
  <2> QED BY <1>1, <2>1, <2>2 DEF Open
<1>3. CASE ~In("binary", v)
  <2>1. t = "binary" /\ v = u /\ node'["binary"][u] = row
    BY <1>1, <1>3, Grown DEF IInv, Under
  <2>2. Contains(row.path, s) /\ s # u
    BY <1>1, <1>3, <2>1 DEF Under
  <2>3. row.parent # Nobody
    <3>1. ASSUME row.parent = Nobody PROVE FALSE
      <4>1. Len(row.path) = 1 /\ row.path[1] = u
        BY <3>1 DEF Fits
      <4>2. 1 .. Len(row.path) = {1}
        BY <4>1
      <4> QED BY <2>2, <4>1, <4>2 DEF Contains
    <3> QED BY <3>1
  <2>4. /\ row.parent \in Users /\ row.position \in Positions /\ In("binary", row.parent)
        /\ row.path = Append(node["binary"][row.parent].path, u)
    BY <2>1, <2>3 DEF Fits, Row
  <2>5. Under("binary", s, row.parent)
    <3>1. node["binary"][row.parent].path \in Seq(Users)
      BY <2>4, TurnsOf
    <3>2. Contains(node["binary"][row.parent].path, s)
      BY <2>2, <2>4, <3>1, Appended
    <3> QED BY <2>4, <3>2 DEF Under
  <2>6. ChildrenAt(row.parent, row.position) = {}
    <3> SUFFICES ASSUME NEW c \in ChildrenAt(row.parent, row.position) PROVE FALSE
      OBVIOUS
    <3>1. In("binary", u)'
      BY <2>1, Grown DEF IInv
    <3>2. u \in ChildrenAt(row.parent, row.position)'
      BY <2>1, <3>1 DEF ChildrenAt, Members
    <3>3. c \in ChildrenAt(row.parent, row.position)'
      BY <2>4, TreeGrows
    <3>4. row.parent \in Members("binary")'
      BY <2>4, TreeGrows DEF Members
    <3>5. c = u
      BY <2>4, <3>2, <3>3, <3>4 DEF OneChildPerSlot
    <3> QED BY <1>3, <2>1, <3>5 DEF ChildrenAt, Members
  <2> QED BY <1>1, <2>1, <2>4, <2>5, <2>6 DEF Open
<1> QED BY <1>2, <1>3

LEMMA SearchingStays ==
  ASSUME IInv, "binary" \in Trees, NEW t \in Trees, NEW u \in Users, NEW row, CreateNode(t, u, row), Fits(t, u, row),
         NEW o \in Call, o.tree = "binary", Landing(o), Searching(o)
  PROVE  Searching(o)'
<1> SUFFICES ASSUME o.queue # <<>>, OneChildPerSlot'
             PROVE  /\ \A v \in Users, p \in Positions :
                         Open(o.sponsor, v, p)' => \E i \in DOMAIN o.queue : Under("binary", o.queue[i], v)'
                    /\ \A i, j \in DOMAIN o.queue : i < j => InOrder(o.queue[i], o.queue[j])'
  BY DEF Searching
<1>1. o # Idle /\ o.sponsor \in Users /\ o.queue \in Seq(Users)
  BY DEF Call, Idle
<1>2. In("binary", o.sponsor) /\ \A i \in DOMAIN o.queue : o.queue[i] \in Users /\ In("binary", o.queue[i])
  BY <1>1 DEF Landing, Under
<1>3. OneChildPerSlot
  BY TreeGrows
<1>4. ASSUME NEW v \in Users, NEW p \in Positions, Open(o.sponsor, v, p)'
      PROVE  \E i \in DOMAIN o.queue : Under("binary", o.queue[i], v)'
  <2>1. CASE Open(o.sponsor, v, p)
    <3>1. PICK i \in DOMAIN o.queue : Under("binary", o.queue[i], v)
      BY <1>3, <2>1 DEF Searching
    <3>2. Under("binary", o.queue[i], v)'
      BY <3>1, UnderStays DEF IInv
    <3> QED BY <3>2
  <2>2. CASE v = u /\ t = "binary" /\ row.parent \in Users /\ row.position \in Positions
             /\ Open(o.sponsor, row.parent, row.position)
    <3>1. PICK i \in DOMAIN o.queue : Under("binary", o.queue[i], row.parent)
      BY <1>3, <2>2 DEF Searching
    <3>2. row.path = Append(node["binary"][row.parent].path, u)
      BY <2>2, OrganizationAssumption DEF Fits
    <3>3. node["binary"][row.parent].path \in Seq(Users)
      BY <2>2, <3>1, TurnsOf DEF Under
    <3>4. Contains(row.path, o.queue[i])
      BY <3>1, <3>2, <3>3, Appended DEF Under
    <3>5. Under("binary", o.queue[i], v)'
      BY <2>2, <3>4, Grown DEF IInv, Under
    <3> QED BY <3>5
  <2> QED BY <1>1, <1>2, <1>4, <2>1, <2>2, OpenBefore
<1>5. ASSUME NEW i \in DOMAIN o.queue, NEW j \in DOMAIN o.queue, i < j PROVE InOrder(o.queue[i], o.queue[j])'
  <2>1. InOrder(o.queue[i], o.queue[j])
    BY <1>3, <1>5 DEF Searching
  <2>2. Turns(o.queue[i])' = Turns(o.queue[i]) /\ Turns(o.queue[j])' = Turns(o.queue[j])
    BY <1>2, TreeGrows
  <2> QED BY <2>1, <2>2 DEF InOrder
<1> QED BY <1>4, <1>5

LEMMA FoundStays ==
  ASSUME IInv, "binary" \in Trees, NEW t \in Trees, NEW u \in Users, NEW row, CreateNode(t, u, row), Fits(t, u, row),
         NEW o \in Call, o.tree = "binary", Landing(o), Found(o)
  PROVE  Found(o)'
<1> SUFFICES ASSUME o.queue = <<>>, OneChildPerSlot', NEW v \in Users, NEW p \in Positions,
                    Open(o.sponsor, v, p)', ~(v = o.parent /\ p = o.position)
             PROVE  Earlier(o.parent, o.position, v, p)'
  BY DEF Found
<1>1. /\ o.sponsor \in Users /\ In("binary", o.sponsor) /\ o.parent \in Users /\ In("binary", o.parent)
      /\ o.position \in Positions
  BY DEF Call, Idle, Landing, Under
<1>2. OneChildPerSlot
  BY TreeGrows
<1>3. Turns(o.parent)' = Turns(o.parent) /\ Turns(o.parent) \in Seq(Turn)
  BY <1>1, TreeGrows, TurnsOf
<1>4. CASE Open(o.sponsor, v, p)
  <2>1. Earlier(o.parent, o.position, v, p)
    BY <1>2, <1>4 DEF Found
  <2>2. Turns(v)' = Turns(v)
    BY <1>4, TreeGrows DEF Open, Under
  <2> QED BY <1>3, <2>1, <2>2 DEF Earlier
<1>5. CASE v = u /\ t = "binary" /\ row.parent \in Users /\ row.position \in Positions
           /\ Open(o.sponsor, row.parent, row.position)
  <2>1. PICK x : x = Turns(o.parent)
    OBVIOUS
  <2>2. PICK a : a = Turns(row.parent)
    OBVIOUS
  <2>3. PICK z : z = Turns(u)'
    OBVIOUS
  <2>4. x \in Seq(Turn) /\ a \in Seq(Turn) /\ Len(a) = Len(node["binary"][row.parent].path)
        /\ node["binary"][row.parent].path \in Seq(Users)
    BY <1>3, <1>5, <2>1, <2>2, TurnsOf DEF Open, Under
  <2>5. row.path = Append(node["binary"][row.parent].path, u) /\ row.path \in Seq(Users)
    BY <1>5, OrganizationAssumption DEF Fits, Row
  <2>6. Len(row.path) = Len(a) + 1 /\ Len(a) \in Nat /\ DOMAIN row.path = 1 .. Len(a) + 1
    BY <2>4, <2>5, Appended
  <2>7. z \in Seq(Turn) /\ Len(z) = Len(a) + 1
    <3>1. PICK b : b = row.path
      OBVIOUS
    <3>2. node'["binary"][u] = row /\ node' \in [Trees -> [Users -> Row]]
      BY <1>5, Grown DEF IInv
    <3>3. z = [i \in 1 .. Len(a) + 1 |-> node'["binary"][b[i]].position]
      BY <2>3, <2>6, <3>1, <3>2 DEF Turns
    <3>4. \A i \in 1 .. Len(a) + 1 : node'["binary"][b[i]].position \in Turn
      <4>1. \A i \in 1 .. Len(a) + 1 : b[i] \in Users
        BY <2>5, <2>6, <3>1
      <4> QED BY <3>2, <4>1 DEF Row, Turn
    <3>5. z \in [1 .. Len(a) + 1 -> Turn]
      BY <3>3, <3>4
    <3> QED BY <2>6, <3>5
  <2>8. /\ Len(Append(x, o.position)) = Len(x) + 1 /\ Len(Append(a, row.position)) = Len(a) + 1
        /\ Len(Append(z, p)) = Len(z) + 1 /\ Len(x) \in Nat
    BY <1>1, <1>5, <2>4, <2>7, Appended DEF Turn
  <2>9. Len(x) <= Len(a)
    <3>1. CASE row.parent = o.parent
      BY <2>1, <2>2, <2>8, <3>1
    <3>2. CASE row.parent # o.parent
      <4>1. Earlier(o.parent, o.position, row.parent, row.position)
        BY <1>2, <1>5, <3>2 DEF Found
      <4> QED BY <2>1, <2>2, <2>6, <2>8, <4>1 DEF Earlier
    <3> QED BY <3>1, <3>2
  <2>10. Len(Append(x, o.position)) < Len(Append(z, p))
    BY <2>6, <2>7, <2>8, <2>9
  <2>11. Len(Append(Turns(o.parent)', o.position)) < Len(Append(Turns(v)', p))
    BY <1>3, <1>5, <2>1, <2>3, <2>10
  <2> QED BY <2>11 DEF Earlier
<1> QED BY <1>1, <1>4, <1>5, OpenBefore

(* The candidate's children go behind the queue.                           *)
LEMMA Enqueued ==
  ASSUME IInv, "binary" \in Trees, NEW u \in Users, In("binary", u), NEW v \in Users, In("binary", v), InOrder(u, v),
         NEW p \in Positions, NEW c \in ChildrenAt(u, p)
  PROVE  InOrder(v, c)
<1>1. PICK x : x = Turns(u)
  OBVIOUS
<1>2. PICK y : y = Turns(v)
  OBVIOUS
<1>3. PICK z : z = Turns(c)
  OBVIOUS
<1>4. x \in Seq(Turn) /\ y \in Seq(Turn) /\ z = Append(x, p) /\ p \in Turn
  BY <1>1, <1>2, <1>3, TurnsOf, TurnsChild DEF Turn
<1>5. Len(z) = Len(x) + 1 /\ Len(x) \in Nat /\ Len(y) \in Nat
  BY <1>4, Appended
<1>6. \/ Len(x) = Len(y) /\ Turned(x, y)
      \/ Len(y) = Len(x) + 1 /\ Turned(y, x)
  BY <1>1, <1>2 DEF InOrder
<1>7. CASE Len(x) = Len(y) /\ Turned(x, y)
  <2>1. Turned(z, y)
    BY <1>4, <1>7, Turnings
  <2>2. Len(z) = Len(y) + 1
    BY <1>5, <1>7
  <2> QED BY <1>2, <1>3, <2>1, <2>2 DEF InOrder
<1>8. CASE Len(y) = Len(x) + 1 /\ Turned(y, x)
  <2>1. Turned(y, z)
    BY <1>4, <1>8, Turnings
  <2>2. Len(y) = Len(z)
    BY <1>5, <1>8
  <2> QED BY <1>2, <1>3, <2>1, <2>2 DEF InOrder
<1> QED BY <1>6, <1>7, <1>8

LEMMA SearchOnFinds ==
  ASSUME IInv, "binary" \in Trees, NEW o \in Call, o.tree = "binary", o.queue # <<>>, Landing(o), Searching(o),
         NEW l \in ChildrenAt(Head(o.queue), "L"), NEW r \in ChildrenAt(Head(o.queue), "R"),
         NEW z \in Call, z.sponsor = o.sponsor, z.queue = QueueAfter(o.queue, l, r)
  PROVE  Searching(z)
<1> SUFFICES ASSUME OneChildPerSlot
             PROVE  /\ \A v \in Users, p \in Positions :
                         Open(o.sponsor, v, p) => \E i \in DOMAIN z.queue : Under("binary", z.queue[i], v)
                    /\ \A i, j \in DOMAIN z.queue : i < j => InOrder(z.queue[i], z.queue[j])
  BY DEF Searching
<1>1. PICK k : k = o.queue
  OBVIOUS
<1>2. PICK q : q = z.queue
  OBVIOUS
<1>3. PICK u : u = Head(k)
  OBVIOUS
<1>4. PICK n : n = Len(k)
  OBVIOUS
<1>5. k \in Seq(Users) /\ k # <<>> /\ u = k[1] /\ n \in Nat \ {0} /\ DOMAIN k = 1 .. n
  BY <1>1, <1>3, <1>4 DEF Call
<1>6. o # Idle /\ \A i \in 1 .. n : k[i] \in Users /\ In("binary", k[i])
  BY <1>1, <1>5 DEF Landing, Under, Idle
<1>7. u \in Users /\ In("binary", u)
  BY <1>5, <1>6
<1>8. l \in ChildrenAt(u, "L") /\ r \in ChildrenAt(u, "R") /\ "L" \in Positions /\ "R" \in Positions
  BY <1>1, <1>3 DEF Positions
<1>9. l \in Users /\ In("binary", l) /\ Turns(l) = Append(Turns(u), "L")
  BY <1>7, <1>8, TurnsChild
<1>10. r \in Users /\ In("binary", r) /\ Turns(r) = Append(Turns(u), "R")
  BY <1>7, <1>8, TurnsChild
<1>11. /\ DOMAIN q = 1 .. n + 1 /\ q[n] = l /\ q[n + 1] = r
       /\ \A i \in 1 .. n - 1 : q[i] = k[i + 1]
  <2>1. Follows(k, l, r, q)
    BY <1>1, <1>2, <1>5, <1>9, <1>10, NextQueue
  <2> QED BY <1>4, <2>1 DEF Follows
<1>12. \A i \in 1 .. n, j \in 1 .. n : i < j => InOrder(k[i], k[j])
  BY <1>1, <1>5 DEF Searching
<1>13. ASSUME NEW v \in Users, NEW p \in Positions, Open(o.sponsor, v, p)
       PROVE  \E i \in DOMAIN q : Under("binary", q[i], v)
  <2>1. PICK i \in 1 .. n : Under("binary", k[i], v)
    BY <1>1, <1>5, <1>13 DEF Searching
  <2>2. CASE i # 1
    <3>1. PICK h : h = i - 1
      OBVIOUS
    <3>2. h \in 1 .. n - 1 /\ h + 1 = i /\ h \in 1 .. n + 1
      BY <1>5, <2>1, <2>2, <3>1
    <3>3. q[h] = k[i]
      BY <1>11, <3>2
    <3> QED BY <1>11, <2>1, <3>2, <3>3
  <2>3. CASE i = 1
    <3>1. Under("binary", u, v)
      BY <1>5, <2>1, <2>3
    <3>2. v # u
      BY <1>8, <1>13 DEF Open, Positions
    <3>3. PICK s \in Positions : \E c \in ChildrenAt(u, s) : Under("binary", c, v)
      BY <1>7, <3>1, <3>2, ChildOnWay
    <3>4. PICK c \in ChildrenAt(u, s) : Under("binary", c, v)
      BY <3>3
    <3>5. u \in Members("binary") /\ n \in 1 .. n + 1 /\ n + 1 \in 1 .. n + 1
      BY <1>5, <1>7 DEF Members
    <3>6. CASE s = "L"
      <4>1. c = l
        BY <1>8, <3>4, <3>5, <3>6 DEF OneChildPerSlot
      <4> QED BY <1>11, <3>4, <3>5, <4>1
    <3>7. CASE s = "R"
      <4>1. c = r
        BY <1>8, <3>4, <3>5, <3>7 DEF OneChildPerSlot
      <4> QED BY <1>11, <3>4, <3>5, <4>1
    <3> QED BY <3>6, <3>7 DEF Positions
  <2> QED BY <2>2, <2>3
<1>14. ASSUME NEW i \in DOMAIN q, NEW j \in DOMAIN q, i < j PROVE InOrder(q[i], q[j])
  <2>1. i \in 1 .. n + 1 /\ j \in 1 .. n + 1
    BY <1>11
  <2>2. ASSUME i \in 1 .. n - 1
        PROVE  /\ q[i] \in Users /\ In("binary", q[i]) /\ InOrder(u, q[i])
    <3>1. i + 1 \in 1 .. n /\ 1 < i + 1 /\ 1 \in 1 .. n /\ q[i] = k[i + 1]
      BY <1>5, <1>11, <2>2
    <3> QED BY <1>5, <1>6, <1>12, <3>1
  <2>3. CASE j \in 1 .. n - 1
    <3>1. i \in 1 .. n - 1 /\ i + 1 \in 1 .. n /\ j + 1 \in 1 .. n /\ i + 1 < j + 1
      BY <1>5, <1>14, <2>1, <2>3
    <3>2. q[i] = k[i + 1] /\ q[j] = k[j + 1]
      BY <1>11, <2>3, <3>1
    <3> QED BY <1>12, <3>1, <3>2
  <2>4. CASE j = n
    <3>1. i \in 1 .. n - 1
      BY <1>5, <1>14, <2>1, <2>4
    <3>2. InOrder(q[i], l)
      BY <1>7, <1>8, <2>2, <3>1, Enqueued
    <3> QED BY <1>11, <2>4, <3>2
  <2>5. CASE j = n + 1 /\ i \in 1 .. n - 1
    <3>1. InOrder(q[i], r)
      BY <1>7, <1>8, <2>2, <2>5, Enqueued
    <3> QED BY <1>11, <2>5, <3>1
  <2>6. CASE j = n + 1 /\ i = n
    <3>1. PICK x : x = Turns(u)
      OBVIOUS
    <3>2. x \in Seq(Turn) /\ Turns(l) = Append(x, "L") /\ Turns(r) = Append(x, "R")
      BY <1>7, <1>9, <1>10, <3>1, TurnsOf
    <3>3. Turned(Append(x, "L"), Append(x, "R"))
      BY <3>2, Forks
    <3>4. Len(Append(x, "L")) = Len(x) + 1 /\ Len(Append(x, "R")) = Len(x) + 1
      BY <3>2, Appended DEF Turn, Positions
    <3>5. InOrder(l, r)
      BY <3>2, <3>3, <3>4 DEF InOrder
    <3> QED BY <1>11, <2>6, <3>5
  <2>7. j \in 1 .. n - 1 \/ j = n \/ (j = n + 1 /\ (i \in 1 .. n - 1 \/ i = n))
    BY <1>5, <1>14, <2>1
  <2> QED BY <2>3, <2>4, <2>5, <2>6, <2>7
<1> QED BY <1>2, <1>13, <1>14

LEMMA TakeSlotFinds ==
  ASSUME IInv, "binary" \in Trees, NEW o \in Call, o.tree = "binary", o.queue # <<>>, Landing(o), Searching(o),
         NEW u, u = Head(o.queue), NEW p \in Positions, ChildrenAt(u, p) = {}, p = "R" => ChildrenAt(u, "L") # {},
         NEW z \in Call, z.sponsor = o.sponsor, z.parent = u, z.position = p
  PROVE  Found(z)
<1> SUFFICES ASSUME OneChildPerSlot, NEW v \in Users, NEW s \in Positions, Open(o.sponsor, v, s), ~(v = u /\ s = p)
             PROVE  Earlier(u, p, v, s)
  BY DEF Found
<1>1. PICK k : k = o.queue
  OBVIOUS
<1>2. PICK n : n = Len(k)
  OBVIOUS
<1>3. k \in Seq(Users) /\ u = k[1] /\ n \in Nat \ {0} /\ DOMAIN k = 1 .. n /\ 1 \in 1 .. n
  BY <1>1, <1>2 DEF Call
<1>4. o # Idle /\ \A i \in 1 .. n : k[i] \in Users /\ In("binary", k[i])
  BY <1>1, <1>3 DEF Landing, Under, Idle
<1>5. u \in Users /\ In("binary", u)
  BY <1>3, <1>4
<1>6. In("binary", v)
  BY DEF Open, Under
<1>7. PICK x : x = Turns(u)
  OBVIOUS
<1>8. PICK y : y = Turns(v)
  OBVIOUS
<1>9. /\ x \in Seq(Turn) /\ Len(x) = Len(node["binary"][u].path)
      /\ y \in Seq(Turn) /\ Len(y) = Len(node["binary"][v].path)
      /\ p \in Turn /\ s \in Turn
  BY <1>5, <1>6, <1>7, <1>8, TurnsOf DEF Turn
<1>10. /\ Len(x) \in Nat /\ Len(y) \in Nat
       /\ Len(Append(x, p)) = Len(x) + 1 /\ Len(Append(y, s)) = Len(y) + 1
  <2>1. \A q \in Seq(Turn), e \in Turn : Len(q) \in Nat /\ Len(Append(q, e)) = Len(q) + 1
    BY Appended
  <2> QED BY <1>9, <2>1
<1>11. Earlier(u, p, v, s) <=> Len(x) < Len(y) \/ (Len(x) = Len(y) /\ Turned(Append(x, p), Append(y, s)))
  <2>1. Earlier(u, p, v, s) <=>
          Len(Append(x, p)) < Len(Append(y, s))
            \/ (Len(Append(x, p)) = Len(Append(y, s)) /\ Turned(Append(x, p), Append(y, s)))
    BY <1>7, <1>8 DEF Earlier
  <2>2. Len(Append(x, p)) < Len(Append(y, s)) <=> Len(x) < Len(y)
    BY <1>10
  <2>3. Len(Append(x, p)) = Len(Append(y, s)) <=> Len(x) = Len(y)
    BY <1>10
  <2> QED BY <2>1, <2>2, <2>3
<1>12. PICK i \in 1 .. n : Under("binary", k[i], v)
  BY <1>1, <1>3 DEF Searching
<1>13. CASE v = u
  <2>1. p = "L" /\ s = "R"
    BY <1>13 DEF Open, Positions
  <2>2. Turned(Append(x, p), Append(y, s))
    BY <1>7, <1>8, <1>9, <1>13, <2>1, Forks
  <2> QED BY <1>7, <1>8, <1>11, <1>13, <2>2
<1>14. CASE v # u /\ i = 1
  <2>1. Under("binary", u, v)
    BY <1>3, <1>12, <1>14
  <2>2. v \in Users
    BY DEF Open
  <2>3. Len(node["binary"][u].path) < Len(node["binary"][v].path)
    BY <1>5, <1>14, <2>1, <2>2, ChildOnWay
  <2>4. Len(x) < Len(y)
    BY <1>9, <2>3
  <2> QED BY <1>11, <2>4
<1>15. CASE i # 1
  <2>1. PICK a : a = k[i]
    OBVIOUS
  <2>2. a \in Users /\ In("binary", a)
    BY <1>4, <2>1
  <2>3. 1 < i
    BY <1>3, <1>15
  <2>4. InOrder(u, a)
    BY <1>1, <1>3, <2>1, <2>3 DEF Searching
  <2>5. Len(Turns(a)) = Len(node["binary"][a].path) /\ Len(Turns(a)) \in Nat
    BY <2>2, TurnsOf
  <2>6. CASE a = v
    <3>1. (Len(x) = Len(y) /\ Turned(x, y)) \/ Len(y) = Len(x) + 1
      BY <1>7, <1>8, <2>4, <2>6 DEF InOrder
    <3>2. Turned(x, y) => Turned(Append(x, p), Append(y, s))
      BY <1>9, Turnings
    <3>3. Len(y) = Len(x) + 1 => Len(x) < Len(y)
      BY <1>10
    <3> QED BY <1>11, <3>1, <3>2, <3>3
  <2>7. CASE a # v
    <3>1. Len(node["binary"][a].path) < Len(node["binary"][v].path)
      BY <1>12, <2>1, <2>2, <2>7, ChildOnWay
    <3>2. Len(Turns(a)) = Len(x) \/ Len(Turns(a)) = Len(x) + 1
      BY <1>7, <2>4 DEF InOrder
    <3>3. Len(Turns(a)) < Len(y)
      BY <1>9, <2>5, <3>1
    <3>4. Len(x) < Len(y)
      BY <1>10, <2>5, <3>2, <3>3
    <3> QED BY <1>11, <3>4
  <2> QED BY <2>6, <2>7
<1> QED BY <1>13, <1>14, <1>15

(* A step of a session in the binary tree that changes no row.             *)
LEMMA SearchStep ==
  ASSUME IInv, SearchInv, NEW w \in Workers, NEW o, Searching(o), Found(o), session' = [session EXCEPT ![w] = o],
         UNCHANGED node
  PROVE  SearchInv'
<1> SUFFICES ASSUME "binary" \in Trees, NEW v \in Workers PROVE (Searching(session[v]) /\ Found(session[v]))'
  BY DEF SearchInv
<1>1. PICK z : z = session'[v]
  OBVIOUS
<1>2. z = o \/ z = session[v]
  BY <1>1 DEF IInv, Typed
<1>3. Searching(z) /\ Found(z)
  BY <1>2 DEF SearchInv
<1>4. /\ OneChildPerSlot' <=> OneChildPerSlot
      /\ \A a : Turns(a)' = Turns(a)
      /\ \A a, b, c : Open(a, b, c)' <=> Open(a, b, c)
      /\ \A a, b : Under("binary", a, b)' <=> Under("binary", a, b)
  BY DEF OneChildPerSlot, Turns, Open, Under, ChildrenAt, Members, In
<1>5. /\ \A a, b : InOrder(a, b)' <=> InOrder(a, b)
      /\ \A a, b, c, d : Earlier(a, b, c, d)' <=> Earlier(a, b, c, d)
  BY <1>4 DEF InOrder, Earlier
<1>6. Searching(z)' /\ Found(z)'
  BY <1>3, <1>4, <1>5 DEF Searching, Found
<1> QED BY <1>1, <1>6

LEMMA SearchBegin ==
  ASSUME IInv, SearchInv, NEW w \in Workers, NEW t \in Trees, NEW u \in Users, NEW s \in Users,
         BeginAddMember(w, t, u, s)
  PROVE  SearchInv'
<1>1. PICK q : q = <<s>>
  OBVIOUS
<1>2. DOMAIN q = {1} /\ q[1] = s /\ q # <<>>
  BY <1>1
<1>3. PICK asked : asked = [Idle EXCEPT !.user = u, !.tree = t, !.sponsor = s]
  OBVIOUS
<1>4. PICK o : o = IF t = "binary" THEN [asked EXCEPT !.queue = q] ELSE [asked EXCEPT !.parent = s]
  OBVIOUS
<1>5. session' = [session EXCEPT ![w] = o] /\ UNCHANGED node
  BY <1>1, <1>3, <1>4 DEF BeginAddMember
<1>6. o.tree = t /\ o.sponsor = s /\ IF t = "binary" THEN o.queue = q ELSE o.queue = <<>>
  BY <1>3, <1>4 DEF Idle
<1>7. Found(o)
  BY <1>2, <1>6 DEF Found
<1>8. Searching(o)
  BY <1>2, <1>6 DEF Searching, Open
<1> QED BY <1>5, <1>7, <1>8, SearchStep

LEMMA SearchTake ==
  ASSUME IInv, SearchInv, NEW w \in Workers, session[w].queue # <<>>, NEW p \in Positions, TakeSlot(w, p), UNCHANGED node
  PROVE  SearchInv'
<1>1. PICK o : o = session[w]
  OBVIOUS
<1>2. PICK u : u = Head(o.queue)
  OBVIOUS
<1>3. o \in Call /\ o.queue # <<>> /\ o.tree = "binary" /\ "binary" \in Trees /\ u \in Users /\ Landing(o) /\ Searching(o)
  BY <1>1, <1>2, Seeks DEF IInv, SearchInv
<1>4. PICK e : e = <<>>
  OBVIOUS
<1>5. e \in Seq(Users)
  BY <1>4
<1>6. PICK z : z = [o EXCEPT !.parent = u, !.position = p, !.queue = e]
  OBVIOUS
<1>7. /\ session' = [session EXCEPT ![w] = z]
      /\ ChildrenAt(u, p) = {} /\ (p = "R" => ChildrenAt(u, "L") # {})
  BY <1>1, <1>2, <1>4, <1>6 DEF TakeSlot
<1>8. z \in Call /\ z.sponsor = o.sponsor /\ z.parent = u /\ z.position = p /\ z.queue = e
  BY <1>3, <1>5, <1>6 DEF Call
<1>9. Found(z)
  BY <1>2, <1>3, <1>7, <1>8, TakeSlotFinds
<1>10. Searching(z)
  BY <1>4, <1>8 DEF Searching
<1> QED BY <1>7, <1>9, <1>10, SearchStep

LEMMA SearchEnqueue ==
  ASSUME IInv, SearchInv, NEW w \in Workers, session[w].queue # <<>>, SearchOn(w), UNCHANGED node
  PROVE  SearchInv'
<1>1. PICK o : o = session[w]
  OBVIOUS
<1>2. PICK u : u = Head(o.queue)
  OBVIOUS
<1>3. /\ o \in Call /\ o.queue # <<>> /\ o.queue \in Seq(Users) /\ o.tree = "binary" /\ "binary" \in Trees
      /\ Landing(o) /\ Searching(o)
  BY <1>1, Seeks DEF IInv, SearchInv
<1>4. PICK l \in ChildrenAt(u, "L"), r \in ChildrenAt(u, "R") :
        session' = [session EXCEPT ![w].queue = QueueAfter(o.queue, l, r)]
  BY <1>1, <1>2 DEF SearchOn
<1>5. PICK q : q = QueueAfter(o.queue, l, r)
  OBVIOUS
<1>6. q \in Seq(Users) /\ q # <<>>
  <2>1. l \in Users /\ r \in Users
    BY DEF ChildrenAt, Members
  <2>2. Follows(o.queue, l, r, q)
    BY <1>3, <1>5, <2>1, NextQueue
  <2> QED BY <2>2 DEF Follows
<1>7. PICK z : z = [o EXCEPT !.queue = q]
  OBVIOUS
<1>8. session' = [session EXCEPT ![w] = z]
  BY <1>1, <1>4, <1>5, <1>7 DEF IInv, Typed
<1>9. z \in Call /\ z.sponsor = o.sponsor /\ z.queue = q
  BY <1>3, <1>6, <1>7 DEF Call
<1>10. Searching(z)
  BY <1>2, <1>3, <1>5, <1>9, SearchOnFinds
<1>11. Found(z)
  BY <1>6, <1>9 DEF Found
<1> QED BY <1>8, <1>10, <1>11, SearchStep

LEMMA SearchGrown ==
  ASSUME IInv, SearchInv, NEW t \in Trees, NEW u \in Users, NEW row, CreateNode(t, u, row), Fits(t, u, row),
         \A v \in Workers : session'[v] = Idle \/ session'[v] = session[v]
  PROVE  SearchInv'
<1> SUFFICES ASSUME "binary" \in Trees, NEW v \in Workers PROVE (Searching(session[v]) /\ Found(session[v]))'
  BY DEF SearchInv
<1>1. PICK z : z = session'[v]
  OBVIOUS
<1>2. z = Idle \/ z = session[v]
  BY <1>1
<1>3. Searching(z) /\ Found(z)
  BY <1>2 DEF SearchInv, Searching, Found, Idle
<1>4. CASE z \in Call /\ z.tree = "binary"
  <2>1. Landing(z)
    BY <1>2 DEF IInv, Landing
  <2>2. Searching(z)'
    BY <1>3, <1>4, <2>1, SearchingStays
  <2>3. Found(z)'
    BY <1>3, <1>4, <2>1, FoundStays
  <2> QED BY <1>1, <2>2, <2>3
<1>5. CASE ~(z \in Call /\ z.tree = "binary")
  <2>1. z.queue = <<>> /\ z.tree # "binary"
    <3>1. z = Idle \/ (z \in Call /\ z # Idle /\ Landing(z))
      BY <1>2 DEF IInv, Typed
    <3> QED BY <1>5, <3>1 DEF Idle, Landing
  <2> QED BY <1>1, <2>1 DEF Searching, Found
<1> QED BY <1>4, <1>5

LEMMA SearchInvStep == ASSUME IInv, SearchInv, [Next]_vars PROVE SearchInv'
<1>1. CASE UNCHANGED vars
  <2>1. session' = session /\ node' = node
    BY <1>1 DEF vars
  <2> SUFFICES ASSUME "binary" \in Trees, NEW v \in Workers PROVE SearchInv'
    BY DEF SearchInv
  <2>2. session' = [session EXCEPT ![v] = session[v]]
    BY <2>1 DEF IInv, Typed
  <2>3. Searching(session[v]) /\ Found(session[v])
    BY DEF SearchInv
  <2> QED BY <2>1, <2>2, <2>3, SearchStep
<1>2. ASSUME NEW t \in Trees, NEW u \in Users, CreateRoot(t, u) PROVE SearchInv'
  <2>1. PICK row : row = [NoNode EXCEPT !.depth = 0, !.path = <<u>>]
    OBVIOUS
  <2>2. CreateNode(t, u, row) /\ Fits(t, u, row) /\ session' = session
    BY <1>2, <2>1, RootFits DEF CreateRoot
  <2> QED BY <2>2, SearchGrown
<1>3. ASSUME NEW w \in Workers, NEW t \in Trees, NEW u \in Users, NEW s \in Users, BeginAddMember(w, t, u, s)
      PROVE  SearchInv'
  BY <1>3, SearchBegin
<1>4. ASSUME NEW w \in Workers, LocateBinarySlot(w) PROVE SearchInv'
  BY <1>4, SearchEnqueue, SearchTake DEF LocateBinarySlot
<1>5. ASSUME NEW w \in Workers, AddMember(w) PROVE SearchInv'
  <2>1. PICK o : o = session[w]
    OBVIOUS
  <2>2. o \in Call /\ o # Idle /\ o.queue = <<>> /\ Landing(o) /\ o.tree \in Trees /\ o.user \in Users
    BY <1>5, <2>1 DEF AddMember, IInv, Typed, Call
  <2>3. PICK row : row = NewRow(o)
    OBVIOUS
  <2>4. CreateNode(o.tree, o.user, row) /\ session' = [session EXCEPT ![w] = Idle]
    BY <1>5, <2>1, <2>3 DEF AddMember
  <2>5. Fits(o.tree, o.user, row)
    BY <2>2, <2>3, <2>4, BelowFits DEF CreateNode
  <2>6. \A v \in Workers : session'[v] = Idle \/ session'[v] = session[v]
    BY <2>4 DEF IInv, Typed
  <2> QED BY <2>2, <2>4, <2>5, <2>6, SearchGrown
<1>6. ASSUME NEW w \in Workers, RollBack(w) PROVE SearchInv'
  <2>1. Searching(Idle) /\ Found(Idle)
    BY DEF Searching, Found, Idle
  <2> QED BY <1>6, <2>1, SearchStep DEF RollBack
<1> QED BY <1>1, <1>2, <1>3, <1>4, <1>5, <1>6 DEF Next

LEMMA SearchInvariant == Spec => [](IInv /\ SearchInv)
<1>1. Init => SearchInv
  BY DEF Init, SearchInv, Searching, Found, Idle
<1> QED BY <1>1, InitIInv, IInvStep, SearchInvStep, PTL DEF Spec

(* However many members other sessions place between two of its reads, the  *)
(* search of a session ends on or below the sponsor, in the first of the    *)
(* slots still open, until two members share a slot.                       *)
THEOREM SearchHolds == Spec => []SearchFindsFirst
<1>1. IInv /\ SearchInv => SearchFindsFirst
  <2> SUFFICES ASSUME IInv, SearchInv, NEW w \in Workers, session[w].tree = "binary", session[w].queue = <<>>
               PROVE  /\ session[w].parent \in Below("binary", session[w].sponsor)
                      /\ OneChildPerSlot =>
                           \A r \in OpenBelow(session[w].sponsor) \ {<<session[w].parent, session[w].position>>} :
                             Before(<<session[w].parent, session[w].position>>, r)
    BY DEF SearchFindsFirst
  <2>1. PICK o : o = session[w]
    OBVIOUS
  <2>2. o \in Call /\ o # Idle /\ "binary" \in Trees /\ Landing(o) /\ Found(o)
    BY <2>1 DEF IInv, Typed, Idle, Call, SearchInv
  <2>3. /\ o.parent \in Users /\ In("binary", o.parent) /\ o.position \in Positions
        /\ Under("binary", o.sponsor, o.parent)
    BY <2>1, <2>2 DEF Landing, Under
  <2>4. o.parent \in Below("binary", o.sponsor)
    BY <2>3 DEF Below, Under, Members
  <2>5. ASSUME OneChildPerSlot, NEW r \in OpenBelow(o.sponsor), r # <<o.parent, o.position>>
        PROVE  Before(<<o.parent, o.position>>, r)
    <3>1. PICK v, p : r = <<v, p>> /\ v \in Below("binary", o.sponsor) /\ p \in Positions /\ ChildrenAt(v, p) = {}
      BY DEF OpenBelow
    <3>2. Open(o.sponsor, v, p)
      BY <3>1 DEF Open, Below, Under, Members
    <3>3. ~(v = o.parent /\ p = o.position)
      BY <2>5, <3>1
    <3>4. Earlier(o.parent, o.position, v, p)
      BY <2>1, <2>2, <2>5, <3>1, <3>2, <3>3 DEF Found, Open
    <3>5. PICK f : f = <<o.parent, o.position>>
      OBVIOUS
    <3>6. f[1] = o.parent /\ f[2] = o.position /\ r[1] = v /\ r[2] = p
      BY <3>1, <3>5
    <3>7. PICK x : x = Append(Turns(o.parent), o.position)
      OBVIOUS
    <3>8. PICK y : y = Append(Turns(v), p)
      OBVIOUS
    <3>9. DOMAIN x = 1 .. Len(x) /\ DOMAIN y = 1 .. Len(y)
      <4>1. Turns(o.parent) \in Seq(Turn) /\ Turns(v) \in Seq(Turn)
        BY <2>2, <2>3, <3>2, TurnsOf DEF Open, Under
      <4>2. x \in Seq(Turn) /\ y \in Seq(Turn)
        BY <2>3, <3>1, <3>7, <3>8, <4>1, Appended DEF Turn
      <4> QED BY <4>2
    <3>10. Len(x) < Len(y) \/ (Len(x) = Len(y) /\ Turned(x, y))
      BY <3>4, <3>7, <3>8 DEF Earlier
    <3>11. Len(x) = Len(y) /\ Turned(x, y) =>
             Len(x) = Len(y) /\ \E i \in DOMAIN x : x[i] = "L" /\ y[i] = "R" /\ \A j \in 1 .. i - 1 : x[j] = y[j]
      BY <3>9 DEF Turned
    <3> QED BY <3>5, <3>6, <3>7, <3>8, <3>10, <3>11 DEF Before
  <2> QED BY <2>1, <2>4, <2>5
<1> QED BY <1>1, SearchInvariant, PTL
=============================================================================
