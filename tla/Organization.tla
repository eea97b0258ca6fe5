------------------------------ MODULE Organization ------------------------------
(***************************************************************************)
(* OrganizationService (core/organization.py) over                          *)
(* SqlAlchemyOrganizationRepository: members join the unilevel tree under   *)
(* their sponsor and the binary tree in the first free slot below it.       *)
(*                                                                         *)
(* Under READ COMMITTED each list_children of the search reads what is      *)
(* committed by then, and the member is inserted in the session's commit.   *)
(* Only (tree_type, user_id) is unique: nothing locks or reserves the slot  *)
(* in between.                                                              *)
(***************************************************************************)
EXTENDS Integers, SequencesExt

CONSTANTS Users,
          Trees,    \* a subset of {"unilevel", "binary"}
          Workers,
          Nobody,   \* no parent, no sponsor, no child
          MaxDepth  \* bound of the model: how deep a member may be placed

ASSUME OrganizationAssumption == Nobody \notin Users /\ MaxDepth \in Nat

VARIABLES node,       \* committed organization_nodes rows of each tree, by user
          closure,    \* committed organization_closure rows of each tree
          slot,       \* committed binary_slots rows: the child of each slot, Nobody when OPEN
          spillovers, \* committed organization_spillover_logs rows
          session     \* the add_member each worker is in

vars == <<node, closure, slot, spillovers, session>>

(* A node is named by its user: one user has one node in a tree.           *)
NoNode == [parent |-> Nobody, sponsor |-> Nobody, position |-> "none", depth |-> -1, path |-> <<>>]
Idle == [user |-> Nobody, tree |-> "none", sponsor |-> Nobody, parent |-> Nobody, position |-> "none",
         queue |-> <<>>]
Positions == {"L", "R"}
OpenSlots == [p \in Positions |-> Nobody]

Init ==
  /\ node = [t \in Trees |-> [u \in Users |-> NoNode]]
  /\ closure = [t \in Trees |-> {}]
  /\ slot = [u \in Users |-> OpenSlots]
  /\ spillovers = {}
  /\ session = [w \in Workers |-> Idle]

In(t, u) == node[t][u] # NoNode
Members(t) == {u \in Users : In(t, u)}

-----------------------------------------------------------------------------
(* _locate_binary_slot: breadth first from the sponsor, left before right. *)
ChildrenAt(u, p) ==
  {c \in Members("binary") : node["binary"][c].parent = u /\ node["binary"][c].position = p}

(* The queue after a node without an open slot: of two children in one      *)
(* position the dictionary of children keeps one.  Mutant: right first.     *)
QueueAfter_RightFirst(queue, l, r) == Append(Append(Tail(queue), r), l)
QueueAfter(queue, l, r) == Append(Append(Tail(queue), l), r)

(* One round of the loop, for the candidate at the head of the queue.      *)
TakeSlot(w, p) ==
  LET s == session[w]
      u == Head(s.queue) IN
  /\ ChildrenAt(u, p) = {}
  /\ p = "R" => ChildrenAt(u, "L") # {}
  /\ node["binary"][u].depth < MaxDepth
  /\ session' = [session EXCEPT ![w] = [s EXCEPT !.parent = u, !.position = p, !.queue = <<>>]]

SearchOn(w) ==
  LET s == session[w]
      u == Head(s.queue) IN
  \E l \in ChildrenAt(u, "L"), r \in ChildrenAt(u, "R") :
    session' = [session EXCEPT ![w].queue = QueueAfter(s.queue, l, r)]

LocateBinarySlot(w) ==
  /\ session[w].queue # <<>>
  /\ SearchOn(w) \/ \E p \in Positions : TakeSlot(w, p)
  /\ UNCHANGED <<node, closure, slot, spillovers>>

-----------------------------------------------------------------------------
(* Mutants: a root gets a closure row of the parent it has not; only the   *)
(* parent is an ancestor.                                                  *)
ClosureOf_NoParent(t, u, parent) ==
  {[ancestor |-> u, descendant |-> u, depth |-> 0], [ancestor |-> parent, descendant |-> u, depth |-> 1]}
ClosureOf_ParentOnly(t, u, parent) ==
  {[ancestor |-> u, descendant |-> u, depth |-> 0]}
    \cup {[ancestor |-> p, descendant |-> u, depth |-> 1] : p \in {parent} \cap Users}

(* create_node: the node row, its closure rows, and the slots of a binary  *)
(* node and of its parent.                                                 *)
ClosureOf(t, u, parent) ==
  {[ancestor |-> u, descendant |-> u, depth |-> 0]}
    \cup {[ancestor |-> c.ancestor, descendant |-> u, depth |-> c.depth + 1] :
            c \in {d \in closure[t] : d.descendant = parent}}

CreateNode(t, u, row) ==
  /\ ~In(t, u)
  /\ node' = [node EXCEPT ![t][u] = row]
  /\ closure' = [closure EXCEPT ![t] = @ \cup ClosureOf(t, u, row.parent)]
  /\ slot' = IF row.position \in Positions THEN [slot EXCEPT ![row.parent][row.position] = u]
             ELSE slot

CreateRoot(t, u) ==
  /\ CreateNode(t, u, [NoNode EXCEPT !.depth = 0, !.path = <<u>>])
  /\ UNCHANGED <<spillovers, session>>

(* The parent is the sponsor in the unilevel tree and is searched for in   *)
(* the binary one.                                                         *)
BeginAddMember(w, t, u, sponsor) ==
  LET s == [Idle EXCEPT !.user = u, !.tree = t, !.sponsor = sponsor] IN
  /\ session[w] = Idle
  /\ In(t, sponsor)
  /\ session' = [session EXCEPT ![w] = IF t = "binary" THEN [s EXCEPT !.queue = <<sponsor>>]
                                       ELSE [s EXCEPT !.parent = sponsor]]
  /\ t # "binary" => node[t][sponsor].depth < MaxDepth
  /\ UNCHANGED <<node, closure, slot, spillovers>>

RowBelow(s, above) ==
  [parent |-> s.parent, sponsor |-> s.sponsor, position |-> s.position,
   depth |-> above.depth + 1, path |-> Append(above.path, s.user)]

NewRow(s) == RowBelow(s, node[s.tree][s.parent])

(* Mutant: every placement counts as spillover.                            *)
Spilled_Always(s) == s.tree = "binary"
Spilled(s) == s.tree = "binary" /\ s.parent # s.sponsor

AddMember(w) ==
  LET s == session[w] IN
  /\ s # Idle /\ s.queue = <<>>
  /\ CreateNode(s.tree, s.user, NewRow(s))
  /\ spillovers' = IF Spilled(s) THEN spillovers \cup {s} ELSE spillovers
  /\ session' = [session EXCEPT ![w] = Idle]

(* The user is in the tree already (the insert fails), or the session dies. *)
RollBack(w) ==
  /\ session[w] # Idle
  /\ session' = [session EXCEPT ![w] = Idle]
  /\ UNCHANGED <<node, closure, slot, spillovers>>

Next ==
  \/ \E t \in Trees, u \in Users : CreateRoot(t, u)
  \/ \E w \in Workers :
       \/ \E t \in Trees, u, s \in Users : BeginAddMember(w, t, u, s)
       \/ LocateBinarySlot(w)
       \/ AddMember(w)
       \/ RollBack(w)

Spec == Init /\ [][Next]_vars

-----------------------------------------------------------------------------
Row == [parent: Users \cup {Nobody}, sponsor: Users \cup {Nobody},
        position: Positions \cup {"none"}, depth: -1 .. MaxDepth, path: Seq(Users)]

Call == [user: Users, tree: Trees, sponsor: Users, parent: Users \cup {Nobody},
         position: Positions \cup {"none"}, queue: Seq(Users)]

(* Rows keep the types of their columns.                                   *)
TypeOK ==
  /\ node \in [Trees -> [Users -> Row]]
  /\ closure \in [Trees -> SUBSET [ancestor: Users, descendant: Users, depth: 0 .. MaxDepth]]
  /\ slot \in [Users -> [Positions -> Users \cup {Nobody}]]
  /\ spillovers \subseteq Call
  /\ session \in [Workers -> Call \cup {Idle}]

PathsFollowParents ==
  \A t \in Trees : \A u \in Members(t) :
    LET n == node[t][u] IN
    /\ n.depth = Len(n.path) - 1 /\ Last(n.path) = u
    /\ IF n.parent = Nobody THEN n.depth = 0
       ELSE In(t, n.parent) /\ Front(n.path) = node[t][n.parent].path

ClosureIsAncestry ==
  \A t \in Trees :
    closure[t] = UNION {{[ancestor |-> node[t][u].path[i], descendant |-> u,
                          depth |-> Len(node[t][u].path) - i] :
                            i \in DOMAIN node[t][u].path} : u \in Members(t)}

(* What three tables and two columns say of ancestry is one forest: a       *)
(* node's path is its parent's path and itself, depth its length, and       *)
(* organization_closure has exactly the pairs that paths have, each with    *)
(* its distance, whoever else was placed meanwhile.                        *)
AncestryAgrees == PathsFollowParents /\ ClosureIsAncestry

(* A member's sponsor is above it or is its parent, and is logged as       *)
(* spilled over exactly when another member was put in between.            *)
SpilloversFollow ==
  \A t \in Trees : \A u \in Members(t) :
    LET n == node[t][u] IN
    n.parent # Nobody =>
      /\ Contains(Front(n.path), n.sponsor)
      /\ (n.parent # n.sponsor) = (\E s \in spillovers : s.tree = t /\ s.user = u /\ s.parent = n.parent)

(* A slot row names a child that took that slot, and is open only while    *)
(* nobody has.                                                             *)
SlotsNameChildren ==
  "binary" \in Trees =>
    \A u \in Members("binary"), p \in Positions :
      IF slot[u][p] = Nobody THEN ChildrenAt(u, p) = {} ELSE slot[u][p] \in ChildrenAt(u, p)

(* The spillover log and the slot rows, which are written from what was     *)
(* read before the insert, name the parents that nodes have.               *)
PlacementsRecorded == SpilloversFollow /\ SlotsNameChildren

OneChildPerSlot ==
  \A u \in Members("binary"), p \in Positions : \A c, d \in ChildrenAt(u, p) : c = d

Below(t, u) == {v \in Members(t) : Contains(node[t][v].path, u)}
OpenBelow(u) ==
  {s \in Below("binary", u) \X Positions : ChildrenAt(s[1], s[2]) = {}}
Turns(u) == [i \in DOMAIN node["binary"][u].path |-> node["binary"][node["binary"][u].path[i]].position]

(* s comes before r in the tree read level by level, left to right.        *)
Before(s, r) ==
  LET x == Append(Turns(s[1]), s[2])
      y == Append(Turns(r[1]), r[2]) IN
  \/ Len(x) < Len(y)
  \/ /\ Len(x) = Len(y)
     /\ \E i \in DOMAIN x : x[i] = "L" /\ y[i] = "R" /\ \A j \in 1 .. i - 1 : x[j] = y[j]

(* However many members are placed between its reads, the search ends on    *)
(* or below the sponsor, in the slot that comes first of those still open,  *)
(* by level and then from left to right, until two members share a slot.    *)
SearchFindsFirst ==
  \A w \in Workers :
    LET s == session[w]
        found == <<s.parent, s.position>> IN
    s.tree = "binary" /\ s.queue = <<>> =>
      /\ s.parent \in Below("binary", s.sponsor)
      /\ OneChildPerSlot => \A r \in OpenBelow(s.sponsor) \ {found} : Before(found, r)

(* docs/planning/organization_bonus_design.md:168: of two concurrent       *)
(* requests for a slot one gets it, the other another one.                 *)
SlotTakenOnce == "binary" \in Trees => OneChildPerSlot
=============================================================================
