---------------------------- MODULE OrganizationKpi ----------------------------
(***************************************************************************)
(* Who may read a node's KPI summary (api/kpi.py, security/access.py) while *)
(* members join the trees of Organization.  Reading is one session that     *)
(* reads committed rows and writes none: it is an operator over the state.  *)
(***************************************************************************)
EXTENDS Organization

AllTrees == {"unilevel", "binary"}

(* A node_id names a user's node in one tree; "any" is a scope entry        *)
(* without a tree type.                                                    *)
NodeId == [tree : Trees, user : Users]
Scope == [tree : AllTrees \cup {"any"}, id : NodeId]

(* ROLE_MATRIX, as far as KPIs go.                                         *)
RoleMatrix ==
  [admin |-> {"kpi:read", "kpi:read_all", "organizations:view_all"},
   finance |-> {"kpi:read"}, support |-> {"kpi:read"}, member |-> {}]
PermissionsFor(roles) == UNION {RoleMatrix[r] : r \in roles}

(* A session's roles come apart into base roles and scopes; scopes that are *)
(* not kpi:node entries say nothing.                                       *)
AccessContext == [user : Users, roles : SUBSET DOMAIN RoleMatrix, scopes : SUBSET Scope]
HasGlobalKpiAccess(access) ==
  PermissionsFor(access.roles) \cap {"kpi:read_all", "organizations:view_all"} # {}
AllowedKpiNodes(access, tree) == {s.id : s \in {t \in access.scopes : t.tree = tree}}

IsDescendant(ancestor, id, tree) ==
  /\ ancestor.tree = tree /\ id.tree = tree
  /\ \E c \in closure[tree] : c.ancestor = ancestor.user /\ c.descendant = id.user

(* Mutant: entries without a tree cover the node they name and not what is  *)
(* below it.                                                               *)
IsNodeInScope_Exactly(access, id, tree) ==
  LET candidates == AllowedKpiNodes(access, "any") \cup AllowedKpiNodes(access, tree) IN
  id \in candidates \/ \E c \in AllowedKpiNodes(access, tree) : IsDescendant(c, id, tree)

IsNodeInScope(access, id, tree) ==
  LET candidates == AllowedKpiNodes(access, "any") \cup AllowedKpiNodes(access, tree) IN
  id \in candidates \/ \E c \in candidates : IsDescendant(c, id, tree)

(* _enforce_access after _require_access("kpi:read").  With scopes it is   *)
(* these that count; without, the reader's own node in that tree.          *)
MayRead(access, id, tree) ==
  LET own == [tree |-> tree, user |-> access.user] IN
  /\ "kpi:read" \in PermissionsFor(access.roles)
  /\ \/ HasGlobalKpiAccess(access)
     \/ /\ In(id.tree, id.user) /\ id.tree = tree
        /\ IF access.scopes # {} THEN IsNodeInScope(access, id, tree)
           ELSE In(tree, access.user) /\ IsDescendant(own, id, tree)

-----------------------------------------------------------------------------
(* What a reader without global access is entitled to: the nodes on or      *)
(* below those its scopes name for the tree, or else below its own.        *)
Roots(access, tree) ==
  IF access.scopes = {} THEN {[tree |-> tree, user |-> access.user]}
  ELSE {s.id : s \in {t \in access.scopes : t.tree \in {"any", tree}}}

Entitled(access, id, tree) ==
  /\ id.tree = tree /\ In(tree, id.user)
  /\ \E r \in Roots(access, tree) : r.tree = tree /\ Contains(node[tree][id.user].path, r.user)

(* Whatever was placed meanwhile and however the scopes name trees, exactly *)
(* those nodes are read that lie on or below a node the reader is           *)
(* entitled to along the parents' chain, in the tree that was asked for.    *)
ReadersAreEntitled ==
  \A u \in Users, scopes \in {{}} \cup {{s} : s \in Scope}, id \in NodeId, tree \in AllTrees :
    LET access == [user |-> u, roles |-> {"support"}, scopes |-> scopes] IN
    MayRead(access, id, tree) = Entitled(access, id, tree)
=============================================================================
