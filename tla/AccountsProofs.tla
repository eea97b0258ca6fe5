----------------------------- MODULE AccountsProofs -----------------------------
(***************************************************************************)
(* What holds of Accounts for any users, addresses, providers, processes   *)
(* and scripts: the types, that accounts and local identities go in pairs, *)
(* that recovery codes belong to their secret, that whoever switched a      *)
(* second factor off is in the log, and that the log accounts for every    *)
(* session.                                                                *)
(***************************************************************************)
EXTENDS Accounts, FiniteSetTheorems, TLAPS

All == Procs \cup Scripts

-----------------------------------------------------------------------------
(* What adding, removing and joining do to the members of a bag.           *)
LEMMA BagAdded ==
  ASSUME NEW B, NEW x, IsABag(B)
  PROVE  IsABag(With(B, x)) /\ BagToSet(With(B, x)) = BagToSet(B) \cup {x}
BY DEF IsABag, With, BagToSet, SetToBag, (+)

LEMMA BagRemoved ==
  ASSUME NEW B, NEW x, IsABag(B)
  PROVE  /\ IsABag(Without(B, x))
         /\ BagToSet(Without(B, x)) \subseteq BagToSet(B)
         /\ BagToSet(B) \ {x} \subseteq BagToSet(Without(B, x))
BY DEF IsABag, Without, BagToSet, SetToBag, (-)

LEMMA BagJoined ==
  ASSUME NEW B, NEW S, IsABag(B)
  PROVE  IsABag(B (+) SetToBag(S)) /\ BagToSet(B (+) SetToBag(S)) = BagToSet(B) \cup S
BY DEF IsABag, SetToBag, BagToSet, (+)

LEMMA EmptyIsBag == IsABag(EmptyBag) /\ BagToSet(EmptyBag) = {}
BY DEF IsABag, EmptyBag, SetToBag, BagToSet

-----------------------------------------------------------------------------
(* What a process keeps of a request of each kind.                         *)
LEMMA JobShapes ==
  ASSUME NEW j \in Jobs
  PROVE  /\ j.op = "signup" => j.email \in Emails /\ j.row \in UserRows
         /\ j.op = "login" => /\ j.audits \subseteq AuditRows
                              /\ j.opened \subseteq SessionRows
         /\ j.op \in {"exchange", "lookup"} => j.key \in OAuthKeys /\ j.code \in Nat
         /\ j.op = "open" => j.session \in SessionRows
         /\ j.op \in {"emit", "disable"} => j.user \in Ids /\ j.actor \in Ids
         /\ j.op = "enable" => j.user \in Ids /\ j.seen \in FactorRows /\ j.secret \in Nat \ {0}
         /\ j.op = "seed" => j.key \in Keys /\ j.row \in UserRows
         /\ j.op = "roles" => j.key \in Keys /\ j.admin \in BOOLEAN
BY DEF Jobs, Idle

(* A process that is given a request, or that ends one, keeps the types.   *)
LEMMA JobTyped ==
  ASSUME TypeOK, NEW p \in All, NEW r \in Jobs, job' = [job EXCEPT ![p] = r]
  PROVE  /\ DOMAIN job' = All
         /\ \A q \in All : job'[q] = (IF q = p THEN r ELSE job[q])
         /\ \A q \in All : job'[q] \in Jobs
BY DEF TypeOK, All

LEMMA IdleIsJob == Idle \in Jobs
BY DEF Jobs

LEMMA KnownAreIds == TypeOK => KnownUsers \subseteq Ids
BY NoneAssumption DEF TypeOK, KnownUsers, UserRows, NoIdentity

(* The script that changes roles has found the row it writes.              *)
RolesFound == \A p \in All : job[p].op = "roles" => identity[job[p].key] # NoIdentity

LEMMA OutcomeTyped ==
  ASSUME TypeOK, NEW e \in Emails, NEW right \in BOOLEAN, NEW code \in Codes
  PROVE  LoginOutcome(e, right, code) \in Jobs
<1> DEFINE u == accounts[e]
           row == identity[Local(e)]
<1>1. u \in Ids \cup {None} /\ row \in UserRows \cup {NoIdentity}
  BY DEF TypeOK, Local, Keys
<1>2. \A status \in {"STARTED", "FAILED", "CHALLENGE", "SUCCEEDED"}, subject \in Ids \cup Emails \cup {None} :
        Audit("local", status, subject) \in AuditRows
  BY DEF Audit, AuditRows
<1>3. u # None /\ row # NoIdentity => NewSession([row EXCEPT !.user = u]) \in SessionRows
  BY <1>1 DEF NewSession, SessionRows, UserRows
<1>4. PICK raises \in BOOLEAN, last \in AuditRows, opened \in SUBSET SessionRows :
        LoginOutcome(e, right, code) =
          [op |-> "login", raises |-> raises, audits |-> {Audit("local", "STARTED", e), last}, opened |-> opened]
  BY <1>1, <1>2, <1>3 DEF LoginOutcome
<1> QED BY <1>2, <1>4 DEF Jobs

LEMMA InitTyped == Init => TypeOK /\ RolesFound
<1> SUFFICES ASSUME Init PROVE TypeOK /\ RolesFound
  OBVIOUS
<1>1. IsABag(sessions) /\ BagToSet(sessions) = {} /\ IsABag(audits) /\ BagToSet(audits) = {}
  BY EmptyIsBag DEF Init
<1>2. \A p \in All : job[p] = Idle /\ job[p] \in Jobs
  BY IdleIsJob DEF Init, All
<1> QED BY <1>1, <1>2 DEF Init, TypeOK, RolesFound, Idle, NoFactor, FactorRows, All

(* Every step keeps the types and the row a role script writes to.         *)
LEMMA TypeStep ==
  ASSUME TypeOK, RolesFound, [Next]_vars
  PROVE  TypeOK' /\ RolesFound'
<1> USE IdleIsJob
<1>1. ASSUME NEW p \in All, NEW r \in Jobs, job' = [job EXCEPT ![p] = r], r.op # "roles",
             \A k \in Keys : identity[k] # NoIdentity => identity'[k] # NoIdentity
      PROVE  RolesFound'
  BY <1>1, JobTyped, JobShapes DEF RolesFound, TypeOK, All
<1>2. ASSUME NEW p \in All, NEW r \in Jobs, job' = [job EXCEPT ![p] = r], r.op # "roles",
             UNCHANGED <<accounts, identity, factor, sessions>>, generated' \in Nat,
             IsABag(audits'), BagToSet(audits') \subseteq AuditRows
      PROVE  TypeOK' /\ RolesFound'
  BY <1>1, <1>2, JobTyped DEF TypeOK, All
<1>3. ASSUME NEW p \in All, End(p), UNCHANGED <<tables, generated>>
      PROVE  TypeOK' /\ RolesFound'
  BY <1>2, <1>3 DEF End, tables, TypeOK, Idle
<1>4. ASSUME NEW p \in Procs, NEW e \in Emails, NEW u \in Ids, NEW admin \in BOOLEAN, BeginSignup(p, e, u, admin)
      PROVE  TypeOK' /\ RolesFound'
  <2>1. [op |-> "signup", email |-> e, row |-> [user |-> u, admin |-> admin, flag |-> FALSE]] \in Jobs
    BY DEF Jobs, UserRows
  <2> QED BY <1>2, <1>4, <2>1 DEF BeginSignup, Start, tables, All, TypeOK
<1>5. ASSUME NEW p \in Procs, CommitSignup(p)
      PROVE  TypeOK' /\ RolesFound'
  <2>1. job[p].email \in Emails /\ job[p].row \in UserRows /\ Local(job[p].email) \in Keys
    BY <1>5, JobShapes DEF CommitSignup, TypeOK, Local, Keys
  <2>2. accounts' \in [Emails -> Ids \cup {None}] /\ identity' \in [Keys -> UserRows \cup {NoIdentity}]
    BY <1>5, <2>1 DEF CommitSignup, TypeOK, UserRows
  <2>3. \A k \in Keys : identity[k] # NoIdentity => identity'[k] # NoIdentity
    BY <1>5, <2>1 DEF CommitSignup, TypeOK
  <2>4. RolesFound'
    BY <1>1, <1>5, <2>3 DEF CommitSignup, End, Idle, All
  <2> QED BY <1>5, <2>2, <2>4, JobTyped DEF CommitSignup, End, TypeOK, All
<1>6. ASSUME NEW p \in Procs, NEW e \in Emails, NEW right \in BOOLEAN, NEW code \in Codes, BeginLogin(p, e, right, code)
      PROVE  TypeOK' /\ RolesFound'
  <2>1. LoginOutcome(e, right, code) \in Jobs
    BY OutcomeTyped
  <2>2. LoginOutcome(e, right, code).op = "login"
    BY DEF LoginOutcome
  <2> QED BY <1>2, <1>6, <2>1, <2>2 DEF BeginLogin, Start, tables, All, TypeOK
<1>7. ASSUME NEW p \in Procs, EndLogin(p)
      PROVE  TypeOK' /\ RolesFound'
  <2>1. job[p].audits \subseteq AuditRows /\ job[p].opened \subseteq SessionRows
    BY <1>7, JobShapes DEF EndLogin, TypeOK
  <2>2. IsABag(sessions') /\ BagToSet(sessions') \subseteq SessionRows
    BY <1>7, <2>1, BagJoined DEF EndLogin, TypeOK
  <2>3. IsABag(audits') /\ BagToSet(audits') \subseteq AuditRows
    BY <1>7, <2>1, BagJoined DEF EndLogin, TypeOK
  <2>4. RolesFound'
    BY <1>1, <1>7 DEF EndLogin, End, Idle, All
  <2> QED BY <1>7, <2>2, <2>3, <2>4, JobTyped DEF EndLogin, End, TypeOK, All
<1>8. ASSUME NEW p \in Procs, NEW k \in OAuthKeys, NEW code \in Codes, BeginCallback(p, k, code)
      PROVE  TypeOK' /\ RolesFound'
  <2>1. [op |-> "exchange", key |-> k, code |-> code] \in Jobs
    BY DEF Jobs, Codes
  <2>2. Audit(k.provider, "STARTED", None) \in AuditRows
    BY DEF Audit, AuditRows, OAuthKeys, Keys
  <2>5. IsABag(audits') /\ BagToSet(audits') \subseteq AuditRows
    BY <1>8, <2>2, BagAdded DEF BeginCallback, TypeOK
  <2> QED BY <1>2, <1>8, <2>5, <2>1 DEF BeginCallback, Start, All, TypeOK
<1>9. ASSUME NEW p \in Procs, Exchanged(p)
      PROVE  TypeOK' /\ RolesFound'
  <2> DEFINE r == [job[p] EXCEPT !.op = "lookup"]
  <2>1. job[p] \in Jobs /\ job[p].op = "exchange"
    BY <1>9 DEF Exchanged, TypeOK
  <2>2. r \in Jobs /\ r.op = "lookup"
    BY <2>1 DEF Jobs, Idle
  <2>3. Audit(job[p].key.provider, "SUCCEEDED", job[p].key.subject) \in AuditRows
    BY <2>1, JobShapes DEF Audit, AuditRows, OAuthKeys, Keys
  <2>4. job' = [job EXCEPT ![p] = r]
    BY <1>9 DEF Exchanged
  <2>5. IsABag(audits') /\ BagToSet(audits') \subseteq AuditRows
    BY <1>9, <2>3, BagAdded DEF Exchanged, TypeOK
  <2> QED BY <1>2, <1>9, <2>5, <2>2, <2>4 DEF Exchanged, All, TypeOK
<1>10. ASSUME NEW p \in Procs, ExchangeFails(p)
       PROVE  TypeOK' /\ RolesFound'
  <2>1. Audit(job[p].key.provider, "FAILED", None) \in AuditRows
    BY <1>10, JobShapes DEF ExchangeFails, TypeOK, Audit, AuditRows, OAuthKeys, Keys
  <2>5. IsABag(audits') /\ BagToSet(audits') \subseteq AuditRows
    BY <1>10, <2>1, BagAdded DEF ExchangeFails, TypeOK
  <2> QED BY <1>2, <1>10, <2>5 DEF ExchangeFails, End, Idle, All, TypeOK
<1>11. ASSUME NEW p \in Procs, LookUp(p)
       PROVE  TypeOK' /\ RolesFound'
  <2> DEFINE row == identity[job[p].key]
             r == [op |-> "open", session |-> NewSession(row)]
  <2>1. row \in UserRows \cup {NoIdentity}
    BY <1>11, JobShapes DEF LookUp, TypeOK, OAuthKeys
  <2>2. CASE Passes(row, job[p].code)
    <3>1. r \in Jobs
      BY <2>1, <2>2 DEF Passes, Jobs, NewSession, SessionRows, UserRows
    <3> QED BY <1>2, <1>11, <2>2, <3>1 DEF LookUp, tables, All, TypeOK
  <2>3. CASE ~Passes(row, job[p].code)
    BY <1>3, <1>11, <2>3 DEF LookUp, All
  <2> QED BY <2>2, <2>3
<1>12. ASSUME NEW p \in Procs, OpenSession(p)
       PROVE  TypeOK' /\ RolesFound'
  <2>1. job[p].session \in SessionRows
    BY <1>12, JobShapes DEF OpenSession, TypeOK
  <2>2. IsABag(sessions') /\ BagToSet(sessions') \subseteq SessionRows
    BY <1>12, <2>1, BagAdded DEF OpenSession, TypeOK
  <2>3. RolesFound'
    BY <1>1, <1>12 DEF OpenSession, End, Idle, All
  <2> QED BY <1>12, <2>2, <2>3, JobTyped DEF OpenSession, End, TypeOK, All
<1>13. ASSUME NEW s \in BagToSet(sessions), Expire(s)
       PROVE  TypeOK' /\ RolesFound'
  <2> DEFINE left == Without(sessions, s)
             gone == [s EXCEPT !.expired = TRUE]
  <2>1. gone \in SessionRows
    BY DEF TypeOK, SessionRows
  <2>2. IsABag(left) /\ BagToSet(left) \subseteq SessionRows
    BY BagRemoved DEF TypeOK
  <2>3. sessions' = With(left, gone)
    BY <1>13 DEF Expire
  <2> HIDE DEF left, gone
  <2>4. IsABag(With(left, gone)) /\ BagToSet(With(left, gone)) = BagToSet(left) \cup {gone}
    BY <2>2, BagAdded
  <2>5. IsABag(sessions') /\ BagToSet(sessions') \subseteq SessionRows
    BY <2>1, <2>2, <2>3, <2>4
  <2> QED BY <1>13, <2>5 DEF Expire, TypeOK, RolesFound
<1>14. ASSUME NEW p \in Procs, NEW s \in BagToSet(sessions), NEW u \in Ids, BeginDisable(p, s, u)
       PROVE  TypeOK' /\ RolesFound'
  <2>1. [op |-> "emit", user |-> u, actor |-> s.user] \in Jobs
    BY DEF Jobs, TypeOK, SessionRows
  <2> QED BY <1>2, <1>14, <2>1 DEF BeginDisable, Start, tables, All, TypeOK
<1>15. ASSUME NEW p \in Procs, EmitDisabled(p)
       PROVE  TypeOK' /\ RolesFound'
  <2> DEFINE r == [job[p] EXCEPT !.op = "disable"]
  <2>1. job[p] \in Jobs /\ job[p].op = "emit"
    BY <1>15 DEF EmitDisabled, TypeOK
  <2>2. r \in Jobs /\ r.op = "disable"
    BY <2>1 DEF Jobs, Idle
  <2>3. DisabledBy(job[p].user, job[p].actor) \in AuditRows
    BY <2>1, JobShapes DEF DisabledBy, Audit, AuditRows
  <2>4. job' = [job EXCEPT ![p] = r]
    BY <1>15 DEF EmitDisabled
  <2>5. IsABag(audits') /\ BagToSet(audits') \subseteq AuditRows
    BY <1>15, <2>3, BagAdded DEF EmitDisabled, TypeOK
  <2> QED BY <1>2, <1>15, <2>5, <2>2, <2>4 DEF EmitDisabled, All, TypeOK
<1>16. ASSUME NEW p \in Procs, CommitDisable(p)
       PROVE  TypeOK' /\ RolesFound'
  <2>1. factor' \in [Ids -> FactorRows]
    BY <1>16, JobShapes DEF CommitDisable, TypeOK, FactorRows
  <2>2. RolesFound'
    BY <1>1, <1>16 DEF CommitDisable, End, Idle, All
  <2> QED BY <1>16, <2>1, <2>2, JobTyped DEF CommitDisable, End, TypeOK, All
<1>17. ASSUME NEW s \in Scripts, NEW u \in KnownUsers, BeginEnable(s, u)
       PROVE  TypeOK' /\ RolesFound'
  <2>1. [op |-> "enable", user |-> u, seen |-> factor[u], secret |-> generated + 1] \in Jobs
    BY KnownAreIds DEF Jobs, TypeOK
  <2>2. generated' \in Nat
    BY <1>17 DEF BeginEnable, TypeOK
  <2> QED BY <1>2, <1>17, <2>1, <2>2 DEF BeginEnable, Start, tables, All, TypeOK
<1>18. ASSUME NEW s \in Scripts, CommitEnable(s)
       PROVE  TypeOK' /\ RolesFound'
  <2>1. factor' \in [Ids -> FactorRows]
    BY <1>18, JobShapes DEF CommitEnable, TypeOK, FactorRows, Saved
  <2>2. RolesFound'
    BY <1>1, <1>18 DEF CommitEnable, End, Idle, All
  <2> QED BY <1>18, <2>1, <2>2, JobTyped DEF CommitEnable, End, TypeOK, All
<1>19. ASSUME NEW s \in Scripts, NEW k \in Keys, NEW u \in Ids, NEW admin \in BOOLEAN, NEW flag \in BOOLEAN,
              BeginSeed(s, k, u, admin, flag)
       PROVE  TypeOK' /\ RolesFound'
  <2>1. [op |-> "seed", key |-> k, row |-> [user |-> u, admin |-> admin, flag |-> flag]] \in Jobs
    BY DEF Jobs, UserRows
  <2> QED BY <1>2, <1>19, <2>1 DEF BeginSeed, Start, tables, All, TypeOK
<1>20. ASSUME NEW s \in Scripts, CommitSeed(s)
       PROVE  TypeOK' /\ RolesFound'
  <2>1. job[s].key \in Keys /\ job[s].row \in UserRows
    BY <1>20, JobShapes DEF CommitSeed, TypeOK
  <2>2. identity' \in [Keys -> UserRows \cup {NoIdentity}]
    BY <1>20, <2>1 DEF CommitSeed, TypeOK
  <2>3. \A k \in Keys : identity[k] # NoIdentity => identity'[k] # NoIdentity
    BY <1>20, <2>1 DEF CommitSeed, TypeOK
  <2>4. RolesFound'
    BY <1>1, <1>20, <2>3 DEF CommitSeed, End, Idle, All
  <2> QED BY <1>20, <2>2, <2>4, JobTyped DEF CommitSeed, End, TypeOK, All
<1>21. ASSUME NEW s \in Scripts, NEW k \in Keys, NEW added \in BOOLEAN, NEW removed \in BOOLEAN,
              BeginRoles(s, k, added, removed)
       PROVE  TypeOK' /\ RolesFound'
  <2> DEFINE r == [op |-> "roles", key |-> k, admin |-> (identity[k].admin \/ added) /\ ~removed]
  <2>1. r \in Jobs
    BY <1>21 DEF BeginRoles, Jobs, TypeOK, UserRows
  <2>2. \A q \in All : job'[q] = IF q = s THEN r ELSE job[q]
    BY <1>21, <2>1, JobTyped DEF BeginRoles, Start, All
  <2> QED BY <1>21, <2>1, <2>2, JobTyped DEF BeginRoles, Start, tables, All, TypeOK, RolesFound
<1>22. ASSUME NEW s \in Scripts, CommitRoles(s)
       PROVE  TypeOK' /\ RolesFound'
  <2>1. job[s].key \in Keys /\ job[s].admin \in BOOLEAN /\ identity[job[s].key] # NoIdentity
    BY <1>22, JobShapes DEF CommitRoles, TypeOK, RolesFound, All
  <2>2. identity' \in [Keys -> UserRows \cup {NoIdentity}]
    BY <1>22, <2>1 DEF CommitRoles, TypeOK, UserRows
  <2>3. \A k \in Keys : identity[k] # NoIdentity => identity'[k] # NoIdentity
    BY <1>22, <2>1, NoneAssumption DEF CommitRoles, TypeOK, UserRows, NoIdentity
  <2>4. RolesFound'
    BY <1>1, <1>22, <2>3 DEF CommitRoles, End, Idle, All
  <2> QED BY <1>22, <2>2, <2>4, JobTyped DEF CommitRoles, End, TypeOK, All
<1>23. CASE UNCHANGED vars
  BY <1>23 DEF vars, TypeOK, RolesFound
<1>24. ASSUME NEW p \in All, Crash(p)
       PROVE  TypeOK' /\ RolesFound'
  BY <1>3, <1>24 DEF Crash
<1> QED
  BY <1>4, <1>5, <1>6, <1>7, <1>8, <1>9, <1>10, <1>11, <1>12, <1>13, <1>14, <1>15, <1>16, <1>17,
     <1>18, <1>19, <1>20, <1>21, <1>22, <1>23, <1>24 DEF Next, Request, Work, Script, All

-----------------------------------------------------------------------------
(* A sign-up under way brings a user that no row and no other request has. *)
SignupsFresh ==
  \A p \in All : job[p].op = "signup" =>
    /\ ~job[p].row.flag
    /\ job[p].row.user \notin KnownUsers
    /\ \A q \in All \ {p} : job[q].op \in {"signup", "seed"} => job[q].row.user # job[p].row.user

WritesIdentity ==
  \/ \E p \in Procs : CommitSignup(p) \/ \E e \in Emails, u \in Ids, admin \in BOOLEAN : BeginSignup(p, e, u, admin)
  \/ \E s \in Scripts :
       \/ CommitSeed(s) \/ CommitRoles(s)
       \/ \E k \in Keys, u \in Ids, admin, flag \in BOOLEAN : BeginSeed(s, k, u, admin, flag)

(* The other steps neither touch accounts and identities nor start such.   *)
LEMMA OtherSteps ==
  ASSUME TypeOK, [Next]_vars, ~WritesIdentity
  PROVE  /\ UNCHANGED <<accounts, identity>>
         /\ \A q \in All : job'[q] = job[q] \/ job'[q].op \notin {"signup", "seed"}
<1> DEFINE Goal == /\ UNCHANGED <<accounts, identity>>
                   /\ \A q \in All : job'[q] = job[q] \/ job'[q].op \notin {"signup", "seed"}
<1>1. ASSUME NEW p \in All, NEW r, r.op \notin {"signup", "seed"}, job' = [job EXCEPT ![p] = r],
             UNCHANGED <<accounts, identity>>
      PROVE  Goal
  BY <1>1 DEF TypeOK, All
<1> HIDE DEF Goal
<1>2. ASSUME NEW p \in All, End(p), UNCHANGED <<accounts, identity>> PROVE Goal
  BY <1>1, <1>2 DEF End, Idle
<1>3. ASSUME NEW p \in Procs, Request(p) PROVE Goal
  <2>1. ASSUME NEW e \in Emails, NEW right \in BOOLEAN, NEW code \in Codes, BeginLogin(p, e, right, code) PROVE Goal
    <3>1. LoginOutcome(e, right, code).op = "login"
      BY DEF LoginOutcome
    <3> QED BY <1>1, <2>1, <3>1 DEF BeginLogin, Start, tables, All
  <2>2. ASSUME NEW k \in OAuthKeys, NEW code \in Codes, BeginCallback(p, k, code) PROVE Goal
    BY <1>1, <2>2 DEF BeginCallback, Start, All
  <2>3. ASSUME NEW s \in BagToSet(sessions), NEW u \in Ids, BeginDisable(p, s, u) PROVE Goal
    BY <1>1, <2>3 DEF BeginDisable, Start, tables, All
  <2> QED BY <1>3, <2>1, <2>2, <2>3 DEF Request, WritesIdentity
<1>4. ASSUME NEW p \in Procs, Work(p) PROVE Goal
  <2>1. ASSUME Exchanged(p) \/ EmitDisabled(p) PROVE Goal
    <3>1. PICK op \in {"lookup", "disable"} : job' = [job EXCEPT ![p] = [job[p] EXCEPT !.op = op]]
      BY <2>1 DEF Exchanged, EmitDisabled
    <3>2. job[p] \in Jobs /\ job[p].op \in {"exchange", "emit"}
      BY <2>1 DEF Exchanged, EmitDisabled, TypeOK
    <3>3. [job[p] EXCEPT !.op = op].op = op
      BY <3>2 DEF Jobs, Idle
    <3> QED BY <1>1, <2>1, <3>1, <3>3 DEF Exchanged, EmitDisabled, All
  <2>2. ASSUME LookUp(p) PROVE Goal
    BY <1>1, <1>2, <2>2 DEF LookUp, tables, All
  <2>3. ASSUME EndLogin(p) \/ ExchangeFails(p) \/ OpenSession(p) \/ CommitDisable(p) PROVE Goal
    BY <1>2, <2>3 DEF EndLogin, ExchangeFails, OpenSession, CommitDisable, All
  <2> QED BY <1>4, <2>1, <2>2, <2>3 DEF Work, WritesIdentity
<1>5. ASSUME NEW s \in Scripts, Script(s) PROVE Goal
  <2>1. ASSUME NEW u \in KnownUsers, BeginEnable(s, u) PROVE Goal
    BY <1>1, <2>1 DEF BeginEnable, Start, tables, All
  <2>2. ASSUME CommitEnable(s) PROVE Goal
    BY <1>2, <2>2 DEF CommitEnable, All
  <2>3. ASSUME NEW k \in Keys, NEW added \in BOOLEAN, NEW removed \in BOOLEAN, BeginRoles(s, k, added, removed) PROVE Goal
    <3> DEFINE r == [op |-> "roles", key |-> k, admin |-> (identity[k].admin \/ added) /\ ~removed]
    <3>1. job' = [job EXCEPT ![s] = r] /\ r.op = "roles" /\ UNCHANGED <<accounts, identity>>
      BY <2>3 DEF BeginRoles, Start, tables
    <3> HIDE DEF r
    <3> QED BY <1>1, <3>1 DEF All
  <2> QED BY <1>5, <2>1, <2>2, <2>3 DEF Script, WritesIdentity
<1>6. ASSUME NEW p \in All, Crash(p) PROVE Goal
  BY <1>2, <1>6 DEF Crash, tables
<1>7. ASSUME NEW s \in BagToSet(sessions), Expire(s) PROVE Goal
  BY <1>7 DEF Expire, Goal
<1>8. CASE UNCHANGED vars
  BY <1>8 DEF vars, Goal
<1> QED
  BY <1>3, <1>4, <1>5, <1>6, <1>7, <1>8 DEF Next, All, Goal

LEMMA InitAccounts == Init => AccountsHaveIdentities /\ SignupsFresh
BY DEF Init, AccountsHaveIdentities, SignupsFresh, Idle, All

(* Every step keeps accounts and identities in pairs and sign-ups fresh.   *)
LEMMA AccountsStep ==
  ASSUME TypeOK, RolesFound, AccountsHaveIdentities, SignupsFresh, [Next]_vars
  PROVE  AccountsHaveIdentities' /\ SignupsFresh'
<1> USE IdleIsJob
<1> DEFINE Goal == AccountsHaveIdentities' /\ SignupsFresh'
<1>0. /\ \A e \in Emails : Local(e) \in Keys
      /\ \A e, f \in Emails : Local(e) = Local(f) => e = f
  BY DEF Local, Keys
<1>1. \A e \in Emails : accounts[e] # None => accounts[e] \in KnownUsers
  BY <1>0 DEF AccountsHaveIdentities, KnownUsers
<1>2. ASSUME NEW p \in Procs, NEW e \in Emails, NEW u \in Ids, NEW admin \in BOOLEAN, BeginSignup(p, e, u, admin) PROVE Goal
  <2> DEFINE r == [op |-> "signup", email |-> e, row |-> [user |-> u, admin |-> admin, flag |-> FALSE]]
  <2>1. \A q \in All : job'[q] = IF q = p THEN r ELSE job[q]
    BY <1>2 DEF BeginSignup, Start, TypeOK, All
  <2>2. u \notin KnownUsers /\ \A q \in All : job[q].op \in {"signup", "seed"} => job[q].row.user # u
    BY <1>2 DEF BeginSignup, InUse, All
  <2>3. UNCHANGED <<accounts, identity>> /\ KnownUsers' = KnownUsers
    BY <1>2 DEF BeginSignup, tables, KnownUsers
  <2> QED BY <2>1, <2>2, <2>3 DEF SignupsFresh, AccountsHaveIdentities
<1>3. ASSUME NEW p \in Procs, CommitSignup(p) PROVE Goal
  <2> DEFINE e == job[p].email
             row == job[p].row
  <2>1. e \in Emails /\ row \in UserRows /\ ~row.flag /\ row.user \notin KnownUsers
    BY <1>3, JobShapes DEF CommitSignup, TypeOK, SignupsFresh, All
  <2>2. \A q \in All : job'[q] = IF q = p THEN Idle ELSE job[q]
    BY <1>3 DEF CommitSignup, End, TypeOK, All
  <2>3. CASE Unique(e)
    <3>1. accounts' = [accounts EXCEPT ![e] = row.user] /\ identity' = [identity EXCEPT ![Local(e)] = row]
      BY <1>3, <2>3 DEF CommitSignup, Unique, TypeOK
    <3>2. AccountsHaveIdentities'
      BY <1>0, <1>1, <2>1, <2>3, <3>1 DEF AccountsHaveIdentities, Unique, TypeOK
    <3>3. KnownUsers' \subseteq KnownUsers \cup {row.user}
      BY <1>0, <2>1, <3>1 DEF KnownUsers, TypeOK
    <3>4. \A q \in All : job[q].op = "signup" /\ q # p => job[q].row.user # row.user
      BY <1>3 DEF SignupsFresh, CommitSignup, All
    <3>5. SignupsFresh'
      BY <2>2, <3>3, <3>4 DEF SignupsFresh, Idle
    <3> QED BY <3>2, <3>5
  <2>4. CASE ~Unique(e)
    <3>1. UNCHANGED <<accounts, identity>> /\ KnownUsers' = KnownUsers
      BY <1>3, <2>4 DEF CommitSignup, KnownUsers
    <3> QED BY <2>2, <3>1 DEF SignupsFresh, AccountsHaveIdentities, Idle
  <2> QED BY <2>3, <2>4
<1>4. ASSUME NEW s \in Scripts, NEW k \in Keys, NEW u \in Ids, NEW admin \in BOOLEAN, NEW flag \in BOOLEAN,
             BeginSeed(s, k, u, admin, flag)
      PROVE  Goal
  <2> DEFINE r == [op |-> "seed", key |-> k, row |-> [user |-> u, admin |-> admin, flag |-> flag]]
  <2>1. \A q \in All : job'[q] = IF q = s THEN r ELSE job[q]
    BY <1>4 DEF BeginSeed, Start, TypeOK, All
  <2>2. UNCHANGED <<accounts, identity>> /\ KnownUsers' = KnownUsers
    BY <1>4 DEF BeginSeed, tables, KnownUsers
  <2>3. \A q \in All : job[q].op = "signup" => job[q].row.user # u
    BY <1>4 DEF BeginSeed, InUse, SignupsFresh, All
  <2> QED BY <2>1, <2>2, <2>3 DEF SignupsFresh, AccountsHaveIdentities
<1>5. ASSUME NEW s \in Scripts, CommitSeed(s) PROVE Goal
  <2> DEFINE k == job[s].key
             row == job[s].row
  <2>1. k \in Keys /\ row \in UserRows
    BY <1>5, JobShapes DEF CommitSeed, TypeOK
  <2>2. \A q \in All : job'[q] = IF q = s THEN Idle ELSE job[q]
    BY <1>5 DEF CommitSeed, End, TypeOK, All
  <2>3. /\ UNCHANGED accounts
        /\ \A l \in Keys : identity'[l] = identity[l] \/ (identity[l] = NoIdentity /\ identity'[l] = row)
    BY <1>5, <2>1 DEF CommitSeed, TypeOK
  <2>4. AccountsHaveIdentities'
    <3>1. \A e \in Emails : accounts[e] # None => identity[Local(e)] # NoIdentity
      BY DEF AccountsHaveIdentities, NoIdentity
    <3> QED BY <1>0, <2>3, <3>1 DEF AccountsHaveIdentities
  <2>5. KnownUsers' \subseteq KnownUsers \cup {row.user}
    BY <2>3 DEF KnownUsers
  <2>6. \A q \in All : job[q].op = "signup" => job[q].row.user # row.user
    BY <1>5 DEF SignupsFresh, CommitSeed, All
  <2> QED BY <2>2, <2>4, <2>5, <2>6 DEF SignupsFresh, Idle
<1>6. ASSUME NEW s \in Scripts, CommitRoles(s) PROVE Goal
  <2>1. job[s].key \in Keys /\ identity[job[s].key] \in UserRows
    BY <1>6, JobShapes DEF CommitRoles, TypeOK, RolesFound, All
  <2>2. /\ UNCHANGED accounts
        /\ \A k \in Keys : identity'[k].user = identity[k].user /\ identity'[k].flag = identity[k].flag
    BY <1>6, <2>1 DEF CommitRoles, TypeOK, UserRows
  <2>3. KnownUsers' = KnownUsers
    BY <2>2 DEF KnownUsers
  <2>4. \A q \in All : job'[q] = IF q = s THEN Idle ELSE job[q]
    BY <1>6 DEF CommitRoles, End, TypeOK, All
  <2> QED BY <1>0, <2>2, <2>3, <2>4 DEF AccountsHaveIdentities, SignupsFresh, Idle
<1>7. CASE ~WritesIdentity
  <2>1. KnownUsers' = KnownUsers
    BY <1>7, OtherSteps DEF KnownUsers
  <2> QED BY <1>7, <2>1, OtherSteps DEF AccountsHaveIdentities, SignupsFresh
<1> QED BY <1>2, <1>3, <1>4, <1>5, <1>6, <1>7 DEF WritesIdentity

-----------------------------------------------------------------------------
(* Entries of the log stay, and a session stays one of its user's, with    *)
(* the roles it was opened with, when it expires.                          *)
LEMMA LogGrows ==
  ASSUME TypeOK, [Next]_vars
  PROVE  /\ BagToSet(audits) \subseteq BagToSet(audits')
         /\ \A s \in BagToSet(sessions) : \E t \in BagToSet(sessions') : t.user = s.user /\ t.admin = s.admin
<1> DEFINE Goal == /\ BagToSet(audits) \subseteq BagToSet(audits')
                   /\ \A s \in BagToSet(sessions) : \E t \in BagToSet(sessions') : t.user = s.user /\ t.admin = s.admin
<1>1. ASSUME BagToSet(audits) \subseteq BagToSet(audits'), BagToSet(sessions) \subseteq BagToSet(sessions') PROVE Goal
  BY <1>1
<1>2. ASSUME UNCHANGED <<audits, sessions>> PROVE Goal
  BY <1>2
<1> HIDE DEF Goal
<1>3. ASSUME NEW s \in BagToSet(sessions), Expire(s) PROVE Goal
  <2> DEFINE left == Without(sessions, s)
             gone == [s EXCEPT !.expired = TRUE]
  <2>1. gone.user = s.user /\ gone.admin = s.admin
    BY DEF TypeOK, SessionRows
  <2>2. sessions' = With(left, gone) /\ UNCHANGED audits
    BY <1>3 DEF Expire
  <2>3. IsABag(left) /\ BagToSet(sessions) \ {s} \subseteq BagToSet(left)
    BY BagRemoved DEF TypeOK
  <2> HIDE DEF left, gone
  <2>4. BagToSet(With(left, gone)) = BagToSet(left) \cup {gone}
    BY <2>3, BagAdded
  <2> QED BY <2>1, <2>2, <2>3, <2>4 DEF Goal
<1>4. ASSUME NEW p \in Procs, Request(p) PROVE Goal
  <2>1. ASSUME NEW k \in OAuthKeys, NEW code \in Codes, BeginCallback(p, k, code) PROVE Goal
    <3>1. audits' = With(audits, Audit(k.provider, "STARTED", None)) /\ UNCHANGED sessions
      BY <2>1 DEF BeginCallback
    <3> QED BY <1>1, <3>1, BagAdded DEF TypeOK
  <2> QED BY <1>2, <1>4, <2>1 DEF Request, BeginSignup, BeginLogin, BeginDisable, tables
<1>5. ASSUME NEW p \in Procs, Work(p) PROVE Goal
  <2>1. ASSUME Exchanged(p) \/ ExchangeFails(p) \/ EmitDisabled(p) PROVE Goal
    <3>1. (\E a : audits' = With(audits, a)) /\ UNCHANGED sessions
      BY <2>1 DEF Exchanged, ExchangeFails, EmitDisabled
    <3> QED BY <1>1, <3>1, BagAdded DEF TypeOK
  <2>2. ASSUME OpenSession(p) PROVE Goal
    <3>1. sessions' = With(sessions, job[p].session) /\ UNCHANGED audits
      BY <2>2 DEF OpenSession
    <3> QED BY <1>1, <3>1, BagAdded DEF TypeOK
  <2>3. ASSUME EndLogin(p) PROVE Goal
    <3>1. CASE job[p].raises
      BY <1>2, <2>3, <3>1 DEF EndLogin
    <3>2. CASE ~job[p].raises
      <4>1. audits' = audits (+) SetToBag(job[p].audits) /\ sessions' = sessions (+) SetToBag(job[p].opened)
        BY <2>3, <3>2 DEF EndLogin
      <4>2. BagToSet(audits') = BagToSet(audits) \cup job[p].audits
        BY <4>1, BagJoined DEF TypeOK
      <4>3. BagToSet(sessions') = BagToSet(sessions) \cup job[p].opened
        BY <4>1, BagJoined DEF TypeOK
      <4> QED BY <1>1, <4>2, <4>3
    <3> QED BY <3>1, <3>2
  <2> QED BY <1>2, <1>5, <2>1, <2>2, <2>3 DEF Work, CommitSignup, LookUp, CommitDisable, tables
<1>6. ASSUME NEW s \in Scripts, Script(s) PROVE Goal
  BY <1>2, <1>6 DEF Script, BeginEnable, CommitEnable, BeginSeed, CommitSeed, BeginRoles, CommitRoles, tables
<1>7. ASSUME NEW p \in All, Crash(p) PROVE Goal
  BY <1>2, <1>7 DEF Crash, tables
<1>8. CASE UNCHANGED vars
  BY <1>2, <1>8 DEF vars
<1> QED BY <1>3, <1>4, <1>5, <1>6, <1>7, <1>8 DEF Next, All, Goal

-----------------------------------------------------------------------------
Logged(u) ==
  \E s \in BagToSet(sessions), a \in BagToSet(audits) :
    s.admin /\ a.status = "TWO_FACTOR_DISABLED" /\ a.subject = u /\ a.reason = s.user

(* A row once inserted has a secret.  A request that disables one has found *)
(* it and has a session for it, and logs before it writes; an enabling      *)
(* script that read a row writes a row.                                     *)
FactorsKnown ==
  /\ \A u \in Ids : factor[u].secret = 0 => factor[u] = NoFactor
  /\ \A p \in All :
       /\ job[p].op \in {"emit", "disable"} => factor[job[p].user].secret # 0
       /\ job[p].op = "emit" => \E s \in BagToSet(sessions) : s.admin /\ s.user = job[p].actor
       /\ job[p].op = "disable" => Logged(job[p].user)
       /\ job[p].op = "enable" /\ job[p].seen # NoFactor => factor[job[p].user].secret # 0

WritesFactor ==
  \/ \E p \in Procs :
       \/ EmitDisabled(p) \/ CommitDisable(p)
       \/ \E s \in BagToSet(sessions), u \in Ids : BeginDisable(p, s, u)
  \/ \E s \in Scripts : CommitEnable(s) \/ \E u \in KnownUsers : BeginEnable(s, u)

(* The other steps neither touch a second factor nor start to.             *)
LEMMA OtherFactorSteps ==
  ASSUME TypeOK, [Next]_vars, ~WritesFactor
  PROVE  /\ UNCHANGED factor
         /\ \A q \in All : job'[q] = job[q] \/ job'[q].op \notin {"emit", "disable", "enable"}
<1> DEFINE Goal == /\ UNCHANGED factor
                   /\ \A q \in All : job'[q] = job[q] \/ job'[q].op \notin {"emit", "disable", "enable"}
<1>1. ASSUME NEW p \in All, NEW r, r.op \notin {"emit", "disable", "enable"}, job' = [job EXCEPT ![p] = r],
             UNCHANGED factor
      PROVE  Goal
  BY <1>1 DEF TypeOK, All
<1> HIDE DEF Goal
<1>2. ASSUME NEW p \in All, End(p), UNCHANGED factor PROVE Goal
  BY <1>1, <1>2 DEF End, Idle
<1>3. ASSUME NEW p \in Procs, Request(p) PROVE Goal
  <2>1. ASSUME NEW e \in Emails, NEW right \in BOOLEAN, NEW code \in Codes, BeginLogin(p, e, right, code) PROVE Goal
    <3>1. LoginOutcome(e, right, code).op = "login"
      BY DEF LoginOutcome
    <3> QED BY <1>1, <2>1, <3>1 DEF BeginLogin, Start, tables, All
  <2>2. ASSUME NEW k \in OAuthKeys, NEW code \in Codes, BeginCallback(p, k, code) PROVE Goal
    BY <1>1, <2>2 DEF BeginCallback, Start, All
  <2>3. ASSUME NEW e \in Emails, NEW u \in Ids, NEW admin \in BOOLEAN, BeginSignup(p, e, u, admin) PROVE Goal
    BY <1>1, <2>3 DEF BeginSignup, Start, tables, All
  <2> QED BY <1>3, <2>1, <2>2, <2>3 DEF Request, WritesFactor
<1>4. ASSUME NEW p \in Procs, Work(p) PROVE Goal
  <2>1. ASSUME Exchanged(p) PROVE Goal
    <3>1. [job[p] EXCEPT !.op = "lookup"].op = "lookup"
      BY <2>1 DEF Exchanged, TypeOK, Jobs, Idle
    <3> QED BY <1>1, <2>1, <3>1 DEF Exchanged, All
  <2>2. ASSUME LookUp(p) PROVE Goal
    BY <1>1, <1>2, <2>2 DEF LookUp, tables, All
  <2>3. ASSUME CommitSignup(p) \/ EndLogin(p) \/ ExchangeFails(p) \/ OpenSession(p) PROVE Goal
    BY <1>2, <2>3 DEF CommitSignup, EndLogin, ExchangeFails, OpenSession, All
  <2> QED BY <1>4, <2>1, <2>2, <2>3 DEF Work, WritesFactor
<1>5. ASSUME NEW s \in Scripts, Script(s) PROVE Goal
  <2>1. ASSUME NEW k \in Keys, NEW u \in Ids, NEW admin \in BOOLEAN, NEW flag \in BOOLEAN,
               BeginSeed(s, k, u, admin, flag)
        PROVE  Goal
    BY <1>1, <2>1 DEF BeginSeed, Start, tables, All
  <2>2. ASSUME CommitSeed(s) \/ CommitRoles(s) PROVE Goal
    BY <1>2, <2>2 DEF CommitSeed, CommitRoles, All
  <2>3. ASSUME NEW k \in Keys, NEW added \in BOOLEAN, NEW removed \in BOOLEAN, BeginRoles(s, k, added, removed) PROVE Goal
    <3> DEFINE r == [op |-> "roles", key |-> k, admin |-> (identity[k].admin \/ added) /\ ~removed]
    <3>1. job' = [job EXCEPT ![s] = r] /\ r.op = "roles" /\ UNCHANGED factor
      BY <2>3 DEF BeginRoles, Start, tables
    <3> HIDE DEF r
    <3> QED BY <1>1, <3>1 DEF All
  <2> QED BY <1>5, <2>1, <2>2, <2>3 DEF Script, WritesFactor
<1>6. ASSUME NEW p \in All, Crash(p) PROVE Goal
  BY <1>2, <1>6 DEF Crash, tables
<1>7. ASSUME NEW s \in BagToSet(sessions), Expire(s) PROVE Goal
  BY <1>7 DEF Expire, Goal
<1>8. CASE UNCHANGED vars
  BY <1>8 DEF vars, Goal
<1> QED
  BY <1>3, <1>4, <1>5, <1>6, <1>7, <1>8 DEF Next, All, Goal

LEMMA InitFactors == Init => CodesOfSecret /\ DisabledRowsAudited /\ FactorsKnown
BY DEF Init, CodesOfSecret, DisabledRowsAudited, FactorsKnown, NoFactor, Idle, All

(* Every step keeps codes with their secret and disabled rows in the log.  *)
LEMMA FactorsStep ==
  ASSUME TypeOK, CodesOfSecret, DisabledRowsAudited, FactorsKnown, [Next]_vars
  PROVE  CodesOfSecret' /\ DisabledRowsAudited' /\ FactorsKnown'
<1> DEFINE Goal == CodesOfSecret' /\ DisabledRowsAudited' /\ FactorsKnown'
<1> USE IdleIsJob
<1>1. \A u : Logged(u) => Logged(u)'
  BY LogGrows DEF Logged
<1>2. \A actor : (\E s \in BagToSet(sessions) : s.admin /\ s.user = actor)
                   => \E s \in BagToSet(sessions') : s.admin /\ s.user = actor
  BY LogGrows
<1>3. \A u \in Ids : factor[u] # NoFactor /\ ~factor[u].enabled => Logged(u)
  BY DEF DisabledRowsAudited, Logged
<1>4. ASSUME UNCHANGED factor PROVE CodesOfSecret' /\ DisabledRowsAudited'
  BY <1>1, <1>3, <1>4 DEF CodesOfSecret, DisabledRowsAudited, Logged
<1>5. ASSUME NEW p \in Procs, NEW s \in BagToSet(sessions), NEW u \in Ids, BeginDisable(p, s, u) PROVE Goal
  <2>1. \A q \in All : job'[q] = IF q = p THEN [op |-> "emit", user |-> u, actor |-> s.user] ELSE job[q]
    BY <1>5 DEF BeginDisable, Start, TypeOK, All
  <2>2. UNCHANGED factor /\ factor[u].enabled /\ s.admin
    BY <1>5 DEF BeginDisable, tables
  <2>3. factor[u].secret # 0
    BY <2>2 DEF FactorsKnown, NoFactor
  <2> QED BY <1>1, <1>2, <1>4, <2>1, <2>2, <2>3 DEF FactorsKnown
<1>6. ASSUME NEW p \in Procs, EmitDisabled(p) PROVE Goal
  <2> DEFINE u == job[p].user
             a == DisabledBy(u, job[p].actor)
  <2>1. \A q \in All \ {p} : job'[q] = job[q]
    BY <1>6 DEF EmitDisabled, TypeOK, All
  <2>2. job'[p].op = "disable" /\ job'[p].user = u
    BY <1>6 DEF EmitDisabled, TypeOK, Jobs, Idle, All
  <2>3. audits' = With(audits, a) /\ UNCHANGED <<factor, sessions>>
    BY <1>6 DEF EmitDisabled
  <2>4. a.status = "TWO_FACTOR_DISABLED" /\ a.subject = u /\ a.reason = job[p].actor
    BY DEF DisabledBy, Audit
  <2>5. factor[u].secret # 0 /\ \E s \in BagToSet(sessions) : s.admin /\ s.user = job[p].actor
    BY <1>6 DEF EmitDisabled, FactorsKnown, All
  <2> HIDE DEF a
  <2>6. a \in BagToSet(audits')
    BY <2>3, BagAdded DEF TypeOK
  <2> HIDE DEF u
  <2>7. \E s \in BagToSet(sessions'), b \in BagToSet(audits') :
          s.admin /\ b.status = "TWO_FACTOR_DISABLED" /\ b.subject = u /\ b.reason = s.user
    <3>1. PICK s \in BagToSet(sessions) : s.admin /\ s.user = job[p].actor
      BY <2>5
    <3> QED BY <2>3, <2>4, <2>6, <3>1
  <2> USE DEF u
  <2>8. Logged(job[p].user)'
    BY <2>2, <2>7 DEF Logged
  <2> QED BY <1>1, <1>2, <1>4, <2>1, <2>2, <2>3, <2>5, <2>8 DEF FactorsKnown
<1>7. ASSUME NEW p \in Procs, CommitDisable(p) PROVE Goal
  <2> DEFINE u == job[p].user
  <2>1. u \in Ids /\ factor[u].secret # 0 /\ Logged(u)
    BY <1>7, JobShapes DEF CommitDisable, TypeOK, FactorsKnown, All
  <2>2. \A v \in Ids : factor'[v] = IF v = u THEN [factor[u] EXCEPT !.enabled = FALSE, !.codes = 0] ELSE factor[v]
    BY <1>7, <2>1 DEF CommitDisable, TypeOK
  <2>3. factor'[u].secret = factor[u].secret /\ factor'[u].enabled = FALSE /\ factor'[u].codes = 0
    BY <2>1, <2>2 DEF TypeOK, FactorRows
  <2>4. \A q \in All : job'[q] = IF q = p THEN Idle ELSE job[q]
    BY <1>7 DEF CommitDisable, End, TypeOK, All
  <2>5. CodesOfSecret'
    BY <2>2, <2>3 DEF CodesOfSecret
  <2>6. DisabledRowsAudited'
    BY <1>1, <1>3, <2>1, <2>2 DEF DisabledRowsAudited, Logged
  <2>7. \A v \in Ids : factor[v].secret # 0 => factor'[v].secret # 0
    BY <2>1, <2>2, <2>3
  <2>8. \A q \in All : job[q].op \in {"emit", "disable", "enable"} => job[q].user \in Ids
    BY JobShapes DEF TypeOK, All
  <2>9. FactorsKnown'
    BY <1>1, <1>2, <2>1, <2>2, <2>3, <2>4, <2>7, <2>8 DEF FactorsKnown, Idle
  <2> QED BY <2>5, <2>6, <2>9
<1>8. ASSUME NEW s \in Scripts, NEW u \in KnownUsers, BeginEnable(s, u) PROVE Goal
  <2>1. \A q \in All : job'[q] = IF q = s THEN [op |-> "enable", user |-> u, seen |-> factor[u], secret |-> generated + 1]
                                          ELSE job[q]
    BY <1>8 DEF BeginEnable, Start, TypeOK, All
  <2>2. UNCHANGED factor /\ u \in Ids
    BY <1>8, KnownAreIds DEF BeginEnable, tables
  <2> QED BY <1>1, <1>2, <1>4, <2>1, <2>2 DEF FactorsKnown
<1>9. ASSUME NEW s \in Scripts, CommitEnable(s) PROVE Goal
  <2> DEFINE j == job[s]
             u == j.user
  <2>1. u \in Ids /\ j.seen \in FactorRows /\ j.secret \in Nat \ {0}
    BY <1>9, JobShapes DEF CommitEnable, TypeOK
  <2>2. \A q \in All : job'[q] = IF q = s THEN Idle ELSE job[q]
    BY <1>9 DEF CommitEnable, End, TypeOK, All
  <2>3. j.seen # NoFactor => factor[u].secret # 0
    BY <1>9 DEF CommitEnable, FactorsKnown, All
  <2>4. \A q \in All : job[q].op \in {"emit", "disable", "enable"} => job[q].user \in Ids
    BY JobShapes DEF TypeOK, All
  <2>5. CASE j.seen = NoFactor /\ factor[u] # NoFactor
    <3>1. UNCHANGED factor
      BY <1>9, <2>5 DEF CommitEnable
    <3> QED BY <1>1, <1>2, <1>4, <2>2, <3>1 DEF FactorsKnown, Idle
  <2>6. CASE ~(j.seen = NoFactor /\ factor[u] # NoFactor)
    <3>1. \A v \in Ids : factor'[v] = IF v = u THEN Saved(factor[u], j.seen, j.secret) ELSE factor[v]
      BY <1>9, <2>1, <2>6 DEF CommitEnable, TypeOK
    <3>2. factor'[u].secret = j.secret /\ factor'[u].codes = j.secret
      BY <2>1, <3>1 DEF Saved
    <3>3. CASE j.seen = NoFactor
      <4>1. factor'[u].enabled
        BY <2>1, <3>1, <3>3 DEF Saved
      <4>2. CodesOfSecret'
        BY <2>1, <3>1, <3>2 DEF CodesOfSecret
      <4>3. DisabledRowsAudited'
        BY <1>1, <1>3, <3>1, <4>1 DEF DisabledRowsAudited, Logged
      <4>4. FactorsKnown'
        BY <1>1, <1>2, <2>1, <2>2, <2>4, <3>1, <3>2 DEF FactorsKnown, Idle
      <4> QED BY <4>2, <4>3, <4>4
    <3>4. CASE j.seen # NoFactor
      <4>1. ~factor'[u].enabled => ~factor[u].enabled
        <5>1. factor'[u] = [secret |-> j.secret, enabled |-> (j.seen.enabled => factor[u].enabled), codes |-> j.secret]
          BY <2>1, <3>1, <3>4 DEF Saved
        <5> DEFINE was == factor[u].enabled
                   saw == j.seen.enabled
                   r == [secret |-> j.secret, enabled |-> (saw => was), codes |-> j.secret]
        <5>2. was \in BOOLEAN /\ saw \in BOOLEAN
          BY <2>1 DEF TypeOK, FactorRows
        <5>3. r.enabled = (saw => was)
          OBVIOUS
        <5>4. factor'[u].enabled = (saw => was)
          BY <5>1, <5>3
        <5> HIDE DEF was, saw
        <5>5. ~(saw => was) => ~was
          BY <5>2
        <5> QED BY <5>4, <5>5 DEF was
      <4>2. factor[u] # NoFactor
        BY <2>3, <3>4 DEF NoFactor
      <4>3. CodesOfSecret'
        BY <2>1, <3>1, <3>2 DEF CodesOfSecret
      <4>4. DisabledRowsAudited'
        BY <1>1, <1>3, <2>1, <3>1, <4>1, <4>2 DEF DisabledRowsAudited, Logged
      <4>5. FactorsKnown'
        BY <1>1, <1>2, <2>1, <2>2, <2>4, <3>1, <3>2 DEF FactorsKnown, Idle
      <4> QED BY <4>3, <4>4, <4>5
    <3> QED BY <3>3, <3>4
  <2> QED BY <2>5, <2>6
<1>10. CASE ~WritesFactor
  <2>1. /\ UNCHANGED factor
        /\ \A q \in All : job'[q] = job[q] \/ job'[q].op \notin {"emit", "disable", "enable"}
    BY <1>10, OtherFactorSteps
  <2> QED BY <1>1, <1>2, <1>4, <2>1 DEF FactorsKnown
<1> QED BY <1>5, <1>6, <1>7, <1>8, <1>9, <1>10 DEF WritesFactor

-----------------------------------------------------------------------------
(* The copies in a bag, and what adding and removing do to them.           *)
Tokens(B) == CopiesOf(B, BagToSet(B))

LEMMA TokenIs ==
  ASSUME NEW B
  PROVE  /\ \A t : t \in Tokens(B) <=> \E x \in DOMAIN B : \E n \in 1 .. B[x] : t = <<x, n>>
         /\ \A x, n : <<x, n>> \in Tokens(B) <=> x \in DOMAIN B /\ n \in 1 .. B[x]
         /\ \A S \in SUBSET BagToSet(B) : CopiesOf(B, S) = {t \in Tokens(B) : t[1] \in S}
<1>1. \A S, t : t \in CopiesOf(B, S) <=> \E x \in S : \E n \in 1 .. B[x] : t = <<x, n>>
  BY DEF CopiesOf
<1>2. \A t : t \in Tokens(B) <=> \E x \in DOMAIN B : \E n \in 1 .. B[x] : t = <<x, n>>
  BY <1>1 DEF Tokens, BagToSet
<1>3. \A x, n : <<x, n>> \in Tokens(B) <=> x \in DOMAIN B /\ n \in 1 .. B[x]
  BY <1>2
<1>4. ASSUME NEW S \in SUBSET BagToSet(B) PROVE CopiesOf(B, S) = {t \in Tokens(B) : t[1] \in S}
  BY <1>1, <1>2, <1>4 DEF BagToSet
<1> QED BY <1>2, <1>3, <1>4

LEMMA TokenAdded ==
  ASSUME NEW B, NEW x, IsABag(B)
  PROVE  \E t : t \notin Tokens(B) /\ t[1] = x /\ Tokens(With(B, x)) = Tokens(B) \cup {t}
<1> DEFINE A == With(B, x)
           m == IF x \in DOMAIN B THEN B[x] + 1 ELSE 1
<1>1. \A e \in DOMAIN B : B[e] \in Nat /\ B[e] > 0
  BY DEF IsABag
<1>2. DOMAIN A = DOMAIN B \cup {x} /\ \A e \in DOMAIN A : A[e] = IF e = x THEN m ELSE B[e]
  BY DEF With, (+), SetToBag, IsABag
<1>3. m \in Nat \ {0}
  BY <1>1
<1>4. <<x, m>> \notin Tokens(B)
  BY <1>1, TokenIs
<1> HIDE DEF A
<1>5. Tokens(A) = Tokens(B) \cup {<<x, m>>}
  <2>1. ASSUME NEW t \in Tokens(A) PROVE t \in Tokens(B) \cup {<<x, m>>}
    <3>1. PICK e \in DOMAIN A, n \in Nat : n \in 1 .. A[e] /\ t = <<e, n>>
      BY TokenIs
    <3>2. CASE e # x
      BY <1>2, <3>1, <3>2, TokenIs
    <3>3. CASE e = x
      <4>1. n \in 1 .. m
        BY <1>2, <3>1, <3>3
      <4>2. n = m \/ (x \in DOMAIN B /\ n \in 1 .. B[x])
        BY <1>1, <4>1
      <4> QED BY <3>1, <3>3, <4>2, TokenIs
    <3> QED BY <3>2, <3>3
  <2>2. ASSUME NEW t \in Tokens(B) PROVE t \in Tokens(A)
    <3>1. PICK e \in DOMAIN B, n \in Nat : n \in 1 .. B[e] /\ t = <<e, n>>
      BY TokenIs
    <3>2. n \in 1 .. A[e]
      BY <1>1, <1>2, <3>1
    <3> QED BY <1>2, <3>1, <3>2, TokenIs
  <2>3. <<x, m>> \in Tokens(A)
    BY <1>2, <1>3, TokenIs
  <2> QED BY <2>1, <2>2, <2>3
<1> QED BY <1>4, <1>5 DEF A

LEMMA TokenRemoved ==
  ASSUME NEW B, NEW x, IsABag(B), BagIn(x, B)
  PROVE  \E t \in Tokens(B) : t[1] = x /\ Tokens(Without(B, x)) = Tokens(B) \ {t}
<1> DEFINE A == Without(B, x)
<1>1. x \in DOMAIN B /\ \A e \in DOMAIN B : B[e] \in Nat /\ B[e] > 0
  BY DEF IsABag, BagIn, BagToSet
<1>2. /\ \A e : e \in DOMAIN A <=> e \in DOMAIN B /\ (e = x => B[x] > 1)
      /\ \A e \in DOMAIN A : A[e] = IF e = x THEN B[x] - 1 ELSE B[e]
  BY <1>1 DEF Without, (-), SetToBag
<1>3. <<x, B[x]>> \in Tokens(B)
  BY <1>1, TokenIs
<1> HIDE DEF A
<1>4. Tokens(A) = Tokens(B) \ {<<x, B[x]>>}
  <2>1. ASSUME NEW t \in Tokens(A) PROVE t \in Tokens(B) \ {<<x, B[x]>>}
    <3>1. PICK e \in DOMAIN A, n \in Nat : n \in 1 .. A[e] /\ t = <<e, n>>
      BY TokenIs
    <3>2. n \in 1 .. B[e] /\ (e = x => n # B[x])
      BY <1>1, <1>2, <3>1
    <3> QED BY <1>2, <3>1, <3>2, TokenIs
  <2>2. ASSUME NEW t \in Tokens(B) \ {<<x, B[x]>>} PROVE t \in Tokens(A)
    <3>1. PICK e \in DOMAIN B, n \in Nat : n \in 1 .. B[e] /\ t = <<e, n>>
      BY TokenIs
    <3>2. e = x => n # B[x]
      BY <3>1
    <3>3. e \in DOMAIN A /\ n \in 1 .. A[e]
      BY <1>1, <1>2, <3>1, <3>2
    <3> QED BY <3>1, <3>3, TokenIs
  <2> QED BY <2>1, <2>2
<1> QED BY <1>3, <1>4 DEF A

(* Joining a set is adding its only member, or its two.                    *)
LEMMA JoinOne ==
  ASSUME NEW B, NEW x, IsABag(B)
  PROVE  B (+) SetToBag({x}) = With(B, x)
BY DEF With

LEMMA Joined ==
  ASSUME NEW D, NEW S
  PROVE  D (+) SetToBag(S) =
           [e \in DOMAIN D \cup S |-> (IF e \in DOMAIN D THEN D[e] ELSE 0) + (IF e \in S THEN 1 ELSE 0)]
<1> DEFINE C == SetToBag(S)
<1>1. DOMAIN C = S /\ \A e \in S : C[e] = 1
  BY DEF SetToBag
<1> HIDE DEF C
<1>2. D (+) C = [e \in DOMAIN D \cup S |-> (IF e \in DOMAIN D THEN D[e] ELSE 0) + (IF e \in S THEN 1 ELSE 0)]
  BY <1>1 DEF (+)
<1> QED BY <1>2 DEF C

LEMMA JoinTwo ==
  ASSUME NEW B, NEW x, NEW y, IsABag(B), x # y
  PROVE  B (+) SetToBag({x, y}) = With(With(B, x), y)
<1> DEFINE A == With(B, x)
<1>1. \A e \in DOMAIN B : B[e] \in Nat
  BY DEF IsABag
<1>2. \A S : B (+) SetToBag(S) =
        [e \in DOMAIN B \cup S |-> (IF e \in DOMAIN B THEN B[e] ELSE 0) + (IF e \in S THEN 1 ELSE 0)]
  BY Joined
<1>3. DOMAIN A = DOMAIN B \cup {x} /\ \A e \in DOMAIN A : A[e] = (IF e \in DOMAIN B THEN B[e] ELSE 0) + (IF e \in {x} THEN 1 ELSE 0)
  <2>1. A = [e \in DOMAIN B \cup {x} |-> (IF e \in DOMAIN B THEN B[e] ELSE 0) + (IF e \in {x} THEN 1 ELSE 0)]
    BY Joined DEF With
  <2> HIDE DEF A
  <2> QED BY <2>1
<1> HIDE DEF A
<1>4. DOMAIN A \cup {y} = DOMAIN B \cup {x, y}
  BY <1>3
<1>5. \A e \in DOMAIN B \cup {x, y} :
        (IF e \in DOMAIN B THEN B[e] ELSE 0) + (IF e \in {x, y} THEN 1 ELSE 0)
          = (IF e \in DOMAIN A THEN A[e] ELSE 0) + (IF e \in {y} THEN 1 ELSE 0)
  BY <1>1, <1>3
<1>6. With(A, y) = [e \in DOMAIN A \cup {y} |-> (IF e \in DOMAIN A THEN A[e] ELSE 0) + (IF e \in {y} THEN 1 ELSE 0)]
  BY Joined DEF With
<1> QED BY <1>2, <1>4, <1>5, <1>6 DEF A

-----------------------------------------------------------------------------
(* What is counted: the sessions of a user and the callbacks about to open  *)
(* one, the successes in the log that account for them; callbacks that have *)
(* logged their start and no outcome, and the entries of a provider.        *)
Outcomes == {"FAILED", "CHALLENGE", "SUCCEEDED"}
SessionsOf(u) == {t \in Tokens(sessions) : t[1].user = u}
LookingUp(k) == {p \in All : job[p].op = "lookup" /\ job[p].key = k}
Opening(u) ==
  {p \in All : \/ job[p].op = "open" /\ job[p].session.user = u
               \/ job[p].op = "lookup" /\ identity[job[p].key].user = u}
Exchanging(v) == {p \in All : job[p].op = "exchange" /\ job[p].key.provider = v}

IsSuccess(a, k) == a.status = "SUCCEEDED" /\ a.provider = k.provider /\ a.subject = k.subject
LoggedFor(k) == {t \in Tokens(audits) : IsSuccess(t[1], k)}
LoggedOf(u) ==
  {t \in Tokens(audits) :
     \/ IsSuccess(t[1], [provider |-> "local", subject |-> u])
     \/ \E k \in OAuthKeys : identity[k].user = u /\ IsSuccess(t[1], k)}
Entries(v, statuses) == {t \in Tokens(audits) : t[1].provider = v /\ t[1].status \in statuses}

(* A login writes its start with one outcome, and a session only with the  *)
(* success of its user.                                                    *)
LoginPaired(j) ==
  \E e \in Emails, last \in AuditRows :
    /\ j.audits = {Audit("local", "STARTED", e), last}
    /\ last.provider = "local" /\ last.status \in Outcomes
    /\ \/ j.opened = {}
       \/ \E s \in SessionRows : j.opened = {s} /\ IsSuccess(last, [provider |-> "local", subject |-> s.user])

Busy == {p \in All : job[p] # Idle}

AllFinite == IsFiniteSet(Tokens(sessions)) /\ IsFiniteSet(Tokens(audits)) /\ IsFiniteSet(Busy)
SessionsCounted == \A u \in Ids : Cardinality(SessionsOf(u)) + Cardinality(Opening(u)) <= Cardinality(LoggedOf(u))
LookUpsCounted == \A k \in OAuthKeys : Cardinality(LookingUp(k)) <= Cardinality(LoggedFor(k))
OutcomesCounted ==
  \A v \in Providers \cup {"local"} :
    Cardinality(Entries(v, Outcomes)) + Cardinality(Exchanging(v)) <= Cardinality(Entries(v, {"STARTED"}))

LoginsPaired == \A p \in All : job[p].op = "login" => LoginPaired(job[p])
Counted == AllFinite /\ LoginsPaired /\ SessionsCounted /\ LookUpsCounted /\ OutcomesCounted

-----------------------------------------------------------------------------
(* What one step may do to three sets of which the third accounts for the   *)
(* others: R and C are accounted for by P.                                 *)
Covers(R, C, P) == Cardinality(R) + Cardinality(C) <= Cardinality(P)

Settles(R, C, P, R2, C2, P2) ==
  \/ R2 \subseteq R /\ C2 \subseteq C /\ P \subseteq P2
  \/ \E x, y : y \notin P /\ R2 \subseteq R \cup {x} /\ C2 \subseteq C /\ P \cup {y} \subseteq P2
  \/ \E x, y : y \notin P /\ R2 \subseteq R /\ C2 \subseteq C \cup {x} /\ P \cup {y} \subseteq P2
  \/ \E x, y : y \in C /\ R2 \subseteq R \cup {x} /\ C2 \subseteq C \ {y} /\ P \subseteq P2
  \/ \E x, y : y \in R /\ R2 \subseteq (R \ {y}) \cup {x} /\ C2 \subseteq C /\ P \subseteq P2

LEMMA Fewer ==
  ASSUME NEW T, NEW S, IsFiniteSet(T), S \subseteq T
  PROVE  IsFiniteSet(S) /\ Cardinality(S) <= Cardinality(T) /\ Cardinality(S) \in Nat /\ Cardinality(T) \in Nat
<1>1. S \in SUBSET T
  OBVIOUS
<1>2. IsFiniteSet(S) /\ Cardinality(S) <= Cardinality(T)
  BY <1>1, FS_Subset
<1> QED BY <1>2, FS_CardinalityType

LEMMA OneMore ==
  ASSUME NEW T, NEW S, NEW x, IsFiniteSet(T), S \subseteq T \cup {x}
  PROVE  IsFiniteSet(S) /\ Cardinality(S) <= Cardinality(T) + 1 /\ Cardinality(S) \in Nat /\ Cardinality(T) \in Nat
<1>1. IsFiniteSet(T \cup {x}) /\ Cardinality(T \cup {x}) <= Cardinality(T) + 1 /\ Cardinality(T) \in Nat
  <2>1. IsFiniteSet(T \cup {x}) /\ Cardinality(T \cup {x}) = IF x \in T THEN Cardinality(T) ELSE Cardinality(T) + 1
    BY FS_AddElement
  <2>2. Cardinality(T) \in Nat
    BY FS_CardinalityType
  <2> QED BY <2>1, <2>2
<1>2. IsFiniteSet(S) /\ Cardinality(S) <= Cardinality(T \cup {x}) /\ Cardinality(S) \in Nat /\ Cardinality(T \cup {x}) \in Nat
  BY <1>1, Fewer
<1> QED BY <1>1, <1>2

LEMMA OneLess ==
  ASSUME NEW T, NEW S, NEW x \in T, IsFiniteSet(T), S \subseteq T \ {x}
  PROVE  IsFiniteSet(S) /\ Cardinality(S) + 1 <= Cardinality(T) /\ Cardinality(S) \in Nat /\ Cardinality(T) \in Nat
<1>1. IsFiniteSet(T \ {x}) /\ Cardinality(T \ {x}) = Cardinality(T) - 1 /\ Cardinality(T) \in Nat
  <2>1. IsFiniteSet(T \ {x}) /\ Cardinality(T \ {x}) = IF x \in T THEN Cardinality(T) - 1 ELSE Cardinality(T)
    BY FS_RemoveElement
  <2>2. Cardinality(T) \in Nat
    BY FS_CardinalityType
  <2> QED BY <2>1, <2>2
<1>2. IsFiniteSet(S) /\ Cardinality(S) <= Cardinality(T \ {x}) /\ Cardinality(S) \in Nat /\ Cardinality(T \ {x}) \in Nat
  BY <1>1, Fewer
<1> QED BY <1>1, <1>2

LEMMA StillCovers ==
  ASSUME NEW R, NEW C, NEW P, NEW R2, NEW C2, NEW P2, IsFiniteSet(R), IsFiniteSet(C), IsFiniteSet(P2),
         Covers(R, C, P), Settles(R, C, P, R2, C2, P2)
  PROVE  Covers(R2, C2, P2)
<1> USE DEF Covers
<1>1. P \subseteq P2
  BY DEF Settles
<1>2. Cardinality(P) <= Cardinality(P2) /\ Cardinality(P) \in Nat /\ Cardinality(P2) \in Nat
  BY <1>1, Fewer
<1>3. CASE R2 \subseteq R /\ C2 \subseteq C
  <2>1. Cardinality(R2) <= Cardinality(R) /\ Cardinality(R2) \in Nat /\ Cardinality(R) \in Nat
    BY <1>3, Fewer
  <2>2. Cardinality(C2) <= Cardinality(C) /\ Cardinality(C2) \in Nat /\ Cardinality(C) \in Nat
    BY <1>3, Fewer
  <2> QED BY <1>2, <2>1, <2>2
<1>4. ASSUME NEW x, NEW y, y \notin P, R2 \subseteq R \cup {x}, C2 \subseteq C, P \cup {y} \subseteq P2
      PROVE  Covers(R2, C2, P2)
  <2>1. Cardinality(R2) <= Cardinality(R) + 1 /\ Cardinality(R2) \in Nat /\ Cardinality(R) \in Nat
    BY <1>4, OneMore
  <2>2. Cardinality(C2) <= Cardinality(C) /\ Cardinality(C2) \in Nat /\ Cardinality(C) \in Nat
    BY <1>4, Fewer
  <2>3. y \in P2 /\ P \subseteq P2 \ {y}
    BY <1>4
  <2>4. Cardinality(P) + 1 <= Cardinality(P2)
    BY <2>3, OneLess
  <2> QED BY <1>2, <2>1, <2>2, <2>4
<1>5. ASSUME NEW x, NEW y, y \notin P, R2 \subseteq R, C2 \subseteq C \cup {x}, P \cup {y} \subseteq P2
      PROVE  Covers(R2, C2, P2)
  <2>1. Cardinality(C2) <= Cardinality(C) + 1 /\ Cardinality(C2) \in Nat /\ Cardinality(C) \in Nat
    BY <1>5, OneMore
  <2>2. Cardinality(R2) <= Cardinality(R) /\ Cardinality(R2) \in Nat /\ Cardinality(R) \in Nat
    BY <1>5, Fewer
  <2>3. y \in P2 /\ P \subseteq P2 \ {y}
    BY <1>5
  <2>4. Cardinality(P) + 1 <= Cardinality(P2)
    BY <2>3, OneLess
  <2> QED BY <1>2, <2>1, <2>2, <2>4
<1>6. ASSUME NEW x, NEW y, y \in C, R2 \subseteq R \cup {x}, C2 \subseteq C \ {y}
      PROVE  Covers(R2, C2, P2)
  <2>1. Cardinality(R2) <= Cardinality(R) + 1 /\ Cardinality(R2) \in Nat /\ Cardinality(R) \in Nat
    BY <1>6, OneMore
  <2>2. Cardinality(C2) + 1 <= Cardinality(C) /\ Cardinality(C2) \in Nat /\ Cardinality(C) \in Nat
    BY <1>6, OneLess
  <2> QED BY <1>2, <2>1, <2>2
<1>7. ASSUME NEW x, NEW y, y \in R, R2 \subseteq (R \ {y}) \cup {x}, C2 \subseteq C
      PROVE  Covers(R2, C2, P2)
  <2>1. IsFiniteSet(R \ {y}) /\ Cardinality(R \ {y}) + 1 <= Cardinality(R) /\ Cardinality(R \ {y}) \in Nat /\ Cardinality(R) \in Nat
    BY <1>7, OneLess
  <2>2. Cardinality(R2) <= Cardinality(R \ {y}) + 1 /\ Cardinality(R2) \in Nat
    BY <1>7, <2>1, OneMore
  <2>3. Cardinality(C2) <= Cardinality(C) /\ Cardinality(C2) \in Nat /\ Cardinality(C) \in Nat
    BY <1>7, Fewer
  <2> QED BY <1>2, <2>1, <2>2, <2>3
<1> QED BY <1>1, <1>3, <1>4, <1>5, <1>6, <1>7 DEF Settles

-----------------------------------------------------------------------------
(* The sets counted are finite, and a step gives work to one process.      *)
LEMMA FiniteParts ==
  ASSUME AllFinite
  PROVE  /\ \A u : IsFiniteSet(SessionsOf(u)) /\ IsFiniteSet(Opening(u)) /\ IsFiniteSet(LoggedOf(u))
         /\ \A k : IsFiniteSet(LookingUp(k)) /\ IsFiniteSet(LoggedFor(k))
         /\ \A v, statuses : IsFiniteSet(Entries(v, statuses)) /\ IsFiniteSet(Exchanging(v))
<1>1. \A S : S \subseteq Tokens(sessions) \/ S \subseteq Tokens(audits) \/ S \subseteq Busy => IsFiniteSet(S)
  BY Fewer DEF AllFinite
<1>2. \A u : Opening(u) \subseteq Busy
  BY DEF Opening, Busy, Idle
<1>3. \A k : LookingUp(k) \subseteq Busy
  BY DEF LookingUp, Busy, Idle
<1>4. \A v : Exchanging(v) \subseteq Busy
  BY DEF Exchanging, Busy, Idle
<1>5. \A u : SessionsOf(u) \subseteq Tokens(sessions) /\ LoggedOf(u) \subseteq Tokens(audits)
  BY DEF SessionsOf, LoggedOf
<1>6. \A k : LoggedFor(k) \subseteq Tokens(audits)
  BY DEF LoggedFor
<1>7. \A v, statuses : Entries(v, statuses) \subseteq Tokens(audits)
  BY DEF Entries
<1> QED BY <1>1, <1>2, <1>3, <1>4, <1>5, <1>6, <1>7

LEMMA OneJob ==
  ASSUME [Next]_vars
  PROVE  \/ UNCHANGED job
         \/ \E p \in All : \E r : job' = [job EXCEPT ![p] = r]
<1> DEFINE Goal == UNCHANGED job \/ \E p \in All : \E r : job' = [job EXCEPT ![p] = r]
<1>1. ASSUME NEW p \in All, NEW r, job' = [job EXCEPT ![p] = r] PROVE Goal
  BY <1>1
<1> HIDE DEF Goal
<1>2. ASSUME NEW p \in Procs, Request(p) PROVE Goal
  BY <1>1, <1>2 DEF Request, BeginSignup, BeginLogin, BeginCallback, BeginDisable, Start, All
<1>3. ASSUME NEW p \in Procs, Work(p) PROVE Goal
  <2>1. ASSUME LookUp(p) PROVE Goal
    BY <1>1, <2>1 DEF LookUp, End, All
  <2>2. ASSUME Exchanged(p) \/ EmitDisabled(p) PROVE Goal
    BY <1>1, <2>2 DEF Exchanged, EmitDisabled, All
  <2> QED BY <1>1, <1>3, <2>1, <2>2 DEF Work, CommitSignup, EndLogin, ExchangeFails, OpenSession, CommitDisable, End, All
<1>4. ASSUME NEW s \in Scripts, Script(s) PROVE Goal
  BY <1>1, <1>4 DEF Script, BeginEnable, CommitEnable, BeginSeed, CommitSeed, BeginRoles, CommitRoles, Start, End, All
<1>5. ASSUME NEW p \in All, Crash(p) PROVE Goal
  BY <1>1, <1>5 DEF Crash, End
<1>6. ASSUME NEW s \in BagToSet(sessions), Expire(s) PROVE Goal
  BY <1>6 DEF Expire, Goal
<1>7. CASE UNCHANGED vars
  BY <1>7 DEF vars, Goal
<1> QED BY <1>2, <1>3, <1>4, <1>5, <1>6, <1>7 DEF Next, All, Goal

LEMMA LoggedFinite ==
  ASSUME AllFinite'
  PROVE  /\ \A u : IsFiniteSet(LoggedOf(u)')
         /\ \A k : IsFiniteSet(LoggedFor(k)')
         /\ \A v, statuses : IsFiniteSet(Entries(v, statuses)')
<1>1. IsFiniteSet(Tokens(audits'))
  BY DEF AllFinite
<1>2. \A u : LoggedOf(u)' \subseteq Tokens(audits')
  BY DEF LoggedOf
<1>3. \A k : LoggedFor(k)' \subseteq Tokens(audits')
  BY DEF LoggedFor
<1>4. \A v, statuses : Entries(v, statuses)' \subseteq Tokens(audits')
  BY DEF Entries
<1> QED BY <1>1, <1>2, <1>3, <1>4, Fewer

(* What a login that does not raise writes: two entries, and a session only *)
(* with a success.                                                         *)
LEMMA LoginWrites ==
  ASSUME TypeOK, LoginsPaired, NEW p \in All, EndLogin(p), ~job[p].raises
  PROVE  \E e \in Emails, last \in AuditRows :
           /\ last.provider = "local" /\ last.status \in Outcomes
           /\ audits' = With(With(audits, Audit("local", "STARTED", e)), last)
           /\ \/ UNCHANGED sessions
              \/ \E s \in SessionRows : /\ sessions' = With(sessions, s)
                                        /\ IsSuccess(last, [provider |-> "local", subject |-> s.user])
<1>1. audits' = audits (+) SetToBag(job[p].audits) /\ sessions' = sessions (+) SetToBag(job[p].opened)
  BY DEF EndLogin
<1>2. PICK e \in Emails, last \in AuditRows :
        /\ job[p].audits = {Audit("local", "STARTED", e), last}
        /\ last.provider = "local" /\ last.status \in Outcomes
        /\ \/ job[p].opened = {}
           \/ \E s \in SessionRows : job[p].opened = {s} /\ IsSuccess(last, [provider |-> "local", subject |-> s.user])
  BY DEF EndLogin, LoginsPaired, LoginPaired
<1>3. Audit("local", "STARTED", e) # last
  BY <1>2 DEF Audit, Outcomes
<1>4. audits' = With(With(audits, Audit("local", "STARTED", e)), last)
  BY <1>1, <1>2, <1>3, JoinTwo DEF TypeOK
<1>5. CASE job[p].opened = {}
  <2>1. sessions (+) SetToBag({}) = sessions
    <3>1. sessions (+) SetToBag({}) = [x \in DOMAIN sessions \cup {} |-> (IF x \in DOMAIN sessions THEN sessions[x] ELSE 0)
                                                                           + (IF x \in {} THEN 1 ELSE 0)]
      BY Joined
    <3>2. sessions = [x \in DOMAIN sessions |-> sessions[x]] /\ \A x \in DOMAIN sessions : sessions[x] \in Nat
      BY DEF TypeOK, IsABag
    <3> QED BY <3>1, <3>2
  <2> QED BY <1>1, <1>2, <1>4, <1>5, <2>1
<1>6. ASSUME NEW s \in SessionRows, job[p].opened = {s}, IsSuccess(last, [provider |-> "local", subject |-> s.user])
      PROVE  /\ sessions' = With(sessions, s)
             /\ IsSuccess(last, [provider |-> "local", subject |-> s.user])
  BY <1>1, <1>6, JoinOne DEF TypeOK
<1> QED BY <1>2, <1>4, <1>5, <1>6

LEMMA BagSteps ==
  ASSUME TypeOK, LoginsPaired, [Next]_vars
  PROVE  /\ \/ UNCHANGED audits
            \/ \E a : audits' = With(audits, a)
            \/ \E a, b : audits' = With(With(audits, a), b)
         /\ \/ UNCHANGED sessions
            \/ \E s : sessions' = With(sessions, s)
            \/ \E s \in BagToSet(sessions) : \E t : sessions' = With(Without(sessions, s), t)
<1> DEFINE A == \/ UNCHANGED audits
                \/ \E a : audits' = With(audits, a)
                \/ \E a, b : audits' = With(With(audits, a), b)
           S == \/ UNCHANGED sessions
                \/ \E s : sessions' = With(sessions, s)
                \/ \E s \in BagToSet(sessions) : \E t : sessions' = With(Without(sessions, s), t)
<1>1. UNCHANGED audits => A
  OBVIOUS
<1>2. \A a : audits' = With(audits, a) => A
  OBVIOUS
<1>3. UNCHANGED sessions => S
  OBVIOUS
<1>4. ASSUME NEW p \in Procs, EndLogin(p) PROVE A /\ S
  <2>1. CASE job[p].raises
    BY <1>1, <1>3, <1>4, <2>1 DEF EndLogin
  <2>2. CASE ~job[p].raises
    BY <1>4, <2>2, LoginWrites DEF All
  <2> QED BY <2>1, <2>2
<1>5. ASSUME NEW s \in BagToSet(sessions), Expire(s) PROVE A /\ S
  BY <1>1, <1>5 DEF Expire
<1>6. ASSUME NEW p \in Procs, OpenSession(p) PROVE A /\ S
  BY <1>1, <1>6 DEF OpenSession
<1> HIDE DEF A, S
<1>7. ASSUME NEW p \in Procs, Request(p) PROVE A /\ S
  BY <1>1, <1>2, <1>3, <1>7 DEF Request, BeginSignup, BeginLogin, BeginCallback, BeginDisable, tables
<1>8. ASSUME NEW p \in Procs, Work(p) PROVE A /\ S
  BY <1>1, <1>2, <1>3, <1>4, <1>6, <1>8
     DEF Work, CommitSignup, Exchanged, ExchangeFails, LookUp, EmitDisabled, CommitDisable, tables
<1>9. ASSUME NEW s \in Scripts, Script(s) PROVE A /\ S
  BY <1>1, <1>3, <1>9 DEF Script, BeginEnable, CommitEnable, BeginSeed, CommitSeed, BeginRoles, CommitRoles, tables
<1>10. ASSUME NEW p \in All, Crash(p) PROVE A /\ S
  BY <1>1, <1>3, <1>10 DEF Crash, tables
<1>11. ASSUME UNCHANGED vars PROVE A /\ S
  BY <1>1, <1>3, <1>11 DEF vars
<1>12. A /\ S
  BY <1>5, <1>7, <1>8, <1>9, <1>10, <1>11 DEF Next, All
<1> QED BY <1>12 DEF A, S

LEMMA FiniteStep ==
  ASSUME TypeOK, AllFinite, LoginsPaired, [Next]_vars
  PROVE  AllFinite' /\ Tokens(audits) \subseteq Tokens(audits')
<1>1. \A B, x : IsABag(B) /\ IsFiniteSet(Tokens(B))
                  => /\ IsABag(With(B, x)) /\ IsFiniteSet(Tokens(With(B, x)))
                     /\ Tokens(B) \subseteq Tokens(With(B, x))
  <2> TAKE B, x
  <2> HAVE IsABag(B) /\ IsFiniteSet(Tokens(B))
  <2>1. PICK t : Tokens(With(B, x)) = Tokens(B) \cup {t}
    BY TokenAdded
  <2>2. IsFiniteSet(Tokens(With(B, x)))
    BY <2>1, FS_AddElement
  <2> QED BY <2>1, <2>2, BagAdded
<1>2. \A s \in BagToSet(sessions) : IsABag(Without(sessions, s)) /\ IsFiniteSet(Tokens(Without(sessions, s)))
  <2> TAKE s \in BagToSet(sessions)
  <2>1. \E t \in Tokens(sessions) : t[1] = s /\ Tokens(Without(sessions, s)) = Tokens(sessions) \ {t}
    BY TokenRemoved DEF TypeOK, BagIn
  <2>2. IsFiniteSet(Tokens(Without(sessions, s)))
    BY <2>1, Fewer DEF AllFinite
  <2>3. IsABag(Without(sessions, s))
    BY BagRemoved DEF TypeOK
  <2> QED BY <2>2, <2>3
<1>3. IsFiniteSet(Tokens(audits')) /\ Tokens(audits) \subseteq Tokens(audits')
  <2>1. IsABag(audits) /\ IsFiniteSet(Tokens(audits))
    BY DEF TypeOK, AllFinite
  <2>2. CASE UNCHANGED audits
    BY <2>1, <2>2
  <2>3. ASSUME NEW a, audits' = With(audits, a) PROVE IsFiniteSet(Tokens(audits')) /\ Tokens(audits) \subseteq Tokens(audits')
    BY <1>1, <2>1, <2>3
  <2>4. ASSUME NEW a, NEW b, audits' = With(With(audits, a), b)
        PROVE  IsFiniteSet(Tokens(audits')) /\ Tokens(audits) \subseteq Tokens(audits')
    <3>1. PICK B : B = With(audits, a)
      OBVIOUS
    <3>2. IsABag(B) /\ IsFiniteSet(Tokens(B)) /\ Tokens(audits) \subseteq Tokens(B)
      BY <1>1, <2>1, <3>1
    <3>3. IsFiniteSet(Tokens(audits')) /\ Tokens(B) \subseteq Tokens(audits')
      BY <1>1, <2>4, <3>1, <3>2
    <3> QED BY <3>2, <3>3
  <2> QED BY <2>2, <2>3, <2>4, BagSteps
<1>4. IsFiniteSet(Tokens(sessions'))
  <2>1. IsABag(sessions) /\ IsFiniteSet(Tokens(sessions))
    BY DEF TypeOK, AllFinite
  <2> QED BY <1>1, <1>2, <2>1, BagSteps
<1>5. IsFiniteSet(Busy')
  <2>1. CASE UNCHANGED job
    BY <2>1 DEF Busy, AllFinite
  <2>2. ASSUME NEW p \in All, NEW r, job' = [job EXCEPT ![p] = r] PROVE IsFiniteSet(Busy')
    <3>1. Busy' \subseteq Busy \cup {p}
      BY <2>2 DEF Busy, TypeOK, All
    <3> QED BY <3>1, OneMore DEF AllFinite
  <2> QED BY <2>1, <2>2, OneJob
<1> QED BY <1>3, <1>4, <1>5 DEF AllFinite

-----------------------------------------------------------------------------
SessionsSettle(u) == Settles(SessionsOf(u), Opening(u), LoggedOf(u), SessionsOf(u)', Opening(u)', LoggedOf(u)')
LookUpsSettle(k) == Settles({}, LookingUp(k), LoggedFor(k), {}, LookingUp(k)', LoggedFor(k)')
OutcomesSettle(v) ==
  Settles(Entries(v, Outcomes), Exchanging(v), Entries(v, {"STARTED"}),
          Entries(v, Outcomes)', Exchanging(v)', Entries(v, {"STARTED"})')

LEMMA AllSettle ==
  ASSUME AllFinite, AllFinite'
  PROVE  /\ SessionsCounted /\ (\A u \in Ids : SessionsSettle(u)) => SessionsCounted'
         /\ LookUpsCounted /\ (\A k \in OAuthKeys : LookUpsSettle(k)) => LookUpsCounted'
         /\ OutcomesCounted /\ (\A v \in Providers \cup {"local"} : OutcomesSettle(v)) => OutcomesCounted'
<1>1. ASSUME SessionsCounted, NEW u \in Ids, SessionsSettle(u)
      PROVE  (Cardinality(SessionsOf(u)) + Cardinality(Opening(u)) <= Cardinality(LoggedOf(u)))'
  <2>1. Covers(SessionsOf(u), Opening(u), LoggedOf(u))
    BY <1>1 DEF SessionsCounted, Covers
  <2>2. IsFiniteSet(SessionsOf(u)) /\ IsFiniteSet(Opening(u)) /\ IsFiniteSet(LoggedOf(u)')
    BY FiniteParts, LoggedFinite
  <2>3. Covers(SessionsOf(u)', Opening(u)', LoggedOf(u)')
    BY <1>1, <2>1, <2>2, StillCovers DEF SessionsSettle
  <2> QED BY <2>3 DEF Covers
<1>2. ASSUME LookUpsCounted, NEW k \in OAuthKeys, LookUpsSettle(k)
      PROVE  (Cardinality(LookingUp(k)) <= Cardinality(LoggedFor(k)))'
  <2>1. Cardinality({}) = 0 /\ IsFiniteSet({})
    BY FS_EmptySet
  <2>2. IsFiniteSet(LookingUp(k)) /\ IsFiniteSet(LoggedFor(k)')
    BY FiniteParts, LoggedFinite
  <2>3. Covers({}, LookingUp(k), LoggedFor(k))
    <3>1. Cardinality(LookingUp(k)) <= Cardinality(LoggedFor(k)) /\ Cardinality(LookingUp(k)) \in Nat
      BY <1>2, <2>2, FS_CardinalityType DEF LookUpsCounted
    <3> QED BY <2>1, <3>1 DEF Covers
  <2>4. Covers({}, LookingUp(k)', LoggedFor(k)')
    BY <1>2, <2>1, <2>2, <2>3, StillCovers DEF LookUpsSettle
  <2>5. Cardinality(LookingUp(k)') \in Nat
    <3>1. IsFiniteSet(Busy') /\ LookingUp(k)' \subseteq Busy'
      BY DEF AllFinite, LookingUp, Busy, Idle
    <3> QED BY <3>1, Fewer
  <2> QED BY <2>1, <2>4, <2>5 DEF Covers
<1>3. ASSUME OutcomesCounted, NEW v \in Providers \cup {"local"}, OutcomesSettle(v)
      PROVE  (Cardinality(Entries(v, Outcomes)) + Cardinality(Exchanging(v)) <= Cardinality(Entries(v, {"STARTED"})))'
  <2>1. Covers(Entries(v, Outcomes), Exchanging(v), Entries(v, {"STARTED"}))
    BY <1>3 DEF OutcomesCounted, Covers
  <2>2. IsFiniteSet(Entries(v, Outcomes)) /\ IsFiniteSet(Exchanging(v)) /\ IsFiniteSet(Entries(v, {"STARTED"})')
    BY FiniteParts, LoggedFinite
  <2>3. Covers(Entries(v, Outcomes)', Exchanging(v)', Entries(v, {"STARTED"})')
    BY <1>3, <2>1, <2>2, StillCovers DEF OutcomesSettle
  <2> QED BY <2>3 DEF Covers
<1> QED BY <1>1, <1>2, <1>3 DEF SessionsCounted, LookUpsCounted, OutcomesCounted

(* The log grows; where nothing else of what is counted does, all settles. *)
SameUsers == \A k \in OAuthKeys : identity'[k].user = identity[k].user

LEMMA QuietSessions ==
  ASSUME TypeOK, Tokens(audits) \subseteq Tokens(audits'), SameUsers, UNCHANGED sessions,
         \A q \in All : job'[q] = job[q] \/ job'[q].op \notin {"open", "lookup"}
  PROVE  \A u \in Ids : SessionsSettle(u)
<1> SUFFICES ASSUME NEW u \in Ids PROVE SessionsSettle(u)
  OBVIOUS
<1>1. SessionsOf(u)' \subseteq SessionsOf(u)
  BY DEF SessionsOf
<1>2. \A q \in All : job[q].op = "lookup" => job[q].key \in OAuthKeys
  BY JobShapes DEF TypeOK, All
<1>3. Opening(u)' \subseteq Opening(u)
  BY <1>2 DEF Opening, SameUsers
<1>4. LoggedOf(u) \subseteq LoggedOf(u)'
  BY DEF LoggedOf, SameUsers
<1> QED BY <1>1, <1>3, <1>4 DEF SessionsSettle, Settles

LEMMA QuietLookUps ==
  ASSUME TypeOK, Tokens(audits) \subseteq Tokens(audits'),
         \A q \in All : job'[q] = job[q] \/ job'[q].op # "lookup"
  PROVE  \A k \in OAuthKeys : LookUpsSettle(k)
<1> SUFFICES ASSUME NEW k \in OAuthKeys PROVE LookUpsSettle(k)
  OBVIOUS
<1>1. LookingUp(k)' \subseteq LookingUp(k)
  BY DEF LookingUp
<1>2. LoggedFor(k) \subseteq LoggedFor(k)'
  BY DEF LoggedFor
<1> QED BY <1>1, <1>2 DEF LookUpsSettle, Settles

LEMMA QuietOutcomes ==
  ASSUME TypeOK, Tokens(audits) \subseteq Tokens(audits'),
         \A t \in Tokens(audits') \ Tokens(audits) : t[1].status \notin Outcomes,
         \A q \in All : job'[q] = job[q] \/ job'[q].op # "exchange"
  PROVE  \A v \in Providers \cup {"local"} : OutcomesSettle(v)
<1> SUFFICES ASSUME NEW v \in Providers \cup {"local"} PROVE OutcomesSettle(v)
  OBVIOUS
<1>1. Exchanging(v)' \subseteq Exchanging(v)
  BY DEF Exchanging
<1>2. Entries(v, Outcomes)' \subseteq Entries(v, Outcomes)
  BY DEF Entries
<1>3. Entries(v, {"STARTED"}) \subseteq Entries(v, {"STARTED"})'
  BY DEF Entries
<1> QED BY <1>1, <1>2, <1>3 DEF OutcomesSettle, Settles

CountedSteps ==
  \/ \E p \in Procs :
       \/ Exchanged(p) \/ ExchangeFails(p) \/ LookUp(p) \/ OpenSession(p) \/ EndLogin(p) \/ EmitDisabled(p)
       \/ \E k \in OAuthKeys, code \in Codes : BeginCallback(p, k, code)
       \/ \E e \in Emails, right \in BOOLEAN, code \in Codes : BeginLogin(p, e, right, code)
  \/ \E s \in Scripts : CommitSeed(s)
  \/ \E s \in BagToSet(sessions) : Expire(s)

LEMMA UncountedSteps ==
  ASSUME TypeOK, RolesFound, [Next]_vars, ~CountedSteps
  PROVE  /\ UNCHANGED <<audits, sessions>> /\ SameUsers
         /\ \A q \in All : job'[q] = job[q] \/ job'[q].op \notin {"open", "lookup", "exchange", "login"}
<1> DEFINE Goal == /\ UNCHANGED <<audits, sessions>> /\ SameUsers
                   /\ \A q \in All : job'[q] = job[q] \/ job'[q].op \notin {"open", "lookup", "exchange", "login"}
<1>1. ASSUME NEW p \in All, NEW r, r.op \notin {"open", "lookup", "exchange", "login"}, job' = [job EXCEPT ![p] = r],
             UNCHANGED <<audits, sessions>>, SameUsers
      PROVE  Goal
  BY <1>1 DEF TypeOK, All
<1> HIDE DEF Goal
<1>2. ASSUME NEW p \in All, End(p), UNCHANGED <<audits, sessions>>, SameUsers PROVE Goal
  BY <1>1, <1>2 DEF End, Idle
<1>3. UNCHANGED identity => SameUsers
  BY DEF SameUsers
<1>4. ASSUME NEW p \in Procs, Request(p) PROVE Goal
  <2>1. ASSUME NEW s \in BagToSet(sessions), NEW u \in Ids, BeginDisable(p, s, u) PROVE Goal
    BY <1>1, <1>3, <2>1 DEF BeginDisable, Start, tables, All
  <2>2. ASSUME NEW e \in Emails, NEW u \in Ids, NEW admin \in BOOLEAN, BeginSignup(p, e, u, admin) PROVE Goal
    BY <1>1, <1>3, <2>2 DEF BeginSignup, Start, tables, All
  <2> QED BY <1>4, <2>1, <2>2 DEF Request, CountedSteps
<1>5. ASSUME NEW p \in Procs, Work(p) PROVE Goal
  <2>1. ASSUME CommitSignup(p) PROVE Goal
    <3>1. \A k \in OAuthKeys : identity'[k] = identity[k]
      BY <2>1 DEF CommitSignup, OAuthKeys, Local, TypeOK
    <3> QED BY <1>2, <2>1, <3>1 DEF CommitSignup, All, SameUsers
  <2>2. ASSUME CommitDisable(p) PROVE Goal
    BY <1>2, <1>3, <2>2 DEF CommitDisable, All
  <2> QED BY <1>5, <2>1, <2>2 DEF Work, CountedSteps
<1>6. ASSUME NEW s \in Scripts, Script(s) PROVE Goal
  <2>1. ASSUME NEW u \in KnownUsers, BeginEnable(s, u) PROVE Goal
    BY <1>1, <1>3, <2>1 DEF BeginEnable, Start, tables, All
  <2>2. ASSUME CommitEnable(s) PROVE Goal
    BY <1>2, <1>3, <2>2 DEF CommitEnable, All
  <2>3. ASSUME NEW k \in Keys, NEW u \in Ids, NEW admin \in BOOLEAN, NEW flag \in BOOLEAN,
               BeginSeed(s, k, u, admin, flag)
        PROVE  Goal
    BY <1>1, <1>3, <2>3 DEF BeginSeed, Start, tables, All
  <2>4. ASSUME NEW k \in Keys, NEW added \in BOOLEAN, NEW removed \in BOOLEAN, BeginRoles(s, k, added, removed) PROVE Goal
    <3> DEFINE r == [op |-> "roles", key |-> k, admin |-> (identity[k].admin \/ added) /\ ~removed]
    <3>1. job' = [job EXCEPT ![s] = r] /\ r.op = "roles" /\ UNCHANGED <<audits, sessions, identity>>
      BY <2>4 DEF BeginRoles, Start, tables
    <3> HIDE DEF r
    <3> QED BY <1>1, <1>3, <3>1 DEF All
  <2>5. ASSUME CommitRoles(s) PROVE Goal
    <3>1. job[s].key \in Keys /\ identity[job[s].key] \in UserRows
      BY <2>5, JobShapes DEF CommitRoles, TypeOK, RolesFound, All
    <3>2. \A k \in Keys : identity'[k].user = identity[k].user
      BY <2>5, <3>1 DEF CommitRoles, TypeOK, UserRows
    <3>3. SameUsers
      BY <3>2 DEF SameUsers, OAuthKeys
    <3> QED BY <1>2, <2>5, <3>3 DEF CommitRoles, All
  <2> QED BY <1>6, <2>1, <2>2, <2>3, <2>4, <2>5 DEF Script, CountedSteps
<1>7. ASSUME NEW p \in All, Crash(p) PROVE Goal
  BY <1>2, <1>3, <1>7 DEF Crash, tables
<1>8. ASSUME UNCHANGED vars PROVE Goal
  BY <1>3, <1>8 DEF vars, Goal
<1>9. Goal
  BY <1>4, <1>5, <1>6, <1>7, <1>8 DEF Next, All, CountedSteps
<1> QED BY <1>9 DEF Goal

LEMMA OutcomePaired ==
  ASSUME TypeOK, NEW e \in Emails, NEW right \in BOOLEAN, NEW code \in Codes
  PROVE  LoginPaired(LoginOutcome(e, right, code))
<1> DEFINE u == accounts[e]
           row == identity[Local(e)]
           j == LoginOutcome(e, right, code)
<1>1. u \in Ids \cup {None} /\ row \in UserRows \cup {NoIdentity}
  BY DEF TypeOK, Local, Keys
<1>2. \A status \in {"FAILED", "CHALLENGE", "SUCCEEDED"}, subject \in Ids \cup {None} :
        /\ Audit("local", status, subject) \in AuditRows
        /\ Audit("local", status, subject).provider = "local"
        /\ Audit("local", status, subject).status = status /\ status \in Outcomes
        /\ Audit("local", status, subject).subject = subject
  BY DEF Audit, AuditRows, Outcomes
<1>3. u # None /\ row # NoIdentity =>
        NewSession([row EXCEPT !.user = u]) \in SessionRows /\ NewSession([row EXCEPT !.user = u]).user = u
  BY <1>1 DEF NewSession, SessionRows, UserRows
<1>4. PICK status \in {"FAILED", "CHALLENGE", "SUCCEEDED"}, subject \in Ids \cup {None} :
        /\ j.audits = {Audit("local", "STARTED", e), Audit("local", status, subject)}
        /\ \/ j.opened = {}
           \/ /\ u # None /\ row # NoIdentity /\ status = "SUCCEEDED" /\ subject = u
              /\ j.opened = {NewSession([row EXCEPT !.user = u])}
  <2> DEFINE refused == \/ u = None \/ ~right \/ row = NoIdentity
                        \/ row.flag /\ (~factor[u].enabled \/ code \notin {0, factor[u].secret})
             challenged == ~refused /\ row.flag /\ code = 0
             last == IF refused THEN Audit("local", "FAILED", IF right THEN u ELSE None)
                     ELSE Audit("local", IF challenged THEN "CHALLENGE" ELSE "SUCCEEDED", u)
  <2>1. /\ j.audits = {Audit("local", "STARTED", e), last}
        /\ j.opened = IF refused \/ challenged THEN {} ELSE {NewSession([row EXCEPT !.user = u])}
    BY DEF LoginOutcome
  <2>2. ~refused => u # None /\ row # NoIdentity
    OBVIOUS
  <2> HIDE DEF j, refused, challenged
  <2>3. CASE refused
    BY <1>1, <2>1, <2>3
  <2>4. CASE challenged /\ ~refused
    BY <1>1, <2>1, <2>4
  <2>5. CASE ~refused /\ ~challenged
    BY <1>1, <2>1, <2>2, <2>5
  <2> QED BY <2>3, <2>4, <2>5
<1> HIDE DEF j
<1>5. ASSUME j.opened = {} PROVE LoginPaired(j)
  BY <1>2, <1>4, <1>5 DEF LoginPaired
<1>6. ASSUME j.opened # {} PROVE LoginPaired(j)
  <2>1. /\ u # None /\ row # NoIdentity /\ status = "SUCCEEDED" /\ subject = u
        /\ j.opened = {NewSession([row EXCEPT !.user = u])}
    BY <1>4, <1>6
  <2>2. PICK s \in SessionRows : j.opened = {s} /\ s.user = u
    BY <1>3, <2>1
  <2>3. IsSuccess(Audit("local", status, subject), [provider |-> "local", subject |-> s.user])
    BY <1>2, <2>1, <2>2 DEF IsSuccess
  <2> QED BY <1>2, <1>4, <2>2, <2>3 DEF LoginPaired
<1> QED BY <1>5, <1>6 DEF j

Settled ==
  /\ \A u \in Ids : SessionsSettle(u)
  /\ \A k \in OAuthKeys : LookUpsSettle(k)
  /\ \A v \in Providers \cup {"local"} : OutcomesSettle(v)

LEMMA CallbackSettles ==
  ASSUME TypeOK, NEW p \in Procs, NEW k \in OAuthKeys, NEW code \in Codes, BeginCallback(p, k, code),
         Tokens(audits) \subseteq Tokens(audits')
  PROVE  Settled
<1> DEFINE a == Audit(k.provider, "STARTED", None)
<1>1. \A q \in All : job'[q] = IF q = p THEN [op |-> "exchange", key |-> k, code |-> code] ELSE job[q]
  BY DEF BeginCallback, Start, TypeOK, All
<1>2. a.status = "STARTED" /\ a.provider = k.provider
  BY DEF Audit
<1>3. audits' = With(audits, a) /\ UNCHANGED <<sessions, identity>>
  BY DEF BeginCallback
<1> HIDE DEF a
<1>4. PICK t : t \notin Tokens(audits) /\ t[1] = a /\ Tokens(audits') = Tokens(audits) \cup {t}
  BY <1>3, TokenAdded DEF TypeOK
<1>5. \A u \in Ids : SessionsSettle(u)
  BY <1>1, <1>3, QuietSessions DEF SameUsers
<1>6. \A l \in OAuthKeys : LookUpsSettle(l)
  BY <1>1, QuietLookUps
<1>7. ASSUME NEW v \in Providers \cup {"local"} PROVE OutcomesSettle(v)
  <2>1. Entries(v, Outcomes)' \subseteq Entries(v, Outcomes)
    BY <1>2, <1>4 DEF Entries, Outcomes
  <2>2. CASE v = k.provider
    <3>1. Exchanging(v)' \subseteq Exchanging(v) \cup {p}
      BY <1>1 DEF Exchanging
    <3>2. Entries(v, {"STARTED"}) \cup {t} \subseteq Entries(v, {"STARTED"})' /\ t \notin Entries(v, {"STARTED"})
      BY <1>2, <1>4, <2>2 DEF Entries
    <3> QED BY <2>1, <3>1, <3>2 DEF OutcomesSettle, Settles
  <2>3. CASE v # k.provider
    <3>1. Exchanging(v)' \subseteq Exchanging(v)
      BY <1>1, <2>3 DEF Exchanging
    <3>2. Entries(v, {"STARTED"}) \subseteq Entries(v, {"STARTED"})'
      BY <1>4 DEF Entries
    <3> QED BY <2>1, <3>1, <3>2 DEF OutcomesSettle, Settles
  <2> QED BY <2>2, <2>3
<1> QED BY <1>5, <1>6, <1>7 DEF Settled

(* An exchange that ends, with success or not, is logged once.             *)
LEMMA ExchangeEnds ==
  ASSUME TypeOK, NEW p \in All, job[p].op = "exchange", NEW a, a.provider = job[p].key.provider, a.status \in Outcomes,
         audits' = With(audits, a), Tokens(audits) \subseteq Tokens(audits'), job'[p].op # "exchange",
         \A q \in All \ {p} : job'[q] = job[q]
  PROVE  \A v \in Providers \cup {"local"} : OutcomesSettle(v)
<1> SUFFICES ASSUME NEW v \in Providers \cup {"local"} PROVE OutcomesSettle(v)
  OBVIOUS
<1>1. PICK t : t \notin Tokens(audits) /\ t[1] = a /\ Tokens(audits') = Tokens(audits) \cup {t}
  BY TokenAdded DEF TypeOK
<1>2. Entries(v, {"STARTED"}) \subseteq Entries(v, {"STARTED"})'
  BY <1>1 DEF Entries
<1>3. CASE v = job[p].key.provider
  <2>1. Entries(v, Outcomes)' \subseteq Entries(v, Outcomes) \cup {t}
    BY <1>1 DEF Entries
  <2>2. p \in Exchanging(v) /\ Exchanging(v)' \subseteq Exchanging(v) \ {p}
    BY <1>3 DEF Exchanging
  <2> QED BY <1>2, <2>1, <2>2 DEF OutcomesSettle, Settles
<1>4. CASE v # job[p].key.provider
  <2>1. Entries(v, Outcomes)' \subseteq Entries(v, Outcomes)
    BY <1>1, <1>4 DEF Entries
  <2>2. Exchanging(v)' \subseteq Exchanging(v)
    BY DEF Exchanging
  <2> QED BY <1>2, <2>1, <2>2 DEF OutcomesSettle, Settles
<1> QED BY <1>3, <1>4

LEMMA ExchangedSettles ==
  ASSUME TypeOK, NEW p \in Procs, Exchanged(p), Tokens(audits) \subseteq Tokens(audits')
  PROVE  Settled
<1> DEFINE k == job[p].key
           a == Audit(k.provider, "SUCCEEDED", k.subject)
<1>1. k \in OAuthKeys
  BY JobShapes DEF Exchanged, TypeOK
<1>2. job'[p].op = "lookup" /\ job'[p].key = k /\ \A q \in All \ {p} : job'[q] = job[q]
  <2>1. job[p] \in Jobs /\ job[p].op = "exchange"
    BY DEF Exchanged, TypeOK
  <2>2. [job[p] EXCEPT !.op = "lookup"].op = "lookup" /\ [job[p] EXCEPT !.op = "lookup"].key = k
    BY <2>1 DEF Jobs, Idle
  <2> QED BY <2>2 DEF Exchanged, TypeOK, All
<1>3. a.provider = k.provider /\ a.status = "SUCCEEDED" /\ a.subject = k.subject
  BY DEF Audit
<1>4. audits' = With(audits, a) /\ UNCHANGED <<sessions, identity>> /\ job[p].op = "exchange"
  BY DEF Exchanged
<1>5. p \in All
  BY DEF All
<1> HIDE DEF a, k
<1>6. PICK t : t \notin Tokens(audits) /\ t[1] = a /\ Tokens(audits') = Tokens(audits) \cup {t}
  BY <1>4, TokenAdded DEF TypeOK
<1>7. \A v \in Providers \cup {"local"} : OutcomesSettle(v)
  BY <1>2, <1>3, <1>4, <1>5, ExchangeEnds DEF k, Outcomes
<1>8. ASSUME NEW l \in OAuthKeys PROVE LookUpsSettle(l)
  <2>1. CASE l = k
    <3>1. LookingUp(l)' \subseteq LookingUp(l) \cup {p}
      BY <1>2 DEF LookingUp
    <3>2. LoggedFor(l) \cup {t} \subseteq LoggedFor(l)' /\ t \notin LoggedFor(l)
      BY <1>3, <1>6, <2>1 DEF LoggedFor, IsSuccess
    <3> QED BY <3>1, <3>2 DEF LookUpsSettle, Settles
  <2>2. CASE l # k
    <3>1. LookingUp(l)' \subseteq LookingUp(l)
      BY <1>2, <2>2 DEF LookingUp
    <3>2. LoggedFor(l) \subseteq LoggedFor(l)'
      BY <1>6 DEF LoggedFor
    <3> QED BY <3>1, <3>2 DEF LookUpsSettle, Settles
  <2> QED BY <2>1, <2>2
<1>9. ASSUME NEW u \in Ids PROVE SessionsSettle(u)
  <2>1. SessionsOf(u)' \subseteq SessionsOf(u)
    BY <1>4 DEF SessionsOf
  <2>2. LoggedOf(u) \subseteq LoggedOf(u)'
    BY <1>4, <1>6 DEF LoggedOf
  <2>3. CASE identity[k].user = u
    <3>1. Opening(u)' \subseteq Opening(u) \cup {p}
      BY <1>2, <1>4 DEF Opening
    <3>2. t \in LoggedOf(u)' /\ t \notin LoggedOf(u)
      BY <1>1, <1>3, <1>4, <1>6, <2>3 DEF LoggedOf, IsSuccess
    <3> QED BY <2>1, <2>2, <3>1, <3>2 DEF SessionsSettle, Settles
  <2>4. CASE identity[k].user # u
    <3>1. Opening(u)' \subseteq Opening(u)
      BY <1>2, <1>4, <2>4 DEF Opening
    <3> QED BY <2>1, <2>2, <3>1 DEF SessionsSettle, Settles
  <2> QED BY <2>3, <2>4
<1> QED BY <1>7, <1>8, <1>9 DEF Settled

LEMMA FailureSettles ==
  ASSUME TypeOK, NEW p \in Procs, ExchangeFails(p), Tokens(audits) \subseteq Tokens(audits')
  PROVE  Settled
<1> DEFINE a == Audit(job[p].key.provider, "FAILED", None)
<1>1. \A q \in All : job'[q] = IF q = p THEN Idle ELSE job[q]
  BY DEF ExchangeFails, End, TypeOK, All
<1>2. p \in All /\ a.provider = job[p].key.provider /\ a.status \in Outcomes /\ Idle.op = "none"
  BY DEF Audit, Outcomes, Idle, All
<1>3. audits' = With(audits, a) /\ UNCHANGED <<sessions, identity>> /\ job[p].op = "exchange"
  BY DEF ExchangeFails
<1> HIDE DEF a
<1>4. \A v \in Providers \cup {"local"} : OutcomesSettle(v)
  BY <1>1, <1>2, <1>3, ExchangeEnds
<1>5. \A k \in OAuthKeys : LookUpsSettle(k)
  BY <1>1, <1>2, QuietLookUps
<1>6. \A u \in Ids : SessionsSettle(u)
  BY <1>1, <1>2, <1>3, QuietSessions DEF SameUsers
<1> QED BY <1>4, <1>5, <1>6 DEF Settled

LEMMA LookUpSettles ==
  ASSUME TypeOK, NEW p \in Procs, LookUp(p)
  PROVE  Settled
<1> DEFINE k == job[p].key
           row == identity[k]
<1>1. k \in OAuthKeys /\ job[p].op = "lookup" /\ p \in All
  BY JobShapes DEF LookUp, TypeOK, All
<1>2. UNCHANGED <<audits, sessions, identity>> /\ \A q \in All \ {p} : job'[q] = job[q]
  BY <1>1 DEF LookUp, End, tables, TypeOK, All
<1>3. \/ job'[p].op = "none"
      \/ job'[p].op = "open" /\ job'[p].session.user = row.user
  BY <1>1 DEF LookUp, End, Idle, NewSession, TypeOK, All
<1> HIDE DEF k, row
<1>4. Tokens(audits) = Tokens(audits')
  BY <1>2
<1>5. \A v \in Providers \cup {"local"} : OutcomesSettle(v)
  BY <1>2, <1>3, <1>4, QuietOutcomes
<1>6. \A l \in OAuthKeys : LookUpsSettle(l)
  BY <1>2, <1>3, <1>4, QuietLookUps
<1>7. ASSUME NEW u \in Ids PROVE SessionsSettle(u)
  <2>1. SessionsOf(u)' \subseteq SessionsOf(u) /\ LoggedOf(u) \subseteq LoggedOf(u)'
    BY <1>2 DEF SessionsOf, LoggedOf
  <2>2. Opening(u)' \subseteq Opening(u)
    BY <1>1, <1>2, <1>3 DEF Opening, k, row
  <2> QED BY <2>1, <2>2 DEF SessionsSettle, Settles
<1> QED BY <1>5, <1>6, <1>7 DEF Settled

LEMMA OpeningSettles ==
  ASSUME TypeOK, NEW p \in Procs, OpenSession(p)
  PROVE  Settled
<1> DEFINE s == job[p].session
<1>1. \A q \in All : job'[q] = IF q = p THEN Idle ELSE job[q]
  BY DEF OpenSession, End, TypeOK, All
<1>2. job[p].op = "open" /\ p \in All /\ Idle.op = "none"
  BY DEF OpenSession, Idle, All
<1>3. sessions' = With(sessions, s) /\ UNCHANGED <<audits, identity>>
  BY DEF OpenSession
<1> HIDE DEF s
<1>4. PICK t : t[1] = s /\ Tokens(sessions') = Tokens(sessions) \cup {t}
  BY <1>3, TokenAdded DEF TypeOK
<1>5. Tokens(audits) = Tokens(audits')
  BY <1>3
<1>6. \A v \in Providers \cup {"local"} : OutcomesSettle(v)
  BY <1>1, <1>2, <1>5, QuietOutcomes
<1>7. \A k \in OAuthKeys : LookUpsSettle(k)
  BY <1>1, <1>2, <1>5, QuietLookUps
<1>8. ASSUME NEW u \in Ids PROVE SessionsSettle(u)
  <2>1. LoggedOf(u) \subseteq LoggedOf(u)'
    BY <1>3 DEF LoggedOf
  <2>2. CASE s.user = u
    <3>1. SessionsOf(u)' \subseteq SessionsOf(u) \cup {t}
      BY <1>4 DEF SessionsOf
    <3>2. p \in Opening(u) /\ Opening(u)' \subseteq Opening(u) \ {p}
      BY <1>1, <1>2, <1>3, <2>2 DEF Opening, s
    <3> QED BY <2>1, <3>1, <3>2 DEF SessionsSettle, Settles
  <2>3. CASE s.user # u
    <3>1. SessionsOf(u)' \subseteq SessionsOf(u)
      BY <1>4, <2>3 DEF SessionsOf
    <3>2. Opening(u)' \subseteq Opening(u)
      BY <1>1, <1>2, <1>3 DEF Opening
    <3> QED BY <2>1, <3>1, <3>2 DEF SessionsSettle, Settles
  <2> QED BY <2>2, <2>3
<1> QED BY <1>6, <1>7, <1>8 DEF Settled

LEMMA LoginSettles ==
  ASSUME TypeOK, LoginsPaired, NEW p \in Procs, EndLogin(p), Tokens(audits) \subseteq Tokens(audits')
  PROVE  Settled
<1>1. \A q \in All : job'[q] = IF q = p THEN Idle ELSE job[q]
  BY DEF EndLogin, End, TypeOK, All
<1>2. p \in All /\ Idle.op = "none" /\ UNCHANGED identity /\ job[p].op = "login"
  BY DEF EndLogin, Idle, All
<1>3. \A k \in OAuthKeys : LookUpsSettle(k)
  BY <1>1, <1>2, QuietLookUps
<1>4. CASE job[p].raises
  <2>1. UNCHANGED <<audits, sessions>>
    BY <1>4 DEF EndLogin
  <2>2. \A v \in Providers \cup {"local"} : OutcomesSettle(v)
    BY <1>1, <1>2, <2>1, QuietOutcomes
  <2>3. \A u \in Ids : SessionsSettle(u)
    BY <1>1, <1>2, <2>1, QuietSessions DEF SameUsers
  <2> QED BY <1>3, <2>2, <2>3 DEF Settled
<1>5. CASE ~job[p].raises
  <2>1. PICK e \in Emails, last \in AuditRows :
           /\ last.provider = "local" /\ last.status \in Outcomes
           /\ audits' = With(With(audits, Audit("local", "STARTED", e)), last)
           /\ \/ UNCHANGED sessions
              \/ \E s \in SessionRows : /\ sessions' = With(sessions, s)
                                        /\ IsSuccess(last, [provider |-> "local", subject |-> s.user])
    BY <1>2, <1>5, LoginWrites
  <2>2. PICK a : a = Audit("local", "STARTED", e)
    OBVIOUS
  <2>3. PICK B : B = With(audits, a)
    OBVIOUS
  <2>4. PICK t1 : t1 \notin Tokens(audits) /\ t1[1] = a /\ Tokens(B) = Tokens(audits) \cup {t1}
    BY <2>3, TokenAdded DEF TypeOK
  <2>5. PICK t2 : t2 \notin Tokens(B) /\ t2[1] = last /\ Tokens(audits') = Tokens(B) \cup {t2}
    <3>1. IsABag(B)
      BY <2>3, BagAdded DEF TypeOK
    <3>2. audits' = With(B, last)
      BY <2>1, <2>2, <2>3
    <3> QED BY <3>1, <3>2, TokenAdded
  <2>6. a.status = "STARTED" /\ a.provider = "local"
    BY <2>2 DEF Audit
  <2>7. \A v : Exchanging(v)' \subseteq Exchanging(v)
    BY <1>1, <1>2 DEF Exchanging
  <2>8. ASSUME NEW v \in Providers \cup {"local"} PROVE OutcomesSettle(v)
    <3>1. CASE v = "local"
      <4>1. Entries(v, Outcomes)' \subseteq Entries(v, Outcomes) \cup {t2}
        BY <2>4, <2>5, <2>6 DEF Entries, Outcomes
      <4>2. t1 \notin Entries(v, {"STARTED"}) /\ Entries(v, {"STARTED"}) \cup {t1} \subseteq Entries(v, {"STARTED"})'
        BY <2>4, <2>5, <2>6, <3>1 DEF Entries
      <4> QED BY <2>7, <4>1, <4>2 DEF OutcomesSettle, Settles
    <3>2. CASE v # "local"
      <4>1. Entries(v, Outcomes)' \subseteq Entries(v, Outcomes)
        BY <2>1, <2>4, <2>5, <2>6, <3>2 DEF Entries
      <4>2. Entries(v, {"STARTED"}) \subseteq Entries(v, {"STARTED"})'
        BY <2>4, <2>5 DEF Entries
      <4> QED BY <2>7, <4>1, <4>2 DEF OutcomesSettle, Settles
    <3> QED BY <3>1, <3>2
  <2>9. ASSUME NEW u \in Ids PROVE SessionsSettle(u)
    <3>1. Opening(u)' \subseteq Opening(u)
      BY <1>1, <1>2 DEF Opening
    <3>2. LoggedOf(u) \subseteq LoggedOf(u)'
      BY <1>2, <2>4, <2>5 DEF LoggedOf
    <3>3. CASE UNCHANGED sessions
      BY <3>1, <3>2, <3>3 DEF SessionsSettle, Settles, SessionsOf
    <3>4. ASSUME NEW s \in SessionRows, sessions' = With(sessions, s),
                 IsSuccess(last, [provider |-> "local", subject |-> s.user])
          PROVE  SessionsSettle(u)
      <4>1. PICK t : t[1] = s /\ Tokens(sessions') = Tokens(sessions) \cup {t}
        BY <3>4, TokenAdded DEF TypeOK
      <4>2. CASE s.user = u
        <5>1. SessionsOf(u)' \subseteq SessionsOf(u) \cup {t}
          BY <4>1 DEF SessionsOf
        <5>2. t2 \notin LoggedOf(u) /\ t2 \in LoggedOf(u)'
          BY <2>4, <2>5, <3>4, <4>2 DEF LoggedOf
        <5> QED BY <3>1, <3>2, <5>1, <5>2 DEF SessionsSettle, Settles
      <4>3. CASE s.user # u
        <5>1. SessionsOf(u)' \subseteq SessionsOf(u)
          BY <4>1, <4>3 DEF SessionsOf
        <5> QED BY <3>1, <3>2, <5>1 DEF SessionsSettle, Settles
      <4> QED BY <4>2, <4>3
    <3> QED BY <2>1, <3>3, <3>4
  <2> QED BY <1>3, <2>8, <2>9 DEF Settled
<1> QED BY <1>4, <1>5

LEMMA EmittingSettles ==
  ASSUME TypeOK, NEW p \in Procs, EmitDisabled(p), Tokens(audits) \subseteq Tokens(audits')
  PROVE  Settled
<1> DEFINE a == DisabledBy(job[p].user, job[p].actor)
<1>1. job'[p].op = "disable" /\ \A q \in All \ {p} : job'[q] = job[q]
  <2>1. job[p] \in Jobs /\ job[p].op = "emit"
    BY DEF EmitDisabled, TypeOK
  <2>2. [job[p] EXCEPT !.op = "disable"].op = "disable"
    BY <2>1 DEF Jobs, Idle
  <2> QED BY <2>2 DEF EmitDisabled, TypeOK, All
<1>2. audits' = With(audits, a) /\ UNCHANGED <<sessions, identity>> /\ a.status \notin Outcomes
  BY DEF EmitDisabled, DisabledBy, Audit, Outcomes
<1> HIDE DEF a
<1>3. PICK t : t[1] = a /\ Tokens(audits') = Tokens(audits) \cup {t}
  BY <1>2, TokenAdded DEF TypeOK
<1>4. \A v \in Providers \cup {"local"} : OutcomesSettle(v)
  BY <1>1, <1>2, <1>3, QuietOutcomes
<1>5. \A k \in OAuthKeys : LookUpsSettle(k)
  BY <1>1, QuietLookUps
<1>6. \A u \in Ids : SessionsSettle(u)
  BY <1>1, <1>2, QuietSessions DEF SameUsers
<1> QED BY <1>4, <1>5, <1>6 DEF Settled

(* An expired session takes the place of the one that was open.            *)
LEMMA ExpirySettles ==
  ASSUME TypeOK, NEW s \in BagToSet(sessions), Expire(s)
  PROVE  Settled
<1> DEFINE left == Without(sessions, s)
           gone == [s EXCEPT !.expired = TRUE]
<1>1. gone.user = s.user
  BY DEF TypeOK, SessionRows
<1>2. sessions' = With(left, gone) /\ UNCHANGED <<audits, identity, job>>
  BY DEF Expire
<1>3. IsABag(left)
  BY BagRemoved DEF TypeOK
<1>4. PICK t1 \in Tokens(sessions) : t1[1] = s /\ Tokens(left) = Tokens(sessions) \ {t1}
  BY TokenRemoved DEF TypeOK, BagIn
<1> HIDE DEF left, gone
<1>5. PICK t2 : t2[1] = gone /\ Tokens(sessions') = Tokens(left) \cup {t2}
  BY <1>2, <1>3, TokenAdded
<1>6. \A v \in Providers \cup {"local"} : OutcomesSettle(v)
  BY <1>2, QuietOutcomes
<1>7. \A k \in OAuthKeys : LookUpsSettle(k)
  BY <1>2, QuietLookUps
<1>8. ASSUME NEW u \in Ids PROVE SessionsSettle(u)
  <2>1. Opening(u)' \subseteq Opening(u) /\ LoggedOf(u) \subseteq LoggedOf(u)'
    BY <1>2 DEF Opening, LoggedOf
  <2>2. CASE s.user = u
    <3>1. t1 \in SessionsOf(u) /\ SessionsOf(u)' \subseteq (SessionsOf(u) \ {t1}) \cup {t2}
      BY <1>4, <1>5, <2>2 DEF SessionsOf
    <3> QED BY <2>1, <3>1 DEF SessionsSettle, Settles
  <2>3. CASE s.user # u
    <3>1. SessionsOf(u)' \subseteq SessionsOf(u)
      BY <1>1, <1>4, <1>5, <2>3 DEF SessionsOf
    <3> QED BY <2>1, <3>1 DEF SessionsSettle, Settles
  <2> QED BY <2>2, <2>3
<1> QED BY <1>6, <1>7, <1>8 DEF Settled

(* A script may give a key that callbacks are looking up, or that the log  *)
(* has successes of, to a user: the callbacks that will open a session for *)
(* that user come with their own successes.                                *)
LEMMA SeedCounted ==
  ASSUME TypeOK, AllFinite, AllFinite', SessionsCounted, LookUpsCounted, NEW s \in Scripts, CommitSeed(s)
  PROVE  SessionsCounted'
<1> DEFINE k == job[s].key
           row == job[s].row
<1>1. k \in Keys /\ row \in UserRows /\ s \in All
  BY JobShapes DEF CommitSeed, TypeOK, All
<1>2. UNCHANGED <<audits, sessions>> /\ \A q \in All : job'[q] = IF q = s THEN Idle ELSE job[q]
  BY DEF CommitSeed, End, TypeOK, All
<1>3. identity' = IF identity[k] = NoIdentity THEN [identity EXCEPT ![k] = row] ELSE identity
  BY DEF CommitSeed
<1>4. Idle.op = "none"
  BY DEF Idle
<1>5. \A q \in All : job[q].op = "lookup" => job[q].key \in OAuthKeys
  BY JobShapes DEF TypeOK, All
<1> HIDE DEF k, row
<1>6. CASE SameUsers
  BY <1>2, <1>4, <1>6, QuietSessions, AllSettle
<1>7. CASE ~SameUsers
  <2>1. k \in OAuthKeys /\ identity[k].user = None /\ identity' = [identity EXCEPT ![k] = row]
    BY <1>1, <1>3, <1>7 DEF SameUsers, OAuthKeys, TypeOK, NoIdentity
  <2>2. \A l \in OAuthKeys : identity'[l].user = IF l = k THEN row.user ELSE identity[l].user
    BY <1>1, <2>1 DEF OAuthKeys, TypeOK
  <2>3. ASSUME NEW u \in Ids PROVE (Cardinality(SessionsOf(u)) + Cardinality(Opening(u)) <= Cardinality(LoggedOf(u)))'
    <3>1. SessionsOf(u)' = SessionsOf(u)
      BY <1>2 DEF SessionsOf
    <3>2. CASE row.user # u
      <4>1. Opening(u)' \subseteq Opening(u)
        BY <1>2, <1>4, <1>5, <2>2, <3>2 DEF Opening
      <4>2. LoggedOf(u) \subseteq LoggedOf(u)'
        BY <1>2, <2>1, <2>2, NoneAssumption DEF LoggedOf
      <4>3. Covers(SessionsOf(u), Opening(u), LoggedOf(u))
        BY DEF Covers, SessionsCounted
      <4>4. Settles(SessionsOf(u), Opening(u), LoggedOf(u), SessionsOf(u)', Opening(u)', LoggedOf(u)')
        BY <3>1, <4>1, <4>2 DEF Settles
      <4>5. IsFiniteSet(SessionsOf(u)) /\ IsFiniteSet(Opening(u)) /\ IsFiniteSet(LoggedOf(u)')
        BY FiniteParts, LoggedFinite
      <4>6. Covers(SessionsOf(u)', Opening(u)', LoggedOf(u)')
        BY <4>3, <4>4, <4>5, StillCovers
      <4> QED BY <4>6 DEF Covers
    <3>3. CASE row.user = u
      <4>1. PICK R, C, L, P, Q : /\ R = SessionsOf(u) /\ C = Opening(u) /\ L = LookingUp(k)
                                 /\ P = LoggedOf(u) /\ Q = LoggedFor(k)
        OBVIOUS
      <4>2. Opening(u)' \subseteq C \cup L
        BY <1>2, <1>4, <1>5, <2>2, <4>1 DEF Opening, LookingUp
      <4>3. P \cup Q \subseteq LoggedOf(u)'
        BY <1>2, <2>1, <2>2, <3>3, <4>1, NoneAssumption DEF LoggedOf, LoggedFor
      <4>4. P \cap Q = {}
        <5>1. \A l \in OAuthKeys : \A a : IsSuccess(a, l) /\ IsSuccess(a, k) => l = k
          <6>1. \A l \in Keys : l = [provider |-> l.provider, subject |-> l.subject]
            BY DEF Keys
          <6> QED BY <2>1, <6>1 DEF IsSuccess, OAuthKeys
        <5>2. k.provider # "local"
          BY <2>1 DEF OAuthKeys
        <5> QED BY <2>1, <4>1, <5>1, <5>2, NoneAssumption DEF LoggedOf, LoggedFor, IsSuccess
      <4>5. IsFiniteSet(R) /\ IsFiniteSet(C) /\ IsFiniteSet(L) /\ IsFiniteSet(P) /\ IsFiniteSet(Q)
        BY <4>1, FiniteParts
      <4>6. IsFiniteSet(LoggedOf(u)')
        BY LoggedFinite
      <4>7. Cardinality(R) + Cardinality(C) <= Cardinality(P) /\ Cardinality(L) <= Cardinality(Q)
        BY <2>1, <4>1 DEF SessionsCounted, LookUpsCounted
      <4>8. /\ Cardinality(R) \in Nat /\ Cardinality(C) \in Nat /\ Cardinality(L) \in Nat
            /\ Cardinality(P) \in Nat /\ Cardinality(Q) \in Nat /\ Cardinality(C \cap L) \in Nat
        BY <4>5, FS_CardinalityType, Fewer
      <4>9. IsFiniteSet(C \cup L) /\ Cardinality(C \cup L) = Cardinality(C) + Cardinality(L) - Cardinality(C \cap L)
        BY <4>5, FS_Union
      <4>10. Cardinality(P \cup Q) = Cardinality(P) + Cardinality(Q)
        <5>1. Cardinality(P \cup Q) = Cardinality(P) + Cardinality(Q) - Cardinality(P \cap Q)
          BY <4>5, FS_Union
        <5>2. Cardinality(P \cap Q) = 0
          BY <4>4, FS_EmptySet
        <5> QED BY <4>8, <5>1, <5>2
      <4>11. Cardinality(Opening(u)') <= Cardinality(C \cup L) /\ Cardinality(Opening(u)') \in Nat
        BY <4>2, <4>9, Fewer
      <4>12. Cardinality(P \cup Q) <= Cardinality(LoggedOf(u)') /\ Cardinality(LoggedOf(u)') \in Nat
        BY <4>3, <4>6, Fewer
      <4>13. Cardinality(R) + Cardinality(Opening(u)') <= Cardinality(LoggedOf(u)')
        BY <4>7, <4>8, <4>9, <4>10, <4>11, <4>12
      <4> QED BY <3>1, <4>1, <4>13
    <3> QED BY <3>2, <3>3
  <2> QED BY <2>3 DEF SessionsCounted
<1> QED BY <1>6, <1>7

LEMMA InitCounted == Init => Counted
<1> SUFFICES ASSUME Init PROVE Counted
  OBVIOUS
<1>1. \A p \in All : job[p] = Idle
  BY DEF Init, All
<1>2. Idle.op = "none"
  BY DEF Idle
<1>3. Tokens(sessions) = {} /\ Tokens(audits) = {}
  <2>1. DOMAIN EmptyBag = {}
    BY DEF EmptyBag, SetToBag
  <2> QED BY <2>1, TokenIs DEF Init
<1>4. Busy = {} /\ IsFiniteSet({}) /\ Cardinality({}) = 0
  BY <1>1, FS_EmptySet DEF Busy
<1>5. \A u : SessionsOf(u) = {} /\ Opening(u) = {} /\ LoggedOf(u) = {}
  BY <1>1, <1>2, <1>3 DEF SessionsOf, Opening, LoggedOf
<1>6. \A k : LookingUp(k) = {} /\ LoggedFor(k) = {}
  BY <1>1, <1>2, <1>3 DEF LookingUp, LoggedFor
<1>7. \A v, statuses : Entries(v, statuses) = {} /\ Exchanging(v) = {}
  BY <1>1, <1>2, <1>3 DEF Entries, Exchanging
<1>8. AllFinite /\ LoginsPaired
  BY <1>1, <1>2, <1>3, <1>4 DEF AllFinite, LoginsPaired
<1>9. SessionsCounted /\ LookUpsCounted /\ OutcomesCounted
  <2>1. \A u : Cardinality(SessionsOf(u)) = 0 /\ Cardinality(Opening(u)) = 0 /\ Cardinality(LoggedOf(u)) = 0
    BY <1>4, <1>5
  <2>2. \A k : Cardinality(LookingUp(k)) = 0 /\ Cardinality(LoggedFor(k)) = 0
    BY <1>4, <1>6
  <2>3. \A v, statuses : Cardinality(Entries(v, statuses)) = 0 /\ Cardinality(Exchanging(v)) = 0
    BY <1>4, <1>7
  <2> QED BY <2>1, <2>2, <2>3 DEF SessionsCounted, LookUpsCounted, OutcomesCounted
<1> QED BY <1>8, <1>9 DEF Counted

(* Every step keeps sessions, callbacks and log entries in balance.        *)
LEMMA CountedStep ==
  ASSUME TypeOK, RolesFound, Counted, [Next]_vars
  PROVE  Counted'
<1>1. AllFinite /\ LoginsPaired /\ SessionsCounted /\ LookUpsCounted /\ OutcomesCounted
  BY DEF Counted
<1>2. AllFinite' /\ Tokens(audits) \subseteq Tokens(audits')
  BY <1>1, FiniteStep
<1>3. Settled => SessionsCounted' /\ LookUpsCounted' /\ OutcomesCounted'
  BY <1>1, <1>2, AllSettle DEF Settled
<1> DEFINE Goal == LoginsPaired' /\ SessionsCounted' /\ LookUpsCounted' /\ OutcomesCounted'
<1>4. ASSUME \A q \in All : job'[q] = job[q] \/ job'[q].op # "login" PROVE LoginsPaired'
  BY <1>1, <1>4 DEF LoginsPaired
<1>5. ASSUME NEW p \in Procs, NEW k \in OAuthKeys, NEW code \in Codes, BeginCallback(p, k, code) PROVE Goal
  <2>1. LoginsPaired'
    BY <1>4, <1>5 DEF BeginCallback, Start, TypeOK, All
  <2> QED BY <1>2, <1>3, <1>5, <2>1, CallbackSettles
<1>6. ASSUME NEW p \in Procs, Exchanged(p) PROVE Goal
  <2>1. LoginsPaired'
    <3>1. job[p] \in Jobs /\ job[p].op = "exchange"
      BY <1>6 DEF Exchanged, TypeOK
    <3>2. [job[p] EXCEPT !.op = "lookup"].op = "lookup"
      BY <3>1 DEF Jobs, Idle
    <3> QED BY <1>4, <1>6, <3>2 DEF Exchanged, TypeOK, All
  <2> QED BY <1>2, <1>3, <1>6, <2>1, ExchangedSettles
<1>7. ASSUME NEW p \in Procs, EmitDisabled(p) PROVE Goal
  <2>1. LoginsPaired'
    <3>1. job[p] \in Jobs /\ job[p].op = "emit"
      BY <1>7 DEF EmitDisabled, TypeOK
    <3>2. [job[p] EXCEPT !.op = "disable"].op = "disable"
      BY <3>1 DEF Jobs, Idle
    <3> QED BY <1>4, <1>7, <3>2 DEF EmitDisabled, TypeOK, All
  <2> QED BY <1>2, <1>3, <1>7, <2>1, EmittingSettles
<1>8. ASSUME NEW p \in All, End(p) PROVE LoginsPaired'
  BY <1>4, <1>8 DEF End, Idle, TypeOK, All
<1>9. ASSUME NEW p \in Procs, ExchangeFails(p) PROVE Goal
  BY <1>2, <1>3, <1>8, <1>9, FailureSettles DEF ExchangeFails, All
<1>10. ASSUME NEW p \in Procs, LookUp(p) PROVE Goal
  <2>1. LoginsPaired'
    BY <1>4, <1>8, <1>10 DEF LookUp, TypeOK, All
  <2> QED BY <1>3, <1>10, <2>1, LookUpSettles
<1>11. ASSUME NEW p \in Procs, OpenSession(p) PROVE Goal
  BY <1>3, <1>8, <1>11, OpeningSettles DEF OpenSession, All
<1>12. ASSUME NEW p \in Procs, EndLogin(p) PROVE Goal
  <2>1. LoginsPaired'
    BY <1>8, <1>12 DEF EndLogin, All
  <2> QED BY <1>1, <1>2, <1>3, <1>12, <2>1, LoginSettles
<1>13. ASSUME NEW s \in BagToSet(sessions), Expire(s) PROVE Goal
  <2>1. LoginsPaired'
    BY <1>4, <1>13 DEF Expire
  <2> QED BY <1>3, <1>13, <2>1, ExpirySettles
<1>14. ASSUME NEW p \in Procs, NEW e \in Emails, NEW right \in BOOLEAN, NEW code \in Codes, BeginLogin(p, e, right, code)
       PROVE  Goal
  <2>1. \A q \in All : job'[q] = IF q = p THEN LoginOutcome(e, right, code) ELSE job[q]
    BY <1>14 DEF BeginLogin, Start, TypeOK, All
  <2>2. LoginOutcome(e, right, code).op = "login"
    BY DEF LoginOutcome
  <2>3. UNCHANGED <<audits, sessions, identity>>
    BY <1>14 DEF BeginLogin, tables
  <2>4. LoginsPaired'
    BY <1>1, <2>1, OutcomePaired DEF LoginsPaired
  <2>5. Settled
    BY <2>1, <2>2, <2>3, QuietSessions, QuietLookUps, QuietOutcomes DEF Settled, SameUsers
  <2> QED BY <1>3, <2>4, <2>5
<1>15. ASSUME NEW s \in Scripts, CommitSeed(s) PROVE Goal
  <2>1. LoginsPaired'
    BY <1>8, <1>15 DEF CommitSeed, All
  <2>2. UNCHANGED <<audits, sessions>> /\ \A q \in All : job'[q] = job[q] \/ job'[q].op \notin {"lookup", "exchange"}
    BY <1>15 DEF CommitSeed, End, Idle, TypeOK, All
  <2>3. LookUpsCounted' /\ OutcomesCounted'
    BY <1>1, <1>2, <2>2, QuietLookUps, QuietOutcomes, AllSettle
  <2>4. SessionsCounted'
    BY <1>1, <1>2, <1>15, SeedCounted
  <2> QED BY <2>1, <2>3, <2>4
<1>16. ASSUME ~CountedSteps PROVE Goal
  <2>1. /\ UNCHANGED <<audits, sessions>> /\ SameUsers
        /\ \A q \in All : job'[q] = job[q] \/ job'[q].op \notin {"open", "lookup", "exchange", "login"}
    BY <1>16, UncountedSteps
  <2>2. LoginsPaired'
    BY <1>4, <2>1
  <2>3. Settled
    BY <2>1, QuietSessions, QuietLookUps, QuietOutcomes DEF Settled
  <2> QED BY <1>3, <2>2, <2>3
<1> HIDE DEF Goal
<1>17. Goal
  BY <1>5, <1>6, <1>7, <1>9, <1>10, <1>11, <1>12, <1>13, <1>14, <1>15, <1>16 DEF CountedSteps
<1> QED BY <1>2, <1>17 DEF Goal, Counted

LEMMA CountedAccounts ==
  ASSUME TypeOK, Counted
  PROVE  LogAccountsForSessions
<1>1. \A t \in Tokens(sessions) : t[1] \in BagToSet(sessions)
  BY TokenIs DEF BagToSet
<1>2. \A t \in Tokens(audits) : t[1] \in BagToSet(audits)
  BY TokenIs DEF BagToSet
<1>3. ASSUME NEW u \in Ids
      PROVE  Copies(sessions, {s \in BagToSet(sessions) : s.user = u}) <= Copies(audits, SuccessesOf(u))
  <2>1. CopiesOf(sessions, {s \in BagToSet(sessions) : s.user = u}) = SessionsOf(u)
    <3>1. PICK S : S = {s \in BagToSet(sessions) : s.user = u}
      OBVIOUS
    <3>2. CopiesOf(sessions, S) = {t \in Tokens(sessions) : t[1] \in S}
      BY <3>1, TokenIs
    <3> QED BY <1>1, <3>1, <3>2 DEF SessionsOf
  <2>2. CopiesOf(audits, SuccessesOf(u)) = LoggedOf(u)
    <3>1. SuccessesOf(u) \subseteq BagToSet(audits)
      BY DEF SuccessesOf
    <3>2. CopiesOf(audits, SuccessesOf(u)) = {t \in Tokens(audits) : t[1] \in SuccessesOf(u)}
      BY <3>1, TokenIs
    <3> QED BY <1>2, <3>2 DEF LoggedOf, SuccessesOf, IsSuccess
  <2>3. Cardinality(SessionsOf(u)) \in Nat /\ Cardinality(Opening(u)) \in Nat /\ Cardinality(LoggedOf(u)) \in Nat
    BY FiniteParts, FS_CardinalityType DEF Counted
  <2>4. Cardinality(SessionsOf(u)) + Cardinality(Opening(u)) <= Cardinality(LoggedOf(u))
    BY DEF Counted, SessionsCounted
  <2> QED BY <2>1, <2>2, <2>3, <2>4 DEF Copies
<1>4. ASSUME NEW v, NEW statuses PROVE Audited(v, statuses) = Cardinality(Entries(v, statuses))
  <2>1. PICK S : S = {a \in BagToSet(audits) : a.provider = v /\ a.status \in statuses}
    OBVIOUS
  <2>2. CopiesOf(audits, S) = {t \in Tokens(audits) : t[1] \in S}
    BY <2>1, TokenIs
  <2>3. CopiesOf(audits, S) = Entries(v, statuses)
    BY <1>2, <2>1, <2>2 DEF Entries
  <2> QED BY <2>1, <2>3 DEF Audited, Copies
<1>5. ASSUME NEW v \in Providers \cup {"local"}
      PROVE  Audited(v, {"FAILED", "CHALLENGE", "SUCCEEDED"}) <= Audited(v, {"STARTED"})
  <2>1. /\ Cardinality(Entries(v, Outcomes)) \in Nat /\ Cardinality(Exchanging(v)) \in Nat
        /\ Cardinality(Entries(v, {"STARTED"})) \in Nat
    BY FiniteParts, FS_CardinalityType DEF Counted
  <2>2. Cardinality(Entries(v, Outcomes)) + Cardinality(Exchanging(v)) <= Cardinality(Entries(v, {"STARTED"}))
    BY DEF Counted, OutcomesCounted
  <2> QED BY <1>4, <2>1, <2>2 DEF Outcomes
<1> QED BY <1>3, <1>5 DEF LogAccountsForSessions, SessionsAudited, OutcomesFollowStarts

-----------------------------------------------------------------------------
Inv ==
  /\ TypeOK /\ RolesFound
  /\ AccountsHaveIdentities /\ SignupsFresh
  /\ CodesOfSecret /\ DisabledRowsAudited /\ FactorsKnown
  /\ Counted

(* The inductive invariant the properties below follow from.               *)
LEMMA Invariance == Spec => []Inv
<1>1. Init => Inv
  BY InitTyped, InitAccounts, InitFactors, InitCounted DEF Inv
<1>2. Inv /\ [Next]_vars => Inv'
  BY TypeStep, AccountsStep, FactorsStep, CountedStep DEF Inv
<1> QED BY <1>1, <1>2, PTL DEF Spec

(* The rows and what the processes keep of their requests keep their types *)
(* for any number of users, processes and scripts.                         *)
THEOREM TypeCorrect == Spec => []TypeOK
<1>1. Inv => TypeOK
  BY DEF Inv
<1> QED BY <1>1, Invariance, PTL

(* SignupService.register and the seeding script leave no account without  *)
(* its local identity and no user with two accounts, whatever the races.   *)
THEOREM AccountsPaired == Spec => []AccountsHaveIdentities
<1>1. Inv => AccountsHaveIdentities
  BY DEF Inv
<1> QED BY <1>1, Invariance, PTL

(* TwoFactorService's enable and disable, racing column by column, leave   *)
(* no recovery codes of another secret.                                    *)
THEOREM CodesKept == Spec => []CodesOfSecret
<1>1. Inv => CodesOfSecret
  BY DEF Inv
<1> QED BY <1>1, Invariance, PTL

(* Whoever switched a second factor off through the API is in the log, for *)
(* any number of racing requests, scripts and crashes.                     *)
THEOREM DisablingLogged == Spec => []DisabledRowsAudited
<1>1. Inv => DisabledRowsAudited
  BY DEF Inv
<1> QED BY <1>1, Invariance, PTL

(* Every session has a successful authentication of its own in the log, and *)
(* every outcome a start, for any number of callbacks between the commits   *)
(* of LoginAuditLogger and their session's, crashed ones included.         *)
THEOREM LogAccounts == Spec => []LogAccountsForSessions
<1>1. Inv => LogAccountsForSessions
  BY CountedAccounts DEF Inv
<1> QED BY <1>1, Invariance, PTL
=============================================================================
