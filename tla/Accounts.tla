-------------------------------- MODULE Accounts --------------------------------
(***************************************************************************)
(* Sign-up, password login, the OAuth callback and the second factor:      *)
(* SignupService, PasswordLoginService, AuthService with OAuthFlowService,  *)
(* TwoFactorService and LoginAuditLogger over their repositories, and the   *)
(* operators' scripts that write the same rows.                             *)
(*                                                                         *)
(* A request or a script runs in one database session that reads committed *)
(* rows, decides, and commits or rolls back; others run in between.  The    *)
(* audit entries of an event hook are committed in a session of their own. *)
(***************************************************************************)
EXTENDS Integers, FiniteSets, Bags

CONSTANTS Ids,        \* user ids, drawn at random or typed by an operator
          Emails, Providers, Subjects,
          Procs,      \* API processes: each runs one request at a time
          Scripts,    \* an operator's command lines
          None,
          MaxAudits,  \* bound of the model: no request starts beyond so many audit entries
          MaxSecrets  \* bound of the model: TOTP secrets generated

ASSUME ProcessesAssumption == Procs \cap Scripts = {}
ASSUME NoneAssumption == None \notin Ids \cup Emails \cup Subjects
ASSUME ProvidersAssumption == Providers \cap {"local", "two_factor"} = {}

VARIABLES accounts,  \* committed user_accounts rows: the user of an email
          identity,  \* committed user_identities rows, by provider and subject
          factor,    \* committed two_factor_secrets rows, by user
          generated, \* how many secrets enable has generated
          sessions,  \* bag of committed auth_sessions rows
          audits,    \* bag of committed login_audit_logs rows
          job        \* the database session each process is in

vars == <<accounts, identity, factor, generated, sessions, audits, job>>

(* A bag with one copy of x more, or fewer.                                *)
With(B, x) == B (+) SetToBag({x})
Without(B, x) == B (-) SetToBag({x})

Local(e) == [provider |-> "local", subject |-> e]
Keys == [provider : {"local"}, subject : Emails] \cup [provider : Providers, subject : Subjects]
OAuthKeys == {k \in Keys : k.provider # "local"}

(* Of a row's roles only admin matters: it alone may disable a second      *)
(* factor.                                                                 *)
NoIdentity == [user |-> None, admin |-> FALSE, flag |-> FALSE]

(* A secret is named by its number, and its recovery codes by their        *)
(* secret's: 0 when there are none.                                        *)
NoFactor == [secret |-> 0, enabled |-> FALSE, codes |-> 0]
NewSession(row) == [user |-> row.user, admin |-> row.admin, expired |-> FALSE]

Audit(provider, status, subject) ==
  [provider |-> provider, status |-> status, subject |-> subject, reason |-> None]

(* Mutant: the log names the user, which is disable's default actor.       *)
DisabledBy_Self(u, actor) == [Audit("two_factor", "TWO_FACTOR_DISABLED", u) EXCEPT !.reason = u]

DisabledBy(u, actor) == [Audit("two_factor", "TWO_FACTOR_DISABLED", u) EXCEPT !.reason = actor]

Idle == [op |-> "none"]

Init ==
  /\ accounts = [e \in Emails |-> None]
  /\ identity = [k \in Keys |-> NoIdentity]
  /\ factor = [u \in Ids |-> NoFactor]
  /\ generated = 0
  /\ sessions = EmptyBag
  /\ audits = EmptyBag
  /\ job = [p \in Procs \cup Scripts |-> Idle]

tables == <<accounts, identity, factor, sessions, audits>>

Start(p, request) == job[p] = Idle /\ job' = [job EXCEPT ![p] = request]
End(p) == job' = [job EXCEPT ![p] = Idle]
(* Users of committed rows and of rows about to be: a generated id is none *)
(* of them, and an operator who types an id means a committed one or none. *)
KnownUsers == {identity[k].user : k \in Keys} \ {None}
InUse == KnownUsers \cup {job[p].row.user : p \in {q \in Procs \cup Scripts : job[q].op \in {"signup", "seed"}}}

RoomForAudits == BagCardinality(audits) < MaxAudits

-----------------------------------------------------------------------------
(* SignupService.register: an account and its local identity in one        *)
(* transaction.  The email and (provider, subject) are unique.             *)
BeginSignup(p, e, u, admin) ==
  /\ accounts[e] = None
  /\ u \notin InUse
  /\ Start(p, [op |-> "signup", email |-> e, row |-> [user |-> u, admin |-> admin, flag |-> FALSE]])
  /\ UNCHANGED <<tables, generated>>

(* Mutant: an identity that is there is taken for the account's.           *)
Unique_AccountOnly(e) == accounts[e] = None

Unique(e) == accounts[e] = None /\ identity[Local(e)] = NoIdentity

CommitSignup(p) ==
  /\ job[p].op = "signup"
  /\ LET j == job[p] IN
     IF Unique(j.email)
       THEN /\ accounts' = [accounts EXCEPT ![j.email] = j.row.user]
            /\ identity' = [identity EXCEPT ![Local(j.email)] =
                              IF @ = NoIdentity THEN j.row ELSE @]
       ELSE UNCHANGED <<accounts, identity>>
  /\ End(p)
  /\ UNCHANGED <<factor, generated, sessions, audits>>

-----------------------------------------------------------------------------
(* PasswordLoginService.login: what the transaction will write, and        *)
(* whether an error rolls it back, the log of the failure included.        *)
LoginOutcome(e, passwordRight, code) ==
  LET u == accounts[e]
      row == identity[Local(e)]
      refused ==
        \/ u = None \/ ~passwordRight \/ row = NoIdentity
        \/ row.flag /\ (~factor[u].enabled \/ code \notin {0, factor[u].secret})
      challenged == ~refused /\ row.flag /\ code = 0
      last ==
        IF refused THEN Audit("local", "FAILED", IF passwordRight THEN u ELSE None)
        ELSE Audit("local", IF challenged THEN "CHALLENGE" ELSE "SUCCEEDED", u)
  IN [op |-> "login", raises |-> refused, audits |-> {Audit("local", "STARTED", e), last},
      opened |-> IF refused \/ challenged THEN {} ELSE {NewSession([row EXCEPT !.user = u])}]

BeginLogin(p, e, passwordRight, code) ==
  /\ LoginOutcome(e, passwordRight, code).raises \/ RoomForAudits
  /\ Start(p, LoginOutcome(e, passwordRight, code))
  /\ UNCHANGED <<tables, generated>>

EndLogin(p) ==
  /\ job[p].op = "login"
  /\ IF job[p].raises
       THEN UNCHANGED <<audits, sessions>>
       ELSE /\ audits' = audits (+) SetToBag(job[p].audits)
            /\ sessions' = sessions (+) SetToBag(job[p].opened)
  /\ End(p)
  /\ UNCHANGED <<accounts, identity, factor, generated>>

-----------------------------------------------------------------------------
(* OAuthFlowService.authenticate: AuthService's events are audited as they *)
(* happen, the user is looked up after "auth.success".                     *)
BeginCallback(p, k, code) ==
  /\ RoomForAudits
  /\ Start(p, [op |-> "exchange", key |-> k, code |-> code])
  /\ audits' = With(audits, Audit(k.provider, "STARTED", None))
  /\ UNCHANGED <<accounts, identity, factor, generated, sessions>>

Exchanged(p) ==
  /\ job[p].op = "exchange"
  /\ job' = [job EXCEPT ![p].op = "lookup"]
  /\ audits' = With(audits, Audit(job[p].key.provider, "SUCCEEDED", job[p].key.subject))
  /\ UNCHANGED <<accounts, identity, factor, generated, sessions>>

(* Mutant: the failed exchange is logged and not raised.                   *)
ExchangeFails_Swallowed(p) ==
  /\ job[p].op = "exchange"
  /\ audits' = With(audits, Audit(job[p].key.provider, "FAILED", None))
  /\ job' = [job EXCEPT ![p].op = "lookup"]
  /\ UNCHANGED <<accounts, identity, factor, generated, sessions>>

ExchangeFails(p) ==
  /\ job[p].op = "exchange"
  /\ audits' = With(audits, Audit(job[p].key.provider, "FAILED", None))
  /\ End(p)
  /\ UNCHANGED <<accounts, identity, factor, generated, sessions>>

(* Mutant: nobody is found and somebody is let in.                         *)
Passes_Nobody(row, code) ==
  row # NoIdentity /\ factor[row.user].enabled => code = factor[row.user].secret

(* The session of a callback is opened for a known user whose second       *)
(* factor is off or whose code is right.                                   *)
Passes(row, code) ==
  /\ row # NoIdentity
  /\ factor[row.user].enabled => code = factor[row.user].secret

LookUp(p) ==
  /\ job[p].op = "lookup"
  /\ LET row == identity[job[p].key] IN
     IF Passes(row, job[p].code)
       THEN job' = [job EXCEPT ![p] = [op |-> "open", session |-> NewSession(row)]]
       ELSE End(p)
  /\ UNCHANGED <<tables, generated>>

OpenSession(p) ==
  /\ job[p].op = "open"
  /\ sessions' = With(sessions, job[p].session)
  /\ End(p)
  /\ UNCHANGED <<accounts, identity, factor, generated, audits>>

(* A session's expires_at passes.                                          *)
Expire(s) ==
  /\ BagIn(s, sessions)
  /\ ~s.expired
  /\ sessions' = With(Without(sessions, s), [s EXCEPT !.expired = TRUE])
  /\ UNCHANGED <<accounts, identity, factor, generated, audits, job>>

-----------------------------------------------------------------------------
(* The admin's disable_two_factor: the session is checked, the row read,   *)
(* the event audited in a session of its own, and the row committed.       *)
BeginDisable(p, s, u) ==
  /\ RoomForAudits
  /\ BagIn(s, sessions) /\ ~s.expired /\ s.admin
  /\ factor[u].enabled
  /\ Start(p, [op |-> "emit", user |-> u, actor |-> s.user])
  /\ UNCHANGED <<tables, generated>>

EmitDisabled(p) ==
  /\ job[p].op = "emit"
  /\ audits' = With(audits, DisabledBy(job[p].user, job[p].actor))
  /\ job' = [job EXCEPT ![p].op = "disable"]
  /\ UNCHANGED <<accounts, identity, factor, generated, sessions>>

CommitDisable(p) ==
  /\ job[p].op = "disable"
  /\ factor' = [factor EXCEPT ![job[p].user].enabled = FALSE, ![job[p].user].codes = 0]
  /\ End(p)
  /\ UNCHANGED <<accounts, identity, generated, sessions, audits>>

(* scripts/enable_two_factor.py: a new secret with its recovery codes.  A  *)
(* session writes the columns that differ from what it read, and inserts a *)
(* row only where it read none: user_id is unique.  No event hook is set.  *)
BeginEnable(s, u) ==
  /\ generated < MaxSecrets
  /\ generated' = generated + 1
  /\ Start(s, [op |-> "enable", user |-> u, seen |-> factor[u], secret |-> generated + 1])
  /\ UNCHANGED <<tables>>

(* Mutant: the codes of a row that is there are kept.                      *)
Saved_CodesKept(row, seen, secret) ==
  IF seen = NoFactor
    THEN [secret |-> secret, enabled |-> TRUE, codes |-> secret]
    ELSE [secret |-> secret, enabled |-> (seen.enabled => row.enabled), codes |-> row.codes]

Saved(row, seen, secret) ==
  IF seen = NoFactor
    THEN [secret |-> secret, enabled |-> TRUE, codes |-> secret]
    ELSE [secret |-> secret, enabled |-> (seen.enabled => row.enabled), codes |-> secret]

CommitEnable(s) ==
  /\ job[s].op = "enable"
  /\ LET j == job[s] IN
     factor' = IF j.seen = NoFactor /\ factor[j.user] # NoFactor
                 THEN factor
                 ELSE [factor EXCEPT ![j.user] = Saved(@, j.seen, j.secret)]
  /\ End(s)
  /\ UNCHANGED <<accounts, identity, generated, sessions, audits>>

-----------------------------------------------------------------------------
(* scripts/seed_user_identities.py: an identity for a new or a known user. *)
BeginSeed(s, k, u, admin, flag) ==
  /\ identity[k] = NoIdentity
  /\ u \in InUse => u \in KnownUsers
  /\ Start(s, [op |-> "seed", key |-> k, row |-> [user |-> u, admin |-> admin, flag |-> flag]])
  /\ UNCHANGED <<tables, generated>>

CommitSeed(s) ==
  /\ job[s].op = "seed"
  /\ identity' = IF identity[job[s].key] = NoIdentity
                   THEN [identity EXCEPT ![job[s].key] = job[s].row]
                   ELSE identity
  /\ End(s)
  /\ UNCHANGED <<accounts, factor, generated, sessions, audits>>

(* scripts/manage_identity_roles.py: roles are added, then others removed, *)
(* and the whole list is written.                                          *)
BeginRoles(s, k, added, removed) ==
  /\ identity[k] # NoIdentity
  /\ Start(s, [op |-> "roles", key |-> k, admin |-> (identity[k].admin \/ added) /\ ~removed])
  /\ UNCHANGED <<tables, generated>>

CommitRoles(s) ==
  /\ job[s].op = "roles"
  /\ identity' = [identity EXCEPT ![job[s].key].admin = job[s].admin]
  /\ End(s)
  /\ UNCHANGED <<accounts, factor, generated, sessions, audits>>

(* The process dies: what its session has not committed is lost.           *)
Crash(p) ==
  /\ job[p] # Idle
  /\ End(p)
  /\ UNCHANGED <<tables, generated>>

-----------------------------------------------------------------------------
Codes == 0..MaxSecrets

Request(p) ==
  \/ \E e \in Emails, u \in Ids, admin \in BOOLEAN : BeginSignup(p, e, u, admin)
  \/ \E e \in Emails, right \in BOOLEAN, code \in Codes : BeginLogin(p, e, right, code)
  \/ \E k \in OAuthKeys, code \in Codes : BeginCallback(p, k, code)
  \/ \E s \in BagToSet(sessions), u \in Ids : BeginDisable(p, s, u)

Work(p) ==
  \/ CommitSignup(p)
  \/ EndLogin(p)
  \/ Exchanged(p)
  \/ ExchangeFails(p)
  \/ LookUp(p)
  \/ OpenSession(p)
  \/ EmitDisabled(p)
  \/ CommitDisable(p)

Script(s) ==
  \/ \E u \in KnownUsers : BeginEnable(s, u)
  \/ CommitEnable(s)
  \/ \E k \in Keys, u \in Ids, admin, flag \in BOOLEAN : BeginSeed(s, k, u, admin, flag)
  \/ CommitSeed(s)
  \/ \E k \in Keys, added, removed \in BOOLEAN : BeginRoles(s, k, added, removed)
  \/ CommitRoles(s)

Next ==
  \/ \E p \in Procs : Request(p) \/ Work(p)
  \/ \E s \in Scripts : Script(s)
  \/ \E p \in Procs \cup Scripts : Crash(p)
  \/ \E s \in BagToSet(sessions) : Expire(s)

Spec == Init /\ [][Next]_vars

-----------------------------------------------------------------------------
UserRows == [user : Ids, admin : BOOLEAN, flag : BOOLEAN]
FactorRows == [secret : Nat, enabled : BOOLEAN, codes : Nat]
SessionRows == [user : Ids, admin : BOOLEAN, expired : BOOLEAN]
AuditRows ==
  [provider : {"local", "two_factor"} \cup Providers,
   status : {"STARTED", "FAILED", "CHALLENGE", "SUCCEEDED", "TWO_FACTOR_DISABLED"},
   subject : Ids \cup Emails \cup Subjects \cup {None}, reason : Ids \cup {None}]
Jobs ==
  {Idle}
    \cup [op : {"signup"}, email : Emails, row : UserRows]
    \cup [op : {"login"}, audits : SUBSET AuditRows, opened : SUBSET SessionRows, raises : BOOLEAN]
    \cup [op : {"exchange", "lookup"}, key : OAuthKeys, code : Nat]
    \cup [op : {"open"}, session : SessionRows]
    \cup [op : {"emit", "disable"}, user : Ids, actor : Ids]
    \cup [op : {"enable"}, user : Ids, seen : FactorRows, secret : Nat \ {0}]
    \cup [op : {"seed"}, key : Keys, row : UserRows]
    \cup [op : {"roles"}, key : Keys, admin : BOOLEAN]

(* Types of the rows and of what a process keeps of a request.             *)
TypeOK ==
  /\ accounts \in [Emails -> Ids \cup {None}]
  /\ identity \in [Keys -> UserRows \cup {NoIdentity}]
  /\ factor \in [Ids -> FactorRows]
  /\ generated \in Nat
  /\ IsABag(sessions) /\ BagToSet(sessions) \subseteq SessionRows
  /\ IsABag(audits) /\ BagToSet(audits) \subseteq AuditRows
  /\ DOMAIN job = Procs \cup Scripts /\ \A p \in Procs \cup Scripts : job[p] \in Jobs

(* Every account has the local identity it was signed up with: of the same *)
(* user, without the flag that asks for a code at password login; and no   *)
(* two accounts are one user.  Races of sign-ups and of the seeding script *)
(* for an address end in a unique index and leave no half of a sign-up.    *)
AccountsHaveIdentities ==
  \A e \in Emails : accounts[e] # None =>
    /\ identity[Local(e)].user = accounts[e]
    /\ ~identity[Local(e)].flag
    /\ \A f \in Emails \ {e} : accounts[f] # accounts[e]

(* The copies of members S of a bag, one by one.                           *)
CopiesOf(B, S) == UNION {{x} \X (1 .. B[x]) : x \in S}
Copies(B, S) == Cardinality(CopiesOf(B, S))

Audited(provider, statuses) ==
  Copies(audits, {a \in BagToSet(audits) : a.provider = provider /\ a.status \in statuses})
SuccessesOf(u) ==
  {a \in BagToSet(audits) :
     /\ a.status = "SUCCEEDED"
     /\ \/ a.provider = "local" /\ a.subject = u
        \/ \E k \in OAuthKeys : identity[k].user = u /\ a.provider = k.provider /\ a.subject = k.subject}

SessionsAudited ==
  \A u \in Ids :
    Copies(sessions, {s \in BagToSet(sessions) : s.user = u}) <= Copies(audits, SuccessesOf(u))

OutcomesFollowStarts ==
  \A provider \in Providers \cup {"local"} :
    Audited(provider, {"FAILED", "CHALLENGE", "SUCCEEDED"}) <= Audited(provider, {"STARTED"})

(* The log accounts for what happened: every session is the outcome of an   *)
(* authentication of its own that the log shows as succeeded, whatever      *)
(* crashes (it is written in the login's transaction, and ahead of the      *)
(* callback's), and every outcome belongs to an attempt that started.      *)
LogAccountsForSessions == SessionsAudited /\ OutcomesFollowStarts

(* A second factor that is off after having been on was disabled by a user *)
(* whom a session allowed it, and the log names that user.  It holds also  *)
(* when the process dies between the two commits, and when a script that   *)
(* enables it races with the request.                                      *)
DisabledRowsAudited ==
  \A u \in Ids : factor[u] # NoFactor /\ ~factor[u].enabled =>
    \E s \in BagToSet(sessions), a \in BagToSet(audits) :
      s.admin /\ a.status = "TWO_FACTOR_DISABLED" /\ a.subject = u /\ a.reason = s.user

(* The recovery codes of a row, if any, were generated with its secret,    *)
(* and a second factor that is on has codes: whatever the order in which   *)
(* the columns of a disabling request and an enabling script are written.  *)
CodesOfSecret ==
  \A u \in Ids :
    /\ factor[u].codes \in {0, factor[u].secret}
    /\ factor[u].enabled => factor[u].codes # 0
=============================================================================
