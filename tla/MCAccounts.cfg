\* One address and one OAuth subject, two users, and an API process with an
\* operator's script beside it: each writes the other's rows.  Two secrets
\* let a script enable again what a request is disabling.
CONSTANTS
  Ids = {u1, u2}
  Emails = {e1}
  Providers = {"google"}
  Subjects = {s1}
  Procs = {p1}
  Scripts = {c1}
  None = None
  MaxAudits = 3
  MaxSecrets = 2
SYMMETRY Symmetry
SPECIFICATION Spec
INVARIANTS
  TypeOK
  AccountsHaveIdentities
  LogAccountsForSessions
  DisabledRowsAudited
  CodesOfSecret
