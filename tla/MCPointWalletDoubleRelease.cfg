CONSTANTS
  Users = {u1}
  Actors = {staff}
  Requests = {r1, r2}
  Nobody = Nobody
  Amounts <- MCAmounts
  MaxCredit = 3
SPECIFICATION Spec
CHECK_DEADLOCK FALSE
INVARIANT PendingRequestsReleasable
