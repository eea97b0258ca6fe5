CONSTANTS
  Users = {u1, u2}
  Actors = {staff}
  Requests = {r1, r2, r3}
  Nobody = Nobody
  Amounts <- MCAmounts
  MaxCredit = 3
SPECIFICATION Spec
SYMMETRY Symmetry
INVARIANTS
  TypeOK
  LedgerReplaysBalance
  LedgerClosesHolds
  PendingTracksOpenRequests
  OpenRequestsCovered
PROPERTY ImplementsFundsAccount
