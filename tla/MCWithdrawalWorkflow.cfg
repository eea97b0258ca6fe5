CONSTANTS
  Users = {u1}
  Actors = {a1, a2}
  Requests = {r1, r2}
  Workers = {w1}
  Nobody = Nobody
  Amounts <- MCAmounts
  Funds = 3
  Origins <- MCOrigins
  Devices = {d1}
  NoDevice = NoDevice
  WarnLimit = 2
  BlockLimit = 3
  ReviewLimit = 1
  Attempts = 2
  Faults <- AllFaults
  MaxFaults = 2
SPECIFICATION Spec
SYMMETRY Symmetry
CHECK_DEADLOCK FALSE
INVARIANTS
  TypeOK
  UnrecordedPayoutsAreFaults
  ReceiptsMatchStatus
  TrailEndsInStatus
  RiskOnRecord
  DevicesIntroduced
  TrailShowsTwoPeople
PROPERTIES
  ApprovalsGoForward
  ImplementsFundsAccount
