CONSTANTS
  Users = {u1}
  Actors = {a1, a2}
  Requests = {r1}
  Workers = {w1, w2}
  Nobody = Nobody
  Amounts <- MCOne
  Funds = 1
  Origins <- MCPlain
  Devices = {d1}
  NoDevice = NoDevice
  WarnLimit = 2
  BlockLimit = 3
  ReviewLimit = 1
  Attempts = 2
  Faults <- AllFaults
  MaxFaults = 1
SPECIFICATION Spec
CHECK_DEADLOCK FALSE
INVARIANT
  NothingSkipsFirstApproval
PROPERTY SessionsEnd
