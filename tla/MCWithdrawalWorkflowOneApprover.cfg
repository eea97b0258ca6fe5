CONSTANTS
  Users = {u1}
  Actors = {a1, a2}
  Requests = {r1}
  Workers = {w1, w2}
  Nobody = Nobody
  Amounts <- MCOne
  Funds = 1
  Origins <- MCPlain
  Devices = {d1}
  NoDevice = NoDevice
  WarnLimit = 2
  BlockLimit = 3
  ReviewLimit = 1
  Attempts = 1
  Faults <- NoFaults
  MaxFaults = 0
SPECIFICATION Spec
SYMMETRY WorkerSymmetry
CHECK_DEADLOCK FALSE
INVARIANT TrailShowsTwoPeople
