CONSTANTS
  Workers = {w1, w2}
  Calls = {c1, c2}
  LongCoins = {c2}
  Kinds = {"wallet", "transit", "withdrawal"}
  Users = {u1}
  Nothing = Nothing
  Attempts = 2
  Faults <- MCFaults
  MaxFaults = 1
SPECIFICATION Spec
CHECK_DEADLOCK FALSE
INVARIANTS
  TypeOK
  OnlyCompanyLosesRows
  RowsTellOutcomes
PROPERTY CallsReturn
