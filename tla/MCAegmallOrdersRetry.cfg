CONSTANTS
  Payloads <- BobOnly
  Unilevel <- MCUnilevel
  Binary <- MCBinary
  IdsRestart = TRUE
  Workers = {w1}
  Attempts = 3
  MaxRequests = 2
  MaxFaults = 0
SPECIFICATION Spec
CHECK_DEADLOCK FALSE
INVARIANT OneBonusPerLevel
