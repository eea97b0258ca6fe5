CONSTANTS
  Payloads <- MCPayloads
  Unilevel <- MCUnilevel
  Binary <- MCBinary
  IdsRestart = FALSE
  Workers = {w1, w2}
  Attempts = 3
  MaxRequests = 3
  MaxFaults = 1
SPECIFICATION Spec
CHECK_DEADLOCK FALSE
INVARIANTS
  TypeOK
  OneSessionPerKey
  
  BonusesComplete
PROPERTY RequestsEnd
