CONSTANTS
  Bonuses = {b1, b2, b3}
  MaxRetries = 3
  Limit = 2
  Faults <- AllFaults
  MaxFaults = 1
SPECIFICATION Spec
CHECK_DEADLOCK FALSE
INVARIANTS
  TypeOK
  CreditsAccounted
  QueueFollowsEntry
PROPERTY ImplementsBonusPayout
