SPECIFICATION FairSpec
CONSTANTS
  Code = {c1}
  Warning = {}
  Configs <- MCConfigs
  MaxQueue = 2
  MaxAttempts = 3
  Backoff <- MCBackoff
  MaxAge = 2
  Window = 2
  MaxMsg = 4
INVARIANTS
  FreshInOrder
  DedupeHonest
PROPERTY
  Drains
