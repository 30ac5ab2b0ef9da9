SPECIFICATION WatchdogSpec
CONSTANTS
  WatchdogSec = 12
  TickEvery = 3
  Latency = 1
  StaleAfter = 6
  Grace = 10
  StartTime = 7
INVARIANTS
  FrozenRestarts
  RestartJustified
