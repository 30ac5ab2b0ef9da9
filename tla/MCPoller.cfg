SPECIFICATION FairSpec
CONSTANTS
  out = out key = key mA = mA mB = mB
  Register = {out, key}
  Map = {mA, mB}
  Batches <- MCBatches
  StateRegs <- MCStateRegs
  Cadence <- MCCadence
  Stale = 1
  Window = 3
  LostAfter = 2
  Streak = 2
  FlapWindow = 1
  FlapMax = 2
INVARIANTS
  ClassifierSound
  HeartbeatHonest
PROPERTIES
  DeadValuesLeave
  FrozenStateReported
  Recovers
