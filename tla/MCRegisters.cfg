SPECIFICATION Spec
CONSTANTS
  Base = 8
  Top = 9
  MaxWords = 4
  Gap = 1
  MCAddrs = {0, 1, 2, 4, 7, 9}
  MCTypes = {"u16", "s16", "u32", "u32_lo", "s32"}
  MCSeeds = {5}
  Maps <- MCMaps
  Memories <- MCMemories
CHECK_DEADLOCK FALSE
INVARIANTS
  PlanExact
  PollExact
