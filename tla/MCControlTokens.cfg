SPECIFICATION Spec
CONSTANTS
  r1 = r1 r2 = r2 r3 = r3 r4 = r4 r5 = r5
  t1 = t1 t2 = t2 mA = mA mB = mB
  Request = {r1, r2, r3, r4}
  Token = {t1, t2}
  Operator <- MCOperator
  RoleOf <- MCRoleOf
  Defines <- MCDefines
  AtsDefines <- MCAtsDefines
  Cadence = 1
  AtsSeen <- MCAtsSeen
  Workload <- TokenJobs
  Map = {mA}
  AtsEnabled = TRUE
  EngineSeen = {"stopped"}
  CommsSeen = {"healthy"}
  PollYields = {{"engine", "panel"}}
  PanelSeen = {"auto"}
  MaxEffect = 2
  TTL = 1
  MaxTime = 2
  MaxEpoch = 1
INVARIANTS
  TokenSingleUse
  TokenAuthorises
  WriteExclusion
  TokenAccounted
PROPERTIES
  RefusalKeepsToken
  ImplementsLedger
