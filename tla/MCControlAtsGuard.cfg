SPECIFICATION Spec
CONSTANTS
  r1 = r1 r2 = r2 r3 = r3 r4 = r4 r5 = r5
  t1 = t1 t2 = t2 mA = mA mB = mB
  Request = {r1, r2, r3, r4}
  Token = {t1, t2}
  Operator <- MCOperator
  RoleOf <- MCRoleOf
  Defines <- MCDefines
  AtsDefines <- MCAtsDefines
  Cadence = 1
  AtsSeen <- MCAtsSeen
  Workload <- GuardJobs
  Map = {mA}
  AtsEnabled = TRUE
  CommsSeen = {"healthy"}
  PollYields = {{"engine", "panel"}}
  EngineSeen = {"stopped"}
  PanelSeen = {"auto"}
  MaxEffect = 2
  TTL = 1
  MaxTime = 1
  MaxEpoch = 0
INVARIANT
  AssertGuardedAtWrite
