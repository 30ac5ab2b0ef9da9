SPECIFICATION Spec
VIEW MCView
CONSTANTS
  input = input
  Skew = Skew
  Fault = {input}
  PositionFault = {input}
  Face <- MCFace
  Maintained = {"inhibit"}
  AcceptedUnit = {1}
  Yields <- MCYields
  Link = {"healthy", "lost"}
  Stale = 1
  BaseEvery = 1
  Threshold = 0
  Echo = 0
  MaxUptime = 1
INVARIANTS
  AuthorityIdentified
  RowsOwned
  PositionTold
  FaultsHoldAuthority
PROPERTIES
  RebootsReal
