SPECIFICATION Spec
CONSTANTS
  input = input
  Skew = Skew
  Fault = {input}
  PositionFault = {input}
  Face <- MCFace
  Maintained = {"inhibit"}
  AcceptedUnit = {1}
  Yields <- MCYields
  Link = {"healthy", "lost"}
  Stale = 2
  BaseEvery = 3
  Threshold = 1
  Echo = 0
  MaxUptime = 1
PROPERTY
  SkewIsReal
