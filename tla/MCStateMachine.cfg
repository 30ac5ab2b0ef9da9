SPECIFICATION Spec
SYMMETRY MCSymmetry
VIEW MCView
CONSTANTS
  q1 = q1 q2 = q2 bit = bit oil = oil mA = mA mB = mB
  Code = {bit}
  Band = {oil}
  Map = {mA, mB}
  Rules <- MCRules
  Engine = {"running", "cooling"}
  Power <- MCPower
  AtsView <- MCAtsView
  Link = {"healthy", "lost"}
  NumericPolls = 1
  DisagreePolls = 1
  AckRequest = {q1, q2}
  MaxPolls = 2
  Disagree = Disagree
INVARIANTS
  FeedBalanced
  RowsFollowBits
PROPERTIES
  NothingLeaks
  NoInstantRaise
