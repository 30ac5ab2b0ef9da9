SPECIFICATION Spec
CONSTANTS
  q1 = q1 q2 = q2 bit = bit oil = oil mA = mA mB = mB
  Code = {bit}
  Band = {oil}
  Map = {mA, mB}
  Rules <- MCRules
  Engine = {"running", "cooling"}
  Power <- MCPower
  AtsView <- MCAtsView
  Link = {"healthy", "lost"}
  NumericPolls = 1
  DisagreePolls = 2
  AckRequest = {q1, q2}
  MaxPolls = 2
  Disagree = Disagree
PROPERTIES
  DisplayedHasRow
