SPECIFICATION FairSpec
CONSTANTS
  prime = prime base = base w1 = w1 w2 = w2
  Reader = {prime, base}
  Write = {w1, w2}
  Invalid = {w2}
  Transport = {"serial", "tcp"}
  Retries = 2
  MaxSend = 2
INVARIANTS
  WireExclusion
  WritePreempts
PROPERTIES
  ImplementsRemoteWrite
  WritesReturn
