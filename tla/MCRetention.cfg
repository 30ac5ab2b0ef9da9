SPECIFICATION Spec
CONSTANTS
  Minute = 2
  Hour = 4
  Lag = 1
  Window = 4
  HourWindow = 8
  Period = 2
  RawKeep = 6
  MinuteKeep = 8
  HourKeep = 12
  EventKeep = 5
  RawSpan = 3
  MinuteSpan = 7
  MaxPoints = 2
  QueryTimes = {0, 1, 2, 3, 5, 6, 8, 12}
  Chunk = 1
  Late = 1
  SampleTimes = {1, 2, 3, 5}
  EventTimes = {2}
  MaxNow = 14
  MaxTick = 1
  Logged = {"info", "alarm"}
INVARIANTS
  HistoryKept
  QueryAnswered
