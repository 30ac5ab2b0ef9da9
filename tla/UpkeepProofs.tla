---------------------------- MODULE UpkeepProofs ----------------------------
(***************************************************************************)
(* Theorems about the two background services that look after the process   *)
(* and its database: the retention service, for every choice of bucket      *)
(* sizes, windows and retention periods in the code's proportions, any      *)
(* telemetry, any chunk size and any failures and crashes; and the systemd  *)
(* watchdog, for every choice of its periods.                               *)
(***************************************************************************)
EXTENDS Retention, SdWatchdog, FiniteSetTheorems, WellFoundedInduction, TLAPS

-----------------------------------------------------------------------------
(* Buckets.                                                                 *)

LEMMA NumbersAreNaturals ==
  /\ Minute \in Nat \ {0} /\ Hour \in Nat \ {0}
  /\ Window \in Nat /\ HourWindow \in Nat /\ Lag \in Nat /\ Period \in Nat
  /\ RawKeep \in Nat /\ MinuteKeep \in Nat /\ HourKeep \in Nat
  /\ RawSpan \in Nat /\ MinuteSpan \in Nat /\ Late \in Nat /\ MaxNow \in Nat
  /\ MaxPoints \in Nat \ {0} /\ QueryTimes \subseteq Nat
  BY RetentionAssumption

LEMMA TimesMonotone ==
  ASSUME NEW a \in Int, NEW b \in Int, NEW c \in Nat, a <= b
  PROVE  a * c <= b * c
  OBVIOUS

\* Division of a natural number.
LEMMA DivBounds ==
  ASSUME NEW s \in Nat, NEW n \in Nat \ {0}
  PROVE  /\ s \div n \in Nat
         /\ (s \div n) * n \in Nat
         /\ (s \div n) * n <= s /\ s < (s \div n) * n + n
  OBVIOUS

\* The quotient is the only number with those bounds.
LEMMA DivUnique ==
  ASSUME NEW s \in Nat, NEW n \in Nat \ {0}, NEW h \in Nat, h * n <= s, s < h * n + n
  PROVE  s \div n = h
  OBVIOUS

LEMMA MinuteBounds ==
  ASSUME NEW s \in Nat
  PROVE  MinuteOf(s) \in Nat /\ MinuteOf(s) <= s /\ s < MinuteOf(s) + Minute
  BY DivBounds, NumbersAreNaturals DEF MinuteOf

LEMMA HourBounds ==
  ASSUME NEW s \in Nat
  PROVE  HourOf(s) \in Nat /\ HourOf(s) <= s
  BY DivBounds, NumbersAreNaturals DEF HourOf

\* An hour is made of whole minutes: samples of one minute are of one hour.
LEMMA SameHour ==
  ASSUME NEW s \in Nat, NEW x \in Nat, MinuteOf(x) = MinuteOf(s)
  PROVE  HourOf(x) = HourOf(s)
  <1> USE NumbersAreNaturals
  <1> DEFINE m == s \div Minute
             h == s \div Hour
  <1>1. PICK k \in 1..Hour : Hour = k * Minute
    BY ProportionAssumption
  <1>2. m \in Nat /\ h \in Nat /\ k \in Nat
    BY DivBounds, <1>1
  <1>3. m * Minute <= s /\ s < m * Minute + Minute /\ m * Minute <= x /\ x < m * Minute + Minute
    BY MinuteBounds DEF MinuteOf
  <1>4. h * Hour <= s /\ s < h * Hour + Hour
    BY DivBounds
  <1> HIDE DEF m, h
  <1>5. h * Hour = (h * k) * Minute /\ h * Hour + Hour = (h * k + k) * Minute
    BY <1>1, <1>2
  <1>6. h * k \in Nat /\ (m + 1) * Minute = m * Minute + Minute
    BY <1>2
  <1>7. h * k <= m
    <2> SUFFICES ASSUME m + 1 <= h * k PROVE FALSE
      BY <1>2, <1>6
    <2>1. (m + 1) * Minute <= (h * k) * Minute
      BY <1>2, <1>6, TimesMonotone
    <2> QED BY <1>2, <1>3, <1>4, <1>5, <1>6, <2>1
  <1>8. m + 1 <= h * k + k
    <2> SUFFICES ASSUME h * k + k <= m PROVE FALSE
      BY <1>2, <1>6
    <2>1. (h * k + k) * Minute <= m * Minute
      BY <1>2, <1>6, TimesMonotone
    <2> QED BY <1>2, <1>3, <1>4, <1>5, <1>6, <2>1
  <1>9. h * Hour <= x /\ x < h * Hour + Hour
    <2>1. (h * k) * Minute <= m * Minute
      BY <1>2, <1>6, <1>7, TimesMonotone
    <2>2. (m + 1) * Minute <= (h * k + k) * Minute
      BY <1>2, <1>6, <1>8, TimesMonotone
    <2> QED BY <1>2, <1>3, <1>5, <1>6, <2>1, <2>2
  <1>10. x \div Hour = h /\ s \div Hour = h
    BY <1>2, <1>4, <1>9, DivUnique
  <1> QED BY <1>10 DEF HourOf

\* INSERT OR REPLACE takes no bucket away, and has one for all it selects.
LEMMA ReplaceKeepsRows ==
  ASSUME NEW old, NEW sel
  PROVE  /\ {MinuteOf(s) : s \in old} \subseteq {MinuteOf(s) : s \in Replace(old, sel, Minute)}
         /\ {HourOf(s) : s \in old} \subseteq {HourOf(s) : s \in Replace(old, sel, Hour)}
         /\ \A n : sel \subseteq Replace(old, sel, n)
  BY DEF Replace, MinuteOf, HourOf

-----------------------------------------------------------------------------
(* The inductive invariant.                                                 *)

\* The calls of a tick that come after both roll-ups.
Pruning == {"raw", "1m", "1h", "events", "checkpoint"}

\* The clocks of a tick: it does not run ahead of the time or behind the last
\* complete roll-up, and prunes with the clock it rolled up with.
TimeInv ==
  /\ rolled <= now
  /\ step \notin {"down", "sleep"} => rolled <= tickNow /\ tickNow <= now
  /\ step \in Pruning => rolled = tickNow
  /\ \A s \in wrote : s <= now

\* A sample leaves the raw table only once the roll-ups are well past it.
RawInv == \A s \in wrote \ raw : s < rolled - RawKeep

\* The minutes before t have their row, or had it for as long as it is kept.
MinutesUpTo(t) ==
  \A s \in wrote : s < t - Lag => MinuteOf(s) \in MinuteRows \/ MinuteOf(s) < t - MinuteKeep

\* The same for hours.
HoursUpTo(t) ==
  \A s \in wrote : s < t - Lag =>
    HourOf(s) \in HourRows \/ (HourKeep # 0 /\ HourOf(s) < t - HourKeep)

\* No period is missed as long as ticks come often enough; between the two
\* roll-ups the minutes are ahead of the hours.
RollInv ==
  /\ kept => MinutesUpTo(rolled) /\ HoursUpTo(rolled)
  /\ step = "roll1h" /\ kept /\ tickNow - rolled <= Window - Lag => MinutesUpTo(tickNow)

IInv == TypeOK /\ TimeInv /\ RawInv /\ RollInv

-----------------------------------------------------------------------------
(* Type correctness and the clocks.                                         *)

LEMMA TypeStep ==
  ASSUME TypeOK, [Next]_vars
  PROVE  TypeOK'
  <1> USE NumbersAreNaturals, RetentionAssumption DEF TypeOK, Step, clocks, tables, history
  <1>1. ASSUME NEW s \in SampleTimes, WriteTelemetry(s) PROVE TypeOK'
    BY <1>1 DEF WriteTelemetry
  <1>2. ASSUME NEW sev \in Logged, WriteEvent(sev) PROVE TypeOK'
    BY <1>2 DEF WriteEvent
  <1>3. CASE StartTick
    <2>1. (step = "down") \in BOOLEAN
      OBVIOUS
    <2> QED BY <1>3, <2>1 DEF StartTick
  <1>4. CASE Roll1m
    BY <1>4 DEF Roll1m, Replace, Selected1m
  <1>5. CASE Roll1h
    <2>1. (kept /\ tickNow - rolled <= Window - Lag) \in BOOLEAN
      OBVIOUS
    <2>2. in1h' \subseteq Nat
      BY <1>5 DEF Roll1h, Replace, Selected1h
    <2> QED BY <1>5, <2>1, <2>2 DEF Roll1h
  <1>6. CASE PruneRaw
    BY <1>6 DEF PruneRaw, NextStep
  <1>7. CASE Prune1m
    BY <1>7 DEF Prune1m, NextStep
  <1>8. CASE Prune1h
    BY <1>8 DEF Prune1h, NextStep
  <1>9. CASE PruneEvents
    BY <1>9 DEF PruneEvents, NextStep
  <1>10. CASE Checkpoint \/ TickFails \/ Crash
    <2>1. step' \in Step /\ tickNow' = 0 /\ booting' = FALSE /\ due' \in {0, now + Period}
      BY <1>10 DEF Checkpoint, TickFails, Crash
    <2>2. UNCHANGED <<now, tables, history>>
      BY <1>10 DEF Checkpoint, TickFails, Crash
    <2>3. now + Period \in Nat /\ due' \in Nat
      BY <2>1
    <2> QED BY <2>1, <2>2, <2>3
  <1>11. CASE Clock
    BY <1>11 DEF Clock
  <1>12. CASE UNCHANGED vars
    BY <1>12 DEF vars
  <1> QED
    BY <1>1, <1>2, <1>3, <1>4, <1>5, <1>6, <1>7, <1>8, <1>9, <1>10, <1>11, <1>12 DEF Next

LEMMA TimeStep ==
  ASSUME TypeOK, TypeOK', TimeInv, [Next]_vars
  PROVE  TimeInv'
  <1> USE NumbersAreNaturals DEF TypeOK, TimeInv, Pruning, Step, clocks, tables, history
  <1>1. ASSUME NEW s \in SampleTimes, WriteTelemetry(s) PROVE TimeInv'
    BY <1>1 DEF WriteTelemetry
  <1>2. ASSUME NEW sev \in Logged, WriteEvent(sev) PROVE TimeInv'
    BY <1>2 DEF WriteEvent
  <1>3. CASE StartTick \/ Roll1m \/ Roll1h
    BY <1>3 DEF StartTick, Roll1m, Roll1h
  <1>4. CASE PruneRaw
    BY <1>4 DEF PruneRaw, NextStep
  <1>5. CASE Prune1m
    BY <1>5 DEF Prune1m, NextStep
  <1>6. CASE Prune1h
    BY <1>6 DEF Prune1h, NextStep
  <1>7. CASE PruneEvents
    BY <1>7 DEF PruneEvents, NextStep
  <1>8. CASE Checkpoint \/ TickFails \/ Crash
    BY <1>8 DEF Checkpoint, TickFails, Crash
  <1>9. CASE Clock
    BY <1>9 DEF Clock
  <1>10. CASE UNCHANGED vars
    BY <1>10 DEF vars
  <1> QED
    BY <1>1, <1>2, <1>3, <1>4, <1>5, <1>6, <1>7, <1>8, <1>9, <1>10 DEF Next

\* The raw table loses a sample to PruneRaw only, which runs after the roll-ups.
LEMMA RawStep ==
  ASSUME TypeOK, TimeInv, RawInv, [Next]_vars
  PROVE  RawInv'
  <1> USE NumbersAreNaturals DEF TypeOK, RawInv, clocks, tables, history
  <1>1. ASSUME NEW s \in SampleTimes, WriteTelemetry(s) PROVE RawInv'
    BY <1>1 DEF WriteTelemetry
  <1>2. CASE Roll1h
    <2>1. rolled <= tickNow
      BY <1>2 DEF TimeInv, Roll1h
    <2> QED BY <1>2, <2>1 DEF Roll1h
  <1>3. CASE PruneRaw
    <2>1. rolled = tickNow
      BY <1>3 DEF TimeInv, PruneRaw, Pruning
    <2> QED BY <1>3, <2>1 DEF PruneRaw, Chunks
  <1>4. CASE UNCHANGED <<raw, wrote, rolled>>
    BY <1>4
  <1> QED
    BY <1>1, <1>2, <1>3, <1>4 DEF Next, WriteEvent, StartTick, Roll1m, Prune1m, Prune1h,
        PruneEvents, Checkpoint, TickFails, Crash, Clock, vars

-----------------------------------------------------------------------------
(* The roll-ups.                                                            *)

\* New samples are too young for either roll-up to be past them.
LEMMA WriteStep ==
  ASSUME IInv, NEW s \in SampleTimes, WriteTelemetry(s)
  PROVE  RollInv'
  <1> USE NumbersAreNaturals, ProportionAssumption DEF IInv, TypeOK, clocks
  <1>1. /\ wrote' = wrote \cup {s} /\ s \in Nat /\ now <= s + Late
        /\ UNCHANGED <<now, step, tickNow, in1m, in1h, rolled, kept>>
    BY RetentionAssumption DEF WriteTelemetry
  <1>2. rolled <= now /\ (step = "roll1h" => tickNow <= now)
    BY DEF TimeInv
  <1>3. ~(s < rolled - Lag) /\ (step = "roll1h" => ~(s < tickNow - Lag))
    BY <1>1, <1>2
  <1>4. MinuteRows' = MinuteRows /\ HourRows' = HourRows
    BY <1>1 DEF MinuteRows, HourRows
  <1>5. ASSUME MinutesUpTo(rolled), HoursUpTo(rolled) PROVE (MinutesUpTo(rolled) /\ HoursUpTo(rolled))'
    BY <1>1, <1>3, <1>4, <1>5 DEF MinutesUpTo, HoursUpTo
  <1>6. ASSUME step = "roll1h", MinutesUpTo(tickNow) PROVE MinutesUpTo(tickNow)'
    BY <1>1, <1>3, <1>4, <1>6 DEF MinutesUpTo
  <1> QED BY <1>1, <1>5, <1>6 DEF RollInv

\* The minute roll-up reaches back to the last complete one, whose samples the
\* raw table still holds.
LEMMA Roll1mStep ==
  ASSUME IInv, Roll1m
  PROVE  RollInv'
  <1> USE NumbersAreNaturals, ProportionAssumption DEF IInv, TypeOK, clocks, history
  <1>1. /\ step' = "roll1h" /\ in1m' = Replace(in1m, Selected1m, Minute)
        /\ UNCHANGED <<now, tickNow, in1h, wrote, rolled, kept>>
        /\ rolled <= tickNow
    BY DEF Roll1m, TimeInv
  <1>2. MinuteRows \subseteq MinuteRows' /\ Selected1m \subseteq in1m'
    BY <1>1, ReplaceKeepsRows DEF MinuteRows
  <1>3. HourRows' = HourRows
    BY <1>1 DEF HourRows
  <1>4. ASSUME kept PROVE (MinutesUpTo(rolled) /\ HoursUpTo(rolled))'
    BY <1>1, <1>2, <1>3, <1>4 DEF RollInv, MinutesUpTo, HoursUpTo
  <1>5. ASSUME kept, tickNow - rolled <= Window - Lag PROVE MinutesUpTo(tickNow)'
    <2> SUFFICES ASSUME NEW s \in wrote, s < tickNow - Lag
                 PROVE  MinuteOf(s) \in MinuteRows' \/ MinuteOf(s) < tickNow - MinuteKeep
      BY <1>1 DEF MinutesUpTo
    <2>0. s \in Nat /\ MinuteOf(s) \in Nat
      BY MinuteBounds
    <2>1. CASE s < rolled - Lag
      <3>1. MinuteOf(s) \in MinuteRows \/ MinuteOf(s) < rolled - MinuteKeep
        BY <1>5, <2>1 DEF RollInv, MinutesUpTo
      <3> QED BY <1>1, <1>2, <2>0, <3>1
    <2>2. CASE ~(s < rolled - Lag)
      <3>1. s \in raw
        BY <2>0, <2>2 DEF RawInv
      <3>2. s \in Selected1m
        BY <1>5, <2>0, <2>2, <3>1 DEF Selected1m
      <3> QED BY <1>2, <3>2 DEF MinuteRows
    <2> QED BY <2>1, <2>2
  <1> QED BY <1>1, <1>4, <1>5 DEF RollInv

\* The hour roll-up finds the row of every minute since the last complete one.
LEMMA Roll1hStep ==
  ASSUME IInv, Roll1h
  PROVE  RollInv'
  <1> USE NumbersAreNaturals, ProportionAssumption DEF IInv, TypeOK, clocks
  <1>1. /\ step' = "raw" /\ in1h' = Replace(in1h, Selected1h, Hour)
        /\ rolled' = tickNow /\ kept' = (kept /\ tickNow - rolled <= Window - Lag)
        /\ UNCHANGED <<now, tickNow, in1m, wrote>>
        /\ rolled <= tickNow /\ step = "roll1h"
    BY DEF Roll1h, TimeInv
  <1>2. HourRows \subseteq HourRows' /\ Selected1h \subseteq in1h'
    BY <1>1, ReplaceKeepsRows DEF HourRows
  <1>3. MinuteRows' = MinuteRows
    BY <1>1 DEF MinuteRows
  <1>4. ASSUME kept' PROVE (MinutesUpTo(rolled) /\ HoursUpTo(rolled))'
    <2>0. kept /\ tickNow - rolled <= Window - Lag
      BY <1>1, <1>4
    <2>1. MinutesUpTo(tickNow)
      BY <1>1, <2>0 DEF RollInv
    <2>2. MinutesUpTo(rolled)'
      BY <1>1, <1>3, <2>1 DEF MinutesUpTo
    <2>3. ASSUME NEW s \in wrote, s < tickNow - Lag
          PROVE  HourOf(s) \in HourRows' \/ (HourKeep # 0 /\ HourOf(s) < tickNow - HourKeep)
      <3>0. s \in Nat /\ MinuteOf(s) \in Nat /\ MinuteOf(s) <= s /\ s < MinuteOf(s) + Minute
        BY MinuteBounds
      <3>1. CASE s < rolled - Lag
        <4>1. HourOf(s) \in HourRows \/ (HourKeep # 0 /\ HourOf(s) < rolled - HourKeep)
          BY <2>0, <3>1 DEF RollInv, HoursUpTo
        <4>2. HourOf(s) \in Nat
          BY <3>0, HourBounds
        <4> QED BY <1>1, <1>2, <4>1, <4>2
      <3>2. CASE ~(s < rolled - Lag)
        <4>1. tickNow - HourWindow <= MinuteOf(s) /\ MinuteOf(s) < tickNow
          BY <2>0, <2>3, <3>0, <3>2
        <4>2. MinuteOf(s) \in MinuteRows
          BY <2>1, <2>3, <3>0, <4>1 DEF MinutesUpTo
        <4>3. PICK x \in in1m : MinuteOf(x) = MinuteOf(s)
          BY <4>2 DEF MinuteRows
        <4>4. x \in in1h'
          BY <1>2, <4>1, <4>3 DEF Selected1h
        <4>5. HourOf(x) = HourOf(s)
          BY <3>0, <4>3, SameHour
        <4> QED BY <4>4, <4>5 DEF HourRows
      <3> QED BY <3>1, <3>2
    <2>4. HoursUpTo(rolled)'
      BY <1>1, <2>3 DEF HoursUpTo
    <2> QED BY <2>2, <2>4
  <1> QED BY <1>1, <1>4 DEF RollInv

\* A prune takes rows that are past their retention by the clock of the
\* roll-ups.
LEMMA PruneStep ==
  ASSUME IInv, Prune1m \/ Prune1h
  PROVE  RollInv'
  <1> USE NumbersAreNaturals DEF IInv, TypeOK, clocks, history
  <1>1. /\ rolled = tickNow /\ step \in {"1m", "1h"}
        /\ UNCHANGED <<now, tickNow, wrote, rolled, kept>>
    BY DEF Prune1m, Prune1h, TimeInv, Pruning
  <1>2. step' # "roll1h"
    BY <1>1 DEF Prune1m, Prune1h, NextStep
  <1>3. CASE Prune1m
    <2>1. /\ UNCHANGED in1h
          /\ \E d \in SUBSET {m \in MinuteRows : m < tickNow - MinuteKeep} :
               in1m' = {s \in in1m : MinuteOf(s) \notin d}
      BY <1>3 DEF Prune1m, Chunks
    <2>2. \A m \in MinuteRows : m \in MinuteRows' \/ m < tickNow - MinuteKeep
      BY <2>1 DEF MinuteRows
    <2>3. HourRows' = HourRows
      BY <2>1 DEF HourRows
    <2> QED BY <1>1, <1>2, <2>2, <2>3 DEF RollInv, MinutesUpTo, HoursUpTo
  <1>4. CASE Prune1h
    <2>1. /\ UNCHANGED in1m
          /\ \/ UNCHANGED in1h
             \/ HourKeep # 0 /\ \E d \in SUBSET {h \in HourRows : h < tickNow - HourKeep} :
                  in1h' = {s \in in1h : HourOf(s) \notin d}
      BY <1>4 DEF Prune1h, Chunks
    <2>2. \A h \in HourRows : h \in HourRows' \/ (HourKeep # 0 /\ h < tickNow - HourKeep)
      BY <2>1 DEF HourRows
    <2>3. MinuteRows' = MinuteRows
      BY <2>1 DEF MinuteRows
    <2> QED BY <1>1, <1>2, <2>2, <2>3 DEF RollInv, MinutesUpTo, HoursUpTo
  <1> QED BY <1>3, <1>4

LEMMA RollStep ==
  ASSUME IInv, [Next]_vars
  PROVE  RollInv'
  <1>1. ASSUME UNCHANGED <<in1m, in1h, wrote, rolled, kept>>,
               step' # "roll1h" \/ UNCHANGED <<step, tickNow>>
        PROVE  RollInv'
    BY <1>1 DEF IInv, RollInv, MinutesUpTo, HoursUpTo, MinuteRows, HourRows
  <1>2. CASE PruneRaw \/ PruneEvents
    <2>1. UNCHANGED <<in1m, in1h, wrote, rolled, kept>>
      BY <1>2 DEF PruneRaw, PruneEvents, history
    <2>2. step' # "roll1h"
      BY <1>2 DEF PruneRaw, PruneEvents, NextStep
    <2> QED BY <1>1, <2>1, <2>2
  <1>3. CASE StartTick \/ Checkpoint \/ TickFails \/ Crash
    BY <1>1, <1>3 DEF StartTick, Checkpoint, TickFails, Crash, tables, history
  <1>4. CASE Clock \/ UNCHANGED vars \/ \E sev \in Logged : WriteEvent(sev)
    BY <1>1, <1>4 DEF Clock, WriteEvent, vars, tables, clocks, history
  <1> QED
    BY <1>2, <1>3, <1>4, WriteStep, Roll1mStep, Roll1hStep, PruneStep DEF Next

-----------------------------------------------------------------------------
(* The theorems.                                                            *)

LEMMA Invariant == Spec => []IInv
  <1>1. Init => IInv
    <2> SUFFICES ASSUME Init PROVE IInv
      OBVIOUS
    <2>1. TypeOK
      BY DEF Init, TypeOK, Step
    <2>2. TimeInv /\ RawInv
      BY DEF Init, TimeInv, RawInv, Pruning
    <2>3. RollInv
      BY DEF Init, RollInv, MinutesUpTo, HoursUpTo
    <2> QED BY <2>1, <2>2, <2>3 DEF IInv
  <1>2. IInv /\ [Next]_vars => IInv'
    BY TypeStep, TimeStep, RawStep, RollStep DEF IInv
  <1> QED
    BY <1>1, <1>2, PTL DEF Spec

\* Every variable of the retention service keeps its type.
THEOREM TypeCorrect == Spec => []TypeOK
  BY Invariant, PTL DEF IInv

\* Ticks that come often enough lose no period: a sample is in the raw table,
\* or its minute or its hour has a row, until the hourly retention is over,
\* whatever fails or crashes in between.
THEOREM HistoryIsKept == Spec => []HistoryKept
  <1>1. IInv => HistoryKept
    <2> SUFFICES ASSUME IInv, kept, NEW s \in wrote, s \notin raw
                 PROVE  HourOf(s) \in HourRows \/ (HourKeep # 0 /\ HourOf(s) < now - HourKeep)
      BY DEF HistoryKept
    <2> USE NumbersAreNaturals, ProportionAssumption DEF IInv, TypeOK
    <2>1. s < rolled - Lag /\ s \in Nat
      BY DEF RawInv
    <2>2. HourOf(s) \in HourRows \/ (HourKeep # 0 /\ HourOf(s) < rolled - HourKeep)
      BY <2>1 DEF RollInv, HoursUpTo
    <2> QED BY <2>1, <2>2, HourBounds DEF TimeInv
  <1> QED
    BY <1>1, Invariant, PTL

-----------------------------------------------------------------------------
(* Decimation.                                                              *)

LEMMA LeastNatural ==
  ASSUME NEW T, T \subseteq Nat, T # {}
  PROVE  \E m \in T : \A y \in T : m <= y
  <1> DEFINE R == {p \in Nat \X Nat : p[1] < p[2]}
  <1>1. IsWellFoundedOn(R, Nat)
    BY NatLessThanWellFounded, Zenon DEF OpToRel
  <1> HIDE DEF R
  <1>2. PICK m \in T : \A y \in T : ~ (<<y, m>> \in R)
    BY <1>1, WFMin
  <1>3. \A y \in T : ~ (y < m)
    BY <1>2 DEF R
  <1> QED BY <1>3

LEMMA ModOfMultiple ==
  ASSUME NEW k \in Nat, NEW n \in Nat \ {0}
  PROVE  (k * n) % n = 0
  OBVIOUS

\* Counting the rows before an instant: a number, which grows by one over a row.
LEMMA BeforeCounts ==
  ASSUME NEW rows, rows \subseteq Nat, IsFiniteSet(rows), NEW n \in Nat
  PROVE  /\ Before(rows, n) \in Nat
         /\ Before(rows, n + 1) = IF n \in rows THEN Before(rows, n) + 1 ELSE Before(rows, n)
  <1> DEFINE S == {x \in rows : x < n}
  <1>1. S \in SUBSET rows /\ n \notin S
    OBVIOUS
  <1>2. {x \in rows : x < n + 1} = IF n \in rows THEN S \cup {n} ELSE S
    <2>1. \A x \in rows : x < n + 1 <=> x < n \/ x = n
      OBVIOUS
    <2> QED BY <2>1
  <1> HIDE DEF S
  <1>3. IsFiniteSet(S) /\ Cardinality(S) \in Nat
    BY <1>1, FS_Subset, FS_CardinalityType
  <1>4. Cardinality(S \cup {n}) = Cardinality(S) + 1
    BY <1>1, <1>3, FS_AddElement
  <1>5. Before(rows, n) = Cardinality(S)
    BY DEF Before, S
  <1> QED BY <1>2, <1>3, <1>4, <1>5 DEF Before

\* Some row has exactly v rows before it, for every v up to the last one's.
LEMMA RowOfRank ==
  ASSUME NEW rows, rows \subseteq Nat, IsFiniteSet(rows), NEW row \in rows,
         NEW v \in Nat, v <= Before(rows, row)
  PROVE  \E t \in rows : t <= row /\ Before(rows, t) = v
  <1> DEFINE T == {n \in Nat : Before(rows, n + 1) > v}
  <1>1. row \in T
    <2>1. row \in Nat
      OBVIOUS
    <2>2. Before(rows, row) \in Nat /\ Before(rows, row + 1) = Before(rows, row) + 1
      BY <2>1, BeforeCounts
    <2> QED BY <2>1, <2>2
  <1>2. PICK m \in T : \A y \in T : m <= y
    BY <1>1, LeastNatural
  <1>3. m \in Nat /\ m <= row /\ Before(rows, m + 1) > v /\ Before(rows, m) \in Nat
    BY <1>1, <1>2, BeforeCounts
  <1>4. Before(rows, m) <= v
    <2>1. CASE m = 0
      <3>1. {x \in rows : x < 0} = {}
        <4>1. \A x \in rows : ~ (x < 0)
          OBVIOUS
        <4> QED BY <4>1
      <3> QED BY <2>1, <3>1, FS_EmptySet DEF Before
    <2>2. CASE m # 0
      <3>1. m - 1 \in Nat /\ m - 1 \notin T /\ (m - 1) + 1 = m
        BY <1>2, <1>3, <2>2
      <3> QED BY <1>3, <3>1
    <2> QED BY <2>1, <2>2
  <1>5. m \in rows /\ Before(rows, m) = v
    <2>1. Before(rows, m + 1) = IF m \in rows THEN Before(rows, m) + 1 ELSE Before(rows, m)
      BY <1>3, BeforeCounts
    <2> QED BY <1>3, <1>4, <2>1
  <1> QED BY <1>3, <1>5

\* Between two rows lie as many as their ranks say.
LEMMA RowsBetween ==
  ASSUME NEW rows, rows \subseteq Nat, IsFiniteSet(rows), NEW row \in rows, NEW t \in rows, t <= row
  PROVE  Cardinality({x \in rows : t < x /\ x <= row}) = Before(rows, row) - Before(rows, t)
  <1> DEFINE A == {x \in rows : x < row + 1}
             B == {x \in rows : x < t + 1}
  <1>1. {x \in rows : t < x /\ x <= row} = A \ B /\ A \cap B = B /\ A \in SUBSET rows
    <2>1. \A x \in rows : /\ t < x /\ x <= row <=> x < row + 1 /\ ~ (x < t + 1)
                          /\ x < t + 1 => x < row + 1
      OBVIOUS
    <2> QED BY <2>1
  <1>2. Cardinality(A) = Before(rows, row + 1) /\ Cardinality(B) = Before(rows, t + 1)
    BY DEF Before
  <1> HIDE DEF A, B
  <1>3. IsFiniteSet(A)
    BY <1>1, FS_Subset
  <1>4. Cardinality(A \ B) = Cardinality(A) - Cardinality(B)
    BY <1>1, <1>3, FS_Difference
  <1>5. row \in Nat /\ t \in Nat
    OBVIOUS
  <1>6. /\ Before(rows, row + 1) = Before(rows, row) + 1 /\ Before(rows, row) \in Nat
        /\ Before(rows, t + 1) = Before(rows, t) + 1 /\ Before(rows, t) \in Nat
    BY <1>5, BeforeCounts
  <1> QED BY <1>1, <1>2, <1>4, <1>6

\* rows[::step] leaves, at or before every row, one that is less than a stride away.
LEMMA Decimation ==
  ASSUME NEW rows, rows \subseteq Nat, IsFiniteSet(rows), NEW row \in rows
  PROVE  \E t \in Answer(rows) :
           t <= row /\ Cardinality({x \in rows : t < x /\ x <= row}) < Stride(rows)
  <1> DEFINE r == Before(rows, row)
             n == Stride(rows)
             k == r \div n
  <1>1. Cardinality(rows) \in Nat /\ r \in Nat
    BY FS_CardinalityType, BeforeCounts
  <1>2. n \in Nat \ {0}
    <2>1. CASE Cardinality(rows) > MaxPoints
      <3> DEFINE q == Cardinality(rows) \div MaxPoints
      <3>1. q \in Nat /\ Cardinality(rows) < q * MaxPoints + MaxPoints
        BY <1>1, NumbersAreNaturals, DivBounds
      <3>2. q # 0
        BY <1>1, <2>1, <3>1, NumbersAreNaturals
      <3> QED BY <2>1, <3>1, <3>2 DEF Stride
    <2> QED BY <1>1, <2>1, NumbersAreNaturals DEF Stride
  <1> HIDE DEF r, n
  <1>3. k \in Nat /\ k * n \in Nat /\ k * n <= r /\ r < k * n + n
    BY <1>1, <1>2, DivBounds
  <1> HIDE DEF k
  <1>4. PICK t \in rows : t <= row /\ Before(rows, t) = k * n
    BY <1>3, RowOfRank DEF r
  <1>5. t \in Answer(rows)
    BY <1>2, <1>3, <1>4, ModOfMultiple DEF Answer, n
  <1>6. Cardinality({x \in rows : t < x /\ x <= row}) = r - k * n
    BY <1>4, RowsBetween DEF r
  <1>7. r - k * n < n
    BY <1>1, <1>2, <1>3
  <1> QED BY <1>4, <1>5, <1>6, <1>7 DEF n

\* A query up to now shows every rolled-up sample that any table keeps of its
\* metric, and a query of the past every one that the table of its span keeps:
\* the row is selected, and decimation leaves one less than a stride before it.
THEOREM QueriesAreAnswered == Spec => []QueryAnswered
  <1>1. IInv => QueryAnswered
    <2> DEFINE Due(metric, tier, to, row) ==
                 Retained(IF to >= now THEN Coarsest(metric) ELSE tier, row)
    <2> SUFFICES ASSUME IInv, kept, NEW metric \in Metric, NEW from \in QueryTimes,
                        NEW to \in QueryTimes \cup {now}, from < to,
                        NEW tier, tier = ReadTier(metric, to - from),
                        NEW rows, rows = Selected(tier, from, to),
                        NEW s \in wrote, NEW row, row = RowFor(tier, s),
                        s < rolled - Lag, from <= row, row <= to, Due(metric, tier, to, row)
                 PROVE  /\ row \in rows
                        /\ \E t \in Answer(rows) :
                             t <= row /\ Cardinality({x \in rows : t < x /\ x <= row}) < Stride(rows)
      BY DEF QueryAnswered
    <2> USE NumbersAreNaturals, ProportionAssumption DEF IInv, TypeOK
    <2>1. s \in Nat /\ s <= now /\ rolled <= now /\ from \in Nat /\ to \in Nat
      BY DEF TimeInv
    <2>2. ASSUME tier = "raw" PROVE row \in rows
      <3>1. row = s /\ now - RawKeep <= s
        BY <2>1, <2>2 DEF ReadTier, RowFor, Retained, Coarsest, Metric
      <3>2. s \in raw
        BY <2>1, <3>1 DEF RawInv
      <3> QED BY <2>1, <2>2, <3>1, <3>2 DEF Selected
    <2>3. ASSUME tier = "1m" PROVE row \in rows
      <3>1. row = MinuteOf(s) /\ row \in Nat /\ now - MinuteKeep <= row
        BY <2>1, <2>3, MinuteBounds DEF ReadTier, RowFor, Retained, Coarsest, Metric
      <3>2. row \in MinuteRows
        BY <2>1, <3>1 DEF RollInv, MinutesUpTo
      <3> QED BY <2>1, <2>3, <3>1, <3>2 DEF Selected
    <2>4. ASSUME tier = "1h" PROVE row \in rows
      <3>1. row = HourOf(s) /\ row \in Nat /\ (HourKeep = 0 \/ now - HourKeep <= row)
        BY <2>1, <2>4, HourBounds DEF ReadTier, RowFor, Retained, Coarsest, Metric
      <3>2. row \in HourRows
        BY <2>1, <3>1 DEF RollInv, HoursUpTo
      <3> QED BY <2>1, <2>4, <3>1, <3>2 DEF Selected
    <2>5. tier \in {"raw", "1m", "1h"}
      BY DEF ReadTier
    <2>6. row \in rows
      BY <2>2, <2>3, <2>4, <2>5
    <2>7. rows \subseteq Nat /\ \A x \in rows : x <= to
      BY <2>1, <2>5, MinuteBounds, HourBounds DEF Selected, MinuteRows, HourRows
    <2>8. IsFiniteSet(rows)
      BY <2>1, <2>7, FS_BoundedSetOfNaturals
    <2> QED BY <2>6, <2>7, <2>8, Decimation
  <1> QED
    BY <1>1, Invariant, PTL

-----------------------------------------------------------------------------
(***************************************************************************)
(* The systemd watchdog.  The inductive invariant bounds each clock by      *)
(* systemd's, and says why a withheld ping means an outage: two withheld    *)
(* pings in a row have no heartbeat between them, because a heartbeat stays *)
(* fresh for longer than a tick.                                            *)
(***************************************************************************)

Pass == TickEvery + Latency   \* longest time between two passes of the ticker

\* The ticker is alive, and systemd's clock bounds the others.
ClocksBounded ==
  /\ hung = Absent => nap <= Pass
  /\ nap <= quiet /\ quiet <= WatchdogSec
  /\ silence # Absent => silence <= StaleAfter + quiet \/ silence <= StartTime + quiet
  /\ silence = Absent => boot <= Grace + quiet
  /\ hung # Absent => hung <= quiet

\* A pass has withheld its ping since the last one that was sent.
Withheld == quiet > nap

\* With no heartbeat since the pass that withheld, the outage is as long as
\* systemd has been waiting, less the time to the first pass; with one, its
\* length at the time of that pass has been recorded.
OutageSeen ==
  /\ Withheld /\ (silence = Absent \/ silence > nap) => Overdue >= 1 + quiet - Pass
  /\ Withheld => Worst >= 1 + quiet - nap - Pass

WatchInv == ClocksTypeOK /\ ClocksBounded /\ OutageSeen

LEMMA InitWatch == WatchdogInit => WatchInv
  BY WatchdogAssumption DEF WatchdogInit, WatchInv, ClocksTypeOK, ClocksBounded, OutageSeen, Withheld,
      Absent, Pass

LEMMA HeartbeatWatch == WatchInv /\ Heartbeat => WatchInv'
  BY WatchdogAssumption DEF WatchInv, ClocksTypeOK, ClocksBounded, OutageSeen, Withheld, Heartbeat,
      Worst, Overdue, Absent, Pass

LEMMA TickerPassWatch == WatchInv /\ TickerPass => WatchInv'
  BY WatchdogAssumption DEF WatchInv, ClocksTypeOK, ClocksBounded, OutageSeen, Withheld, TickerPass,
      ShouldPing, Worst, Overdue, Absent, Pass

LEMMA HangWatch == WatchInv /\ Hang => WatchInv'
  BY WatchdogAssumption DEF WatchInv, ClocksTypeOK, ClocksBounded, OutageSeen, Withheld, Hang,
      Worst, Overdue, Absent, Pass

LEMMA RestartWatch == WatchInv /\ Restart => WatchInv'
  BY WatchdogAssumption DEF WatchInv, ClocksTypeOK, ClocksBounded, OutageSeen, Withheld, Restart,
      Absent, Pass

LEMMA ElapseWatch == WatchInv /\ Elapse => WatchInv'
  BY WatchdogAssumption DEF WatchInv, ClocksTypeOK, ClocksBounded, OutageSeen, Withheld, Elapse,
      Older, Worst, Overdue, Absent, Pass

LEMMA NextWatch == WatchInv /\ [WatchdogNext]_timers => WatchInv'
  <1>1. ASSUME WatchInv, UNCHANGED timers PROVE WatchInv'
    BY <1>1 DEF WatchInv, ClocksTypeOK, ClocksBounded, OutageSeen, Withheld, Worst, Overdue,
        timers
  <1> QED
    BY <1>1, HeartbeatWatch, TickerPassWatch, HangWatch, RestartWatch, ElapseWatch DEF WatchdogNext

LEMMA WatchInductive == WatchdogSpec => []WatchInv
  BY InitWatch, NextWatch, PTL DEF WatchdogSpec

\* Every clock keeps its type.
THEOREM WatchdogTypeCorrect == WatchdogSpec => []ClocksTypeOK
  <1>1. WatchInv => ClocksTypeOK  BY DEF WatchInv
  <1> QED  BY <1>1, WatchInductive, PTL

\* For every cadence, grace and WatchdogSec, a service that detects nothing is
\* restarted in bounded time.
THEOREM FrozenIsRestarted == WatchdogSpec => []FrozenRestarts
  <1>1. WatchInv => FrozenRestarts
    BY WatchdogAssumption DEF WatchInv, ClocksTypeOK, ClocksBounded, FrozenRestarts, Absent
  <1> QED  BY <1>1, WatchInductive, PTL

\* For every cadence, grace and WatchdogSec, systemd kills a live service only
\* after an outage of WatchdogSec less two late ticks.
THEOREM RestartIsJustified == WatchdogSpec => []RestartJustified
  <1>1. WatchInv => RestartJustified
    <2> SUFFICES ASSUME WatchInv, quiet >= WatchdogSec, hung = Absent
                 PROVE  Worst > WatchdogSec - 2 * (TickEvery + Latency)
      BY DEF RestartJustified
    <2>1. quiet = WatchdogSec /\ nap <= Pass /\ nap \in Nat
      BY WatchdogAssumption DEF WatchInv, ClocksTypeOK, ClocksBounded
    <2>2. Worst >= 1 + quiet - nap - Pass
      BY <2>1, WatchdogAssumption DEF WatchInv, OutageSeen, Withheld, Pass
    <2>3. Worst \in Int
      BY WatchdogAssumption DEF WatchInv, ClocksTypeOK, Worst, Overdue, Absent
    <2> QED  BY <2>1, <2>2, <2>3, WatchdogAssumption DEF Pass
  <1> QED  BY <1>1, WatchInductive, PTL
=============================================================================
