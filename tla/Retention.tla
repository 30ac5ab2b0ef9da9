----------------------------- MODULE Retention -----------------------------
(***************************************************************************)
(* The history of a site: telemetry rows as the base polls write them, the  *)
(* periodic tick of services/retention.py that rolls them up into minute    *)
(* and hour rows and prunes the four tables, and the choice of a table by   *)
(* read_telemetry (db.py).                                                  *)
(*                                                                          *)
(* A tick reads the clock once and then hands one database call after the   *)
(* other to a worker thread, so telemetry is written between them; a prune  *)
(* deletes in chunks and releases the write lock in between.  A row of a    *)
(* roll-up is the set of samples it was computed from: averages, minima and *)
(* energy are functions of that set.                                        *)
(***************************************************************************)
EXTENDS Integers, FiniteSets

CONSTANTS
  Minute, Hour,        \* length of a bucket of telemetry_1m, telemetry_1h
  Window, Lag,         \* the minute roll-up covers [now - Window, now - Lag)
  HourWindow,          \* the hour roll-up covers [now - HourWindow, now)
  Period,              \* PERIOD_S
  RawKeep, MinuteKeep, HourKeep, EventKeep,  \* retention of the tables; 0: keep (last two)
  RawSpan, MinuteSpan, \* RAW_TIER_MAX_SPAN_S, ROLLUP_1M_MAX_SPAN_S
  MaxPoints,           \* max_points of a query
  Chunk,               \* rows one DELETE of a prune removes at most
  Late,                \* a row is written at most this long after its timestamp
  SampleTimes,         \* bound: when the base tier completes a poll
  EventTimes, Logged,  \* bound: when the service writes an event, and of which severities
  QueryTimes,          \* bound: where a query starts and ends, besides now
  MaxTick,             \* bound: how long a tick may take
  MaxNow               \* bound: the clock stops here

Severity == {"info", "ok", "warn", "alarm"}

ASSUME RetentionAssumption ==
  /\ {Minute, Hour, Window, HourWindow, Chunk, MaxPoints} \subseteq Nat \ {0}
  /\ {Lag, Period, RawKeep, MinuteKeep, HourKeep, EventKeep, RawSpan, MinuteSpan, Late,
      MaxTick, MaxNow}
       \subseteq Nat
  /\ SampleTimes \subseteq Nat /\ EventTimes \subseteq Nat /\ QueryTimes \subseteq Nat
  /\ Logged \subseteq Severity

\* The proportions the code relies on: 60 s, 1 h, 2 h, 6 h, 7 d, 14 d, 90 d.
ASSUME ProportionAssumption ==
  /\ \E k \in 1..Hour : Hour = k * Minute
  /\ Late <= Lag /\ Lag < Window /\ Window + Minute <= HourWindow
  /\ Window + Lag <= RawKeep /\ RawSpan <= RawKeep
  /\ HourWindow <= MinuteKeep /\ MinuteSpan <= MinuteKeep
  /\ HourKeep = 0 \/ MinuteKeep + Hour <= HourKeep

VARIABLES
  now,       \* time.time()
  step,      \* where the service is: down, asleep, or the call of the tick it makes next
  tickNow,   \* `now` of the tick under way
  due,       \* when the loop's sleep ends
  booting,   \* the tick under way is the one start() makes
  raw,       \* the telemetry table, as the timestamps of its rows
  in1m,      \* telemetry_1m, as the samples its rows were computed from
  in1h,      \* telemetry_1h, likewise
  events,    \* the events table, as <<ts, severity>>
  wrote,     \* history: every sample ever written
  rolled,    \* history: tickNow of the last tick that did both roll-ups
  kept       \* history: no two such ticks lay further apart than Window - Lag

vars == <<now, step, tickNow, due, booting, raw, in1m, in1h, events, wrote, rolled, kept>>
tables == <<raw, in1m, in1h, events>>
clocks == <<now, tickNow, due, booting>>
history == <<wrote, rolled, kept>>

Step == {"down", "sleep", "roll1m", "roll1h", "raw", "1m", "1h", "events", "checkpoint"}

\* The buckets of a sample, named by their first instant as in the tables.
MinuteOf(s) == (s \div Minute) * Minute
HourOf(s) == (s \div Hour) * Hour
MinuteRows == {MinuteOf(s) : s \in in1m}
HourRows == {HourOf(s) : s \in in1h}

TypeOK ==
  /\ now \in Nat /\ tickNow \in Nat /\ due \in Nat /\ rolled \in Nat
  /\ step \in Step /\ booting \in BOOLEAN /\ kept \in BOOLEAN
  /\ raw \subseteq Nat /\ in1m \subseteq Nat /\ in1h \subseteq Nat /\ wrote \subseteq Nat
  /\ events \subseteq Nat \X Severity

-----------------------------------------------------------------------------
(* Writers: the poll callback and everybody who logs an event.              *)

\* write_telemetry from a worker thread: the row carries the poll's own time.
WriteTelemetry(s) ==
  /\ step # "down" /\ s \in SampleTimes \ wrote /\ s <= now /\ now <= s + Late
  /\ raw' = raw \cup {s} /\ wrote' = wrote \cup {s}
  /\ UNCHANGED <<step, clocks, in1m, in1h, events, rolled, kept>>

WriteEvent(sev) ==
  /\ step # "down" /\ now \in EventTimes
  /\ \A e \in events : e[1] # now
  /\ events' = events \cup {<<now, sev>>}
  /\ UNCHANGED <<step, clocks, raw, in1m, in1h, history>>

-----------------------------------------------------------------------------
(* The tick.                                                                *)

\* start() ticks once before it creates the loop; the loop ticks after a sleep.
StartTick ==
  /\ step = "down" \/ (step = "sleep" /\ now >= due)
  /\ step' = "roll1m" /\ tickNow' = now /\ due' = 0 /\ booting' = (step = "down")
  /\ UNCHANGED <<now, tables, history>>

\* INSERT OR REPLACE: the rows of `old` whose bucket the selection meets give way.
Replace(old, sel, size) ==
  {s \in old : \A x \in sel : x \div size # s \div size} \cup sel

\* Mutant: a tick rolls up the last minute only.
Selected1mLast == {s \in raw : tickNow - Lag - Minute <= s /\ s < tickNow - Lag}

\* What a roll-up selects: samples, and minute rows by their first instant.
Selected1m == {s \in raw : tickNow - Window <= s /\ s < tickNow - Lag}
Selected1h == {s \in in1m : tickNow - HourWindow <= MinuteOf(s) /\ MinuteOf(s) < tickNow}

Roll1m ==
  /\ step = "roll1m" /\ step' = "roll1h"
  /\ in1m' = Replace(in1m, Selected1m, Minute)
  /\ UNCHANGED <<clocks, raw, in1h, events, history>>

Roll1h ==
  /\ step = "roll1h" /\ step' = "raw"
  /\ in1h' = Replace(in1h, Selected1h, Hour)
  /\ rolled' = tickNow /\ kept' = (kept /\ tickNow - rolled <= Window - Lag)
  /\ UNCHANGED <<clocks, raw, in1m, events, wrote>>

\* What one DELETE may take from the expired rows: LIMIT picks any of them.
\* The loop ends with the first chunk that is not full.
Chunks(expired) ==
  {d \in SUBSET expired : Cardinality(d) <= Chunk /\ (d = expired \/ Cardinality(d) = Chunk)}
NextStep(d, after) == IF Cardinality(d) < Chunk THEN after ELSE step

PruneRaw ==
  /\ step = "raw"
  /\ \E d \in Chunks({s \in raw : s < tickNow - RawKeep}) :
       raw' = raw \ d /\ step' = NextStep(d, "1m")
  /\ UNCHANGED <<clocks, in1m, in1h, events, history>>

Prune1m ==
  /\ step = "1m"
  /\ \E d \in Chunks({m \in MinuteRows : m < tickNow - MinuteKeep}) :
       in1m' = {s \in in1m : MinuteOf(s) \notin d} /\ step' = NextStep(d, "1h")
  /\ UNCHANGED <<clocks, raw, in1h, events, history>>

Prune1h ==
  /\ step = "1h"
  /\ IF HourKeep = 0
     THEN step' = "events" /\ UNCHANGED in1h
     ELSE \E d \in Chunks({h \in HourRows : h < tickNow - HourKeep}) :
            in1h' = {s \in in1h : HourOf(s) \notin d} /\ step' = NextStep(d, "events")
  /\ UNCHANGED <<clocks, raw, in1m, events, history>>

PruneEvents ==
  /\ step = "events"
  /\ IF EventKeep = 0
     THEN step' = "checkpoint" /\ UNCHANGED events
     ELSE \E d \in Chunks({e \in events : e[1] < tickNow - EventKeep /\ e[2] \in {"info", "ok"}}) :
            events' = events \ d /\ step' = NextStep(d, "checkpoint")
  /\ UNCHANGED <<clocks, raw, in1m, in1h, history>>

\* The checkpoint never fails and changes no row; then the loop sleeps.
Checkpoint ==
  /\ step = "checkpoint" /\ step' = "sleep" /\ due' = now + Period
  /\ tickNow' = 0 /\ booting' = FALSE
  /\ UNCHANGED <<now, tables, history>>

\* A database error ends the tick: the loop logs it and sleeps, start() fails
\* and the process with it.
TickFails ==
  /\ step \in Step \ {"down", "sleep", "checkpoint"}
  /\ IF booting THEN step' = "down" /\ due' = 0 ELSE step' = "sleep" /\ due' = now + Period
  /\ tickNow' = 0 /\ booting' = FALSE
  /\ UNCHANGED <<now, tables, history>>

Crash ==
  /\ step # "down" /\ step' = "down" /\ tickNow' = 0 /\ due' = 0 /\ booting' = FALSE
  /\ UNCHANGED <<now, tables, history>>

Clock ==
  /\ now < MaxNow /\ now' = now + 1
  /\ step \in {"down", "sleep"} \/ now < tickNow + MaxTick
  /\ UNCHANGED <<step, tickNow, due, booting, tables, history>>

-----------------------------------------------------------------------------
Init ==
  /\ now = 0 /\ step = "down" /\ tickNow = 0 /\ due = 0 /\ booting = FALSE
  /\ raw = {} /\ in1m = {} /\ in1h = {} /\ events = {}
  /\ wrote = {} /\ rolled = 0 /\ kept = TRUE

Next ==
  \/ \E s \in SampleTimes : WriteTelemetry(s)
  \/ \E sev \in Logged : WriteEvent(sev)
  \/ StartTick \/ Roll1m \/ Roll1h
  \/ PruneRaw \/ Prune1m \/ Prune1h \/ PruneEvents \/ Checkpoint
  \/ TickFails \/ Crash \/ Clock

Spec == Init /\ [][Next]_vars

-----------------------------------------------------------------------------
(* read_telemetry.                                                          *)

\* The columns of the telemetry table, by the roll-ups that carry them: both
\* (rpm, hz, kw, oil_p, cool_t, batt), the minutes only (v_ab, i_a), or none.
Metric == {"both", "minute", "raw"}

\* Mutant: the raw table answers spans that reach beyond its retention.
ReadTierRaw(metric, span) ==
  IF metric = "raw" \/ span <= MinuteSpan THEN "raw"
  ELSE IF metric = "minute" THEN "1m" ELSE "1h"

\* The table that answers a query: the coarsest that suits the length of the
\* span and carries the metric.
ReadTier(metric, span) ==
  IF metric = "raw" \/ span <= RawSpan THEN "raw"
  ELSE IF metric = "minute" \/ span <= MinuteSpan THEN "1m" ELSE "1h"

\* The rows of a table that lie between two instants, by their timestamps.
Selected(tier, from, to) ==
  {t \in CASE tier = "raw" -> raw [] tier = "1m" -> MinuteRows [] tier = "1h" -> HourRows :
     from <= t /\ t <= to}

\* Decimation, rows[::step]: with more rows than max_points, one in every stride.
Stride(rows) ==
  IF Cardinality(rows) > MaxPoints THEN Cardinality(rows) \div MaxPoints ELSE 1
Before(rows, t) == Cardinality({x \in rows : x < t})
Answer(rows) == {t \in rows : Before(rows, t) % Stride(rows) = 0}

-----------------------------------------------------------------------------
(* Properties.                                                              *)

\* The roll-ups keep the history they are there for (db.py:355-359): a sample
\* that was pruned from one table is still represented by a row of the next,
\* until the hourly retention is over.  Pruning, rolling, late rows, failed
\* ticks and crashes in the middle of a tick never lose a period altogether.
HistoryKept ==
  kept => \A s \in wrote :
    \/ s \in raw
    \/ MinuteOf(s) \in MinuteRows
    \/ HourOf(s) \in HourRows
    \/ HourKeep # 0 /\ HourOf(s) < now - HourKeep

\* The row of a table that stands for a sample, and whether the table's
\* retention still covers a row.
RowFor(tier, s) ==
  CASE tier = "raw" -> s [] tier = "1m" -> MinuteOf(s) [] tier = "1h" -> HourOf(s)
Retained(tier, row) ==
  \/ tier = "raw" /\ now - RawKeep <= row
  \/ tier = "1m" /\ now - MinuteKeep <= row
  \/ tier = "1h" /\ (HourKeep = 0 \/ now - HourKeep <= row)

\* The table with the longest memory of a metric.
Coarsest(metric) == CASE metric = "raw" -> "raw" [] metric = "minute" -> "1m" [] metric = "both" -> "1h"

\* A query loses no rolled-up sample that it is there to show.  Up to the
\* present, the table that read_telemetry picks by span and metric has a row
\* for every sample that any table still keeps of that metric ("so a
\* multi-month query returns data instead of nothing", db.py:264-266); a window
\* that lies in the past is answered from the table of its length, as far as
\* that table reaches.  The row is selected, and decimation leaves one at most
\* a stride before it.
QueryAnswered ==
  kept => \A metric \in Metric, from \in QueryTimes, to \in QueryTimes \cup {now} :
    from < to =>
      LET tier == ReadTier(metric, to - from)
          rows == Selected(tier, from, to)
          Due(row) == Retained(IF to >= now THEN Coarsest(metric) ELSE tier, row)
      IN  \A s \in wrote :
            LET row == RowFor(tier, s)
            IN  s < rolled - Lag /\ from <= row /\ row <= to /\ Due(row) =>
                  /\ row \in rows
                  /\ \E t \in Answer(rows) :
                       t <= row /\ Cardinality({x \in rows : t < x /\ x <= row}) < Stride(rows)

\* "Re-aggregating the current (partial) hour each tick is safe" (retention.py:70-71):
\* once the roll-up has moved past an hour, its row holds every minute of it
\* that has a row.  The window of the hour roll-up starts at an arbitrary
\* instant, so the last pass over an hour replaces its row by one computed from
\* the minutes that are still inside.
ClosedHourWhole ==
  kept => \A s \in in1m :
    HourOf(s) \in HourRows /\ HourOf(s) + Hour <= rolled - HourWindow => s \in in1h
=============================================================================
