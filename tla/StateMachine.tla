---------------------------- MODULE StateMachine ----------------------------
(***************************************************************************)
(* The state machine that turns poll results into the snapshot, the active- *)
(* alarm table and the event feed (services/state.py), with the database's  *)
(* alarm rows (db.py), the acknowledgement that deletes a row               *)
(* (api/events.py), the register-map reload and a service restart.          *)
(*                                                                          *)
(* update() is one synchronous call of the poll callback, so it is one      *)
(* action.  A reading is abstracted to what the rules derive from it: the   *)
(* engine state, the alarm bits that read high, the registers outside their *)
(* band, and the levels of kW and current.  The reading is cumulative: a    *)
(* prime poll refreshes the status part, a base poll the metrics part, and  *)
(* update() sees both.  Bus messages are kept as counts per alarm code.     *)
(***************************************************************************)
EXTENDS Integers, FiniteSets

CONSTANTS
  Code,          \* codes of alarm bits
  Band,          \* registers with a warn or alarm range, also their RANGE_ codes
  Map,           \* register maps
  Rules,         \* what update() reads of each map: see StateMachineAssumption
  Engine,        \* engine states the rules can name
  Power,         \* <<kW level, current level>> pairs a base poll may bring
  AtsView,       \* what the ATS service may answer
  Link,          \* comms states
  NumericPolls,  \* NUMERIC_ALARM_MIN_POLLS
  DisagreePolls, \* LOADSOURCE_DISAGREE_DEBOUNCE_POLLS
  AckRequest,    \* acknowledgement requests that may be under way at once
  MaxPolls,      \* where the saturating counters stop: no min_poll_count is larger
  Disagree       \* LOADSOURCE_DISAGREE_ALARM_CODE

Level == {"none", "low", "mid", "high"}
Source == {"utility", "generator", "transferring", "unknown"}
Alarm == Code \cup Band \cup {Disagree}
NoAlarm == "none"

ASSUME StateMachineAssumption ==
  /\ Map # {} /\ "healthy" \in Link /\ "unknown" \notin Engine
  /\ Code \cap Band = {} /\ Disagree \notin Code \cup Band
  /\ Rules \in [Map -> [bits: SUBSET Code, min: [Code -> Nat \ {0}],
                        suppress: [Code -> SUBSET Engine],
                        numeric: BOOLEAN, bands: SUBSET Band]]
  /\ Power \subseteq Level \X Level
  /\ AtsView \subseteq [auth: BOOLEAN, pos: Source, normal: BOOLEAN]
  /\ {NumericPolls, DisagreePolls, MaxPolls} \subseteq Nat \ {0}
  /\ \A m \in Map, c \in Code : Rules[m].min[c] <= MaxPolls

VARIABLES
  regmap,      \* the map in force
  seen,        \* poller.reading, as the rules see it
  link,        \* poller.health.state
  ats,         \* the ATS service: authority, position, normal_available
  engine,      \* snap.engine_state
  load,        \* snap.load_source
  shared,      \* snap.comms is the poller's own health object
  displayed,   \* snap.active_alarms
  counts,      \* _alarm_poll_counts
  raised,      \* _raised_this_session
  ncounts,     \* _numeric_poll_counts
  numRaised,   \* _numeric_raised
  dcount,      \* _loadsource_disagree_count
  disRaised,   \* _loadsource_disagree_raised
  ack,         \* the code each acknowledgement request is about, or NoAlarm
  rows,        \* the alarms_active table, which survives a restart
  balance,     \* history: alarm events less cleared ones since the last
               \* acknowledgement, which closes whatever the feed shows open
  announced,   \* history: the comms state the feed last told
  since,       \* history: updates since the last reload or restart
  orphans      \* history: rows that no session has claimed since the restart

session == <<engine, load, shared, displayed, counts, raised, ncounts, numRaised,
             dcount, disRaised>>
history == <<balance, announced, since, orphans>>
vars == <<regmap, seen, link, ats, session, ack, rows, history>>

\* One more poll in a row.
Up(n, cap) == IF n < cap THEN n + 1 ELSE n

-----------------------------------------------------------------------------
(* What update() derives from a reading r.                                 *)

\* The engine state is kept when no rule matches.
NewEngine(r) == IF r.engine = "unknown" THEN engine ELSE r.engine

\* derive_active_alarms: an absent register leaves its bits low.
RawActive(r) == r.bits \cap Rules[regmap].bits

NewCounts(r) == [c \in Code |-> IF c \in RawActive(r) THEN Up(counts[c], MaxPolls) ELSE 0]

Effective(r) ==
  {c \in RawActive(r) : /\ NewCounts(r)[c] >= Rules[regmap].min[c]
                        /\ NewEngine(r) \notin Rules[regmap].suppress[c]}

\* Only an alarm that was not displayed is raised.
Raising(r) == Effective(r) \ displayed

\* Mutant: a code whose rule a reload removed is never cleared.
ClearingKnown(r) == (raised \cap Rules[regmap].bits) \ RawActive(r)

\* Every code of the session whose bit is low is cleared, rule or no rule.
Clearing(r) == raised \ RawActive(r)

\* _check_numeric_ranges: evaluated while the engine produces, on values that
\* are present; skipped altogether when the map does not enable it.
OutOfRange(r) ==
  IF NewEngine(r) \in {"running", "exercising"} THEN r.out \cap Rules[regmap].bands ELSE {}
NewNumericCounts(r) ==
  IF Rules[regmap].numeric
  THEN [b \in Band |-> IF b \in OutOfRange(r) THEN Up(ncounts[b], NumericPolls) ELSE 0]
  ELSE ncounts
NumericRaising(r) ==
  {b \in OutOfRange(r) : /\ Rules[regmap].numeric
                         /\ NewNumericCounts(r)[b] >= NumericPolls
                         /\ b \notin numRaised}
NumericClearing(r) == IF Rules[regmap].numeric THEN numRaised \ OutOfRange(r) ELSE {}

-----------------------------------------------------------------------------
(* Load source and its cross-check.                                        *)

\* Below the OFF thresholds; a missing reading counts as zero.
Idle(level) == level \in {"none", "low"}
Carrying(r) == r.kw = "high" /\ r.amps = "high"
Unloaded(r) == Idle(r.kw) /\ Idle(r.amps)

\* _derive_load_source_from_telemetry
SourceFromTelemetry(r) ==
  IF NewEngine(r) = "unknown" THEN load
  ELSE IF NewEngine(r) \in {"stopped", "cranking", "cooling", "exercising"} THEN "utility"
  ELSE IF r.kw = "none" /\ r.amps = "none" THEN (IF load = "unknown" THEN "utility" ELSE load)
  ELSE IF load = "generator" THEN (IF Unloaded(r) THEN "utility" ELSE "generator")
  ELSE IF Carrying(r) THEN "generator" ELSE "utility"

\* _derive_load_source: a position the ATS service vouches for wins.
NewLoad(r) ==
  IF ats.auth /\ ats.pos # "unknown" THEN ats.pos ELSE SourceFromTelemetry(r)

\* _check_loadsource_disagreement
Evaluable(r) == ats.auth /\ NewEngine(r) \in {"running", "alarm"}
Comparable(r) ==
  ats.pos \in {"utility", "generator"} /\ r.kw # "none" /\ r.amps # "none"
Disagrees(r) ==
  \/ ats.pos = "utility" /\ Carrying(r)
  \/ ats.pos = "generator" /\ Unloaded(r) /\ ~ats.normal
NewDisagreeCount(r) ==
  IF ~Evaluable(r) THEN 0
  ELSE IF ~Comparable(r) THEN dcount
  ELSE IF Disagrees(r) THEN Up(dcount, DisagreePolls) ELSE 0
DisagreeRaising(r) ==
  /\ Evaluable(r) /\ Comparable(r) /\ Disagrees(r)
  /\ NewDisagreeCount(r) >= DisagreePolls /\ ~disRaised

\* Mutant: a comparison that cannot be made returns before the clear.
DisagreeClearingJudged(r) ==
  disRaised /\ Evaluable(r) /\ Comparable(r) /\ ~Disagrees(r)

DisagreeClearing(r) ==
  disRaised /\ (~Evaluable(r) \/ (Comparable(r) /\ ~Disagrees(r)))

-----------------------------------------------------------------------------
(* The update.                                                             *)

Only(P, a) == IF P THEN {a} ELSE {}
AllRaising(r) == Raising(r) \cup NumericRaising(r) \cup Only(DisagreeRaising(r), Disagree)
AllClearing(r) == Clearing(r) \cup NumericClearing(r) \cup Only(DisagreeClearing(r), Disagree)

\* Mutant: the raise is announced whether or not the row is new.
NotifyAlways(raising, clearing) ==
  balance' = [a \in Alarm |-> balance[a] + (IF a \in raising THEN 1 ELSE 0)
                                         - (IF a \in clearing \cap rows THEN 1 ELSE 0)]

\* An alarm event for a new row, an alarm-cleared event for a deleted one.
Notify(raising, clearing) ==
  balance' = [a \in Alarm |-> balance[a] + (IF a \in raising \ rows THEN 1 ELSE 0)
                                         - (IF a \in clearing \cap rows THEN 1 ELSE 0)]

\* The comms state update() compares with: the snapshot's.
KnownLink == IF shared THEN link ELSE "healthy"

Update(r) ==
  /\ engine' = NewEngine(r)
  /\ counts' = NewCounts(r)
  /\ raised' = (raised \cup Raising(r)) \ Clearing(r)
  /\ ncounts' = NewNumericCounts(r)
  /\ numRaised' = (numRaised \cup NumericRaising(r)) \ NumericClearing(r)
  /\ load' = NewLoad(r)
  /\ dcount' = NewDisagreeCount(r)
  /\ disRaised' = ((disRaised \/ DisagreeRaising(r)) /\ ~DisagreeClearing(r))
  /\ displayed' = Effective(r) \cup numRaised' \cup Only(disRaised', Disagree)
  /\ shared' = TRUE
  /\ rows' = (rows \cup AllRaising(r)) \ AllClearing(r)
  /\ Notify(AllRaising(r), AllClearing(r))
  /\ announced' = IF link # KnownLink THEN link ELSE announced
  /\ since' = Up(since, MaxPolls)
  /\ orphans' = (orphans \ AllRaising(r)) \ AllClearing(r)

\* What a poll of each tier may bring; an unreadable part is absent.
Prime == [engine: Engine \cup {"unknown"}, bits: SUBSET Code]
Base == [out: SUBSET Band, power: Power]

PollPrime(p) ==
  /\ seen' = [seen EXCEPT !.engine = p.engine, !.bits = p.bits]
  /\ Update(seen')
  /\ UNCHANGED <<regmap, link, ats, ack>>

PollBase(b) ==
  /\ seen' = [seen EXCEPT !.out = b.out, !.kw = b.power[1], !.amps = b.power[2]]
  /\ Update(seen')
  /\ UNCHANGED <<regmap, link, ats, ack>>

-----------------------------------------------------------------------------
(* The other operations.                                                   *)

\* Mutant: a reload keeps the debounce counters.
ApplyRegmapCounting(m) ==
  /\ m # regmap
  /\ regmap' = m
  /\ since' = 0
  /\ UNCHANGED <<seen, link, ats, session, ack, rows, balance, announced, orphans>>

\* apply_regmap: new rules, debounce from scratch, the session set kept.
ApplyRegmap(m) ==
  /\ m # regmap
  /\ regmap' = m
  /\ counts' = [c \in Code |-> 0]
  /\ since' = 0
  /\ UNCHANGED <<seen, link, ats, engine, load, shared, displayed, raised, ncounts, numRaised,
                 dcount, disRaised, ack, rows, balance, announced, orphans>>

\* ack_alarm passes its gates: the row is there and the link is not LOST.
AckBegin(q, a) ==
  /\ ack[q] = NoAlarm
  /\ a \in rows /\ KnownLink # "lost"
  /\ ack' = [ack EXCEPT ![q] = a]
  /\ UNCHANGED <<regmap, seen, link, ats, session, rows, history>>

\* It returns without touching the row: token refused or write failed.
AckFails(q) ==
  /\ ack[q] # NoAlarm
  /\ ack' = [ack EXCEPT ![q] = NoAlarm]
  /\ UNCHANGED <<regmap, seen, link, ats, session, rows, history>>

\* It goes through, after the awaits of the token and of the write (Control has
\* that path): whatever happened meanwhile, the row of that code goes and the
\* feed says acknowledged.  The session's memory stays.
AckEnds(q) ==
  /\ ack[q] # NoAlarm
  /\ rows' = rows \ {ack[q]}
  /\ balance' = [balance EXCEPT ![ack[q]] = 0]
  /\ orphans' = orphans \ {ack[q]}
  /\ ack' = [ack EXCEPT ![q] = NoAlarm]
  /\ UNCHANGED <<regmap, seen, link, ats, session, announced, since>>

\* The poller's health and the ATS service change on their own.
LinkMoves(s) ==
  /\ s # link
  /\ link' = s
  /\ UNCHANGED <<regmap, seen, ats, session, ack, rows, history>>

AtsMoves(v) ==
  /\ v # ats
  /\ ats' = v
  /\ UNCHANGED <<regmap, seen, link, session, ack, rows, history>>

NoReading == [engine |-> "unknown", bits |-> {}, out |-> {}, kw |-> "none", amps |-> "none"]
NoAts == [auth |-> FALSE, pos |-> "unknown", normal |-> TRUE]

\* A fresh process: StateMachine.__init__, a new poller and ATS service.
FreshSession ==
  /\ engine' = "unknown" /\ load' = "unknown" /\ shared' = FALSE
  /\ displayed' = {} /\ counts' = [c \in Code |-> 0] /\ raised' = {}
  /\ ncounts' = [b \in Band |-> 0] /\ numRaised' = {}
  /\ dcount' = 0 /\ disRaised' = FALSE

Restart(m) ==
  /\ FreshSession
  /\ regmap' = m /\ seen' = NoReading /\ link' = "healthy" /\ ats' = NoAts
  /\ ack' = [q \in AckRequest |-> NoAlarm]
  /\ announced' = "healthy" /\ since' = 0
  /\ orphans' = rows
  /\ UNCHANGED <<rows, balance>>

-----------------------------------------------------------------------------
Init ==
  /\ regmap \in Map /\ seen = NoReading /\ link = "healthy" /\ ats = NoAts
  /\ engine = "unknown" /\ load = "unknown" /\ shared = FALSE
  /\ displayed = {} /\ counts = [c \in Code |-> 0] /\ raised = {}
  /\ ncounts = [b \in Band |-> 0] /\ numRaised = {}
  /\ dcount = 0 /\ disRaised = FALSE
  /\ ack = [q \in AckRequest |-> NoAlarm]
  /\ rows = {} /\ balance = [a \in Alarm |-> 0] /\ announced = "healthy"
  /\ since = 0 /\ orphans = {}

Poll == (\E p \in Prime : PollPrime(p)) \/ (\E b \in Base : PollBase(b))

Next ==
  \/ \E p \in Prime : PollPrime(p)
  \/ \E b \in Base : PollBase(b)
  \/ \E m \in Map : ApplyRegmap(m) \/ Restart(m)
  \/ \E q \in AckRequest : (\E a \in Alarm : AckBegin(q, a)) \/ AckFails(q) \/ AckEnds(q)
  \/ \E s \in Link : LinkMoves(s)
  \/ \E v \in AtsView : AtsMoves(v)

Spec == Init /\ [][Next]_vars

-----------------------------------------------------------------------------
(* Properties.                                                             *)

\* Every variable keeps its shape, and the counters their cap.
TypeOK ==
  /\ regmap \in Map
  /\ seen \in [engine: Engine \cup {"unknown"}, bits: SUBSET Code, out: SUBSET Band,
               kw: Level, amps: Level]
  /\ link \in Link /\ announced \in Link
  /\ ats \in AtsView \cup {NoAts}
  /\ engine \in Engine \cup {"unknown"} /\ load \in Source
  /\ displayed \subseteq Alarm /\ rows \subseteq Alarm /\ orphans \subseteq rows
  /\ counts \in [Code -> 0 .. MaxPolls]
  /\ ncounts \in [Band -> 0 .. NumericPolls] /\ dcount \in 0 .. DisagreePolls
  /\ since \in 0 .. MaxPolls
  /\ raised \subseteq Code /\ numRaised \subseteq Band
  /\ balance \in [Alarm -> Int] /\ ack \in [AckRequest -> Alarm \cup {NoAlarm}]
  /\ {shared, disRaised} \subseteq BOOLEAN

\* Alarms an update has a reason to keep.  A disagreement is not judged while
\* the position or the levels are missing.
Warranted(r) ==
  RawActive(r) \cup OutOfRange(r)
    \cup Only(Evaluable(r) /\ (Comparable(r) => Disagrees(r)), Disagree)

\* Range alarms raised before a reload turned numeric alarms off: no update
\* looks at them again (state.py:437).
Stranded == IF Rules[regmap].numeric THEN {} ELSE numRaised

\* state.py:352-356, 183-189: nothing leaks as a stale row.  After every update
\* the rows of this process are alarms whose condition the reading still meets,
\* whatever reloads, suppression, acknowledgements under way and lost authority
\* did before.  Two kinds of rows are set apart because the code leaves them:
\* those of an earlier process and the stranded ones.
NothingLeaks ==
  [][rows' \subseteq Warranted(seen') \cup orphans' \cup Stranded \/ ~Update(seen')]_vars

\* state.py:541, of the numeric alarms: "A value back in range clears."  After
\* an update, a range row of this process has its value outside the band.
RangeRowsClear == since > 0 => (rows \cap Band) \ orphans \subseteq seen.out

\* The feed tells each alarm once: over all sessions, every row has exactly
\* one alarm event that no clear and no acknowledgement has answered, and
\* nothing else has any (state.py:380-399, 412-424, events.py:176-182), however
\* polls, restarts and several acknowledgements of one code overtake each
\* other.
FeedBalanced == \A a \in Alarm : balance[a] = IF a \in rows THEN 1 ELSE 0

\* An alarm bit is never displayed sooner than min_poll_count updates after
\* the reload that brought its rule in force (state.py:175-181).
NoInstantRaise ==
  [][\A c \in (displayed' \ displayed) \cap Code : since' >= Rules[regmap].min[c]]_vars

\* From the first update after a reload on, a bit alarm of this process has its
\* row only while the bit reads high under the rules in force: hidden,
\* suppressed or dropped from the map, it is cleared when its bit is gone
\* (state.py:401-424).
RowsFollowBits == since > 0 => (rows \cap Code) \ orphans \subseteq RawActive(seen)

\* README.md:743, poller.py:17-18: a comms change emits an event, so after an
\* update the feed has told the link's state.
CommsAnnounced ==
  [][Poll => announced' = link]_vars

\* events.py:88-89: the local clear of an acknowledgement is harmless since
\* the next poll raises the alarm again, so after an update every displayed
\* alarm, whose bit still reads high, has its row.
DisplayedHasRow ==
  [][Poll => displayed' \subseteq rows']_vars
=============================================================================
