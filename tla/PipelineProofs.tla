--------------------------- MODULE PipelineProofs ---------------------------
(***************************************************************************)
(* Theorems about the way of an alarm from the registers to the browser:    *)
(* the state machine, for every set of alarm codes, banded registers,       *)
(* register maps and thresholds; and the live feed, for any browsers and    *)
(* any length of their queues.                                              *)
(***************************************************************************)
EXTENDS StateMachine, Feed, TLAPS

\* The readings update() may see.
Reading == [engine: Engine \cup {"unknown"}, bits: SUBSET Code, out: SUBSET Band,
            kw: Level, amps: Level]

-----------------------------------------------------------------------------
(* What the rules derive.                                                  *)

\* The rules of a map speak of known codes and registers, with thresholds
\* the counters can reach.
LEMMA RuleShape ==
  ASSUME NEW m \in Map
  PROVE  /\ Rules[m].bits \subseteq Code
         /\ Rules[m].bands \subseteq Band
         /\ \A c \in Code : Rules[m].min[c] \in 1 .. MaxPolls
  BY StateMachineAssumption

\* A saturating counter stays within its cap and never falls.
LEMMA UpBound ==
  ASSUME NEW cap \in Nat, NEW n \in 0 .. cap
  PROVE  Up(n, cap) \in 0 .. cap
  BY DEF Up

\* Saturation keeps the order of two counters.
LEMMA UpMonotone ==
  ASSUME NEW cap \in Nat, NEW n \in Nat, NEW k \in Nat, n <= k
  PROVE  Up(n, cap) <= Up(k, cap)
  BY DEF Up

\* Bit alarms, numeric alarms and the disagreement alarm stay apart.
LEMMA DerivedShape ==
  ASSUME TypeOK, NEW r \in Reading
  PROVE  /\ NewEngine(r) \in Engine \cup {"unknown"}
         /\ RawActive(r) \subseteq Code /\ Effective(r) \subseteq RawActive(r)
         /\ Raising(r) \subseteq RawActive(r) /\ Clearing(r) \subseteq Code
         /\ OutOfRange(r) \subseteq Band
         /\ NumericRaising(r) \subseteq Band /\ NumericClearing(r) \subseteq Band
         /\ AllRaising(r) \subseteq Alarm /\ AllClearing(r) \subseteq Alarm
  <1>1. NewEngine(r) \in Engine \cup {"unknown"}
    BY DEF TypeOK, Reading, NewEngine
  <1>2. RawActive(r) \subseteq Code
    BY RuleShape DEF TypeOK, RawActive
  <1>3. Effective(r) \subseteq RawActive(r) /\ Raising(r) \subseteq RawActive(r)
    BY DEF Effective, Raising
  <1>4. Clearing(r) \subseteq Code
    BY DEF TypeOK, Clearing
  <1>5. OutOfRange(r) \subseteq Band
    BY RuleShape DEF TypeOK, OutOfRange
  <1>6. NumericRaising(r) \subseteq Band /\ NumericClearing(r) \subseteq Band
    BY <1>5 DEF TypeOK, NumericRaising, NumericClearing
  <1>7. AllRaising(r) \subseteq Alarm /\ AllClearing(r) \subseteq Alarm
    BY <1>2, <1>3, <1>4, <1>6 DEF AllRaising, AllClearing, Only, Alarm
  <1> QED BY <1>1, <1>2, <1>3, <1>4, <1>5, <1>6, <1>7

\* One update never raises and clears the same alarm.
LEMMA RaiseOrClear ==
  ASSUME TypeOK, NEW r \in Reading
  PROVE  AllRaising(r) \cap AllClearing(r) = {}
  <1>1. Raising(r) \cap Clearing(r) = {}
    BY DerivedShape DEF Clearing
  <1>2. NumericRaising(r) \cap NumericClearing(r) = {}
    BY DEF NumericRaising, NumericClearing
  <1>3. ~(DisagreeRaising(r) /\ DisagreeClearing(r))
    BY DEF DisagreeRaising, DisagreeClearing
  <1>4. Code \cap Band = {} /\ Disagree \notin Code \cup Band
    BY StateMachineAssumption
  <1> QED BY <1>1, <1>2, <1>3, <1>4, DerivedShape DEF AllRaising, AllClearing, Only

-----------------------------------------------------------------------------
(* Type correctness.                                                       *)

LEMMA CountersType ==
  ASSUME TypeOK, NEW r \in Reading
  PROVE  /\ NewCounts(r) \in [Code -> 0 .. MaxPolls]
         /\ NewNumericCounts(r) \in [Band -> 0 .. NumericPolls]
         /\ NewDisagreeCount(r) \in 0 .. DisagreePolls
  <1>0. MaxPolls \in Nat /\ NumericPolls \in Nat /\ DisagreePolls \in Nat
    BY StateMachineAssumption
  <1>1. NewCounts(r) \in [Code -> 0 .. MaxPolls]
    BY <1>0, UpBound DEF TypeOK, NewCounts
  <1>2. NewNumericCounts(r) \in [Band -> 0 .. NumericPolls]
    BY <1>0, UpBound DEF TypeOK, NewNumericCounts
  <1>3. NewDisagreeCount(r) \in 0 .. DisagreePolls
    BY <1>0, UpBound DEF TypeOK, NewDisagreeCount
  <1> QED BY <1>1, <1>2, <1>3

LEMMA LoadType ==
  ASSUME TypeOK, NEW r \in Reading
  PROVE  NewLoad(r) \in Source
  <1>1. ats.pos \in Source
    BY StateMachineAssumption DEF TypeOK, NoAts, Source
  <1>2. load \in Source
    BY DEF TypeOK
  <1>3. SourceFromTelemetry(r) \in Source
    BY <1>2 DEF SourceFromTelemetry, Source
  <1> QED BY <1>1, <1>3 DEF NewLoad

\* What an update leaves behind has its type, whatever the reading.
LEMMA UpdateType ==
  ASSUME TypeOK, NEW r \in Reading, Update(r)
  PROVE  /\ engine' \in Engine \cup {"unknown"} /\ load' \in Source
         /\ displayed' \subseteq Alarm /\ rows' \subseteq Alarm /\ orphans' \subseteq rows'
         /\ counts' \in [Code -> 0 .. MaxPolls]
         /\ ncounts' \in [Band -> 0 .. NumericPolls] /\ dcount' \in 0 .. DisagreePolls
         /\ since' \in 0 .. MaxPolls
         /\ raised' \subseteq Code /\ numRaised' \subseteq Band
         /\ balance' \in [Alarm -> Int]
         /\ announced' \in Link
         /\ shared' \in BOOLEAN /\ disRaised' \in BOOLEAN
  <1>1. engine' \in Engine \cup {"unknown"} /\ load' \in Source
    BY DerivedShape, LoadType DEF Update
  <1>2. raised' \subseteq Code /\ numRaised' \subseteq Band
    BY DerivedShape DEF Update, TypeOK
  <1>3. displayed' \subseteq Alarm
    <2>1. displayed' = Effective(r) \cup numRaised' \cup Only(disRaised', Disagree)
      BY DEF Update
    <2> QED BY <2>1, <1>2, DerivedShape DEF Only, Alarm
  <1>4. rows' \subseteq Alarm /\ orphans' \subseteq rows'
    BY DerivedShape DEF Update, TypeOK
  <1>5. /\ counts' \in [Code -> 0 .. MaxPolls]
        /\ ncounts' \in [Band -> 0 .. NumericPolls] /\ dcount' \in 0 .. DisagreePolls
    BY CountersType DEF Update
  <1>6. since' \in 0 .. MaxPolls
    BY UpBound, StateMachineAssumption DEF Update, TypeOK
  <1>7. balance' \in [Alarm -> Int]
    BY DEF Update, Notify, TypeOK
  <1>8. announced' \in Link /\ shared' \in BOOLEAN /\ disRaised' \in BOOLEAN
    BY DEF Update, TypeOK
  <1> QED BY <1>1, <1>2, <1>3, <1>4, <1>5, <1>6, <1>7, <1>8

\* Both polls run the update on a reading.
LEMMA PollReads ==
  ASSUME TypeOK
  PROVE  /\ \A p \in Prime : PollPrime(p) => seen' \in Reading /\ Update(seen')
         /\ \A b \in Base : PollBase(b) => seen' \in Reading /\ Update(seen')
  <1>1. seen \in Reading
    BY DEF TypeOK, Reading
  <1>2. ASSUME NEW p \in Prime, PollPrime(p) PROVE seen' \in Reading /\ Update(seen')
    BY <1>1, <1>2 DEF PollPrime, Prime, Reading
  <1>3. ASSUME NEW b \in Base, PollBase(b) PROVE seen' \in Reading /\ Update(seen')
    <2>1. b.power[1] \in Level /\ b.power[2] \in Level /\ b.out \in SUBSET Band
      BY StateMachineAssumption DEF Base
    <2> QED BY <1>1, <1>3, <2>1 DEF PollBase, Reading
  <1> QED BY <1>2, <1>3

\* The constants an empty session is made of.
LEMMA FreshShape ==
  /\ NoReading \in Reading
  /\ NoAts \in AtsView \cup {NoAts}
  /\ [c \in Code |-> 0] \in [Code -> 0 .. MaxPolls]
  /\ [b \in Band |-> 0] \in [Band -> 0 .. NumericPolls]
  /\ 0 \in 0 .. MaxPolls /\ 0 \in 0 .. DisagreePolls
  /\ "healthy" \in Link
  /\ [a \in Alarm |-> 0] \in [Alarm -> Int]
  /\ [q \in AckRequest |-> NoAlarm] \in [AckRequest -> Alarm \cup {NoAlarm}]
  BY StateMachineAssumption DEF NoReading, Reading, Level

LEMMA TypeInit == Init => TypeOK
  <1> SUFFICES ASSUME Init PROVE TypeOK
    OBVIOUS
  <1> QED BY FreshShape DEF Init, TypeOK, Reading, Source

LEMMA TypeStep == TypeOK /\ [Next]_vars => TypeOK'
  <1> SUFFICES ASSUME TypeOK, [Next]_vars PROVE TypeOK'
    OBVIOUS
  <1>1. ASSUME NEW p \in Prime, PollPrime(p) PROVE TypeOK'
    <2>1. seen' \in Reading /\ Update(seen')
      BY <1>1, PollReads
    <2>2. /\ regmap' \in Map /\ link' \in Link /\ ats' \in AtsView \cup {NoAts}
          /\ ack' \in [AckRequest -> Alarm \cup {NoAlarm}]
      BY <1>1 DEF PollPrime, TypeOK
    <2> QED BY <2>1, <2>2, UpdateType DEF TypeOK, Reading
  <1>2. ASSUME NEW b \in Base, PollBase(b) PROVE TypeOK'
    <2>1. seen' \in Reading /\ Update(seen')
      BY <1>2, PollReads
    <2>2. /\ regmap' \in Map /\ link' \in Link /\ ats' \in AtsView \cup {NoAts}
          /\ ack' \in [AckRequest -> Alarm \cup {NoAlarm}]
      BY <1>2 DEF PollBase, TypeOK
    <2> QED BY <2>1, <2>2, UpdateType DEF TypeOK, Reading
  <1>3. ASSUME NEW m \in Map, ApplyRegmap(m) PROVE TypeOK'
    BY <1>3, FreshShape DEF ApplyRegmap, TypeOK
  <1>4. ASSUME NEW m \in Map, Restart(m) PROVE TypeOK'
    BY <1>4, FreshShape DEF Restart, FreshSession, TypeOK, Reading, Source
  <1>5. ASSUME NEW q \in AckRequest, (\E a \in Alarm : AckBegin(q, a)) \/ AckFails(q) PROVE TypeOK'
    BY <1>5 DEF AckBegin, AckFails, session, history, TypeOK
  <1>9. ASSUME NEW q \in AckRequest, AckEnds(q) PROVE TypeOK'
    BY <1>9 DEF AckEnds, session, TypeOK
  <1>6. ASSUME NEW s \in Link, LinkMoves(s) PROVE TypeOK'
    BY <1>6 DEF LinkMoves, session, history, TypeOK
  <1>7. ASSUME NEW v \in AtsView, AtsMoves(v) PROVE TypeOK'
    BY <1>7 DEF AtsMoves, session, history, TypeOK
  <1>8. CASE UNCHANGED vars
    BY <1>8 DEF vars, session, history, TypeOK
  <1> QED BY <1>1, <1>2, <1>3, <1>4, <1>5, <1>6, <1>7, <1>8, <1>9 DEF Next

\* Every variable of the alarm pipeline keeps its type.
THEOREM TypeCorrect == Spec => []TypeOK
  BY TypeInit, TypeStep, PTL DEF Spec

-----------------------------------------------------------------------------
(* The alarm table and the feed.                                           *)

\* A debounce counter counts updates of the map in force: it cannot be ahead
\* of the updates since the last reload.
CountsBounded == \A c \in Code : counts[c] <= since

\* Clearing follows the session's memory, so that the table follows the bits
\* needs that every row is remembered; that the feed tells each alarm once
\* needs both sides of the table, and no counter that outlives a reload.

\* Alarms the session remembers, each in the part that raised it.
Owned == raised \cup numRaised \cup Only(disRaised, Disagree)
RowsOwned == rows \ orphans \subseteq Owned

PipelineInv == RowsOwned /\ FeedBalanced /\ RowsFollowBits /\ CountsBounded

\* After an update every row of this process is remembered by the part of the session that
\* raised it.
LEMMA UpdateOwns ==
  ASSUME TypeOK, RowsOwned, NEW r \in Reading, Update(r)
  PROVE  RowsOwned'
  <1> SUFFICES ASSUME NEW a \in rows' \ orphans' PROVE a \in Owned'
    BY DEF RowsOwned
  <1>1. a \notin AllClearing(r) /\ (a \in AllRaising(r) \/ a \in Owned)
    BY DEF Update, RowsOwned
  <1>2. CASE a \in Raising(r) \/ a \in raised
    BY <1>1, <1>2 DEF Update, Owned, AllClearing
  <1>3. CASE a \in NumericRaising(r) \/ a \in numRaised
    BY <1>1, <1>3 DEF Update, Owned, AllClearing
  <1>4. CASE a = Disagree /\ (DisagreeRaising(r) \/ disRaised)
    <2>1. ~DisagreeClearing(r)
      BY <1>1, <1>4 DEF AllClearing, Only
    <2>2. disRaised'
      BY <1>4, <2>1 DEF Update
    <2> QED BY <1>4, <2>2 DEF Owned, Only
  <1> QED BY <1>1, <1>2, <1>3, <1>4 DEF AllRaising, Owned, Only

\* An update announces exactly the rows it adds and removes.
LEMMA UpdateBalances ==
  ASSUME TypeOK, FeedBalanced, NEW r \in Reading, Update(r)
  PROVE  FeedBalanced'
  <1> SUFFICES ASSUME NEW a \in Alarm
               PROVE  balance'[a] = IF a \in rows' THEN 1 ELSE 0
    BY DEF FeedBalanced
  <1>1. ~(a \in AllRaising(r) /\ a \in AllClearing(r))
    BY RaiseOrClear
  <1>2. balance[a] = IF a \in rows THEN 1 ELSE 0
    BY DEF FeedBalanced
  <1>3. rows' = (rows \cup AllRaising(r)) \ AllClearing(r)
    BY DEF Update
  <1>4. balance'[a] = balance[a] + (IF a \in AllRaising(r) \ rows THEN 1 ELSE 0)
                                 - (IF a \in AllClearing(r) \cap rows THEN 1 ELSE 0)
    BY DEF Update, Notify
  <1> QED BY <1>1, <1>2, <1>3, <1>4

\* After an update on the current reading, the bit alarms of the table are
\* among the bits that read high.
LEMMA UpdateFollows ==
  ASSUME TypeOK, RowsOwned, NEW r \in Reading, Update(r), regmap' = regmap, seen' = r
  PROVE  RowsFollowBits'
  <1>1. RawActive(seen)' = RawActive(r)
    BY DEF RawActive
  <1>2. SUFFICES ASSUME NEW a \in (rows' \cap Code) \ orphans' PROVE a \in RawActive(r)
    BY <1>1 DEF RowsFollowBits
  <1>3. a \notin AllClearing(r) /\ (a \in AllRaising(r) \/ a \in Owned)
    BY DEF Update, RowsOwned
  <1>4. a \notin Band /\ a # Disagree
    BY StateMachineAssumption
  <1>5. a \in Raising(r) \/ a \in raised
    BY <1>3, <1>4, DerivedShape DEF AllRaising, Owned, Only, TypeOK
  <1> QED BY <1>3, <1>5, DerivedShape DEF AllClearing, Clearing

\* An update counts each bit at most once.
LEMMA UpdateCounts ==
  ASSUME TypeOK, CountsBounded, NEW r \in Reading, Update(r)
  PROVE  CountsBounded'
  <1> SUFFICES ASSUME NEW c \in Code PROVE counts'[c] <= since'
    BY DEF CountsBounded
  <1>1. counts[c] \in Nat /\ since \in Nat /\ counts[c] <= since /\ MaxPolls \in Nat
    BY StateMachineAssumption DEF TypeOK, CountsBounded
  <1>2. counts'[c] = IF c \in RawActive(r) THEN Up(counts[c], MaxPolls) ELSE 0
    BY DEF Update, NewCounts
  <1>3. since' = Up(since, MaxPolls) /\ since' \in Nat
    BY <1>1 DEF Update, Up
  <1> QED BY <1>1, <1>2, <1>3, UpMonotone

\* Every poll preserves the invariant.
LEMMA UpdateStep ==
  ASSUME TypeOK, PipelineInv, seen' \in Reading, Update(seen'), regmap' = regmap
  PROVE  PipelineInv'
  <1>1. RowsOwned'
    BY UpdateOwns DEF PipelineInv
  <1>2. FeedBalanced'
    BY UpdateBalances DEF PipelineInv
  <1>3. RowsFollowBits'
    BY UpdateFollows DEF PipelineInv
  <1>4. CountsBounded'
    BY UpdateCounts DEF PipelineInv
  <1> QED BY <1>1, <1>2, <1>3, <1>4 DEF PipelineInv

LEMMA PipelineInit == Init => PipelineInv
  BY StateMachineAssumption
  DEF Init, PipelineInv, RowsOwned, FeedBalanced, RowsFollowBits, CountsBounded

LEMMA PipelineStep == TypeOK /\ PipelineInv /\ [Next]_vars => PipelineInv'
  <1> SUFFICES ASSUME TypeOK, PipelineInv, [Next]_vars PROVE PipelineInv'
    OBVIOUS
  <1>1. ASSUME NEW p \in Prime, PollPrime(p) PROVE PipelineInv'
    BY <1>1, PollReads, UpdateStep DEF PollPrime
  <1>2. ASSUME NEW b \in Base, PollBase(b) PROVE PipelineInv'
    BY <1>2, PollReads, UpdateStep DEF PollBase
  <1>3. ASSUME NEW m \in Map, ApplyRegmap(m) PROVE PipelineInv'
    <2>1. RowsOwned'
      BY <1>3 DEF ApplyRegmap, PipelineInv, RowsOwned, Owned
    <2>2. FeedBalanced'
      BY <1>3 DEF ApplyRegmap, PipelineInv, FeedBalanced
    <2>3. RowsFollowBits'
      BY <1>3 DEF ApplyRegmap, RowsFollowBits
    <2>4. CountsBounded'
      BY <1>3 DEF ApplyRegmap, CountsBounded
    <2> QED BY <2>1, <2>2, <2>3, <2>4 DEF PipelineInv
  <1>4. ASSUME NEW m \in Map, Restart(m) PROVE PipelineInv'
    <2>1. RowsOwned'
      BY <1>4 DEF Restart, RowsOwned
    <2>2. FeedBalanced'
      BY <1>4 DEF Restart, PipelineInv, FeedBalanced
    <2>3. RowsFollowBits'
      BY <1>4 DEF Restart, RowsFollowBits
    <2>4. CountsBounded'
      BY <1>4 DEF Restart, FreshSession, CountsBounded
    <2> QED BY <2>1, <2>2, <2>3, <2>4 DEF PipelineInv
  <1>5. ASSUME NEW q \in AckRequest, AckEnds(q) PROVE PipelineInv'
    <2>1. RowsOwned'
      BY <1>5 DEF AckEnds, session, PipelineInv, RowsOwned, Owned
    <2>2. FeedBalanced'
      BY <1>5 DEF AckEnds, TypeOK, PipelineInv, FeedBalanced
    <2>3. RowsFollowBits'
      BY <1>5 DEF AckEnds, PipelineInv, RowsFollowBits, RawActive
    <2>4. CountsBounded'
      BY <1>5 DEF AckEnds, session, PipelineInv, CountsBounded
    <2> QED BY <2>1, <2>2, <2>3, <2>4 DEF PipelineInv
  <1>6. CASE \/ \E s \in Link : LinkMoves(s)
             \/ \E v \in AtsView : AtsMoves(v)
             \/ \E q \in AckRequest : (\E a \in Alarm : AckBegin(q, a)) \/ AckFails(q)
             \/ UNCHANGED vars
    BY <1>6 DEF LinkMoves, AtsMoves, AckBegin, AckFails, vars, session, history, PipelineInv, RowsOwned, Owned,
                FeedBalanced, RowsFollowBits, RawActive, CountsBounded
  <1> QED BY <1>1, <1>2, <1>3, <1>4, <1>5, <1>6 DEF Next

\* The invariant holds in every reachable state.
LEMMA PipelineHolds == Spec => []PipelineInv
  BY TypeCorrect, PipelineInit, PipelineStep, PTL DEF Spec

\* What an update leaves in the table has a reason to be there.
LEMMA UpdateLeaks ==
  ASSUME TypeOK, RowsOwned, NEW r \in Reading, Update(r),
         NEW a \in rows', a \notin orphans', a \notin Stranded
  PROVE  a \in Warranted(r)
  <1>1. a \notin AllClearing(r) /\ (a \in AllRaising(r) \/ a \in Owned)
    BY DEF Update, RowsOwned
  <1>2. CASE a \in Raising(r) \/ a \in raised
    BY <1>1, <1>2, DerivedShape DEF AllClearing, Clearing, Warranted
  <1>3. CASE a \in NumericRaising(r) \/ a \in numRaised
    <2>1. CASE a \in NumericRaising(r)
      BY <2>1 DEF NumericRaising, Warranted
    <2>2. CASE a \in numRaised
      <3>1. Rules[regmap].numeric /\ a \notin NumericClearing(r)
        BY <1>1, <2>2 DEF Stranded, AllClearing
      <3> QED BY <2>2, <3>1 DEF NumericClearing, Warranted
    <2> QED BY <1>3, <2>1, <2>2
  <1>4. CASE a = Disagree /\ (DisagreeRaising(r) \/ disRaised)
    <2>1. ~DisagreeClearing(r)
      BY <1>1, <1>4 DEF AllClearing, Only
    <2>2. Evaluable(r) /\ (Comparable(r) => Disagrees(r))
      BY <1>4, <2>1 DEF DisagreeRaising, DisagreeClearing
    <2> QED BY <1>4, <2>2 DEF Warranted, Only
  <1> QED BY <1>1, <1>2, <1>3, <1>4 DEF AllRaising, Owned, Only

\* What a step leaves in the cumulative reading is one the rules can read.
LEMMA UpdateSees ==
  ASSUME TypeOK, [Next]_vars PROVE seen' \in Reading
  <1>1. TypeOK'
    BY TypeStep
  <1> QED BY <1>1 DEF TypeOK, Reading

\* No alarm row leaks: after every update the rows of this process are alarms
\* whose condition the reading still meets, through reloads, suppression,
\* acknowledgements and lost authority, but for the range alarms a reload
\* stranded.
THEOREM RowsAreWarranted == Spec => NothingLeaks
  <1>1. ASSUME TypeOK, PipelineInv, [Next]_vars
        PROVE  rows' \subseteq Warranted(seen') \cup orphans' \cup Stranded \/ ~Update(seen')
    BY <1>1, UpdateSees, UpdateLeaks DEF PipelineInv
  <1>2. TypeOK /\ PipelineInv /\ [Next]_vars =>
          [rows' \subseteq Warranted(seen') \cup orphans' \cup Stranded \/ ~Update(seen')]_vars
    BY <1>1
  <1> QED BY <1>2, TypeCorrect, PipelineHolds, PTL DEF Spec, NothingLeaks

\* The feed tells each alarm once, over any number of restarts and however
\* many acknowledgements of one code overtake polls and each other.
THEOREM FeedIsBalanced == Spec => []FeedBalanced
  BY PipelineHolds, PTL DEF PipelineInv

\* A bit alarm is in the table only while its bit reads high under the rules
\* in force.
THEOREM RowsFollow == Spec => []RowsFollowBits
  BY PipelineHolds, PTL DEF PipelineInv

-----------------------------------------------------------------------------
(* The debounce.                                                           *)

\* A code that an update newly displays was counted often enough.
LEMMA UpdateDebounces ==
  ASSUME TypeOK, CountsBounded, NEW r \in Reading, Update(r),
         NEW c \in (displayed' \ displayed) \cap Code
  PROVE  since' >= Rules[regmap].min[c]
  <1>1. c \notin Band /\ c # Disagree
    BY StateMachineAssumption
  <1>2. c \notin numRaised'
    BY <1>1, UpdateType
  <1>3. c \in Effective(r)
    BY <1>1, <1>2 DEF Update, Only
  <1>4. counts'[c] >= Rules[regmap].min[c]
    BY <1>3 DEF Update, Effective
  <1>5. counts'[c] <= since'
    BY UpdateCounts DEF CountsBounded
  <1>6. counts'[c] \in Nat /\ since' \in Nat /\ Rules[regmap].min[c] \in Nat
    BY UpdateType, RuleShape DEF TypeOK
  <1> QED BY <1>4, <1>5, <1>6

LEMMA DebounceStep ==
  TypeOK /\ PipelineInv /\ [Next]_vars =>
    [\A c \in (displayed' \ displayed) \cap Code : since' >= Rules[regmap].min[c]]_vars
  <1> SUFFICES ASSUME TypeOK, PipelineInv, Next,
                      NEW c \in (displayed' \ displayed) \cap Code
               PROVE  since' >= Rules[regmap].min[c]
    OBVIOUS
  <1>1. ASSUME NEW p \in Prime, PollPrime(p) PROVE since' >= Rules[regmap].min[c]
    BY <1>1, PollReads, UpdateDebounces DEF PipelineInv
  <1>2. ASSUME NEW b \in Base, PollBase(b) PROVE since' >= Rules[regmap].min[c]
    BY <1>2, PollReads, UpdateDebounces DEF PipelineInv
  <1>3. CASE \/ \E m \in Map : ApplyRegmap(m) \/ Restart(m)
             \/ \E q \in AckRequest :
                  (\E a \in Alarm : AckBegin(q, a)) \/ AckFails(q) \/ AckEnds(q)
             \/ \E s \in Link : LinkMoves(s)
             \/ \E v \in AtsView : AtsMoves(v)
    BY <1>3 DEF ApplyRegmap, Restart, FreshSession, AckBegin, AckFails, AckEnds, LinkMoves, AtsMoves, session, history
  <1> QED BY <1>1, <1>2, <1>3 DEF Next

\* A reload restarts the debounce: no alarm bit is displayed sooner than
\* min_poll_count updates after the rule came in force.
THEOREM RaisesAreDebounced == Spec => NoInstantRaise
  BY TypeCorrect, PipelineHolds, DebounceStep, PTL DEF Spec, NoInstantRaise

-----------------------------------------------------------------------------
(***************************************************************************)
(* The live feed.  The property is inductive together with the types and    *)
(* with this: only a handler that runs is subscribed.                       *)
(***************************************************************************)

LiveInv == FeedTypeOK /\ subs \subseteq ws /\ FeedContiguous

LEMMA ModRange ==
  ASSUME NEW n \in Nat \ {0}, NEW x \in Int PROVE x % n \in 0..(n - 1)
  OBVIOUS

LEMMA ModPlain ==
  ASSUME NEW n \in Nat \ {0}, NEW x \in 0..(n - 1) PROVE x % n = x
  OBVIOUS

\* A number reached in two laps may be reduced in between.
LEMMA ModSum ==
  ASSUME NEW n \in Nat \ {0}, NEW x \in 0..(n - 1), NEW l \in 0..(n - 1), NEW k \in 0..(n - 1)
  PROVE  (((x + l) % n) + k) % n = ((x + l) + k) % n
  OBVIOUS

LEMMA LiveSizes ==
  /\ Cap \in Nat \ {0} /\ StaleAfter \in Nat \ {0} /\ Revalidate \in Nat \ {0}
  /\ Numbers \in Nat \ {0} /\ Numbers = Cap + 3
  BY FeedAssumption DEF Numbers

Kind == {"snapshot", "raised", "cleared", "other"}
Batch == {m \in Seq(Kind) : Len(m) <= 2}

\* What publishing a list of messages does to a socket.
LEMMA PublishLive ==
  ASSUME LiveInv, NEW msgs \in Batch, Publish(msgs)
  PROVE  /\ num' \in 0..(Numbers - 1) /\ queue' \in [Browser -> Seq(Message)]
         /\ subs' \subseteq subs
         /\ \A b \in ws :
              /\ Len(queue'[b]) <= Cap
              /\ \A i \in DOMAIN queue'[b] : queue'[b][i].n = (got[b] + i) % Numbers
              /\ b \in subs' => (got[b] + Len(queue'[b])) % Numbers = num'
  <1> DEFINE N == Numbers
             add(b) == [i \in 1..Taken(b, msgs) |-> [n |-> (num + i) % N, kind |-> msgs[i]]]
  <1>1. /\ N \in Nat \ {0} /\ N = Cap + 3 /\ Cap \in Nat \ {0}
        /\ num \in 0..(N - 1) /\ queue \in [Browser -> Seq(Message)] /\ subs \subseteq Browser
        /\ ws \subseteq Browser /\ got \in [Browser -> 0..(N - 1)] /\ subs \subseteq ws
    BY LiveSizes DEF LiveInv, FeedTypeOK
  <1>2. msgs \in Seq(Kind) /\ Len(msgs) \in 0..2 /\ \A i \in 1..Len(msgs) : msgs[i] \in Kind
    <2>1. msgs \in Seq(Kind) /\ Len(msgs) <= 2
      BY DEF Batch
    <2>2. Len(msgs) \in Nat /\ \A i \in 1..Len(msgs) : msgs[i] \in Kind
      BY <2>1
    <2>3. PICK k \in Nat : k = Len(msgs) /\ k <= 2
      BY <2>1, <2>2
    <2>4. k \in 0..2
      BY <2>3
    <2> QED BY <2>1, <2>2, <2>3, <2>4
  <1>3. /\ queue' = [b \in Browser |-> IF b \in subs THEN queue[b] \o add(b) ELSE queue[b]]
        /\ subs' = {b \in subs : Len(msgs) <= Room(b)}
        /\ num' = (num + Len(msgs)) % N
    BY DEF Publish
  <1>4. ASSUME NEW b \in ws
        PROVE  /\ Len(queue[b]) \in Nat /\ Len(queue[b]) <= Cap
               /\ \A i \in 1..Len(queue[b]) : queue[b][i].n = (got[b] + i) % N
               /\ b \in subs => (got[b] + Len(queue[b])) % N = num
    <2>1. b \in Browser /\ queue[b] \in Seq(Message)
      BY <1>1
    <2>2. DOMAIN queue[b] = 1..Len(queue[b]) /\ Len(queue[b]) \in Nat
      BY <2>1
    <2> QED BY <2>2 DEF LiveInv, FeedContiguous
  <1>5. ASSUME NEW b \in ws
        PROVE  /\ Room(b) = Cap - Len(queue[b])
               /\ Taken(b, msgs) \in 0..Len(msgs) /\ Taken(b, msgs) <= Room(b)
               /\ Len(msgs) <= Room(b) => Taken(b, msgs) = Len(msgs)
    <2>1. Room(b) = Cap - Len(queue[b]) /\ Room(b) \in Nat
      BY <1>1, <1>4 DEF Room
    <2>2. Taken(b, msgs) = IF Len(msgs) <= Room(b) THEN Len(msgs) ELSE Room(b)
      BY DEF Taken
    <2> QED BY <1>2, <2>1, <2>2
  <1>6. ASSUME NEW b \in ws
        PROVE  /\ add(b) \in Seq(Message) /\ Len(add(b)) = Taken(b, msgs)
               /\ \A i \in 1..Len(add(b)) : add(b)[i].n = (num + i) % N
    <2>1. PICK t \in Nat : t = Taken(b, msgs) /\ t <= Len(msgs)
      BY <1>2, <1>5
    <2>2. ASSUME NEW i \in 1..t PROVE [n |-> (num + i) % N, kind |-> msgs[i]] \in Message
      <3>0. num + i \in Int
        BY <1>1
      <3>1. (num + i) % N \in 0..(N - 1)
        BY <1>1, <3>0, ModRange
      <3>2. msgs[i] \in Kind
        BY <1>2, <2>1
      <3> QED BY <3>1, <3>2 DEF Message, Kind
    <2> DEFINE msg(i) == [n |-> (num + i) % N, kind |-> msgs[i]]
    <2>3. add(b) = [i \in 1..t |-> msg(i)]
      BY <2>1
    <2>4. \A i \in 1..t : msg(i) \in Message /\ msg(i).n = (num + i) % N
      BY <2>2
    <2> HIDE DEF add, msg, N
    <2>5. add(b) \in Seq(Message) /\ Len(add(b)) = t
      BY <2>3, <2>4
    <2> QED BY <2>1, <2>3, <2>4, <2>5
  <1> HIDE DEF N, add
  <1>7. num' \in 0..(N - 1)
    BY <1>1, <1>2, <1>3, ModRange
  <1>8. queue' \in [Browser -> Seq(Message)]
    <2>1. ASSUME NEW b \in Browser PROVE queue'[b] \in Seq(Message)
      <3>1. queue[b] \in Seq(Message)
        BY <1>1
      <3>2. CASE b \in subs
        <4>1. queue'[b] = queue[b] \o add(b) /\ add(b) \in Seq(Message)
          BY <1>1, <1>3, <1>6, <3>2
        <4> QED BY <3>1, <4>1
      <3>3. CASE b \notin subs  BY <1>3, <3>1, <3>3
      <3> QED BY <3>2, <3>3
    <2> QED BY <1>3, <2>1
  <1>9. ASSUME NEW b \in ws
        PROVE  /\ Len(queue'[b]) <= Cap
               /\ \A i \in DOMAIN queue'[b] : queue'[b][i].n = (got[b] + i) % N
               /\ b \in subs' => (got[b] + Len(queue'[b])) % N = num'
    <2>0. b \in Browser /\ queue[b] \in Seq(Message) /\ got[b] \in 0..(N - 1)
      BY <1>1
    <2>1. CASE b \notin subs
      <3>1. queue'[b] = queue[b] /\ b \notin subs'
        BY <1>3, <2>0, <2>1
      <3>2. DOMAIN queue[b] = 1..Len(queue[b])
        BY <2>0
      <3> QED BY <1>4, <3>1, <3>2
    <2>2. CASE b \in subs
      <3>1. PICK l \in Nat : l = Len(queue[b])
        BY <1>4
      <3>2. PICK t \in Nat : t = Taken(b, msgs) /\ t <= 2 /\ l + t <= Cap
        <4>1. /\ Taken(b, msgs) \in 0..Len(msgs) /\ Taken(b, msgs) <= Room(b)
              /\ Room(b) = Cap - l
          BY <1>5, <3>1
        <4>2. Len(msgs) \in 0..2 /\ Cap \in Nat
          BY <1>1, <1>2
        <4>3. PICK m \in 0..2 : m = Len(msgs)
          BY <4>2
        <4>4. PICK t \in 0..m : t = Taken(b, msgs)
          BY <4>1, <4>3
        <4>5. t <= Cap - l
          BY <4>1, <4>4
        <4> QED BY <4>2, <4>4, <4>5
      <3>3. queue'[b] = queue[b] \o add(b) /\ add(b) \in Seq(Message) /\ Len(add(b)) = t
        BY <1>3, <1>6, <2>0, <2>2, <3>2
      <3>4. /\ DOMAIN queue'[b] = 1..(l + t) /\ Len(queue'[b]) = l + t
            /\ \A i \in 1..l : queue'[b][i] = queue[b][i]
            /\ \A k \in 1..t : queue'[b][l + k] = add(b)[k]
        <4> DEFINE q == queue[b]
                   z == add(b)
        <4>1. q \in Seq(Message) /\ z \in Seq(Message) /\ Len(q) = l /\ Len(z) = t
          BY <2>0, <3>1, <3>3
        <4> HIDE DEF q, z
        <4>2. /\ DOMAIN (q \o z) = 1..(l + t) /\ Len(q \o z) = l + t
              /\ \A i \in 1..l : (q \o z)[i] = q[i]
              /\ \A k \in 1..t : (q \o z)[l + k] = z[k]
          BY <4>1
        <4> QED BY <3>3, <4>2 DEF q, z
      <3>5. num = (got[b] + l) % N
        BY <1>4, <2>2, <3>1
      <3>6. ASSUME NEW i \in 1..(l + t) PROVE queue'[b][i].n = (got[b] + i) % N
        <4>1. CASE i <= l
          <5>1. i \in 1..l
            BY <4>1
          <5> QED BY <1>4, <3>1, <3>4, <5>1
        <4>2. CASE i > l
          <5>1. PICK k \in 1..t : i = l + k /\ i - l = k
            <6>1. i - l \in 1..t /\ i = l + (i - l)
              BY <4>2
            <6> QED BY <6>1
          <5>2. queue'[b][i] = add(b)[k]
            BY <3>4, <5>1
          <5>3. queue'[b][i].n = (num + k) % N
            BY <1>6, <3>3, <5>2
          <5>4. l \in 0..(N - 1) /\ k \in 0..(N - 1)
            BY <1>1, <3>2
          <5>5. (((got[b] + l) % N) + k) % N = ((got[b] + l) + k) % N
            BY <1>1, <2>0, <5>4, ModSum
          <5>6. (got[b] + l) + k = got[b] + i
            BY <2>0, <5>1
          <5> QED BY <3>5, <5>3, <5>5, <5>6
        <4> QED BY <4>1, <4>2
      <3>7. b \in subs' => (got[b] + Len(queue'[b])) % N = num'
        <4> SUFFICES ASSUME b \in subs' PROVE (got[b] + (l + t)) % N = num'
          BY <3>4
        <4>1. t = Len(msgs)
          BY <1>3, <1>5, <3>2
        <4>2. l \in 0..(N - 1) /\ t \in 0..(N - 1)
          BY <1>1, <3>2
        <4>3. (((got[b] + l) % N) + t) % N = ((got[b] + l) + t) % N
          BY <1>1, <2>0, <4>2, ModSum
        <4>4. (got[b] + l) + t = got[b] + (l + t)
          BY <2>0
        <4> QED BY <1>3, <3>5, <4>1, <4>3, <4>4
      <3> QED BY <3>2, <3>4, <3>6, <3>7
    <2> QED BY <2>1, <2>2
  <1>10. subs' \subseteq subs
    BY <1>3
  <1> QED BY <1>7, <1>8, <1>9, <1>10 DEF N

\* The lists the poll callbacks publish.
LEMMA ListsPublished ==
  <<>> \in Batch /\ <<"other">> \in Batch /\ <<"raised">> \in Batch /\ <<"cleared">> \in Batch
  BY DEF Batch, Kind

\* A snapshot, or none, before the event of an update, or none.
LEMMA ListsJoined ==
  ASSUME NEW x \in {<<>>, <<"snapshot">>}, NEW y \in {<<>>, <<"raised">>, <<"cleared">>}
  PROVE  x \o y \in Batch
  <1>1. x \in Seq(Kind) /\ Len(x) <= 1 /\ Len(x) \in Nat
    <2>1. CASE x = <<>>  BY <2>1
    <2>2. CASE x = <<"snapshot">>  BY <2>2 DEF Kind
    <2> QED BY <2>1, <2>2
  <1>2. y \in Seq(Kind) /\ Len(y) <= 1 /\ Len(y) \in Nat
    <2>1. CASE y = <<>>  BY <2>1
    <2>2. CASE y = <<"raised">>  BY <2>2 DEF Kind
    <2>3. CASE y = <<"cleared">>  BY <2>3 DEF Kind
    <2> QED BY <2>1, <2>2, <2>3
  <1>3. x \o y \in Seq(Kind) /\ Len(x \o y) = Len(x) + Len(y)
    BY <1>1, <1>2
  <1>4. PICK k, l \in Nat : k = Len(x) /\ l = Len(y) /\ k <= 1 /\ l <= 1
    BY <1>1, <1>2
  <1>5. Len(x \o y) <= 2
    BY <1>3, <1>4
  <1> QED BY <1>3, <1>5 DEF Batch

LEMMA ChangeLists ==
  ASSUME NEW a \in BOOLEAN
  PROVE  Change(a) \in {<<>>, <<"raised">>, <<"cleared">>}
  BY DEF Change

\* A callback that publishes and leaves the sockets alone.
LEMMA PublisherLive ==
  ASSUME LiveInv, NEW msgs \in Batch, Publish(msgs),
         UNCHANGED <<ws, valid, check, page, alarm, age, got>>,
         active' \in BOOLEAN, base' \in {NoPoll, <<>>, <<"raised">>, <<"cleared">>}
  PROVE  LiveInv'
  <1>1. /\ num' \in 0..(Numbers - 1) /\ queue' \in [Browser -> Seq(Message)]
        /\ subs' \subseteq subs
        /\ \A b \in ws :
             /\ Len(queue'[b]) <= Cap
             /\ \A i \in DOMAIN queue'[b] : queue'[b][i].n = (got[b] + i) % Numbers
             /\ b \in subs' => (got[b] + Len(queue'[b])) % Numbers = num'
    BY PublishLive
  <1>2. FeedTypeOK'
    <2>1. FeedTypeOK
      BY DEF LiveInv
    <2>2. Numbers' = Numbers /\ NoPoll' = NoPoll /\ Message' = Message
      BY DEF Numbers, NoPoll, Message
    <2> QED BY <1>1, <2>1, <2>2 DEF FeedTypeOK
  <1>3. FeedContiguous'
    BY <1>1 DEF FeedContiguous, Numbers
  <1> QED BY <1>1, <1>2, <1>3 DEF LiveInv

LEMMA PollsLive ==
  ASSUME LiveInv,
         (\E a, push \in BOOLEAN : OnPollPrime(a, push)) \/ PublishBase \/ OnPollAts
  PROVE  LiveInv'
  <1>0. active \in BOOLEAN /\ base \in {NoPoll, <<>>, <<"raised">>, <<"cleared">>}
    BY DEF LiveInv, FeedTypeOK
  <1>1. ASSUME NEW a \in BOOLEAN, NEW push \in BOOLEAN, OnPollPrime(a, push) PROVE LiveInv'
    <2> DEFINE msgs == (IF push THEN <<"snapshot">> ELSE <<>>) \o Change(a)
    <2>1. msgs \in Batch
      <3>1. Change(a) \in {<<>>, <<"raised">>, <<"cleared">>}
        BY ChangeLists
      <3> QED BY <3>1, ListsJoined
    <2>2. /\ Publish(msgs) /\ active' = a /\ base' = base
          /\ UNCHANGED <<ws, valid, check, page, alarm, age, got>>
      BY <1>1 DEF OnPollPrime, socket, view
    <2> HIDE DEF msgs
    <2> QED BY <1>0, <2>1, <2>2, PublisherLive
  <1>2. CASE PublishBase
    <2>1. base \in Batch
      BY <1>0, <1>2, ListsPublished DEF PublishBase
    <2>2. /\ Publish(base) /\ active' = active /\ base' = NoPoll
          /\ UNCHANGED <<ws, valid, check, page, alarm, age, got>>
      BY <1>2 DEF PublishBase, socket, view
    <2> QED BY <1>0, <2>1, <2>2, PublisherLive
  <1>3. CASE OnPollAts
    <2>1. /\ Publish(<<"other">>) /\ active' = active /\ base' = base
          /\ UNCHANGED <<ws, valid, check, page, alarm, age, got>>
      BY <1>3 DEF OnPollAts, socket, view
    <2> QED BY <1>0, <2>1, ListsPublished, PublisherLive
  <1> QED BY <1>1, <1>2, <1>3

\* Steps that leave the bus and the handlers alone.
LEMMA OutsideLive ==
  ASSUME LiveInv, UNCHANGED <<num, queue, got, ws, subs>>, FeedTypeOK'
  PROVE  LiveInv'
  BY DEF LiveInv, FeedContiguous, Numbers

LEMMA QuietLive ==
  ASSUME LiveInv,
         \/ \E a \in BOOLEAN : OnPollBase(a)
         \/ Tick
         \/ \E b \in Browser : SeedRead(b) \/ SeedArrives(b) \/ Expire(b)
         \/ UNCHANGED feedVars
  PROVE  LiveInv'
  <1>0. FeedTypeOK /\ Message' = Message /\ Numbers' = Numbers
        /\ NoPoll' = NoPoll
    BY DEF LiveInv, Message, Numbers, NoPoll
  <1>1. ASSUME NEW a \in BOOLEAN, OnPollBase(a) PROVE LiveInv'
    <2>1. /\ active' = a /\ base' = Change(a)
          /\ UNCHANGED <<num, subs, queue, ws, valid, check, page, alarm, age, got>>
      BY <1>1 DEF OnPollBase, bus, socket, view
    <2>2. FeedTypeOK'
      BY <1>0, <2>1, ChangeLists DEF FeedTypeOK
    <2> QED BY <2>1, <2>2, OutsideLive
  <1>2. CASE Tick
    <2>1. /\ UNCHANGED <<active, base, num, subs, queue, ws, valid, page, alarm, got>>
          /\ age' = [b \in Browser |-> IF age[b] <= StaleAfter THEN age[b] + 1 ELSE age[b]]
          /\ check' = [b \in Browser |-> IF check[b] < Revalidate THEN check[b] + 1 ELSE check[b]]
      BY <1>2 DEF Tick, bus
    <2>2. age' \in [Browser -> 0..(StaleAfter + 1)]
      BY <1>0, <2>1, LiveSizes DEF FeedTypeOK
    <2>3. check' \in [Browser -> 0..Revalidate]
      BY <1>0, <2>1, LiveSizes DEF FeedTypeOK
    <2>4. FeedTypeOK'
      BY <1>0, <2>1, <2>2, <2>3 DEF FeedTypeOK
    <2> QED BY <2>1, <2>4, OutsideLive
  <1>3. ASSUME NEW b \in Browser, SeedRead(b) \/ SeedArrives(b) \/ Expire(b)
        PROVE  LiveInv'
    <2>1. UNCHANGED <<active, base, num, subs, queue, ws, check, got>>
      BY <1>3 DEF SeedRead, SeedArrives, Expire, bus, socket
    <2>2. /\ valid' \subseteq valid /\ page' \in [Browser -> {"blank", "seeding", "seeded"}]
          /\ alarm' \in [Browser -> BOOLEAN] /\ age' \in [Browser -> 0..(StaleAfter + 1)]
      <3>1. CASE SeedRead(b)
        BY <1>0, <3>1 DEF FeedTypeOK, SeedRead, socket
      <3>2. CASE SeedArrives(b)
        BY <1>0, <3>2, LiveSizes DEF FeedTypeOK, SeedArrives, socket
      <3>3. CASE Expire(b)
        BY <1>0, <3>3 DEF FeedTypeOK, Expire, view
      <3> QED BY <1>3, <3>1, <3>2, <3>3
    <2>3. FeedTypeOK'
      BY <1>0, <2>1, <2>2 DEF FeedTypeOK
    <2> QED BY <2>1, <2>3, OutsideLive
  <1>4. CASE UNCHANGED feedVars
    <2>1. UNCHANGED <<active, base, num, subs, queue, ws, valid, check, page, alarm, age, got>>
      BY <1>4 DEF feedVars
    <2>2. FeedTypeOK'
      BY <1>0, <2>1 DEF FeedTypeOK
    <2> QED BY <2>1, <2>2, OutsideLive
  <1> QED BY <1>1, <1>2, <1>3, <1>4

\* A new subscriber begins behind the last publication.
LEMMA ConnectLive ==
  ASSUME LiveInv, NEW b \in Browser, Connect(b)
  PROVE  LiveInv'
  <1>1. /\ ws' = ws \cup {b} /\ subs' = subs \cup {b}
        /\ queue' = [queue EXCEPT ![b] = <<>>] /\ got' = [got EXCEPT ![b] = num]
        /\ check' = [check EXCEPT ![b] = 0]
        /\ UNCHANGED <<active, base, num, valid, page, alarm, age>>
    BY DEF Connect, view
  <1>2. /\ FeedTypeOK /\ subs \subseteq ws /\ FeedContiguous
        /\ num \in 0..(Numbers - 1) /\ queue \in [Browser -> Seq(Message)]
        /\ got \in [Browser -> 0..(Numbers - 1)] /\ ws \subseteq Browser
    BY DEF LiveInv, FeedTypeOK
  <1>3. FeedTypeOK'
    <2>1. queue' \in [Browser -> Seq(Message)] /\ got' \in [Browser -> 0..(Numbers - 1)]
      BY <1>1, <1>2
    <2>2. check' \in [Browser -> 0..Revalidate]
      BY <1>1, <1>2, LiveSizes DEF FeedTypeOK
    <2>3. Message' = Message /\ Numbers' = Numbers /\ NoPoll' = NoPoll
      BY DEF Message, Numbers, NoPoll
    <2> QED BY <1>1, <1>2, <2>1, <2>2, <2>3 DEF FeedTypeOK
  <1>4. ASSUME NEW c \in ws'
        PROVE  /\ Len(queue'[c]) <= Cap
               /\ \A i \in DOMAIN queue'[c] : queue'[c][i].n = (got'[c] + i) % Numbers
               /\ c \in subs' => (got'[c] + Len(queue'[c])) % Numbers = num
    <2>1. CASE c = b
      <3>1. queue'[c] = <<>> /\ got'[c] = num
        BY <1>1, <1>2, <2>1
      <3>2. (num + 0) % Numbers = num
        <4>1. num % Numbers = num
          BY <1>2, LiveSizes, ModPlain
        <4>2. num + 0 = num
          BY <1>2, LiveSizes
        <4> QED BY <4>1, <4>2
      <3> QED BY <3>1, <3>2, LiveSizes
    <2>2. CASE c # b
      <3>1. c \in ws /\ queue'[c] = queue[c] /\ got'[c] = got[c] /\ (c \in subs' => c \in subs)
        BY <1>1, <1>2, <2>2
      <3> QED BY <1>2, <3>1 DEF FeedContiguous
    <2> QED BY <2>1, <2>2
  <1>5. FeedContiguous'
    BY <1>1, <1>4 DEF FeedContiguous, Numbers
  <1> QED BY <1>1, <1>2, <1>3, <1>5 DEF LiveInv

\* The end of a turn leaves the handler as it is, or ends it together with its
\* subscription.
LEMMA RevalidatedLive ==
  ASSUME LiveInv, NEW b \in Browser, Revalidated(b)
  PROVE  /\ ws' \subseteq ws /\ subs' \subseteq subs /\ subs' \subseteq ws'
         /\ check' \in [Browser -> 0..Revalidate]
  <1>1. subs \subseteq ws /\ check \in [Browser -> 0..Revalidate] /\ 0 \in 0..Revalidate
    BY LiveSizes DEF LiveInv, FeedTypeOK
  <1>2. CASE check[b] < Revalidate
    BY <1>1, <1>2 DEF Revalidated
  <1>3. CASE ~(check[b] < Revalidate) /\ b \in valid
    BY <1>1, <1>3 DEF Revalidated
  <1>4. CASE ~(check[b] < Revalidate) /\ b \notin valid
    BY <1>1, <1>4 DEF Revalidated, Closed
  <1> QED BY <1>2, <1>3, <1>4

LEMMA ApplyLive ==
  ASSUME LiveInv, NEW b \in Browser, NEW kind, Apply(b, kind)
  PROVE  alarm' \in [Browser -> BOOLEAN] /\ age' \in [Browser -> 0..(StaleAfter + 1)]
  <1>1. alarm \in [Browser -> BOOLEAN] /\ age \in [Browser -> 0..(StaleAfter + 1)]
    BY DEF LiveInv, FeedTypeOK
  <1>2. alarm' \in [Browser -> BOOLEAN]
    BY <1>1 DEF Apply
  <1>3. 0 \in 0..(StaleAfter + 1)
    BY LiveSizes
  <1>4. age' \in [Browser -> 0..(StaleAfter + 1)]
    BY <1>1, <1>3 DEF Apply
  <1> QED BY <1>2, <1>4

\* A handler that sends nothing, or ends.
LEMMA IdleLive ==
  ASSUME LiveInv, NEW b \in Browser, WsPing(b) \/ Disconnect(b)
  PROVE  LiveInv'
  <1>1. /\ ws' \subseteq ws /\ subs' \subseteq subs /\ subs' \subseteq ws'
        /\ check' \in [Browser -> 0..Revalidate]
        /\ alarm' \in [Browser -> BOOLEAN] /\ age' \in [Browser -> 0..(StaleAfter + 1)]
    <2>1. CASE WsPing(b)
      BY <2>1, RevalidatedLive, ApplyLive DEF WsPing
    <2>2. CASE Disconnect(b)
      BY <2>2 DEF Disconnect, Closed, view, LiveInv, FeedTypeOK
    <2> QED BY <2>1, <2>2
  <1>2. UNCHANGED <<active, base, num, queue, valid, page, got>>
    BY DEF WsPing, Disconnect, view
  <1>3. FeedTypeOK /\ subs \subseteq ws /\ FeedContiguous
    BY DEF LiveInv
  <1>4. FeedTypeOK'
    <2>1. Message' = Message /\ Numbers' = Numbers /\ NoPoll' = NoPoll
      BY DEF Message, Numbers, NoPoll
    <2> QED BY <1>1, <1>2, <1>3, <2>1 DEF FeedTypeOK
  <1>5. FeedContiguous'
    BY <1>1, <1>2, <1>3 DEF FeedContiguous, Numbers
  <1> QED BY <1>1, <1>4, <1>5 DEF LiveInv

\* The message in hand is the one after the last that was delivered.
LEMMA WsSendLive ==
  ASSUME LiveInv, NEW b \in Browser, WsSend(b)
  PROVE  LiveInv'
  <1> DEFINE N == Numbers
  <1>1. /\ b \in ws /\ queue[b] # <<>>
        /\ queue' = [queue EXCEPT ![b] = Tail(@)] /\ got' = [got EXCEPT ![b] = Head(queue[b]).n]
        /\ Apply(b, Head(queue[b]).kind) /\ Revalidated(b)
        /\ UNCHANGED <<active, base, num, valid, page>>
    BY DEF WsSend
  <1>2. /\ ws' \subseteq ws /\ subs' \subseteq subs /\ subs' \subseteq ws'
        /\ check' \in [Browser -> 0..Revalidate]
        /\ alarm' \in [Browser -> BOOLEAN] /\ age' \in [Browser -> 0..(StaleAfter + 1)]
    BY <1>1, RevalidatedLive, ApplyLive
  <1>3. /\ FeedTypeOK /\ subs \subseteq ws /\ FeedContiguous
        /\ queue \in [Browser -> Seq(Message)] /\ got \in [Browser -> 0..(N - 1)]
        /\ ws \subseteq Browser /\ N \in Nat \ {0} /\ N = Cap + 3 /\ Cap \in Nat \ {0}
    BY LiveSizes DEF LiveInv, FeedTypeOK
  <1>4. PICK l \in Nat : l = Len(queue[b]) /\ l >= 1 /\ l <= Cap
    <2>1. queue[b] \in Seq(Message) /\ queue[b] # <<>>
      BY <1>1, <1>3
    <2>2. Len(queue[b]) \in Nat /\ Len(queue[b]) >= 1
      BY <2>1
    <2> QED BY <1>1, <1>3, <2>2 DEF FeedContiguous
  <1>5. /\ Head(queue[b]) = queue[b][1] /\ Head(queue[b]) \in Message
        /\ Tail(queue[b]) \in Seq(Message) /\ DOMAIN queue[b] = 1..l
        /\ Len(Tail(queue[b])) = l - 1 /\ DOMAIN Tail(queue[b]) = 1..(l - 1)
        /\ \A i \in 1..(l - 1) : Tail(queue[b])[i] = queue[b][i + 1]
    <2> DEFINE q == queue[b]
    <2>1. q \in Seq(Message) /\ Len(q) = l
      BY <1>3, <1>4
    <2> HIDE DEF q
    <2>2. /\ Head(q) = q[1] /\ Head(q) \in Message
          /\ Tail(q) \in Seq(Message) /\ DOMAIN q = 1..l
          /\ Len(Tail(q)) = l - 1 /\ DOMAIN Tail(q) = 1..(l - 1)
          /\ \A i \in 1..(l - 1) : Tail(q)[i] = q[i + 1]
      BY <1>4, <2>1
    <2> QED BY <2>2 DEF q
  <1>6. /\ \A i \in 1..l : queue[b][i].n = (got[b] + i) % N
        /\ b \in subs => (got[b] + l) % N = num
        /\ got[b] \in 0..(N - 1)
    BY <1>1, <1>3, <1>4, <1>5 DEF FeedContiguous
  <1>7. Head(queue[b]).n = (got[b] + 1) % N /\ Head(queue[b]).n \in 0..(N - 1)
    BY <1>4, <1>5, <1>6 DEF Message
  <1> HIDE DEF N
  <1>8. queue'[b] = Tail(queue[b]) /\ got'[b] = (got[b] + 1) % N
    BY <1>1, <1>3, <1>7
  <1>9. ASSUME NEW k \in 0..(l - 1) PROVE (got'[b] + k) % N = (got[b] + (k + 1)) % N
    <2>1. 1 \in 0..(N - 1) /\ k \in 0..(N - 1)
      BY <1>3, <1>4
    <2>2. (((got[b] + 1) % N) + k) % N = ((got[b] + 1) + k) % N
      BY <1>3, <1>6, <2>1, ModSum
    <2>3. (got[b] + 1) + k = got[b] + (k + 1)
      BY <1>6
    <2> QED BY <1>8, <2>2, <2>3
  <1>10. ASSUME NEW c \in ws'
         PROVE  /\ Len(queue'[c]) <= Cap
                /\ \A i \in DOMAIN queue'[c] : queue'[c][i].n = (got'[c] + i) % N
                /\ c \in subs' => (got'[c] + Len(queue'[c])) % N = num
    <2>1. CASE c = b
      <3>1. l - 1 \in 0..(l - 1) /\ (l - 1) + 1 = l /\ l - 1 <= Cap
        BY <1>3, <1>4
      <3>2. ASSUME NEW i \in 1..(l - 1) PROVE queue'[b][i].n = (got'[b] + i) % N
        <4>1. i \in 0..(l - 1) /\ i + 1 \in 1..l
          BY <1>4
        <4> QED BY <1>5, <1>6, <1>8, <1>9, <4>1
      <3>3. b \in subs => (got'[b] + (l - 1)) % N = num
        BY <1>6, <1>9, <3>1
      <3> QED BY <1>2, <1>5, <1>8, <2>1, <3>1, <3>2, <3>3
    <2>2. CASE c # b
      <3>1. c \in ws /\ queue'[c] = queue[c] /\ got'[c] = got[c] /\ (c \in subs' => c \in subs)
        BY <1>1, <1>2, <1>3, <2>2
      <3> QED BY <1>3, <3>1 DEF FeedContiguous, N
    <2> QED BY <2>1, <2>2
  <1>11. FeedContiguous'
    BY <1>1, <1>10 DEF FeedContiguous, Numbers, N
  <1>12. FeedTypeOK'
    <2>1. queue' \in [Browser -> Seq(Message)] /\ got' \in [Browser -> 0..(Numbers - 1)]
      BY <1>1, <1>3, <1>5, <1>7 DEF N
    <2>2. Message' = Message /\ Numbers' = Numbers /\ NoPoll' = NoPoll
      BY DEF Message, Numbers, NoPoll
    <2> QED BY <1>1, <1>2, <1>3, <2>1, <2>2 DEF FeedTypeOK
  <1> QED BY <1>2, <1>11, <1>12 DEF LiveInv

LEMMA LiveInit == FeedInit => LiveInv
  <1> SUFFICES ASSUME FeedInit PROVE LiveInv
    OBVIOUS
  <1>1. 0 \in 0..(Numbers - 1) /\ 0 \in 0..Revalidate /\ StaleAfter + 1 \in 0..(StaleAfter + 1)
    BY LiveSizes
  <1>2. FeedTypeOK
    BY <1>1 DEF FeedInit, FeedTypeOK
  <1> QED BY <1>2 DEF FeedInit, LiveInv, FeedContiguous

LEMMA LiveStep == LiveInv /\ [FeedNext]_feedVars => LiveInv'
  <1> SUFFICES ASSUME LiveInv, [FeedNext]_feedVars PROVE LiveInv'
    OBVIOUS
  <1>1. CASE (\E a, push \in BOOLEAN : OnPollPrime(a, push)) \/ PublishBase \/ OnPollAts
    BY <1>1, PollsLive
  <1>2. CASE \/ \E a \in BOOLEAN : OnPollBase(a)
             \/ Tick
             \/ \E b \in Browser : SeedRead(b) \/ SeedArrives(b) \/ Expire(b)
             \/ UNCHANGED feedVars
    BY <1>2, QuietLive
  <1>3. ASSUME NEW b \in Browser, Connect(b) PROVE LiveInv'
    BY <1>3, ConnectLive
  <1>4. ASSUME NEW b \in Browser, WsSend(b) PROVE LiveInv'
    BY <1>4, WsSendLive
  <1>5. ASSUME NEW b \in Browser, WsPing(b) \/ Disconnect(b) PROVE LiveInv'
    BY <1>5, IdleLive
  <1> QED BY <1>1, <1>2, <1>3, <1>4, <1>5 DEF FeedNext, WsTurn

LEMMA LiveInductive == FeedSpec => []LiveInv
  BY LiveInit, LiveStep, PTL DEF FeedSpec

\* Every variable of the bus, the sockets and the pages keeps its type.
THEOREM FeedTypeCorrect == FeedSpec => []FeedTypeOK
  <1>1. LiveInv => FeedTypeOK  BY DEF LiveInv
  <1> QED BY <1>1, LiveInductive, PTL

\* However many browsers connect and however long their queues are, and
\* whichever callbacks publish between two turns of a handler: a socket delivers
\* the publications since it connected in order and without a gap.
THEOREM FeedIsContiguous == FeedSpec => []FeedContiguous
  <1>1. LiveInv => FeedContiguous  BY DEF LiveInv
  <1> QED BY <1>1, LiveInductive, PTL
=============================================================================
