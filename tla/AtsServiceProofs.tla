-------------------------- MODULE AtsServiceProofs --------------------------
(***************************************************************************)
(* Proofs about AtsService for any faults, companions, partial polls,       *)
(* staleness and echo bounds.  The argument is that the snapshot mirrors    *)
(* the last decoded identity and uptime although registers come and go from *)
(* the reading, that faults do so until they are evicted, and that without  *)
(* a reboot the companion's uptime is never behind the decoded one.         *)
(***************************************************************************)
EXTENDS AtsService, TLAPS

\* The registers that a poll keeps while they are absent.
MirrorInv ==
  /\ snap.major = got["major"] /\ snap.unit = got["unit"] /\ snap.uptime = got["uptime"]
  /\ snap.faults = got["faults"] \/ (snap.faults = {} /\ missed["faults"] = Stale)

\* What was decoded has the type of its register.
GotInv ==
  /\ \A name \in {"major", "minor", "unit"} : got[name] \in Nat
  /\ got["uptime"] \in 0 .. MaxUptime /\ got["faults"] \subseteq Fault
  /\ \A s \in Source : got[s] \in Supply
  /\ \A c \in Maintained : got[c] \in BOOLEAN

\* The companion's uptime only falls behind what was decoded by a reboot.
UptimeInv == ~rebooted => got["uptime"] <= uptime

IInv == TypeOK /\ MirrorInv /\ GotInv /\ UptimeInv /\ RowsOwned /\ PositionTold

-----------------------------------------------------------------------------
(* The reading a poll leaves behind.                                        *)

Vals(fresh) == [name \in Register |-> IF name \in fresh THEN Shown(name) ELSE got[name]]
AgedBy(t, fresh) ==
  [name \in Register |-> IF name \in fresh THEN 0
                         ELSE IF name \in Registers[t] THEN Older(missed[name], Stale)
                         ELSE missed[name]]
HasAfter(t, fresh) == {name \in Register : AgedBy(t, fresh)[name] # Stale}
DecodeAge(fresh) == IF "wallclock" \in fresh THEN 0 ELSE wallAge
SnapAfter(t, fresh) == NewSnap(t, Vals(fresh), HasAfter(t, fresh))
LateAfter(t, fresh) == IsSkewed(Vals(fresh), HasAfter(t, fresh), DecodeAge(fresh))

LEMMA RegisterFacts ==
  /\ {"position", "mode", "faults", "uptime", "wallclock", "major", "minor", "unit"} \subseteq Register
  /\ Source \subseteq Register /\ Maintained \subseteq Register
  /\ \A t \in Tier : Registers[t] \subseteq Register
  /\ Maintained \cap ({"position", "mode", "faults", "uptime", "wallclock", "major", "minor", "unit"}
                        \cup Source) = {}
  BY AtsAssumption DEF Register, Registers, Source, Tier

\* What a poll assigns, spelled out.
LEMMA PollSteps ==
  ASSUME NEW t \in Tier, NEW fresh \in Yields[t], Poll(t, fresh)
  PROVE  LET n == SnapAfter(t, fresh)
             late == LateAfter(t, fresh)
         IN  /\ got' = Vals(fresh) /\ missed' = AgedBy(t, fresh) /\ wallAge' = DecodeAge(fresh)
             /\ sinceBase' = IF t = "base" /\ snap.base THEN 0 ELSE sinceBase
             /\ snap' = n /\ skewed' = late /\ validated' = (validated \/ n.major > 0)
             /\ rows' = RowsAfter(n, late)
             /\ orphans' = (orphans \cap rows') \ (n.faults \cup Only(late, Skew))
             /\ emitted' = Events(n)
             /\ told' = IF PositionEvents(n) = {} THEN told ELSE n.position
             /\ rebooted' = (rebooted /\ "uptime" \notin fresh)
             /\ UNCHANGED <<companion, link, noted>>
  BY DEF Poll, Vals, AgedBy, HasAfter, DecodeAge, SnapAfter, LateAfter

\* Counting stays under its cap.
LEMMA OlderFacts ==
  ASSUME NEW cap \in Nat, NEW a \in 0 .. cap
  PROVE  Older(a, cap) \in 0 .. cap /\ Older(a, cap) >= a
  BY DEF Older

\* A fresh register is in the reading; an absent one is not fresh.
LEMMA ReadingFacts ==
  ASSUME IInv, NEW t \in Tier, NEW fresh \in Yields[t], Poll(t, fresh)
  PROVE  /\ fresh \subseteq HasAfter(t, fresh) /\ fresh \subseteq Register
         /\ AgedBy(t, fresh) \in [Register -> 0 .. Stale]
         /\ \A name \in Register \ HasAfter(t, fresh) :
              Vals(fresh)[name] = got[name] /\ AgedBy(t, fresh)[name] = Stale
         /\ \A name \in Register : Vals(fresh)[name] = IF name \in fresh THEN Shown(name) ELSE got[name]
  <1>1. fresh \subseteq Register  BY AtsAssumption, RegisterFacts
  <1>2. \A name \in fresh : AgedBy(t, fresh)[name] = 0  BY <1>1 DEF AgedBy
  <1>3. AgedBy(t, fresh) \in [Register -> 0 .. Stale]
    BY AtsAssumption, OlderFacts DEF AgedBy, IInv, TypeOK
  <1>4. fresh \subseteq HasAfter(t, fresh)
    BY <1>1, <1>2, AtsAssumption DEF HasAfter
  <1>5. \A name \in Register : Vals(fresh)[name] = IF name \in fresh THEN Shown(name) ELSE got[name]
    BY DEF Vals
  <1> QED  BY <1>1, <1>3, <1>4, <1>5 DEF HasAfter

\* What the companion shows has the type of the register.
LEMMA ShownFacts ==
  ASSUME TypeOK
  PROVE  /\ \A name \in {"major", "minor", "unit"} : Shown(name) \in Nat
         /\ Shown("uptime") = uptime /\ Shown("faults") \subseteq Fault
         /\ \A s \in Source : Shown(s) \in Supply
         /\ \A c \in Maintained : Shown(c) \in BOOLEAN
  <1>1. face \in AnyFace /\ output \in [Maintained -> BOOLEAN]  BY AtsAssumption DEF TypeOK
  <1>2. /\ face["major"] \in Nat /\ face["minor"] \in Nat /\ face["unit"] \in Nat
        /\ face["faults"] \subseteq Fault /\ face["normal"] \in Supply /\ face["emergency"] \in Supply
    BY <1>1 DEF AnyFace
  <1>3. \A name \in {"major", "minor", "unit", "faults"} \cup Source : Shown(name) = face[name]
    BY RegisterFacts DEF Shown, Source
  <1>4. Shown("uptime") = uptime  BY RegisterFacts DEF Shown
  <1>5. \A c \in Maintained : Shown(c) = output[c]
    BY RegisterFacts DEF Shown
  <1> QED  BY <1>1, <1>2, <1>3, <1>4, <1>5 DEF Source

-----------------------------------------------------------------------------
(* A poll keeps each part of the invariant.                                 *)

LEMMA PollGot ==
  ASSUME IInv, NEW t \in Tier, NEW fresh \in Yields[t], Poll(t, fresh)
  PROVE  GotInv' /\ UptimeInv' /\ MirrorInv'
  <1>1. /\ got' = Vals(fresh) /\ missed' = AgedBy(t, fresh) /\ snap' = SnapAfter(t, fresh)
        /\ rebooted' = (rebooted /\ "uptime" \notin fresh) /\ uptime' = uptime
    BY PollSteps DEF companion
  <1>2. \A name \in Register : got'[name] = IF name \in fresh THEN Shown(name) ELSE got[name]
    BY <1>1, ReadingFacts
  <1>3. GotInv'
    <2>1. \A name \in {"major", "minor", "unit"} : got'[name] \in Nat
      BY <1>2, ShownFacts, RegisterFacts DEF IInv, GotInv
    <2>2. got'["uptime"] \in 0 .. MaxUptime /\ got'["faults"] \subseteq Fault
      BY <1>2, ShownFacts, RegisterFacts DEF IInv, GotInv, TypeOK
    <2>3. \A s \in Source : got'[s] \in Supply
      BY <1>2, ShownFacts, RegisterFacts DEF IInv, GotInv
    <2>4. \A c \in Maintained : got'[c] \in BOOLEAN
      BY <1>2, ShownFacts, RegisterFacts, Zenon DEF IInv, GotInv
    <2> QED  BY <2>1, <2>2, <2>3, <2>4 DEF GotInv
  <1>4. UptimeInv'
    <2>1. uptime \in Nat  BY AtsAssumption DEF IInv, TypeOK
    <2>2. CASE "uptime" \in fresh
      BY <1>1, <1>2, <2>1, <2>2, ShownFacts, RegisterFacts DEF IInv, UptimeInv
    <2>3. CASE "uptime" \notin fresh
      BY <1>1, <1>2, <2>3, RegisterFacts DEF IInv, UptimeInv
    <2> QED  BY <2>2, <2>3
  <1>5. MirrorInv'
    <2>1. /\ snap'.major = Value("major", Vals(fresh), HasAfter(t, fresh), snap.major)
          /\ snap'.unit = Value("unit", Vals(fresh), HasAfter(t, fresh), snap.unit)
          /\ snap'.uptime = Value("uptime", Vals(fresh), HasAfter(t, fresh), snap.uptime)
          /\ snap'.faults = Value("faults", Vals(fresh), HasAfter(t, fresh), {})
      BY <1>1 DEF SnapAfter, NewSnap, DecodedMajor, DecodedFaults
    <2>2. \A name \in {"major", "unit", "uptime"} :
            got'[name] = Value(name, Vals(fresh), HasAfter(t, fresh), got[name])
      BY <1>1, ReadingFacts, RegisterFacts DEF Value
    <2>3. snap'.faults = got'["faults"] \/ (snap'.faults = {} /\ missed'["faults"] = Stale)
      BY <1>1, <2>1, ReadingFacts, RegisterFacts DEF Value
    <2> QED  BY <2>1, <2>2, <2>3 DEF IInv, MirrorInv
  <1> QED  BY <1>3, <1>4, <1>5

LEMMA PollRows ==
  ASSUME IInv, NEW t \in Tier, NEW fresh \in Yields[t], Poll(t, fresh)
  PROVE  RowsOwned' /\ PositionTold' /\ orphans' \subseteq rows'
  <1> DEFINE n == SnapAfter(t, fresh)
             late == LateAfter(t, fresh)
  <1>1. /\ snap' = n /\ skewed' = late /\ rows' = RowsAfter(n, late)
        /\ orphans' = (orphans \cap rows') \ (n.faults \cup Only(late, Skew))
        /\ told' = IF PositionEvents(n) = {} THEN told ELSE n.position
    BY PollSteps
  <1> HIDE DEF n, late
  <1>2. RowsOwned'
    BY <1>1 DEF IInv, RowsOwned, RowsAfter, Only
  <1>3. PositionTold'
    BY <1>1 DEF IInv, PositionTold, PositionToldOnceUp, PositionEvents, Only
  <1> QED  BY <1>1, <1>2, <1>3

LEMMA NewSnapType ==
  ASSUME IInv, NEW t \in Tier, NEW fresh \in Yields[t], Poll(t, fresh)
  PROVE  snap' \in [position: Position, mode: Mode, avail: [Source -> Supply \cup {"none"}],
                    faults: SUBSET Fault, command: [Maintained -> BOOLEAN],
                    uptime: 0 .. MaxUptime, major: Nat, minor: Nat, unit: Nat,
                    base: BOOLEAN, read: BOOLEAN]
  <1> DEFINE v == Vals(fresh)
             has == HasAfter(t, fresh)
  <1>1. snap' = NewSnap(t, v, has) /\ got' = v  BY PollSteps DEF SnapAfter
  <1>2. GotInv'  BY PollGot
  <1> HIDE DEF v, has
  <1>3. /\ \A name \in {"major", "minor", "unit"} : v[name] \in Nat
        /\ v["uptime"] \in 0 .. MaxUptime /\ v["faults"] \subseteq Fault
        /\ \A s \in Source : v[s] \in Supply
        /\ \A c \in Maintained : v[c] \in BOOLEAN
    BY <1>1, <1>2 DEF GotInv
  <1>4. \A x : Label(PositionByValue, x) \in Position /\ Label(ModeByValue, x) \in Mode
    BY DEF Label, PositionByValue, ModeByValue, Position, Mode
  <1>5. /\ snap.avail \in [Source -> Supply \cup {"none"}] /\ snap.command \in [Maintained -> BOOLEAN]
        /\ snap.uptime \in 0 .. MaxUptime /\ snap.major \in Nat /\ snap.minor \in Nat
        /\ snap.unit \in Nat /\ snap.base \in BOOLEAN
    BY DEF IInv, TypeOK
  <1>6. [s \in Source |-> Value(s, v, has, snap.avail[s])] \in [Source -> Supply \cup {"none"}]
    BY <1>3, <1>5 DEF Value
  <1>7. [c \in Maintained |-> Value(c, v, has, snap.command[c])] \in [Maintained -> BOOLEAN]
    BY <1>3, <1>5, Zenon DEF Value
  <1>8. /\ DecodedFaults(v, has) \in SUBSET Fault /\ DecodedMajor(v, has) \in Nat
        /\ Value("minor", v, has, snap.minor) \in Nat /\ Value("unit", v, has, snap.unit) \in Nat
        /\ Value("uptime", v, has, snap.uptime) \in 0 .. MaxUptime
    BY <1>3, <1>5 DEF Value, DecodedFaults, DecodedMajor
  <1>9. (snap.base \/ t = "base") \in BOOLEAN  OBVIOUS
  <1> QED  BY <1>1, <1>4, <1>6, <1>7, <1>8, <1>9 DEF NewSnap

LEMMA PollIInv ==
  ASSUME IInv, NEW t \in Tier, NEW fresh \in Yields[t], Poll(t, fresh) PROVE IInv'
  <1>1. GotInv' /\ UptimeInv' /\ MirrorInv' /\ RowsOwned' /\ PositionTold' /\ orphans' \subseteq rows'
    BY PollGot, PollRows
  <1> DEFINE n == SnapAfter(t, fresh)
             late == LateAfter(t, fresh)
  <1>2. /\ got' = Vals(fresh) /\ missed' = AgedBy(t, fresh) /\ wallAge' = DecodeAge(fresh)
        /\ sinceBase' = IF t = "base" /\ snap.base THEN 0 ELSE sinceBase
        /\ snap' = n /\ skewed' = late /\ validated' = (validated \/ n.major > 0)
        /\ rows' = RowsAfter(n, late)
        /\ told' = IF PositionEvents(n) = {} THEN told ELSE n.position
        /\ rebooted' = (rebooted /\ "uptime" \notin fresh)
        /\ UNCHANGED <<companion, link, noted>>
    BY PollSteps
  <1>3. snap' \in [position: Position, mode: Mode, avail: [Source -> Supply \cup {"none"}],
                   faults: SUBSET Fault, command: [Maintained -> BOOLEAN],
                   uptime: 0 .. MaxUptime, major: Nat, minor: Nat, unit: Nat,
                   base: BOOLEAN, read: BOOLEAN]
    BY NewSnapType
  <1>4. late \in BOOLEAN  BY DEF LateAfter, IsSkewed, IInv, TypeOK
  <1> HIDE DEF n, late
  <1>5. n.position \in Position /\ n.faults \subseteq Fault  BY <1>2, <1>3
  <1>6. rows' \subseteq Alarm
    BY <1>2, <1>5 DEF IInv, TypeOK, RowsAfter, Only, Alarm
  <1>7. DOMAIN got' = Register /\ missed' \in [Register -> 0 .. Stale]
    BY <1>2, ReadingFacts DEF Vals
  <1>8. sinceBase' \in 0 .. BaseEvery /\ wallAge' \in 0 .. Stale * BaseEvery
    <2>1. Stale * BaseEvery \in Nat  BY AtsAssumption
    <2> QED  BY <1>2, <2>1, AtsAssumption DEF IInv, TypeOK, DecodeAge
  <1>9. {validated', skewed', rebooted'} \subseteq BOOLEAN
    BY <1>2, <1>4 DEF IInv, TypeOK
  <1>10. told' \in Position \cup {Untold}  BY <1>2, <1>5 DEF IInv, TypeOK
  <1>11. TypeOK'
    BY <1>1, <1>2, <1>3, <1>6, <1>7, <1>8, <1>9, <1>10 DEF IInv, TypeOK, companion
  <1> QED  BY <1>1, <1>11 DEF IInv

-----------------------------------------------------------------------------
(* The other actions.                                                       *)

LEMMA NoSnapType ==
  /\ NoSnap \in [position: Position, mode: Mode, avail: [Source -> Supply \cup {"none"}],
                 faults: SUBSET Fault, command: [Maintained -> BOOLEAN],
                 uptime: 0 .. MaxUptime, major: Nat, minor: Nat, unit: Nat,
                 base: BOOLEAN, read: BOOLEAN]
  /\ NoSnap.major = 0 /\ NoSnap.unit = 0 /\ NoSnap.uptime = 0 /\ NoSnap.faults = {}
  /\ NoSnap.position = "unknown"
  <1>1. [c \in Maintained |-> FALSE] \in [Maintained -> BOOLEAN]  OBVIOUS
  <1> QED  BY <1>1, AtsAssumption DEF NoSnap, Position, Mode

LEMMA NothingGotFacts ==
  /\ DOMAIN NothingGot = Register
  /\ \A name \in {"major", "minor", "unit", "uptime"} : NothingGot[name] = 0
  /\ NothingGot["faults"] = {} /\ \A s \in Source : NothingGot[s] \in Supply
  /\ \A c \in Maintained : NothingGot[c] = FALSE
  BY RegisterFacts DEF NothingGot, Supply, Source

LEMMA NeverNotedType == NeverNoted \in [Maintained -> [BOOLEAN -> 0 .. Echo + 1]]
  BY AtsAssumption DEF NeverNoted

\* A process that starts knows nothing.
LEMMA FreshProcess ==
  ASSUME face \in Face, output \in [Maintained -> BOOLEAN], uptime \in 0 .. MaxUptime,
         link = "healthy", got = NothingGot, missed = [name \in Register |-> Stale],
         sinceBase = BaseEvery, wallAge = 0, snap = NoSnap, validated = FALSE, skewed = FALSE,
         noted = NeverNoted, rows \subseteq Alarm, orphans = rows, told = Untold,
         rebooted \in BOOLEAN
  PROVE  IInv
  <1>1. /\ 0 \in 0 .. Stale * BaseEvery /\ BaseEvery \in 0 .. BaseEvery
        /\ [name \in Register |-> Stale] \in [Register -> 0 .. Stale]
    BY AtsAssumption
  <1>2. TypeOK
    BY <1>1, NoSnapType, NothingGotFacts, NeverNotedType, AtsAssumption DEF TypeOK, Position
  <1>3. GotInv
    <2>1. \A c \in Maintained : got[c] \in BOOLEAN  BY NothingGotFacts, Zenon
    <2>2. /\ \A name \in {"major", "minor", "unit"} : got[name] \in Nat
          /\ got["uptime"] \in 0 .. MaxUptime /\ got["faults"] \subseteq Fault
      BY NothingGotFacts, AtsAssumption
    <2>3. \A s \in Source : got[s] \in Supply  BY NothingGotFacts
    <2> QED  BY <2>1, <2>2, <2>3 DEF GotInv
  <1>4. MirrorInv /\ UptimeInv
    BY NothingGotFacts, NoSnapType, AtsAssumption, RegisterFacts DEF MirrorInv, UptimeInv
  <1>5. RowsOwned /\ PositionTold  BY NoSnapType DEF RowsOwned, PositionTold, PositionToldOnceUp, NoSnap
  <1> QED  BY <1>2, <1>3, <1>4, <1>5 DEF IInv

LEMMA InitIInv == Init => IInv
  <1> SUFFICES ASSUME Init PROVE IInv  OBVIOUS
  <1>1. uptime \in 0 .. MaxUptime  BY AtsAssumption DEF Init
  <1>2. rows \subseteq Alarm /\ orphans = rows /\ rebooted \in BOOLEAN  BY DEF Init
  <1> QED  BY <1>1, <1>2, FreshProcess DEF Init

LEMMA RestartIInv == ASSUME IInv, Restart PROVE IInv'
  <1>1. /\ face' \in Face /\ output' \in [Maintained -> BOOLEAN] /\ uptime' \in 0 .. MaxUptime
        /\ rows' \subseteq Alarm /\ orphans' = rows' /\ rebooted' \in BOOLEAN
    BY DEF Restart, IInv, TypeOK, companion
  <1>2. /\ link' = "healthy" /\ got' = NothingGot /\ missed' = [name \in Register |-> Stale]
        /\ sinceBase' = BaseEvery /\ wallAge' = 0 /\ snap' = NoSnap /\ validated' = FALSE
        /\ skewed' = FALSE /\ noted' = NeverNoted /\ told' = Untold
    BY DEF Restart
  <1>3. /\ 0 \in 0 .. Stale * BaseEvery /\ BaseEvery \in 0 .. BaseEvery
        /\ [name \in Register |-> Stale] \in [Register -> 0 .. Stale]
    BY AtsAssumption
  <1>4. TypeOK'
    BY <1>1, <1>2, <1>3, NoSnapType, NothingGotFacts, NeverNotedType, AtsAssumption
    DEF TypeOK, Position
  <1>5. GotInv'
    <2>1. \A c \in Maintained : got'[c] \in BOOLEAN  BY <1>2, NothingGotFacts, Zenon
    <2>2. /\ \A name \in {"major", "minor", "unit"} : got'[name] \in Nat
          /\ got'["uptime"] \in 0 .. MaxUptime /\ got'["faults"] \subseteq Fault
      BY <1>2, NothingGotFacts, AtsAssumption
    <2>3. \A s \in Source : got'[s] \in Supply  BY <1>2, NothingGotFacts
    <2> QED  BY <2>1, <2>2, <2>3 DEF GotInv
  <1>6. MirrorInv' /\ UptimeInv'
    BY <1>1, <1>2, NothingGotFacts, NoSnapType, AtsAssumption, RegisterFacts
    DEF MirrorInv, UptimeInv
  <1>7. RowsOwned' /\ PositionTold'  BY <1>1, <1>2, NoSnapType DEF RowsOwned, PositionTold, PositionToldOnceUp, NoSnap
  <1> QED  BY <1>4, <1>5, <1>6, <1>7 DEF IInv

\* A step that leaves reading, snapshot, rows and history alone keeps the
\* invariant if what it moves keeps its type.
LEMMA AsideIInv ==
  ASSUME IInv, UNCHANGED <<got, missed, snap, validated, skewed, rows, orphans, told>>,
         face' \in Face, output' \in [Maintained -> BOOLEAN], uptime' \in 0 .. MaxUptime,
         link' \in Link, noted' \in [Maintained -> [BOOLEAN -> 0 .. Echo + 1]],
         sinceBase' \in 0 .. BaseEvery, wallAge' \in 0 .. Stale * BaseEvery,
         rebooted' \in BOOLEAN, (uptime' >= uptime /\ rebooted' = rebooted) \/ rebooted'
  PROVE  IInv'
  <1>1. TypeOK'  BY DEF IInv, TypeOK
  <1>2. GotInv' /\ MirrorInv' /\ RowsOwned' /\ PositionTold'
    BY DEF IInv, GotInv, MirrorInv, RowsOwned, PositionTold, PositionToldOnceUp
  <1>3. UptimeInv'
    <2>1. uptime \in Nat /\ uptime' \in Nat /\ got["uptime"] \in Nat
      BY AtsAssumption DEF IInv, TypeOK, GotInv
    <2> QED  BY <2>1 DEF IInv, UptimeInv
  <1> QED  BY <1>1, <1>2, <1>3 DEF IInv

LEMMA CommandIInv ==
  ASSUME IInv, NEW c \in Maintained, NEW on \in BOOLEAN, Command(c, on) PROVE IInv'
  <1>1. noted' \in [Maintained -> [BOOLEAN -> 0 .. Echo + 1]]
    BY AtsAssumption DEF Command, IInv, TypeOK
  <1>2. output' \in [Maintained -> BOOLEAN]  BY Zenon DEF Command, IInv, TypeOK
  <1>3. uptime' >= uptime  BY AtsAssumption DEF Command, IInv, TypeOK
  <1>4. /\ UNCHANGED <<got, missed, snap, validated, skewed, rows, orphans, told>>
        /\ face' \in Face /\ uptime' \in 0 .. MaxUptime /\ link' \in Link
        /\ sinceBase' \in 0 .. BaseEvery /\ wallAge' \in 0 .. Stale * BaseEvery
        /\ rebooted' \in BOOLEAN /\ rebooted' = rebooted
    BY DEF Command, reading, IInv, TypeOK
  <1> QED  BY <1>1, <1>2, <1>3, <1>4, AsideIInv

\* The companion and the link move on their own.
LEMMA EnvironmentIInv ==
  ASSUME IInv,
         \/ \E c \in Maintained : OutputMoves(c)
         \/ \E f \in Face : FaceMoves(f)
         \/ \E s \in Link : LinkMoves(s)
         \/ CompanionReboots
  PROVE  IInv'
  <1>1. /\ UNCHANGED <<got, missed, snap, validated, skewed, rows, orphans, told>>
        /\ noted' = noted /\ sinceBase' = sinceBase /\ wallAge' = wallAge
    BY DEF OutputMoves, FaceMoves, LinkMoves, CompanionReboots, reading, session
  <1>2. face' \in Face /\ link' \in Link
    BY DEF OutputMoves, FaceMoves, LinkMoves, CompanionReboots, companion, IInv, TypeOK
  <1>3. output' \in [Maintained -> BOOLEAN]
    <2>1. ASSUME NEW c \in Maintained, OutputMoves(c) PROVE output' \in [Maintained -> BOOLEAN]
      BY <2>1, Zenon DEF OutputMoves, IInv, TypeOK
    <2>2. CASE CompanionReboots
      BY <2>2, Zenon DEF CompanionReboots
    <2>3. CASE (\E f \in Face : FaceMoves(f)) \/ (\E s \in Link : LinkMoves(s))
      BY <2>3 DEF FaceMoves, LinkMoves, companion, IInv, TypeOK
    <2> QED  BY <2>1, <2>2, <2>3
  <1>4. /\ uptime' \in 0 .. MaxUptime /\ rebooted' \in BOOLEAN
        /\ (uptime' >= uptime /\ rebooted' = rebooted) \/ rebooted'
    <2>1. CASE CompanionReboots
      BY <2>1, AtsAssumption DEF CompanionReboots
    <2>2. CASE ~CompanionReboots
      <3>1. uptime' = uptime /\ rebooted' = rebooted
        BY <2>2 DEF OutputMoves, FaceMoves, LinkMoves, companion
      <3> QED  BY <3>1, AtsAssumption DEF IInv, TypeOK
    <2> QED  BY <2>1, <2>2
  <1>5. /\ noted' \in [Maintained -> [BOOLEAN -> 0 .. Echo + 1]]
        /\ sinceBase' \in 0 .. BaseEvery /\ wallAge' \in 0 .. Stale * BaseEvery
    BY <1>1 DEF IInv, TypeOK
  <1> QED  BY <1>1, <1>2, <1>3, <1>4, <1>5, AsideIInv

LEMMA TickIInv == ASSUME IInv, Tick PROVE IInv'
  <1>1. /\ UNCHANGED <<got, missed, snap, validated, skewed, rows, orphans, told>>
        /\ face' \in Face /\ output' \in [Maintained -> BOOLEAN] /\ link' \in Link
        /\ rebooted' \in BOOLEAN /\ rebooted' = rebooted
    BY DEF Tick, IInv, TypeOK
  <1>2. sinceBase' \in 0 .. BaseEvery  BY AtsAssumption DEF Tick, IInv, TypeOK
  <1>3. wallAge' \in 0 .. Stale * BaseEvery
    <2> DEFINE K == Stale * BaseEvery
    <2>1. K \in Nat  BY AtsAssumption
    <2>2. wallAge \in 0 .. K /\ wallAge' = Older(wallAge, K)  BY DEF Tick, IInv, TypeOK
    <2> HIDE DEF K
    <2>3. wallAge' \in 0 .. K  BY <2>1, <2>2, OlderFacts
    <2> QED  BY <2>3 DEF K
  <1>4. uptime' \in 0 .. MaxUptime /\ uptime' >= uptime
    BY AtsAssumption, OlderFacts DEF Tick, IInv, TypeOK
  <1>5. noted' \in [Maintained -> [BOOLEAN -> 0 .. Echo + 1]]
    <2>1. Echo + 1 \in Nat  BY AtsAssumption
    <2>2. \A c \in Maintained, on \in BOOLEAN : Older(noted[c][on], Echo + 1) \in 0 .. Echo + 1
      BY <2>1, OlderFacts DEF IInv, TypeOK
    <2>3. noted' = [c \in Maintained |-> [on \in BOOLEAN |-> Older(noted[c][on], Echo + 1)]]
      BY DEF Tick
    <2> QED  BY <2>2, <2>3
  <1> QED  BY <1>1, <1>2, <1>3, <1>4, <1>5, AsideIInv

LEMMA AckIInv == ASSUME IInv, NEW a \in Alarm, Ack(a) PROVE IInv'
  <1>1. /\ UNCHANGED <<companion, link, got, missed, sinceBase, wallAge, snap, validated,
                       skewed, noted, told, rebooted>>
        /\ rows' = rows \ {a} /\ orphans' = orphans \ {a}
    BY DEF Ack, reading, session
  <1>2. TypeOK'  BY <1>1 DEF IInv, TypeOK, companion
  <1>3. GotInv' /\ MirrorInv' /\ UptimeInv' /\ PositionTold'
    BY <1>1 DEF IInv, GotInv, MirrorInv, UptimeInv, PositionTold, PositionToldOnceUp, companion
  <1>4. RowsOwned'  BY <1>1 DEF IInv, RowsOwned
  <1> QED  BY <1>2, <1>3, <1>4 DEF IInv

LEMMA NextIInv == IInv /\ [Next]_vars => IInv'
  <1> SUFFICES ASSUME IInv, [Next]_vars PROVE IInv'  OBVIOUS
  <1>1. CASE UNCHANGED vars
    <2>1. /\ UNCHANGED <<face, output, uptime, link, got, missed, sinceBase, wallAge, snap>>
          /\ UNCHANGED <<validated, skewed, noted, rows, told, rebooted, orphans>>
      BY <1>1 DEF vars, companion, reading, session
    <2>2. TypeOK'  BY <2>1 DEF IInv, TypeOK
    <2>3. GotInv' /\ MirrorInv' /\ UptimeInv' /\ RowsOwned' /\ PositionTold'
      BY <2>1 DEF IInv, GotInv, MirrorInv, UptimeInv, RowsOwned, PositionTold, PositionToldOnceUp
    <2> QED  BY <2>2, <2>3 DEF IInv
  <1>2. ASSUME NEW t \in Tier, NEW fresh \in Yields[t], Poll(t, fresh) PROVE IInv'
    BY <1>2, PollIInv
  <1>3. ASSUME NEW c \in Maintained, NEW on \in BOOLEAN, Command(c, on) PROVE IInv'
    BY <1>3, CommandIInv
  <1>4. CASE \/ \E c \in Maintained : OutputMoves(c)
             \/ \E f \in Face : FaceMoves(f)
             \/ \E s \in Link : LinkMoves(s)
             \/ CompanionReboots
    BY <1>4, EnvironmentIInv
  <1>5. ASSUME NEW a \in Alarm, Ack(a) PROVE IInv'  BY <1>5, AckIInv
  <1>6. CASE Tick  BY <1>6, TickIInv
  <1>7. CASE Restart  BY <1>7, RestartIInv
  <1> QED  BY <1>1, <1>2, <1>3, <1>4, <1>5, <1>6, <1>7 DEF Next

LEMMA Inductive == Spec => []IInv
  BY InitIInv, NextIInv, PTL DEF Spec

-----------------------------------------------------------------------------

\* Every variable keeps its type, whatever the companion shows.
THEOREM TypeCorrect == Spec => []TypeOK
  <1>1. IInv => TypeOK  BY DEF IInv
  <1> QED  BY <1>1, Inductive, PTL

\* For any companion and any pattern of failed registers, evictions and
\* restarts, authority rests on an identity decoded in this process.
THEOREM AuthorityIsIdentified == Spec => []AuthorityIdentified
  <1>1. IInv => AuthorityIdentified
    BY DEF IInv, MirrorInv, AuthorityIdentified, IsAuthoritative
  <1> QED  BY <1>1, Inductive, PTL

\* For any faults, authority is not held against a position-tainting one unless
\* fault_summary itself has been unreadable for Stale polls.
THEOREM FaultsDenyAuthority == Spec => []FaultsHoldAuthority
  <1>1. IInv => FaultsHoldAuthority
    BY DEF IInv, MirrorInv, FaultsHoldAuthority, IsAuthoritative
  <1> QED  BY <1>1, Inductive, PTL

\* For any faults and acknowledgements, every alarm row this process wrote is
\* one that a later poll clears.
THEOREM RowsAreOwned == Spec => []RowsOwned
  <1>1. IInv => RowsOwned  BY DEF IInv
  <1> QED  BY <1>1, Inductive, PTL

\* The feed's last position is the position shown, but for the return from
\* unknown to utility, which is not told at any time.
THEOREM PositionIsTold == Spec => []PositionTold
  <1>1. IInv => PositionTold  BY DEF IInv
  <1> QED  BY <1>1, Inductive, PTL

\* A step that is not a poll emits nothing.
LEMMA OnlyPollsEmit ==
  ASSUME [Next]_vars, RebootTold
  PROVE  (\E t \in Tier : \E fresh \in Yields[t] : Poll(t, fresh)) \/ UNCHANGED vars
  BY DEF Next, RebootTold, quiet, Command, OutputMoves, FaceMoves, LinkMoves, CompanionReboots,
         Tick, Ack, Restart

\* A poll tells a reboot only of a companion that did reboot.
LEMMA PollRebootsReal ==
  ASSUME IInv, NEW t \in Tier, NEW fresh \in Yields[t], Poll(t, fresh), RebootTold
  PROVE  rebooted
  <1> DEFINE n == SnapAfter(t, fresh)
  <1>1. emitted' = Events(n) /\ snap' = n /\ got' = Vals(fresh)  BY PollSteps
  <1>2. n.uptime = got'["uptime"]
    BY <1>1, PollGot DEF MirrorInv
  <1> HIDE DEF n
  <1>3. snap.uptime > 0 /\ n.uptime < snap.uptime
    BY <1>1 DEF RebootTold, Events, PositionEvents, SourceEvents, ModeEvents, FaultEvents,
                CommandEvents, RebootEvents, CommsEvents, VersionEvents, Only
  <1>4. got'["uptime"] = IF "uptime" \in fresh THEN uptime ELSE got["uptime"]
    BY <1>1, ReadingFacts, RegisterFacts, ShownFacts DEF IInv
  <1>5. got["uptime"] \in Nat /\ uptime \in Nat /\ snap.uptime = got["uptime"]
    BY AtsAssumption DEF IInv, GotInv, TypeOK, MirrorInv
  <1>6. uptime < got["uptime"]  BY <1>2, <1>3, <1>4, <1>5
  <1> QED  BY <1>5, <1>6 DEF IInv, UptimeInv

\* For any reboots, evictions and restarts, a reboot is told only if the
\* companion rebooted since its uptime was last decoded.
THEOREM RebootsAreReal == Spec => RebootsReal
  <1>1. IInv /\ [Next]_vars => [RebootTold => rebooted]_vars
    BY OnlyPollsEmit, PollRebootsReal
  <1> QED  BY <1>1, Inductive, PTL DEF Spec, RebootsReal
=============================================================================
