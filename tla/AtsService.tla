----------------------------- MODULE AtsService -----------------------------
(***************************************************************************)
(* The ATS-Pi companion as the service sees it (services/ats.py): on_poll   *)
(* with its diffing of the snapshot into events and alarm rows, the         *)
(* authority rule, the echo window of the service's own commands, and a     *)
(* restart of the service.  The companion itself is the environment: what   *)
(* its registers show, its maintained outputs and its reboots.              *)
(*                                                                          *)
(* on_poll computes the new snapshot without suspending, so a poll is one   *)
(* action.  The reading is the poller's cumulative one: a poll refreshes    *)
(* registers of its own tier, and a register that fails Stale polls in a    *)
(* row is evicted.  Registers that are only displayed (firmware, counters,  *)
(* transfer times, momentary read-backs) are left out.                      *)
(***************************************************************************)
EXTENDS Integers

CONSTANTS
  Fault,          \* codes of fault_summary's bits
  PositionFault,  \* _POSITION_FAULTS
  Skew,           \* the alarm code ATS_PI_TIME_SKEW
  Face,           \* what the companion's sense and identity registers may show
  Maintained,     \* maintained commands: inhibit and force_transfer
  AcceptedUnit,   \* {expected_unit_id}, or every unit id if none is configured
  Yields,         \* [Tier -> sets of registers that a poll may decode]
  Link,           \* comms states
  Stale,          \* TIER_STALE_MULTIPLIER, in polls of the tier
  BaseEvery,      \* base cadence in ticks
  Threshold,      \* _TIME_SKEW_THRESHOLD_S in ticks
  Echo,           \* _CMD_ECHO_WINDOW_S in ticks
  MaxUptime       \* where the companion's uptime stops counting

Tier == {"prime", "base"}
Source == {"normal", "emergency"}
Registers ==
  [prime |-> {"position", "mode", "faults"} \cup Source \cup Maintained,
   base |-> {"uptime", "wallclock", "major", "minor", "unit"}]
Register == Registers["prime"] \cup Registers["base"]
Alarm == Fault \cup {Skew}

Position == {"utility", "generator", "transferring", "unknown"}
Untold == "untold"
Mode == {"auto", "manual", "test", "unknown"}
Supply == {"up", "down"}
ExpectedMajor == 1
ExpectedMinor == 0

\* What a companion shows: raw enums, the offset of its clock from ours.
AnyFace == [position: Nat, mode: Nat, normal: Supply, emergency: Supply, faults: SUBSET Fault,
            wallclock: Int, major: Nat, minor: Nat, unit: Nat]

ASSUME AtsAssumption ==
  /\ PositionFault \subseteq Fault /\ Skew \notin Fault
  /\ Maintained \subseteq {"inhibit", "force_transfer"}
  /\ Face # {} /\ Face \subseteq AnyFace
  /\ Yields \in [Tier -> SUBSET SUBSET Register]
  /\ \A t \in Tier : \A fresh \in Yields[t] : fresh \subseteq Registers[t]
  /\ "healthy" \in Link
  /\ {Stale, BaseEvery, MaxUptime} \subseteq Nat \ {0}
  /\ {Threshold, Echo} \subseteq Nat

VARIABLES
  face,        \* the companion's registers
  output,      \* its maintained outputs, also their read-back registers
  uptime,      \* its uptime
  link,        \* state of the ATS poller's CommsHealth
  got,         \* the last decoded value of each register
  missed,      \* polls since that decode; Stale: absent from the reading
  sinceBase,   \* ticks since the last base poll
  wallAge,     \* ticks since the wall clock was decoded
  snap,        \* AtsService.snap; snap.read also says it holds the poller's health
  validated,   \* _icd_version_validated
  skewed,      \* _time_skew_alarm_active
  noted,       \* _cmd_write_monotonic, as ages
  rows,        \* the companion's codes in alarms_active
  emitted,     \* the events of the last on_poll
  told,        \* history: the position this process last told the feed, or Untold
  rebooted,    \* history: reboot since the uptime was last decoded
  orphans      \* history: rows of an earlier process

companion == <<face, output, uptime>>
reading == <<got, missed, sinceBase, wallAge>>
session == <<snap, validated, skewed, noted>>
vars == <<companion, link, reading, session, rows, emitted, told, rebooted, orphans>>

\* One more, up to a cap past which it makes no difference.
Older(a, cap) == IF a < cap THEN a + 1 ELSE a
Only(P, x) == IF P THEN {x} ELSE {}

-----------------------------------------------------------------------------
(* Decoding.                                                               *)

PositionByValue == [n \in 0 .. 3 |-> CASE n = 0 -> "utility" [] n = 1 -> "generator"
                                       [] n = 2 -> "transferring" [] n = 3 -> "unknown"]
ModeByValue == [n \in 0 .. 3 |-> CASE n = 0 -> "auto" [] n = 1 -> "manual"
                                   [] n = 2 -> "test" [] n = 3 -> "unknown"]

\* A value outside the documented range decodes to "unknown".
Label(table, n) == IF n \in DOMAIN table THEN table[n] ELSE "unknown"
Invert(table, label) == CHOOSE n \in DOMAIN table : table[n] = label

\* A register that is not in the reading keeps what the snapshot holds.
Value(name, v, has, kept) == IF name \in has THEN v[name] ELSE kept

\* fault_summary is the exception: without it no bit is set.
DecodedFaults(v, has) == Value("faults", v, has, {})
DecodedMajor(v, has) == Value("major", v, has, snap.major)

\* The snapshot after a poll of tier t that left v and has as the reading.
NewSnap(t, v, has) ==
  [position |-> Label(PositionByValue,
                      Value("position", v, has, Invert(PositionByValue, snap.position))),
   mode |-> Label(ModeByValue, Value("mode", v, has, Invert(ModeByValue, snap.mode))),
   avail |-> [s \in Source |-> Value(s, v, has, snap.avail[s])],
   faults |-> DecodedFaults(v, has),
   command |-> [c \in Maintained |-> Value(c, v, has, snap.command[c])],
   uptime |-> Value("uptime", v, has, snap.uptime),
   major |-> DecodedMajor(v, has),
   minor |-> Value("minor", v, has, snap.minor),
   unit |-> Value("unit", v, has, snap.unit),
   base |-> snap.base \/ t = "base",
   read |-> TRUE]

-----------------------------------------------------------------------------
(* Authority, and what a changed snapshot n emits.                         *)

KnownLink == IF snap.read THEN link ELSE "healthy"

\* Mutants: a completed base poll is enough; the faults are not looked at.
IsAuthoritativeEarly ==
  KnownLink = "healthy" /\ snap.base /\ snap.faults \cap PositionFault = {}
IsAuthoritativeBlind ==
  KnownLink = "healthy" /\ snap.base /\ snap.major = ExpectedMajor /\ snap.unit \in AcceptedUnit

IsAuthoritative ==
  /\ KnownLink = "healthy" /\ snap.base
  /\ snap.major = ExpectedMajor /\ snap.unit \in AcceptedUnit
  /\ snap.faults \cap PositionFault = {}

\* Mutant: no return to utility is told.
PositionEventsTerse(n) ==
  Only(n.position # snap.position /\ n.position # "utility",
       <<"ats-position", snap.position, n.position>>)

\* _emit_position leaves out unknown -> utility.
PositionEvents(n) ==
  Only(n.position # snap.position /\ ~(snap.position = "unknown" /\ n.position = "utility"),
       <<"ats-position", snap.position, n.position>>)

SourceEvents(n) ==
  {<<"ats-source", s, n.avail[s]>> :
     s \in {s \in Source : snap.avail[s] # "none" /\ n.avail[s] # snap.avail[s]}}

ModeEvents(n) ==
  Only(n.mode # snap.mode /\ snap.mode # "unknown", <<"ats-mode", snap.mode, n.mode>>)

FaultEvents(n) ==
  {<<"alarm", f>> : f \in n.faults \ snap.faults}
    \cup {<<"alarm-cleared", f>> : f \in snap.faults \ n.faults}

\* _check_maintained_cmd_edges: an edge that no recent write of ours explains.
Echoed(c, on) == noted[c][on] <= Echo
CommandEvents(n) ==
  {<<"ats-command-external", c, n.command[c]>> :
     c \in {c \in Maintained : /\ snap.read /\ n.command[c] # snap.command[c]
                               /\ ~Echoed(c, n.command[c])}}

\* Mutant: an unchanged or missing uptime counts as a reboot.
RebootEventsLoose(n) == Only(snap.uptime > 0 /\ n.uptime <= snap.uptime, <<"ats-reboot">>)

RebootEvents(n) == Only(snap.uptime > 0 /\ n.uptime < snap.uptime, <<"ats-reboot">>)

CommsEvents == Only(link # KnownLink, <<"ats-comms", KnownLink, link>>)

\* _validate_icd_version, once per process.
VersionEvents(n) ==
  Only(~validated /\ n.major > 0 /\ <<n.major, n.minor>> # <<ExpectedMajor, ExpectedMinor>>,
       <<"ats-icd-version", n.major, n.minor>>)

Events(n) ==
  PositionEvents(n) \cup SourceEvents(n) \cup ModeEvents(n) \cup FaultEvents(n)
    \cup CommandEvents(n) \cup RebootEvents(n) \cup CommsEvents \cup VersionEvents(n)

\* The decoded wall clock against the present time, whenever it was decoded.
IsSkewed(v, has, sinceDecode) ==
  IF "wallclock" \in has
  THEN v.wallclock - sinceDecode > Threshold \/ sinceDecode - v.wallclock > Threshold
  ELSE skewed

-----------------------------------------------------------------------------
(* A poll.                                                                 *)

\* Mutant: a fault that went away keeps its row.
RowsAfterKeeping(n, late) ==
  (rows \cup (n.faults \ snap.faults) \cup Only(late /\ ~skewed, Skew)) \ Only(~late /\ skewed, Skew)

\* The alarm table after the fault diff and the skew check.
RowsAfter(n, late) ==
  (rows \cup (n.faults \ snap.faults) \cup Only(late /\ ~skewed, Skew))
    \ ((snap.faults \ n.faults) \cup Only(~late /\ skewed, Skew))

\* What the companion's registers show.
Shown(name) ==
  CASE name \in Maintained -> output[name]
    [] name = "uptime" -> uptime
    [] OTHER -> face[name]

\* The poller's part: decode, age, evict; then on_poll.
Poll(t, fresh) ==
  LET v == [name \in Register |-> IF name \in fresh THEN Shown(name) ELSE got[name]]
      aged == [name \in Register |-> IF name \in fresh THEN 0
                                     ELSE IF name \in Registers[t] THEN Older(missed[name], Stale)
                                     ELSE missed[name]]
      has == {name \in Register : aged[name] # Stale}
      sinceDecode == IF "wallclock" \in fresh THEN 0 ELSE wallAge
      n == NewSnap(t, v, has)
      late == IsSkewed(v, has, sinceDecode)
  IN /\ t = "base" => sinceBase = BaseEvery
     /\ t = "prime" => snap.base
     /\ got' = v /\ missed' = aged /\ wallAge' = sinceDecode
     /\ sinceBase' = IF t = "base" /\ snap.base THEN 0 ELSE sinceBase
     /\ snap' = n
     /\ skewed' = late
     /\ validated' = (validated \/ n.major > 0)
     /\ rows' = RowsAfter(n, late)
     /\ orphans' = (orphans \cap rows') \ (n.faults \cup Only(late, Skew))
     /\ emitted' = Events(n)
     /\ told' = IF PositionEvents(n) = {} THEN told ELSE n.position
     /\ rebooted' = (rebooted /\ "uptime" \notin fresh)
     /\ UNCHANGED <<companion, link, noted>>

-----------------------------------------------------------------------------
(* Commands, the companion, and the rest.                                  *)

quiet == emitted' = {}

\* A command of ours is confirmed: note_command_write.  Its gates are Control's.
Command(c, on) ==
  /\ output' = [output EXCEPT ![c] = on]
  /\ noted' = [noted EXCEPT ![c][on] = 0]
  /\ quiet
  /\ UNCHANGED <<face, uptime, link, reading, snap, validated, skewed, rows, told, rebooted,
                 orphans>>

\* The companion releases an output, someone else drives it, or a write of
\* ours lands and its answer is lost: nothing is noted.
OutputMoves(c) ==
  /\ output' = [output EXCEPT ![c] = ~@]
  /\ quiet
  /\ UNCHANGED <<face, uptime, link, reading, session, rows, told, rebooted, orphans>>

FaceMoves(f) ==
  /\ f # face
  /\ face' = f
  /\ quiet
  /\ UNCHANGED <<output, uptime, link, reading, session, rows, told, rebooted, orphans>>

\* The companion comes up with no command asserted.
CompanionReboots ==
  /\ uptime' = 0 /\ rebooted' = TRUE
  /\ output' = [c \in Maintained |-> FALSE]
  /\ quiet
  /\ UNCHANGED <<face, link, reading, session, rows, told, orphans>>

LinkMoves(s) ==
  /\ s # link
  /\ link' = s
  /\ quiet
  /\ UNCHANGED <<companion, reading, session, rows, told, rebooted, orphans>>

\* Time passes; the base loop is never late.
Tick ==
  /\ sinceBase < BaseEvery
  /\ sinceBase' = sinceBase + 1
  /\ wallAge' = Older(wallAge, Stale * BaseEvery)
  /\ uptime' = Older(uptime, MaxUptime)
  /\ noted' = [c \in Maintained |-> [on \in BOOLEAN |-> Older(noted[c][on], Echo + 1)]]
  /\ quiet
  /\ UNCHANGED <<face, output, link, got, missed, snap, validated, skewed, rows, told,
                 rebooted, orphans>>

\* An acknowledged alarm loses its row; the service is not told.
Ack(a) ==
  /\ a \in rows
  /\ rows' = rows \ {a} /\ orphans' = orphans \ {a}
  /\ quiet
  /\ UNCHANGED <<companion, link, reading, session, told, rebooted>>

NoSnap ==
  [position |-> "unknown", mode |-> "unknown", avail |-> [s \in Source |-> "none"], faults |-> {},
   command |-> [c \in Maintained |-> FALSE], uptime |-> 0, major |-> 0, minor |-> 0, unit |-> 0,
   base |-> FALSE, read |-> FALSE]

\* No register was decoded: the values are placeholders that nothing reads.
NothingGot ==
  [name \in Register |->
     CASE name \in Maintained -> FALSE [] name \in Source -> "up" [] name = "faults" -> {}
       [] OTHER -> 0]

\* A command never written is one written long ago.
NeverNoted == [c \in Maintained |-> [on \in BOOLEAN |-> Echo + 1]]

\* The service starts again with empty RAM; companion and database remain.
Restart ==
  /\ snap' = NoSnap /\ validated' = FALSE /\ skewed' = FALSE
  /\ noted' = NeverNoted
  /\ got' = NothingGot /\ missed' = [name \in Register |-> Stale]
  /\ sinceBase' = BaseEvery /\ wallAge' = 0
  /\ link' = "healthy"
  /\ told' = Untold /\ orphans' = rows
  /\ quiet
  /\ UNCHANGED <<companion, rows, rebooted>>

-----------------------------------------------------------------------------
\* The companion may hold a command of an earlier process.
Init ==
  /\ face \in Face /\ output \in [Maintained -> BOOLEAN] /\ uptime = 0
  /\ link = "healthy"
  /\ got = NothingGot /\ missed = [name \in Register |-> Stale]
  /\ sinceBase = BaseEvery /\ wallAge = 0
  /\ snap = NoSnap /\ validated = FALSE /\ skewed = FALSE
  /\ noted = NeverNoted
  /\ rows = {} /\ emitted = {} /\ told = Untold
  /\ rebooted = FALSE /\ orphans = {}

Next ==
  \/ \E t \in Tier : \E fresh \in Yields[t] : Poll(t, fresh)
  \/ \E c \in Maintained, on \in BOOLEAN : Command(c, on)
  \/ \E c \in Maintained : OutputMoves(c)
  \/ \E f \in Face : FaceMoves(f)
  \/ \E s \in Link : LinkMoves(s)
  \/ \E a \in Alarm : Ack(a)
  \/ CompanionReboots \/ Tick \/ Restart

Spec == Init /\ [][Next]_vars

-----------------------------------------------------------------------------
(* Properties.                                                             *)

\* Every variable keeps its shape.
TypeOK ==
  /\ face \in Face /\ output \in [Maintained -> BOOLEAN] /\ uptime \in 0 .. MaxUptime
  /\ link \in Link
  /\ DOMAIN got = Register /\ missed \in [Register -> 0 .. Stale]
  /\ sinceBase \in 0 .. BaseEvery /\ wallAge \in 0 .. Stale * BaseEvery
  /\ snap \in [position: Position, mode: Mode, avail: [Source -> Supply \cup {"none"}],
               faults: SUBSET Fault, command: [Maintained -> BOOLEAN], uptime: 0 .. MaxUptime,
               major: Nat, minor: Nat, unit: Nat, base: BOOLEAN, read: BOOLEAN]
  /\ {validated, skewed, rebooted} \subseteq BOOLEAN
  /\ noted \in [Maintained -> [BOOLEAN -> 0 .. Echo + 1]]
  /\ orphans \subseteq rows /\ rows \subseteq Alarm
  /\ told \in Position \cup {Untold}

\* Authority rests on an identification read in this process: base polls that
\* decode nothing, evictions and restarts never vouch for an unknown or
\* foreign companion (ats.py:198-229).
AuthorityIdentified ==
  IsAuthoritative => got["major"] = ExpectedMajor /\ got["unit"] \in AcceptedUnit

\* No row leaks: every row of this process is one that a later poll clears,
\* because the fault is in the snapshot or the skew is remembered
\* (ats.py:334-364, 395-410).
RowsOwned == rows \ orphans \subseteq snap.faults \cup Only(skewed, Skew)

\* ats.py:535: "Suppresses the boot-time `unknown -> utility` transition
\* entirely".  A process that has told no position yet shows none or utility;
\* afterwards the position last told is the position shown.
PositionToldOnceUp ==
  told = snap.position \/ (told = Untold /\ snap.position \in {"unknown", "utility"})

\* What the code keeps of it (ats.py:525-563): the position shown is the one
\* last told, with missing registers, evictions and raw values that decode to
\* unknown in between; but the return from unknown to utility is silent at any
\* time, also after an outage in which the feed was told unknown.
PositionTold ==
  PositionToldOnceUp \/ (told = "unknown" /\ snap.position = "utility")

RebootTold == <<"ats-reboot">> \in emitted'

\* A reboot is only reported if the companion did reboot since its uptime was
\* last read, so one reboot is reported at most once, whatever was evicted or
\* restarted in between (ats.py:375-393).
RebootsReal == [][RebootTold => rebooted]_vars

\* Authority is never held against a position-tainting fault: the faults last
\* read have none, or fault_summary was unreadable for Stale polls and so left
\* the reading, which counts as no fault (ats.py:83-97, 277).
FaultsHoldAuthority ==
  IsAuthoritative => got["faults"] \cap PositionFault = {} \/ missed["faults"] = Stale

\* ats-pi-icd.md:355: the TIME_SKEW alarm fires when the companion's clock is
\* off by more than the threshold.
SkewIsReal ==
  [][~skewed /\ skewed' =>
       got'["wallclock"] > Threshold \/ -got'["wallclock"] > Threshold]_vars
=============================================================================
