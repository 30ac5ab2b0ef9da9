------------------------------- MODULE Poller -------------------------------
(***************************************************************************)
(* The two-tier Modbus poller (modbus/poller.py): the prime and base loops, *)
(* which read their register batches concurrently and share one comms       *)
(* health, the rolling-window classifier, the last-good values with their   *)
(* eviction, the heartbeat, the silence watchdog and the register-map swap. *)
(* Both links (H-100 and ATS-Pi) run an instance of it.                     *)
(*                                                                          *)
(* Times are kept as ages.  An age stops growing one past the last          *)
(* threshold it is compared with, so a state is finite and time is not.     *)
(* A step runs from one await to the next: recording a sample, decoding,    *)
(* evicting and publishing after the last batch are one step.               *)
(***************************************************************************)
EXTENDS Integers, Sequences, FiniteSets

CONSTANTS
  Register,     \* register names
  Map,          \* register maps the file may hold
  Batches,      \* [Map -> [Tier -> Seq of sets of registers]]
  StateRegs,    \* [Map -> registers behind engine_state_bits; none: ATS-Pi]
  Cadence,      \* [Tier -> poll period]
  Stale,        \* TIER_STALE_MULTIPLIER, also the watchdog's multiple
  Window,       \* length of the rolling sample window
  LostAfter,    \* consecutive failed samples that mean LOST
  Streak,       \* HEALTHY_RECOVERY_STREAK
  FlapWindow,   \* FLAP_WINDOW_S
  FlapMax       \* FLAP_MAX_EPISODES

Tier == {"prime", "base"}

ASSUME PollerAssumption ==
  /\ Map # {} /\ StateRegs \in [Map -> SUBSET Register]
  /\ \A m \in Map, t \in Tier : Batches[m][t] \in Seq(SUBSET Register)
  /\ Cadence \in [Tier -> Nat \ {0}]
  /\ {Stale, Window, LostAfter, Streak, FlapWindow, FlapMax} \subseteq Nat \ {0}
  /\ LostAfter <= Window

VARIABLES
  map,       \* Poller.regmap and the batch tables computed from it
  task,      \* the two polling loops
  age,       \* Reading.value_ages: time since the decode, or Absent
  silence,   \* time since last_prime_good_monotonic, or Absent
  health,    \* CommsHealth: state, consecutive failures and successes
  window,    \* _results
  episodes,  \* ages of the last transitions into LOST, newest first
  settled,   \* environment: from now on every read succeeds
  silenced   \* history: the link is LOST because the watchdog said so

vars == <<map, task, age, silence, health, window, episodes, settled, silenced>>

Absent == -1
NoMap == "none"    \* a loop that is not polling holds no map
TierOf(m, t) == UNION {Batches[m][t][i] : i \in DOMAIN Batches[m][t]}
StaleAge(t) == Stale * Cadence[t]
MaxAge == IF StaleAge("base") > StaleAge("prime") THEN StaleAge("base") ELSE StaleAge("prime")
MaxSilence == StaleAge("prime") + 1

\* One tick older, up to a cap; what was never stamped stays so.
Older(a, cap) == IF a = Absent \/ a = cap THEN a ELSE a + 1

-----------------------------------------------------------------------------
(* Comms health.                                                           *)

\* success_pct < 95.  The code rounds to one decimal; no quotient of a window
\* of at most 60 samples lies between 94.95 and 95.
BelowTarget(w) ==
  100 * Cardinality({i \in DOMAIN w : w[i]}) < 95 * Len(w)

\* deque(maxlen): a full window drops its oldest sample.
Push(w, ok) == Append(IF Len(w) = Window THEN Tail(w) ELSE w, ok)

\* The FlapMax youngest episodes decide whether FlapMax of them are recent.
Flapping == Len(episodes) = FlapMax /\ \A i \in DOMAIN episodes : episodes[i] <= FlapWindow
AddEpisode(e) == <<0>> \o (IF Len(e) = FlapMax THEN SubSeq(e, 1, FlapMax - 1) ELSE e)

\* Mutant: the fast path is open to a flapping link.
ClassifyUngated(fails, goods, w) ==
  IF fails >= LostAfter THEN "lost"
  ELSE IF goods >= Streak THEN "healthy"
  ELSE IF BelowTarget(w) \/ fails >= 1 THEN "degraded"
  ELSE "healthy"

\* _classify, on the counters and the window after a sample.
Classify(fails, goods, w) ==
  IF fails >= LostAfter THEN "lost"
  ELSE IF goods >= Streak /\ ~Flapping THEN "healthy"
  ELSE IF BelowTarget(w) \/ fails >= 1 THEN "degraded"
  ELSE "healthy"

\* The counters saturate at the thresholds they are compared with.
Capped(n, cap) == IF n > cap THEN cap ELSE n

\* Mutant: a success does not clear the failure count.
RecordSticky(ok) ==
  LET fails == IF ok THEN health.fails ELSE Capped(health.fails + 1, LostAfter)
      goods == IF ok THEN Capped(health.goods + 1, Streak) ELSE 0
      state == Classify(fails, goods, Push(window, ok))
  IN /\ window' = Push(window, ok)
     /\ health' = [state |-> state, fails |-> fails, goods |-> goods]
     /\ episodes' = IF state = "lost" /\ health.state # "lost" THEN AddEpisode(episodes) ELSE episodes
     /\ silenced' = (silenced /\ state = "lost")

\* _record: push the sample, count it, classify, and note a new LOST episode.
Record(ok) ==
  LET fails == IF ok THEN 0 ELSE Capped(health.fails + 1, LostAfter)
      goods == IF ok THEN Capped(health.goods + 1, Streak) ELSE 0
      state == Classify(fails, goods, Push(window, ok))
  IN /\ window' = Push(window, ok)
     /\ health' = [state |-> state, fails |-> fails, goods |-> goods]
     /\ episodes' = IF state = "lost" /\ health.state # "lost" THEN AddEpisode(episodes) ELSE episodes
     /\ silenced' = (silenced /\ state = "lost")

-----------------------------------------------------------------------------
(* One poll of a tier.                                                     *)

\* A poll of t is over.  The first base poll is start()'s own: only after it
\* do the loops and the watchdog exist, and both loops poll at once.
Sleep(t) ==
  LET first == task["prime"].pc = "off"
  IN [u \in Tier |->
        IF u = t \/ first
        THEN [pc |-> "sleep", map |-> NoMap, at |-> 1, got |-> {}, ok |-> FALSE,
              since |-> IF first THEN Cadence[u] ELSE task[u].since]
        ELSE task[u]]

\* A loop wakes up, captures the map and its batches, and starts reading;
\* with nothing to read it returns at once.
StartPoll(t) ==
  /\ task[t].pc = "sleep" /\ task[t].since >= Cadence[t]
  /\ task' = IF Batches[map][t] = <<>>
             THEN [Sleep(t) EXCEPT ![t].since = IF task["prime"].pc = "off" THEN @ ELSE 0]
             ELSE [task EXCEPT ![t] = [pc |-> "read", map |-> map, at |-> 1, got |-> {},
                                          ok |-> FALSE, since |-> 0]]
  /\ UNCHANGED <<map, age, silence, health, window, episodes, settled, silenced>>

Batch(t) == Batches[task[t].map][t][task[t].at]
IsLast(t) == task[t].at = Len(Batches[task[t].map][t])

\* What the batch read, or its fan-out into single registers, may bring:
\* a batch none of whose words could be read is the only failure sample.
ReadYields(t) ==
  {y \in BOOLEAN \X SUBSET Batch(t) :
     /\ ~y[1] => y[2] = {}
     /\ settled => y[1] /\ y[2] = Batch(t)}

ReadBatch(t, y) ==
  /\ task[t].pc = "read" /\ ~IsLast(t)
  /\ Record(y[1])
  /\ task' = [task EXCEPT ![t] = [pc |-> "read", map |-> @.map, at |-> @.at + 1,
                                  got |-> @.got \cup y[2], ok |-> (@.ok \/ y[1]),
                                  since |-> @.since]]
  /\ UNCHANGED <<map, age, silence, settled>>

\* Mutant: a poll that decoded nothing evicts nothing either.
RefreshedIfRead(t, got) ==
  [r \in Register |->
     IF r \in got THEN 0
     ELSE IF got # {} /\ r \in TierOf(task[t].map, t) /\ age[r] >= StaleAge(t) THEN Absent
     ELSE age[r]]

\* Last-good values after a poll: decoded now, kept, or evicted for age.
Refreshed(t, got) ==
  [r \in Register |->
     IF r \in got THEN 0
     ELSE IF r \in TierOf(task[t].map, t) /\ age[r] >= StaleAge(t) THEN Absent
     ELSE age[r]]

\* Mutant: a state register that merely still has a value counts as fresh.
HeartbeatStale(t, got, ok) ==
  t = "prime" /\ \A r \in StateRegs[task[t].map] : r \in got \/ age[r] # Absent

\* Mutant: any readable prime batch feeds the heartbeat.
HeartbeatAny(t, got, ok) == t = "prime" /\ ok

\* The heartbeat: a prime poll that decoded every engine-state register, or,
\* for a map without them, one that read anything.
Heartbeat(t, got, ok) ==
  /\ t = "prime"
  /\ IF StateRegs[task[t].map] = {} THEN ok ELSE StateRegs[task[t].map] \subseteq got

LastBatch(t, y) ==
  /\ task[t].pc = "read" /\ IsLast(t)
  /\ Record(y[1])
  /\ LET got == task[t].got \cup y[2]
     IN /\ age' = Refreshed(t, got)
        /\ silence' = IF Heartbeat(t, got, task[t].ok \/ y[1]) THEN 0 ELSE silence
  /\ task' = Sleep(t)
  /\ UNCHANGED <<map, settled>>

-----------------------------------------------------------------------------
(* The other tasks.                                                        *)

\* _watchdog: no prime heartbeat for more than three prime cadences.
Watchdog ==
  /\ silence > StaleAge("prime") /\ health.state # "lost"
  /\ health' = [state |-> "lost", goods |-> 0,
                fails |-> IF health.fails > LostAfter THEN health.fails ELSE LostAfter]
  /\ episodes' = AddEpisode(episodes)
  /\ silenced' = TRUE
  /\ UNCHANGED <<map, task, age, silence, window, settled>>

\* apply_regmap swaps map and batch tables; a poll in flight keeps its own.
ApplyRegmap(m) ==
  /\ m # map /\ ~settled
  /\ map' = m
  /\ UNCHANGED <<task, age, silence, health, window, episodes, settled, silenced>>

Tick ==
  /\ task' = [t \in Tier |-> [task[t] EXCEPT !.since = Older(@, Cadence[t])]]
  /\ age' = [r \in Register |-> Older(age[r], MaxAge)]
  /\ silence' = Older(silence, MaxSilence)
  /\ episodes' = [i \in DOMAIN episodes |-> Older(episodes[i], FlapWindow + 1)]
  /\ UNCHANGED <<map, health, window, settled, silenced>>

\* The cabling is repaired for good.
Settle ==
  /\ ~settled
  /\ settled' = TRUE
  /\ UNCHANGED <<map, task, age, silence, health, window, episodes, silenced>>

-----------------------------------------------------------------------------
\* start() is about to run its base poll; the prime loop does not exist yet.
Init ==
  /\ map \in Map
  /\ task = [t \in Tier |-> [pc |-> IF t = "prime" THEN "off" ELSE "sleep", map |-> NoMap,
                             at |-> 1, got |-> {}, ok |-> FALSE, since |-> Cadence[t]]]
  /\ age = [r \in Register |-> Absent] /\ silence = Absent
  /\ health = [state |-> "healthy", fails |-> 0, goods |-> 0]
  /\ window = <<>> /\ episodes = <<>>
  /\ settled = FALSE /\ silenced = FALSE

Read(t) == task[t].pc = "read" /\ \E y \in ReadYields(t) : ReadBatch(t, y) \/ LastBatch(t, y)

Next ==
  \/ \E t \in Tier : StartPoll(t) \/ Read(t)
  \/ \E m \in Map : ApplyRegmap(m)
  \/ Watchdog \/ Tick \/ Settle

Spec == Init /\ [][Next]_vars

\* The loops and the watchdog are tasks of one fair event loop, a read
\* answers or times out, and time passes.
FairSpec ==
  /\ Spec
  /\ \A t \in Tier : WF_vars(StartPoll(t)) /\ WF_vars(Read(t))
  /\ WF_vars(Watchdog) /\ WF_vars(Tick)

-----------------------------------------------------------------------------
(* Properties.                                                             *)

\* Every variable keeps its shape and every capped age its cap.
TypeOK ==
  /\ map \in Map
  /\ task \in [Tier -> [pc: {"off", "sleep", "read"}, map: Map \cup {NoMap}, at: Nat \ {0},
                        got: SUBSET Register, ok: BOOLEAN, since: Nat]]
  /\ \A t \in Tier : /\ task[t].since <= Cadence[t]
                     /\ task[t].pc = "read" => task[t].at <= Len(Batches[task[t].map][t])
  /\ age \in [Register -> Absent .. MaxAge]
  /\ silence \in Absent .. MaxSilence
  /\ health \in [state: {"healthy", "degraded", "lost"}, fails: 0 .. LostAfter, goods: 0 .. Streak]
  /\ window \in Seq(BOOLEAN) /\ Len(window) <= Window
  /\ episodes \in Seq(Nat) /\ Len(episodes) <= FlapMax
  /\ {settled, silenced} \subseteq BOOLEAN

\* The link is only called LOST by the watchdog or after LostAfter samples in
\* a row, of whichever tier, in which nothing at all could be read
\* (poller.py:296-311); it is never called healthy right after such a sample,
\* nor, without a streak or while it flaps, before the window is clean enough
\* (poller.py:484-493).
ClassifierSound ==
  /\ health.state = "lost" /\ ~silenced =>
       /\ Len(window) >= LostAfter
       /\ \A i \in Len(window) - LostAfter + 1 .. Len(window) : ~window[i]
  /\ health.state = "healthy" /\ window # <<>> => window[Len(window)]
  /\ health.state = "healthy" /\ (health.goods < Streak \/ Flapping) => ~BelowTarget(window)

\* Registers behind the engine state whichever map is in force.
AlwaysState == {r \in Register : \A m \in Map : r \in StateRegs[m]}

\* The heartbeat is never fresher than the engine-state registers it vouches
\* for (poller.py:378-396): as long as it is within the watchdog's bound,
\* those registers are present and were decoded no earlier.
HeartbeatHonest ==
  silence \in 0 .. StaleAge("prime") - 1 =>
    \A r \in AlwaysState : age[r] \in 0 .. silence

\* poller.py:252-257: after a LOST "a single later success can't immediately
\* un-LOST the link - it must rebuild the streak".
NoInstantRecovery ==
  [][health.state = "lost" /\ health'.state = "healthy" => health'.goods >= Streak]_vars

\* Engine-state registers that stop decoding for good are reported: the link
\* is LOST again and again, however readable its other registers are and
\* however often they bring it back (poller.py:239-261, 378-396).
FrozenStateReported ==
  (\E r \in AlwaysState : <>[](age[r] # 0)) => []<>(health.state = "lost" \/ silence = Absent)

Polled(m) == TierOf(m, "prime") \cup TierOf(m, "base")

\* A register that stops decoding for good leaves the reading for good,
\* although only a poll of its own tier evicts it, each tier by its own bound,
\* and reloads move it from one tier to the other under polls in flight
\* (poller.py:345-374).  The map that stays in force has to poll it: a register
\* that a reload drops is in no tier and keeps its last value.
DeadValuesLeave ==
  \A r \in Register :
    (\E m \in Map : r \in Polled(m) /\ <>[](map = m)) /\ <>[](age[r] # 0)
      => <>[](age[r] = Absent)

\* Once the link works for good it gets back to healthy, however much it
\* flapped before.
Recovers == settled ~> health.state = "healthy"
=============================================================================
