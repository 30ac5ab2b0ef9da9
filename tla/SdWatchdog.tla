----------------------------- MODULE SdWatchdog -----------------------------
(***************************************************************************)
(* The systemd watchdog: the ticker of main.py that pings systemd while the *)
(* prime poll's heartbeat is fresh (services/notify.py decides), and the    *)
(* unit's WatchdogSec, after which systemd kills and restarts the service.  *)
(*                                                                          *)
(* The heartbeat is the one of module Poller; here it may come or stay away *)
(* as it likes.  The event loop may also stop for good, and with it every   *)
(* task of the process.                                                     *)
(***************************************************************************)
EXTENDS Integers

CONSTANTS
  WatchdogSec,   \* of the unit file
  TickEvery,     \* `tick`: the ticker sleeps this long
  Latency,       \* the event loop runs a due task at most this much later
  StaleAfter,    \* `stale_after`
  Grace,         \* WATCHDOG_COLD_START_GRACE_S
  StartTime      \* READY=1 is sent at most this long after the service started

\* How main.py derives its periods from the unit's WatchdogSec.
ASSUME WatchdogAssumption ==
  /\ {WatchdogSec, TickEvery, StaleAfter} \subseteq Nat \ {0}
  /\ {Latency, Grace, StartTime} \subseteq Nat
  /\ TickEvery + Latency < WatchdogSec   \* tick is WatchdogSec / 4
  /\ TickEvery + Latency <= StaleAfter   \* stale_after is at least two ticks
  /\ StartTime <= Grace

VARIABLES
  boot,     \* time since service_start_mono, until the first heartbeat
  silence,  \* time since last_prime_good_monotonic, or Absent
  nap,      \* time since the ticker went to sleep
  quiet,    \* systemd: time since READY=1 or the last WATCHDOG=1
  hung,     \* time since the event loop stopped, or Absent
  late      \* history: by how much a heartbeat came too late since the last ping

timers == <<boot, silence, nap, quiet, hung, late>>

Absent == -1
Older(a) == IF a = Absent THEN Absent ELSE a + 1

ClocksTypeOK ==
  /\ boot \in Nat /\ nap \in Nat /\ quiet \in Nat /\ late \in Nat
  /\ silence \in Nat \cup {Absent} /\ hung \in Nat \cup {Absent}

-----------------------------------------------------------------------------
\* Mutant: a service that never saw a heartbeat is taken to be starting.
ShouldPingCold == silence = Absent \/ silence <= StaleAfter

\* Mutant: the heartbeat goes stale after one tick.
ShouldPingTick == IF silence = Absent THEN boot <= Grace ELSE silence <= TickEvery

\* should_ping_watchdog: within the grace of a cold start, or after a recent
\* heartbeat.
ShouldPing == IF silence = Absent THEN boot <= Grace ELSE silence <= StaleAfter

\* By how much the heartbeat is overdue.
Overdue == IF silence = Absent THEN boot - Grace ELSE silence - StaleAfter
Worst == IF Overdue > late THEN Overdue ELSE late

\* A prime poll decoded every engine-state register.
Heartbeat ==
  /\ hung = Absent /\ silence' = 0 /\ late' = Worst
  /\ UNCHANGED <<boot, nap, quiet, hung>>

\* The ticker wakes up, pings or withholds the ping, and sleeps again.
TickerPass ==
  /\ hung = Absent /\ nap >= TickEvery /\ nap' = 0
  /\ IF ShouldPing THEN quiet' = 0 /\ late' = 0 ELSE UNCHANGED <<quiet, late>>
  /\ UNCHANGED <<boot, silence, hung>>

Hang ==
  /\ hung = Absent /\ hung' = 0
  /\ UNCHANGED <<boot, silence, nap, quiet, late>>

\* systemd kills the unit and starts it again, up to its next READY=1.
Restart ==
  /\ quiet >= WatchdogSec
  /\ boot' \in 0..StartTime /\ silence' \in {Absent} \cup 0..boot'
  /\ nap' = 0 /\ quiet' = 0 /\ hung' = Absent /\ late' = 0

Elapse ==
  /\ hung # Absent \/ nap < TickEvery + Latency
  /\ quiet < WatchdogSec
  /\ boot' = (IF silence = Absent THEN boot + 1 ELSE boot)
  /\ nap' = nap + 1 /\ quiet' = quiet + 1
  /\ silence' = Older(silence) /\ hung' = Older(hung)
  /\ UNCHANGED late

-----------------------------------------------------------------------------
\* Startup is over: the poller runs, and may have polled already, READY=1 is
\* sent and the ticker goes to sleep.
WatchdogInit ==
  /\ boot \in 0..StartTime /\ silence \in {Absent} \cup 0..boot
  /\ nap = 0 /\ quiet = 0 /\ hung = Absent /\ late = 0

WatchdogNext == Heartbeat \/ TickerPass \/ Hang \/ Restart \/ Elapse
WatchdogSpec == WatchdogInit /\ [][WatchdogNext]_timers

-----------------------------------------------------------------------------
(* Properties.                                                              *)

\* A service that detects nothing any more does not stay up: the process is
\* restarted at most WatchdogSec after the last heartbeat went stale, or after
\* READY=1 if it went stale during a long start, after the cold-start grace of a
\* service that never saw one, or after the event loop stopped (notify.py:1-8,
\* 64-77).
FrozenRestarts ==
  /\ silence # Absent => \/ silence <= StaleAfter + WatchdogSec
                         \/ silence <= StartTime + WatchdogSec
  /\ silence = Absent => boot <= Grace + WatchdogSec
  /\ hung # Absent => hung <= WatchdogSec

\* systemd never kills a service over a short outage: when the watchdog is due
\* and the event loop is alive, a heartbeat was overdue, past stale_after or past
\* the grace, for longer than WatchdogSec less two late ticks, at some moment
\* since the last ping (main.py:434-451).
RestartJustified ==
  quiet >= WatchdogSec /\ hung = Absent =>
    Worst > WatchdogSec - 2 * (TickEvery + Latency)
=============================================================================
