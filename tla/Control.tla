------------------------------ MODULE Control ------------------------------
(***************************************************************************)
(* The confirm-token control surfaces of GenWatch:                         *)
(*   - ControlService          services/control.py   (H-100 start/stop/..) *)
(*   - AtsControlService       services/ats_control.py (ATS-Pi commands)   *)
(*   - POST /alarms/{code}/ack api/events.py                               *)
(*   - POST /registers/reload  api/settings.py                             *)
(* They share one token dictionary and one asyncio lock (hQ); the ATS      *)
(* service has a second lock (aQ) that it holds while it waits for hQ.     *)
(*                                                                         *)
(* A step runs from one real suspension point to the next.  Only a         *)
(* contended lock and a Modbus write suspend a handler: the coroutines     *)
(* that evict and consume tokens contain no other await, so a gate check   *)
(* and the consumption that follows it under a free lock are one step.     *)
(***************************************************************************)
EXTENDS Integers, Sequences

CONSTANTS
  Request,     \* API calls in flight in one behaviour
  Token,       \* confirm-token strings
  Operator,    \* principals
  RoleOf,      \* [Operator -> Role]
  Workload,    \* the job functions [Request -> Job] that TLC explores
  Map,         \* register maps the YAML file may hold
  Defines,     \* [Map -> set of control names the map defines]
  AtsDefines,  \* control names of the (never reloaded) ATS register map
  AtsEnabled,  \* settings.ats.enabled
  CommsSeen,   \* link states the poller may report
  PollYields,  \* sets of source registers a poll may decode
  AtsSeen,     \* ATS snapshots an ATS poll may produce
  EngineSeen,  \* engine states a poll may report
  PanelSeen,   \* panel positions a poll may report
  MaxEffect,   \* how often one client.write() may reach the controller: its resends
  TTL,         \* TOKEN_TTL_S
  Cadence,     \* prime poll period
  MaxTime,     \* bound on the monotonic clock
  MaxEpoch     \* bound on process restarts

Role == {"viewer", "operator", "admin"}
Comms == {"healthy", "degraded", "lost"}
AtsReading == [comms: Comms, trusted: BOOLEAN, fault: BOOLEAN, normal: BOOLEAN]
Kind == {"issue", "execute", "ats", "ack", "reload"}

Allowed ==
  [start    |-> {"stopped"},
   stop     |-> {"running", "exercising", "cranking", "cooling", "alarm"},
   exercise |-> {"stopped"},
   transfer |-> {"running"}]

VerbToControl ==
  [start |-> "remote_start", stop |-> "remote_stop",
   exercise |-> "exercise", transfer |-> "transfer"]

Maintained == {"inhibit", "force_transfer"}
Momentary == {"test", "bypass_delay"}
RoleRank == [viewer |-> 0, operator |-> 1, admin |-> 2]
\* The role a route demands (require_operator, require_admin).
NeededRole(j) ==
  IF j.kind = "reload" \/ (j.kind = "ats" /\ j.verb = "force_transfer")
  THEN "admin" ELSE "operator"

\* The control register an ATS command resolves to.
AtsControlName(command, on) ==
  CASE command = "test"           -> "ats_test"
    [] command = "bypass_delay"   -> "ats_bypass_delay"
    [] command = "inhibit"        -> IF on THEN "ats_inhibit_assert" ELSE "ats_inhibit_release"
    [] command = "force_transfer" -> IF on THEN "ats_force_assert" ELSE "ats_force_release"

Verb == DOMAIN Allowed \cup Maintained \cup Momentary \cup {"ack", "any", "reload"}

\* What one API call asks for.  "any" is the unbound verb of a token issued
\* without ?verb=; tok is the token submitted, or the one handed out.
Job == [kind: Kind, op: Operator, verb: Verb, tok: Token, on: BOOLEAN, override: BOOLEAN]

Refusal ==
  {"forbidden", "no_register", "comms_lost", "stale_data", "panel_mode_locked",
   "invalid_state", "ats_comms_lost", "ats_not_authoritative", "ats_fault",
   "override_required", "rate_limited", "not_active"}
TokenRefusal == {"token_invalid", "token_mismatch", "token_action_mismatch"}
Outcome == {"none", "ok", "modbus_failed", "map_invalid", "killed"} \cup Refusal \cup TokenRefusal

ASSUME ControlAssumption ==
  /\ Operator # {} /\ RoleOf \in [Operator -> Role]
  /\ Map # {}
  /\ AtsEnabled \in BOOLEAN
  /\ CommsSeen \subseteq Comms
  /\ AtsSeen \subseteq AtsReading
  /\ {TTL, Cadence, MaxTime, MaxEpoch} \subseteq Nat /\ MaxEffect \in Nat \ {0}

\* secrets.token_hex(16) never hands out the same token twice, and a start,
\* stop, ... is only ever asked of the surface that knows the verb.
ASSUME WorkloadAssumption ==
  \A w \in Workload :
    /\ w \in [Request -> Job]
    /\ \A r, q \in Request :
         w[r].kind = "issue" /\ w[q].kind = "issue" /\ w[r].tok = w[q].tok => r = q
    /\ \A r \in Request :
         /\ w[r].kind = "execute" => w[r].verb \in DOMAIN Allowed
         /\ w[r].kind = "ats" => AtsEnabled /\ w[r].verb \in Maintained \cup Momentary
         /\ w[r].kind = "ack" => w[r].verb = "ack"

VARIABLES
  job,       \* what each request asks for: fixed by the clients
  pc,        \* where each request's handler is suspended
  result,    \* HTTP outcome of each request
  clock,     \* time.monotonic()
  epoch,     \* process incarnation: tokens and locks live in RAM
  snap,      \* StateMachine.snap: what the last poll showed
  ats,       \* AtsService.snap, reduced to what the gates read
  tokens,    \* keys of ControlService._tokens
  grant,     \* the ConfirmToken each issued token stands for
  issued,    \* history: every token ever handed out
  hQ,        \* ControlService._lock: holder first, then waiters
  aQ,        \* AtsControlService._lock
  ctlMap,    \* ControlService.regmap
  liveMap,   \* Poller.regmap and StateMachine.regmap
  appMap,    \* app.state.regmap
  held,      \* the map a suspended handler captured
  alarm,     \* the alarm has a row in alarms_active
  sent,      \* history: requests whose Modbus write was started
  stamp,     \* history: the circumstances of that start
  landed,    \* history: how often each request's write reached the controller
  audit,     \* audit rows <<request, what>>
  evicted,   \* tokens with a control.evict_token audit row
  acted      \* history: verbs confirmed since the engine state was last decoded

reqVars == <<job, pc, result>>
tokVars == <<tokens, grant, issued, evicted>>
mapVars == <<ctlMap, liveMap, appMap, held>>
envVars == <<clock, epoch, snap, ats, alarm>>
histVars == <<sent, stamp, landed, acted>>
vars == <<reqVars, tokVars, mapVars, envVars, histVars, hQ, aQ, audit>>

-----------------------------------------------------------------------------
(* The state the gates read.                                               *)

Never == -1 - 3 * Cadence
NoReading == [engine |-> "unknown", panel |-> "unknown", comms |-> "healthy",
              engineAt |-> Never, panelAt |-> Never]
NoAts == [comms |-> "healthy", trusted |-> FALSE, fault |-> FALSE, normal |-> FALSE]

\* _stale_control_registers: a source register is missing or older than two
\* prime cadences.
StaleControlRegisters ==
  \/ clock - snap.engineAt > 2 * Cadence
  \/ clock - snap.panelAt > 2 * Cadence

IsAuthoritative == ats.comms = "healthy" /\ ats.trusted

\* An assert drives or pulses a relay; a release opens it.
IsAssert(j) == j.verb \in Momentary \/ j.on

\* The early returns of execute() under the lock, in order.
ExecuteGate(j) ==
  IF VerbToControl[j.verb] \notin Defines[ctlMap] THEN "no_register"
  ELSE IF snap.comms # "healthy" THEN "comms_lost"
  ELSE IF StaleControlRegisters THEN "stale_data"
  ELSE IF snap.panel # "auto" THEN "panel_mode_locked"
  ELSE IF snap.engine \notin Allowed[j.verb] THEN "invalid_state"
  ELSE "ok"

\* The gates that protect an ATS assert.
AtsAssertGate(j) ==
  IF ~IsAuthoritative THEN "ats_not_authoritative"
  ELSE IF ats.fault THEN "ats_fault"
  ELSE IF j.verb = "force_transfer" /\ ~j.override /\ ats.normal THEN "override_required"
  ELSE "ok"

\* The early returns of AtsControlService.execute() under its lock.
AtsGate(j) ==
  IF ats.comms = "lost" THEN "ats_comms_lost"
  ELSE IF IsAssert(j) /\ AtsAssertGate(j) # "ok" THEN AtsAssertGate(j)
  ELSE IF AtsControlName(j.verb, j.on) \notin AtsDefines THEN "no_register"
  ELSE "ok"

\* The early returns of ack_alarm() before it asks for the token.
AckGate ==
  IF ~alarm THEN "not_active"
  ELSE IF snap.comms = "lost" THEN "comms_lost"
  ELSE "ok"

-----------------------------------------------------------------------------
(* The token dictionary.                                                   *)

\* _evict_expired_locked: strictly past the expiry.
Expired == {t \in tokens : grant[t].at + TTL < clock}

\* Mutants: no operator binding; a token the dictionary does not know.
ConsumeUnbound(j) ==
  IF j.tok \notin tokens \ Expired THEN "token_invalid"
  ELSE IF grant[j.tok].verb \notin {"any", j.verb} THEN "token_action_mismatch"
  ELSE "ok"

ConsumeUnknown(j) == IF grant[j.tok].op # j.op THEN "token_mismatch" ELSE "ok"

\* _consume_token_locked: eviction, then pop, then the checks on what was
\* popped.
ConsumeResult(j) ==
  IF j.tok \notin tokens \ Expired THEN "token_invalid"
  ELSE IF grant[j.tok].op # j.op THEN "token_mismatch"
  ELSE IF grant[j.tok].verb \notin {"any", j.verb} THEN "token_action_mismatch"
  ELSE "ok"

\* Mutants: the token stays, or expires silently.
PopTokenKept(j) ==
  /\ tokens' = tokens \ Expired
  /\ evicted' = evicted \cup Expired
  /\ UNCHANGED <<grant, issued>>

PopTokenSilent(j) ==
  /\ tokens' = (tokens \ Expired) \ {j.tok}
  /\ UNCHANGED <<grant, issued, evicted>>

\* Eviction and pop leave the same dictionary whatever the checks say.
PopToken(j) ==
  /\ tokens' = (tokens \ Expired) \ {j.tok}
  /\ evicted' = evicted \cup Expired
  /\ UNCHANGED <<grant, issued>>

-----------------------------------------------------------------------------
(* How a handler moves on.                                                 *)

Finish(r, code) ==
  /\ pc' = [pc EXCEPT ![r] = "done"]
  /\ result' = [result EXCEPT ![r] = code]

Log(rows) == audit' = audit \cup rows

\* An HTTP error raised by a gate leaves an audit row: "failed" when the
\* control is not in the map, "denied" otherwise.
Refuse(r, code) ==
  /\ Finish(r, code)
  /\ Log({<<r, IF code = "no_register" THEN "failed" ELSE "denied">>})

\* A Modbus write leaves: the handler suspends in client.write().
Send(r) ==
  /\ pc' = [pc EXCEPT ![r] = "writing"]
  /\ sent' = sent \cup {r}
  /\ stamp' = [stamp EXCEPT ![r] =
       [at |-> clock, epoch |-> epoch,
        safe |-> job[r].kind = "ats" /\ IsAssert(job[r]) => AtsAssertGate(job[r]) = "ok",
        repeat |-> job[r].kind = "execute" /\ job[r].verb \in acted]]
  /\ UNCHANGED <<landed, acted>>

\* Mutant: the lock is let go before the write.
HoldNothing(q, r) == IF q = <<>> THEN <<>> ELSE Tail(q)

\* An asyncio.Lock is its queue: the head holds it, the rest wait in order.
\* Acquiring a free lock does not suspend; a released lock goes to its first
\* waiter even if somebody arrives before that waiter runs.
Has(q, r) == q # <<>> /\ Head(q) = r
Hold(q, r) == IF q = <<>> THEN <<r>> ELSE q
Release(q) == IF q = <<>> THEN <<>> ELSE Tail(q)

\* The handler of r runs with the control lock: it found the lock free, or
\* it was woken as its first waiter.
WithLock(r) == \/ pc[r] = "idle" /\ hQ = <<>>
               \/ pc[r] = "hwait" /\ Has(hQ, r)

WaitForLock(r) ==
  /\ pc[r] = "idle" /\ hQ # <<>>
  /\ pc' = [pc EXCEPT ![r] = "hwait"]
  /\ hQ' = Append(hQ, r)

Permitted(r) == RoleRank[RoleOf[job[r].op]] >= RoleRank[NeededRole(job[r])]

\* The route's role dependency answers 403 before any handler runs.
Forbidden(r) ==
  /\ pc[r] = "idle" /\ ~Permitted(r)
  /\ Finish(r, "forbidden")
  /\ UNCHANGED <<job, tokVars, mapVars, envVars, histVars, hQ, aQ, audit>>

-----------------------------------------------------------------------------
(* GET /api/control/confirm.                                               *)

IssueWaits(r) ==
  /\ job[r].kind = "issue" /\ Permitted(r)
  /\ WaitForLock(r)
  /\ UNCHANGED <<job, result, tokVars, mapVars, envVars, histVars, aQ, audit>>

IssueToken(r) ==
  /\ job[r].kind = "issue" /\ Permitted(r) /\ WithLock(r)
  /\ tokens' = (tokens \ Expired) \cup {job[r].tok}
  /\ evicted' = evicted \cup Expired
  /\ grant' = [grant EXCEPT ![job[r].tok] =
       [op |-> job[r].op, verb |-> job[r].verb, at |-> clock, epoch |-> epoch]]
  /\ issued' = issued \cup {job[r].tok}
  /\ hQ' = Release(hQ)
  /\ Finish(r, "ok")
  /\ Log({<<r, "issue">>})
  /\ UNCHANGED <<job, mapVars, envVars, histVars, aQ>>

-----------------------------------------------------------------------------
(* POST /api/control/<verb>: ControlService.execute().                     *)

ExecuteWaits(r) ==
  /\ job[r].kind = "execute" /\ Permitted(r)
  /\ WaitForLock(r)
  /\ UNCHANGED <<job, result, tokVars, mapVars, envVars, histVars, aQ, audit>>

\* Mutant: the token is consumed before the gates are looked at.
ExecuteRefusedLate(r) ==
  /\ job[r].kind = "execute" /\ Permitted(r) /\ WithLock(r)
  /\ ExecuteGate(job[r]) # "ok"
  /\ PopToken(job[r])
  /\ Refuse(r, ExecuteGate(job[r]))
  /\ hQ' = Release(hQ)
  /\ UNCHANGED <<job, mapVars, envVars, histVars, aQ>>

ExecuteRefused(r) ==
  /\ job[r].kind = "execute" /\ Permitted(r) /\ WithLock(r)
  /\ ExecuteGate(job[r]) # "ok"
  /\ Refuse(r, ExecuteGate(job[r]))
  /\ hQ' = Release(hQ)
  /\ UNCHANGED <<job, tokVars, mapVars, envVars, histVars, aQ>>

ExecuteTokenRefused(r) ==
  /\ job[r].kind = "execute" /\ Permitted(r) /\ WithLock(r)
  /\ ExecuteGate(job[r]) = "ok"
  /\ ConsumeResult(job[r]) # "ok"
  /\ PopToken(job[r])
  /\ Finish(r, ConsumeResult(job[r]))
  /\ Log({<<r, "token_denied">>})
  /\ hQ' = Release(hQ)
  /\ UNCHANGED <<job, mapVars, envVars, histVars, aQ>>

\* The lock stays held across the Modbus write.
ExecuteSend(r) ==
  /\ job[r].kind = "execute" /\ Permitted(r) /\ WithLock(r)
  /\ ExecuteGate(job[r]) = "ok"
  /\ ConsumeResult(job[r]) = "ok"
  /\ PopToken(job[r])
  /\ Send(r)
  /\ held' = [held EXCEPT ![r] = ctlMap]
  /\ hQ' = Hold(hQ, r)
  /\ UNCHANGED <<job, result, ctlMap, liveMap, appMap, envVars, aQ, audit>>

\* Mutant: a failed write leaves without the lock's release.
ExecuteDoneLeaky(r, ok) ==
  /\ pc[r] = "writing" /\ job[r].kind = "execute"
  /\ ok => landed[r] > 0
  /\ Finish(r, IF ok THEN "ok" ELSE "modbus_failed")
  /\ Log({<<r, IF ok THEN "ok" ELSE "failed">>})
  /\ hQ' = IF ok THEN Release(hQ) ELSE hQ
  /\ acted' = IF ok THEN acted \cup {job[r].verb} ELSE acted
  /\ UNCHANGED <<job, tokVars, mapVars, envVars, sent, stamp, landed, aQ>>

ExecuteDone(r, ok) ==
  /\ pc[r] = "writing" /\ job[r].kind = "execute"
  /\ ok => landed[r] > 0
  /\ Finish(r, IF ok THEN "ok" ELSE "modbus_failed")
  /\ Log({<<r, IF ok THEN "ok" ELSE "failed">>})
  /\ hQ' = Release(hQ)
  /\ acted' = IF ok THEN acted \cup {job[r].verb} ELSE acted
  /\ UNCHANGED <<job, tokVars, mapVars, envVars, sent, stamp, landed, aQ>>

-----------------------------------------------------------------------------
(* POST /api/ats/<command>: AtsControlService.execute().                   *)

\* The rate limiter of the route: its bucket is not modelled here, it may
\* turn away any call.
AtsTurnedAway(r) ==
  /\ pc[r] = "idle" /\ job[r].kind = "ats" /\ Permitted(r)
  /\ Refuse(r, "rate_limited")
  /\ UNCHANGED <<job, tokVars, mapVars, envVars, histVars, hQ, aQ>>

AtsWaits(r) ==
  /\ pc[r] = "idle" /\ job[r].kind = "ats" /\ Permitted(r) /\ aQ # <<>>
  /\ pc' = [pc EXCEPT ![r] = "await"]
  /\ aQ' = Append(aQ, r)
  /\ UNCHANGED <<job, result, tokVars, mapVars, envVars, histVars, hQ, audit>>

\* The handler of r evaluates its gates with the ATS lock.
AtsGates(r) ==
  /\ job[r].kind = "ats" /\ Permitted(r)
  /\ \/ pc[r] = "idle" /\ aQ = <<>>
     \/ pc[r] = "await" /\ Has(aQ, r)

AtsRefused(r) ==
  /\ AtsGates(r) /\ AtsGate(job[r]) # "ok"
  /\ Refuse(r, AtsGate(job[r]))
  /\ aQ' = Release(aQ)
  /\ UNCHANGED <<job, tokVars, mapVars, envVars, histVars, hQ>>

\* consume_token() found the control lock taken: the request waits for it
\* with the ATS lock held and its gates already passed.
AtsWaitsForToken(r) ==
  /\ AtsGates(r) /\ AtsGate(job[r]) = "ok"
  /\ hQ # <<>>
  /\ pc' = [pc EXCEPT ![r] = "hwait"]
  /\ hQ' = Append(hQ, r)
  /\ aQ' = Hold(aQ, r)
  /\ UNCHANGED <<job, result, tokVars, mapVars, envVars, histVars, audit>>

\* consume_token() runs: in the same breath as the gates if the control lock
\* was free, otherwise when r is woken.
AtsReachesToken(r) ==
  /\ \/ AtsGates(r) /\ AtsGate(job[r]) = "ok" /\ hQ = <<>>
     \/ job[r].kind = "ats" /\ pc[r] = "hwait" /\ Has(hQ, r)
  /\ hQ' = Release(hQ)

AtsTokenRefused(r) ==
  /\ AtsReachesToken(r)
  /\ ConsumeResult(job[r]) # "ok"
  /\ PopToken(job[r])
  /\ Finish(r, ConsumeResult(job[r]))
  /\ Log({<<r, "token_denied">>})
  /\ aQ' = Release(aQ)
  /\ UNCHANGED <<job, mapVars, envVars, histVars>>

AtsSend(r) ==
  /\ AtsReachesToken(r)
  /\ ConsumeResult(job[r]) = "ok"
  /\ PopToken(job[r])
  /\ Send(r)
  /\ aQ' = Hold(aQ, r)
  /\ UNCHANGED <<job, result, mapVars, envVars, audit>>

AtsDone(r, ok) ==
  /\ pc[r] = "writing" /\ job[r].kind = "ats"
  /\ ok => landed[r] > 0
  /\ Finish(r, IF ok THEN "ok" ELSE "modbus_failed")
  /\ Log({<<r, IF ok THEN "ok" ELSE "failed">>})
  /\ aQ' = Release(aQ)
  /\ UNCHANGED <<job, tokVars, mapVars, envVars, histVars, hQ>>

-----------------------------------------------------------------------------
(* POST /api/alarms/{code}/ack.                                            *)

\* 404 and 409 answer without an audit row.
AckRefused(r) ==
  /\ pc[r] = "idle" /\ job[r].kind = "ack"
  /\ Permitted(r) /\ AckGate # "ok"
  /\ Finish(r, AckGate)
  /\ UNCHANGED <<job, tokVars, mapVars, envVars, histVars, hQ, aQ, audit>>

\* The handler read app.state.regmap before it waits.
AckWaitsForToken(r) ==
  /\ job[r].kind = "ack" /\ Permitted(r) /\ AckGate = "ok"
  /\ WaitForLock(r)
  /\ held' = [held EXCEPT ![r] = appMap]
  /\ UNCHANGED <<job, result, tokVars, ctlMap, liveMap, appMap, envVars, histVars, aQ, audit>>

AckMap(r) == IF pc[r] = "idle" THEN appMap ELSE held[r]

AckReachesToken(r) ==
  /\ job[r].kind = "ack" /\ Permitted(r) /\ WithLock(r)
  /\ pc[r] = "idle" => AckGate = "ok"
  /\ hQ' = Release(hQ)
  /\ held' = [held EXCEPT ![r] = AckMap(r)]

AckTokenRefused(r) ==
  /\ AckReachesToken(r)
  /\ ConsumeResult(job[r]) # "ok"
  /\ PopToken(job[r])
  /\ Finish(r, ConsumeResult(job[r]))
  /\ Log({<<r, "token_denied">>})
  /\ UNCHANGED <<job, ctlMap, liveMap, appMap, envVars, histVars, aQ>>

\* The write runs with no control lock held.
AckSend(r) ==
  /\ AckReachesToken(r)
  /\ ConsumeResult(job[r]) = "ok"
  /\ "ack_alarm" \in Defines[AckMap(r)]
  /\ PopToken(job[r])
  /\ Send(r)
  /\ UNCHANGED <<job, result, ctlMap, liveMap, appMap, envVars, aQ, audit>>

\* No ack_alarm control in the map: the row is cleared locally only.
AckLocalOnly(r) ==
  /\ AckReachesToken(r)
  /\ ConsumeResult(job[r]) = "ok"
  /\ "ack_alarm" \notin Defines[AckMap(r)]
  /\ PopToken(job[r])
  /\ alarm' = FALSE
  /\ Finish(r, "ok")
  /\ Log({<<r, "ok">>})
  /\ UNCHANGED <<job, ctlMap, liveMap, appMap, clock, epoch, snap, ats, histVars, aQ>>

\* Mutant: the row is acknowledged whatever the controller answered.
AckDoneBlind(r, ok) ==
  /\ pc[r] = "writing" /\ job[r].kind = "ack" /\ ok
  /\ Finish(r, "ok")
  /\ Log({<<r, "ok">>})
  /\ alarm' = FALSE
  /\ UNCHANGED <<job, tokVars, mapVars, clock, epoch, snap, ats, histVars, hQ, aQ>>

AckDone(r, ok) ==
  /\ pc[r] = "writing" /\ job[r].kind = "ack"
  /\ ok => landed[r] > 0
  /\ Finish(r, IF ok THEN "ok" ELSE "modbus_failed")
  /\ Log({<<r, IF ok THEN "ok" ELSE "failed">>})
  /\ alarm' = (alarm /\ ~ok)
  /\ UNCHANGED <<job, tokVars, mapVars, clock, epoch, snap, ats, histVars, hQ, aQ>>

-----------------------------------------------------------------------------
(* POST /api/registers/reload.                                             *)

\* The file does not parse: nothing is swapped.
ReloadRefused(r) ==
  /\ pc[r] = "idle" /\ job[r].kind = "reload" /\ Permitted(r)
  /\ Finish(r, "map_invalid") /\ Log({<<r, "failed">>})
  /\ UNCHANGED <<job, tokVars, mapVars, envVars, histVars, hQ, aQ>>

\* The parsed file is swapped into the poller and the state machine; then
\* ControlService.apply_regmap() has to wait for the control lock.
ReloadWaits(r, m) ==
  /\ job[r].kind = "reload" /\ Permitted(r)
  /\ WaitForLock(r)
  /\ liveMap' = m
  /\ held' = [held EXCEPT ![r] = m]
  /\ UNCHANGED <<job, result, tokVars, ctlMap, appMap, envVars, histVars, aQ, audit>>

\* Mutants: apply_regmap() takes no lock; app.state keeps its map.
ReloadApplyUnlocked(r, m) ==
  /\ job[r].kind = "reload" /\ Permitted(r) /\ pc[r] = "idle"
  /\ liveMap' = m /\ ctlMap' = m /\ appMap' = m
  /\ Finish(r, "ok")
  /\ Log({<<r, "ok">>})
  /\ UNCHANGED <<job, tokVars, held, envVars, histVars, hQ, aQ>>

ReloadApplyPartial(r, m) ==
  /\ job[r].kind = "reload" /\ Permitted(r) /\ WithLock(r)
  /\ pc[r] = "hwait" => m = held[r]
  /\ liveMap' = IF pc[r] = "idle" THEN m ELSE liveMap
  /\ ctlMap' = m
  /\ hQ' = Release(hQ)
  /\ Finish(r, "ok")
  /\ Log({<<r, "ok">>})
  /\ UNCHANGED <<job, tokVars, held, appMap, envVars, histVars, aQ>>

\* The control service and app.state follow: at once if the lock is free.
ReloadApply(r, m) ==
  /\ job[r].kind = "reload" /\ Permitted(r) /\ WithLock(r)
  /\ pc[r] = "hwait" => m = held[r]
  /\ liveMap' = IF pc[r] = "idle" THEN m ELSE liveMap
  /\ ctlMap' = m
  /\ appMap' = m
  /\ hQ' = Release(hQ)
  /\ Finish(r, "ok")
  /\ Log({<<r, "ok">>})
  /\ UNCHANGED <<job, tokVars, held, envVars, histVars, aQ>>

-----------------------------------------------------------------------------
(* The surroundings.                                                       *)

\* A frame of a started write reaches the controller, the first or a resend of
\* the library: while the handler waits, or after it timed out or died.
WriteLands(r) ==
  /\ r \in sent /\ landed[r] < MaxEffect
  /\ landed' = [landed EXCEPT ![r] = @ + 1]
  /\ UNCHANGED <<reqVars, tokVars, mapVars, envVars, sent, stamp, acted, hQ, aQ, audit>>

\* A prime poll reaches StateMachine.update().  fresh names the source
\* registers decoded in this cycle; the engine state is pinned when its
\* registers are missing, the panel position is not.
PollApplied(fresh, engine, panel) ==
  LET aged(at) == IF clock - at >= 3 * Cadence THEN Never ELSE at
  IN /\ snap' = [snap EXCEPT
          !.engine   = IF "engine" \in fresh THEN engine ELSE @,
          !.engineAt = IF "engine" \in fresh THEN clock ELSE aged(@),
          !.panel    = IF "panel" \in fresh THEN panel
                       ELSE IF aged(snap.panelAt) = Never THEN "unknown" ELSE @,
          !.panelAt  = IF "panel" \in fresh THEN clock ELSE aged(@)]
     /\ acted' = IF "engine" \in fresh THEN {} ELSE acted
     /\ UNCHANGED <<reqVars, tokVars, mapVars, clock, epoch, ats, alarm,
                    sent, stamp, landed, hQ, aQ, audit>>

\* The snapshot shares the poller's CommsHealth object, so the link state
\* the gates read moves with the poller, not with the next update().
CommsMoves(s) ==
  /\ s # snap.comms
  /\ snap' = [snap EXCEPT !.comms = s]
  /\ UNCHANGED <<reqVars, tokVars, mapVars, clock, epoch, ats, alarm, histVars, hQ, aQ, audit>>

\* AtsService.on_poll() decoded something else, as long as a call may look.
AtsMoves(a) ==
  /\ AtsEnabled
  /\ \E r \in Request : job[r].kind = "ats" /\ pc[r] # "done"
  /\ a # ats
  /\ ats' = a
  /\ UNCHANGED <<reqVars, tokVars, mapVars, clock, epoch, snap, alarm, histVars, hQ, aQ, audit>>

\* The alarm pipeline raises or clears the row, as long as an ack may look.
AlarmMoves ==
  /\ \E r \in Request : job[r].kind = "ack" /\ pc[r] # "done"
  /\ alarm' = ~alarm
  /\ UNCHANGED <<reqVars, tokVars, mapVars, clock, epoch, snap, ats, histVars, hQ, aQ, audit>>

Tick ==
  /\ clock < MaxTime
  /\ clock' = clock + 1
  /\ UNCHANGED <<reqVars, tokVars, mapVars, epoch, snap, ats, alarm, histVars, hQ, aQ, audit>>

\* The process dies (crash, power cut, watchdog kill) and comes back with
\* empty RAM; the database, what was already on the wire, and a map file
\* the operator may have edited survive.
Restart(m) ==
  /\ epoch < MaxEpoch
  /\ epoch' = epoch + 1
  /\ tokens' = {}
  /\ hQ' = <<>> /\ aQ' = <<>>
  /\ pc' = [r \in Request |-> IF pc[r] = "idle" THEN "idle" ELSE "done"]
  /\ result' = [r \in Request |-> IF pc[r] \in {"idle", "done"} THEN result[r] ELSE "killed"]
  /\ snap' = NoReading
  /\ ats' = NoAts
  /\ liveMap' = m /\ ctlMap' = m /\ appMap' = m
  /\ acted' = {}
  /\ UNCHANGED <<job, grant, issued, evicted, held, clock, alarm, sent, stamp, landed, audit>>

-----------------------------------------------------------------------------
Init ==
  /\ job \in Workload
  /\ pc = [r \in Request |-> "idle"]
  /\ result = [r \in Request |-> "none"]
  /\ clock = 0 /\ epoch = 0
  /\ snap = NoReading /\ ats = NoAts /\ alarm = FALSE
  /\ tokens = {} /\ issued = {} /\ evicted = {}
  /\ grant = [t \in Token |-> [op |-> CHOOSE o \in Operator : TRUE,
                               verb |-> "any", at |-> 0, epoch |-> 0]]
  /\ hQ = <<>> /\ aQ = <<>>
  /\ \E m \in Map : ctlMap = m /\ liveMap = m /\ appMap = m /\ held = [r \in Request |-> m]
  /\ sent = {} /\ landed = [r \in Request |-> 0] /\ audit = {} /\ acted = {}
  /\ stamp = [r \in Request |-> [at |-> 0, epoch |-> 0, safe |-> TRUE, repeat |-> FALSE]]

\* The steps of the request handlers.
Handle(r) ==
  \/ Forbidden(r)
  \/ IssueWaits(r) \/ IssueToken(r)
  \/ ExecuteWaits(r) \/ ExecuteRefused(r)
  \/ ExecuteTokenRefused(r) \/ ExecuteSend(r)
  \/ AtsTurnedAway(r) \/ AtsWaits(r) \/ AtsRefused(r) \/ AtsWaitsForToken(r)
  \/ AtsTokenRefused(r) \/ AtsSend(r)
  \/ AckRefused(r) \/ AckWaitsForToken(r) \/ AckTokenRefused(r) \/ AckSend(r) \/ AckLocalOnly(r)
  \/ \E ok \in BOOLEAN : ExecuteDone(r, ok) \/ AtsDone(r, ok) \/ AckDone(r, ok)
  \/ ReloadRefused(r)
  \/ \E m \in Map : ReloadWaits(r, m) \/ ReloadApply(r, m)

Environment ==
  \/ \E r \in Request : WriteLands(r)
  \/ \E fresh \in PollYields, e \in EngineSeen, p \in PanelSeen :
       PollApplied(fresh, e, p)
  \/ \E s \in CommsSeen : CommsMoves(s)
  \/ \E a \in AtsSeen : AtsMoves(a)
  \/ AlarmMoves
  \/ Tick
  \/ \E m \in Map : Restart(m)

Next == (\E r \in Request : Handle(r)) \/ Environment

Spec == Init /\ [][Next]_vars

\* A handler that can run, runs: the event loop is fair, a lock is handed to
\* its first waiter, and client.write() answers or times out.
Progress(r) == pc[r] # "idle" /\ Handle(r)
FairSpec == Spec /\ \A r \in Request : WF_vars(Progress(r))
-----------------------------------------------------------------------------
(* Properties.                                                             *)

Reading == [engine: EngineSeen \cup {"unknown"}, panel: PanelSeen \cup {"unknown"},
            comms: Comms, engineAt: Int, panelAt: Int]
Grant == [op: Operator, verb: Verb, at: Nat, epoch: Nat]
Stamp == [at: Nat, epoch: Nat, safe: BOOLEAN, repeat: BOOLEAN]
AuditWhat == {"issue", "denied", "token_denied", "ok", "failed"}

RequestType ==
  /\ job \in [Request -> Job]
  /\ pc \in [Request -> {"idle", "hwait", "await", "writing", "done"}]
  /\ result \in [Request -> Outcome]
  /\ hQ \in Seq(Request) /\ aQ \in Seq(Request)

TokenType ==
  /\ issued \subseteq Token /\ tokens \subseteq issued /\ evicted \subseteq issued
  /\ grant \in [Token -> Grant]

EnvironmentType ==
  /\ clock \in Nat /\ epoch \in Nat
  /\ snap \in Reading
  /\ ats \in AtsReading
  /\ alarm \in BOOLEAN

MapType ==
  /\ ctlMap \in Map /\ liveMap \in Map /\ appMap \in Map
  /\ held \in [Request -> Map]

HistoryType ==
  /\ sent \subseteq Request /\ landed \in [Request -> 0..MaxEffect]
  /\ stamp \in [Request -> Stamp]
  /\ audit \subseteq Request \X AuditWhat
  /\ acted \subseteq Verb

\* Every variable of the control surfaces keeps its shape, and the token
\* dictionary only ever holds tokens that were handed out.
TypeOK == RequestType /\ TokenType /\ EnvironmentType /\ MapType /\ HistoryType

\* "single-use" (control.py:10): over both control surfaces, the alarm ack,
\* retries and restarts, one token starts at most one Modbus write.
TokenSingleUse ==
  \A r, q \in sent : job[r].tok = job[q].tok => r = q

\* A write is only ever started for the operator the token was issued to,
\* for the action it was bound to, within its 30 s, by the process that
\* issued it - however long the request queued on the locks
\* (_consume_token_locked).
TokenAuthorises ==
  \A r \in sent :
    LET g == grant[job[r].tok]
    IN /\ job[r].tok \in issued
       /\ g.op = job[r].op
       /\ g.verb \in {"any", job[r].verb}
       /\ g.epoch = stamp[r].epoch
       /\ stamp[r].at \in g.at .. g.at + TTL

\* Control writes to one controller serialize: ControlService._lock and
\* AtsControlService._lock are held across client.write().
WriteExclusion ==
  \A r, q \in Request :
    /\ pc[r] = "writing" /\ pc[q] = "writing"
    /\ job[r].kind = job[q].kind /\ job[r].kind \in {"execute", "ats"}
    => r = q

\* apply_regmap() cannot swap the map under a control write in flight
\* (control.py:134-137).
ControlMapStable ==
  \A r \in Request :
    pc[r] = "writing" /\ job[r].kind = "execute" => held[r] = ctlMap

\* Once no reload is under way, the poller, the state machine, the control
\* service and app.state agree on the register map, whatever reloads
\* overlapped (reload_registers swaps them one after the other).
ReloadConverges ==
  (\A r \in Request : job[r].kind = "reload" => pc[r] \in {"idle", "done"})
    => ctlMap = liveMap /\ appMap = liveMap

\* "audit-logged on issue, use, expiry and denial" (control.py:12): a token
\* that left the dictionary of this process was evicted with a row, denied
\* with a row, or taken by a request that is writing or has its row.
TokenAccounted ==
  \A t \in issued \ tokens :
    grant[t].epoch = epoch =>
      \/ t \in evicted
      \/ \E r \in Request :
           /\ job[r].tok = t /\ job[r].kind # "issue"
           /\ \/ pc[r] = "writing"
              \/ \E what \in {"token_denied", "ok", "failed"} : <<r, what>> \in audit

\* ack_alarm: a successful answer means the controller took the write, or
\* that the map in force when the call came in has no ack_alarm control.
AckTruthful ==
  \A r \in Request :
    job[r].kind = "ack" /\ result[r] = "ok" =>
      landed[r] > 0 \/ "ack_alarm" \notin Defines[held[r]]

\* A request turned away by a gate leaves the dictionary as it was: the
\* operator can retry with the same token (test_endtoend.py:318-321).
RefusalKeepsToken ==
  [][\A r \in Request :
       result[r] = "none" /\ result'[r] \in Refusal => tokens' = tokens]_vars

\* No request hangs: the ATS surface waits for the control lock with its own
\* lock held, yet every call that came in is answered.
RequestsFinish ==
  \A r \in Request : pc[r] # "idle" ~> pc[r] = "done"

\* README.md:745: "Two concurrent control requests can't both observe a stale
\* snapshot and both fire": after a confirmed command, the same verb is not
\* sent again before the engine state has been observed anew.
OneCommandPerObservation == \A r \in sent : ~stamp[r].repeat

\* ats_control.py:12-23: asserts are refused unless the link is
\* authoritative, and a force-transfer while the utility is available unless
\* overridden - when the write is started.
AssertGuardedAtWrite == \A r \in sent : stamp[r].safe

\* The token store as its clients see it: "live" while in the dictionary,
\* "spent" once it started a write, "void" if it left any other way.
LedgerView ==
  [t \in Token |-> IF t \notin issued THEN "unissued"
                   ELSE IF t \in tokens THEN "live"
                   ELSE IF \E r \in sent : job[r].tok = t THEN "spent"
                   ELSE "void"]
Ledger == INSTANCE TokenLedger WITH ledger <- LedgerView

\* The control surfaces together implement the abstract token ledger.
ImplementsLedger == Ledger!Spec
=============================================================================
