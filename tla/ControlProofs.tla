--------------------------- MODULE ControlProofs ---------------------------
(* Theorems about the control surfaces, for every set of requests, tokens, *)
(* operators and register maps.                                            *)
EXTENDS Control, TLAPS

-----------------------------------------------------------------------------
(* What the gates and the locks return.                                    *)

\* A gate answers with "ok" or with one of its refusals, so no refusal is
\* ever taken for a success.
LEMMA GateRange ==
  ASSUME NEW j
  PROVE  /\ ExecuteGate(j) \in Refusal \cup {"ok"}
         /\ AtsGate(j) \in Refusal \cup {"ok"}
         /\ AckGate \in Refusal \cup {"ok"}
  BY DEF ExecuteGate, AtsGate, AtsAssertGate, AckGate, Refusal

\* Consuming a token answers with "ok" or with one of its denials.
LEMMA ConsumeRange ==
  ASSUME NEW j
  PROVE  ConsumeResult(j) \in TokenRefusal \cup {"ok"}
  BY DEF ConsumeResult, TokenRefusal

\* A lock's queue stays a queue of requests.
LEMMA QueueType ==
  ASSUME NEW q \in Seq(Request), NEW r \in Request
  PROVE  /\ Hold(q, r) \in Seq(Request)
         /\ Release(q) \in Seq(Request)
         /\ Append(q, r) \in Seq(Request)
  BY DEF Hold, Release

-----------------------------------------------------------------------------
(* Type correctness, one lemma per part of the state.                      *)

\* The constants a clock reading and a staleness bound are made of.
LEMMA NumbersAreNaturals ==
  /\ TTL \in Nat /\ Cadence \in Nat /\ MaxTime \in Nat /\ MaxEpoch \in Nat
  /\ Never \in Int
  BY ControlAssumption DEF Never

\* What the services hold before their first poll is a reading.
LEMMA InitialReadings == NoReading \in Reading /\ NoAts \in AtsReading
  <1>1. NoReading \in Reading
    BY NumbersAreNaturals DEF NoReading, Reading, Comms
  <1>2. NoAts \in AtsReading
    BY DEF NoAts, AtsReading, Comms
  <1> QED BY <1>1, <1>2

LEMMA TypeInit == Init => TypeOK
  <1> SUFFICES ASSUME Init PROVE TypeOK
    OBVIOUS
  <1>1. RequestType
    BY WorkloadAssumption DEF Init, RequestType, Outcome
  <1>2. TokenType
    <2>1. (CHOOSE o \in Operator : TRUE) \in Operator
      BY ControlAssumption
    <2>2. [op |-> CHOOSE o \in Operator : TRUE, verb |-> "any", at |-> 0, epoch |-> 0] \in Grant
      BY <2>1 DEF Grant, Verb
    <2> QED BY <2>2 DEF Init, TokenType
  <1>3. EnvironmentType
    BY InitialReadings DEF Init, EnvironmentType
  <1>4. MapType
    BY DEF Init, MapType
  <1>5. HistoryType
    BY ControlAssumption DEF Init, HistoryType, Stamp
  <1> QED
    BY <1>1, <1>2, <1>3, <1>4, <1>5 DEF TypeOK

LEMMA RequestTypeStep == TypeOK /\ [Next]_vars => RequestType'
  <1> SUFFICES ASSUME RequestType, [Next]_vars PROVE RequestType'
    BY DEF TypeOK
  <1> USE DEF RequestType, reqVars
  <1>1. ASSUME NEW r \in Request, Handle(r) PROVE RequestType'
    <2> USE <1>1, QueueType, GateRange, ConsumeRange
    <2>1. CASE Forbidden(r) \/ IssueWaits(r) \/ IssueToken(r)
      BY <2>1 DEF Forbidden, IssueWaits, IssueToken, WaitForLock, Finish, Outcome, Refusal
    <2>2. CASE ExecuteWaits(r)
      BY <2>2 DEF ExecuteWaits, WaitForLock
    <2>11. CASE ExecuteSend(r)
      BY <2>11 DEF ExecuteSend, Send
    <2>3. CASE ExecuteRefused(r) \/ ExecuteTokenRefused(r)
      BY <2>3 DEF ExecuteRefused, ExecuteTokenRefused, Refuse, Finish, Outcome
    <2>4. CASE AtsTurnedAway(r) \/ AtsRefused(r) \/ AtsTokenRefused(r)
      BY <2>4 DEF AtsTurnedAway, AtsRefused, AtsTokenRefused, AtsReachesToken,
                  Refuse, Finish, Outcome, Refusal
    <2>5. CASE AtsWaits(r) \/ AtsWaitsForToken(r)
      BY <2>5 DEF AtsWaits, AtsWaitsForToken
    <2>12. CASE AtsSend(r)
      BY <2>12 DEF AtsSend, AtsReachesToken, Send
    <2>9. CASE AckRefused(r) \/ AckTokenRefused(r)
      BY <2>9 DEF AckRefused, AckTokenRefused, AckReachesToken, Finish, Outcome
    <2>10. CASE AckWaitsForToken(r) \/ AckSend(r) \/ AckLocalOnly(r)
      BY <2>10 DEF AckWaitsForToken, AckSend, AckLocalOnly, AckReachesToken, WaitForLock,
                   Finish, Send, Outcome
    <2>6. ASSUME NEW ok \in BOOLEAN, ExecuteDone(r, ok) \/ AtsDone(r, ok) \/ AckDone(r, ok)
          PROVE RequestType'
      BY <2>6 DEF ExecuteDone, AtsDone, AckDone, Finish, Outcome
    <2>7. CASE ReloadRefused(r)
      BY <2>7 DEF ReloadRefused, Finish, Outcome
    <2>8. ASSUME NEW m \in Map, ReloadWaits(r, m) \/ ReloadApply(r, m) PROVE RequestType'
      BY <2>8 DEF ReloadWaits, ReloadApply, WaitForLock, Finish, Outcome
    <2> QED
      BY <2>1, <2>2, <2>3, <2>4, <2>5, <2>6, <2>7, <2>8, <2>9, <2>10, <2>11, <2>12 DEF Handle
  <1>2. CASE Environment
    <2>1. ASSUME NEW m \in Map, Restart(m) PROVE RequestType'
      BY <2>1 DEF Restart, Outcome
    <2>2. CASE UNCHANGED <<reqVars, hQ, aQ>>
      BY <2>2
    <2> QED
      BY <1>2, <2>1, <2>2 DEF Environment, WriteLands, PollApplied, CommsMoves, AtsMoves,
                              AlarmMoves, Tick
  <1>3. CASE UNCHANGED vars
    BY <1>3 DEF vars
  <1> QED
    BY <1>1, <1>2, <1>3 DEF Next

\* The steps that leave the token dictionary and its history alone.
TokenQuiet(r) ==
  \/ Forbidden(r) \/ IssueWaits(r) \/ ExecuteWaits(r) \/ ExecuteRefused(r)
  \/ AtsTurnedAway(r) \/ AtsWaits(r) \/ AtsRefused(r) \/ AtsWaitsForToken(r)
  \/ AckRefused(r) \/ AckWaitsForToken(r)
  \/ \E ok \in BOOLEAN : ExecuteDone(r, ok) \/ AtsDone(r, ok) \/ AckDone(r, ok)
  \/ ReloadRefused(r)
  \/ \E m \in Map : ReloadWaits(r, m) \/ ReloadApply(r, m)

\* The handler of r takes a token out of the dictionary and starts a write.
Spends(r) == ExecuteSend(r) \/ AtsSend(r) \/ AckSend(r)

\* The handler of r takes a token out of the dictionary and starts none.
Drops(r) == ExecuteTokenRefused(r) \/ AtsTokenRefused(r) \/ AckTokenRefused(r) \/ AckLocalOnly(r)

\* Every handler step is of one of four kinds.
LEMMA HandleKinds ==
  ASSUME NEW r \in Request, Handle(r)
  PROVE  TokenQuiet(r) \/ IssueToken(r) \/ Spends(r) \/ Drops(r)
  BY DEF Handle, TokenQuiet, Spends, Drops

LEMMA TokenTypeStep == TypeOK /\ [Next]_vars => TokenType'
  <1> SUFFICES ASSUME TypeOK, [Next]_vars PROVE TokenType'
    OBVIOUS
  <1> USE DEF TypeOK, TokenType
  <1>1. ASSUME NEW r \in Request, TokenQuiet(r) PROVE TokenType'
    BY <1>1 DEF TokenQuiet, Forbidden, IssueWaits, ExecuteWaits, ExecuteRefused,
        AtsTurnedAway, AtsWaits, AtsRefused, AtsWaitsForToken, AckRefused, AckWaitsForToken,
        ExecuteDone, AtsDone, AckDone, ReloadRefused, ReloadWaits, ReloadApply, tokVars
  <1>2. ASSUME NEW r \in Request, IssueToken(r) PROVE TokenType'
    BY <1>2 DEF IssueToken, RequestType, EnvironmentType, Job, Grant, Expired
  <1>3. ASSUME NEW r \in Request, PopToken(job[r]) PROVE TokenType'
    BY <1>3 DEF PopToken, Expired
  <1>4. ASSUME NEW r \in Request, Spends(r) \/ Drops(r) PROVE TokenType'
    BY <1>3, <1>4 DEF Spends, Drops, ExecuteSend, AtsSend, AckSend, ExecuteTokenRefused,
        AtsTokenRefused, AckTokenRefused, AckLocalOnly
  <1>5. CASE Environment
    BY <1>5 DEF Environment, WriteLands, PollApplied, CommsMoves, AtsMoves, AlarmMoves, Tick,
        Restart, tokVars
  <1>6. CASE UNCHANGED vars
    BY <1>6 DEF vars, tokVars
  <1> QED
    BY <1>1, <1>2, <1>4, <1>5, <1>6, HandleKinds DEF Next

LEMMA EnvironmentTypeStep == TypeOK /\ [Next]_vars => EnvironmentType'
  <1> SUFFICES ASSUME EnvironmentType, [Next]_vars PROVE EnvironmentType'
    BY DEF TypeOK
  <1> USE DEF EnvironmentType
  <1>1. ASSUME NEW r \in Request, Handle(r) PROVE EnvironmentType'
    <2>1. CASE AckLocalOnly(r)
      BY <2>1 DEF AckLocalOnly
    <2>2. ASSUME NEW ok \in BOOLEAN, AckDone(r, ok) PROVE EnvironmentType'
      <3>1. UNCHANGED <<clock, epoch, snap, ats>> /\ alarm' = (alarm /\ ~ok)
        BY <2>2 DEF AckDone
      <3>2. (alarm /\ ~ok) \in BOOLEAN
        OBVIOUS
      <3> QED BY <3>1, <3>2
    <2>3. CASE UNCHANGED envVars
      BY <2>3 DEF envVars
    <2> QED
      BY <1>1, <2>1, <2>2, <2>3 DEF Handle, Forbidden, IssueWaits, IssueToken, ExecuteWaits,
          ExecuteRefused, ExecuteTokenRefused, ExecuteSend, ExecuteDone, AtsTurnedAway, AtsWaits,
          AtsRefused, AtsWaitsForToken, AtsTokenRefused, AtsSend, AtsDone, AckRefused,
          AckWaitsForToken, AckTokenRefused, AckSend, ReloadRefused, ReloadWaits, ReloadApply
  <1>2. ASSUME NEW r \in Request, WriteLands(r) PROVE EnvironmentType'
    BY <1>2 DEF WriteLands, envVars
  <1>3. ASSUME NEW fresh \in PollYields, NEW e \in EngineSeen, NEW p \in PanelSeen,
               PollApplied(fresh, e, p)
        PROVE  EnvironmentType'
    <2> DEFINE aged(at) == IF clock - at >= 3 * Cadence THEN Never ELSE at
               newEngineAt == IF "engine" \in fresh THEN clock ELSE aged(snap.engineAt)
               newPanelAt == IF "panel" \in fresh THEN clock ELSE aged(snap.panelAt)
               newEngine == IF "engine" \in fresh THEN e ELSE snap.engine
               newPanel == IF "panel" \in fresh THEN p
                           ELSE IF aged(snap.panelAt) = Never THEN "unknown" ELSE snap.panel
    <2>2. snap' = [snap EXCEPT !.engine = newEngine, !.engineAt = newEngineAt,
                               !.panel = newPanel, !.panelAt = newPanelAt]
      BY <1>3 DEF PollApplied
    <2>3. newEngineAt \in Int /\ newPanelAt \in Int
      BY NumbersAreNaturals DEF Reading
    <2>4. newEngine \in EngineSeen \cup {"unknown"} /\ newPanel \in PanelSeen \cup {"unknown"}
      BY DEF Reading
    <2> HIDE DEF newEngineAt, newPanelAt, newEngine, newPanel
    <2>1. snap' \in Reading
      BY <2>2, <2>3, <2>4 DEF Reading
    <2> QED BY <1>3, <2>1 DEF PollApplied
  <1>4. ASSUME NEW s \in CommsSeen, CommsMoves(s) PROVE EnvironmentType'
    BY <1>4, ControlAssumption DEF CommsMoves, Reading
  <1>5. ASSUME NEW a \in AtsSeen, AtsMoves(a) PROVE EnvironmentType'
    BY <1>5, ControlAssumption DEF AtsMoves
  <1>6. CASE AlarmMoves
    <2>1. UNCHANGED <<clock, epoch, snap, ats>> /\ alarm' = ~alarm
      BY <1>6 DEF AlarmMoves
    <2>2. (~alarm) \in BOOLEAN
      OBVIOUS
    <2> QED BY <2>1, <2>2
  <1>7. CASE Tick
    BY <1>7 DEF Tick
  <1>8. ASSUME NEW m \in Map, Restart(m) PROVE EnvironmentType'
    BY <1>8, InitialReadings DEF Restart
  <1>9. CASE UNCHANGED vars
    BY <1>9 DEF vars, envVars
  <1> QED
    BY <1>1, <1>2, <1>3, <1>4, <1>5, <1>6, <1>7, <1>8, <1>9 DEF Next, Environment

LEMMA MapTypeStep == TypeOK /\ [Next]_vars => MapType'
  <1> SUFFICES ASSUME MapType, [Next]_vars PROVE MapType'
    BY DEF TypeOK
  <1> USE DEF MapType
  <1>1. ASSUME NEW r \in Request, Handle(r) PROVE MapType'
    <2>1. CASE ExecuteSend(r)
      BY <2>1 DEF ExecuteSend
    <2>2. CASE AckWaitsForToken(r)
      BY <2>2 DEF AckWaitsForToken
    <2>3. CASE AckTokenRefused(r) \/ AckSend(r) \/ AckLocalOnly(r)
      BY <2>3 DEF AckTokenRefused, AckSend, AckLocalOnly, AckReachesToken, AckMap
    <2>4. ASSUME NEW m \in Map, ReloadWaits(r, m) \/ ReloadApply(r, m) PROVE MapType'
      BY <2>4 DEF ReloadWaits, ReloadApply
    <2>5. CASE UNCHANGED mapVars
      BY <2>5 DEF mapVars
    <2> QED
      BY <1>1, <2>1, <2>2, <2>3, <2>4, <2>5 DEF Handle, Forbidden, IssueWaits, IssueToken,
          ExecuteWaits, ExecuteRefused, ExecuteTokenRefused, ExecuteDone, AtsTurnedAway, AtsWaits,
          AtsRefused, AtsWaitsForToken, AtsTokenRefused, AtsSend, AtsDone, AckRefused, AckDone,
          ReloadRefused
  <1>2. CASE Environment
    BY <1>2 DEF Environment, WriteLands, PollApplied, CommsMoves, AtsMoves, AlarmMoves, Tick,
        Restart, mapVars
  <1>3. CASE UNCHANGED vars
    BY <1>3 DEF vars, mapVars
  <1> QED
    BY <1>1, <1>2, <1>3 DEF Next

LEMMA HistoryTypeStep == TypeOK /\ [Next]_vars => HistoryType'
  <1> SUFFICES ASSUME TypeOK, [Next]_vars PROVE HistoryType'
    OBVIOUS
  <1> USE DEF TypeOK, HistoryType
  <1>1. ASSUME NEW r \in Request, Handle(r) PROVE HistoryType'
    <2>1. ASSUME Send(r), UNCHANGED audit PROVE HistoryType'
      <3>1. (job[r].kind = "ats" /\ IsAssert(job[r]) => AtsAssertGate(job[r]) = "ok") \in BOOLEAN
        OBVIOUS
      <3>2. (job[r].kind = "execute" /\ job[r].verb \in acted) \in BOOLEAN
        OBVIOUS
      <3> QED
        BY <2>1, <3>1, <3>2 DEF Send, Stamp, EnvironmentType
    <2>2. ASSUME NEW what \in AuditWhat, Log({<<r, what>>}), UNCHANGED histVars
          PROVE  HistoryType'
      BY <2>2 DEF Log, histVars
    <2>3. CASE Spends(r)
      BY <2>1, <2>3 DEF Spends, ExecuteSend, AtsSend, AckSend
    <2>4. CASE ExecuteRefused(r) \/ AtsRefused(r) \/ AtsTurnedAway(r)
      BY <2>2, <2>4 DEF ExecuteRefused, AtsRefused, AtsTurnedAway, Refuse, AuditWhat
    <2>5. CASE Drops(r)
      BY <2>2, <2>5 DEF Drops, ExecuteTokenRefused, AtsTokenRefused, AckTokenRefused,
                        AckLocalOnly, AuditWhat
    <2>6. ASSUME NEW ok \in BOOLEAN, AtsDone(r, ok) \/ AckDone(r, ok) PROVE HistoryType'
      BY <2>2, <2>6 DEF AtsDone, AckDone, AuditWhat
    <2>7. ASSUME NEW ok \in BOOLEAN, ExecuteDone(r, ok) PROVE HistoryType'
      BY <2>7 DEF ExecuteDone, Log, AuditWhat, RequestType, Job
    <2>8. CASE IssueToken(r) \/ ReloadRefused(r) \/ \E m \in Map : ReloadApply(r, m)
      BY <2>2, <2>8 DEF IssueToken, ReloadRefused, ReloadApply, AuditWhat
    <2>9. CASE UNCHANGED <<histVars, audit>>
      BY <2>9 DEF histVars
    <2> QED
      BY <1>1, <2>3, <2>4, <2>5, <2>6, <2>7, <2>8, <2>9
      DEF Handle, Spends, Drops, Forbidden, IssueWaits, ExecuteWaits, AtsWaits,
          AtsWaitsForToken, AckRefused, AckWaitsForToken, ReloadWaits
  <1>2. CASE Environment
    <2>1. ASSUME NEW r \in Request, WriteLands(r) PROVE HistoryType'
      <3>1. landed[r] + 1 \in 0..MaxEffect
        BY <2>1, ControlAssumption DEF WriteLands
      <3>2. landed' \in [Request -> 0..MaxEffect]
        BY <2>1, <3>1 DEF WriteLands
      <3> QED BY <2>1, <3>2 DEF WriteLands
    <2> QED
      BY <1>2, <2>1 DEF Environment, PollApplied, CommsMoves, AtsMoves, AlarmMoves, Tick,
          Restart, histVars
  <1>3. CASE UNCHANGED vars
    BY <1>3 DEF vars, histVars
  <1> QED
    BY <1>1, <1>2, <1>3 DEF Next

\* Every reachable state of the control surfaces is well typed; in particular
\* the dictionary only holds tokens that issue_token() handed out.
THEOREM TypeCorrect == Spec => []TypeOK
  <1>1. TypeOK /\ [Next]_vars => TypeOK'
    BY RequestTypeStep, TokenTypeStep, EnvironmentTypeStep, MapTypeStep, HistoryTypeStep
    DEF TypeOK
  <1> QED
    BY TypeInit, <1>1, PTL DEF Spec

-----------------------------------------------------------------------------
(* Tokens.  TokenSingleUse and TokenAuthorises are not inductive: that a    *)
(* second request cannot spend the token again rests on its absence from    *)
(* the dictionary, and that a grant still says what it said when the write  *)
(* started rests on issue_token() never handing out the same string twice.  *)

\* Once a token is handed out, the request that asked for it is over.
IssuedOnce ==
  \A t \in issued :
    \E r \in Request : job[r].kind = "issue" /\ job[r].tok = t /\ pc[r] = "done"

\* A token that started a write has left the dictionary for good.
SpentIsGone == \A r \in sent : job[r].tok \in issued \ tokens

\* A token in the dictionary was issued by this process, and not in the future.
LiveIsCurrent == \A t \in tokens : grant[t].epoch = epoch /\ grant[t].at <= clock

TokenInv ==
  /\ job \in Workload
  /\ IssuedOnce /\ SpentIsGone /\ LiveIsCurrent
  /\ TokenSingleUse /\ TokenAuthorises

\* A handler step moves its own request on, never an answered one, and
\* leaves what the requests ask for alone.
LEMMA OwnStep ==
  ASSUME TypeOK, NEW r \in Request, Handle(r)
  PROVE  /\ job' = job
         /\ pc[r] # "done"
         /\ \E s \in {"hwait", "await", "writing", "done"} : pc' = [pc EXCEPT ![r] = s]
         /\ \A q \in Request : q # r => pc'[q] = pc[q]
  <1> USE DEF TypeOK, RequestType, Forbidden, IssueWaits, IssueToken, ExecuteWaits, ExecuteRefused,
        ExecuteTokenRefused, ExecuteSend, ExecuteDone, AtsTurnedAway, AtsWaits, AtsRefused,
        AtsWaitsForToken, AtsTokenRefused, AtsSend, AtsDone, AckRefused, AckWaitsForToken,
        AckTokenRefused, AckSend, AckLocalOnly, AckDone, ReloadRefused, ReloadWaits, ReloadApply
  <1>1. job' = job
    BY DEF Handle
  <1>2. pc[r] # "done"
    BY DEF Handle, WithLock, WaitForLock, AtsGates, AtsReachesToken, AckReachesToken
  <1>3. \E s \in {"hwait", "await", "writing", "done"} : pc' = [pc EXCEPT ![r] = s]
    BY DEF Handle, WaitForLock, Finish, Refuse, Send
  <1> QED BY <1>1, <1>2, <1>3

\* An answered request stays answered; requests keep what they ask for.
LEMMA Answered ==
  ASSUME TypeOK, [Next]_vars
  PROVE  /\ job' = job
         /\ \A q \in Request : pc[q] = "done" => pc'[q] = "done"
  <1>1. CASE \E r \in Request : Handle(r)
    BY <1>1, OwnStep
  <1>2. CASE Environment
    BY <1>2 DEF Environment, WriteLands, PollApplied, CommsMoves, AtsMoves, AlarmMoves, Tick,
        Restart, reqVars
  <1>3. CASE UNCHANGED vars
    BY <1>3 DEF vars, reqVars
  <1> QED
    BY <1>1, <1>2, <1>3 DEF Next

\* What a step may do to the dictionary and to the writes it authorised:
\* hand out a token, spend one, drop some, lose them all, or nothing.
TokenStep ==
  \/ \E r \in Request : IssueToken(r)
  \/ \E r \in Request :
       /\ ConsumeResult(job[r]) = "ok" /\ PopToken(job[r]) /\ Send(r)
       /\ UNCHANGED <<clock, epoch>>
  \/ \E r \in Request : PopToken(job[r]) /\ UNCHANGED <<sent, stamp, clock, epoch>>
  \/ tokens' = {} /\ UNCHANGED <<issued, grant, evicted, sent, stamp, clock>>
  \/ UNCHANGED <<tokVars, sent, stamp, epoch>> /\ clock' \in {clock, clock + 1}

LEMMA TokenFrame ==
  ASSUME TypeOK, [Next]_vars
  PROVE  TokenStep
  <1>1. ASSUME NEW r \in Request, TokenQuiet(r) PROVE TokenStep
    <2>1. UNCHANGED <<tokVars, sent, stamp, clock, epoch>>
      BY <1>1 DEF TokenQuiet, Forbidden, IssueWaits, ExecuteWaits, ExecuteRefused,
          AtsTurnedAway, AtsWaits, AtsRefused, AtsWaitsForToken, AckRefused, AckWaitsForToken,
          ExecuteDone, AtsDone, AckDone, ReloadRefused, ReloadWaits, ReloadApply,
          envVars, histVars
    <2> QED BY <2>1 DEF TokenStep
  <1>2. ASSUME NEW r \in Request, Spends(r) PROVE TokenStep
    <2>1. /\ ConsumeResult(job[r]) = "ok" /\ PopToken(job[r]) /\ Send(r)
          /\ UNCHANGED <<clock, epoch>>
      BY <1>2 DEF Spends, ExecuteSend, AtsSend, AckSend, envVars
    <2> QED BY <2>1 DEF TokenStep
  <1>3. ASSUME NEW r \in Request, Drops(r) PROVE TokenStep
    <2>1. PopToken(job[r]) /\ UNCHANGED <<sent, stamp, clock, epoch>>
      BY <1>3 DEF Drops, ExecuteTokenRefused, AtsTokenRefused, AckTokenRefused, AckLocalOnly,
                  envVars, histVars
    <2> QED BY <2>1 DEF TokenStep
  <1>4. CASE Environment
    BY <1>4 DEF Environment, WriteLands, PollApplied, CommsMoves, AtsMoves, AlarmMoves, Tick,
        Restart, TokenStep, tokVars, envVars, histVars
  <1>5. CASE UNCHANGED vars
    BY <1>5 DEF vars, TokenStep, envVars, histVars
  <1> QED
    BY <1>1, <1>2, <1>3, <1>4, <1>5, HandleKinds DEF Next, TokenStep

\* A token handed out now was never handed out before.
LEMMA FreshToken ==
  ASSUME TypeOK, TokenInv, NEW r \in Request, IssueToken(r)
  PROVE  job[r].tok \notin issued
  <1> SUFFICES ASSUME job[r].tok \in issued PROVE FALSE
    OBVIOUS
  <1>1. PICK q \in Request : job[q].kind = "issue" /\ job[q].tok = job[r].tok /\ pc[q] = "done"
    BY DEF TokenInv, IssuedOnce
  <1>2. q = r
    BY <1>1, WorkloadAssumption DEF TokenInv, IssueToken
  <1>3. pc[r] # "done"
    BY DEF IssueToken, WithLock
  <1> QED BY <1>1, <1>2, <1>3

LEMMA TokenInvInit == Init => TokenInv
  BY DEF Init, TokenInv, IssuedOnce, SpentIsGone, LiveIsCurrent, TokenSingleUse, TokenAuthorises

LEMMA TokenInvStep ==
  ASSUME TypeOK, TypeOK', TokenInv, [Next]_vars
  PROVE  TokenInv'
  <1> USE DEF TokenInv
  <1>0. /\ job' = job
        /\ \A q \in Request : pc[q] = "done" => pc'[q] = "done"
    BY Answered
  <1>1. ASSUME NEW r \in Request, IssueToken(r) PROVE TokenInv'
    <2> DEFINE t == job[r].tok
    <2>1. t \in Token /\ t \notin issued
      BY <1>1, FreshToken DEF TypeOK, RequestType, Job
    <2>2. /\ issued' = issued \cup {t} /\ tokens' \subseteq tokens \cup {t}
          /\ UNCHANGED <<sent, stamp, clock, epoch>>
      BY <1>1 DEF IssueToken, envVars, histVars
    <2>3. \A u \in issued : grant'[u] = grant[u]
      BY <1>1, <2>1 DEF IssueToken, TypeOK, TokenType
    <2>4. grant'[t].epoch = epoch /\ grant'[t].at = clock
      BY <1>1, <2>1 DEF IssueToken, TypeOK, TokenType
    <2>5. IssuedOnce'
      <3>1. job[r].kind = "issue" /\ pc'[r] = "done"
        BY <1>1 DEF IssueToken, Finish, TypeOK, RequestType
      <3> QED BY <1>0, <2>2, <3>1 DEF IssuedOnce
    <2>6. SpentIsGone'
      BY <1>0, <2>1, <2>2 DEF SpentIsGone
    <2>7. LiveIsCurrent'
      BY <2>2, <2>3, <2>4 DEF LiveIsCurrent, TypeOK, TokenType, EnvironmentType
    <2>8. TokenSingleUse'
      BY <1>0, <2>2 DEF TokenSingleUse
    <2>9. TokenAuthorises'
      BY <1>0, <2>2, <2>3 DEF TokenAuthorises
    <2> QED BY <1>0, <2>5, <2>6, <2>7, <2>8, <2>9
  <1>2. ASSUME NEW r \in Request, ConsumeResult(job[r]) = "ok", PopToken(job[r]), Send(r),
               UNCHANGED <<clock, epoch>>
        PROVE  TokenInv'
    <2> DEFINE t == job[r].tok
    <2>1. t \in tokens \ Expired /\ grant[t].op = job[r].op /\ grant[t].verb \in {"any", job[r].verb}
      BY <1>2 DEF ConsumeResult
    <2>2. /\ tokens' \subseteq tokens \ {t} /\ UNCHANGED <<grant, issued>>
          /\ sent' = sent \cup {r}
      BY <1>2 DEF PopToken, Send
    <2>3. \A q \in sent : job[q].tok # t
      BY <2>1 DEF SpentIsGone
    <2>4. /\ \A q \in sent : q # r => stamp'[q] = stamp[q]
          /\ stamp'[r].at = clock /\ stamp'[r].epoch = epoch
      BY <1>2 DEF Send, TypeOK, HistoryType
    <2>5. IssuedOnce'
      BY <1>0, <2>2 DEF IssuedOnce
    <2>6. SpentIsGone'
      BY <1>0, <2>1, <2>2 DEF SpentIsGone, TypeOK, TokenType
    <2>7. LiveIsCurrent'
      BY <1>2, <2>2 DEF LiveIsCurrent
    <2>8. TokenSingleUse'
      BY <1>0, <2>2, <2>3 DEF TokenSingleUse
    <2>9. TokenAuthorises'
      <3>1. clock \in grant[t].at .. grant[t].at + TTL /\ grant[t].epoch = epoch /\ t \in issued
        <4>1. grant[t].at \in Nat /\ t \in issued
          BY <2>1 DEF TypeOK, TokenType, Grant
        <4>2. grant[t].at <= clock /\ grant[t].epoch = epoch
          BY <2>1 DEF LiveIsCurrent
        <4>3. ~(grant[t].at + TTL < clock)
          BY <2>1 DEF Expired
        <4> QED BY <4>1, <4>2, <4>3, NumbersAreNaturals DEF TypeOK, EnvironmentType
      <3>2. \A q \in sent : q # r
        BY <2>3
      <3> QED BY <1>0, <2>1, <2>2, <2>4, <3>1, <3>2 DEF TokenAuthorises
    <2> QED BY <1>0, <2>5, <2>6, <2>7, <2>8, <2>9
  <1>3. ASSUME NEW r \in Request, PopToken(job[r]), UNCHANGED <<sent, stamp, clock, epoch>>
        PROVE  TokenInv'
    <2>1. tokens' \subseteq tokens /\ UNCHANGED <<grant, issued>>
      BY <1>3 DEF PopToken
    <2> QED
      BY <1>0, <1>3, <2>1 DEF IssuedOnce, SpentIsGone, LiveIsCurrent, TokenSingleUse,
                              TokenAuthorises
  <1>4. ASSUME tokens' = {}, UNCHANGED <<issued, grant, evicted, sent, stamp, clock>>
        PROVE  TokenInv'
    BY <1>0, <1>4 DEF IssuedOnce, SpentIsGone, LiveIsCurrent, TokenSingleUse, TokenAuthorises
  <1>5. ASSUME UNCHANGED <<tokVars, sent, stamp, epoch>>, clock' \in {clock, clock + 1}
        PROVE  TokenInv'
    <2>1. LiveIsCurrent'
      BY <1>5 DEF LiveIsCurrent, TypeOK, TokenType, Grant, EnvironmentType, tokVars
    <2> QED
      BY <1>0, <1>5, <2>1 DEF IssuedOnce, SpentIsGone, TokenSingleUse, TokenAuthorises, tokVars
  <1> QED
    BY <1>1, <1>2, <1>3, <1>4, <1>5, TokenFrame DEF TokenStep

LEMMA TokenInvariant == Spec => []TokenInv
  BY TypeCorrect, TokenInvInit, TokenInvStep, PTL DEF Spec

\* Whatever the interleaving of the two control surfaces, the alarm ack and
\* restarts, a confirm token starts at most one Modbus write.
THEOREM TokensAreSingleUse == Spec => []TokenSingleUse
  BY TokenInvariant, PTL DEF TokenInv

\* Every Modbus write that was started was authorised by its token: right
\* operator, right verb, unexpired, same process.
THEOREM TokensAuthorise == Spec => []TokenAuthorises
  BY TokenInvariant, PTL DEF TokenInv

-----------------------------------------------------------------------------
(* Locks.  WriteExclusion holds because a writing request is at the head of *)
(* its lock's queue, which no other request's step can change.              *)

HoldsControlLock ==
  \A r \in Request : pc[r] = "writing" /\ job[r].kind = "execute" => Has(hQ, r)

HoldsAtsLock ==
  \A r \in Request : pc[r] \in {"writing", "hwait"} /\ job[r].kind = "ats" => Has(aQ, r)

LockInv == HoldsControlLock /\ HoldsAtsLock

\* Queueing keeps the holder; taking a free lock makes the taker the holder.
LEMMA QueueHead ==
  ASSUME NEW q \in Seq(Request), NEW r \in Request, NEW p \in Request
  PROVE  /\ Has(q, p) => Has(Append(q, r), p)
         /\ Has(q, p) => Has(Hold(q, r), p)
         /\ q = <<>> => Has(Hold(q, r), r)
         /\ Has(q, r) => q # <<>>
         /\ Has(q, p) /\ Has(q, r) => p = r
  BY DEF Has, Hold

LEMMA LockInvInit == Init => LockInv
  BY DEF Init, LockInv, HoldsControlLock, HoldsAtsLock

\* A handler step moves its own request only, and leaves the control lock's
\* holder in place unless that holder is its own request or the lock is free.
LEMMA ControlLockStep ==
  ASSUME TypeOK, LockInv, NEW r \in Request, Handle(r)
  PROVE  HoldsControlLock'
  <1> USE DEF LockInv, TypeOK, RequestType
  <1>0. /\ job' = job
        /\ \A q \in Request : q # r => pc'[q] = pc[q]
    BY OwnStep
  <1>1. ASSUME hQ' = hQ \/ hQ' = Append(hQ, r),
               pc'[r] = "writing" => job[r].kind # "execute"
        PROVE  HoldsControlLock'
    <2> SUFFICES ASSUME NEW q \in Request, pc'[q] = "writing", job[q].kind = "execute"
                 PROVE  Has(hQ', q)
      BY <1>0 DEF HoldsControlLock
    <2>1. q # r /\ pc[q] = "writing"
      BY <1>0, <1>1
    <2>2. Has(hQ, q)
      BY <2>1 DEF HoldsControlLock
    <2>3. CASE hQ' = hQ
      BY <2>2, <2>3 DEF Has
    <2>4. CASE hQ' = Append(hQ, r)
      BY <2>2, <2>4 DEF Has
    <2> QED BY <1>1, <2>3, <2>4
  <1>2. ASSUME hQ = <<>> \/ Has(hQ, r), pc[r] = "writing" => job[r].kind = "execute",
               pc'[r] = "writing" => job[r].kind # "execute"
        PROVE  HoldsControlLock'
    <2>1. ASSUME NEW q \in Request, q # r, pc[q] = "writing", job[q].kind = "execute" PROVE FALSE
      <3>1. Has(hQ, q)
        BY <2>1 DEF HoldsControlLock
      <3> QED BY <1>2, <2>1, <3>1, QueueHead
    <2> QED BY <1>0, <1>2, <2>1 DEF HoldsControlLock
  <1>3. CASE ExecuteSend(r)
    <2>1. hQ = <<>> \/ Has(hQ, r)
      BY <1>3 DEF ExecuteSend, WithLock
    <2>2. Has(hQ', r)
      BY <1>3, <2>1, QueueHead DEF ExecuteSend
    <2>3. ASSUME NEW q \in Request, q # r, pc[q] = "writing", job[q].kind = "execute" PROVE FALSE
      <3>1. Has(hQ, q)
        BY <2>3 DEF HoldsControlLock
      <3> QED BY <2>1, <2>3, <3>1, QueueHead
    <2> QED BY <1>0, <2>2, <2>3 DEF HoldsControlLock
  <1>4. ASSUME NEW ok \in BOOLEAN, ExecuteDone(r, ok) PROVE HoldsControlLock'
    BY <1>2, <1>4 DEF ExecuteDone, Finish, HoldsControlLock
  <1>5. CASE IssueToken(r) \/ ExecuteRefused(r) \/ ExecuteTokenRefused(r)
    BY <1>2, <1>5 DEF IssueToken, ExecuteRefused, ExecuteTokenRefused, WithLock, Refuse, Finish
  <1>6. CASE AtsTokenRefused(r) \/ AtsSend(r)
    BY <1>2, <1>6 DEF AtsTokenRefused, AtsSend, AtsReachesToken, AtsGates, Finish, Send
  <1>7. CASE AckTokenRefused(r) \/ AckSend(r) \/ AckLocalOnly(r)
    BY <1>2, <1>7 DEF AckTokenRefused, AckSend, AckLocalOnly, AckReachesToken, WithLock, Finish, Send
  <1>8. ASSUME NEW m \in Map, ReloadApply(r, m) PROVE HoldsControlLock'
    BY <1>2, <1>8 DEF ReloadApply, WithLock, Finish
  <1>9. ASSUME NEW m \in Map, ReloadWaits(r, m) PROVE HoldsControlLock'
    BY <1>1, <1>9 DEF ReloadWaits, WaitForLock
  <1>10. ASSUME NEW ok \in BOOLEAN, AtsDone(r, ok) \/ AckDone(r, ok) PROVE HoldsControlLock'
    BY <1>1, <1>10 DEF AtsDone, AckDone, Finish
  <1>11. CASE Forbidden(r) \/ IssueWaits(r) \/ ExecuteWaits(r)
    BY <1>1, <1>11 DEF Forbidden, IssueWaits, ExecuteWaits, WaitForLock, Finish
  <1>12. CASE AtsTurnedAway(r) \/ AtsWaits(r) \/ AtsRefused(r) \/ AtsWaitsForToken(r)
    BY <1>1, <1>12 DEF AtsTurnedAway, AtsWaits, AtsRefused, AtsWaitsForToken, Refuse, Finish
  <1>13. CASE AckRefused(r) \/ AckWaitsForToken(r) \/ ReloadRefused(r)
    BY <1>1, <1>13 DEF AckRefused, AckWaitsForToken, ReloadRefused, WaitForLock, Finish
  <1> QED
    BY <1>3, <1>4, <1>5, <1>6, <1>7, <1>8, <1>9, <1>10, <1>11, <1>12, <1>13 DEF Handle

\* The same for the ATS lock, which its holder keeps while it queues for the
\* control lock.
LEMMA AtsLockStep ==
  ASSUME TypeOK, LockInv, NEW r \in Request, Handle(r)
  PROVE  HoldsAtsLock'
  <1> USE DEF LockInv, TypeOK, RequestType
  <1>0. /\ job' = job
        /\ \A q \in Request : q # r => pc'[q] = pc[q]
    BY OwnStep
  <1>1. ASSUME aQ' = aQ \/ aQ' = Append(aQ, r),
               pc'[r] \in {"writing", "hwait"} => job[r].kind # "ats"
        PROVE  HoldsAtsLock'
    <2> SUFFICES ASSUME NEW q \in Request, pc'[q] \in {"writing", "hwait"}, job[q].kind = "ats"
                 PROVE  Has(aQ', q)
      BY <1>0 DEF HoldsAtsLock
    <2>1. q # r /\ pc[q] \in {"writing", "hwait"}
      BY <1>0, <1>1
    <2>2. Has(aQ, q)
      BY <2>1 DEF HoldsAtsLock
    <2>3. CASE aQ' = aQ
      BY <2>2, <2>3 DEF Has
    <2>4. CASE aQ' = Append(aQ, r)
      BY <2>2, <2>4 DEF Has
    <2> QED BY <1>1, <2>3, <2>4
  <1>2. ASSUME aQ = <<>> \/ Has(aQ, r),
               \/ pc'[r] \notin {"writing", "hwait"}
               \/ aQ' = Hold(aQ, r)
        PROVE  HoldsAtsLock'
    <2>1. ASSUME NEW q \in Request, q # r, pc[q] \in {"writing", "hwait"}, job[q].kind = "ats"
          PROVE  FALSE
      <3>1. Has(aQ, q)
        BY <2>1 DEF HoldsAtsLock
      <3> QED BY <1>2, <2>1, <3>1, QueueHead
    <2>2. aQ' = Hold(aQ, r) => Has(aQ', r)
      BY <1>2, QueueHead
    <2> QED BY <1>0, <1>2, <2>1, <2>2 DEF HoldsAtsLock
  <1>3. CASE AtsRefused(r)
    BY <1>2, <1>3 DEF AtsRefused, AtsGates, Refuse, Finish
  <1>4. CASE AtsWaitsForToken(r)
    BY <1>2, <1>4 DEF AtsWaitsForToken, AtsGates
  <1>5. CASE AtsTokenRefused(r) \/ AtsSend(r)
    <2>1. aQ = <<>> \/ Has(aQ, r)
      BY <1>5 DEF AtsTokenRefused, AtsSend, AtsReachesToken, AtsGates, HoldsAtsLock
    <2> QED BY <1>2, <1>5, <2>1 DEF AtsTokenRefused, AtsSend, Finish
  <1>6. ASSUME NEW ok \in BOOLEAN, AtsDone(r, ok) PROVE HoldsAtsLock'
    BY <1>2, <1>6 DEF AtsDone, Finish, HoldsAtsLock
  <1>7. CASE AtsTurnedAway(r) \/ AtsWaits(r)
    BY <1>1, <1>7 DEF AtsTurnedAway, AtsWaits, Refuse, Finish
  <1>8. ASSUME job[r].kind # "ats", aQ' = aQ PROVE HoldsAtsLock'
    BY <1>1, <1>8
  <1>9. CASE Forbidden(r)
    BY <1>1, <1>9 DEF Forbidden, Finish
  <1> QED
    BY <1>3, <1>4, <1>5, <1>6, <1>7, <1>8, <1>9
    DEF Handle, IssueWaits, IssueToken, ExecuteWaits, ExecuteRefused, ExecuteTokenRefused,
        ExecuteSend, ExecuteDone, AckRefused, AckWaitsForToken, AckTokenRefused, AckSend,
        AckLocalOnly, AckReachesToken, AckDone, ReloadRefused, ReloadWaits, ReloadApply

LEMMA LockInvariant == Spec => []LockInv
  <1>1. ASSUME TypeOK, LockInv, [Next]_vars PROVE LockInv'
    <2>1. CASE \E r \in Request : Handle(r)
      BY <1>1, <2>1, ControlLockStep, AtsLockStep DEF LockInv
    <2>2. ASSUME NEW m \in Map, Restart(m) PROVE LockInv'
      BY <1>1, <2>2 DEF Restart, LockInv, HoldsControlLock, HoldsAtsLock, TypeOK, RequestType
    <2>3. CASE UNCHANGED <<reqVars, hQ, aQ>>
      BY <1>1, <2>3 DEF reqVars, LockInv, HoldsControlLock, HoldsAtsLock
    <2> QED
      BY <1>1, <2>1, <2>2, <2>3 DEF Next, Environment, WriteLands, PollApplied, CommsMoves,
          AtsMoves, AlarmMoves, Tick, vars
  <1> QED
    BY <1>1, TypeCorrect, LockInvInit, PTL DEF Spec

\* At most one generator command and at most one ATS command are on the wire
\* at any time, also while an ATS command queues for the control lock.
THEOREM WritesExclude == Spec => []WriteExclusion
  <1>1. TypeOK /\ LockInv => WriteExclusion
    <2> SUFFICES ASSUME TypeOK, LockInv, NEW r \in Request, NEW q \in Request,
                        pc[r] = "writing", pc[q] = "writing", job[r].kind = job[q].kind,
                        job[r].kind \in {"execute", "ats"}
                 PROVE  r = q
      BY DEF WriteExclusion
    <2>1. CASE job[r].kind = "execute"
      BY <2>1, QueueHead DEF LockInv, HoldsControlLock, TypeOK, RequestType
    <2>2. CASE job[r].kind = "ats"
      BY <2>2, QueueHead DEF LockInv, HoldsAtsLock, TypeOK, RequestType
    <2> QED BY <2>1, <2>2
  <1> QED
    BY <1>1, TypeCorrect, LockInvariant, PTL

-----------------------------------------------------------------------------
(* Register-map reloads.                                                   *)

\* No reload swaps the control map while a generator command is on the wire:
\* apply_regmap() needs the lock that the command holds.
THEOREM MapIsStable == Spec => []ControlMapStable
  <1>1. Init => ControlMapStable
    BY DEF Init, ControlMapStable
  <1>2. ASSUME TypeOK, LockInv, ControlMapStable, [Next]_vars PROVE ControlMapStable'
    <2> USE <1>2 DEF TypeOK, RequestType, MapType
    <2>1. ASSUME NEW r \in Request, Handle(r) PROVE ControlMapStable'
      <3>0. /\ job' = job
            /\ \A q \in Request : q # r => pc'[q] = pc[q]
        BY <2>1, OwnStep
      <3>1. ASSUME ctlMap' = ctlMap, \A q \in Request : q # r => held'[q] = held[q],
                   pc'[r] # "writing" \/ job[r].kind # "execute" \/ held'[r] = ctlMap
            PROVE  ControlMapStable'
        BY <3>0, <3>1 DEF ControlMapStable
      <3>2. ASSUME NEW m \in Map, ReloadApply(r, m) PROVE ControlMapStable'
        <4>1. ASSUME NEW q \in Request, pc[q] = "writing", job[q].kind = "execute" PROVE FALSE
          <5>1. Has(hQ, q)
            BY <4>1 DEF LockInv, HoldsControlLock
          <5> QED BY <3>2, <4>1, <5>1, QueueHead DEF ReloadApply, WithLock
        <4>2. pc'[r] = "done"
          BY <3>2 DEF ReloadApply, Finish
        <4> QED BY <3>0, <4>1, <4>2 DEF ControlMapStable
      <3>3. CASE ExecuteSend(r)
        BY <3>1, <3>3 DEF ExecuteSend
      <3>4. CASE AckWaitsForToken(r) \/ AckTokenRefused(r) \/ AckSend(r) \/ AckLocalOnly(r)
        BY <3>1, <3>4 DEF AckWaitsForToken, AckTokenRefused, AckSend, AckLocalOnly, AckReachesToken
      <3>5. ASSUME NEW m \in Map, ReloadWaits(r, m) PROVE ControlMapStable'
        BY <3>1, <3>5 DEF ReloadWaits
      <3>6. ASSUME UNCHANGED mapVars, pc'[r] # "writing" \/ job[r].kind # "execute"
            PROVE  ControlMapStable'
        BY <3>1, <3>6 DEF mapVars
      <3>7. CASE Forbidden(r) \/ IssueWaits(r) \/ IssueToken(r) \/ ExecuteWaits(r)
        BY <3>6, <3>7 DEF Forbidden, IssueWaits, IssueToken, ExecuteWaits, WaitForLock, Finish
      <3>8. CASE ExecuteRefused(r) \/ ExecuteTokenRefused(r) \/ \E ok \in BOOLEAN : ExecuteDone(r, ok)
        BY <3>6, <3>8 DEF ExecuteRefused, ExecuteTokenRefused, ExecuteDone, Refuse, Finish
      <3>9. CASE AtsTurnedAway(r) \/ AtsWaits(r) \/ AtsRefused(r) \/ AtsWaitsForToken(r)
        BY <3>6, <3>9 DEF AtsTurnedAway, AtsWaits, AtsRefused, AtsWaitsForToken, Refuse, Finish
      <3>10. CASE AtsTokenRefused(r) \/ AtsSend(r) \/ \E ok \in BOOLEAN : AtsDone(r, ok)
        BY <3>6, <3>10 DEF AtsTokenRefused, AtsSend, AtsDone, AtsReachesToken, AtsGates, Finish
      <3>11. CASE AckRefused(r) \/ ReloadRefused(r) \/ \E ok \in BOOLEAN : AckDone(r, ok)
        BY <3>6, <3>11 DEF AckRefused, ReloadRefused, AckDone, Finish
      <3> QED
        BY <2>1, <3>2, <3>3, <3>4, <3>5, <3>7, <3>8, <3>9, <3>10, <3>11 DEF Handle
    <2>2. ASSUME NEW m \in Map, Restart(m) PROVE ControlMapStable'
      BY <2>2 DEF Restart, ControlMapStable
    <2>3. CASE UNCHANGED <<reqVars, mapVars>>
      BY <2>3 DEF reqVars, mapVars, ControlMapStable
    <2> QED
      BY <2>1, <2>2, <2>3 DEF Next, Environment, WriteLands, PollApplied, CommsMoves,
          AtsMoves, AlarmMoves, Tick, vars
  <1> QED
    BY <1>1, <1>2, TypeCorrect, LockInvariant, PTL DEF Spec

-----------------------------------------------------------------------------
(* Overlapping reloads.  The control lock is first-in first-out: the reload  *)
(* that swapped the live map last is the last to swap the control map.       *)

\* Who is in the queue of the control lock, and that each is there once.
QueueInv ==
  /\ \A i, j \in DOMAIN hQ : hQ[i] = hQ[j] => i = j
  /\ \A i \in DOMAIN hQ : \/ pc[hQ[i]] = "hwait"
                          \/ pc[hQ[i]] = "writing" /\ job[hQ[i]].kind = "execute"
  /\ \A r \in Request : pc[r] = "hwait" => \E i \in DOMAIN hQ : hQ[i] = r

\* How a handler step changes the queue: r is in it neither before nor after
\* or stays its head, r joins at the end, r takes the free lock, or r leaves it.
QueueMove(r) ==
  \/ /\ hQ' = hQ /\ pc[r] # "hwait" /\ pc'[r] # "hwait"
     /\ pc[r] = "writing" => job[r].kind # "execute"
  \/ hQ' = hQ /\ pc[r] = "hwait" /\ pc'[r] = "writing" /\ job[r].kind = "execute"
  \/ hQ' = Append(hQ, r) /\ pc[r] \in {"idle", "await"} /\ pc'[r] = "hwait"
  \/ hQ = <<>> /\ hQ' = <<r>> /\ pc[r] = "idle" /\ pc'[r] = "writing" /\ job[r].kind = "execute"
  \/ Has(hQ, r) /\ hQ' = Tail(hQ) /\ pc'[r] \notin {"hwait"}

LEMMA QueueMoves ==
  ASSUME TypeOK, LockInv, NEW r \in Request, Handle(r)
  PROVE  QueueMove(r)
  <1> USE DEF TypeOK, RequestType
  <1>1. ASSUME WithLock(r), hQ' = Release(hQ), pc'[r] # "hwait" PROVE QueueMove(r)
    BY <1>1 DEF WithLock, Release, Has, QueueMove
  <1>2. ASSUME WaitForLock(r) PROVE QueueMove(r)
    BY <1>2 DEF WaitForLock, QueueMove
  <1>3. CASE IssueToken(r) \/ ExecuteRefused(r) \/ ExecuteTokenRefused(r)
             \/ \E m \in Map : ReloadApply(r, m)
    BY <1>1, <1>3 DEF IssueToken, ExecuteRefused, ExecuteTokenRefused, ReloadApply, Refuse, Finish
  <1>4. CASE AckTokenRefused(r) \/ AckSend(r) \/ AckLocalOnly(r)
    BY <1>1, <1>4 DEF AckTokenRefused, AckSend, AckLocalOnly, AckReachesToken, Send, Finish
  <1>5. CASE IssueWaits(r) \/ ExecuteWaits(r) \/ AckWaitsForToken(r)
             \/ \E m \in Map : ReloadWaits(r, m)
    BY <1>2, <1>5 DEF IssueWaits, ExecuteWaits, AckWaitsForToken, ReloadWaits
  <1>6. CASE ExecuteSend(r)
    BY <1>6 DEF ExecuteSend, WithLock, Hold, Has, Send, QueueMove
  <1>7. ASSUME NEW ok \in BOOLEAN, ExecuteDone(r, ok) PROVE QueueMove(r)
    <2>1. Has(hQ, r) /\ hQ' = Tail(hQ) /\ pc'[r] = "done"
      BY <1>7 DEF ExecuteDone, LockInv, HoldsControlLock, Release, Has, Finish
    <2> QED BY <2>1 DEF QueueMove
  <1>8. CASE AtsTokenRefused(r) \/ AtsSend(r)
    <2>1. pc'[r] # "hwait" /\ hQ' = Release(hQ) /\ AtsReachesToken(r)
      BY <1>8 DEF AtsTokenRefused, AtsSend, AtsReachesToken, Send, Finish
    <2> QED BY <2>1 DEF AtsReachesToken, AtsGates, Release, Has, QueueMove
  <1>9. CASE AtsWaitsForToken(r)
    BY <1>9 DEF AtsWaitsForToken, AtsGates, QueueMove
  <1>10. CASE AtsTurnedAway(r) \/ AtsWaits(r) \/ AtsRefused(r)
    BY <1>10 DEF AtsTurnedAway, AtsWaits, AtsRefused, AtsGates, Refuse, Finish, QueueMove
  <1>11. CASE Forbidden(r) \/ AckRefused(r) \/ ReloadRefused(r)
    BY <1>11 DEF Forbidden, AckRefused, ReloadRefused, Finish, QueueMove
  <1>12. ASSUME NEW ok \in BOOLEAN, AtsDone(r, ok) \/ AckDone(r, ok) PROVE QueueMove(r)
    BY <1>12 DEF AtsDone, AckDone, Finish, QueueMove
  <1> QED
    BY <1>3, <1>4, <1>5, <1>6, <1>7, <1>8, <1>9, <1>10, <1>11, <1>12 DEF Handle

\* What leaves and joins a queue does to its positions.
LEMMA QueuePlaces ==
  ASSUME NEW q \in Seq(Request), NEW r \in Request
  PROVE  /\ DOMAIN q = 1..Len(q) /\ Len(q) \in Nat
         /\ Append(q, r) \in Seq(Request) /\ DOMAIN Append(q, r) = 1..(Len(q) + 1)
         /\ \A i \in 1..Len(q) : Append(q, r)[i] = q[i]
         /\ Append(q, r)[Len(q) + 1] = r
         /\ q # <<>> => /\ Head(q) = q[1] /\ Len(q) >= 1
                        /\ DOMAIN Tail(q) = 1..(Len(q) - 1)
                        /\ \A i \in 1..(Len(q) - 1) : Tail(q)[i] = q[i + 1]
  OBVIOUS

LEMMA QueueInvStep ==
  ASSUME TypeOK, LockInv, QueueInv, NEW r \in Request, Handle(r)
  PROVE  QueueInv'
  <1> USE DEF TypeOK, RequestType
  <1>0. /\ job' = job
        /\ \A q \in Request : q # r => pc'[q] = pc[q]
    BY OwnStep
  <1>a. \A i \in DOMAIN hQ : hQ[i] \in Request
    OBVIOUS
  <1>1. CASE /\ hQ' = hQ /\ pc[r] # "hwait" /\ pc'[r] # "hwait"
             /\ pc[r] = "writing" => job[r].kind # "execute"
    BY <1>0, <1>a, <1>1 DEF QueueInv
  <1>2. CASE hQ' = hQ /\ pc[r] = "hwait" /\ pc'[r] = "writing" /\ job[r].kind = "execute"
    BY <1>0, <1>a, <1>2 DEF QueueInv
  <1>3. CASE hQ' = Append(hQ, r) /\ pc[r] \in {"idle", "await"} /\ pc'[r] = "hwait"
    <2>1. \A i \in DOMAIN hQ : hQ[i] # r
      BY <1>3 DEF QueueInv
    <2>2. \A i, j \in DOMAIN hQ' : hQ'[i] = hQ'[j] => i = j
      BY <1>3, <2>1, QueuePlaces DEF QueueInv
    <2>3. \A i \in DOMAIN hQ' : \/ pc'[hQ'[i]] = "hwait"
                                \/ pc'[hQ'[i]] = "writing" /\ job[hQ'[i]].kind = "execute"
      BY <1>0, <1>a, <1>3, QueuePlaces DEF QueueInv
    <2>4. ASSUME NEW q \in Request, pc'[q] = "hwait" PROVE \E i \in DOMAIN hQ' : hQ'[i] = q
      <3>1. CASE q = r
        BY <1>3, <3>1, QueuePlaces
      <3>2. CASE q # r
        <4>1. PICK i \in DOMAIN hQ : hQ[i] = q
          BY <1>0, <2>4, <3>2 DEF QueueInv
        <4> QED BY <1>3, <4>1, QueuePlaces
      <3> QED BY <3>1, <3>2
    <2> QED BY <1>0, <2>2, <2>3, <2>4 DEF QueueInv
  <1>4. CASE /\ hQ = <<>> /\ hQ' = <<r>> /\ pc[r] = "idle" /\ pc'[r] = "writing"
             /\ job[r].kind = "execute"
    BY <1>0, <1>4 DEF QueueInv
  <1>5. CASE Has(hQ, r) /\ hQ' = Tail(hQ) /\ pc'[r] \notin {"hwait"}
    <2>1. hQ # <<>> /\ hQ[1] = r /\ 1 \in DOMAIN hQ
      BY <1>5, QueuePlaces DEF Has
    <2>2. \A i \in DOMAIN hQ' : i + 1 \in DOMAIN hQ /\ hQ'[i] = hQ[i + 1] /\ i \in Nat /\ i # 0
      BY <1>5, <2>1, QueuePlaces
    <2>3. \A i \in DOMAIN hQ' : hQ'[i] \in Request /\ hQ'[i] # r
      BY <1>a, <2>1, <2>2 DEF QueueInv
    <2>4. \A i, j \in DOMAIN hQ' : hQ'[i] = hQ'[j] => i = j
      <3> SUFFICES ASSUME NEW i \in DOMAIN hQ', NEW j \in DOMAIN hQ', hQ'[i] = hQ'[j] PROVE i = j
        OBVIOUS
      <3>1. i + 1 = j + 1
        BY <2>2 DEF QueueInv
      <3> QED BY <2>2, <3>1
    <2>5. \A i \in DOMAIN hQ' : \/ pc'[hQ'[i]] = "hwait"
                                \/ pc'[hQ'[i]] = "writing" /\ job[hQ'[i]].kind = "execute"
      BY <1>0, <2>2, <2>3 DEF QueueInv
    <2>6. ASSUME NEW q \in Request, pc'[q] = "hwait" PROVE \E i \in DOMAIN hQ' : hQ'[i] = q
      <3>1. q # r
        BY <1>5, <2>6
      <3>2. PICK i \in DOMAIN hQ : hQ[i] = q
        BY <1>0, <2>6, <3>1 DEF QueueInv
      <3>3. i # 1 /\ i \in 1..Len(hQ)
        BY <2>1, <3>1, <3>2
      <3>4. i - 1 \in DOMAIN hQ' /\ hQ'[i - 1] = hQ[i]
        BY <1>5, <2>1, <3>3, QueuePlaces
      <3> QED BY <3>2, <3>4
    <2> QED BY <1>0, <2>4, <2>5, <2>6 DEF QueueInv
  <1> QED BY <1>1, <1>2, <1>3, <1>4, <1>5, QueueMoves DEF QueueMove

LEMMA QueueInvariant == Spec => []QueueInv
  <1>1. Init => QueueInv
    BY DEF Init, QueueInv
  <1>2. ASSUME TypeOK, LockInv, QueueInv, [Next]_vars PROVE QueueInv'
    <2>1. CASE \E r \in Request : Handle(r)
      BY <1>2, <2>1, QueueInvStep
    <2>2. ASSUME NEW m \in Map, Restart(m) PROVE QueueInv'
      BY <1>2, <2>2 DEF Restart, QueueInv
    <2>3. CASE UNCHANGED <<reqVars, hQ>>
      BY <1>2, <2>3 DEF reqVars, QueueInv
    <2> QED
      BY <1>2, <2>1, <2>2, <2>3 DEF Next, Environment, WriteLands, PollApplied, CommsMoves,
          AtsMoves, AlarmMoves, Tick, vars
  <1> QED
    BY <1>1, <1>2, TypeCorrect, LockInvariant, PTL DEF Spec

-----------------------------------------------------------------------------
(* No deadlock.  The ATS surface takes the control lock with its own lock   *)
(* held; nobody takes them in the other order, so the two queues never wait *)
(* for each other.                                                          *)

Queued(q, r) == \E i \in DOMAIN q : q[i] = r
Distinct(q) == \A i, j \in DOMAIN q : q[i] = q[j] => i = j

LEMMA QueueJoins ==
  ASSUME NEW q \in Seq(Request), Distinct(q), NEW r \in Request, ~Queued(q, r)
  PROVE  /\ Distinct(Append(q, r))
         /\ \A x \in Request : Queued(Append(q, r), x) <=> (x = r \/ Queued(q, x))
  <1>1. Distinct(Append(q, r))
    BY QueuePlaces DEF Distinct, Queued
  <1>2. ASSUME NEW x \in Request, Queued(q, x) PROVE Queued(Append(q, r), x)
    <2>1. PICK i \in DOMAIN q : q[i] = x
      BY <1>2 DEF Queued
    <2>2. i \in DOMAIN Append(q, r) /\ Append(q, r)[i] = x
      BY <2>1, QueuePlaces
    <2> QED BY <2>2 DEF Queued
  <1>3. Queued(Append(q, r), r)
    <2>1. Len(q) + 1 \in DOMAIN Append(q, r) /\ Append(q, r)[Len(q) + 1] = r
      BY QueuePlaces
    <2> QED BY <2>1 DEF Queued
  <1>4. ASSUME NEW x \in Request, x # r, Queued(Append(q, r), x) PROVE Queued(q, x)
    <2>1. PICK i \in DOMAIN Append(q, r) : Append(q, r)[i] = x
      BY <1>4 DEF Queued
    <2>2. i \in DOMAIN q /\ q[i] = x
      BY <1>4, <2>1, QueuePlaces
    <2> QED BY <2>2 DEF Queued
  <1> QED BY <1>1, <1>2, <1>3, <1>4

LEMMA QueueLeaves ==
  ASSUME NEW q \in Seq(Request), Distinct(q), NEW r \in Request, Has(q, r)
  PROVE  /\ Distinct(Tail(q))
         /\ \A x \in Request : Queued(Tail(q), x) <=> (x # r /\ Queued(q, x))
  <1>0. /\ q # <<>> /\ q[1] = r /\ DOMAIN q = 1..Len(q) /\ Len(q) \in Nat /\ Len(q) >= 1
        /\ DOMAIN Tail(q) = 1..(Len(q) - 1)
        /\ \A i \in 1..(Len(q) - 1) : Tail(q)[i] = q[i + 1]
    BY QueuePlaces DEF Has
  <1>1. Distinct(Tail(q))
    <2> SUFFICES ASSUME NEW i \in DOMAIN Tail(q), NEW j \in DOMAIN Tail(q), Tail(q)[i] = Tail(q)[j]
                 PROVE  i = j
      BY DEF Distinct
    <2>1. /\ i \in Int /\ j \in Int /\ i + 1 \in DOMAIN q /\ j + 1 \in DOMAIN q
          /\ q[i + 1] = q[j + 1]
      BY <1>0
    <2>2. i + 1 = j + 1
      BY <2>1 DEF Distinct
    <2> QED BY <2>1, <2>2
  <1>2. ASSUME NEW x \in Request, Queued(Tail(q), x) PROVE x # r /\ Queued(q, x)
    <2>1. PICK i \in DOMAIN Tail(q) : Tail(q)[i] = x
      BY <1>2 DEF Queued
    <2>2. i + 1 \in DOMAIN q /\ q[i + 1] = x /\ 1 \in DOMAIN q /\ i + 1 # 1
      BY <1>0, <2>1
    <2> QED BY <1>0, <2>2 DEF Queued, Distinct
  <1>3. ASSUME NEW x \in Request, x # r, Queued(q, x) PROVE Queued(Tail(q), x)
    <2>1. PICK i \in DOMAIN q : q[i] = x
      BY <1>3 DEF Queued
    <2>2. i # 1
      BY <1>0, <1>3, <2>1
    <2>3. i - 1 \in DOMAIN Tail(q) /\ Tail(q)[i - 1] = x
      BY <1>0, <2>1, <2>2
    <2> QED BY <2>3 DEF Queued
  <1> QED BY <1>1, <1>2, <1>3

\* Who is in the queue of the ATS lock: ATS commands that wait for it, or hold
\* it while they wait for the control lock or write.
AtsQueueInv ==
  /\ Distinct(aQ)
  /\ \A r \in Request :
       Queued(aQ, r) => job[r].kind = "ats" /\ pc[r] \in {"await", "hwait", "writing"}
  /\ \A r \in Request : pc[r] = "await" => Queued(aQ, r)

\* How a handler step changes that queue: r is not in it, joins at the end,
\* takes the free lock, keeps it, or leaves it.
AtsQueueMove(r) ==
  \/ aQ' = aQ /\ pc'[r] # "await" /\ (pc[r] = "idle" \/ job[r].kind # "ats")
  \/ aQ' = Append(aQ, r) /\ job[r].kind = "ats" /\ pc[r] = "idle" /\ pc'[r] = "await"
  \/ aQ = <<>> /\ aQ' = <<r>> /\ job[r].kind = "ats" /\ pc'[r] \in {"hwait", "writing"}
  \/ Has(aQ, r) /\ aQ' = aQ /\ job[r].kind = "ats" /\ pc'[r] \in {"hwait", "writing"}
  \/ Has(aQ, r) /\ aQ' = Tail(aQ) /\ pc'[r] = "done"

LEMMA AtsQueueMoves ==
  ASSUME TypeOK, LockInv, NEW r \in Request, Handle(r)
  PROVE  AtsQueueMove(r)
  <1> USE DEF TypeOK, RequestType
  <1>1. ASSUME job[r].kind = "ats", (pc[r] = "idle" /\ aQ = <<>>) \/ Has(aQ, r),
               \/ aQ' = Release(aQ) /\ pc'[r] = "done"
               \/ aQ' = Hold(aQ, r) /\ pc'[r] \in {"hwait", "writing"}
        PROVE  AtsQueueMove(r)
    BY <1>1 DEF Has, Release, Hold, AtsQueueMove
  <1>2. CASE AtsRefused(r) \/ AtsWaitsForToken(r)
    BY <1>1, <1>2 DEF AtsRefused, AtsWaitsForToken, AtsGates, Refuse, Finish
  <1>3. CASE AtsTokenRefused(r) \/ AtsSend(r)
    <2>1. job[r].kind = "ats" /\ ((pc[r] = "idle" /\ aQ = <<>>) \/ Has(aQ, r))
      BY <1>3 DEF AtsTokenRefused, AtsSend, AtsReachesToken, AtsGates, LockInv, HoldsAtsLock
    <2> QED BY <1>1, <1>3, <2>1 DEF AtsTokenRefused, AtsSend, Finish, Send
  <1>4. ASSUME NEW ok \in BOOLEAN, AtsDone(r, ok) PROVE AtsQueueMove(r)
    <2>1. Has(aQ, r)
      BY <1>4 DEF AtsDone, LockInv, HoldsAtsLock
    <2> QED BY <1>1, <1>4, <2>1 DEF AtsDone, Finish
  <1>5. CASE AtsTurnedAway(r) \/ AtsWaits(r) \/ Forbidden(r)
    BY <1>5 DEF AtsTurnedAway, AtsWaits, Forbidden, Refuse, Finish, AtsQueueMove
  <1>6. CASE IssueWaits(r) \/ IssueToken(r) \/ ExecuteWaits(r) \/ ExecuteRefused(r)
             \/ ExecuteTokenRefused(r) \/ ExecuteSend(r)
    BY <1>6 DEF IssueWaits, IssueToken, ExecuteWaits, ExecuteRefused, ExecuteTokenRefused,
        ExecuteSend, WaitForLock, Refuse, Finish, Send, AtsQueueMove
  <1>7. CASE AckRefused(r) \/ AckWaitsForToken(r) \/ AckTokenRefused(r) \/ AckSend(r)
             \/ AckLocalOnly(r)
    BY <1>7 DEF AckRefused, AckWaitsForToken, AckTokenRefused, AckSend, AckLocalOnly,
        AckReachesToken, WaitForLock, Finish, Send, AtsQueueMove
  <1>8. CASE \/ ReloadRefused(r) \/ \E m \in Map : ReloadWaits(r, m) \/ ReloadApply(r, m)
             \/ \E ok \in BOOLEAN : ExecuteDone(r, ok) \/ AckDone(r, ok)
    BY <1>8 DEF ReloadRefused, ReloadWaits, ReloadApply, ExecuteDone, AckDone, WaitForLock,
        Finish, AtsQueueMove
  <1> QED
    BY <1>2, <1>3, <1>4, <1>5, <1>6, <1>7, <1>8 DEF Handle

LEMMA AtsQueueStep ==
  ASSUME TypeOK, LockInv, AtsQueueInv, NEW r \in Request, Handle(r)
  PROVE  AtsQueueInv'
  <1> USE DEF TypeOK, RequestType
  <1>0. /\ job' = job
        /\ \A q \in Request : q # r => pc'[q] = pc[q]
    BY OwnStep
  <1>1. CASE aQ' = aQ /\ pc'[r] # "await" /\ (pc[r] = "idle" \/ job[r].kind # "ats")
    <2>1. ~Queued(aQ, r)
      BY <1>1 DEF AtsQueueInv
    <2> QED BY <1>0, <1>1, <2>1 DEF AtsQueueInv
  <1>2. CASE aQ' = Append(aQ, r) /\ job[r].kind = "ats" /\ pc[r] = "idle" /\ pc'[r] = "await"
    <2>1. ~Queued(aQ, r)
      BY <1>2 DEF AtsQueueInv
    <2>2. /\ Distinct(aQ')
          /\ \A x \in Request : Queued(aQ', x) <=> (x = r \/ Queued(aQ, x))
      BY <1>2, <2>1, QueueJoins DEF AtsQueueInv
    <2> QED BY <1>0, <1>2, <2>2 DEF AtsQueueInv
  <1>3. CASE /\ aQ = <<>> /\ aQ' = <<r>> /\ job[r].kind = "ats"
             /\ pc'[r] \in {"hwait", "writing"}
    <2>1. Distinct(aQ') /\ \A x \in Request : Queued(aQ', x) <=> x = r
      BY <1>3 DEF Distinct, Queued
    <2>2. \A x \in Request : ~Queued(aQ, x)
      BY <1>3 DEF Queued
    <2> QED BY <1>0, <1>3, <2>1, <2>2 DEF AtsQueueInv
  <1>4. CASE Has(aQ, r) /\ aQ' = aQ /\ job[r].kind = "ats" /\ pc'[r] \in {"hwait", "writing"}
    BY <1>0, <1>4 DEF AtsQueueInv
  <1>5. CASE Has(aQ, r) /\ aQ' = Tail(aQ) /\ pc'[r] = "done"
    <2>1. /\ Distinct(aQ')
          /\ \A x \in Request : Queued(aQ', x) <=> (x # r /\ Queued(aQ, x))
      BY <1>5, QueueLeaves DEF AtsQueueInv
    <2> QED BY <1>0, <1>5, <2>1 DEF AtsQueueInv
  <1> QED BY <1>1, <1>2, <1>3, <1>4, <1>5, AtsQueueMoves DEF AtsQueueMove

LEMMA AtsQueueInvariant == Spec => []AtsQueueInv
  <1>1. Init => AtsQueueInv
    BY DEF Init, AtsQueueInv, Distinct, Queued
  <1>2. ASSUME TypeOK, LockInv, AtsQueueInv, [Next]_vars PROVE AtsQueueInv'
    <2>1. CASE \E r \in Request : Handle(r)
      BY <1>2, <2>1, AtsQueueStep
    <2>2. ASSUME NEW m \in Map, Restart(m) PROVE AtsQueueInv'
      BY <1>2, <2>2 DEF Restart, AtsQueueInv, Distinct, Queued
    <2>3. CASE UNCHANGED <<reqVars, aQ>>
      BY <1>2, <2>3 DEF reqVars, AtsQueueInv, Distinct, Queued
    <2> QED
      BY <1>2, <2>1, <2>2, <2>3 DEF Next, Environment, WriteLands, PollApplied, CommsMoves,
          AtsMoves, AlarmMoves, Tick, vars
  <1> QED
    BY <1>1, <1>2, TypeCorrect, LockInvariant, PTL DEF Spec

\* The handler of r waits for no lock: it has the one it asked for, or it is in
\* client.write(), which answers or times out.
Runs(r) ==
  \/ pc[r] = "writing"
  \/ pc[r] = "hwait" /\ Has(hQ, r)
  \/ pc[r] = "await" /\ Has(aQ, r)

\* A call that waits for the control lock waits for a handler that runs; one
\* that waits for the ATS lock waits for a handler that runs or that itself
\* waits for such a one (control.py:179 and 236, ats_control.py:153 and 239).
WaitsEnd ==
  \A r \in Request :
    /\ pc[r] = "hwait" => \E q \in Request : Has(hQ, q) /\ Runs(q)
    /\ pc[r] = "await" =>
         \E q \in Request :
           /\ Has(aQ, q)
           /\ Runs(q) \/ (pc[q] = "hwait" /\ \E p \in Request : Has(hQ, p) /\ Runs(p))

\* The two asyncio locks never deadlock, although an ATS command holds one
\* while it waits for the other: every chain of waiting handlers has at most
\* two links and ends at a handler that runs.
THEOREM NoLockDeadlock == Spec => []WaitsEnd
  <1>1. ASSUME TypeOK, QueueInv, NEW r \in Request, pc[r] = "hwait"
        PROVE  \E q \in Request : Has(hQ, q) /\ Runs(q)
    <2> USE DEF TypeOK, RequestType
    <2>1. hQ # <<>>
      BY <1>1 DEF QueueInv
    <2>2. 1 \in DOMAIN hQ /\ hQ[1] = Head(hQ) /\ Head(hQ) \in Request
      BY <1>1, <2>1
    <2>3. pc[Head(hQ)] \in {"hwait", "writing"}
      BY <1>1, <2>2 DEF QueueInv
    <2> QED BY <2>1, <2>2, <2>3 DEF Has, Runs
  <1>2. ASSUME TypeOK, QueueInv, AtsQueueInv, NEW r \in Request, pc[r] = "await"
        PROVE  \E q \in Request :
                 /\ Has(aQ, q)
                 /\ Runs(q) \/ (pc[q] = "hwait" /\ \E p \in Request : Has(hQ, p) /\ Runs(p))
    <2>1. aQ # <<>>
      BY <1>2 DEF AtsQueueInv, Queued
    <2>2. 1 \in DOMAIN aQ /\ aQ[1] = Head(aQ) /\ Head(aQ) \in Request
      BY <1>2, <2>1 DEF TypeOK, RequestType
    <2>3. pc[Head(aQ)] \in {"await", "hwait", "writing"}
      BY <1>2, <2>2 DEF AtsQueueInv, Queued
    <2>4. Has(aQ, Head(aQ))
      BY <2>1 DEF Has
    <2>5. CASE pc[Head(aQ)] = "hwait"
      BY <1>1, <1>2, <2>2, <2>4, <2>5
    <2>6. CASE pc[Head(aQ)] \in {"await", "writing"}
      BY <2>2, <2>4, <2>6 DEF Runs
    <2> QED BY <2>3, <2>5, <2>6
  <1>3. TypeOK /\ QueueInv /\ AtsQueueInv => WaitsEnd
    BY <1>1, <1>2 DEF WaitsEnd
  <1> QED
    BY <1>3, TypeCorrect, QueueInvariant, AtsQueueInvariant, PTL

-----------------------------------------------------------------------------
(* The order of overlapping reloads.                                         *)

\* A reload that has swapped the live map and queues for the control map.
Reloading(r) == job[r].kind = "reload" /\ pc[r] = "hwait"

\* The reload in the queue's place i is the last one in it.
LastReload(i) ==
  Reloading(hQ[i]) /\ \A j \in DOMAIN hQ : j > i => ~Reloading(hQ[j])

ReloadInv ==
  /\ appMap = ctlMap
  /\ (\A r \in Request : ~Reloading(r)) => ctlMap = liveMap
  /\ \A i \in DOMAIN hQ : LastReload(i) => held[hQ[i]] = liveMap

LEMMA ReloadInvStep ==
  ASSUME TypeOK, LockInv, QueueInv, ReloadInv, NEW r \in Request, Handle(r)
  PROVE  ReloadInv'
  <1> USE DEF TypeOK, RequestType, MapType
  <1>0. /\ job' = job
        /\ \A q \in Request : q # r => pc'[q] = pc[q]
    BY OwnStep
  <1>a. \A i \in DOMAIN hQ : hQ[i] \in Request
    OBVIOUS
  <1>1. ASSUME UNCHANGED <<ctlMap, liveMap, appMap>>,
               \A q \in Request : q # r => held'[q] = held[q],
               ~Reloading(r), ~Reloading(r)'
        PROVE  ReloadInv'
    <2>1. \A q \in Request : Reloading(q)' <=> Reloading(q)
      BY <1>0, <1>1 DEF Reloading
    <2>2. \A q \in Request : Reloading(q) => held'[q] = held[q]
      BY <1>1
    <2>3. ASSUME hQ' = hQ PROVE ReloadInv'
      BY <1>a, <1>1, <2>1, <2>2, <2>3 DEF ReloadInv, LastReload
    <2>4. ASSUME hQ' = Append(hQ, r) PROVE ReloadInv'
      <3>1. ASSUME NEW i \in DOMAIN hQ', LastReload(i)' PROVE held'[hQ'[i]] = liveMap
        <4>1. i \in DOMAIN hQ /\ hQ'[i] = hQ[i]
          BY <1>1, <2>4, <3>1, QueuePlaces DEF LastReload
        <4>2. \A j \in DOMAIN hQ : j \in DOMAIN hQ' /\ hQ'[j] = hQ[j]
          BY <2>4, QueuePlaces
        <4>3. LastReload(i)
          BY <1>a, <2>1, <3>1, <4>1, <4>2 DEF LastReload
        <4> QED BY <1>a, <2>2, <4>1, <4>3 DEF ReloadInv, LastReload
      <3> QED BY <1>1, <2>1, <3>1 DEF ReloadInv
    <2>5. ASSUME hQ = <<>>, hQ' = <<r>> PROVE ReloadInv'
      BY <1>1, <2>1, <2>5 DEF ReloadInv, LastReload
    <2>6. ASSUME Has(hQ, r), hQ' = Tail(hQ) PROVE ReloadInv'
      <3>1. ASSUME NEW i \in DOMAIN hQ', LastReload(i)' PROVE held'[hQ'[i]] = liveMap
        <4>1. i + 1 \in DOMAIN hQ /\ hQ'[i] = hQ[i + 1] /\ i \in Nat
          BY <2>6, <3>1, QueuePlaces DEF Has
        <4>2. \A j \in DOMAIN hQ : j > i + 1 =>
                j - 1 \in DOMAIN hQ' /\ j - 1 > i /\ hQ'[j - 1] = hQ[j]
          BY <2>6, <4>1, QueuePlaces DEF Has
        <4>3. LastReload(i + 1)
          BY <1>a, <2>1, <3>1, <4>1, <4>2 DEF LastReload
        <4> QED BY <1>a, <2>2, <4>1, <4>3 DEF ReloadInv, LastReload
      <3> QED BY <1>1, <2>1, <3>1 DEF ReloadInv
    <2> QED BY <2>3, <2>4, <2>5, <2>6, QueueMoves DEF QueueMove
  <1>2. ASSUME NEW m \in Map, ReloadWaits(r, m) PROVE ReloadInv'
    <2>1. /\ hQ' = Append(hQ, r) /\ liveMap' = m /\ UNCHANGED <<ctlMap, appMap>>
          /\ held'[r] = m /\ job[r].kind = "reload" /\ pc'[r] = "hwait"
      BY <1>2 DEF ReloadWaits, WaitForLock
    <2>2. Reloading(r)'
      BY <1>0, <2>1 DEF Reloading
    <2>3. ASSUME NEW i \in DOMAIN hQ', LastReload(i)' PROVE hQ'[i] = r
      <3>1. Len(hQ) + 1 \in DOMAIN hQ' /\ hQ'[Len(hQ) + 1] = r /\ i \in 1..(Len(hQ) + 1)
        BY <2>1, <2>3, QueuePlaces
      <3>2. ~(Len(hQ) + 1 > i)
        BY <2>2, <2>3, <3>1 DEF LastReload
      <3> QED BY <3>1, <3>2, QueuePlaces
    <2> QED BY <2>1, <2>2, <2>3 DEF ReloadInv
  <1>3. ASSUME NEW m \in Map, ReloadApply(r, m) PROVE ReloadInv'
    <2>1. /\ ctlMap' = m /\ appMap' = m /\ held' = held /\ hQ' = Release(hQ)
          /\ job[r].kind = "reload" /\ pc'[r] = "done" /\ WithLock(r)
      BY <1>3 DEF ReloadApply, Finish
    <2>2. \A q \in Request : Reloading(q)' <=> Reloading(q) /\ q # r
      BY <1>0, <2>1 DEF Reloading
    <2>3. CASE hQ = <<>>
      <3>1. \A q \in Request : ~Reloading(q)
        BY <2>3 DEF QueueInv, Reloading
      <3>2. pc[r] = "idle"
        BY <2>1, <2>3 DEF WithLock, Has
      <3>3. liveMap' = m /\ hQ' = <<>>
        BY <1>3, <2>1, <2>3, <3>2 DEF ReloadApply, Release
      <3> QED BY <2>1, <3>3 DEF ReloadInv
    <2>4. CASE hQ # <<>>
      <3>1. /\ Has(hQ, r) /\ pc[r] = "hwait" /\ m = held[r] /\ liveMap' = liveMap
            /\ hQ' = Tail(hQ)
        BY <1>3, <2>1, <2>4 DEF ReloadApply, WithLock, Release
      <3>2. hQ[1] = r /\ 1 \in DOMAIN hQ
        BY <3>1, <2>4, QueuePlaces DEF Has
      <3>3. \A j \in DOMAIN hQ : j > 1 => hQ[j] # r
        BY <3>2, QueuePlaces DEF QueueInv
      <3>4. ASSUME \A q \in Request : ~Reloading(q)' PROVE m = liveMap
        <4>1. LastReload(1)
          BY <1>a, <2>1, <2>2, <3>1, <3>2, <3>3, <3>4 DEF LastReload, Reloading
        <4> QED BY <3>1, <3>2, <4>1 DEF ReloadInv
      <3>5. ASSUME NEW i \in DOMAIN hQ', LastReload(i)' PROVE held[hQ'[i]] = liveMap
        <4>1. i + 1 \in DOMAIN hQ /\ hQ'[i] = hQ[i + 1] /\ i \in Nat /\ i + 1 > 1
          BY <2>4, <3>1, <3>5, QueuePlaces
        <4>2. \A j \in DOMAIN hQ : j > i + 1 =>
                j > 1 /\ j - 1 \in DOMAIN hQ' /\ j - 1 > i /\ hQ'[j - 1] = hQ[j]
          BY <2>4, <3>1, <4>1, QueuePlaces
        <4>3. LastReload(i + 1)
          BY <1>a, <2>2, <3>3, <3>5, <4>1, <4>2 DEF LastReload
        <4> QED BY <4>1, <4>3 DEF ReloadInv
      <3> QED BY <2>1, <3>1, <3>4, <3>5 DEF ReloadInv
    <2> QED BY <2>3, <2>4
  <1>4. CASE Forbidden(r) \/ ReloadRefused(r)
    BY <1>1, <1>4 DEF Forbidden, ReloadRefused, Finish, Reloading, mapVars
  <1>5. ASSUME job[r].kind # "reload", UNCHANGED <<ctlMap, liveMap, appMap>>,
               \A q \in Request : q # r => held'[q] = held[q]
        PROVE  ReloadInv'
    BY <1>0, <1>1, <1>5 DEF Reloading
  <1>6. CASE \/ IssueWaits(r) \/ IssueToken(r) \/ ExecuteWaits(r) \/ ExecuteRefused(r)
             \/ ExecuteTokenRefused(r) \/ ExecuteSend(r) \/ \E ok \in BOOLEAN : ExecuteDone(r, ok)
    BY <1>5, <1>6 DEF IssueWaits, IssueToken, ExecuteWaits, ExecuteRefused, ExecuteTokenRefused,
        ExecuteSend, ExecuteDone, mapVars
  <1>7. CASE \/ AtsTurnedAway(r) \/ AtsWaits(r) \/ AtsRefused(r) \/ AtsWaitsForToken(r)
             \/ AtsTokenRefused(r) \/ AtsSend(r) \/ \E ok \in BOOLEAN : AtsDone(r, ok)
    BY <1>5, <1>7 DEF AtsTurnedAway, AtsWaits, AtsRefused, AtsWaitsForToken, AtsTokenRefused,
        AtsSend, AtsDone, AtsGates, AtsReachesToken, mapVars
  <1>8. CASE \/ AckRefused(r) \/ AckWaitsForToken(r) \/ AckTokenRefused(r) \/ AckSend(r)
             \/ AckLocalOnly(r) \/ \E ok \in BOOLEAN : AckDone(r, ok)
    BY <1>5, <1>8 DEF AckRefused, AckWaitsForToken, AckTokenRefused, AckSend, AckLocalOnly,
        AckDone, AckReachesToken, mapVars
  <1> QED
    BY <1>2, <1>3, <1>4, <1>6, <1>7, <1>8 DEF Handle

\* However many reloads overlap with each other and with commands, once none
\* is under way the poller, the state machine, the control service and
\* app.state hold the same map.
THEOREM ReloadsConverge == Spec => []ReloadConverges
  <1>1. Init => ReloadInv
    BY DEF Init, ReloadInv
  <1>2. ASSUME TypeOK, LockInv, QueueInv, ReloadInv, [Next]_vars PROVE ReloadInv'
    <2>1. CASE \E r \in Request : Handle(r)
      BY <1>2, <2>1, ReloadInvStep
    <2>2. ASSUME NEW m \in Map, Restart(m) PROVE ReloadInv'
      BY <1>2, <2>2 DEF Restart, ReloadInv
    <2>3. CASE UNCHANGED <<reqVars, mapVars, hQ>>
      BY <1>2, <2>3 DEF reqVars, mapVars, ReloadInv, LastReload, Reloading
    <2> QED
      BY <1>2, <2>1, <2>2, <2>3 DEF Next, Environment, WriteLands, PollApplied, CommsMoves,
          AtsMoves, AlarmMoves, Tick, vars
  <1>3. ReloadInv => ReloadConverges
    BY DEF ReloadInv, ReloadConverges, Reloading
  <1> QED
    BY <1>1, <1>2, <1>3, TypeCorrect, LockInvariant, QueueInvariant, PTL DEF Spec

-----------------------------------------------------------------------------
(* The audit trail.  A token leaves the dictionary by expiry, which leaves   *)
(* a row at once, or by a request that is denied with a row or is writing    *)
(* until it leaves one.                                                      *)

\* The request r answers for the token t.
AnswersFor(r, t) ==
  /\ job[r].tok = t /\ job[r].kind # "issue"
  /\ \/ pc[r] = "writing"
     \/ \E what \in {"token_denied", "ok", "failed"} : <<r, what>> \in audit

\* No token is of a later process.
GrantsArePast == \A t \in issued : grant[t].epoch <= epoch

\* A handler that was writing leaves its row; no row is ever taken back.
LEMMA AnswersStay ==
  ASSUME TypeOK, NEW r \in Request, Handle(r), NEW q \in Request, NEW t, AnswersFor(q, t)
  PROVE  AnswersFor(q, t)'
  <1> USE DEF TypeOK, RequestType
  <1>0. job' = job /\ (q # r => pc'[q] = pc[q])
    BY OwnStep
  <1>1. audit \subseteq audit'
    BY DEF Handle, Forbidden, IssueWaits, IssueToken, ExecuteWaits, ExecuteRefused,
        ExecuteTokenRefused, ExecuteSend, ExecuteDone, AtsTurnedAway, AtsWaits, AtsRefused,
        AtsWaitsForToken, AtsTokenRefused, AtsSend, AtsDone, AckRefused, AckWaitsForToken,
        AckTokenRefused, AckSend, AckLocalOnly, AckDone, ReloadRefused, ReloadWaits, ReloadApply,
        Refuse, Log
  <1>2. CASE q # r \/ pc[q] # "writing"
    BY <1>0, <1>1, <1>2 DEF AnswersFor
  <1>3. CASE q = r /\ pc[r] = "writing"
    <2>1. \E ok \in BOOLEAN : ExecuteDone(r, ok) \/ AtsDone(r, ok) \/ AckDone(r, ok)
      BY <1>3 DEF Handle, Forbidden, IssueWaits, IssueToken, ExecuteWaits, ExecuteRefused,
          ExecuteTokenRefused, ExecuteSend, AtsTurnedAway, AtsWaits, AtsRefused,
          AtsWaitsForToken, AtsTokenRefused, AtsSend, AckRefused, AckWaitsForToken,
          AckTokenRefused, AckSend, AckLocalOnly, ReloadRefused, ReloadWaits, ReloadApply,
          WithLock, WaitForLock, AtsGates, AtsReachesToken, AckReachesToken
    <2>2. <<r, "ok">> \in audit' \/ <<r, "failed">> \in audit'
      BY <2>1 DEF ExecuteDone, AtsDone, AckDone, Log
    <2> QED BY <1>0, <1>3, <2>2 DEF AnswersFor
  <1> QED BY <1>2, <1>3

\* A request that popped its token answers for it.
LEMMA PopIsAnswered ==
  ASSUME TypeOK, NEW r \in Request, Spends(r) \/ Drops(r)
  PROVE  PopToken(job[r]) /\ UNCHANGED <<job, epoch>> /\ AnswersFor(r, job[r].tok)'
  <1> USE DEF TypeOK, RequestType
  <1>1. /\ PopToken(job[r]) /\ UNCHANGED <<job, epoch>> /\ job[r].kind # "issue"
    BY DEF Spends, Drops, ExecuteSend, AtsSend, AckSend, ExecuteTokenRefused, AtsTokenRefused,
        AckTokenRefused, AckLocalOnly, AtsReachesToken, AtsGates, AckReachesToken, envVars
  <1>2. pc'[r] = "writing" \/ <<r, "token_denied">> \in audit' \/ <<r, "ok">> \in audit'
    BY DEF Spends, Drops, ExecuteSend, AtsSend, AckSend, ExecuteTokenRefused, AtsTokenRefused,
        AckTokenRefused, AckLocalOnly, Send, Log
  <1> QED BY <1>1, <1>2 DEF AnswersFor

LEMMA AccountStep ==
  ASSUME TypeOK, TokenInv, GrantsArePast, TokenAccounted, [Next]_vars
  PROVE  (GrantsArePast /\ TokenAccounted)'
  <1> USE DEF TypeOK, TokenType, EnvironmentType
  <1>1. ASSUME NEW r \in Request, Handle(r), UNCHANGED <<job, epoch>>,
               evicted \subseteq evicted',
               \A t \in issued' : t \in issued \/ t \in tokens',
               \A t \in issued' : grant'[t].epoch = IF t \in issued THEN grant[t].epoch ELSE epoch,
               \A t \in tokens \ tokens' : t \in evicted' \/ AnswersFor(r, t)'
        PROVE  (GrantsArePast /\ TokenAccounted)'
    <2>1. GrantsArePast'
      BY <1>1 DEF GrantsArePast
    <2>2. ASSUME NEW t \in issued' \ tokens', grant'[t].epoch = epoch'
          PROVE  t \in evicted' \/ \E q \in Request : AnswersFor(q, t)'
      <3>1. CASE t \in tokens
        BY <1>1, <2>2, <3>1
      <3>2. CASE t \notin tokens
        <4>1. t \in issued \ tokens /\ grant[t].epoch = epoch
          BY <1>1, <2>2, <3>2
        <4>2. t \in evicted \/ \E q \in Request : AnswersFor(q, t)
          BY <4>1 DEF TokenAccounted, AnswersFor
        <4> QED BY <1>1, <4>2, AnswersStay
      <3> QED BY <3>1, <3>2
    <2>3. TokenAccounted'
      BY <2>2 DEF TokenAccounted, AnswersFor
    <2> QED BY <2>1, <2>3
  <1>2. ASSUME NEW r \in Request, Handle(r) PROVE (GrantsArePast /\ TokenAccounted)'
    <2>1. CASE TokenQuiet(r)
      <3>1. UNCHANGED <<job, epoch, tokVars>>
        BY <2>1 DEF TokenQuiet, Forbidden, IssueWaits, ExecuteWaits, ExecuteRefused,
          AtsTurnedAway, AtsWaits, AtsRefused, AtsWaitsForToken, AckRefused, AckWaitsForToken,
          ExecuteDone, AtsDone, AckDone, ReloadRefused, ReloadWaits, ReloadApply, envVars
      <3> QED BY <1>1, <1>2, <3>1 DEF tokVars
    <2>2. CASE IssueToken(r)
      <3> DEFINE t == job[r].tok
      <3>1. t \in Token /\ t \notin issued
        BY <2>2, FreshToken DEF RequestType, Job
      <3>2. /\ UNCHANGED <<job, epoch>> /\ evicted' = evicted \cup Expired
            /\ issued' = issued \cup {t} /\ tokens' = (tokens \ Expired) \cup {t}
        BY <2>2 DEF IssueToken, envVars
      <3>3. grant'[t].epoch = epoch /\ \A u \in issued : grant'[u] = grant[u]
        BY <2>2, <3>1 DEF IssueToken
      <3> QED BY <1>1, <1>2, <3>1, <3>2, <3>3
    <2>3. CASE Spends(r) \/ Drops(r)
      <3>1. /\ tokens' = (tokens \ Expired) \ {job[r].tok} /\ evicted' = evicted \cup Expired
            /\ UNCHANGED <<grant, issued, job, epoch>> /\ AnswersFor(r, job[r].tok)'
        BY <2>3, PopIsAnswered DEF PopToken
      <3> QED BY <1>1, <1>2, <3>1
    <2> QED BY <1>2, <2>1, <2>2, <2>3, HandleKinds
  <1>3. ASSUME NEW m \in Map, Restart(m) PROVE (GrantsArePast /\ TokenAccounted)'
    <2>1. epoch' = epoch + 1 /\ UNCHANGED <<issued, grant>>
      BY <1>3 DEF Restart
    <2>2. \A t \in issued : grant[t].epoch \in Nat
      BY DEF Grant
    <2> QED BY <2>1, <2>2 DEF GrantsArePast, TokenAccounted
  <1>4. CASE UNCHANGED <<reqVars, tokVars, epoch, audit>>
    BY <1>4 DEF reqVars, tokVars, GrantsArePast, TokenAccounted
  <1> QED
    BY <1>2, <1>3, <1>4 DEF Next, Environment, WriteLands, PollApplied, CommsMoves,
        AtsMoves, AlarmMoves, Tick, vars, envVars

\* Every token that left the dictionary of the running process is accounted
\* for in the audit trail, or by a write still under way.
THEOREM TokensAreAccounted == Spec => []TokenAccounted
  <1>1. Init => GrantsArePast /\ TokenAccounted
    BY DEF Init, GrantsArePast, TokenAccounted
  <1> QED
    BY <1>1, AccountStep, TypeCorrect, TokenInvariant, PTL DEF Spec

\* A gate's refusal leaves the dictionary alone: only a request that was
\* answered otherwise takes a token out.
THEOREM RefusalsKeepTokens == Spec => RefusalKeepsToken
  <1>1. ASSUME TypeOK, [Next]_vars, NEW q \in Request,
               result[q] = "none", result'[q] \in Refusal
        PROVE  tokens' = tokens
    <2> USE <1>1 DEF TypeOK, RequestType, Refusal
    <2>1. ASSUME NEW r \in Request, NEW code, code \notin Refusal, Finish(r, code) PROVE FALSE
      BY <2>1 DEF Finish
    <2>2. ASSUME NEW r \in Request, Handle(r) PROVE tokens' = tokens
      <3>1. CASE TokenQuiet(r)
        BY <3>1 DEF TokenQuiet, Forbidden, IssueWaits, ExecuteWaits, ExecuteRefused,
          AtsTurnedAway, AtsWaits, AtsRefused, AtsWaitsForToken, AckRefused, AckWaitsForToken,
          ExecuteDone, AtsDone, AckDone, ReloadRefused, ReloadWaits, ReloadApply, tokVars
      <3>2. CASE IssueToken(r) \/ AckLocalOnly(r)
        BY <2>1, <3>2 DEF IssueToken, AckLocalOnly
      <3>3. CASE Spends(r)
        BY <3>3 DEF Spends, ExecuteSend, AtsSend, AckSend
      <3>4. CASE ExecuteTokenRefused(r) \/ AtsTokenRefused(r) \/ AckTokenRefused(r)
        <4>1. ConsumeResult(job[r]) \notin Refusal
          BY <3>4, ConsumeRange DEF ExecuteTokenRefused, AtsTokenRefused, AckTokenRefused, TokenRefusal
        <4> QED BY <2>1, <3>4, <4>1 DEF ExecuteTokenRefused, AtsTokenRefused, AckTokenRefused
      <3> QED BY <2>2, <3>1, <3>2, <3>3, <3>4, HandleKinds DEF Drops
    <2>3. ASSUME NEW m \in Map, Restart(m) PROVE tokens' = tokens
      BY <2>3 DEF Restart
    <2>4. CASE UNCHANGED tokVars
      BY <2>4 DEF tokVars
    <2> QED
      BY <2>2, <2>3, <2>4 DEF Next, Environment, WriteLands, PollApplied, CommsMoves,
          AtsMoves, AlarmMoves, Tick, vars
  <1>2. ASSUME TypeOK, [Next]_vars
        PROVE  [\A r \in Request :
                  result[r] = "none" /\ result'[r] \in Refusal => tokens' = tokens]_vars
    BY <1>1, <1>2
  <1> QED
    BY <1>2, TypeCorrect, PTL DEF Spec, RefusalKeepsToken

-----------------------------------------------------------------------------
(* Acknowledgements.                                                        *)

\* A request that has an answer is over.
AnsweredIsDone == \A r \in Request : result[r] # "none" => pc[r] = "done"

LEMMA AnswerInvariant == Spec => [](AnsweredIsDone /\ AckTruthful)
  <1>1. Init => AnsweredIsDone /\ AckTruthful
    BY DEF Init, AnsweredIsDone, AckTruthful
  <1>2. ASSUME TypeOK, AnsweredIsDone, AckTruthful, [Next]_vars
        PROVE  (AnsweredIsDone /\ AckTruthful)'
    <2> USE <1>2 DEF TypeOK, RequestType, MapType, HistoryType
    <2>1. ASSUME NEW r \in Request, Handle(r) PROVE (AnsweredIsDone /\ AckTruthful)'
      <3>0. /\ job' = job /\ pc[r] # "done" /\ result[r] = "none"
            /\ \A q \in Request : q # r => pc'[q] = pc[q]
        BY <2>1, OwnStep DEF AnsweredIsDone
      <3>1. ASSUME \/ result' = result
                   \/ \E code : Finish(r, code) /\ (job[r].kind = "ack" /\ code = "ok" =>
                        landed[r] > 0 \/ "ack_alarm" \notin Defines[held'[r]]),
                   \A q \in Request : q # r => held'[q] = held[q],
                   landed' = landed
            PROVE  (AnsweredIsDone /\ AckTruthful)'
        <4>1. \A q \in Request : q # r => result'[q] = result[q]
          BY <3>1 DEF Finish
        <4>2. result'[r] # "none" => pc'[r] = "done"
          BY <3>0, <3>1 DEF Finish
        <4>3. job[r].kind = "ack" /\ result'[r] = "ok" =>
                landed[r] > 0 \/ "ack_alarm" \notin Defines[held'[r]]
          BY <3>0, <3>1 DEF Finish
        <4>4. AnsweredIsDone'
          BY <3>0, <4>1, <4>2 DEF AnsweredIsDone
        <4>5. AckTruthful'
          BY <3>0, <3>1, <4>1, <4>3 DEF AckTruthful
        <4> QED BY <4>4, <4>5
      <3>2. CASE AckLocalOnly(r)
        BY <3>1, <3>2 DEF AckLocalOnly, AckReachesToken, histVars
      <3>3. ASSUME NEW ok \in BOOLEAN, AckDone(r, ok) PROVE (AnsweredIsDone /\ AckTruthful)'
        <4>1. ok \/ ~ok
          OBVIOUS
        <4> QED BY <3>1, <3>3, <4>1 DEF AckDone, histVars, mapVars
      <3>4. CASE AckTokenRefused(r)
        BY <3>1, <3>4 DEF AckTokenRefused, AckReachesToken, histVars
      <3>5. CASE AckRefused(r)
        BY <3>1, <3>5 DEF AckRefused, histVars, mapVars
      <3>6. CASE AckSend(r) \/ AckWaitsForToken(r) \/ ExecuteSend(r) \/ AtsSend(r)
        BY <3>1, <3>6 DEF AckSend, AckReachesToken, AckWaitsForToken, ExecuteSend, AtsSend,
            Send, histVars, mapVars
      <3>7. CASE Forbidden(r)
        BY <3>1, <3>7 DEF Forbidden, histVars, mapVars
      <3>8. ASSUME job[r].kind # "ack", result' = result \/ \E code : Finish(r, code),
                   \A q \in Request : q # r => held'[q] = held[q], landed' = landed
            PROVE  (AnsweredIsDone /\ AckTruthful)'
        BY <3>1, <3>8
      <3>9. CASE IssueWaits(r) \/ ExecuteWaits(r) \/ AtsWaits(r) \/ AtsWaitsForToken(r)
                 \/ \E m \in Map : ReloadWaits(r, m)
        BY <3>1, <3>9 DEF IssueWaits, ExecuteWaits, AtsWaits, AtsWaitsForToken, ReloadWaits,
            histVars, mapVars
      <3>10. CASE IssueToken(r) \/ ReloadRefused(r) \/ \E m \in Map : ReloadApply(r, m)
        BY <3>8, <3>10 DEF IssueToken, ReloadRefused, ReloadApply, histVars, mapVars
      <3>11. CASE ExecuteRefused(r) \/ ExecuteTokenRefused(r) \/ \E ok \in BOOLEAN : ExecuteDone(r, ok)
        BY <3>8, <3>11 DEF ExecuteRefused, ExecuteTokenRefused, ExecuteDone, Refuse, histVars, mapVars
      <3>12. CASE \/ AtsTurnedAway(r) \/ AtsRefused(r) \/ AtsTokenRefused(r)
                  \/ \E ok \in BOOLEAN : AtsDone(r, ok)
        BY <3>8, <3>12 DEF AtsTurnedAway, AtsRefused, AtsTokenRefused, AtsReachesToken, AtsGates,
            AtsDone, Refuse, histVars, mapVars
      <3> QED
        BY <2>1, <3>2, <3>3, <3>4, <3>5, <3>6, <3>7, <3>9, <3>10, <3>11, <3>12 DEF Handle
    <2>2. ASSUME NEW m \in Map, Restart(m) PROVE (AnsweredIsDone /\ AckTruthful)'
      BY <2>2 DEF Restart, AnsweredIsDone, AckTruthful
    <2>3. ASSUME NEW r \in Request, WriteLands(r) PROVE (AnsweredIsDone /\ AckTruthful)'
      <3>1. \A q \in Request : landed'[q] = landed[q] \/ landed'[q] = landed[q] + 1
        BY <2>3 DEF WriteLands
      <3>2. \A q \in Request : landed[q] \in Int
        BY ControlAssumption
      <3>3. \A q \in Request : landed[q] > 0 => landed'[q] > 0
        <4>1. \A a \in Int : \A b : a > 0 /\ (b = a \/ b = a + 1) => b > 0
          OBVIOUS
        <4> QED BY ONLY <3>1, <3>2, <4>1
      <3> QED BY <2>3, <3>3 DEF WriteLands, reqVars, mapVars, AnsweredIsDone, AckTruthful
    <2>4. CASE UNCHANGED <<reqVars, held, landed>>
      BY <2>4 DEF reqVars, AnsweredIsDone, AckTruthful
    <2> QED
      BY <2>1, <2>2, <2>3, <2>4 DEF Next, Environment, PollApplied, CommsMoves,
          AtsMoves, AlarmMoves, Tick, vars, mapVars, histVars
  <1> QED
    BY <1>1, <1>2, TypeCorrect, PTL DEF Spec

\* A successful acknowledgement means that the controller took the write, or
\* that the map the call was answered under has no control to write.
THEOREM AcksAreTruthful == Spec => []AckTruthful
  BY AnswerInvariant, PTL

-----------------------------------------------------------------------------
(* Refinement: what the surfaces assume of client.write() is RemoteWrite,   *)
(* with the same bound on the effects of a write: ModbusClient is shown to  *)
(* implement it for as many as the library sends frames.  A write whose     *)
(* handler a restart killed stays unanswered.                               *)

Told ==
  [r \in Request |-> IF r \notin sent THEN "unasked"
                     ELSE IF result[r] = "ok" THEN "ok"
                     ELSE IF result[r] = "modbus_failed" THEN "failed"
                     ELSE "waiting"]

Remote == INSTANCE RemoteWrite
            WITH Write <- Request, answer <- Told, effect <- landed

\* A handler is in client.write() from the moment the write is started; one
\* whose write was started is still there, or over.
SentInv ==
  /\ \A r \in Request : pc[r] = "writing" => r \in sent
  /\ \A r \in sent : pc[r] \in {"writing", "done"}

\* What a handler step does to the writes: nothing before the write, its start,
\* or its answer.
WriteMove(r) ==
  \/ /\ pc[r] # "writing" /\ pc'[r] # "writing" /\ sent' = sent /\ landed' = landed
     /\ \A q \in Request : q # r => result'[q] = result[q]
  \/ pc[r] # "writing" /\ Send(r) /\ result' = result
  \/ /\ pc[r] = "writing" /\ UNCHANGED <<sent, landed>>
     /\ \E ok \in BOOLEAN : /\ ok => landed[r] > 0
                            /\ Finish(r, IF ok THEN "ok" ELSE "modbus_failed")

LEMMA WriteMoves ==
  ASSUME TypeOK, NEW r \in Request, Handle(r)
  PROVE  WriteMove(r)
  <1> USE DEF TypeOK, RequestType
  <1>1. ASSUME pc[r] # "writing", pc'[r] # "writing", UNCHANGED histVars,
               result' = result \/ \E code : Finish(r, code)
        PROVE  WriteMove(r)
    BY <1>1 DEF WriteMove, Finish, histVars
  <1>2. ASSUME pc[r] # "writing", Send(r), result' = result PROVE WriteMove(r)
    BY <1>2 DEF WriteMove
  <1>3. ASSUME NEW ok \in BOOLEAN, ExecuteDone(r, ok) \/ AtsDone(r, ok) \/ AckDone(r, ok)
        PROVE  WriteMove(r)
    BY <1>3 DEF ExecuteDone, AtsDone, AckDone, WriteMove, histVars
  <1>4. CASE Spends(r)
    BY <1>2, <1>4 DEF Spends, ExecuteSend, AtsSend, AckSend, WithLock, AtsReachesToken, AtsGates,
        AckReachesToken
  <1>5. CASE Drops(r)
    BY <1>1, <1>5 DEF Drops, ExecuteTokenRefused, AtsTokenRefused, AckTokenRefused, AckLocalOnly,
        WithLock, AtsReachesToken, AtsGates, AckReachesToken, Finish
  <1>6. CASE Forbidden(r) \/ IssueWaits(r) \/ IssueToken(r) \/ ExecuteWaits(r) \/ ExecuteRefused(r)
    BY <1>1, <1>6 DEF Forbidden, IssueWaits, IssueToken, ExecuteWaits, ExecuteRefused, WaitForLock,
        WithLock, Refuse, Finish
  <1>7. CASE AtsTurnedAway(r) \/ AtsWaits(r) \/ AtsRefused(r) \/ AtsWaitsForToken(r)
    BY <1>1, <1>7 DEF AtsTurnedAway, AtsWaits, AtsRefused, AtsWaitsForToken, AtsGates, Refuse, Finish
  <1>8. CASE AckRefused(r) \/ AckWaitsForToken(r) \/ ReloadRefused(r)
    BY <1>1, <1>8 DEF AckRefused, AckWaitsForToken, ReloadRefused, WaitForLock, Finish
  <1>9. ASSUME NEW m \in Map, ReloadWaits(r, m) \/ ReloadApply(r, m) PROVE WriteMove(r)
    BY <1>1, <1>9 DEF ReloadWaits, ReloadApply, WaitForLock, WithLock, Finish
  <1> QED
    BY <1>3, <1>4, <1>5, <1>6, <1>7, <1>8, <1>9 DEF Handle, Spends, Drops

LEMMA SentInvariant == Spec => []SentInv
  <1>1. Init => SentInv
    BY DEF Init, SentInv
  <1>2. ASSUME TypeOK, SentInv, [Next]_vars PROVE SentInv'
    <2> USE <1>2 DEF TypeOK, RequestType, HistoryType
    <2>1. ASSUME NEW r \in Request, Handle(r) PROVE SentInv'
      <3>1. /\ pc[r] # "done" /\ pc'[r] \in {"hwait", "await", "writing", "done"}
            /\ \A q \in Request : q # r => pc'[q] = pc[q]
        BY <2>1, OwnStep
      <3>2. WriteMove(r)
        BY <2>1, WriteMoves
      <3>3. CASE pc[r] # "writing" /\ pc'[r] # "writing" /\ sent' = sent
        BY <3>1, <3>3 DEF SentInv
      <3>4. CASE Send(r)
        BY <3>1, <3>4 DEF SentInv, Send
      <3>5. ASSUME pc[r] = "writing", sent' = sent, NEW code, Finish(r, code) PROVE SentInv'
        BY <3>1, <3>5 DEF SentInv, Finish
      <3> QED BY <3>2, <3>3, <3>4, <3>5 DEF WriteMove
    <2>2. ASSUME NEW m \in Map, Restart(m) PROVE SentInv'
      BY <2>2 DEF Restart, SentInv
    <2>3. CASE pc' = pc /\ sent' = sent
      BY <2>3 DEF SentInv
    <2> QED
      BY <2>1, <2>2, <2>3 DEF Next, Environment, WriteLands, PollApplied, CommsMoves,
          AtsMoves, AlarmMoves, Tick, vars, reqVars, histVars
  <1> QED
    BY <1>1, <1>2, TypeCorrect, PTL DEF Spec

LEMMA RemoteStep ==
  ASSUME TypeOK, SentInv, AnsweredIsDone, [Next]_vars
  PROVE  [Remote!Next]_<<Told, landed>>
  <1> USE DEF TypeOK, RequestType, HistoryType
  <1>1. ASSUME NEW r \in Request, Handle(r) PROVE [Remote!Next]_<<Told, landed>>
    <2>1. pc[r] # "done" /\ result[r] = "none"
      BY <1>1, OwnStep DEF AnsweredIsDone
    <2>2. CASE /\ pc[r] # "writing" /\ sent' = sent /\ landed' = landed
               /\ \A q \in Request : q # r => result'[q] = result[q]
      <3>1. r \notin sent
        BY <2>1, <2>2 DEF SentInv
      <3>2. Told' = Told
        BY <2>2, <3>1 DEF Told
      <3> QED BY <2>2, <3>2
    <2>3. CASE pc[r] # "writing" /\ Send(r) /\ result' = result
      <3>1. r \notin sent
        BY <2>1, <2>3 DEF SentInv
      <3>2. sent' = sent \cup {r} /\ landed' = landed
        BY <2>3 DEF Send
      <3>3. Told[r] = "unasked" /\ Told' = [Told EXCEPT ![r] = "waiting"]
        BY <2>1, <2>3, <3>1, <3>2 DEF Told
      <3>4. Remote!Ask(r)
        BY <3>2, <3>3 DEF Remote!Ask
      <3> QED BY <3>4 DEF Remote!Next
    <2>4. ASSUME pc[r] = "writing", UNCHANGED <<sent, landed>>, NEW ok \in BOOLEAN,
                 ok => landed[r] > 0, Finish(r, IF ok THEN "ok" ELSE "modbus_failed")
          PROVE  Remote!Next
      <3>1. r \in sent /\ Told[r] = "waiting"
        BY <2>1, <2>4 DEF SentInv, Told
      <3> DEFINE o == IF ok THEN "ok" ELSE "failed"
      <3>2. Told' = [Told EXCEPT ![r] = o]
        BY <2>4, <3>1 DEF Told, Finish
      <3>3. o \in Remote!Outcome /\ (o = "ok" => ok)
        BY DEF Remote!Outcome
      <3>4. Remote!Answer(r, o)
        BY <2>4, <3>1, <3>2, <3>3 DEF Remote!Answer
      <3> QED BY <3>3, <3>4 DEF Remote!Next
    <2> QED BY <1>1, <2>2, <2>3, <2>4, WriteMoves DEF WriteMove
  <1>2. ASSUME NEW r \in Request, WriteLands(r) PROVE Remote!Next
    <2>1. r \in sent /\ landed[r] < MaxEffect /\ landed' = [landed EXCEPT ![r] = @ + 1]
      BY <1>2 DEF WriteLands
    <2>2. Told' = Told /\ Told[r] # "unasked"
      BY <1>2, <2>1 DEF WriteLands, reqVars, Told
    <2>3. Remote!Land(r)
      BY <2>1, <2>2 DEF Remote!Land
    <2> QED BY <2>3 DEF Remote!Next
  <1>3. ASSUME NEW m \in Map, Restart(m) PROVE UNCHANGED <<Told, landed>>
    <2>1. /\ sent' = sent /\ landed' = landed
          /\ \A q \in Request : \/ result'[q] = result[q]
                                \/ result[q] = "none" /\ result'[q] = "killed"
      BY <1>3 DEF Restart, AnsweredIsDone
    <2> QED BY <2>1 DEF Told
  <1>4. CASE UNCHANGED <<result, sent, landed>>
    BY <1>4 DEF Told
  <1> QED
    BY <1>1, <1>2, <1>3, <1>4 DEF Next, Environment, PollApplied, CommsMoves,
        AtsMoves, AlarmMoves, Tick, vars, reqVars, histVars

\* The writes of the three control surfaces, seen together, are the writes of
\* RemoteWrite for every bound on the effects of one write, so for the frames
\* the client's library really sends: each is asked for once, takes effect only
\* afterwards and at most so often, possibly after its caller gave up or the
\* process died, and is answered "ok" only when it has taken effect.
THEOREM WritesAreRemote == Spec => Remote!Spec
  <1>1. Init => Remote!Init
    BY DEF Init, Remote!Init, Told
  <1>2. AnsweredIsDone /\ AckTruthful => AnsweredIsDone
    OBVIOUS
  <1> QED
    BY <1>1, <1>2, RemoteStep, TypeCorrect, SentInvariant, AnswerInvariant, PTL DEF Spec, Remote!Spec

-----------------------------------------------------------------------------
(* Refinement: the dictionary, the two services and the alarm ack together  *)
(* implement the abstract ledger.                                           *)

\* The live tokens of the abstract ledger are the keys of the dictionary.
LEMMA LiveTokens ==
  ASSUME TypeOK
  PROVE  /\ Ledger!In("live") = tokens
         /\ Ledger!In("unissued") = Token \ issued
  BY DEF Ledger!In, LedgerView, TypeOK, TokenType

LEMMA LedgerStep ==
  ASSUME TypeOK, TypeOK', TokenInv, [Next]_vars
  PROVE  [Ledger!Next]_LedgerView
  <1>0. job' = job
    BY Answered
  <1> USE DEF TypeOK, TokenType
  <1>1. ASSUME NEW r \in Request, IssueToken(r) PROVE Ledger!Next
    <2> DEFINE t == job[r].tok
    <2>1. t \in Token /\ t \notin issued
      BY <1>1, FreshToken DEF RequestType, Job
    <2>2. /\ tokens' = (tokens \ Expired) \cup {t} /\ issued' = issued \cup {t} /\ sent' = sent
      BY <1>1 DEF IssueToken, histVars
    <2>3. \A q \in sent : job[q].tok \in issued \ tokens
      BY DEF TokenInv, SpentIsGone
    <2>4. Ledger!Step(Expired, {t}, {})
      BY <1>0, <2>1, <2>2, <2>3, LiveTokens DEF Ledger!Step, LedgerView, Expired
    <2> QED
      BY <2>1, <2>4 DEF Ledger!Next, Expired
  <1>2. ASSUME NEW r \in Request, ConsumeResult(job[r]) = "ok", PopToken(job[r]), Send(r)
        PROVE  Ledger!Next
    <2> DEFINE t == job[r].tok
    <2>1. t \in tokens \ Expired
      BY <1>2 DEF ConsumeResult
    <2>2. /\ tokens' = (tokens \ Expired) \ {t} /\ issued' = issued /\ sent' = sent \cup {r}
      BY <1>2 DEF PopToken, Send
    <2>3. \A q \in sent : job[q].tok \in issued \ tokens
      BY DEF TokenInv, SpentIsGone
    <2>4. Ledger!Step(Expired, {}, {t})
      BY <1>0, <2>1, <2>2, <2>3, LiveTokens DEF Ledger!Step, LedgerView, Expired
    <2> QED
      BY <2>1, <2>4 DEF Ledger!Next, Expired
  <1>3. ASSUME tokens' \subseteq tokens, issued' = issued, sent' = sent PROVE Ledger!Next
    <2>1. \A q \in sent : job[q].tok \in issued \ tokens
      BY DEF TokenInv, SpentIsGone
    <2>2. Ledger!Step(tokens \ tokens', {}, {})
      BY <1>0, <1>3, <2>1, LiveTokens DEF Ledger!Step, LedgerView
    <2> QED
      BY <1>3, <2>2 DEF Ledger!Next
  <1> QED
    BY <1>1, <1>2, <1>3, TokenFrame DEF TokenStep, PopToken, tokVars

\* The control surfaces implement the token ledger: a token is handed out
\* once, is spent on at most one write, and never comes back.
THEOREM LedgerRefinement == Spec => ImplementsLedger
  <1>1. Init => Ledger!Init
    BY DEF Init, Ledger!Init, LedgerView
  <1> QED
    BY <1>1, LedgerStep, TypeCorrect, TokenInvariant, PTL DEF Spec, ImplementsLedger, Ledger!Spec
=============================================================================
