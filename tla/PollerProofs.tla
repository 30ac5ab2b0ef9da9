---------------------------- MODULE PollerProofs ----------------------------
(***************************************************************************)
(* Proofs about Poller for any register maps, batches, cadences, windows    *)
(* and thresholds: the types, the soundness of the comms classifier and the *)
(* honesty of the heartbeat.                                                *)
(***************************************************************************)
EXTENDS Poller, TLAPS, FiniteSetTheorems

\* A loop that reads holds a map; before the first base poll there is no prime
\* loop, so only the base loop can read then.
TaskInv ==
  /\ \A t \in Tier : IF task[t].pc = "read" THEN task[t].map \in Map ELSE task[t].at = 1
  /\ task["base"].pc # "off"

\* The failure count is the run of failed samples at the end of the window,
\* unless the watchdog wrote it.
RunInv ==
  /\ ~silenced => /\ health.fails <= Len(window)
                  /\ \A i \in Len(window) - health.fails + 1 .. Len(window) : ~window[i]
  /\ health.state = "lost" => health.fails = LostAfter

\* What the last sample and the window say of a link that is called healthy.
HealthyInv ==
  /\ health.state = "healthy" /\ window # <<>> => window[Len(window)]
  /\ health.state = "healthy" /\ (health.goods < Streak \/ Flapping) => ~BelowTarget(window)

SilencedInv == silenced => health.state = "lost"

IInv == TypeOK /\ TaskInv /\ RunInv /\ HealthyInv /\ SilencedInv

-----------------------------------------------------------------------------
(* Bounds.                                                                  *)

LEMMA StaleFacts ==
  /\ \A t \in Tier : StaleAge(t) \in Nat \ {0} /\ StaleAge(t) <= MaxAge /\ Cadence[t] \in Nat \ {0}
  /\ MaxAge \in Nat /\ MaxSilence \in Nat /\ MaxSilence = StaleAge("prime") + 1
  <1>1. \A t \in Tier : Stale * Cadence[t] \in Nat \ {0}
    <2> SUFFICES ASSUME NEW t \in Tier PROVE Stale * Cadence[t] \in Nat \ {0}
      OBVIOUS
    <2>1. Stale \in Nat \ {0} /\ Cadence[t] \in Nat \ {0}  BY PollerAssumption
    <2>2. \A a, b \in Nat \ {0} : a * b \in Nat \ {0}  OBVIOUS
    <2> QED  BY <2>1, <2>2
  <1>2. \A t \in Tier : StaleAge(t) \in Nat \ {0}  BY <1>1 DEF StaleAge
  <1>3. \A t \in Tier : Cadence[t] \in Nat \ {0}  BY PollerAssumption
  <1> QED  BY <1>2, <1>3 DEF Tier, MaxAge, MaxSilence

LEMMA OlderFacts ==
  ASSUME NEW cap \in Nat, NEW a \in Absent .. cap
  PROVE  /\ Older(a, cap) \in Absent .. cap
         /\ a # Absent => Older(a, cap) \in 0 .. cap /\ Older(a, cap) >= a
         /\ a = Absent => Older(a, cap) = Absent
         /\ Older(a, cap) <= a + 1
         /\ a # Absent /\ a < cap => Older(a, cap) = a + 1
  BY DEF Older, Absent

\* deque(maxlen): the new sample is last, the others keep their order.
LEMMA PushFacts ==
  ASSUME NEW w \in Seq(BOOLEAN), Len(w) <= Window, NEW ok \in BOOLEAN
  PROVE  LET p == Push(w, ok)
         IN  /\ p \in Seq(BOOLEAN) /\ Len(p) <= Window /\ p # <<>> /\ p[Len(p)] = ok
             /\ Len(p) = IF Len(w) = Window THEN Window ELSE Len(w) + 1
             /\ \A k \in 0 .. Len(p) - 2 : p[Len(p) - 1 - k] = w[Len(w) - k]
  <1> DEFINE b == IF Len(w) = Window THEN Tail(w) ELSE w
             p == Push(w, ok)
  <1>1. Window \in Nat \ {0} /\ Len(w) \in Nat  BY PollerAssumption
  <1>2. /\ b \in Seq(BOOLEAN) /\ Len(b) = IF Len(w) = Window THEN Window - 1 ELSE Len(w)
        /\ \A k \in 0 .. Len(b) - 1 : b[Len(b) - k] = w[Len(w) - k]
    <2>1. CASE Len(w) = Window
      <3>1. w # <<>>  BY <1>1, <2>1
      <3>2. /\ Tail(w) \in Seq(BOOLEAN) /\ Len(Tail(w)) = Len(w) - 1
            /\ \A i \in 1 .. Len(w) - 1 : Tail(w)[i] = w[i + 1]
        BY <3>1
      <3>3. \A k \in 0 .. Len(w) - 2 : Tail(w)[Len(w) - 1 - k] = w[Len(w) - k]
        BY <3>2, <1>1
      <3>4. b = Tail(w)  BY <2>1
      <3> HIDE DEF b
      <3>5. Len(b) = Window - 1 /\ b \in Seq(BOOLEAN)
        BY <3>2, <3>4, <2>1
      <3>6. \A k \in 0 .. Len(b) - 1 : b[Len(b) - k] = w[Len(w) - k]
        <4> TAKE k \in 0 .. Len(b) - 1
        <4>1. k \in 0 .. Len(w) - 2 /\ Len(b) - k = Len(w) - 1 - k
          BY <3>5, <2>1, <1>1
        <4> QED  BY <4>1, <3>3, <3>4
      <3> QED  BY <3>5, <3>6, <2>1
    <2>2. CASE Len(w) # Window
      BY <2>2, <1>1
    <2> QED  BY <2>1, <2>2
  <1>3. p = Append(b, ok)  BY DEF Push
  <1> HIDE DEF b, p
  <1>4. /\ p \in Seq(BOOLEAN) /\ Len(p) = Len(b) + 1 /\ p[Len(b) + 1] = ok
        /\ \A i \in 1 .. Len(b) : p[i] = b[i]
    BY <1>2, <1>3
  <1>5. Len(b) \in Nat  BY <1>2
  <1>6. Len(p) <= Window /\ p # <<>> /\ p[Len(p)] = ok
    BY <1>1, <1>2, <1>4, <1>5
  <1>7. \A k \in 0 .. Len(p) - 2 : p[Len(p) - 1 - k] = w[Len(w) - k]
    <2> TAKE k \in 0 .. Len(p) - 2
    <2>1. Len(p) - 1 - k = Len(b) - k /\ Len(b) - k \in 1 .. Len(b) /\ k \in 0 .. Len(b) - 1
      BY <1>4, <1>5
    <2> QED  BY <2>1, <1>2, <1>4
  <1> QED  BY <1>1, <1>2, <1>4, <1>6, <1>7 DEF p

-----------------------------------------------------------------------------
(* A sample.                                                                *)

State == {"healthy", "degraded", "lost"}
HealthType == [state: State, fails: 0 .. LostAfter, goods: 0 .. Streak]

LEMMA EpisodeFacts ==
  ASSUME episodes \in Seq(Nat), Len(episodes) <= FlapMax
  PROVE  AddEpisode(episodes) \in Seq(Nat) /\ Len(AddEpisode(episodes)) <= FlapMax
  <1>1. FlapMax \in Nat \ {0}  BY PollerAssumption
  <1> DEFINE e == IF Len(episodes) = FlapMax THEN SubSeq(episodes, 1, FlapMax - 1) ELSE episodes
  <1>2. e \in Seq(Nat) /\ Len(e) <= FlapMax - 1
    BY <1>1
  <1>3. <<0>> \in Seq(Nat) /\ Len(<<0>>) = 1  OBVIOUS
  <1>4. AddEpisode(episodes) = <<0>> \o e  BY DEF AddEpisode
  <1> HIDE DEF e
  <1>5. (<<0>> \o e) \in Seq(Nat) /\ Len(<<0>> \o e) = 1 + Len(e)  BY <1>2, <1>3
  <1> QED  BY <1>1, <1>2, <1>4, <1>5

\* Recording a sample keeps the types and both statements about the window.
LEMMA RecordKeeps ==
  ASSUME IInv, NEW ok \in BOOLEAN, Record(ok)
  PROVE  /\ health' \in HealthType /\ silenced' \in BOOLEAN
         /\ window' \in Seq(BOOLEAN) /\ Len(window') <= Window
         /\ episodes' \in Seq(Nat) /\ Len(episodes') <= FlapMax
         /\ RunInv' /\ HealthyInv' /\ SilencedInv'
  <1> DEFINE fails == IF ok THEN 0 ELSE Capped(health.fails + 1, LostAfter)
             goods == IF ok THEN Capped(health.goods + 1, Streak) ELSE 0
             w == Push(window, ok)
             state == Classify(fails, goods, w)
  <1>1. /\ health \in HealthType /\ window \in Seq(BOOLEAN) /\ Len(window) <= Window
        /\ silenced \in BOOLEAN
    BY DEF IInv, TypeOK, HealthType, State
  <1>2. /\ LostAfter \in Nat \ {0} /\ Streak \in Nat \ {0} /\ Window \in Nat
        /\ LostAfter <= Window
    BY PollerAssumption
  <1>3. health.fails \in 0 .. LostAfter /\ health.goods \in 0 .. Streak  BY <1>1 DEF HealthType
  <1>4. /\ fails \in 0 .. LostAfter /\ goods \in 0 .. Streak
        /\ ok => fails = 0
        /\ ~ok => /\ goods = 0 /\ fails >= 1
                  /\ fails = IF health.fails = LostAfter THEN LostAfter ELSE health.fails + 1
    BY <1>2, <1>3 DEF Capped
  <1>5. /\ window' = w /\ health' = [state |-> state, fails |-> fails, goods |-> goods]
        /\ episodes' = IF state = "lost" /\ health.state # "lost"
                       THEN AddEpisode(episodes) ELSE episodes
        /\ silenced' = (silenced /\ state = "lost")
    BY DEF Record
  <1> HIDE DEF fails, goods, w, state
  <1>6. /\ w \in Seq(BOOLEAN) /\ Len(w) <= Window /\ w # <<>> /\ w[Len(w)] = ok
        /\ Len(w) = IF Len(window) = Window THEN Window ELSE Len(window) + 1
        /\ \A k \in 0 .. Len(w) - 2 : w[Len(w) - 1 - k] = window[Len(window) - k]
    BY <1>1, PushFacts DEF w
  <1>7. /\ state \in State /\ (state = "lost" <=> fails >= LostAfter)
        /\ state = "healthy" => (goods >= Streak /\ ~Flapping) \/ (~BelowTarget(w) /\ ~(fails >= 1))
    BY DEF state, Classify, State
  <1>8. health'.state = state /\ health'.fails = fails /\ health'.goods = goods
    BY <1>5
  <1>9. HealthyInv'
    <2>1. state = "healthy" => w[Len(w)]
      BY <1>2, <1>4, <1>6, <1>7
    <2>2. state = "healthy" /\ (goods < Streak \/ Flapping) => ~BelowTarget(w)
      BY <1>2, <1>4, <1>7
    <2>3. state = "healthy" => (Flapping' <=> Flapping)  BY <1>5 DEF Flapping
    <2>4. BelowTarget(w) <=> BelowTarget(window)'  BY <1>5 DEF BelowTarget
    <2> QED  BY <2>1, <2>2, <2>3, <2>4, <1>5, <1>8 DEF HealthyInv
  <1>10. RunInv'
    <2>1. state = "lost" => fails = LostAfter  BY <1>2, <1>4, <1>7
    <2>2. ASSUME ~(silenced /\ state = "lost")
          PROVE  fails <= Len(w) /\ \A i \in Len(w) - fails + 1 .. Len(w) : ~w[i]
      <3>1. CASE ok
        BY <3>1, <1>4, <1>6
      <3>2. CASE ~ok
        <4>1. ~silenced
          <5>1. silenced => health.state = "lost"
            BY DEF IInv, SilencedInv
          <5> QED  BY <5>1, <2>2, <3>2, <1>2, <1>3, <1>4, <1>7 DEF IInv, RunInv
        <4>2. /\ health.fails <= Len(window)
              /\ \A i \in Len(window) - health.fails + 1 .. Len(window) : ~window[i]
          BY <4>1 DEF IInv, RunInv
        <4>3. fails <= Len(w) /\ fails - 1 <= health.fails
          BY <3>2, <4>2, <1>1, <1>2, <1>3, <1>4, <1>6
        <4>4. ASSUME NEW i \in Len(w) - fails + 1 .. Len(w) PROVE ~w[i]
          <5>1. CASE i = Len(w)
            BY <5>1, <3>2, <1>6
          <5>2. CASE i # Len(w)
            <6> DEFINE k == Len(w) - 1 - i
            <6>1. Len(w) \in Nat /\ Len(window) \in Nat /\ fails \in Nat /\ health.fails \in Nat
              BY <1>1, <1>2, <1>3, <1>4, <1>6
            <6>2. /\ k \in 0 .. Len(w) - 2 /\ i = Len(w) - 1 - k
                  /\ Len(window) - k \in Len(window) - health.fails + 1 .. Len(window)
              BY <5>2, <6>1, <4>3
            <6> HIDE DEF k
            <6>3. w[i] = window[Len(window) - k]  BY <6>2, <1>6
            <6> QED  BY <6>2, <6>3, <4>2
          <5> QED  BY <5>1, <5>2
        <4> QED  BY <4>3, <4>4
      <3> QED  BY <3>1, <3>2
    <2> QED  BY <2>1, <2>2, <1>5, <1>8 DEF RunInv
  <1>11. health' \in HealthType  BY <1>4, <1>5, <1>7 DEF HealthType
  <1>12. episodes' \in Seq(Nat) /\ Len(episodes') <= FlapMax
    BY <1>5, EpisodeFacts DEF IInv, TypeOK
  <1>13. silenced' \in BOOLEAN /\ SilencedInv'  BY <1>5, <1>8 DEF SilencedInv
  <1> QED  BY <1>5, <1>6, <1>9, <1>10, <1>11, <1>12, <1>13

-----------------------------------------------------------------------------
(* The loops.                                                               *)

TaskType == [pc: {"off", "sleep", "read"}, map: Map \cup {NoMap}, at: Nat \ {0},
             got: SUBSET Register, ok: BOOLEAN, since: Nat]

\* What TypeOK and TaskInv say of the loops.
TaskOK(k) ==
  /\ k \in [Tier -> TaskType] /\ k["base"].pc # "off"
  /\ \A t \in Tier : /\ k[t].since <= Cadence[t]
                     /\ k[t].pc = "read" => /\ k[t].map \in Map
                                            /\ k[t].at <= Len(Batches[k[t].map][t])
                     /\ k[t].pc # "read" => k[t].at = 1

LEMMA TaskDef == ASSUME IInv PROVE TaskOK(task)
  BY DEF IInv, TypeOK, TaskInv, TaskOK, TaskType

\* A loop that goes to sleep, with the other one if it is the first poll.
LEMMA SleepFacts ==
  ASSUME TaskOK(task), NEW t \in Tier
  PROVE  /\ TaskOK(Sleep(t)) /\ Sleep(t)[t].pc = "sleep"
         /\ \A u \in Tier : Sleep(t)[u].pc = "sleep" \/ Sleep(t)[u] = task[u]
         /\ task["prime"].pc # "off" => \A u \in Tier : u # t => Sleep(t)[u] = task[u]
  <1>1. task \in [Tier -> TaskType] /\ \A u \in Tier : task[u].since <= Cadence[u]
    BY DEF TaskOK
  <1>2. \A u \in Tier : Cadence[u] \in Nat  BY PollerAssumption
  <1> DEFINE first == task["prime"].pc = "off"
             Rest(u) == [pc |-> "sleep", map |-> NoMap, at |-> 1, got |-> {}, ok |-> FALSE,
                         since |-> IF first THEN Cadence[u] ELSE task[u].since]
  <1>3. ASSUME NEW u \in Tier
        PROVE  /\ Rest(u) \in TaskType /\ Rest(u).pc = "sleep" /\ Rest(u).at = 1
               /\ Rest(u).since <= Cadence[u]
    <2>1. task[u] \in TaskType /\ task[u].since \in Nat  BY <1>1 DEF TaskType
    <2> QED  BY <1>1, <1>2, <2>1 DEF TaskType
  <1>4. Sleep(t) = [u \in Tier |-> IF u = t \/ first THEN Rest(u) ELSE task[u]]
    BY DEF Sleep
  <1> HIDE DEF first, Rest
  <1>5. \A u \in Tier : Sleep(t)[u] = IF u = t \/ first THEN Rest(u) ELSE task[u]
    BY <1>4
  <1>6. Sleep(t) \in [Tier -> TaskType]  BY <1>1, <1>3, <1>4
  <1>7. "base" \in Tier /\ Sleep(t)["base"].pc # "off"
    BY <1>3, <1>5 DEF Tier, TaskOK
  <1>8. TaskOK(Sleep(t))
    BY <1>1, <1>3, <1>5, <1>6, <1>7 DEF TaskOK
  <1> QED  BY <1>3, <1>5, <1>8 DEF first

LEMMA StartPollTask ==
  ASSUME IInv, NEW t \in Tier, StartPoll(t)
  PROVE  /\ TaskOK(task')
         /\ \A u \in Tier : task[u].pc = "read" => task'[u].pc = "read"
  <1>1. /\ TaskOK(task) /\ task[t].pc = "sleep" /\ map \in Map /\ Cadence[t] \in Nat
        /\ Batches[map][t] \in Seq(SUBSET Register)
    BY TaskDef, PollerAssumption DEF StartPoll, IInv, TypeOK
  <1>2. CASE Batches[map][t] = <<>>
    <2> DEFINE k == Sleep(t)
    <2>1. /\ TaskOK(k) /\ k[t].pc = "sleep"
          /\ \A u \in Tier : k[u].pc = "sleep" \/ k[u] = task[u]
          /\ task["prime"].pc # "off" => \A u \in Tier : u # t => k[u] = task[u]
      BY <1>1, SleepFacts
    <2>2. task' = [k EXCEPT ![t].since = IF task["prime"].pc = "off" THEN @ ELSE 0]
      BY <1>2 DEF StartPoll
    <2> HIDE DEF k
    <2>3. /\ k \in [Tier -> TaskType] /\ k[t] \in TaskType /\ k[t].since \in Nat
      BY <2>1 DEF TaskOK, TaskType
    <2> DEFINE s == IF task["prime"].pc = "off" THEN k[t].since ELSE 0
    <2>4. task' = [k EXCEPT ![t] = [k[t] EXCEPT !.since = s]]
      BY <2>2, <2>3
    <2>5. s \in Nat /\ s <= Cadence[t]
      BY <1>1, <2>1, <2>3 DEF TaskOK
    <2> HIDE DEF s
    <2>6. [k[t] EXCEPT !.since = s] = [pc |-> k[t].pc, map |-> k[t].map, at |-> k[t].at,
                                       got |-> k[t].got, ok |-> k[t].ok, since |-> s]
      BY <2>3 DEF TaskType
    <2>7. /\ [k[t] EXCEPT !.since = s] \in TaskType /\ [k[t] EXCEPT !.since = s].pc = "sleep"
          /\ [k[t] EXCEPT !.since = s].since = s /\ [k[t] EXCEPT !.since = s].at = 1
      BY <2>1, <2>3, <2>5, <2>6 DEF TaskType, TaskOK
    <2>8. \A u \in Tier : task'[u] = IF u = t THEN [k[t] EXCEPT !.since = s] ELSE k[u]
      BY <2>3, <2>4
    <2>9. TaskOK(task')
      <3>1. task' \in [Tier -> TaskType]  BY <2>3, <2>4, <2>7
      <3>2. task'["base"].pc # "off"  BY <2>1, <2>7, <2>8 DEF TaskOK, Tier
      <3>3. \A u \in Tier : /\ task'[u].since <= Cadence[u]
                            /\ task'[u].pc = "read" => /\ task'[u].map \in Map
                                                       /\ task'[u].at <= Len(Batches[task'[u].map][u])
                            /\ task'[u].pc # "read" => task'[u].at = 1
        BY <2>1, <2>5, <2>7, <2>8 DEF TaskOK
      <3> QED  BY <3>1, <3>2, <3>3 DEF TaskOK
    <2>10. \A u \in Tier : task[u].pc = "read" => task'[u].pc = "read"
      <3> SUFFICES ASSUME NEW u \in Tier, task[u].pc = "read" PROVE task'[u].pc = "read"
        OBVIOUS
      <3>1. u # t  BY <1>1
      <3>2. task["prime"].pc # "off"  BY <1>1, <3>1 DEF Tier, TaskOK
      <3> QED  BY <3>1, <3>2, <2>1, <2>8
    <2> QED  BY <2>9, <2>10
  <1>3. CASE Batches[map][t] # <<>>
    <2> DEFINE r == [pc |-> "read", map |-> map, at |-> 1, got |-> {}, ok |-> FALSE, since |-> 0]
    <2>2. task \in [Tier -> TaskType] /\ task[t] \in TaskType  BY <1>1 DEF TaskOK
    <2>3. task' = [task EXCEPT ![t] = r]  BY <1>3 DEF StartPoll
    <2>4. r \in TaskType  BY <1>1 DEF TaskType
    <2>5. r.at = 1 /\ Len(Batches[map][t]) >= 1
      BY <1>1, <1>3 DEF TaskOK
    <2>6. \A u \in Tier : task'[u] = IF u = t THEN r ELSE task[u]  BY <2>2, <2>3
    <2>7. r.pc = "read" /\ r.map = map /\ r.since = 0  OBVIOUS
    <2> HIDE DEF r
    <2>8. task' \in [Tier -> TaskType]  BY <2>2, <2>3, <2>4
    <2>9. task'["base"].pc # "off"  BY <2>6, <2>7, <1>1 DEF TaskOK, Tier
    <2>10. \A u \in Tier : /\ task'[u].since <= Cadence[u]
                           /\ task'[u].pc = "read" => /\ task'[u].map \in Map
                                                      /\ task'[u].at <= Len(Batches[task'[u].map][u])
                           /\ task'[u].pc # "read" => task'[u].at = 1
      BY <1>1, <2>5, <2>6, <2>7 DEF TaskOK
    <2> QED  BY <2>6, <2>7, <2>8, <2>9, <2>10 DEF TaskOK
  <1> QED  BY <1>2, <1>3

\* What a batch brings.
LEMMA YieldFacts ==
  ASSUME IInv, NEW t \in Tier, task[t].pc = "read", NEW y \in ReadYields(t)
  PROVE  /\ y[1] \in BOOLEAN /\ y[2] \subseteq Register
         /\ task[t] \in TaskType /\ task[t].map \in Map
         /\ Len(Batches[task[t].map][t]) \in Nat
         /\ task[t].at \in 1 .. Len(Batches[task[t].map][t])
  <1>1. /\ task[t] \in TaskType /\ task[t].map \in Map
        /\ task[t].at \in Nat \ {0} /\ task[t].at <= Len(Batches[task[t].map][t])
    BY TaskDef DEF TaskOK, TaskType
  <1>2. Batches[task[t].map][t] \in Seq(SUBSET Register)  BY <1>1, PollerAssumption
  <1>3. Len(Batches[task[t].map][t]) \in Nat /\ task[t].at \in 1 .. Len(Batches[task[t].map][t])
    BY <1>1, <1>2
  <1>4. Batch(t) \in SUBSET Register  BY <1>2, <1>3 DEF Batch
  <1>5. y \in BOOLEAN \X SUBSET Batch(t)  BY DEF ReadYields
  <1>6. y[1] \in BOOLEAN /\ y[2] \in SUBSET Batch(t)  BY <1>5
  <1> QED  BY <1>1, <1>3, <1>4, <1>6

LEMMA ReadBatchTask ==
  ASSUME IInv, NEW t \in Tier, NEW y \in ReadYields(t), ReadBatch(t, y)
  PROVE  TaskOK(task') /\ \A u \in Tier : task[u].pc = "read" => task'[u].pc = "read"
  <1>1. task[t].pc = "read" /\ ~IsLast(t)  BY DEF ReadBatch
  <1>2. /\ y[1] \in BOOLEAN /\ y[2] \subseteq Register
        /\ task[t] \in TaskType /\ task[t].map \in Map
        /\ Len(Batches[task[t].map][t]) \in Nat
        /\ task[t].at \in 1 .. Len(Batches[task[t].map][t])
    BY <1>1, YieldFacts
  <1> DEFINE r == [pc |-> "read", map |-> task[t].map, at |-> task[t].at + 1,
                   got |-> task[t].got \cup y[2], ok |-> (task[t].ok \/ y[1]),
                   since |-> task[t].since]
  <1>3. task' = [task EXCEPT ![t] = r]
    <2>1. task \in [Tier -> TaskType]  BY TaskDef DEF TaskOK
    <2> QED  BY <2>1 DEF ReadBatch
  <1>4. r = [pc |-> "read", map |-> task[t].map, at |-> task[t].at + 1,
             got |-> task[t].got \cup y[2], ok |-> (task[t].ok \/ y[1]), since |-> task[t].since]
    OBVIOUS
  <1> HIDE DEF r
  <1>5. /\ r.pc = "read" /\ r.map = task[t].map /\ r.since = task[t].since
        /\ r.at = task[t].at + 1
    BY <1>1, <1>4
  <1>6. r \in TaskType
    <2>1. /\ task[t].at + 1 \in Nat \ {0} /\ task[t].got \cup y[2] \in SUBSET Register
          /\ (task[t].ok \/ y[1]) \in BOOLEAN /\ task[t].since \in Nat
          /\ task[t].map \in Map \cup {NoMap}
      BY <1>2 DEF TaskType
    <2> QED  BY <1>1, <1>4, <2>1 DEF TaskType
  <1>7. r.at <= Len(Batches[r.map][t])
    BY <1>1, <1>2, <1>5 DEF IsLast
  <1>8. TaskOK(task)  BY TaskDef
  <1>9. task \in [Tier -> TaskType] /\ \A u \in Tier : task'[u] = IF u = t THEN r ELSE task[u]
    BY <1>3, <1>8 DEF TaskOK
  <1>10. task' \in [Tier -> TaskType]  BY <1>3, <1>6, <1>9
  <1>11. task'["base"].pc # "off"  BY <1>5, <1>8, <1>9 DEF TaskOK, Tier
  <1>12. \A u \in Tier : /\ task'[u].since <= Cadence[u]
                         /\ task'[u].pc = "read" => /\ task'[u].map \in Map
                                                    /\ task'[u].at <= Len(Batches[task'[u].map][u])
                         /\ task'[u].pc # "read" => task'[u].at = 1
    BY <1>2, <1>5, <1>7, <1>8, <1>9 DEF TaskOK
  <1> QED  BY <1>5, <1>9, <1>10, <1>11, <1>12 DEF TaskOK

\* The parts of the invariant put together.
LEMMA Assemble ==
  ASSUME TaskOK(task'), map' \in Map, age' \in [Register -> Absent .. MaxAge],
         silence' \in Absent .. MaxSilence, health' \in HealthType,
         window' \in Seq(BOOLEAN), Len(window') <= Window,
         episodes' \in Seq(Nat), Len(episodes') <= FlapMax,
         settled' \in BOOLEAN, silenced' \in BOOLEAN, RunInv', HealthyInv', SilencedInv'
  PROVE  IInv'
  <1>1. TypeOK'  BY DEF TypeOK, TaskOK, TaskType, HealthType, State
  <1>2. TaskInv'  BY DEF TaskInv, TaskOK
  <1> QED  BY <1>1, <1>2 DEF IInv

\* The parts of the invariant taken apart.
LEMMA Parts ==
  ASSUME IInv
  PROVE  /\ TaskOK(task) /\ map \in Map /\ age \in [Register -> Absent .. MaxAge]
         /\ silence \in Absent .. MaxSilence /\ health \in HealthType
         /\ window \in Seq(BOOLEAN) /\ Len(window) <= Window
         /\ episodes \in Seq(Nat) /\ Len(episodes) <= FlapMax
         /\ settled \in BOOLEAN /\ silenced \in BOOLEAN /\ RunInv /\ HealthyInv /\ SilencedInv
  BY TaskDef DEF IInv, TypeOK, HealthType, State

\* A step that leaves the link's health alone and starts no flapping.
LEMMA HealthStays ==
  ASSUME IInv, UNCHANGED <<health, window, silenced>>, Flapping' => Flapping
  PROVE  /\ health' \in HealthType /\ window' \in Seq(BOOLEAN) /\ Len(window') <= Window
         /\ silenced' \in BOOLEAN /\ RunInv' /\ HealthyInv' /\ SilencedInv'
  <1>1. BelowTarget(window)' <=> BelowTarget(window)  BY DEF BelowTarget
  <1> QED  BY <1>1, Parts DEF RunInv, HealthyInv, SilencedInv

-----------------------------------------------------------------------------
(* The actions.                                                             *)

LEMMA StartPollIInv == ASSUME IInv, NEW t \in Tier, StartPoll(t) PROVE IInv'
  <1>1. UNCHANGED <<map, age, silence, health, window, episodes, settled, silenced>>
    BY DEF StartPoll
  <1>2. Flapping' => Flapping  BY <1>1 DEF Flapping
  <1> QED  BY <1>1, <1>2, Parts, HealthStays, StartPollTask, Assemble

LEMMA ReadBatchIInv ==
  ASSUME IInv, NEW t \in Tier, NEW y \in ReadYields(t), ReadBatch(t, y) PROVE IInv'
  <1>1. Record(y[1]) /\ UNCHANGED <<map, age, silence, settled>> /\ y[1] \in BOOLEAN
    BY YieldFacts DEF ReadBatch
  <1> QED  BY <1>1, Parts, RecordKeeps, ReadBatchTask, Assemble

LEMMA LastBatchIInv ==
  ASSUME IInv, NEW t \in Tier, NEW y \in ReadYields(t), LastBatch(t, y) PROVE IInv'
  <1>1. /\ Record(y[1]) /\ UNCHANGED <<map, settled>> /\ y[1] \in BOOLEAN
        /\ task' = Sleep(t)
    BY YieldFacts DEF LastBatch
  <1>2. TaskOK(task')  BY <1>1, Parts, SleepFacts
  <1>3. age' \in [Register -> Absent .. MaxAge]
    <2>1. 0 \in Absent .. MaxAge /\ Absent \in Absent .. MaxAge  BY StaleFacts DEF Absent
    <2> QED  BY <2>1, Parts DEF LastBatch, Refreshed
  <1>4. silence' \in Absent .. MaxSilence
    <2>1. 0 \in Absent .. MaxSilence  BY StaleFacts DEF Absent
    <2> QED  BY <2>1, Parts DEF LastBatch
  <1> QED  BY <1>1, <1>2, <1>3, <1>4, Parts, RecordKeeps, Assemble

LEMMA WatchdogIInv == ASSUME IInv, Watchdog PROVE IInv'
  <1>1. /\ health' = [state |-> "lost", goods |-> 0,
                      fails |-> IF health.fails > LostAfter THEN health.fails ELSE LostAfter]
        /\ episodes' = AddEpisode(episodes) /\ silenced' = TRUE
        /\ UNCHANGED <<map, task, age, silence, window, settled>>
    BY DEF Watchdog
  <1>2. health.fails \in 0 .. LostAfter /\ LostAfter \in Nat /\ Streak \in Nat
    BY Parts, PollerAssumption DEF HealthType
  <1>3. health'.state = "lost" /\ health'.fails = LostAfter /\ health'.goods = 0
    BY <1>1, <1>2
  <1>4. health' \in HealthType  BY <1>1, <1>2 DEF HealthType, State
  <1>5. RunInv' /\ HealthyInv' /\ SilencedInv'
    BY <1>1, <1>3 DEF RunInv, HealthyInv, SilencedInv
  <1>6. episodes' \in Seq(Nat) /\ Len(episodes') <= FlapMax  BY <1>1, Parts, EpisodeFacts
  <1> QED  BY <1>1, <1>4, <1>5, <1>6, Parts, Assemble

LEMMA TickIInv == ASSUME IInv, Tick PROVE IInv'
  <1>1. /\ task' = [t \in Tier |-> [task[t] EXCEPT !.since = Older(@, Cadence[t])]]
        /\ age' = [r \in Register |-> Older(age[r], MaxAge)]
        /\ silence' = Older(silence, MaxSilence)
        /\ episodes' = [i \in DOMAIN episodes |-> Older(episodes[i], FlapWindow + 1)]
        /\ UNCHANGED <<map, health, window, settled, silenced>>
    BY DEF Tick
  <1>2. age' \in [Register -> Absent .. MaxAge] /\ silence' \in Absent .. MaxSilence
    BY <1>1, Parts, OlderFacts, StaleFacts
  <1>3. episodes' \in Seq(Nat) /\ Len(episodes') <= FlapMax /\ (Flapping' => Flapping)
    <2>1. episodes \in Seq(Nat) /\ Len(episodes) <= FlapMax  BY Parts
    <2>2. DOMAIN episodes = 1 .. Len(episodes) /\ Len(episodes) \in Nat
          /\ \A i \in DOMAIN episodes : episodes[i] \in Nat
      BY <2>1
    <2>3. \A i \in DOMAIN episodes : Older(episodes[i], FlapWindow + 1) \in Nat
      BY <2>2 DEF Older
    <2>4. episodes' \in [1 .. Len(episodes) -> Nat]  BY <1>1, <2>2, <2>3
    <2>5. episodes' \in Seq(Nat) /\ Len(episodes') = Len(episodes)  BY <2>2, <2>4
    <2>6. ASSUME Flapping' PROVE Flapping
      <3>1. Len(episodes) = FlapMax /\ \A i \in DOMAIN episodes' : episodes'[i] <= FlapWindow
        BY <2>5, <2>6 DEF Flapping
      <3>2. FlapWindow \in Nat  BY PollerAssumption
      <3>3. ASSUME NEW i \in DOMAIN episodes PROVE episodes[i] <= FlapWindow
        <4>1. episodes'[i] = Older(episodes[i], FlapWindow + 1) /\ episodes'[i] <= FlapWindow
          BY <1>1, <3>1
        <4>2. episodes[i] \in Nat  BY <2>2
        <4> QED  BY <4>1, <4>2, <3>2 DEF Older, Absent
      <3> QED  BY <3>1, <3>3 DEF Flapping
    <2> QED  BY <2>1, <2>5, <2>6
  <1>4. TaskOK(task')
    <2>1. TaskOK(task)  BY Parts
    <2>2. ASSUME NEW t \in Tier
          PROVE  /\ task'[t] \in TaskType /\ task'[t].since <= Cadence[t]
                 /\ task'[t].pc = task[t].pc /\ task'[t].map = task[t].map
                 /\ task'[t].at = task[t].at
      <3>1. /\ task[t] \in TaskType /\ task[t].since \in Nat /\ task[t].since <= Cadence[t]
            /\ Cadence[t] \in Nat
        BY <2>1, StaleFacts DEF TaskOK, TaskType
      <3> DEFINE n == Older(task[t].since, Cadence[t])
      <3>2. n \in Nat /\ n <= Cadence[t]  BY <3>1 DEF Older, Absent
      <3>3. task'[t] = [task[t] EXCEPT !.since = n]  BY <1>1
      <3> HIDE DEF n
      <3>4. task'[t] = [pc |-> task[t].pc, map |-> task[t].map, at |-> task[t].at,
                        got |-> task[t].got, ok |-> task[t].ok, since |-> n]
        BY <3>1, <3>3 DEF TaskType
      <3> QED  BY <3>1, <3>2, <3>4 DEF TaskType
    <2>3. task' \in [Tier -> TaskType]  BY <1>1, <2>2
    <2> QED  BY <2>1, <2>2, <2>3 DEF TaskOK, Tier
  <1> QED  BY <1>1, <1>2, <1>3, <1>4, Parts, HealthStays, Assemble

LEMMA InitIInv == Init => IInv
  <1> SUFFICES ASSUME Init PROVE IInv  OBVIOUS
  <1>1. TypeOK /\ TaskInv
    <2>1. /\ \A t \in Tier : Cadence[t] \in Nat
          /\ Absent \in Absent .. MaxAge /\ Absent \in Absent .. MaxSilence
      BY StaleFacts DEF Absent
    <2>2. LostAfter \in Nat /\ Streak \in Nat /\ Window \in Nat /\ FlapMax \in Nat
      BY PollerAssumption
    <2>3. /\ task \in [Tier -> TaskType]
          /\ \A t \in Tier : /\ task[t].since = Cadence[t] /\ task[t].pc # "read"
                             /\ task[t].at = 1
          /\ task["base"].pc = "sleep"
      BY <2>1 DEF Init, TaskType, Tier
    <2>4. health \in HealthType  BY <2>2 DEF Init, HealthType, State
    <2>5. window \in Seq(BOOLEAN) /\ Len(window) <= Window
          /\ episodes \in Seq(Nat) /\ Len(episodes) <= FlapMax
      BY <2>2 DEF Init
    <2>6. /\ map \in Map /\ age \in [Register -> Absent .. MaxAge] /\ silence \in Absent .. MaxSilence
          /\ {settled, silenced} \subseteq BOOLEAN
      BY <2>1 DEF Init
    <2>7. TaskInv  BY <2>3 DEF TaskInv
    <2>8. TypeOK  BY <2>1, <2>3, <2>4, <2>5, <2>6 DEF TypeOK, TaskType, HealthType, State
    <2> QED  BY <2>7, <2>8
  <1>2. RunInv /\ SilencedInv  BY DEF Init, RunInv, SilencedInv
  <1>3. HealthyInv
    <2>1. {i \in DOMAIN window : window[i]} = {} /\ Len(window) = 0  BY DEF Init
    <2>2. Cardinality({}) = 0  BY FS_EmptySet
    <2>3. ~BelowTarget(window)  BY <2>1, <2>2 DEF BelowTarget
    <2> QED  BY <2>3 DEF Init, HealthyInv
  <1> QED  BY <1>1, <1>2, <1>3 DEF IInv

LEMMA NextIInv == IInv /\ [Next]_vars => IInv'
  <1> SUFFICES ASSUME IInv, [Next]_vars PROVE IInv'  OBVIOUS
  <1>1. ASSUME NEW t \in Tier, StartPoll(t) PROVE IInv'  BY <1>1, StartPollIInv
  <1>2. ASSUME NEW t \in Tier, Read(t) PROVE IInv'
    BY <1>2, ReadBatchIInv, LastBatchIInv DEF Read
  <1>3. CASE (\E m \in Map : ApplyRegmap(m)) \/ Settle \/ UNCHANGED vars
    <2>1. /\ UNCHANGED <<task, age, silence, health, window, episodes, silenced>>
          /\ map' \in Map /\ settled' \in BOOLEAN
      BY <1>3, Parts DEF ApplyRegmap, Settle, vars
    <2>2. Flapping' => Flapping  BY <2>1 DEF Flapping
    <2> QED  BY <2>1, <2>2, Parts, HealthStays, Assemble
  <1>4. CASE Watchdog  BY <1>4, WatchdogIInv
  <1>5. CASE Tick  BY <1>5, TickIInv
  <1> QED  BY <1>1, <1>2, <1>3, <1>4, <1>5 DEF Next

LEMMA Inductive == Spec => []IInv
  BY InitIInv, NextIInv, PTL DEF Spec

-----------------------------------------------------------------------------

\* Every variable keeps its type and every age its cap, for any maps, cadences
\* and thresholds.
THEOREM TypeCorrect == Spec => []TypeOK
  <1>1. IInv => TypeOK  BY DEF IInv
  <1> QED  BY <1>1, Inductive, PTL

\* For any window and thresholds the classifier says LOST only of the watchdog
\* or of LostAfter failed samples, and healthy never after a failed one nor,
\* without a streak or while the link flaps, over a window below the target.
THEOREM ClassifierIsSound == Spec => []ClassifierSound
  <1>1. IInv => ClassifierSound
    <2> SUFFICES ASSUME IInv PROVE ClassifierSound  OBVIOUS
    <2>1. RunInv /\ HealthyInv  BY Parts
    <2> QED  BY <2>1 DEF RunInv, HealthyInv, ClassifierSound
  <1> QED  BY <1>1, Inductive, PTL

-----------------------------------------------------------------------------
(* The heartbeat.                                                           *)

LEMMA BaseIsSlower ==
  ASSUME Cadence["prime"] <= Cadence["base"], NEW t \in Tier
  PROVE  StaleAge("prime") <= StaleAge(t)
  <1>1. Cadence["prime"] \in Nat /\ Cadence["base"] \in Nat /\ Stale \in Nat
    BY PollerAssumption DEF Tier
  <1>2. \A a, b, c \in Nat : b <= c => a * b <= a * c  OBVIOUS
  <1>3. Stale * Cadence["prime"] <= Stale * Cadence["base"]  BY <1>1, <1>2
  <1>4. Stale * Cadence["prime"] \in Nat  BY <1>1
  <1> QED  BY <1>3, <1>4 DEF StaleAge, Tier

LEMMA LastBatchHonest ==
  ASSUME Cadence["prime"] <= Cadence["base"], IInv, HeartbeatHonest,
         NEW t \in Tier, NEW y \in ReadYields(t), LastBatch(t, y)
  PROVE  HeartbeatHonest'
  <1> DEFINE got == task[t].got \cup y[2]
  <1>1. /\ task[t].pc = "read" /\ age' = Refreshed(t, got)
        /\ silence' = IF Heartbeat(t, got, task[t].ok \/ y[1]) THEN 0 ELSE silence
    BY DEF LastBatch
  <1>2. task[t].map \in Map  BY <1>1, Parts DEF TaskOK
  <1> HIDE DEF got
  <1>3. ASSUME silence' \in 0 .. StaleAge("prime") - 1, NEW r \in AlwaysState
        PROVE  age'[r] \in 0 .. silence'
    <2>1. r \in Register /\ r \in StateRegs[task[t].map]  BY <1>2 DEF AlwaysState
    <2>2. CASE Heartbeat(t, got, task[t].ok \/ y[1])
      <3>1. r \in got /\ silence' = 0  BY <1>1, <2>1, <2>2 DEF Heartbeat
      <3> QED  BY <1>1, <2>1, <3>1 DEF Refreshed
    <2>3. CASE ~Heartbeat(t, got, task[t].ok \/ y[1])
      <3>1. silence' = silence /\ age[r] \in 0 .. silence
        BY <1>1, <1>3, <2>3 DEF HeartbeatHonest
      <3>2. silence \in 0 .. StaleAge("prime") - 1  BY <1>3, <3>1
      <3>3. age[r] < StaleAge(t)
        BY <3>1, <3>2, BaseIsSlower, StaleFacts DEF Tier
      <3>4. age[r] \in Int /\ StaleAge(t) \in Int  BY <3>1, StaleFacts
      <3>5. age'[r] \in {0, age[r]}
        BY <1>1, <2>1, <3>3, <3>4 DEF Refreshed
      <3> QED  BY <3>1, <3>2, <3>5
    <2> QED  BY <2>2, <2>3
  <1> QED  BY <1>3 DEF HeartbeatHonest, AlwaysState

LEMMA TickHonest == ASSUME IInv, HeartbeatHonest, Tick PROVE HeartbeatHonest'
  <1>1. /\ silence \in Absent .. MaxSilence /\ MaxSilence = StaleAge("prime") + 1
        /\ StaleAge("prime") \in Nat \ {0} /\ MaxSilence \in Nat /\ MaxAge \in Nat
        /\ age \in [Register -> Absent .. MaxAge]
    BY Parts, StaleFacts DEF Tier
  <1>2. silence' = Older(silence, MaxSilence) /\ age' = [r \in Register |-> Older(age[r], MaxAge)]
    BY DEF Tick
  <1>3. ASSUME silence' \in 0 .. StaleAge("prime") - 1, NEW r \in AlwaysState
        PROVE  age'[r] \in 0 .. silence'
    <2>1. silence # Absent /\ silence < MaxSilence
      BY <1>1, <1>2, <1>3 DEF Older, Absent
    <2>2. silence' = silence + 1  BY <1>1, <1>2, <2>1 DEF Older
    <2>3. silence \in 0 .. StaleAge("prime") - 1  BY <1>1, <1>3, <2>1, <2>2 DEF Absent
    <2>4. r \in Register /\ age[r] \in 0 .. silence  BY <2>3 DEF HeartbeatHonest, AlwaysState
    <2>5. age[r] \in Absent .. MaxAge /\ age[r] # Absent  BY <1>1, <2>4 DEF Absent
    <2>6. age'[r] \in 0 .. MaxAge /\ age'[r] <= age[r] + 1
      BY <1>1, <1>2, <2>4, <2>5, OlderFacts
    <2> QED  BY <2>2, <2>3, <2>4, <2>6
  <1> QED  BY <1>3 DEF HeartbeatHonest, AlwaysState

LEMMA NextHonest ==
  ASSUME Cadence["prime"] <= Cadence["base"]
  PROVE  IInv /\ HeartbeatHonest /\ [Next]_vars => HeartbeatHonest'
  <1> SUFFICES ASSUME IInv, HeartbeatHonest, [Next]_vars PROVE HeartbeatHonest'
    OBVIOUS
  <1>1. CASE UNCHANGED <<age, silence>>
    BY <1>1 DEF HeartbeatHonest, AlwaysState
  <1>2. ASSUME NEW t \in Tier, NEW y \in ReadYields(t), LastBatch(t, y) PROVE HeartbeatHonest'
    BY <1>2, LastBatchHonest
  <1>3. CASE Tick  BY <1>3, TickHonest
  <1> QED
    BY <1>1, <1>2, <1>3
    DEF Next, Read, StartPoll, ReadBatch, ApplyRegmap, Watchdog, Settle, vars

\* For any maps and cadences with the prime tier no slower than the base tier
\* (1.5 s and 15 s by default), the heartbeat vouches only for engine-state
\* registers that are present and were decoded no earlier than it says.
THEOREM HeartbeatIsHonest ==
  ASSUME Cadence["prime"] <= Cadence["base"] PROVE Spec => []HeartbeatHonest
  <1>1. Init => HeartbeatHonest
    BY StaleFacts DEF Init, HeartbeatHonest, Absent
  <1>2. IInv /\ HeartbeatHonest /\ [Next]_vars => HeartbeatHonest'
    BY NextHonest
  <1> QED  BY <1>1, <1>2, Inductive, PTL DEF Spec
=============================================================================
