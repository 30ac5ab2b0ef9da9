--------------------------- MODULE SlackNotifier ---------------------------
(***************************************************************************)
(* The Slack notifier (services/slack.py): the alerts the service forwards, *)
(* the dedupe window, the bounded queue, the worker that posts one message  *)
(* at a time from a thread, its retries, and the configuration an operator  *)
(* may replace at any moment.                                               *)
(*                                                                          *)
(* A message is a number, in the order in which the queue accepted them,    *)
(* with its failed attempts and its age.  Elapsed times are counters that   *)
(* stop at the largest value the code tells apart.                          *)
(***************************************************************************)
EXTENDS Integers, Sequences

CONSTANTS
  Code, Warning,   \* alarm codes, and those of severity "warn"
  Configs,         \* the settings an operator may put in force
  MaxQueue,        \* MAX_QUEUE
  MaxAttempts,     \* MAX_ATTEMPTS
  Backoff,         \* BACKOFF_S
  MaxAge,          \* MAX_AGE_S
  Window,          \* DEDUPE_WINDOW_S
  MaxMsg           \* bound: messages the queue accepts

Flag == {"alarm", "warn", "cleared", "other"}
Kind == {"raised", "cleared"}
Config == [enabled : BOOLEAN, wired : BOOLEAN, flags : SUBSET Flag]

ASSUME SlackAssumption ==
  /\ Warning \subseteq Code /\ Configs \subseteq Config /\ Configs # {}
  /\ MaxQueue \in Nat \ {0} /\ MaxAttempts \in Nat \ {0}
  /\ MaxAge \in Nat /\ Window \in Nat \ {0} /\ MaxMsg \in Nat
  /\ Backoff \in Seq(Nat) /\ Len(Backoff) > 0

VARIABLES
  cfg,      \* SlackNotifier.cfg; wired: it has a bot token and a channel
  running,  \* _running
  active,   \* the codes that are raised, as the alarm pipelines report them
  queue,    \* _queue
  worker,   \* the messages whose POST is under way: none or one
  retries,  \* _retry_tasks: the message and what is left of its delay
  recent,   \* _recent_sends: age of the entry; Window stands for none or too old
  count,    \* how many messages the queue accepted so far
  told      \* history: age of the last accepted message about a code and kind

vars == <<cfg, running, active, queue, worker, retries, recent, count, told>>
outbox == <<queue, worker, retries, count>>

Message == [id : 1..MaxMsg, attempt : 0..MaxAttempts, age : 0..(MaxAge + 1)]

TypeOK ==
  /\ cfg \in Configs /\ running \in BOOLEAN /\ active \subseteq Code
  /\ queue \in Seq(Message) /\ Len(queue) <= MaxQueue
  /\ worker \subseteq Message
  /\ retries \subseteq [msg : Message, left : Nat]
  /\ recent \in [Code \X Kind -> 0..Window] /\ told \in [Code \X Kind -> 0..Window]
  /\ count \in 0..MaxMsg

IsEnabled == cfg.enabled /\ cfg.wired
FlagFor(c, kind) ==
  IF kind = "cleared" THEN "cleared" ELSE IF c \in Warning THEN "warn" ELSE "alarm"

-----------------------------------------------------------------------------
(* Alerts.                                                                  *)

\* Mutant: a full queue loses its newest message.
EnqueueOverLast ==
  /\ queue' = Append(IF Len(queue) < MaxQueue THEN queue ELSE SubSeq(queue, 1, Len(queue) - 1),
                     [id |-> count + 1, attempt |-> 0, age |-> 0])
  /\ count' = count + 1
  /\ UNCHANGED <<worker, retries>>

\* put_nowait, and if the queue is full get_nowait first: the head goes.
Enqueue ==
  LET m == [id |-> count + 1, attempt |-> 0, age |-> 0]
  IN  /\ queue' = Append(IF Len(queue) < MaxQueue THEN queue ELSE Tail(queue), m)
      /\ count' = count + 1
      /\ UNCHANGED <<worker, retries>>

\* Mutant: the callers do not ask is_enabled.
ForwardedUnasked(c, kind) == FlagFor(c, kind) \in cfg.flags

\* The callers ask is_enabled before they call; alert_* looks at its own flag.
Forwarded(c, kind) == IsEnabled /\ FlagFor(c, kind) \in cfg.flags

\* An alarm is raised or cleared: the dedupe entry is made, then the message is
\* queued, if the notifier is enabled.
AlertAlarm(c, kind) ==
  /\ running /\ count < MaxMsg
  /\ IF kind = "raised" THEN c \notin active /\ active' = active \cup {c}
                        ELSE c \in active /\ active' = active \ {c}
  /\ IF Forwarded(c, kind) /\ recent[<<c, kind>>] >= Window
     THEN /\ recent' = [recent EXCEPT ![<<c, kind>>] = 0]
          /\ IF IsEnabled
             THEN Enqueue /\ told' = [told EXCEPT ![<<c, kind>>] = 0]
             ELSE UNCHANGED <<outbox, told>>
     ELSE UNCHANGED <<recent, told, outbox>>
  /\ UNCHANGED <<cfg, running>>

\* A transition, a command, a load source or a comms change: no dedupe.
AlertOther ==
  /\ running /\ count < MaxMsg /\ IsEnabled /\ "other" \in cfg.flags
  /\ Enqueue /\ UNCHANGED <<cfg, running, active, recent, told>>

-----------------------------------------------------------------------------
(* The worker.                                                              *)

Lowest(a, b) == IF a <= b THEN a ELSE b

\* A failed send: the message is given up after MAX_ATTEMPTS or past MAX_AGE_S,
\* or a task will put it back after a delay.
AfterFailure(m) ==
  IF m.attempt + 1 >= MaxAttempts \/ m.age > MaxAge THEN {}
  ELSE {[msg |-> [m EXCEPT !.attempt = @ + 1],
         left |-> Backoff[Lowest(m.attempt + 1, Len(Backoff))]]}

\* Mutant: the worker waits until there is a token and a channel.
TakeConfigured ==
  /\ running /\ worker = {} /\ queue # <<>> /\ cfg.wired
  /\ queue' = Tail(queue) /\ worker' = {Head(queue)}
  /\ UNCHANGED <<cfg, running, active, retries, recent, count, told>>

\* The worker takes the head.  Without token or channel the send fails at once.
Take ==
  /\ running /\ worker = {} /\ queue # <<>>
  /\ queue' = Tail(queue)
  /\ IF cfg.wired
     THEN worker' = {Head(queue)} /\ UNCHANGED retries
     ELSE retries' = retries \cup AfterFailure(Head(queue)) /\ UNCHANGED worker
  /\ UNCHANGED <<cfg, running, active, recent, count, told>>

\* Slack answers ok, or refuses the message for good: in both cases it is gone.
Answered ==
  /\ running /\ worker # {} /\ worker' = {}
  /\ UNCHANGED <<cfg, running, active, queue, retries, recent, count, told>>

\* Timeout, HTTP error, invalid answer: the message may have been posted or not.
SendFails ==
  /\ running /\ worker # {} /\ worker' = {}
  /\ retries' = retries \cup UNION {AfterFailure(m) : m \in worker}
  /\ UNCHANGED <<cfg, running, active, queue, recent, count, told>>

\* The retry joins the queue at its end, unless the queue is full.
Requeue(r) ==
  /\ running /\ r.left = 0 /\ retries' = retries \ {r}
  /\ queue' = IF Len(queue) < MaxQueue THEN Append(queue, r.msg) ELSE queue
  /\ UNCHANGED <<cfg, running, active, worker, recent, count, told>>

-----------------------------------------------------------------------------
UpdateConfig(c) ==
  /\ running /\ c # cfg /\ cfg' = c
  /\ UNCHANGED <<running, active, outbox, recent, told>>

\* The worker and every retry task are cancelled; what is queued stays unsent.
Stop ==
  /\ running /\ running' = FALSE /\ worker' = {} /\ retries' = {}
  /\ UNCHANGED <<cfg, active, queue, recent, count, told>>

Aged(m) == [m EXCEPT !.age = Lowest(@ + 1, MaxAge + 1)]
Later(f) == [k \in DOMAIN f |-> Lowest(f[k] + 1, Window)]

Tick ==
  /\ queue' = [i \in DOMAIN queue |-> Aged(queue[i])]
  /\ worker' = {Aged(m) : m \in worker}
  /\ retries' = {[msg |-> Aged(r.msg), left |-> IF r.left = 0 THEN 0 ELSE r.left - 1]
                   : r \in retries}
  /\ recent' = Later(recent) /\ told' = Later(told)
  /\ UNCHANGED <<cfg, running, active, count>>

-----------------------------------------------------------------------------
Init ==
  /\ cfg \in Configs /\ running = TRUE /\ active = {}
  /\ queue = <<>> /\ worker = {} /\ retries = {} /\ count = 0
  /\ recent = [k \in Code \X Kind |-> Window] /\ told = [k \in Code \X Kind |-> Window]

Next ==
  \/ \E c \in Code, kind \in Kind : AlertAlarm(c, kind)
  \/ AlertOther
  \/ Take \/ Answered \/ SendFails \/ \E r \in retries : Requeue(r)
  \/ \E c \in Configs : UpdateConfig(c)
  \/ Stop \/ Tick

Spec == Init /\ [][Next]_vars

\* The event loop runs the worker and the retry tasks, a send ends within its
\* timeout, and time passes.
FairSpec ==
  /\ Spec /\ WF_vars(Take) /\ WF_vars(Answered \/ SendFails)
  /\ WF_vars(\E r \in retries : Requeue(r)) /\ WF_vars(Tick)

-----------------------------------------------------------------------------
(* Properties.                                                              *)

\* An alert that nobody has tried to send yet is overtaken by none that came
\* after it: a full queue pushes out what is older, never what is fresher
\* (slack.py:301-307), and retries join behind.
FreshInOrder ==
  \A i \in DOMAIN queue : queue[i].attempt = 0 =>
    \A id \in queue[i].id + 1..count :
      \E j \in DOMAIN queue : j > i /\ queue[j].id = id

\* The dedupe window only ever suppresses an alert when one about the same code
\* and in the same direction was queued less than a window ago: no order of
\* disabling, enabling and raising makes the notifier swallow a first alert
\* (slack.py:130-152 records the time before _enqueue decides).
DedupeHonest ==
  \A k \in DOMAIN recent : recent[k] < Window => told[k] <= recent[k]

\* Whatever Slack does - answer, refuse, time out for ever - and whatever the
\* operator configures, the backlog empties: no message is retried for ever, no
\* retry is forgotten, and the worker never stops taking (slack.py:319-375).
Drained == queue = <<>> /\ worker = {} /\ retries = {}
Drains == <>[](running => Drained)
=============================================================================
