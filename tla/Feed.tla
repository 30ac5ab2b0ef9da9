-------------------------------- MODULE Feed --------------------------------
(***************************************************************************)
(* The live feed: the poll callback (main.py on_poll) publishes snapshots   *)
(* and alarm events on the event bus (services/state.py EventBus), one      *)
(* WebSocket handler per browser (api/ws.py) forwards its bounded queue,    *)
(* and the page (frontend/src/hooks/useLiveData.ts) keeps its alarm list    *)
(* and its freshness clock from a REST seed and the pushes.                 *)
(*                                                                          *)
(* A prime poll derives and publishes without suspending.  A base poll      *)
(* suspends for the telemetry write in between, so that what it derived is  *)
(* published after the events of the prime polls that ran meanwhile.        *)
(* One alarm stands for all: events of different codes do not interact.     *)
(* Publications are numbered modulo Numbers, which is more than a queue and *)
(* the message in hand can hold.                                            *)
(***************************************************************************)
EXTENDS Integers, Sequences

CONSTANTS
  Browser,     \* browser tabs
  Cap,         \* maxsize of a subscriber's queue
  StaleAfter,  \* age of the last push at which the page shows STALE DATA
  Revalidate   \* REVALIDATE_EVERY_S

ASSUME FeedAssumption ==
  Cap \in Nat \ {0} /\ StaleAfter \in Nat \ {0} /\ Revalidate \in Nat \ {0}

Numbers == Cap + 3

VARIABLES
  active,  \* the alarm is active: its row in alarms_active
  base,    \* the base poll's callback: what it has yet to publish, or NoPoll
  num,     \* number of the last publication
  subs,    \* EventBus._subs, by the browser they belong to
  queue,   \* the subscriber queues
  ws,      \* the WebSocket handlers that run their message loop
  valid,   \* sessions whose token still decodes
  check,   \* time since last_revalidated of each handler
  page,    \* how far each page is: "blank", "seeding", "seeded"
  alarm,   \* the alarm is in the page's activeAlarms (or in the seed on its way)
  age,     \* time since lastPushAt
  got      \* history: number of the last message each socket delivered

feedVars == <<active, base, num, subs, queue, ws, valid, check, page, alarm, age, got>>
bus == <<num, subs, queue>>
socket == <<ws, valid, check>>
view == <<page, alarm, age>>

NoPoll == <<"idle">>

Message == [n : 0..(Numbers - 1), kind : {"snapshot", "raised", "cleared", "other"}]

FeedTypeOK ==
  /\ active \in BOOLEAN /\ base \in {NoPoll, <<>>, <<"raised">>, <<"cleared">>}
  /\ num \in 0..(Numbers - 1) /\ queue \in [Browser -> Seq(Message)]
  /\ subs \subseteq Browser /\ ws \subseteq Browser /\ valid \subseteq Browser
  /\ check \in [Browser -> 0..Revalidate] /\ age \in [Browser -> 0..(StaleAfter + 1)]
  /\ page \in [Browser -> {"blank", "seeding", "seeded"}]
  /\ alarm \in [Browser -> BOOLEAN] /\ got \in [Browser -> 0..(Numbers - 1)]

-----------------------------------------------------------------------------
(* The poll callbacks and the bus.                                          *)

\* The event an update emits when it moves the alarm to `a`.
Change(a) ==
  IF a = active THEN <<>> ELSE IF a THEN <<"raised">> ELSE <<"cleared">>

\* What a subscriber's queue has room for of a list of messages.
Room(b) == Cap - Len(queue[b])
Taken(b, msgs) == IF Len(msgs) <= Room(b) THEN Len(msgs) ELSE Room(b)

\* Mutant: a full queue loses the message and keeps the subscriber.
PublishLossy(msgs) ==
  /\ queue' = [b \in Browser |->
       IF b \in subs
       THEN queue[b] \o [i \in 1..Taken(b, msgs) |->
              [n |-> (num + i) % Numbers, kind |-> msgs[i]]]
       ELSE queue[b]]
  /\ num' = (num + Len(msgs)) % Numbers /\ UNCHANGED subs

\* EventBus.publish of one message after the other: a queue takes what it has
\* room for; the first message that does not fit drops the subscriber.
Publish(msgs) ==
  /\ queue' = [b \in Browser |->
       IF b \in subs
       THEN queue[b] \o [i \in 1..Taken(b, msgs) |->
              [n |-> (num + i) % Numbers, kind |-> msgs[i]]]
       ELSE queue[b]]
  /\ subs' = {b \in subs : Len(msgs) <= Room(b)}
  /\ num' = (num + Len(msgs)) % Numbers

\* on_poll of the prime tier: update, a snapshot unless throttled, the events.
OnPollPrime(a, push) ==
  /\ active' = a
  /\ Publish((IF push THEN <<"snapshot">> ELSE <<>>) \o Change(a))
  /\ UNCHANGED <<base, socket, view, got>>

\* on_poll of the base tier: update, then the telemetry write in a thread.
OnPollBase(a) ==
  /\ base = NoPoll /\ active' = a /\ base' = Change(a)
  /\ UNCHANGED <<bus, socket, view, got>>

\* The write is done or failed; the events that were derived before it go out.
PublishBase ==
  /\ base # NoPoll /\ Publish(base) /\ base' = NoPoll
  /\ UNCHANGED <<active, socket, view, got>>

\* The ATS-Pi's callback publishes on the same bus.
OnPollAts ==
  /\ Publish(<<"other">>)
  /\ UNCHANGED <<active, base, socket, view, got>>

-----------------------------------------------------------------------------
(* The page and its WebSocket.                                              *)

\* GET /api/status is answered with the alarms of this moment.
SeedRead(b) ==
  /\ page[b] = "blank" /\ b \in valid
  /\ page' = [page EXCEPT ![b] = "seeding"] /\ alarm' = [alarm EXCEPT ![b] = active]
  /\ UNCHANGED <<active, base, bus, socket, age, got>>

SeedArrives(b) ==
  /\ page[b] = "seeding"
  /\ page' = [page EXCEPT ![b] = "seeded"] /\ age' = [age EXCEPT ![b] = 0]
  /\ UNCHANGED <<active, base, bus, socket, alarm, got>>

\* openWs after the seed, and again after every close: the handler checks the
\* token, accepts, subscribes and says hello, which the page ignores.
Connect(b) ==
  /\ page[b] = "seeded" /\ b \notin ws /\ b \in valid
  /\ ws' = ws \cup {b} /\ subs' = subs \cup {b}
  /\ queue' = [queue EXCEPT ![b] = <<>>] /\ got' = [got EXCEPT ![b] = num]
  /\ check' = [check EXCEPT ![b] = 0]
  /\ UNCHANGED <<active, base, num, valid, view>>

\* The handler returns: bus.unsubscribe, and onclose in the page.
Closed(b) == ws' = ws \ {b} /\ subs' = subs \ {b}

\* Mutant: the re-validation restarts its timer and does nothing else.
RevalidatedNever(b) ==
  /\ check' = [check EXCEPT ![b] = IF @ < Revalidate THEN @ ELSE 0]
  /\ UNCHANGED <<ws, subs>>

\* The periodic re-validation at the end of each turn of the message loop.
Revalidated(b) ==
  IF check[b] < Revalidate
  THEN UNCHANGED <<ws, subs, check>>
  ELSE IF b \in valid
       THEN check' = [check EXCEPT ![b] = 0] /\ UNCHANGED <<ws, subs>>
       ELSE Closed(b) /\ UNCHANGED check

\* Mutant: any message, a keep-alive too, counts as a push.
ApplyAny(b, kind) ==
  /\ alarm' = [alarm EXCEPT ![b] =
       CASE kind = "raised" -> TRUE [] kind = "cleared" -> FALSE [] OTHER -> @]
  /\ age' = [age EXCEPT ![b] = 0]

\* applyMessage: the alarm list follows the events, and only a snapshot (or a
\* transition) moves the freshness clock.
Apply(b, kind) ==
  /\ alarm' = [alarm EXCEPT ![b] =
       CASE kind = "raised" -> TRUE [] kind = "cleared" -> FALSE [] OTHER -> @]
  /\ age' = [age EXCEPT ![b] = IF kind = "snapshot" THEN 0 ELSE @]

WsSend(b) ==
  /\ b \in ws /\ queue[b] # <<>>
  /\ Apply(b, Head(queue[b]).kind)
  /\ queue' = [queue EXCEPT ![b] = Tail(@)]
  /\ got' = [got EXCEPT ![b] = Head(queue[b]).n]
  /\ Revalidated(b)
  /\ UNCHANGED <<active, base, num, valid, page>>

\* q.get() timed out: a keep-alive.
WsPing(b) ==
  /\ b \in ws /\ queue[b] = <<>>
  /\ Apply(b, "ping") /\ Revalidated(b)
  /\ UNCHANGED <<active, base, num, queue, valid, page, got>>

\* The connection breaks and both ends notice.
Disconnect(b) ==
  /\ b \in ws /\ Closed(b)
  /\ UNCHANGED <<active, base, num, queue, valid, check, view, got>>

\* The token expires or its secret is rotated.
Expire(b) ==
  /\ b \in valid /\ valid' = valid \ {b}
  /\ UNCHANGED <<active, base, bus, ws, check, view, got>>

Tick ==
  /\ age' = [b \in Browser |-> IF age[b] <= StaleAfter THEN age[b] + 1 ELSE age[b]]
  /\ check' = [b \in Browser |-> IF check[b] < Revalidate THEN check[b] + 1 ELSE check[b]]
  /\ UNCHANGED <<active, base, bus, ws, valid, page, alarm, got>>

-----------------------------------------------------------------------------
FeedInit ==
  /\ active \in BOOLEAN /\ base = NoPoll /\ num = 0
  /\ subs = {} /\ queue = [b \in Browser |-> <<>>]
  /\ ws = {} /\ valid = Browser /\ check = [b \in Browser |-> 0]
  /\ page = [b \in Browser |-> "blank"] /\ alarm = [b \in Browser |-> FALSE]
  /\ age = [b \in Browser |-> StaleAfter + 1] /\ got = [b \in Browser |-> 0]

WsTurn(b) == WsSend(b) \/ WsPing(b)

FeedNext ==
  \/ \E a, push \in BOOLEAN : OnPollPrime(a, push)
  \/ \E a \in BOOLEAN : OnPollBase(a)
  \/ PublishBase \/ OnPollAts \/ Tick
  \/ \E b \in Browser :
       SeedRead(b) \/ SeedArrives(b) \/ Connect(b) \/ WsTurn(b) \/ Disconnect(b) \/ Expire(b)

FeedSpec == FeedInit /\ [][FeedNext]_feedVars

\* The event loop runs every handler, whose wait is bounded by the keep-alive
\* timeout; time passes.  Polls, reconnects and seeds are not forced.
FeedFairSpec == FeedSpec /\ WF_feedVars(Tick) /\ \A b \in Browser : WF_feedVars(WsTurn(b))

-----------------------------------------------------------------------------
(* Properties.                                                              *)

Stale(b) == b \notin ws \/ age[b] > StaleAfter

\* A socket delivers what the bus published since it connected, in that order
\* and without a gap: a subscriber whose queue is full is dropped and never
\* continues after a hole (state.py:797-806), whoever publishes meanwhile.
FeedContiguous ==
  \A b \in ws :
    /\ Len(queue[b]) <= Cap
    /\ \A i \in DOMAIN queue[b] : queue[b][i].n = (got[b] + i) % Numbers
    /\ b \in subs => (got[b] + Len(queue[b])) % Numbers = num

\* A subscriber that was dropped keeps its socket and is pinged for ever; its
\* page still ends up showing STALE DATA (README.md:740), since no keep-alive
\* moves the freshness clock, or it connects anew.
DroppedShowsStale == \A b \in Browser : (b \in ws \ subs) ~> (Stale(b) \/ b \in subs)

\* A session that expired or was rotated away loses its stream for good, even
\* if nothing is published any more (ws.py:13-17).
ExpiredSessionsEnd == \A b \in Browser : (b \notin valid) ~> [](b \notin ws)

\* "Single source of truth for the live state: GET /api/status on mount -> seed
\* everything, WebSocket -> push updates" (useLiveData.ts:1-3): a page that is
\* connected and has received all there is shows the alarm that is active.
ListTrue ==
  \A b \in ws \cap subs : queue[b] = <<>> /\ base = NoPoll => alarm[b] = active
=============================================================================
