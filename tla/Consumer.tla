------------------------------- MODULE Consumer -------------------------------
(***************************************************************************)
(* Consumer of pkg/xmq/rabbitmq/consumer.go after a successful NewConsumer *)
(* and Register, with the consumerConnManager of conn_manager.go below it: *)
(* Start and the workers of one queue, the reconnectWatcher, the           *)
(* cancellation of the context given to Start, and one call of Stop, which *)
(* may overtake Start.                                                     *)
(*                                                                         *)
(* The broker is external.  A message that is unacknowledged on a channel  *)
(* goes back to the queue when the channel closes, for whatever reason.    *)
(* The order of deliveries is left out: nothing in the code relies on it.  *)
(***************************************************************************)
EXTENDS Integers, FiniteSets

CONSTANTS
  Workers,              \* the goroutines of the queue (WorkerNum)
  Messages,             \* what is in the queue
  Conns, FirstConn,     \* the AMQP connections dialled in a run, the one Start dialled
  Prefetch,             \* Qos of a channel
  RetryLimit,           \* handler attempts per delivery
  NotFoundLimit,        \* defaultMaxNotFound
  None                  \* no connection, no channel, no message

ASSUME LimitsAssumption  == {Prefetch, RetryLimit, NotFoundLimit} \subseteq Nat \ {0}
ASSUME ConnsAssumption   == FirstConn \in Conns /\ None \notin Conns
ASSUME WorkersAssumption == IsFiniteSet(Workers) /\ Workers # {}
ASSUME NamesAssumption   ==
  /\ None \notin Messages
  /\ Workers \cap {"queue", "acked", "rejected"} = {}

VARIABLES
  conn,                 \* m.conn
  connState,            \* external: new (not dialled), open or closed
  mClosed,              \* m.closed, and the watcher's stopCtx cancelled with it
  place,                \* external: queue, acked, rejected, or the worker it is unacked at
  chan,                 \* connection of the worker's channel while that is open
  buf,                  \* deliveries in the worker's Go channel
  job,                  \* the delivery in hand
  attempt,              \* its failed handler calls
  loop,                 \* each worker's place
  notFound,             \* unit.notFoundCount
  ctxDone,              \* c.stopCtx is cancelled
  wpc, wconn,           \* the watcher: place, connection at hand
  spc,                  \* Stop: its place
  handled,              \* history: messages some handler call returned nil for
  streak,               \* history: 404 answers since Consume last succeeded, up to the limit
  cut                   \* history: an attempt failed with its context already cancelled

connVars     == <<conn, connState, mClosed>>
workVars     == <<chan, buf, job, attempt, cut>>
wVars        == <<wpc, wconn>>
seenVars     == <<notFound, streak, handled>>
consumerVars == <<connVars, place, workVars, loop, seenVars, ctxDone, wVars, spc>>

Open(k)    == k # None /\ connState[k] = "open"
Unacked(w) == {m \in Messages : place[m] = w}

(* External: the channels of the workers ws close, by either side. *)
CloseChans(ws) ==
  /\ chan'  = [w \in Workers  |-> IF w \in ws THEN None ELSE chan[w]]
  /\ place' = [m \in Messages |-> IF place[m] \in ws THEN "queue" ELSE place[m]]

ConsumerInit ==
  /\ conn = FirstConn /\ mClosed = FALSE
  /\ connState = [k \in Conns |-> IF k = FirstConn THEN "open" ELSE "new"]
  /\ place = [m \in Messages |-> "queue"]
  /\ chan    = [w \in Workers |-> None]
  /\ buf     = [w \in Workers |-> {}]
  /\ job     = [w \in Workers |-> None]
  /\ attempt = [w \in Workers |-> 0]
  /\ cut     = [w \in Workers |-> FALSE]
  /\ loop    = [w \in Workers |-> "new"]
  /\ notFound = 0 /\ streak = 0 /\ handled = {}
  /\ ctxDone = FALSE
  /\ wpc = "top" /\ wconn = None
  /\ spc = "idle"

-----------------------------------------------------------------------------
(* workerLoop: getting to the consume loop. *)

Goes(w, from, to) ==
  /\ loop[w] = from
  /\ loop' = [loop EXCEPT ![w] = to]

(* Start: the goroutine is counted by wg and launched. *)
StartWorker(w) ==
  /\ Goes(w, "new", "top")
  /\ UNCHANGED <<connVars, place, workVars, seenVars, ctxDone, wVars, spc>>

TopStops(w) ==
  /\ Goes(w, "top", "exit")
  /\ ctxDone
  /\ UNCHANGED <<connVars, place, workVars, seenVars, ctxDone, wVars, spc>>

TopGoesOnBlind(w) ==                               \* faulty variant: context not asked
  /\ Goes(w, "top", "asking")
  /\ UNCHANGED <<connVars, place, workVars, seenVars, ctxDone, wVars, spc>>
TopGoesOn(w) ==
  /\ Goes(w, "top", "asking")
  /\ ~ctxDone
  /\ UNCHANGED <<connVars, place, workVars, seenVars, ctxDone, wVars, spc>>

(* GetConsumerChannel: no usable connection, or it opens no channel. *)
GetFails(w) ==
  /\ Goes(w, "asking", "top")
  /\ UNCHANGED <<connVars, place, workVars, seenVars, ctxDone, wVars, spc>>

GetChannel(w) ==
  /\ Goes(w, "asking", "opened")
  /\ Open(conn)
  /\ chan' = [chan EXCEPT ![w] = conn]
  /\ UNCHANGED <<connVars, place, buf, job, attempt, cut, seenVars, ctxDone, wVars, spc>>

(* The worker closes its channel and goes on elsewhere. *)
Leaves(w, from, to) ==
  /\ Goes(w, from, to)
  /\ CloseChans({w})
  /\ buf' = [buf EXCEPT ![w] = {}]

(* Qos or Consume fails with anything but 404, a dead channel included. *)
SubscribeFails(w) ==
  /\ Leaves(w, "opened", "top")
  /\ UNCHANGED <<connVars, job, attempt, cut, seenVars, ctxDone, wVars, spc>>

SubscribeFinds(w) ==
  /\ Goes(w, "opened", "subscribed")
  /\ chan[w] # None
  /\ streak' = 0
  /\ UNCHANGED <<connVars, place, workVars, notFound, handled, ctxDone, wVars, spc>>

(* The count is zeroed after the answer, while others may be adding to it. *)
SubscribedUncleared(w) ==                          \* faulty variant: never zeroed
  /\ Goes(w, "subscribed", "consuming")
  /\ UNCHANGED <<connVars, place, workVars, seenVars, ctxDone, wVars, spc>>
Subscribed(w) ==
  /\ Goes(w, "subscribed", "consuming")
  /\ notFound' = 0
  /\ UNCHANGED <<connVars, place, workVars, streak, handled, ctxDone, wVars, spc>>

(* 404: the broker closes the channel ... *)
SubscribeMisses(w) ==
  /\ chan[w] # None
  /\ Leaves(w, "opened", "missed")
  /\ streak' = IF streak < NotFoundLimit THEN streak + 1 ELSE streak
  /\ UNCHANGED <<connVars, job, attempt, cut, notFound, handled, ctxDone, wVars, spc>>

(* ... and the worker counts it, and leaves for good at the limit. *)
CountMiss(w) ==
  /\ notFound' = notFound + 1
  /\ IF notFound' >= NotFoundLimit THEN Goes(w, "missed", "left") ELSE Goes(w, "missed", "top")
  /\ UNCHANGED <<connVars, place, workVars, streak, handled, ctxDone, wVars, spc>>

-----------------------------------------------------------------------------
(* The consume loop and handleDeliveryInProcess. *)

LoopStops(w) ==
  /\ ctxDone
  /\ Leaves(w, "consuming", "exit")
  /\ UNCHANGED <<connVars, job, attempt, cut, seenVars, ctxDone, wVars, spc>>

(* The Go channel is closed; deliveries still in it may be dropped. *)
LoopSeesClosed(w) ==
  /\ chan[w] = None
  /\ Leaves(w, "consuming", "top")
  /\ UNCHANGED <<connVars, job, attempt, cut, seenVars, ctxDone, wVars, spc>>

Take(w, m) ==
  /\ Goes(w, "consuming", "handling")
  /\ m \in buf[w]
  /\ buf' = [buf EXCEPT ![w] = @ \ {m}]
  /\ job' = [job EXCEPT ![w] = m]
  /\ UNCHANGED <<connVars, place, chan, attempt, cut, seenVars, ctxDone, wVars, spc>>

HandlerSucceeds(w) ==
  /\ Goes(w, "handling", "acking")
  /\ handled' = handled \cup {job[w]}
  /\ UNCHANGED <<connVars, place, workVars, notFound, streak, ctxDone, wVars, spc>>

(* The handler returns an error, of its own or of its context. *)
HandlerFailsOnce(w) ==                             \* faulty variant: one attempt short
  /\ attempt' = [attempt EXCEPT ![w] = @ + 1]
  /\ cut' = [cut EXCEPT ![w] = @ \/ ctxDone]
  /\ IF attempt'[w] + 1 >= RetryLimit
       THEN Goes(w, "handling", "nacking")
       ELSE Goes(w, "handling", "handling")
  /\ UNCHANGED <<connVars, place, chan, buf, job, seenVars, ctxDone, wVars, spc>>
HandlerFails(w) ==
  /\ attempt' = [attempt EXCEPT ![w] = @ + 1]
  /\ cut' = [cut EXCEPT ![w] = @ \/ ctxDone]
  /\ IF attempt'[w] = RetryLimit
       THEN Goes(w, "handling", "nacking")
       ELSE Goes(w, "handling", "handling")
  /\ UNCHANGED <<connVars, place, chan, buf, job, seenVars, ctxDone, wVars, spc>>

HandlerPanics(w) ==
  /\ Goes(w, "handling", "panicked")
  /\ UNCHANGED <<connVars, place, workVars, seenVars, ctxDone, wVars, spc>>

(* Ack or Nack; it changes nothing when the channel is gone (the error is  *)
(* logged).  The function returns: its count of attempts is gone.          *)
Returns(w, from) ==
  /\ Goes(w, from, "consuming")
  /\ job'     = [job EXCEPT ![w] = None]
  /\ attempt' = [attempt EXCEPT ![w] = 0]
  /\ cut'     = [cut EXCEPT ![w] = FALSE]
  /\ UNCHANGED <<connVars, chan, buf, seenVars, ctxDone, wVars, spc>>

SettleAs(w, from, verdict) ==
  /\ Returns(w, from)
  /\ place' = IF place[job[w]] = w THEN [place EXCEPT ![job[w]] = verdict] ELSE place

Ack(w)  == SettleAs(w, "acking", "acked")
NackSkipsPanic(w) ==                               \* faulty variant: recover() without Nack
  \/ SettleAs(w, "nacking", "rejected")
  \/ Returns(w, "panicked") /\ UNCHANGED place
Nack(w) == \E from \in {"nacking", "panicked"} : SettleAs(w, from, "rejected")

-----------------------------------------------------------------------------
(* reconnectWatcher. *)

WCheckBlind ==                                     \* faulty variant: closed not asked
  /\ wpc = "top"
  /\ wpc' = IF Open(conn) THEN "watching" ELSE "dialing"
  /\ wconn' = IF Open(conn) THEN conn ELSE None
  /\ UNCHANGED <<connVars, place, workVars, loop, seenVars, ctxDone, spc>>
WCheck ==
  /\ wpc = "top"
  /\ wpc' = IF mClosed THEN "exit" ELSE IF Open(conn) THEN "watching" ELSE "dialing"
  /\ wconn' = IF ~mClosed /\ Open(conn) THEN conn ELSE None
  /\ UNCHANGED <<connVars, place, workVars, loop, seenVars, ctxDone, spc>>

WDial ==
  /\ wpc = "dialing"
  /\ \E k \in Conns :
       /\ connState[k] = "new"
       /\ connState' = [connState EXCEPT ![k] = "open"]
       /\ wconn' = k
  /\ wpc' = "storing"
  /\ UNCHANGED <<conn, mClosed, place, workVars, loop, seenVars, ctxDone, spc>>

WDialFails ==
  /\ wpc = "dialing"
  /\ wpc' = "top"
  /\ UNCHANGED <<connVars, place, workVars, loop, seenVars, ctxDone, wconn, spc>>

(* storeConn, whatever Close has done since the check at the top. *)
WStore ==
  /\ wpc = "storing"
  /\ conn' = wconn
  /\ wconn' = None
  /\ wpc' = "top"
  /\ UNCHANGED <<connState, mClosed, place, workVars, loop, seenVars, ctxDone, spc>>

WSeesCloseReturns ==                               \* faulty variant: no loop
  /\ wpc = "watching" /\ ~Open(wconn)
  /\ conn' = None
  /\ wconn' = None
  /\ wpc' = "exit"
  /\ UNCHANGED <<connState, mClosed, place, workVars, loop, seenVars, ctxDone, spc>>
WSeesClose ==
  /\ wpc = "watching" /\ ~Open(wconn)
  /\ conn' = None
  /\ wconn' = None
  /\ wpc' = "top"
  /\ UNCHANGED <<connState, mClosed, place, workVars, loop, seenVars, ctxDone, spc>>

WStops ==
  /\ wpc = "watching" /\ mClosed
  /\ wpc' = "exit"
  /\ wconn' = None
  /\ UNCHANGED <<connVars, place, workVars, loop, seenVars, ctxDone, spc>>

-----------------------------------------------------------------------------
(* Stop, and the end of the context given to Start. *)

CtxEnds ==
  /\ ~ctxDone
  /\ ctxDone' = TRUE
  /\ UNCHANGED <<connVars, place, workVars, loop, seenVars, wVars, spc>>

StopGoes(from, to) == spc = from /\ spc' = to

(* main calls Stop once the context is over, whether or not the goroutine  *)
(* that runs Start has come to its workers; others call it after Start.    *)
StopBegin ==
  /\ StopGoes("idle", "closing")
  /\ ctxDone \/ \A w \in Workers : loop[w] # "new"
  /\ ctxDone' = TRUE
  /\ UNCHANGED <<connVars, place, workVars, loop, seenVars, wVars>>

StopMarks ==
  /\ StopGoes("closing", "loading")
  /\ mClosed' = TRUE
  /\ UNCHANGED <<conn, connState, place, workVars, loop, seenVars, ctxDone, wVars>>

(* A closed connection takes its channels with it. *)
ConnGoes(k) ==
  /\ connState' = [connState EXCEPT ![k] = "closed"]
  /\ CloseChans({w \in Workers : chan[w] = k})

StopConn ==
  /\ spc = "loading" /\ conn # None
  /\ spc' = "storing"
  /\ ConnGoes(conn)
  /\ UNCHANGED <<conn, mClosed, buf, job, attempt, cut, loop, seenVars, ctxDone, wVars>>

StopNoConn ==
  /\ StopGoes("loading", "waiting")
  /\ conn = None
  /\ UNCHANGED <<connVars, place, workVars, loop, seenVars, ctxDone, wVars>>

StopStore ==
  /\ StopGoes("storing", "waiting")
  /\ conn' = None
  /\ UNCHANGED <<connState, mClosed, place, workVars, loop, seenVars, ctxDone, wVars>>

Gone(w) == loop[w] \in {"exit", "left"}

(* wg.Wait: a worker that Start has yet to launch is not counted. *)
StopWaited ==
  /\ StopGoes("waiting", "done")
  /\ \A w \in Workers : Gone(w) \/ loop[w] = "new"
  /\ UNCHANGED <<connVars, place, workVars, loop, seenVars, ctxDone, wVars>>

(* The context given to Stop is over, and 3 s more. *)
StopForced ==
  /\ StopGoes("waiting", "forced")
  /\ \E w \in Workers : ~Gone(w) /\ loop[w] # "new"
  /\ UNCHANGED <<connVars, place, workVars, loop, seenVars, ctxDone, wVars>>

-----------------------------------------------------------------------------
(* External: the broker delivers, and closes channels and connections. *)

Deliver(m) ==
  /\ place[m] = "queue"
  /\ \E w \in Workers :
       /\ chan[w] # None
       /\ loop[w] \in {"subscribed", "consuming", "handling", "acking", "nacking", "panicked"}
       /\ Cardinality(Unacked(w)) < Prefetch
       /\ place' = [place EXCEPT ![m] = w]
       /\ buf' = [buf EXCEPT ![w] = @ \cup {m}]
  /\ UNCHANGED <<connVars, chan, job, attempt, cut, loop, seenVars, ctxDone, wVars, spc>>

ChanDies(w) ==
  /\ chan[w] # None
  /\ CloseChans({w})
  /\ UNCHANGED <<connVars, buf, job, attempt, cut, loop, seenVars, ctxDone, wVars, spc>>

ConnDrops ==
  /\ \E k \in Conns : connState[k] = "open" /\ ConnGoes(k)
  /\ UNCHANGED <<conn, mClosed, buf, job, attempt, cut, loop, seenVars, ctxDone, wVars, spc>>

-----------------------------------------------------------------------------
Handler(w) == HandlerSucceeds(w) \/ HandlerFails(w) \/ HandlerPanics(w)

WorkerStep(w) ==
  \/ StartWorker(w)
  \/ TopStops(w) \/ TopGoesOn(w) \/ GetFails(w) \/ GetChannel(w)
  \/ SubscribeFails(w) \/ SubscribeFinds(w) \/ Subscribed(w) \/ SubscribeMisses(w)
  \/ CountMiss(w)
  \/ LoopStops(w) \/ LoopSeesClosed(w) \/ \E m \in Messages : Take(w, m)
  \/ Handler(w) \/ Ack(w) \/ Nack(w)

WatcherStep == WCheck \/ WDial \/ WDialFails \/ WStore \/ WSeesClose \/ WStops

StopStep == StopMarks \/ StopConn \/ StopNoConn \/ StopStore \/ StopWaited \/ StopForced

BrokerStep ==
  (\E m \in Messages : Deliver(m)) \/ (\E w \in Workers : ChanDies(w)) \/ ConnDrops

ConsumerNext ==
  \/ \E w \in Workers : WorkerStep(w)
  \/ WatcherStep \/ CtxEnds \/ StopBegin \/ StopStep \/ BrokerStep

ConsumerSpec == ConsumerInit /\ [][ConsumerNext]_consumerVars

(* Goroutines run and handlers return.  What the code tries again for ever *)
(* works at last: opening a channel, subscribing, dialling (strong         *)
(* fairness).  A worker's select does not pass over cancellation for ever  *)
(* (Go chooses at random), and the broker delivers what it can, and stops  *)
(* closing channels whose connection lives.                                *)
ConsumerFairness ==
  /\ \A w \in Workers :
       /\ WF_consumerVars(WorkerStep(w))
       /\ SF_consumerVars(GetChannel(w)) /\ SF_consumerVars(SubscribeFinds(w))
       /\ SF_consumerVars(LoopStops(w))
  /\ \A m \in Messages : SF_consumerVars(Deliver(m))
  /\ WF_consumerVars(WatcherStep) /\ SF_consumerVars(WDial)
  /\ WF_consumerVars(StopStep)
  /\ <>[][\A w \in Workers : ~ChanDies(w)]_consumerVars

ConsumerFairSpec == ConsumerSpec /\ ConsumerFairness

-----------------------------------------------------------------------------
ConsumerTypeOK ==
  /\ conn \in Conns \cup {None} /\ connState \in [Conns -> {"new", "open", "closed"}]
  /\ mClosed \in BOOLEAN
  /\ place \in [Messages -> {"queue", "acked", "rejected"} \cup Workers]
  /\ chan \in [Workers -> Conns \cup {None}]
  /\ buf \in [Workers -> SUBSET Messages]
  /\ job \in [Workers -> Messages \cup {None}]
  /\ attempt \in [Workers -> 0..RetryLimit]
  /\ cut \in [Workers -> BOOLEAN]
  /\ loop \in [Workers -> {"new", "top", "asking", "opened", "subscribed", "missed", "consuming",
                         "handling", "acking", "nacking", "panicked", "exit", "left"}]
  /\ notFound \in Nat /\ streak \in 0..NotFoundLimit
  /\ handled \subseteq Messages
  /\ ctxDone \in BOOLEAN
  /\ wpc \in {"top", "dialing", "storing", "watching", "exit"}
  /\ wconn \in Conns \cup {None}
  /\ spc \in {"idle", "closing", "loading", "storing", "waiting", "done", "forced"}

(* What the broker holds back as unacknowledged at a worker is what that   *)
(* worker still has, in hand or in its Go channel, on the channel it has   *)
(* open.  So no delivery is stranded on a channel its worker has left, by  *)
(* any exit of workerLoop or after a panic, and no worker settles a        *)
(* delivery of a channel it lost by way of the next one.                   *)
DeliveriesMatch ==
  \A w \in Workers, m \in Messages :
    place[m] = w <=> chan[w] # None /\ (job[w] = m \/ m \in buf[w])

(* A message is acknowledged only if some call of the handler for it       *)
(* returned nil: nothing is acked unprocessed.                             *)
AckedWasHandled == \A m \in Messages : place[m] = "acked" => m \in handled

(* Workers that left because the queue is missing left rightly: when none  *)
(* is left, the broker's last NotFoundLimit answers were all 404, although *)
(* the shared count is raised and zeroed some time after the answers.      *)
UnitGoneMeansMissing == (\A w \in Workers : loop[w] = "left") => streak = NotFoundLimit

(* When Stop has returned nil, every message is settled or back in the     *)
(* queue and stays so: no worker is left that could still take one, not    *)
(* even one that Start launches after Stop has waited (consumer.go:381).   *)
StopGivesBack ==
  spc = "done" => \A m \in Messages : place[m] \notin Workers

(* Whatever is in the queue is settled, unless the consumer is told to     *)
(* stop, its workers have all left, or the run is out of connections.      *)
MessagesSettle ==
  \A m \in Messages :
    place[m] = "queue" ~>
      \/ place[m] \in {"acked", "rejected"}
      \/ ctxDone \/ \E w \in Workers : loop[w] = "left"
      \/ \A k \in Conns : connState[k] = "closed"

(* After Stop has begun the workers and the watcher end, and Stop returns: *)
(* the watcher does not take the closed connection for a lost one and      *)
(* reconnect for ever (comment of consumerConnManager.Close).              *)
StopEnds ==
  spc = "closing" ~>
    spc \in {"done", "forced"} /\ wpc = "exit" /\ \A w \in Workers : Gone(w)

(* "On retryable failures, reject/requeue according to queue policy; on    *)
(* poison messages, route to a dead-letter queue" (ARCHITECTURE.md), "Nack *)
(* instead of Ack, so that no message is dropped silently" (consumer.go):  *)
(* a message is rejected for its RetryLimit failures only if none of them  *)
(* is the cancelled context's.                                             *)
RejectsOnlyPoison ==
  [][\A w \in Workers, m \in Messages :
       place[m] = w /\ place'[m] = "rejected" => loop[w] = "panicked" \/ ~cut[w]]_consumerVars

(* The consumer keeps the promise on deliveries: what the handler has made *)
(* of a message counts while the worker that calls it still holds it.  A   *)
(* message is acked or rejected for the calls of the delivery that is      *)
(* settled, never for those of one that was lost (mq.go:80).               *)
InHand(m) == place[m] \in Workers /\ job[place[m]] = m
Failed(m) == IF InHand(m) THEN attempt[place[m]] ELSE 0
Answer(m) ==
  CASE InHand(m) /\ loop[place[m]] = "acking"   -> "ok"
    [] InHand(m) /\ loop[place[m]] = "panicked" -> "panic"
    [] OTHER -> "none"

Delivery == INSTANCE DeliveryContract WITH
  failed <- [m \in Messages |-> Failed(m)],
  answer <- [m \in Messages |-> Answer(m)]
KeepsDelivery == Delivery!Spec
=============================================================================
