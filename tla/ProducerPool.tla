----------------------------- MODULE ProducerPool -----------------------------
(***************************************************************************)
(* producerConnManager of pkg/xmq/rabbitmq/conn_manager.go after a         *)
(* successful NewProducer: goroutines in Publish, the reconnectWatcher, and *)
(* one call of Close, sharing m.pool (a buffered Go channel), poolMu,      *)
(* m.conn, the closed flag and the inflight count.                         *)
(*                                                                         *)
(* A confirmChannel is abstracted to what the pool can see of it: live, or *)
(* dead (its closed or broken flag is up).  ConfirmChannel is its inside;  *)
(* ExclusiveHolder below is the usage that module calls Exclusive.         *)
(***************************************************************************)
EXTENDS Integers, SequencesExt, FiniteSets

CONSTANTS
  Publishers,           \* goroutines that call Publish, again and again
  Conns,                \* the AMQP connections dialled in a run (bounds reconnects)
  FirstConn,            \* the one Start dialled
  PoolSize,             \* ProducerChannelPoolSize
  None                  \* no connection, no channel, nobody

ASSUME PoolSizeAssumption   == PoolSize \in Nat \ {0}
ASSUME PublishersAssumption == IsFiniteSet(Publishers)
ASSUME ConnsAssumption      == FirstConn \in Conns /\ None \notin Conns

(* Channel i of connection k; newConfirmChannel makes PoolSize of them. *)
Slots     == 1..PoolSize
Channels  == Conns \X Slots
ConnOf(x) == x[1]

ASSUME NoneAssumption == None \notin Channels /\ None \notin {"watcher", "closer"}

VARIABLES
  conn,                 \* m.conn
  connState,            \* external: new (not dialled), open or closed
  chan,                 \* new, live or dead
  pool,                 \* m.pool
  mClosed,              \* m.closed, and stopCtx cancelled with it
  poolMu,               \* who holds poolMu
  inflight,             \* m.inflight
  pc,                   \* each publisher's place in Publish
  held,                 \* the channel it took from the pool
  wpc, wconn, created,  \* the watcher: place, connection at hand, channels to pool
  cpc                   \* Close: its place

connVars == <<conn, connState>>
poolVars == <<chan, pool>>
pubVars  == <<inflight, pc, held>>
wVars    == <<wpc, wconn, created>>
vars     == <<connVars, poolVars, pubVars, wVars, cpc, mClosed, poolMu>>

(* cc.close: the flags go up, whatever they were. *)
CloseChan(x) == chan' = [chan EXCEPT ![x] = "dead"]

AllOf(k) == [i \in Slots |-> <<k, i>>]

-----------------------------------------------------------------------------
(* The state NewProducer returns in: one open connection, a full pool of   *)
(* its channels, the watcher started.                                      *)
Init ==
  /\ conn      = FirstConn
  /\ connState = [k \in Conns |-> IF k = FirstConn THEN "open" ELSE "new"]
  /\ chan      = [x \in Channels |-> IF ConnOf(x) = FirstConn THEN "live" ELSE "new"]
  /\ pool      = AllOf(FirstConn)
  /\ mClosed   = FALSE
  /\ poolMu    = None
  /\ inflight  = 0
  /\ pc        = [p \in Publishers |-> "idle"]
  /\ held      = [p \in Publishers |-> None]
  /\ wpc = "top" /\ wconn = None /\ created = <<>>
  /\ cpc = "idle"

-----------------------------------------------------------------------------
(* Publish. *)

PubGoes(p, from, to) ==
  /\ pc[p] = from
  /\ pc' = [pc EXCEPT ![p] = to]

(* The closed checks of Publish and GetProducerChannel pass. *)
PubStart(p) ==
  /\ PubGoes(p, "idle", "getting")
  /\ ~mClosed
  /\ UNCHANGED <<connVars, poolVars, inflight, held, wVars, cpc, mClosed, poolMu>>

(* GetProducerChannel receives a channel that is usable ... *)
GetLive(p) ==
  /\ PubGoes(p, "getting", "holding")
  /\ pool # <<>> /\ chan[Head(pool)] = "live"
  /\ held' = [held EXCEPT ![p] = Head(pool)]
  /\ pool' = Tail(pool)
  /\ UNCHANGED <<connVars, chan, inflight, wVars, cpc, mClosed, poolMu>>

(* ... or one that is not: close it and receive again ... *)
GetDead(p) ==
  /\ pc[p] = "getting"
  /\ pool # <<>> /\ chan[Head(pool)] = "dead"
  /\ CloseChan(Head(pool))
  /\ pool' = Tail(pool)
  /\ UNCHANGED <<connVars, pubVars, wVars, cpc, mClosed, poolMu>>

(* ... or gives up (PublishGetTimeout, or the caller's context). *)
GetGivesUp(p) ==
  /\ PubGoes(p, "getting", "idle")
  /\ UNCHANGED <<connVars, poolVars, inflight, held, wVars, cpc, mClosed, poolMu>>

(* inflight is raised only once a channel is held. *)
PubEnter(p) ==
  /\ PubGoes(p, "holding", "publishing")
  /\ inflight' = inflight + 1
  /\ UNCHANGED <<connVars, poolVars, held, wVars, cpc, mClosed, poolMu>>

(* publishWithConfirm returns: nack, failed send and too many timeouts     *)
(* retire the channel, the other outcomes leave it as it is.  The deferred *)
(* decrement runs before the deferred PutProducerChannel.                  *)
PubReturns(p) ==
  /\ PubGoes(p, "publishing", "returning")
  /\ \/ CloseChan(held[p])
     \/ UNCHANGED chan
  /\ inflight' = inflight - 1
  /\ UNCHANGED <<connVars, pool, held, wVars, cpc, mClosed, poolMu>>

-----------------------------------------------------------------------------
(* PutProducerChannel. *)

PutDown(p, from) ==
  /\ PubGoes(p, from, "idle")
  /\ held' = [held EXCEPT ![p] = None]

PutRefused(p) ==
  /\ PutDown(p, "returning")
  /\ mClosed \/ chan[held[p]] = "dead"
  /\ CloseChan(held[p])
  /\ UNCHANGED <<connVars, pool, inflight, wVars, cpc, mClosed, poolMu>>

PutChecked(p) ==
  /\ PubGoes(p, "returning", "putting")
  /\ ~mClosed /\ chan[held[p]] = "live"
  /\ UNCHANGED <<connVars, poolVars, inflight, held, wVars, cpc, mClosed, poolMu>>

HasRoom == Len(pool) < PoolSize

(* The first, non-blocking attempt finds the pool full. *)
PutWaits(p) ==
  /\ PubGoes(p, "putting", "putwait")
  /\ ~HasRoom
  /\ UNCHANGED <<connVars, poolVars, inflight, held, wVars, cpc, mClosed, poolMu>>

PutTwice(p) ==                                     \* faulty variant: deferred twice
  /\ \E from \in {"putting", "putwait"} : PubGoes(p, from, "returning")
  /\ HasRoom
  /\ pool' = Append(pool, held[p])
  /\ UNCHANGED <<connVars, chan, inflight, held, wVars, cpc, mClosed, poolMu>>

(* The channel goes back; the flags may have gone up since the check. *)
Put(p) ==
  /\ \E from \in {"putting", "putwait"} : PutDown(p, from)
  /\ HasRoom
  /\ pool' = Append(pool, held[p])
  /\ UNCHANGED <<connVars, chan, inflight, wVars, cpc, mClosed, poolMu>>

(* After 500 ms the channel is closed and dropped. *)
PutDropsOpen(p) ==                                 \* faulty variant: dropped unclosed
  /\ PutDown(p, "putwait")
  /\ UNCHANGED <<connVars, poolVars, inflight, wVars, cpc, mClosed, poolMu>>
PutDiscards(p) ==
  /\ PutDown(p, "putwait")
  /\ CloseChan(held[p])
  /\ UNCHANGED <<connVars, pool, inflight, wVars, cpc, mClosed, poolMu>>

-----------------------------------------------------------------------------
(* reconnectWatcher. *)

Open(k) == k # None /\ connState[k] = "open"

(* Top of the loop. *)
WCheck ==
  /\ wpc = "top"
  /\ wpc' = IF mClosed THEN "exit" ELSE IF Open(conn) THEN "watching" ELSE "dialing"
  /\ wconn' = IF ~mClosed /\ Open(conn) THEN conn ELSE None
  /\ UNCHANGED <<created, connVars, poolVars, pubVars, cpc, mClosed, poolMu>>

WDial ==
  /\ wpc = "dialing"
  /\ \E k \in Conns :
       /\ connState[k] = "new"
       /\ connState' = [connState EXCEPT ![k] = "open"]
       /\ wconn' = k
  /\ wpc' = "locking"
  /\ UNCHANGED <<conn, created, poolVars, pubVars, cpc, mClosed, poolMu>>

(* The dial fails: back off and start over. *)
WDialFails ==
  /\ wpc = "dialing"
  /\ wpc' = "top"
  /\ UNCHANGED <<wconn, created, connVars, poolVars, pubVars, cpc, mClosed, poolMu>>

WLock ==
  /\ wpc = "locking" /\ poolMu = None
  /\ poolMu' = "watcher"
  /\ wpc' = "draining"
  /\ UNCHANGED <<wconn, created, connVars, poolVars, pubVars, cpc, mClosed>>

(* refreshPool empties the pool ...                                        *)
WDrainOne ==
  /\ wpc = "draining" /\ pool # <<>>
  /\ CloseChan(Head(pool))
  /\ pool' = Tail(pool)
  /\ UNCHANGED <<wVars, connVars, pubVars, cpc, mClosed, poolMu>>

(* ... opens PoolSize channels on the new connection ...                   *)
WCreate ==
  /\ wpc = "draining" /\ pool = <<>>
  /\ Open(wconn)
  /\ chan' = [x \in Channels |-> IF ConnOf(x) = wconn THEN "live" ELSE chan[x]]
  /\ created' = AllOf(wconn)
  /\ wpc' = "filling"
  /\ UNCHANGED <<wconn, pool, connVars, pubVars, cpc, mClosed, poolMu>>

(* ... or fails to, drops those it opened with the connection, and backs   *)
(* off ...                                                                 *)
WCreateFailsLeaks ==                               \* faulty variant: conn left open
  /\ wpc = "draining" /\ pool = <<>>
  /\ poolMu' = None
  /\ wconn' = None
  /\ wpc' = "top"
  /\ UNCHANGED <<conn, connState, created, poolVars, pubVars, cpc, mClosed>>
WCreateFailsLocked ==                              \* faulty variant: poolMu kept
  /\ wpc = "draining" /\ pool = <<>>
  /\ connState' = [connState EXCEPT ![wconn] = "closed"]
  /\ wconn' = None
  /\ wpc' = "top"
  /\ UNCHANGED <<conn, created, poolVars, pubVars, cpc, mClosed, poolMu>>
WCreateFails ==
  /\ wpc = "draining" /\ pool = <<>>
  /\ connState' = [connState EXCEPT ![wconn] = "closed"]
  /\ poolMu' = None
  /\ wconn' = None
  /\ wpc' = "top"
  /\ UNCHANGED <<conn, created, poolVars, pubVars, cpc, mClosed>>

(* ... and sends them to the pool one by one, blocking on a full pool with *)
(* poolMu held.                                                            *)
WFill ==
  /\ wpc = "filling" /\ created # <<>> /\ HasRoom
  /\ pool' = Append(pool, Head(created))
  /\ created' = Tail(created)
  /\ UNCHANGED <<wpc, wconn, chan, connVars, pubVars, cpc, mClosed, poolMu>>

(* The new connection is published and poolMu released.  The old one is    *)
(* nil or closed here, so the delayed close has nothing to do.             *)
WSwap ==
  /\ wpc = "filling" /\ created = <<>>
  /\ conn' = wconn
  /\ poolMu' = None
  /\ wconn' = None
  /\ wpc' = "top"
  /\ UNCHANGED <<connState, created, poolVars, pubVars, cpc, mClosed>>

(* NotifyClose of the connection it loaded, or stopCtx. *)
WSeesCloseReturns ==                               \* faulty variant: no loop
  /\ wpc = "watching" /\ ~Open(wconn)
  /\ conn' = None
  /\ wconn' = None
  /\ wpc' = "exit"
  /\ UNCHANGED <<connState, created, poolVars, pubVars, cpc, mClosed, poolMu>>
WSeesClose ==
  /\ wpc = "watching" /\ ~Open(wconn)
  /\ conn' = None
  /\ wconn' = None
  /\ wpc' = "top"
  /\ UNCHANGED <<connState, created, poolVars, pubVars, cpc, mClosed, poolMu>>

WStops ==
  /\ wpc = "watching" /\ mClosed
  /\ wpc' = "exit"
  /\ wconn' = None
  /\ UNCHANGED <<created, connVars, poolVars, pubVars, cpc, mClosed, poolMu>>

-----------------------------------------------------------------------------
(* Close. *)

CloseGoes(from, to) == cpc = from /\ cpc' = to

CloseBegin ==
  /\ CloseGoes("idle", "locking")
  /\ mClosed' = TRUE
  /\ UNCHANGED <<connVars, poolVars, pubVars, wVars, poolMu>>

CloseLock ==
  /\ CloseGoes("locking", "draining")
  /\ poolMu = None
  /\ poolMu' = "closer"
  /\ UNCHANGED <<connVars, poolVars, pubVars, wVars, mClosed>>

CloseDrainOne ==
  /\ cpc = "draining" /\ pool # <<>>
  /\ CloseChan(Head(pool))
  /\ pool' = Tail(pool)
  /\ UNCHANGED <<cpc, connVars, pubVars, wVars, mClosed, poolMu>>

CloseUnlock ==
  /\ CloseGoes("draining", "loading")
  /\ pool = <<>>
  /\ poolMu' = None
  /\ UNCHANGED <<connVars, poolVars, pubVars, wVars, mClosed>>

(* conn.Close() on the connection it loaded ... *)
CloseConn ==
  /\ cpc = "loading"
  /\ cpc' = IF conn = None THEN "waiting" ELSE "storing"
  /\ connState' = IF conn = None THEN connState ELSE [connState EXCEPT ![conn] = "closed"]
  /\ UNCHANGED <<conn, poolVars, pubVars, wVars, mClosed, poolMu>>

(* ... then storeConn(nil), whatever m.conn holds by now. *)
CloseStore ==
  /\ CloseGoes("storing", "waiting")
  /\ conn' = None
  /\ UNCHANGED <<connState, poolVars, pubVars, wVars, mClosed, poolMu>>

(* inflight is 0, or the 15 s are over; then the watcher is gone, or the   *)
(* 2 s are over.                                                           *)
CloseAwaited ==
  /\ CloseGoes("waiting", "joining")
  /\ inflight = 0
  /\ UNCHANGED <<connVars, poolVars, pubVars, wVars, mClosed, poolMu>>

CloseForced ==
  /\ CloseGoes("waiting", "forced")
  /\ inflight # 0
  /\ UNCHANGED <<connVars, poolVars, pubVars, wVars, mClosed, poolMu>>

CloseJoined ==
  /\ \E from \in {"joining", "forced"} : CloseGoes(from, "done")
  /\ UNCHANGED <<connVars, poolVars, pubVars, wVars, mClosed, poolMu>>

-----------------------------------------------------------------------------
(* External: the broker or the network drops a connection, or the broker   *)
(* closes a channel for an error; each channel's own goroutines notice     *)
(* that, or stopCtx, in their own time.                                    *)

ConnDrops ==
  /\ \E k \in Conns :
       /\ connState[k] = "open"
       /\ connState' = [connState EXCEPT ![k] = "closed"]
  /\ UNCHANGED <<conn, poolVars, pubVars, wVars, cpc, mClosed, poolMu>>

ChanNotices(x) ==
  /\ chan[x] = "live"
  /\ CloseChan(x)
  /\ UNCHANGED <<connVars, pool, pubVars, wVars, cpc, mClosed, poolMu>>

-----------------------------------------------------------------------------
PubStep(p) ==
  \/ PubStart(p) \/ GetLive(p) \/ GetDead(p) \/ GetGivesUp(p) \/ PubEnter(p) \/ PubReturns(p)
  \/ PutRefused(p) \/ PutChecked(p) \/ PutWaits(p) \/ Put(p) \/ PutDiscards(p)

WatcherStep ==
  \/ WCheck \/ WDial \/ WDialFails \/ WLock \/ WDrainOne \/ WCreate \/ WCreateFails
  \/ WFill \/ WSwap \/ WSeesClose \/ WStops

CloseStep ==
  \/ CloseLock \/ CloseDrainOne \/ CloseUnlock \/ CloseConn \/ CloseStore
  \/ CloseAwaited \/ CloseForced \/ CloseJoined

Next ==
  \/ \E p \in Publishers : PubStep(p)
  \/ WatcherStep \/ CloseBegin \/ CloseStep
  \/ ConnDrops \/ \E x \in Channels : ChanNotices(x)

Spec == Init /\ [][Next]_vars

(* Both goroutines run when they can; waits with a timer end; a dial that  *)
(* is retried for ever succeeds once the broker is back (strong fairness:  *)
(* the failures in between disable it).  Callers, and the broker, may do   *)
(* nothing, and no channel need ever notice that its connection is gone.   *)
Fairness ==
  /\ WF_vars(CloseStep)
  /\ WF_vars(WatcherStep) /\ SF_vars(WDial)

FairSpec == Spec /\ Fairness

-----------------------------------------------------------------------------
(* Type correctness; the pool never holds more than its capacity. *)
TypeOK ==
  /\ conn \in Conns \cup {None}
  /\ connState \in [Conns -> {"new", "open", "closed"}]
  /\ chan \in [Channels -> {"new", "live", "dead"}]
  /\ pool \in Seq(Channels) /\ Len(pool) <= PoolSize
  /\ mClosed \in BOOLEAN
  /\ poolMu \in {None, "watcher", "closer"}
  /\ inflight \in Nat
  /\ pc \in [Publishers -> {"idle", "getting", "holding", "publishing", "returning",
                             "putting", "putwait"}]
  /\ held \in [Publishers -> Channels \cup {None}]
  /\ wpc \in {"top", "dialing", "locking", "draining", "filling", "watching", "exit"}
  /\ wconn \in Conns \cup {None}
  /\ created \in Seq(Channels)
  /\ cpc \in {"idle", "locking", "draining", "loading", "storing", "waiting", "joining",
              "forced", "done"}

(* A channel is in one place at a time: once in the pool, or in the hands  *)
(* of one publisher, or still to be pooled by the watcher.  This is what   *)
(* makes publishWithConfirm run for one caller at a time per channel, with *)
(* pool, Put's second thoughts and refreshPool racing each other.          *)
ExclusiveHolder ==
  /\ \A i, j \in DOMAIN pool : i # j => pool[i] # pool[j]
  /\ \A p, q \in Publishers : p # q /\ held[p] # None => held[p] # held[q]
  /\ \A p \in Publishers, i \in DOMAIN pool : held[p] # pool[i]
  /\ \A j \in DOMAIN created :
       /\ \A i \in DOMAIN pool : created[j] # pool[i]
       /\ \A p \in Publishers : created[j] # held[p]

(* A channel that still looks usable is never dropped on the floor: it is  *)
(* pooled, held, or about to be pooled.  Whoever takes one out of          *)
(* circulation closes it, so none leaks with its two goroutines.           *)
NoLiveOrphan ==
  \A x \in Channels : chan[x] = "live" =>
    \/ \E i \in DOMAIN pool : pool[i] = x
    \/ \E i \in DOMAIN created : created[i] = x
    \/ \E p \in Publishers : held[p] = x

(* Towards each channel the pool keeps what ConfirmChannel calls Exclusive, *)
(* and expects no more of it than ConfirmChannel keeps: a user in          *)
(* publishWithConfirm is alone there through every reconnect and Close.    *)
Inside(x) == {p \in Publishers : held[p] = x /\ pc[p] = "publishing"}

Use(x) == INSTANCE ChannelUse WITH
            Users <- Publishers, life <- chan[x], inside <- Inside(x)

UsedAsAgreed ==
  /\ \A x \in Channels : Use(x)!Init
  /\ [][\A x \in Channels : [Use(x)!Next]_(Use(x)!useVars)]_vars

(* Until Close is called, every open connection is m.conn or the one the   *)
(* watcher is installing: a reconnect that fails half-way leaks none.      *)
ConnsTracked ==
  ~mClosed => \A k \in Conns : connState[k] = "open" => k = conn \/ k = wconn

FillBlocked == wpc = "filling" /\ created # <<>> /\ ~HasRoom

(* Close returns, or the watcher is blocked on a full pool with poolMu     *)
(* held: there is no other way for it to hang.                             *)
CloseReturnsUnlessFillBlocked == cpc = "locking" ~> (cpc = "done" \/ FillBlocked)

(* A lost connection is replaced, unless the manager is closed or the      *)
(* watcher is blocked on a full pool (or the run is out of connections).   *)
LostConnRecovers ==
  (~Open(conn) /\ ~mClosed) ~>
    (Open(conn) \/ mClosed \/ FillBlocked \/ \A k \in Conns : connState[k] # "new")

(* "Close waits for all inflight messages to complete" (producer.go),      *)
(* "waits for inflight messages to be confirmed, then releases resources"  *)
(* (mq.go): Close takes the connection down only when nobody publishes.    *)
CloseLetsInflightFinish ==
  [][cpc = "loading" /\ cpc' = "storing" => inflight = 0]_vars

(* "waits ... for a limited time, so that it does not block for ever"      *)
(* (comment of Close): Close returns.                                      *)
CloseReturns == cpc = "locking" ~> cpc = "done"

(* "then releases resources" (mq.go): when Close, the watcher and all      *)
(* publishers are through, no connection is left open.                     *)
CloseReleases ==
  cpc = "done" /\ wpc = "exit" /\ (\A p \in Publishers : pc[p] = "idle") =>
    \A k \in Conns : connState[k] # "open"
=============================================================================
