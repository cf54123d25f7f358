---------------------------- MODULE ConfirmChannel ----------------------------
(***************************************************************************)
(* One confirmChannel of pkg/xmq/rabbitmq/conn_manager.go: the calls of    *)
(* publishWithConfirm, the confirmRouter goroutine, the NotifyClose        *)
(* goroutine, the ordered pending list they share, and the AMQP channel    *)
(* under them (the amqp091 library and the broker, external).              *)
(*                                                                         *)
(* A step is one critical section, one atomic access that another          *)
(* goroutine can see the effect of, or one select.  Stores to closed and   *)
(* broken that are followed by close() are one step with it: both flags    *)
(* only ever go up, and nobody's step depends on the moment in between.    *)
(***************************************************************************)
EXTENDS Integers, SequencesExt

CONSTANTS
  Calls,                \* the calls of publishWithConfirm on this channel
  Exclusive,            \* TRUE: one call at a time, as the producer's pool uses it
  Threshold,            \* ConsecutiveTimeoutThreshold; 0 never recycles
  NoCall                \* nobody holds mu

ASSUME ExclusiveAssumption == Exclusive \in BOOLEAN
ASSUME ThresholdAssumption == Threshold \in Nat
ASSUME NoCallAssumption    == NoCall \notin Calls

VARIABLES
  pc,                   \* where each call of publishWithConfirm stands
  result,               \* what it returned
  seq,                  \* the delivery tag it took, 0 before that
  rec,                  \* its pendingRec.ch: empty, one verdict buffered, or closed
  newCnt,               \* its private copy of the timeout count
  mu,                   \* the call that holds cc.mu
  pending,              \* cc.pending.list: the calls whose tag is registered, in order
  closed, broken,       \* the two atomic flags
  closeCh,              \* TRUE when cc.closeCh is closed
  consecTO,             \* confirm timeouts in a row
  lastSeq,              \* the last tag taken
  router,               \* the confirmRouter goroutine
  watch,                \* the NotifyClose goroutine
  stop,                 \* the manager's stopCtx is cancelled
  chOpen,               \* external: the AMQP channel is open
  published,            \* external: messages the library counts as published
  verdict,              \* external: what the broker decided about each message
  routed                \* external: the last tag whose verdict the library has dispatched

callVars   == <<pc, result, seq, rec, newCnt>>
chanVars   == <<mu, pending, closed, broken, closeCh, consecTO, lastSeq>>
goVars     == <<router, watch, stop>>
brokerVars == <<chOpen, published, verdict, routed>>
vars       == <<callVars, chanVars, goVars, brokerVars>>

Steps    == {"idle", "checked", "locked", "sendfailed", "waiting", "timedout", "done"}
Results  == {"none", "ok", "nack", "timeout", "cancelled", "closed", "failed", "reset"}

InProgress(c) == pc[c] \notin {"idle", "done"}
Registered(c) == \E i \in DOMAIN pending : pending[i] = c

Return(c, r) ==
  /\ pc'     = [pc EXCEPT ![c] = "done"]
  /\ result' = [result EXCEPT ![c] = r]

(* close(): closeOnce, so the first call does all of it. *)
Close ==
  /\ closed'  = TRUE
  /\ closeCh' = TRUE
  /\ chOpen'  = FALSE

Retire == broken' = TRUE /\ Close

KeepOpen == UNCHANGED <<closed, broken, closeCh, chOpen>>

-----------------------------------------------------------------------------
Init ==
  /\ pc       = [c \in Calls |-> "idle"]
  /\ result   = [c \in Calls |-> "none"]
  /\ seq      = [c \in Calls |-> 0]
  /\ rec      = [c \in Calls |-> "none"]
  /\ newCnt   = [c \in Calls |-> 0]
  /\ mu       = NoCall
  /\ pending  = <<>>
  /\ closed   = FALSE /\ broken = FALSE /\ closeCh = FALSE
  /\ consecTO = 0
  /\ lastSeq  = 0
  /\ router   = "starting"
  /\ watch    = "watching"
  /\ stop     = FALSE
  /\ chOpen   = TRUE
  /\ published = 0
  /\ verdict  = [c \in Calls |-> "unsent"]
  /\ routed   = 0

-----------------------------------------------------------------------------
(* publishWithConfirm, up to the select. *)

MayStart(c) ==
  /\ pc[c] = "idle"
  /\ Exclusive => \A d \in Calls : ~InProgress(d)

(* The quick check passes. *)
Begin(c) ==
  /\ MayStart(c)
  /\ ~closed /\ ~broken
  /\ pc' = [pc EXCEPT ![c] = "checked"]
  /\ UNCHANGED <<result, seq, rec, newCnt, chanVars, goVars, brokerVars>>

(* The quick check fails. *)
Refuse(c) ==
  /\ MayStart(c)
  /\ closed \/ broken
  /\ Return(c, "closed")
  /\ UNCHANGED <<seq, rec, newCnt, chanVars, goVars, brokerVars>>

NextTag == published + 1

TagIsFreshNoReset(n) == n # 0                          \* faulty variant
TagIsFresh(n) == n # 0 /\ (lastSeq = 0 \/ n > lastSeq)

(* Under mu: take the next tag and register for its confirmation. *)
TakeTag(c) ==
  /\ pc[c] = "checked" /\ mu = NoCall
  /\ TagIsFresh(NextTag)
  /\ mu'      = c
  /\ lastSeq' = NextTag
  /\ seq'     = [seq EXCEPT ![c] = NextTag]
  /\ rec'     = [rec EXCEPT ![c] = "empty"]
  /\ pending' = Append(pending, c)
  /\ pc'      = [pc EXCEPT ![c] = "locked"]
  /\ UNCHANGED <<result, newCnt, closed, broken, closeCh, consecTO, goVars, brokerVars>>

(* The library offers tag 0, or one that was taken already. *)
BadTag(c) ==
  /\ pc[c] = "checked" /\ mu = NoCall
  /\ \E n \in {0, NextTag} : ~TagIsFresh(n)
  /\ Retire
  /\ Return(c, "reset")
  /\ UNCHANGED <<seq, rec, newCnt, mu, pending, consecTO, lastSeq, goVars,
                 published, verdict, routed>>

(* PublishWithContext succeeds, and mu is released. *)
Send(c) ==
  /\ pc[c] = "locked" /\ chOpen
  /\ published' = published + 1
  /\ verdict'   = [verdict EXCEPT ![c] = "none"]
  /\ mu'        = NoCall
  /\ pc'        = [pc EXCEPT ![c] = "waiting"]
  /\ UNCHANGED <<result, seq, rec, newCnt, pending, closed, broken, closeCh, consecTO,
                 lastSeq, goVars, chOpen, routed>>

(* PublishWithContext fails: the library takes its tag back, and mu is     *)
(* released before the caller has retired the channel.                     *)
SendFail(c) ==
  /\ pc[c] = "locked"
  /\ mu' = NoCall
  /\ pc' = [pc EXCEPT ![c] = "sendfailed"]
  /\ UNCHANGED <<result, seq, rec, newCnt, pending, closed, broken, closeCh, consecTO,
                 lastSeq, goVars, brokerVars>>

(* popTailIfMatch, removeTailNearby and removeByTag in turn: drop the node *)
(* with the caller's tag, wherever it is, and close its rec; nothing when  *)
(* the router has already taken it.                                        *)
ForgetNothing(c) == UNCHANGED <<pending, rec>>        \* faulty variant
Forget(c) ==
  \/ \E i \in DOMAIN pending :
       /\ seq[pending[i]] = seq[c]
       /\ pending' = RemoveAt(pending, i)
       /\ rec'     = [rec EXCEPT ![pending[i]] = "closed"]
  \/ /\ \A i \in DOMAIN pending : seq[pending[i]] # seq[c]
     /\ UNCHANGED <<pending, rec>>

CleanupFailed(c) ==
  /\ pc[c] = "sendfailed"
  /\ Forget(c)
  /\ Retire
  /\ Return(c, "failed")
  /\ UNCHANGED <<seq, newCnt, mu, consecTO, lastSeq, goVars, published, verdict, routed>>

-----------------------------------------------------------------------------
(* The select of publishWithConfirm.  When several cases are ready Go      *)
(* picks any of them, so nothing orders these actions.                     *)

AfterSuccess     == 0

RecvAck(c) ==
  /\ pc[c] = "waiting" /\ rec[c] = "ack"
  /\ consecTO' = AfterSuccess
  /\ Return(c, "ok")
  /\ UNCHANGED <<seq, rec, newCnt, mu, pending, closed, broken, closeCh, lastSeq,
                 goVars, brokerVars>>

RecvNackKeeps(c) ==                                    \* faulty variant: still in use
  /\ pc[c] = "waiting" /\ rec[c] = "nack"
  /\ consecTO' = 0
  /\ Return(c, "nack")
  /\ UNCHANGED <<seq, rec, newCnt, mu, pending, lastSeq, goVars, closed, broken, closeCh,
                 brokerVars>>
RecvNack(c) ==
  /\ pc[c] = "waiting" /\ rec[c] = "nack"
  /\ consecTO' = 0
  /\ Retire
  /\ Return(c, "nack")
  /\ UNCHANGED <<seq, rec, newCnt, mu, pending, lastSeq, goVars,
                 published, verdict, routed>>

(* The timer case is chosen: count the timeout ...                         *)
TimerFires(c) ==
  /\ pc[c] = "waiting"
  /\ consecTO' = consecTO + 1
  /\ newCnt'   = [newCnt EXCEPT ![c] = consecTO + 1]
  /\ pc'       = [pc EXCEPT ![c] = "timedout"]
  /\ UNCHANGED <<result, seq, rec, mu, pending, closed, broken, closeCh, lastSeq,
                 goVars, brokerVars>>

AtThresholdLate(n) == Threshold > 0 /\ n > Threshold    \* faulty variant
AtThreshold(n)     == Threshold > 0 /\ n >= Threshold

(* ... then drop the registration, and the channel with it once too many   *)
(* timeouts have followed each other.                                      *)
TimeoutCleanup(c) ==
  /\ pc[c] = "timedout"
  /\ Forget(c)
  /\ IF AtThreshold(newCnt[c]) THEN Retire ELSE KeepOpen
  /\ Return(c, "timeout")
  /\ newCnt' = [newCnt EXCEPT ![c] = 0]
  /\ UNCHANGED <<seq, mu, consecTO, lastSeq, goVars,
                 published, verdict, routed>>

CtxDone(c) ==
  /\ pc[c] = "waiting"
  /\ Forget(c)
  /\ Return(c, "cancelled")
  /\ UNCHANGED <<seq, newCnt, mu, closed, broken, closeCh, consecTO, lastSeq, goVars, brokerVars>>

SeeClosed(c) ==
  /\ pc[c] = "waiting" /\ closeCh
  /\ Forget(c)
  /\ Return(c, "closed")
  /\ UNCHANGED <<seq, newCnt, mu, closed, broken, closeCh, consecTO, lastSeq, goVars, brokerVars>>

-----------------------------------------------------------------------------
(* confirmRouter. *)

(* NotifyPublish is called by the goroutine itself, so a message may be    *)
(* published, and settled, before anybody listens.                         *)
RouterListen ==
  /\ router = "starting"
  /\ router' = "running"
  /\ UNCHANGED <<callVars, chanVars, watch, stop, brokerVars>>

(* The library hands out verdicts one by one in tag order. *)
Dispatched(c) == seq[c] = routed + 1 /\ verdict[c] \in {"ack", "nack"}

DispatchUnheard ==
  /\ router = "starting"
  /\ \E c \in Calls : Dispatched(c)
  /\ routed' = routed + 1
  /\ UNCHANGED <<callVars, chanVars, goVars, chOpen, published, verdict>>

(* The first k registrations are those ackLE(n) wakes. *)
IsPrefixLE(k, n) ==
  /\ \A i \in 1..k : seq[pending[i]] <= n
  /\ k < Len(pending) => seq[pending[k + 1]] > n

(* ackLE: buffer v for the first k waiters, close their channels, drop     *)
(* them from the list.                                                     *)
Wake(k, v) ==
  /\ rec' = [d \in Calls |-> IF \E i \in 1..k : pending[i] = d THEN v ELSE rec[d]]
  /\ pending' = SubSeq(pending, k + 1, Len(pending))

RouterConfirm ==
  /\ router = "running"
  /\ \E c \in Calls, k \in 0..Len(pending) :
       /\ Dispatched(c)
       /\ IsPrefixLE(k, routed + 1)
       /\ Wake(k, verdict[c])
       /\ consecTO' = IF k > 0 /\ verdict[c] = "ack" THEN 0 ELSE consecTO
  /\ routed' = routed + 1
  /\ UNCHANGED <<pc, result, seq, newCnt, mu, closed, broken, closeCh, lastSeq, goVars,
                 chOpen, published, verdict>>

DrainByClose   == "closed"     \* faulty variant
DrainAsAck     == "ack"        \* faulty variant
DrainVerdict   == "nack"

(* The router leaves: its source is closed, or closeCh, or stopCtx.  Every *)
(* waiter left is told nack (drainAll).                                    *)
RouterExit ==
  /\ router = "running"
  /\ ~chOpen \/ closeCh \/ stop
  /\ router' = "exited"
  /\ closed' = TRUE
  /\ Wake(Len(pending), DrainVerdict)
  /\ UNCHANGED <<pc, result, seq, newCnt, mu, broken, closeCh, consecTO, lastSeq,
                 watch, stop, brokerVars>>

-----------------------------------------------------------------------------
(* The NotifyClose goroutine, and the manager. *)

WatchClose ==
  /\ watch = "watching" /\ ~chOpen
  /\ watch' = "done"
  /\ Retire
  /\ UNCHANGED <<callVars, mu, pending, consecTO, lastSeq, router, stop,
                 published, verdict, routed>>

WatchStopForgets ==                                    \* faulty variant
  /\ watch = "watching" /\ stop
  /\ watch' = "done"
  /\ UNCHANGED <<callVars, chanVars, router, stop, brokerVars>>
WatchStop ==
  /\ watch = "watching" /\ stop
  /\ watch' = "done"
  /\ Close
  /\ UNCHANGED <<callVars, mu, pending, broken, consecTO, lastSeq, router, stop,
                 published, verdict, routed>>

(* The manager closes a channel only while nobody uses it (refreshPool,    *)
(* Close and GetProducerChannel hold it; PutProducerChannel is after use). *)
ManagerClose ==
  /\ \A c \in Calls : ~InProgress(c)
  /\ Close
  /\ UNCHANGED <<callVars, mu, pending, broken, consecTO, lastSeq, goVars,
                 published, verdict, routed>>

StopManager ==
  /\ ~stop
  /\ stop' = TRUE
  /\ UNCHANGED <<callVars, chanVars, router, watch, brokerVars>>

-----------------------------------------------------------------------------
(* External: the broker and the connection. *)

Settle(c) ==
  /\ chOpen /\ verdict[c] = "none"
  /\ \E v \in {"ack", "nack"} : verdict' = [verdict EXCEPT ![c] = v]
  /\ UNCHANGED <<callVars, chanVars, goVars, chOpen, published, routed>>

Shutdown ==
  /\ chOpen
  /\ chOpen' = FALSE
  /\ UNCHANGED <<callVars, chanVars, goVars, published, verdict, routed>>

-----------------------------------------------------------------------------
CallStep(c) ==
  \/ Begin(c) \/ Refuse(c) \/ TakeTag(c) \/ BadTag(c) \/ Send(c) \/ SendFail(c)
  \/ CleanupFailed(c) \/ RecvAck(c) \/ RecvNack(c) \/ TimerFires(c) \/ TimeoutCleanup(c)
  \/ CtxDone(c) \/ SeeClosed(c)

Next ==
  \/ \E c \in Calls : CallStep(c) \/ Settle(c)
  \/ RouterListen \/ DispatchUnheard \/ RouterConfirm \/ RouterExit
  \/ WatchClose \/ WatchStop \/ ManagerClose \/ StopManager \/ Shutdown

Spec == Init /\ [][Next]_vars

(* Goroutines that can run do run, and a select with a ready case returns. *)
(* No timer and no context is assumed to fire.                             *)
Fairness ==
  /\ WF_vars(RouterListen) /\ WF_vars(RouterConfirm) /\ WF_vars(RouterExit)
  /\ WF_vars(WatchClose) /\ WF_vars(WatchStop)
  /\ \A c \in Calls : WF_vars(RecvAck(c) \/ RecvNack(c) \/ SeeClosed(c))

FairSpec == Spec /\ Fairness

-----------------------------------------------------------------------------
(* Type correctness. *)
TypeOK ==
  /\ pc \in [Calls -> Steps]
  /\ result \in [Calls -> Results]
  /\ seq \in [Calls -> Nat]
  /\ rec \in [Calls -> {"none", "empty", "ack", "nack", "closed"}]
  /\ newCnt \in [Calls -> Nat]
  /\ mu \in Calls \cup {NoCall}
  /\ pending \in Seq(Calls)
  /\ {closed, broken, closeCh, stop, chOpen} \subseteq BOOLEAN
  /\ consecTO \in Nat /\ lastSeq \in Nat /\ published \in Nat /\ routed \in Nat
  /\ router \in {"starting", "running", "exited"}
  /\ watch \in {"watching", "done"}
  /\ verdict \in [Calls -> {"unsent", "none", "ack", "nack"}]

(* The list is strictly ordered by tag.  ackLE pops a prefix and           *)
(* popTailIfMatch looks at the tail, so both rest on this order, which the *)
(* code only assumes (comments of pendingList and add); with concurrent    *)
(* calls and a failed send whose tag the library hands out again, it is    *)
(* the lastSeq check that keeps it.                                        *)
PendingSorted ==
  \A i, j \in DOMAIN pending : i < j => seq[pending[i]] < seq[pending[j]]

(* A registration belongs to a call still in publishWithConfirm, whose     *)
(* channel is still empty: no way out of the select, and no race of one    *)
(* with the router, leaves a node behind to be woken after its caller left *)
(* (the cleanup after a timeout is there "to avoid a memory leak").        *)
PendingIsLive ==
  \A i \in DOMAIN pending :
    /\ pc[pending[i]] \in {"locked", "sendfailed", "waiting", "timedout"}
    /\ rec[pending[i]] = "empty"

(* A caller in the select is never handed a closed channel with no verdict *)
(* in it, and if its channel is empty it is registered: the branch         *)
(* "confirm channel closed" is unreachable, and no waiter depends on a     *)
(* wake-up that nobody can send any more.                                  *)
WaiterIsRegistered ==
  \A c \in Calls : pc[c] = "waiting" =>
    /\ rec[c] # "closed"
    /\ rec[c] = "empty" => Registered(c)

(* Publish returned nil only for a message the broker acked: an ack that   *)
(* arrives late, after its own call gave up, is never credited to a later  *)
(* call, nor is the drain at shutdown.  This needs the pool's one call at  *)
(* a time: a verdict dispatched before the router listened leaves its      *)
(* waiter in the list, where the next tag's ack would wake it.             *)
OkMeansAcked ==
  Exclusive => \A c \in Calls : result[c] = "ok" => verdict[c] = "ack"

(* Once the count of timeouts in a row reaches the threshold, the channel  *)
(* is out of use or the call that counted is about to retire it, whatever  *)
(* resets raced with the count.                                            *)
TimeoutsRecycle ==
  Threshold > 0 /\ consecTO >= Threshold =>
    \/ broken
    \/ \E c \in Calls : pc[c] = "timedout" /\ newCnt[c] >= Threshold

(* When the AMQP channel is closed or the manager stops, every caller in   *)
(* the select is woken without the help of its timer or its context: the   *)
(* router drains the list, and closeCh is there for the call that          *)
(* registered after the drain.                                             *)
ShutdownWakesWaiters ==
  \A c \in Calls : (pc[c] = "waiting" /\ (~chOpen \/ stop)) ~> pc[c] # "waiting"

(* The channel keeps PublishContract. *)
Told(c) ==
  CASE result[c] = "ok" -> "confirmed"
    [] result[c] \in {"nack", "failed", "reset"} -> "rejected"
    [] result[c] \in {"timeout", "cancelled", "closed"} -> "unknown"
    [] result[c] = "none" /\ verdict[c] = "unsent" -> "new"
    [] OTHER -> "sent"

Contract == INSTANCE PublishContract WITH
              status <- [c \in Calls |-> Told(c)], retired <- broken

KeepsContract == Contract!Spec

(* Towards the pool it is what ProducerPool takes it for. *)
Life   == IF closed \/ broken THEN "dead" ELSE "live"
Inside == {c \in Calls : InProgress(c)}

Use == INSTANCE ChannelUse WITH Users <- Calls, life <- Life, inside <- Inside

UsedAsAgreed == Use!Spec
=============================================================================
