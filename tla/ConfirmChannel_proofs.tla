-------------------------- MODULE ConfirmChannel_proofs --------------------------
(***************************************************************************)
(* Proofs about ConfirmChannel, for any number of calls and any threshold. *)
(*                                                                         *)
(* TypeOK /\ ListInv is inductive.  Its parts say why the list and calls   *)
(* agree: tags are taken in strictly increasing order and never twice      *)
(* (TagsInOrder), so the node a call removes is its own; every call past   *)
(* its registration is woken or still registered (HolderIsRegistered); and *)
(* when calls exclude each other the call at work owns the newest tag      *)
(* (NewestTagIsMine), which is why no verdict reaches the wrong caller.    *)
(***************************************************************************)
EXTENDS ConfirmChannel, DataLemmas

Holding == {"locked", "sendfailed", "waiting", "timedout"}

TagsInOrder ==
  /\ \A c \in Calls : seq[c] <= lastSeq
  /\ \A c \in Calls : pc[c] \in Holding => seq[c] > 0
  /\ \A c, d \in Calls : c # d /\ seq[c] = seq[d] => seq[c] = 0

HolderIsRegistered ==
  \A c \in Calls : pc[c] \in Holding =>
    /\ rec[c] \notin {"none", "closed"}
    /\ rec[c] = "empty" => Registered(c)

ListInv == PendingSorted /\ PendingIsLive /\ TagsInOrder /\ HolderIsRegistered

-----------------------------------------------------------------------------
(* Leaving elements out of a sorted list leaves it sorted, and brings      *)
(* nothing new into it.                                                    *)
LEMMA ThinningKeepsOrder ==
  ASSUME TypeOK, ListInv, pending' \in Seq(Calls), Thinned(pending, pending')
  PROVE  /\ \A i, j \in DOMAIN pending' : i < j => seq[pending'[i]] < seq[pending'[j]]
         /\ \A j \in DOMAIN pending' : \E i \in DOMAIN pending : pending'[j] = pending[i]
<1>1. PICK f \in [DOMAIN pending' -> DOMAIN pending] :
        /\ \A i, j \in DOMAIN pending' : i < j => f[i] < f[j]
        /\ \A i \in DOMAIN pending' : pending'[i] = pending[f[i]]
  BY DEF Thinned
<1>2. ASSUME NEW i \in DOMAIN pending', NEW j \in DOMAIN pending', i < j
      PROVE  seq[pending'[i]] < seq[pending'[j]]
  BY <1>1, <1>2 DEF ListInv, PendingSorted
<1> QED BY <1>1, <1>2

(* Forget(c) (popTailIfMatch, removeTailNearby, removeByTag) takes the     *)
(* caller's own node and nobody else's.                                    *)
LEMMA ForgetIsPrecise ==
  ASSUME TypeOK, ListInv, NEW c \in Calls, pc[c] \in Holding, Forget(c)
  PROVE  /\ pending' \in Seq(Calls)
         /\ Thinned(pending, pending')
         /\ \A j \in DOMAIN pending' : pending'[j] # c
         /\ \A d \in Calls \ {c} : rec'[d] = rec[d]
         /\ \A d \in Calls \ {c} : Registered(d) => Registered(d)'
         /\ rec' \in [Calls -> {"none", "empty", "ack", "nack", "closed"}]
         /\ rec'[c] \in {rec[c], "closed"}
<1>0. /\ pending \in Seq(Calls) /\ seq \in [Calls -> Nat] /\ lastSeq \in Nat
      /\ rec \in [Calls -> {"none", "empty", "ack", "nack", "closed"}]
      /\ \A i \in DOMAIN pending : pending[i] \in Calls
      /\ seq[c] > 0
      /\ \A d \in Calls : seq[d] = seq[c] => d = c
  BY DEF TypeOK, ListInv, TagsInOrder
<1>1. CASE \A i \in DOMAIN pending : seq[pending[i]] # seq[c]
  <2>1. pending' = pending /\ rec' = rec
    BY <1>1 DEF Forget
  <2>2. Thinned(pending, pending)
    BY <1>0, ThinnedReflexive
  <2> QED BY <1>0, <1>1, <2>1, <2>2 DEF Registered
<1>2. CASE \E i \in DOMAIN pending : seq[pending[i]] = seq[c]
  <2>1. PICK i \in DOMAIN pending :
          /\ seq[pending[i]] = seq[c]
          /\ pending' = RemoveAt(pending, i)
          /\ rec' = [rec EXCEPT ![pending[i]] = "closed"]
    BY <1>2 DEF Forget
  <2>2. pending[i] = c
    BY <1>0, <2>1
  <2>3. /\ pending' \in Seq(Calls)
        /\ Len(pending') = Len(pending) - 1
        /\ \A j \in 1..(Len(pending) - 1) :
             pending'[j] = IF j < i THEN pending[j] ELSE pending[j + 1]
    <3> DEFINE t == RemoveAt(pending, i)
    <3>1. /\ t \in Seq(Calls)
          /\ Len(t) = Len(pending) - 1
          /\ \A j \in 1..(Len(pending) - 1) :
               t[j] = IF j < i THEN pending[j] ELSE pending[j + 1]
      BY <1>0, RemoveAtProperties
    <3>2. pending' = t
      BY <2>1
    <3> HIDE DEF t
    <3> QED BY <3>1, <3>2
  <2>4. Thinned(pending, pending')
    BY <1>0, <2>1, RemoveAtThins
  <2>5. Len(pending) \in Nat /\ DOMAIN pending = 1..Len(pending)
        /\ DOMAIN pending' = 1..(Len(pending) - 1)
    BY <1>0, <2>3, LenProperties
  <2>6. \A j \in DOMAIN pending : j # i => pending[j] # c
    <3> SUFFICES ASSUME NEW j \in DOMAIN pending, j # i, pending[j] = c PROVE FALSE
      OBVIOUS
    <3>1. j < i \/ i < j
      BY <2>5
    <3>2. seq[pending[i]] \in Nat
      BY <1>0
    <3> QED BY <2>2, <3>1, <3>2 DEF ListInv, PendingSorted
  <2>7. \A j \in DOMAIN pending' : pending'[j] # c
    BY <2>3, <2>5, <2>6
  <2>8. ASSUME NEW d \in Calls \ {c}, Registered(d)
        PROVE  Registered(d)'
    <3>1. PICK j \in DOMAIN pending : pending[j] = d
      BY <2>8 DEF Registered
    <3>2. j # i
      BY <2>2, <2>8, <3>1
    <3>3. CASE j < i
      <4>1. j \in DOMAIN pending' /\ pending'[j] = d
        BY <2>3, <2>5, <3>1, <3>3
      <4> QED BY <4>1 DEF Registered
    <3>4. CASE j > i
      <4>1. j - 1 \in DOMAIN pending' /\ pending'[j - 1] = d
        BY <2>3, <2>5, <3>1, <3>4
      <4> QED BY <4>1 DEF Registered
    <3> QED BY <2>5, <3>2, <3>3, <3>4
  <2> QED BY <1>0, <2>1, <2>2, <2>3, <2>4, <2>7, <2>8
<1> QED BY <1>1, <1>2

(* Wake(k, v) (ackLE, drainAll) hands v to the first k registered calls,   *)
(* and only to them.                                                       *)
LEMMA WakeProperties ==
  ASSUME TypeOK, NEW k \in 0..Len(pending), NEW v \in {"ack", "nack"}, Wake(k, v)
  PROVE  /\ pending' \in Seq(Calls)
         /\ Thinned(pending, pending')
         /\ rec' \in [Calls -> {"none", "empty", "ack", "nack", "closed"}]
         /\ \A d \in Calls : rec'[d] \in {rec[d], v}
         /\ \A d \in Calls : rec'[d] # rec[d] => \E i \in 1..k : pending[i] = d
         /\ \A d \in Calls : rec'[d] = "empty" /\ Registered(d) => Registered(d)'
<1>0. pending \in Seq(Calls) /\ rec \in [Calls -> {"none", "empty", "ack", "nack", "closed"}]
  BY DEF TypeOK
<1>1. /\ pending' \in Seq(Calls)
      /\ Len(pending') = Len(pending) - k
      /\ \A j \in 1..(Len(pending) - k) : pending'[j] = pending[j + k]
      /\ Thinned(pending, pending')
  BY <1>0, DropProperties DEF Wake
<1>2. /\ rec' \in [Calls -> {"none", "empty", "ack", "nack", "closed"}]
      /\ \A d \in Calls : rec'[d] = IF \E i \in 1..k : pending[i] = d THEN v ELSE rec[d]
  BY <1>0 DEF Wake
<1>3. ASSUME NEW d \in Calls, rec'[d] = "empty", Registered(d)
      PROVE  Registered(d)'
  <2>1. PICK i \in DOMAIN pending : pending[i] = d
    BY <1>3 DEF Registered
  <2>2. i \in 1..Len(pending) /\ i \notin 1..k
    BY <1>0, <1>2, <1>3, <2>1
  <2>3. i - k \in DOMAIN pending' /\ pending'[i - k] = d
    BY <1>0, <1>1, <2>1, <2>2
  <2> QED BY <2>3 DEF Registered
<1> QED BY <1>1, <1>2, <1>3
-----------------------------------------------------------------------------
(* How each kind of step treats ListInv. *)

(* A call does not move, or stays registered, or leaves unregistered. *)
KeepsSide(d) ==
  \/ pc'[d] = pc[d]
  \/ pc[d] \in Holding /\ pc'[d] \in Holding
  \/ pc'[d] \notin Holding /\ ~Registered(d)

(* The list, the tags and the recs stay, and every call keeps its side. *)
LEMMA FrameKeepsList ==
  ASSUME TypeOK, ListInv, UNCHANGED <<seq, rec, pending, lastSeq>>,
         \A d \in Calls : KeepsSide(d)
  PROVE  ListInv'
<1>0. pending \in Seq(Calls) /\ \A i \in DOMAIN pending : pending[i] \in Calls
  BY DEF TypeOK
<1>1. PendingSorted'
  BY DEF ListInv, PendingSorted
<1>2. PendingIsLive'
  BY <1>0 DEF ListInv, PendingIsLive, Registered, Holding, KeepsSide
<1>3. TagsInOrder'
  BY DEF ListInv, TagsInOrder, HolderIsRegistered, KeepsSide
<1>4. HolderIsRegistered'
  BY DEF ListInv, HolderIsRegistered, Registered, KeepsSide
<1> QED BY <1>1, <1>2, <1>3, <1>4 DEF ListInv

(* A call that leaves takes its node along. *)
LEMMA LeavingKeepsList ==
  ASSUME TypeOK, ListInv, NEW c \in Calls, pc[c] \in Holding, Forget(c),
         pc' = [pc EXCEPT ![c] = "done"], UNCHANGED <<seq, lastSeq>>
  PROVE  ListInv'
<1>0. /\ pc \in [Calls -> Steps] /\ seq \in [Calls -> Nat] /\ pending \in Seq(Calls)
      /\ pc'[c] = "done" /\ \A d \in Calls \ {c} : pc'[d] = pc[d]
  BY DEF TypeOK
<1>1. /\ pending' \in Seq(Calls)
      /\ Thinned(pending, pending')
      /\ \A j \in DOMAIN pending' : pending'[j] # c
      /\ \A d \in Calls \ {c} : rec'[d] = rec[d]
      /\ \A d \in Calls \ {c} : Registered(d) => Registered(d)'
  BY ForgetIsPrecise
<1>2. /\ \A i, j \in DOMAIN pending' : i < j => seq[pending'[i]] < seq[pending'[j]]
      /\ \A j \in DOMAIN pending' : \E i \in DOMAIN pending : pending'[j] = pending[i]
  BY <1>1, ThinningKeepsOrder
<1>3. PendingSorted'
  BY <1>2 DEF PendingSorted
<1>4. PendingIsLive'
  BY <1>0, <1>1, <1>2 DEF ListInv, PendingIsLive
<1>5. TagsInOrder'
  BY <1>0 DEF ListInv, TagsInOrder, Holding
<1>6. HolderIsRegistered'
  BY <1>0, <1>1 DEF ListInv, HolderIsRegistered, Holding
<1> QED BY <1>3, <1>4, <1>5, <1>6 DEF ListInv

(* The router wakes calls without moving them. *)
LEMMA WakingKeepsList ==
  ASSUME TypeOK, ListInv, NEW k \in 0..Len(pending), NEW v \in {"ack", "nack"},
         Wake(k, v), UNCHANGED <<pc, seq, lastSeq>>
  PROVE  ListInv'
<1>0. /\ seq \in [Calls -> Nat] /\ pending \in Seq(Calls)
      /\ rec \in [Calls -> {"none", "empty", "ack", "nack", "closed"}]
  BY DEF TypeOK
<1>1. /\ pending' \in Seq(Calls)
      /\ Thinned(pending, pending')
      /\ \A d \in Calls : rec'[d] \in {rec[d], v}
      /\ \A d \in Calls : rec'[d] # rec[d] => \E i \in 1..k : pending[i] = d
      /\ \A d \in Calls : rec'[d] = "empty" /\ Registered(d) => Registered(d)'
  BY WakeProperties
<1>2. /\ \A i, j \in DOMAIN pending' : i < j => seq[pending'[i]] < seq[pending'[j]]
      /\ \A j \in DOMAIN pending' : \E i \in DOMAIN pending : pending'[j] = pending[i]
  BY <1>1, ThinningKeepsOrder
<1>3. PendingSorted'
  BY <1>2 DEF PendingSorted
<1>4. PendingIsLive'
  <2>1. SUFFICES ASSUME NEW j \in DOMAIN pending'
                 PROVE  /\ pc[pending'[j]] \in Holding
                        /\ rec'[pending'[j]] = "empty"
    BY DEF PendingIsLive, Holding
  <2>2. /\ Len(pending') = Len(pending) - k
        /\ \A i \in 1..(Len(pending) - k) : pending'[i] = pending[i + k]
    BY <1>0, DropProperties DEF Wake
  <2>0. /\ Len(pending) \in Nat /\ DOMAIN pending = 1..Len(pending)
         /\ DOMAIN pending' = 1..(Len(pending) - k)
    BY <1>0, <1>1, <2>2, LenProperties
  <2>3. /\ j + k \in DOMAIN pending /\ j + k > k /\ pending'[j] = pending[j + k]
        /\ pending[j + k] \in Calls
    <3>1. j \in 1..(Len(pending) - k)
      BY <2>0, <2>1
    <3>2. j + k \in DOMAIN pending /\ j + k > k
      BY <2>0, <3>1
    <3>3. pending'[j] = pending[j + k]
      BY <2>2, <3>1
    <3>4. pending[j + k] \in Calls
      BY <1>0, <3>2
    <3> QED BY <3>2, <3>3, <3>4
  <2>4. \A i \in 1..k : pending[i] # pending[j + k]
    <3>1. SUFFICES ASSUME NEW i \in 1..k, pending[i] = pending[j + k] PROVE FALSE
      OBVIOUS
    <3>2. i \in DOMAIN pending /\ i < j + k
      BY <1>0, <2>3
    <3>3. seq[pending[i]] \in Nat
      BY <1>0, <3>2
    <3> QED BY <2>3, <3>1, <3>2, <3>3 DEF ListInv, PendingSorted
  <2>5. rec'[pending'[j]] = rec[pending[j + k]]
    BY <1>1, <2>3, <2>4
  <2> QED BY <2>3, <2>5 DEF ListInv, PendingIsLive, Holding
<1>5. TagsInOrder'
  BY DEF ListInv, TagsInOrder
<1>6. HolderIsRegistered'
  BY <1>0, <1>1 DEF ListInv, HolderIsRegistered
<1> QED BY <1>3, <1>4, <1>5, <1>6 DEF ListInv

(* A new registration goes to the end with a tag above all others. *)
LEMMA TakeTagKeepsList ==
  ASSUME TypeOK, ListInv, NEW c \in Calls, TakeTag(c)
  PROVE  ListInv'
<1>0. /\ pc \in [Calls -> Steps] /\ seq \in [Calls -> Nat] /\ pending \in Seq(Calls)
      /\ rec \in [Calls -> {"none", "empty", "ack", "nack", "closed"}]
      /\ published \in Nat /\ lastSeq \in Nat
  BY DEF TypeOK
<1>1. /\ pc[c] = "checked"
      /\ pc' = [pc EXCEPT ![c] = "locked"]
      /\ lastSeq' = published + 1
      /\ seq' = [seq EXCEPT ![c] = published + 1]
      /\ rec' = [rec EXCEPT ![c] = "empty"]
      /\ pending' = Append(pending, c)
      /\ lastSeq = 0 \/ published + 1 > lastSeq
  BY DEF TakeTag, NextTag, TagIsFresh
<1>2. /\ pending' \in Seq(Calls) /\ Len(pending) \in Nat
      /\ DOMAIN pending = 1..Len(pending)
      /\ DOMAIN pending' = 1..(Len(pending) + 1)
      /\ pending'[Len(pending) + 1] = c
      /\ \A i \in DOMAIN pending : pending'[i] = pending[i] /\ pending[i] \in Calls
  BY <1>0, <1>1
<1>3. \A i \in DOMAIN pending : pending[i] # c /\ pc[pending[i]] \in Holding
  BY <1>1 DEF ListInv, PendingIsLive, Holding
<1>4. \A d \in Calls : seq[d] < published + 1
  BY <1>0, <1>1 DEF ListInv, TagsInOrder
<1>5. PendingSorted'
  <2>1. SUFFICES ASSUME NEW i \in DOMAIN pending', NEW j \in DOMAIN pending', i < j
                 PROVE  seq'[pending'[i]] < seq'[pending'[j]]
    BY DEF PendingSorted
  <2>2. i \in DOMAIN pending
    BY <1>2, <2>1
  <2>3. CASE j \in DOMAIN pending
    BY <1>0, <1>1, <1>2, <1>3, <2>1, <2>2, <2>3 DEF ListInv, PendingSorted
  <2>4. CASE j = Len(pending) + 1
    BY <1>0, <1>1, <1>2, <1>3, <1>4, <2>2, <2>4
  <2> QED BY <1>2, <2>3, <2>4
<1>6. PendingIsLive'
  <2>1. SUFFICES ASSUME NEW i \in DOMAIN pending'
                 PROVE  /\ pc'[pending'[i]] \in Holding
                        /\ rec'[pending'[i]] = "empty"
    BY DEF PendingIsLive, Holding
  <2>2. CASE i \in DOMAIN pending
    BY <1>0, <1>1, <1>2, <1>3, <2>2 DEF ListInv, PendingIsLive
  <2>3. CASE i = Len(pending) + 1
    BY <1>0, <1>1, <1>2, <2>3 DEF Holding
  <2> QED BY <1>2, <2>2, <2>3
<1>7. TagsInOrder'
  BY <1>0, <1>1, <1>4 DEF ListInv, TagsInOrder, Holding
<1>8. HolderIsRegistered'
  <2>1. \A d \in Calls : Registered(d) => Registered(d)'
    BY <1>2 DEF Registered
  <2>2. Registered(c)'
    BY <1>2 DEF Registered
  <2> QED BY <1>0, <1>1, <2>1, <2>2 DEF ListInv, HolderIsRegistered, Holding
<1> QED BY <1>5, <1>6, <1>7, <1>8 DEF ListInv

-----------------------------------------------------------------------------
(* Type correctness is kept by every step. *)
LEMMA TypeStep ==
  ASSUME TypeOK, ListInv, Next
  PROVE  TypeOK'
<1> USE ThresholdAssumption, NoCallAssumption DEF TypeOK, Steps, Results
<1>1. ASSUME NEW c \in Calls, Begin(c)          PROVE TypeOK'
  BY <1>1 DEF Begin, MayStart, chanVars, goVars, brokerVars
<1>2. ASSUME NEW c \in Calls, Refuse(c)         PROVE TypeOK'
  BY <1>2 DEF Refuse, MayStart, Return, chanVars, goVars, brokerVars
<1>3. ASSUME NEW c \in Calls, TakeTag(c)        PROVE TypeOK'
  BY <1>3 DEF TakeTag, NextTag, goVars, brokerVars
<1>4. ASSUME NEW c \in Calls, BadTag(c)         PROVE TypeOK'
  BY <1>4 DEF BadTag, Retire, Close, Return, goVars
<1>5. ASSUME NEW c \in Calls, Send(c)           PROVE TypeOK'
  BY <1>5 DEF Send, goVars
<1>6. ASSUME NEW c \in Calls, SendFail(c)       PROVE TypeOK'
  BY <1>6 DEF SendFail, goVars, brokerVars
<1>7. ASSUME NEW c \in Calls, CleanupFailed(c)  PROVE TypeOK'
  <2>1. /\ pending' \in Seq(Calls)
        /\ rec' \in [Calls -> {"none", "empty", "ack", "nack", "closed"}]
    BY <1>7, ForgetIsPrecise DEF CleanupFailed, Holding
  <2> QED BY <1>7, <2>1 DEF CleanupFailed, Retire, Close, Return, goVars
<1>8. ASSUME NEW c \in Calls, RecvAck(c)        PROVE TypeOK'
  BY <1>8 DEF RecvAck, AfterSuccess, Return, goVars, brokerVars
<1>9. ASSUME NEW c \in Calls, RecvNack(c)       PROVE TypeOK'
  BY <1>9 DEF RecvNack, Retire, Close, Return, goVars
<1>10. ASSUME NEW c \in Calls, TimerFires(c)    PROVE TypeOK'
  BY <1>10 DEF TimerFires, goVars, brokerVars
<1>11. ASSUME NEW c \in Calls, TimeoutCleanup(c) PROVE TypeOK'
  <2>1. /\ pending' \in Seq(Calls)
        /\ rec' \in [Calls -> {"none", "empty", "ack", "nack", "closed"}]
    BY <1>11, ForgetIsPrecise DEF TimeoutCleanup, Holding
  <2> QED BY <1>11, <2>1 DEF TimeoutCleanup, KeepOpen, Retire, Close, Return, goVars
<1>12. ASSUME NEW c \in Calls, CtxDone(c)       PROVE TypeOK'
  <2>1. /\ pending' \in Seq(Calls)
        /\ rec' \in [Calls -> {"none", "empty", "ack", "nack", "closed"}]
    BY <1>12, ForgetIsPrecise DEF CtxDone, Holding
  <2> QED BY <1>12, <2>1 DEF CtxDone, Return, goVars, brokerVars
<1>13. ASSUME NEW c \in Calls, SeeClosed(c)     PROVE TypeOK'
  <2>1. /\ pending' \in Seq(Calls)
        /\ rec' \in [Calls -> {"none", "empty", "ack", "nack", "closed"}]
    BY <1>13, ForgetIsPrecise DEF SeeClosed, Holding
  <2> QED BY <1>13, <2>1 DEF SeeClosed, Return, goVars, brokerVars
<1>14. ASSUME NEW c \in Calls, Settle(c)        PROVE TypeOK'
  BY <1>14 DEF Settle, callVars, chanVars, goVars
<1>15. ASSUME RouterListen                      PROVE TypeOK'
  BY <1>15 DEF RouterListen, callVars, chanVars, brokerVars
<1>16. ASSUME DispatchUnheard                   PROVE TypeOK'
  BY <1>16 DEF DispatchUnheard, callVars, chanVars, goVars
<1>17. ASSUME RouterConfirm                     PROVE TypeOK'
  <2>1. PICK c \in Calls, k \in 0..Len(pending) :
          /\ Dispatched(c)
          /\ Wake(k, verdict[c])
          /\ consecTO' = IF k > 0 /\ verdict[c] = "ack" THEN 0 ELSE consecTO
    BY <1>17 DEF RouterConfirm
  <2>2. /\ pending' \in Seq(Calls)
        /\ rec' \in [Calls -> {"none", "empty", "ack", "nack", "closed"}]
    BY <2>1, WakeProperties DEF Dispatched
  <2>3. consecTO' \in Nat
    BY <2>1
  <2>4. /\ routed' = routed + 1
        /\ UNCHANGED <<pc, result, seq, newCnt, mu, closed, broken, closeCh, lastSeq, goVars,
                       chOpen, published, verdict>>
    BY <1>17 DEF RouterConfirm
  <2> QED BY <2>2, <2>3, <2>4 DEF goVars
<1>18. ASSUME RouterExit                        PROVE TypeOK'
  <2>1. /\ pending' \in Seq(Calls)
        /\ rec' \in [Calls -> {"none", "empty", "ack", "nack", "closed"}]
    <3>1. Len(pending) \in 0..Len(pending)
      OBVIOUS
    <3> QED BY <1>18, <3>1, WakeProperties DEF RouterExit, DrainVerdict
  <2> QED BY <1>18, <2>1 DEF RouterExit, brokerVars
<1>19. ASSUME WatchClose                        PROVE TypeOK'
  BY <1>19 DEF WatchClose, Retire, Close, callVars
<1>20. ASSUME WatchStop                         PROVE TypeOK'
  BY <1>20 DEF WatchStop, Close, callVars
<1>21. ASSUME ManagerClose                      PROVE TypeOK'
  BY <1>21 DEF ManagerClose, Close, callVars, goVars
<1>22. ASSUME StopManager                       PROVE TypeOK'
  BY <1>22 DEF StopManager, callVars, chanVars, brokerVars
<1>23. ASSUME Shutdown                          PROVE TypeOK'
  BY <1>23 DEF Shutdown, callVars, chanVars, goVars
<1> QED
  BY <1>1, <1>2, <1>3, <1>4, <1>5, <1>6, <1>7, <1>8, <1>9, <1>10, <1>11, <1>12, <1>13,
     <1>14, <1>15, <1>16, <1>17, <1>18, <1>19, <1>20, <1>21, <1>22, <1>23
  DEF Next, CallStep

(* So is the agreement of the list and the calls. *)
LEMMA ListStep ==
  ASSUME TypeOK, ListInv, Next
  PROVE  ListInv'
<1>0. /\ pc \in [Calls -> Steps] /\ pending \in Seq(Calls)
      /\ \A d \in Calls : Registered(d) => pc[d] \in Holding /\ rec[d] = "empty"
  BY DEF TypeOK, ListInv, PendingIsLive, Registered, Holding
<1>1. ASSUME NEW c \in Calls, Begin(c) \/ Refuse(c) \/ BadTag(c)
      PROVE  ListInv'
  <2>1. UNCHANGED <<seq, rec, pending, lastSeq>>
    BY <1>1 DEF Begin, Refuse, BadTag, chanVars
  <2>2. \A d \in Calls : KeepsSide(d)
    BY <1>0, <1>1 DEF Begin, Refuse, BadTag, MayStart, Return, Holding, KeepsSide
  <2> QED BY <2>1, <2>2, FrameKeepsList
<1>2. ASSUME NEW c \in Calls, TakeTag(c) PROVE ListInv'
  BY <1>2, TakeTagKeepsList
<1>3. ASSUME NEW c \in Calls, Send(c) \/ SendFail(c) \/ TimerFires(c)
      PROVE  ListInv'
  <2>1. UNCHANGED <<seq, rec, pending, lastSeq>>
    BY <1>3 DEF Send, SendFail, TimerFires
  <2>2. \A d \in Calls : KeepsSide(d)
    BY <1>0, <1>3 DEF Send, SendFail, TimerFires, Holding, KeepsSide
  <2> QED BY <2>1, <2>2, FrameKeepsList
<1>4. ASSUME NEW c \in Calls, RecvAck(c) \/ RecvNack(c)
      PROVE  ListInv'
  <2>1. ~Registered(c)
    BY <1>0, <1>4 DEF RecvAck, RecvNack
  <2>2. UNCHANGED <<seq, rec, pending, lastSeq>>
    BY <1>4 DEF RecvAck, RecvNack
  <2>3. \A d \in Calls : KeepsSide(d)
    BY <1>0, <1>4, <2>1 DEF RecvAck, RecvNack, Return, Holding, KeepsSide
  <2> QED BY <2>2, <2>3, FrameKeepsList
<1>5. ASSUME NEW c \in Calls,
             CleanupFailed(c) \/ TimeoutCleanup(c) \/ CtxDone(c) \/ SeeClosed(c)
      PROVE  ListInv'
  BY <1>5, LeavingKeepsList
  DEF CleanupFailed, TimeoutCleanup, CtxDone, SeeClosed, Return, Holding
<1>6. ASSUME RouterConfirm PROVE ListInv'
  <2>1. PICK c \in Calls, k \in 0..Len(pending) : Dispatched(c) /\ Wake(k, verdict[c])
    BY <1>6 DEF RouterConfirm
  <2> QED BY <1>6, <2>1, WakingKeepsList DEF RouterConfirm, Dispatched
<1>7. ASSUME RouterExit PROVE ListInv'
  <2>1. Len(pending) \in 0..Len(pending)
    BY <1>0
  <2> QED BY <1>7, <2>1, WakingKeepsList DEF RouterExit, DrainVerdict
<1>8. ASSUME \/ \E c \in Calls : Settle(c)
             \/ RouterListen \/ DispatchUnheard \/ WatchClose \/ WatchStop
             \/ ManagerClose \/ StopManager \/ Shutdown
      PROVE  ListInv'
  <2>1. UNCHANGED <<pc, seq, rec, pending, lastSeq>>
    BY <1>8 DEF Settle, RouterListen, DispatchUnheard, WatchClose, WatchStop, ManagerClose,
                StopManager, Shutdown, callVars, chanVars
  <2>2. \A d \in Calls : KeepsSide(d)
    BY <2>1 DEF KeepsSide
  <2> QED BY <2>1, <2>2, FrameKeepsList
<1> QED
  BY <1>1, <1>2, <1>3, <1>4, <1>5, <1>6, <1>7, <1>8 DEF Next, CallStep

(* The two together are inductive. *)
LEMMA ListInvariant == Spec => [](TypeOK /\ ListInv)
<1>1. ASSUME Init PROVE TypeOK /\ ListInv
  <2>1. TypeOK
    <3>1. pending \in Seq(Calls) /\ seq \in [Calls -> Nat] /\ newCnt \in [Calls -> Nat]
      BY <1>1, EmptySeq DEF Init
    <3>2. /\ pc \in [Calls -> Steps] /\ result \in [Calls -> Results]
          /\ rec \in [Calls -> {"none", "empty", "ack", "nack", "closed"}]
          /\ verdict \in [Calls -> {"unsent", "none", "ack", "nack"}]
      BY <1>1 DEF Init, Steps, Results
    <3>3. {closed, broken, closeCh, stop, chOpen} \subseteq BOOLEAN
      BY <1>1 DEF Init
    <3>4. /\ mu \in Calls \cup {NoCall}
          /\ consecTO \in Nat /\ lastSeq \in Nat /\ published \in Nat /\ routed \in Nat
          /\ router \in {"starting", "running", "exited"} /\ watch \in {"watching", "done"}
      BY <1>1 DEF Init
    <3> QED BY <3>1, <3>2, <3>3, <3>4 DEF TypeOK
  <2>2. ListInv
    BY <1>1 DEF Init, ListInv, PendingSorted, PendingIsLive, TagsInOrder, HolderIsRegistered,
                Holding
  <2> QED BY <2>1, <2>2
<1>2. TypeOK /\ ListInv /\ [Next]_vars => TypeOK' /\ ListInv'
  <2>1. ASSUME TypeOK, ListInv, Next PROVE TypeOK' /\ ListInv'
    BY <2>1, TypeStep, ListStep
  <2>2. ASSUME TypeOK, ListInv, UNCHANGED vars PROVE TypeOK' /\ ListInv'
    <3>1. TypeOK'
      BY <2>2 DEF TypeOK, vars, callVars, chanVars, goVars, brokerVars
    <3>2. UNCHANGED <<seq, rec, pending, lastSeq>> /\ \A d \in Calls : KeepsSide(d)
      BY <2>2 DEF vars, callVars, chanVars, KeepsSide
    <3>3. ListInv'
      BY <2>2, <3>2, FrameKeepsList
    <3> QED BY <3>1, <3>3
  <2> QED BY <2>1, <2>2
<1> QED BY <1>1, <1>2, PTL DEF Spec

(* Type correctness of the channel, for any number of calls. *)
THEOREM TypeCorrect == Spec => []TypeOK
BY ListInvariant, PTL

(* The pending list is strictly ordered by tag: what ackLE and             *)
(* popTailIfMatch assume.                                                  *)
THEOREM ListIsSorted == Spec => []PendingSorted
<1>1. TypeOK /\ ListInv => PendingSorted
  BY DEF ListInv
<1> QED BY <1>1, ListInvariant, PTL

(* No way out of publishWithConfirm leaves a registration behind. *)
THEOREM RegistrationsAreLive == Spec => []PendingIsLive
<1>1. TypeOK /\ ListInv => PendingIsLive
  BY DEF ListInv
<1> QED BY <1>1, ListInvariant, PTL

(* A waiting caller is woken or still registered; its channel is never     *)
(* closed under it.                                                        *)
THEOREM WaitersAreRegistered == Spec => []WaiterIsRegistered
<1>1. TypeOK /\ ListInv => WaiterIsRegistered
  BY DEF ListInv, HolderIsRegistered, WaiterIsRegistered, Holding
<1> QED BY <1>1, ListInvariant, PTL

-----------------------------------------------------------------------------
(* Somebody is always left to wake a waiter: when the router is gone,      *)
(* closeCh is closed, or the NotifyClose goroutine has a reason to close   *)
(* it.                                                                     *)
CloserRemains ==
  /\ watch = "done" => closeCh
  /\ router = "exited" => closeCh \/ stop \/ ~chOpen

LEMMA CloserStep ==
  ASSUME CloserRemains, Next
  PROVE  CloserRemains'
<1> USE DEF CloserRemains
<1>1. ASSUME NEW c \in Calls, CallStep(c) PROVE CloserRemains'
  <2>1. /\ UNCHANGED <<router, watch, stop>>
        /\ UNCHANGED <<closeCh, chOpen>> \/ closeCh'
    BY <1>1 DEF CallStep, Begin, Refuse, TakeTag, BadTag, Send, SendFail, CleanupFailed, RecvAck,
       RecvNack, TimerFires, TimeoutCleanup, CtxDone, SeeClosed, Retire, Close, KeepOpen, chanVars,
       goVars, brokerVars
  <2> QED BY <2>1
<1>2. ASSUME \/ RouterListen \/ DispatchUnheard \/ RouterConfirm \/ StopManager \/ Shutdown
             \/ \E c \in Calls : Settle(c)
      PROVE  CloserRemains'
  BY <1>2 DEF RouterListen, DispatchUnheard, RouterConfirm, StopManager, Shutdown, Settle,
     chanVars, goVars, brokerVars
<1>3. ASSUME RouterExit PROVE CloserRemains'
  BY <1>3 DEF RouterExit, brokerVars
<1>4. ASSUME WatchClose \/ WatchStop \/ ManagerClose PROVE CloserRemains'
  BY <1>4 DEF WatchClose, WatchStop, ManagerClose, Retire, Close
<1> QED BY <1>1, <1>2, <1>3, <1>4 DEF Next

(* A caller in the select has its verdict, or sees closeCh closed, or its  *)
(* registration is in the list and there is a goroutine to wake it: the    *)
(* router, or, when that has left, the NotifyClose goroutine, which is     *)
(* then about to close closeCh.  So no wake-up is lost, not even of a call *)
(* that registers after the router has drained the list (the safe half of  *)
(* ShutdownWakesWaiters).                                                  *)
THEOREM NoWakeUpLost ==
  Spec => [](\A c \in Calls : pc[c] = "waiting" =>
               \/ rec[c] \in {"ack", "nack"} \/ closeCh
               \/ Registered(c) /\ \/ router # "exited"
                                   \/ watch = "watching" /\ (stop \/ ~chOpen))
<1> DEFINE Wakeable ==
      \A c \in Calls : pc[c] = "waiting" =>
        \/ rec[c] \in {"ack", "nack"} \/ closeCh
        \/ Registered(c) /\ \/ router # "exited"
                            \/ watch = "watching" /\ (stop \/ ~chOpen)
<1>1. Init => CloserRemains
  BY DEF Init, CloserRemains
<1>2. CloserRemains /\ [Next]_vars => CloserRemains'
  <2>1. ASSUME CloserRemains, UNCHANGED vars PROVE CloserRemains'
    BY <2>1 DEF CloserRemains, vars, chanVars, goVars, brokerVars
  <2> QED BY <2>1, CloserStep
<1>3. TypeOK /\ ListInv /\ CloserRemains => Wakeable
  <2> SUFFICES ASSUME TypeOK, ListInv, CloserRemains, NEW c \in Calls, pc[c] = "waiting",
                      ~closeCh, rec[c] \notin {"ack", "nack"}
               PROVE  Registered(c) /\ \/ router # "exited"
                                       \/ watch = "watching" /\ (stop \/ ~chOpen)
    OBVIOUS
  <2>1. rec[c] = "empty" /\ Registered(c)
    BY DEF TypeOK, ListInv, HolderIsRegistered, Holding
  <2>2. watch = "watching" /\ (router = "exited" => stop \/ ~chOpen)
    BY DEF TypeOK, CloserRemains
  <2> QED BY <2>1, <2>2
<1> QED BY <1>1, <1>2, <1>3, ListInvariant, PTL DEF Spec

-----------------------------------------------------------------------------
(* Timeouts in a row retire the channel, whichever resets race with them.  *)
LEMMA RecycleStep ==
  ASSUME TypeOK, TimeoutsRecycle, Next
  PROVE  TimeoutsRecycle'
<1> DEFINE Counting(c) == pc[c] = "timedout" /\ newCnt[c] >= Threshold
<1> USE ThresholdAssumption
<1>0. /\ pc \in [Calls -> Steps] /\ newCnt \in [Calls -> Nat] /\ consecTO \in Nat
      /\ broken \in BOOLEAN
  BY DEF TypeOK
<1>1. ASSUME NEW c \in Calls, TimerFires(c) PROVE TimeoutsRecycle'
  <2>1. /\ pc[c] = "waiting" /\ consecTO' = consecTO + 1 /\ UNCHANGED broken
        /\ newCnt' = [newCnt EXCEPT ![c] = consecTO + 1]
        /\ pc' = [pc EXCEPT ![c] = "timedout"]
    BY <1>1 DEF TimerFires
  <2>2. pc'[c] = "timedout" /\ newCnt'[c] = consecTO'
    BY <1>0, <2>1
  <2> QED BY <1>0, <2>1, <2>2 DEF TimeoutsRecycle
<1>2. ASSUME NEW c \in Calls, TimeoutCleanup(c) PROVE TimeoutsRecycle'
  <2>1. /\ IF AtThreshold(newCnt[c]) THEN Retire ELSE KeepOpen
        /\ pc' = [pc EXCEPT ![c] = "done"]
        /\ newCnt' = [newCnt EXCEPT ![c] = 0]
        /\ UNCHANGED consecTO
    BY <1>2 DEF TimeoutCleanup, Return
  <2>2. CASE AtThreshold(newCnt[c])
    BY <2>1, <2>2 DEF Retire, TimeoutsRecycle
  <2>3. CASE ~AtThreshold(newCnt[c])
    <3>1. UNCHANGED broken
      BY <2>1, <2>3 DEF KeepOpen
    <3>2. Threshold > 0 => ~Counting(c)
      BY <1>0, <2>3 DEF AtThreshold
    <3>3. \A d \in Calls : d # c /\ Counting(d) => Counting(d)'
      BY <1>0, <2>1
    <3> QED BY <1>0, <2>1, <3>1, <3>2, <3>3 DEF TimeoutsRecycle
  <2> QED BY <2>2, <2>3
<1>3. ASSUME NEW c \in Calls,
             Begin(c) \/ Refuse(c) \/ TakeTag(c) \/ BadTag(c) \/ Send(c) \/ SendFail(c)
               \/ CleanupFailed(c) \/ CtxDone(c) \/ SeeClosed(c) \/ RecvAck(c) \/ RecvNack(c)
      PROVE  TimeoutsRecycle'
  <2>1. pc[c] # "timedout" /\ (broken => broken') /\ UNCHANGED newCnt
    BY <1>3 DEF Begin, Refuse, MayStart, TakeTag, BadTag, Send, SendFail, CleanupFailed,
                CtxDone, SeeClosed, RecvAck, RecvNack, Retire, chanVars
  <2>2. \A d \in Calls \ {c} : pc'[d] = pc[d]
    BY <1>0, <1>3 DEF Begin, Refuse, TakeTag, BadTag, Send, SendFail, CleanupFailed,
                      CtxDone, SeeClosed, RecvAck, RecvNack, Return
  <2>3. consecTO' = consecTO \/ consecTO' = 0
    BY <1>3 DEF Begin, Refuse, TakeTag, BadTag, Send, SendFail, CleanupFailed,
                CtxDone, SeeClosed, RecvAck, RecvNack, AfterSuccess, chanVars
  <2>4. \A d \in Calls : Counting(d) => Counting(d)'
    BY <2>1, <2>2
  <2> QED BY <1>0, <2>1, <2>3, <2>4 DEF TimeoutsRecycle
<1>4. ASSUME \/ \E c \in Calls : Settle(c)
             \/ RouterListen \/ DispatchUnheard \/ RouterConfirm \/ RouterExit
             \/ WatchClose \/ WatchStop \/ ManagerClose \/ StopManager \/ Shutdown
      PROVE  TimeoutsRecycle'
  <2>1. UNCHANGED <<pc, newCnt>> /\ (broken => broken')
    BY <1>4 DEF Settle, RouterListen, DispatchUnheard, RouterConfirm, RouterExit, WatchClose,
                WatchStop, ManagerClose, StopManager, Shutdown, Retire, callVars, chanVars
  <2>2. consecTO' = consecTO \/ consecTO' = 0
    BY <1>4 DEF Settle, RouterListen, DispatchUnheard, RouterConfirm, RouterExit, WatchClose,
                WatchStop, ManagerClose, StopManager, Shutdown, chanVars
  <2> QED BY <1>0, <2>1, <2>2 DEF TimeoutsRecycle
<1> QED
  BY <1>1, <1>2, <1>3, <1>4 DEF Next, CallStep

(* ConsecutiveTimeoutThreshold does what it is for, however the calls, the *)
(* router and the resets interleave.                                       *)
THEOREM TimeoutsRecycleAlways == Spec => []TimeoutsRecycle
<1>1. Init => TimeoutsRecycle
  BY ThresholdAssumption DEF Init, TimeoutsRecycle
<1>2. TypeOK /\ TimeoutsRecycle /\ [Next]_vars => TimeoutsRecycle'
  <2>1. ASSUME TypeOK, TimeoutsRecycle, UNCHANGED vars PROVE TimeoutsRecycle'
    BY <2>1 DEF TimeoutsRecycle, vars, callVars, chanVars
  <2> QED BY <2>1, RecycleStep
<1> QED BY <1>1, <1>2, TypeCorrect, PTL DEF Spec

-----------------------------------------------------------------------------
(* What calls have been told, against what became of their messages. *)

Bookkeeping ==
  /\ \A c \in Calls : pc[c] # "done" => result[c] = "none"
  /\ \A c \in Calls : pc[c] \in {"idle", "checked", "locked", "sendfailed"} =>
                      verdict[c] = "unsent"
  /\ \A c \in Calls : pc[c] \in {"waiting", "timedout"} => verdict[c] # "unsent"
  /\ broken => ~chOpen

OneAtATime      == \A c, d \in Calls : InProgress(c) /\ InProgress(d) => c = d
NewestTagIsMine == \A c \in Calls : pc[c] \in Holding => seq[c] = lastSeq

AcksAreTrue ==
  \A c \in Calls : rec[c] = "ack" \/ result[c] = "ok" => verdict[c] = "ack"

LEMMA BookStep ==
  ASSUME TypeOK, ListInv, Bookkeeping, Next
  PROVE  Bookkeeping'
<1>0. /\ pc \in [Calls -> Steps] /\ result \in [Calls -> Results]
      /\ verdict \in [Calls -> {"unsent", "none", "ack", "nack"}]
  BY DEF TypeOK
<1>1. ASSUME NEW c \in Calls, Begin(c) \/ TakeTag(c) \/ SendFail(c) \/ TimerFires(c)
      PROVE  Bookkeeping'
  BY <1>0, <1>1
  DEF Begin, MayStart, TakeTag, SendFail, TimerFires, Bookkeeping, chanVars, brokerVars
<1>2. ASSUME NEW c \in Calls, Send(c) PROVE Bookkeeping'
  BY <1>0, <1>2 DEF Send, Bookkeeping
<1>3. ASSUME NEW c \in Calls,
             Refuse(c) \/ RecvAck(c) \/ CtxDone(c) \/ SeeClosed(c)
      PROVE  Bookkeeping'
  BY <1>0, <1>3
  DEF Refuse, RecvAck, CtxDone, SeeClosed, Return, Bookkeeping, chanVars, brokerVars
<1>4. ASSUME NEW c \in Calls, BadTag(c) \/ CleanupFailed(c) \/ RecvNack(c)
      PROVE  Bookkeeping'
  BY <1>0, <1>4 DEF BadTag, CleanupFailed, RecvNack, Retire, Close, Return, Bookkeeping
<1>5. ASSUME NEW c \in Calls, TimeoutCleanup(c) PROVE Bookkeeping'
  <2>1. broken' => ~chOpen'
    BY <1>5 DEF TimeoutCleanup, Retire, Close, KeepOpen, Bookkeeping
  <2> QED BY <1>0, <1>5, <2>1 DEF TimeoutCleanup, Return, Bookkeeping
<1>6. ASSUME NEW c \in Calls, Settle(c) PROVE Bookkeeping'
  BY <1>0, <1>6 DEF Settle, Bookkeeping, callVars, chanVars
<1>7. ASSUME \/ RouterListen \/ DispatchUnheard \/ RouterConfirm \/ RouterExit
             \/ WatchClose \/ WatchStop \/ ManagerClose \/ StopManager \/ Shutdown
      PROVE  Bookkeeping'
  <2>1. UNCHANGED <<pc, result, verdict>>
    BY <1>7 DEF RouterListen, DispatchUnheard, RouterConfirm, RouterExit, WatchClose,
                WatchStop, ManagerClose, StopManager, Shutdown, callVars, brokerVars
  <2>2. broken' => ~chOpen'
    BY <1>7 DEF RouterListen, DispatchUnheard, RouterConfirm, RouterExit, WatchClose,
                WatchStop, ManagerClose, StopManager, Shutdown, Retire, Close, Bookkeeping,
                chanVars, brokerVars
  <2> QED BY <2>1, <2>2 DEF Bookkeeping
<1> QED
  BY <1>1, <1>2, <1>3, <1>4, <1>5, <1>6, <1>7 DEF Next, CallStep

(* The pool's use of the channel: one call at a time, so the call at work  *)
(* has the newest tag.                                                     *)
LEMMA ExclusiveStep ==
  ASSUME Exclusive, TypeOK, OneAtATime, NewestTagIsMine, Next
  PROVE  OneAtATime' /\ NewestTagIsMine'
<1>0. pc \in [Calls -> Steps] /\ seq \in [Calls -> Nat]
  BY DEF TypeOK
<1>1. ASSUME NEW c \in Calls, Begin(c) PROVE OneAtATime' /\ NewestTagIsMine'
  BY <1>0, <1>1 DEF Begin, MayStart, InProgress, OneAtATime, NewestTagIsMine, Holding, chanVars
<1>2. ASSUME NEW c \in Calls, TakeTag(c) PROVE OneAtATime' /\ NewestTagIsMine'
  <2>1. OneAtATime'
    BY <1>0, <1>2 DEF TakeTag, InProgress, OneAtATime
  <2>2. \A d \in Calls \ {c} : pc'[d] \notin Holding
    BY <1>0, <1>2 DEF TakeTag, InProgress, OneAtATime, Holding
  <2> QED BY <1>0, <1>2, <2>1, <2>2 DEF TakeTag, NewestTagIsMine
<1>3. ASSUME NEW c \in Calls,
             \/ Refuse(c) \/ BadTag(c) \/ Send(c) \/ SendFail(c) \/ CleanupFailed(c)
             \/ RecvAck(c) \/ RecvNack(c) \/ TimerFires(c) \/ TimeoutCleanup(c)
             \/ CtxDone(c) \/ SeeClosed(c)
      PROVE  OneAtATime' /\ NewestTagIsMine'
  <2>1. /\ UNCHANGED <<seq, lastSeq>>
        /\ pc'[c] = "done" \/ (InProgress(c) /\ pc'[c] \in Holding /\ pc[c] \in Holding)
        /\ \A d \in Calls \ {c} : pc'[d] = pc[d]
    BY <1>0, <1>3 DEF Refuse, BadTag, Send, SendFail, CleanupFailed, RecvAck, RecvNack,
       TimerFires, TimeoutCleanup, CtxDone, SeeClosed, Return, InProgress, Holding, chanVars
  <2> QED BY <2>1 DEF InProgress, OneAtATime, NewestTagIsMine, Holding
<1>4. ASSUME \/ \E c \in Calls : Settle(c)
             \/ RouterListen \/ DispatchUnheard \/ RouterConfirm \/ RouterExit
             \/ WatchClose \/ WatchStop \/ ManagerClose \/ StopManager \/ Shutdown
      PROVE  OneAtATime' /\ NewestTagIsMine'
  <2>1. UNCHANGED <<pc, seq, lastSeq>>
    BY <1>4 DEF Settle, RouterListen, DispatchUnheard, RouterConfirm, RouterExit, WatchClose,
                WatchStop, ManagerClose, StopManager, Shutdown, callVars, chanVars
  <2> QED BY <2>1 DEF InProgress, OneAtATime, NewestTagIsMine
<1> QED
  BY <1>1, <1>2, <1>3, <1>4 DEF Next, CallStep

(* Under it an ack is only ever buffered for the call whose message the    *)
(* broker acked: the calls ackLE(n) wakes have tags up to n, the one at    *)
(* work has the newest tag of all, and n belongs to a published message.   *)
LEMMA AckStep ==
  ASSUME Exclusive, TypeOK, ListInv, Bookkeeping, OneAtATime, NewestTagIsMine, AcksAreTrue, Next
  PROVE  AcksAreTrue'
<1>0. /\ pc \in [Calls -> Steps] /\ result \in [Calls -> Results] /\ seq \in [Calls -> Nat]
      /\ rec \in [Calls -> {"none", "empty", "ack", "nack", "closed"}]
      /\ verdict \in [Calls -> {"unsent", "none", "ack", "nack"}]
      /\ pending \in Seq(Calls) /\ routed \in Nat /\ lastSeq \in Nat
  BY DEF TypeOK
<1>1. ASSUME NEW c \in Calls, Begin(c) \/ SendFail(c) \/ TimerFires(c) PROVE AcksAreTrue'
  BY <1>1 DEF Begin, SendFail, TimerFires, AcksAreTrue, brokerVars
<1>2. ASSUME NEW c \in Calls, TakeTag(c) PROVE AcksAreTrue'
  BY <1>0, <1>2 DEF TakeTag, AcksAreTrue, brokerVars
<1>3. ASSUME NEW c \in Calls, Send(c) PROVE AcksAreTrue'
  BY <1>0, <1>3 DEF Send, AcksAreTrue, Bookkeeping
<1>4. ASSUME NEW c \in Calls, Refuse(c) \/ BadTag(c) \/ RecvAck(c) \/ RecvNack(c)
      PROVE  AcksAreTrue'
  BY <1>0, <1>4 DEF Refuse, BadTag, RecvAck, RecvNack, Return, AcksAreTrue, brokerVars
<1>5. ASSUME NEW c \in Calls,
             CleanupFailed(c) \/ TimeoutCleanup(c) \/ CtxDone(c) \/ SeeClosed(c)
      PROVE  AcksAreTrue'
  <2>1. Forget(c) /\ pc[c] \in Holding
    BY <1>5 DEF CleanupFailed, TimeoutCleanup, CtxDone, SeeClosed, Holding
  <2>2. \A d \in Calls : rec'[d] \in {rec[d], "closed"}
    BY <2>1, ForgetIsPrecise
  <2>3. UNCHANGED verdict /\ \A d \in Calls : result'[d] = "ok" => result[d] = "ok"
    BY <1>0, <1>5 DEF CleanupFailed, TimeoutCleanup, CtxDone, SeeClosed, Return, brokerVars
  <2> QED BY <2>2, <2>3 DEF AcksAreTrue
<1>6. ASSUME NEW c \in Calls, Settle(c) PROVE AcksAreTrue'
  BY <1>0, <1>6 DEF Settle, AcksAreTrue, callVars
<1>7. ASSUME RouterConfirm PROVE AcksAreTrue'
  <2>1. PICK c \in Calls, k \in 0..Len(pending) :
          Dispatched(c) /\ IsPrefixLE(k, routed + 1) /\ Wake(k, verdict[c])
    BY <1>7 DEF RouterConfirm
  <2>2. \A d \in Calls : /\ rec'[d] \in {rec[d], verdict[c]}
                         /\ rec'[d] # rec[d] => \E i \in 1..k : pending[i] = d
    BY <2>1, WakeProperties DEF Dispatched
  <2>3. \A i \in 1..k : pending[i] = c
    <3>1. SUFFICES ASSUME NEW i \in 1..k PROVE pending[i] = c
      OBVIOUS
    <3>2. i \in DOMAIN pending /\ pending[i] \in Calls
      BY <1>0, LenProperties
    <3>3. seq[pending[i]] = lastSeq /\ seq[pending[i]] > 0
      BY <3>2 DEF ListInv, PendingIsLive, TagsInOrder, NewestTagIsMine, Holding
    <3>4. seq[pending[i]] <= routed + 1 /\ seq[c] = routed + 1 /\ seq[c] <= lastSeq
      BY <2>1 DEF IsPrefixLE, Dispatched, ListInv, TagsInOrder
    <3>5. seq[pending[i]] = seq[c]
      BY <1>0, <3>2, <3>3, <3>4
    <3> QED BY <3>2, <3>3, <3>5 DEF ListInv, TagsInOrder
  <2>4. UNCHANGED <<result, verdict>>
    BY <1>7 DEF RouterConfirm
  <2>5. ASSUME NEW d \in Calls, rec'[d] = "ack" PROVE verdict[d] = "ack"
    <3>1. CASE rec'[d] = rec[d]
      BY <2>5, <3>1 DEF AcksAreTrue
    <3>2. CASE rec'[d] # rec[d]
      <4>1. d = c
        BY <2>2, <2>3, <2>5, <3>2
      <4>2. rec'[d] = verdict[c]
        BY <2>2, <2>5, <3>2
      <4> QED BY <2>5, <4>1, <4>2
    <3> QED BY <3>1, <3>2
  <2> QED BY <2>4, <2>5 DEF AcksAreTrue
<1>8. ASSUME RouterExit PROVE AcksAreTrue'
  <2>1. Len(pending) \in 0..Len(pending)
    BY <1>0
  <2>2. \A d \in Calls : rec'[d] \in {rec[d], "nack"}
    BY <1>8, <2>1, WakeProperties DEF RouterExit, DrainVerdict
  <2> QED BY <1>8, <2>2 DEF RouterExit, AcksAreTrue, brokerVars
<1>9. ASSUME \/ RouterListen \/ DispatchUnheard \/ WatchClose \/ WatchStop
             \/ ManagerClose \/ StopManager \/ Shutdown
      PROVE  AcksAreTrue'
  BY <1>9 DEF RouterListen, DispatchUnheard, WatchClose, WatchStop, ManagerClose,
              StopManager, Shutdown, AcksAreTrue, callVars, brokerVars
<1> QED
  BY <1>1, <1>2, <1>3, <1>4, <1>5, <1>6, <1>7, <1>8, <1>9 DEF Next, CallStep

ExclusiveInv == OneAtATime /\ NewestTagIsMine /\ AcksAreTrue

LEMMA BookInvariant == Spec => []Bookkeeping
<1>1. Init => Bookkeeping
  BY DEF Init, Bookkeeping
<1>2. TypeOK /\ ListInv /\ Bookkeeping /\ [Next]_vars => Bookkeeping'
  <2>1. ASSUME Bookkeeping, UNCHANGED vars PROVE Bookkeeping'
    BY <2>1 DEF Bookkeeping, vars, callVars, brokerVars, chanVars
  <2> QED BY <2>1, BookStep
<1> QED BY <1>1, <1>2, ListInvariant, PTL DEF Spec

LEMMA ExclusiveInvariant == Exclusive => (Spec => []ExclusiveInv)
<1> SUFFICES ASSUME Exclusive PROVE Spec => []ExclusiveInv
  OBVIOUS
<1>1. Init => ExclusiveInv
  BY DEF Init, ExclusiveInv, OneAtATime, NewestTagIsMine, AcksAreTrue, InProgress, Holding
<1>2. TypeOK /\ ListInv /\ Bookkeeping /\ ExclusiveInv /\ [Next]_vars => ExclusiveInv'
  <2>1. ASSUME ExclusiveInv, UNCHANGED vars PROVE ExclusiveInv'
    BY <2>1 DEF ExclusiveInv, OneAtATime, NewestTagIsMine, AcksAreTrue, InProgress,
                vars, callVars, brokerVars, chanVars
  <2> QED BY <2>1, ExclusiveStep, AckStep DEF ExclusiveInv
<1> QED BY <1>1, <1>2, ListInvariant, BookInvariant, PTL DEF Spec

(* Publish returns nil only for a message the broker acked: never on a     *)
(* late ack of an earlier message, never on the drain at shutdown.         *)
THEOREM NilMeansAcked == Spec => []OkMeansAcked
<1>1. CASE Exclusive
  <2>1. ExclusiveInv => OkMeansAcked
    BY DEF ExclusiveInv, AcksAreTrue, OkMeansAcked
  <2>2. Spec => []ExclusiveInv
    BY <1>1, ExclusiveInvariant
  <2> QED BY <2>1, <2>2, PTL
<1>2. CASE ~Exclusive
  <2>1. OkMeansAcked
    BY <1>2 DEF OkMeansAcked
  <2> QED BY <2>1, PTL
<1> QED BY <1>1, <1>2

-----------------------------------------------------------------------------
(* The channel implements PublishContract. *)

status == [c \in Calls |-> Told(c)]

(* A step that touches only call c changes only c's status. *)
LEMMA OnlyMyStatus ==
  ASSUME NEW c \in Calls,
         \A d \in Calls \ {c} : result'[d] = result[d] /\ verdict'[d] = verdict[d]
  PROVE  status' = [status EXCEPT ![c] = Told(c)']
<1>1. \A d \in Calls \ {c} : Told(d)' = Told(d)
  BY DEF Told
<1> QED BY <1>1 DEF status

(* Where a call stands, in the contract's words. *)
LEMMA ToldByPlace ==
  ASSUME TypeOK, Bookkeeping, NEW c \in Calls
  PROVE  /\ pc[c] \in {"idle", "checked", "locked", "sendfailed"} => Told(c) = "new"
         /\ pc[c] \in {"waiting", "timedout"} => Told(c) = "sent"
  BY DEF TypeOK, Bookkeeping, Told

LEMMA ContractStep ==
  ASSUME Exclusive, TypeOK, Bookkeeping, ExclusiveInv, Next
  PROVE  Contract!Next \/ UNCHANGED Contract!vars
<1>0. /\ result \in [Calls -> Results]
      /\ verdict \in [Calls -> {"unsent", "none", "ack", "nack"}]
      /\ broken \in BOOLEAN
  BY DEF TypeOK
<1> USE DEF status
<1>1. ASSUME NEW c \in Calls, Begin(c) \/ TakeTag(c) \/ SendFail(c) \/ TimerFires(c)
      PROVE  UNCHANGED Contract!vars
  <2>1. UNCHANGED <<result, verdict, broken>>
    BY <1>1 DEF Begin, TakeTag, SendFail, TimerFires, chanVars, brokerVars
  <2> QED BY <2>1 DEF Contract!vars, Told
<1>2. ASSUME NEW c \in Calls, Send(c) PROVE Contract!Send(c)
  <2>1. /\ pc[c] = "locked" /\ chOpen /\ UNCHANGED <<result, broken>>
        /\ verdict' = [verdict EXCEPT ![c] = "none"]
    BY <1>2 DEF Send
  <2>2. Told(c) = "new" /\ ~broken /\ result[c] = "none"
    BY <2>1, ToldByPlace DEF Bookkeeping
  <2>3. Told(c)' = "sent"
    BY <1>0, <2>1, <2>2 DEF Told
  <2>4. status' = [status EXCEPT ![c] = "sent"]
    BY <1>0, <2>1, <2>3, OnlyMyStatus
  <2> QED BY <2>1, <2>2, <2>4 DEF Contract!Send
<1>3. ASSUME NEW c \in Calls, RecvAck(c) PROVE Contract!Confirm(c)
  <2>1. /\ pc[c] = "waiting" /\ rec[c] = "ack" /\ UNCHANGED <<verdict, broken>>
        /\ result' = [result EXCEPT ![c] = "ok"]
    BY <1>3 DEF RecvAck, Return, brokerVars
  <2>2. Told(c) = "sent" /\ verdict[c] = "ack"
    BY <2>1, ToldByPlace DEF ExclusiveInv, AcksAreTrue
  <2>3. Told(c)' = "confirmed"
    BY <1>0, <2>1 DEF Told
  <2>4. status' = [status EXCEPT ![c] = "confirmed"]
    BY <1>0, <2>1, <2>3, OnlyMyStatus
  <2> QED BY <2>1, <2>2, <2>4 DEF Contract!Confirm
<1>4. ASSUME NEW c \in Calls, BadTag(c) \/ CleanupFailed(c) \/ RecvNack(c)
      PROVE  Contract!Reject(c)
  <2>1. /\ pc[c] \in {"checked", "sendfailed", "waiting"} /\ UNCHANGED verdict /\ broken' = TRUE
        /\ \E r \in {"reset", "failed", "nack"} : result' = [result EXCEPT ![c] = r]
    BY <1>4 DEF BadTag, CleanupFailed, RecvNack, Retire, Return
  <2>2. Told(c) \in {"new", "sent"}
    BY <2>1, ToldByPlace
  <2>3. Told(c)' = "rejected"
    BY <1>0, <2>1 DEF Told
  <2>4. status' = [status EXCEPT ![c] = "rejected"]
    BY <1>0, <2>1, <2>3, OnlyMyStatus
  <2> QED BY <2>1, <2>2, <2>4 DEF Contract!Reject
<1>5. ASSUME NEW c \in Calls,
             Refuse(c) \/ TimeoutCleanup(c) \/ CtxDone(c) \/ SeeClosed(c)
      PROVE  Contract!GiveUp(c)
  <2>1. /\ pc[c] \in {"idle", "waiting", "timedout"} /\ UNCHANGED verdict
        /\ broken' \in {broken, TRUE}
        /\ \E r \in {"closed", "timeout", "cancelled"} : result' = [result EXCEPT ![c] = r]
    BY <1>5 DEF Refuse, MayStart, TimeoutCleanup, CtxDone, SeeClosed, Retire, KeepOpen, Return,
                chanVars, brokerVars
  <2>2. Told(c) \in {"new", "sent"}
    BY <2>1, ToldByPlace
  <2>3. Told(c)' = "unknown"
    BY <1>0, <2>1 DEF Told
  <2>4. status' = [status EXCEPT ![c] = "unknown"]
    BY <1>0, <2>1, <2>3, OnlyMyStatus
  <2> QED BY <2>1, <2>2, <2>4 DEF Contract!GiveUp
<1>6. ASSUME NEW c \in Calls, Settle(c) PROVE Contract!Settle(c)
  <2>1. /\ verdict[c] = "none" /\ UNCHANGED <<result, broken>>
        /\ \E v \in {"ack", "nack"} : verdict' = [verdict EXCEPT ![c] = v]
    BY <1>6 DEF Settle, callVars, chanVars
  <2>2. Told(c)' = Told(c)
    BY <1>0, <2>1 DEF Told
  <2>3. status' = status
    <3>1. status' = [status EXCEPT ![c] = Told(c)]
      BY <1>0, <2>1, <2>2, OnlyMyStatus
    <3> QED BY <3>1
  <2> QED BY <2>1, <2>3 DEF Contract!Settle
<1>7. ASSUME WatchClose PROVE Contract!Retire
  BY <1>7 DEF WatchClose, Retire, Contract!Retire, Told, callVars
<1>8. ASSUME \/ RouterListen \/ DispatchUnheard \/ RouterConfirm \/ RouterExit
             \/ WatchStop \/ ManagerClose \/ StopManager \/ Shutdown
      PROVE  UNCHANGED Contract!vars
  <2>1. UNCHANGED <<result, verdict, broken>>
    BY <1>8 DEF RouterListen, DispatchUnheard, RouterConfirm, RouterExit, WatchStop,
                ManagerClose, StopManager, Shutdown, callVars, chanVars, brokerVars
  <2> QED BY <2>1 DEF Contract!vars, Told
<1> QED
  BY <1>1, <1>2, <1>3, <1>4, <1>5, <1>6, <1>7, <1>8 DEF Next, CallStep, Contract!Next

(* Used by one call at a time, as the pool does, the channel keeps the     *)
(* contract: nil only for acked messages, and nothing is sent on it after  *)
(* a call was refused.                                                     *)
THEOREM ContractIsKept == Exclusive => (Spec => KeepsContract)
<1> SUFFICES ASSUME Exclusive PROVE Spec => KeepsContract
  OBVIOUS
<1>1. Init => Contract!Init
  BY DEF Init, Contract!Init, Told
<1>2. TypeOK /\ Bookkeeping /\ ExclusiveInv /\ [Next]_vars => [Contract!Next]_Contract!vars
  <2>1. ASSUME UNCHANGED vars PROVE UNCHANGED Contract!vars
    BY <2>1 DEF vars, callVars, chanVars, brokerVars, Contract!vars, Told
  <2> QED BY <2>1, ContractStep
<1>3. Spec => []ExclusiveInv
  BY ExclusiveInvariant
<1> QED BY <1>1, <1>2, <1>3, TypeCorrect, BookInvariant, PTL DEF Spec, KeepsContract, Contract!Spec
-----------------------------------------------------------------------------
(* The channel as the pool sees it. *)

(* Both flags only ever go up. *)
LEMMA FlagsGoUp ==
  ASSUME TypeOK, Next
  PROVE  Life' = Life \/ (Life = "live" /\ Life' = "dead")
<1>1. closed \in BOOLEAN /\ broken \in BOOLEAN
  BY DEF TypeOK
<1>2. UNCHANGED <<closed, broken>> \/ closed'
  BY DEF Next, CallStep, Begin, Refuse, TakeTag, BadTag, Send, SendFail, CleanupFailed, RecvAck,
         RecvNack, TimerFires, TimeoutCleanup, CtxDone, SeeClosed, Settle, RouterListen,
         DispatchUnheard, RouterConfirm, RouterExit, WatchClose, WatchStop, ManagerClose,
         StopManager, Shutdown, Retire, Close, KeepOpen, chanVars
<1> QED BY <1>1, <1>2 DEF Life

(* A call that is under way stays inside, or leaves the channel empty.       *)
LEMMA UseStep ==
  ASSUME Exclusive, TypeOK, OneAtATime, Next
  PROVE  Use!Next \/ UNCHANGED Use!useVars
<1>0. pc \in [Calls -> Steps]
  BY DEF TypeOK
<1>1. ASSUME UNCHANGED Inside PROVE Use!Next \/ UNCHANGED Use!useVars
  <2>1. Life' = Life => UNCHANGED Use!useVars
    BY <1>1 DEF Use!useVars
  <2>2. Life = "live" /\ Life' = "dead" => Use!Dies
    BY <1>1 DEF Use!Dies
  <2> QED BY <2>1, <2>2, FlagsGoUp DEF Use!Next
<1>2. ASSUME NEW c \in Calls, Begin(c) PROVE Use!Next
  <2>1. Inside = {} /\ Inside' = {c}
    BY <1>0, <1>2 DEF Begin, MayStart, Inside, InProgress
  <2>2. Life = "live" /\ Life' = Life
    BY <1>2 DEF Begin, Life, chanVars
  <2> QED BY <2>1, <2>2 DEF Use!Next, Use!Enters
<1>3. ASSUME NEW c \in Calls, InProgress(c), pc' = [pc EXCEPT ![c] = "done"] PROVE Use!Next
  <2>1. Inside = {c} /\ Inside' = {}
    BY <1>0, <1>3 DEF OneAtATime, Inside, InProgress
  <2>2. Life' \in {Life, "dead"}
    BY FlagsGoUp
  <2> QED BY <2>1, <2>2 DEF Use!Next, Use!Leaves
<1>4. ASSUME NEW c \in Calls, TakeTag(c) \/ Send(c) \/ SendFail(c) \/ TimerFires(c)
      PROVE  UNCHANGED Inside
  <2>1. PICK to \in {"locked", "waiting", "sendfailed", "timedout"} :
          InProgress(c) /\ pc' = [pc EXCEPT ![c] = to]
    BY <1>4 DEF TakeTag, Send, SendFail, TimerFires, InProgress
  <2> QED BY <1>0, <2>1 DEF Inside, InProgress
<1>5. ASSUME NEW c \in Calls, Refuse(c) PROVE UNCHANGED Inside
  BY <1>0, <1>5 DEF Refuse, MayStart, Return, Inside, InProgress
<1>6. ASSUME NEW c \in Calls,
             \/ BadTag(c) \/ CleanupFailed(c) \/ RecvAck(c) \/ RecvNack(c)
             \/ TimeoutCleanup(c) \/ CtxDone(c) \/ SeeClosed(c)
      PROVE  Use!Next
  <2>1. InProgress(c) /\ pc' = [pc EXCEPT ![c] = "done"]
    BY <1>6 DEF BadTag, CleanupFailed, RecvAck, RecvNack, TimeoutCleanup, CtxDone, SeeClosed,
                Return, InProgress
  <2> QED BY <1>3, <2>1
<1>7. ASSUME \/ \E c \in Calls : Settle(c)
             \/ RouterListen \/ DispatchUnheard \/ RouterConfirm \/ RouterExit
             \/ WatchClose \/ WatchStop \/ ManagerClose \/ StopManager \/ Shutdown
      PROVE  UNCHANGED Inside
  <2>1. UNCHANGED pc
    BY <1>7 DEF Settle, RouterListen, DispatchUnheard, RouterConfirm, RouterExit, WatchClose,
                WatchStop, ManagerClose, StopManager, Shutdown, callVars
  <2> QED BY <2>1 DEF Inside, InProgress
<1> QED BY <1>1, <1>2, <1>4, <1>5, <1>6, <1>7 DEF Next, CallStep

(* Used by one caller at a time, a channel is to the pool what ProducerPool  *)
(* takes it for: a call ends with the channel dead or as it was, it may die  *)
(* at any time, and no late step of a call or goroutine revives it.          *)
THEOREM ChannelIsAsThePoolSees == Exclusive => (Spec => UsedAsAgreed)
<1> SUFFICES ASSUME Exclusive PROVE Spec => UsedAsAgreed
  OBVIOUS
<1>1. Init => Use!Init
  BY DEF Init, Use!Init, Life, Inside, InProgress
<1>2. TypeOK /\ OneAtATime /\ [Next]_vars => [Use!Next]_Use!useVars
  <2>1. ASSUME UNCHANGED vars PROVE UNCHANGED Use!useVars
    BY <2>1 DEF vars, callVars, chanVars, Use!useVars, Life, Inside, InProgress
  <2> QED BY <2>1, UseStep
<1>3. Spec => []OneAtATime
  <2>1. ExclusiveInv => OneAtATime
    BY DEF ExclusiveInv
  <2> QED BY <2>1, ExclusiveInvariant, PTL
<1> QED BY <1>1, <1>2, <1>3, TypeCorrect, PTL DEF Spec, UsedAsAgreed, Use!Spec
=============================================================================
