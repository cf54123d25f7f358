--------------------------- MODULE ProducerPool_proofs ---------------------------
(***************************************************************************)
(* Proofs about ProducerPool, for any number of publishers, connections    *)
(* and pooled channels.                                                    *)
(*                                                                         *)
(* The inductive invariant places every channel: the pool, the watcher's   *)
(* slice and the publishers' hands are disjoint (Places), a channel that   *)
(* was never created is in none of them (Unborn), and the watcher's place  *)
(* says what it is working on (WatcherPlace).  Unborn is what makes the    *)
(* channels refreshPool creates different from all that are in use.        *)
(***************************************************************************)
EXTENDS ProducerPool, DataLemmas, FiniteSetTheorems

InHand == {"holding", "publishing", "returning", "putting", "putwait"}

Used == Range(pool) \cup Range(created)

Places ==
  /\ Injective(pool) /\ Injective(created)
  /\ Range(pool) \cap Range(created) = {}
  /\ \A p \in Publishers : held[p] \notin Used
  /\ \A p, q \in Publishers : p # q /\ held[p] # None => held[p] # held[q]
  /\ \A p \in Publishers : held[p] # None <=> pc[p] \in InHand

Unborn ==
  /\ \A x \in Used : chan[x] # "new"
  /\ \A p \in Publishers : held[p] # None => chan[held[p]] # "new"
  /\ \A x \in Channels : connState[ConnOf(x)] = "new" => chan[x] = "new"

WatcherPlace ==
  /\ wpc # "filling" => created = <<>>
  /\ wpc \in {"locking", "draining", "filling", "watching"} => wconn \in Conns
  /\ wpc \in {"locking", "draining"} =>
       /\ connState[wconn] # "new"
       /\ \A x \in Channels : ConnOf(x) = wconn => chan[x] = "new"

Counted == inflight = Cardinality({p \in Publishers : pc[p] = "publishing"})

IInv == TypeOK /\ Places /\ Unborn /\ WatcherPlace /\ Counted

-----------------------------------------------------------------------------
(* Steps of a publisher: they leave the connections and the watcher alone. *)

(* A move that keeps the channels and whatever the publisher has in hand. *)
LEMMA MoveKeepsInv ==
  ASSUME IInv, NEW p \in Publishers, NEW to \in InHand \cup {"idle", "getting"},
         pc' = [pc EXCEPT ![p] = to], pc[p] \in InHand <=> to \in InHand,
         UNCHANGED <<conn, connState, chan, pool, held, wpc, wconn, created, cpc, mClosed, poolMu>>,
         inflight' \in Nat /\ Counted'
  PROVE  IInv'
<1>1. TypeOK'
  BY DEF IInv, TypeOK, InHand
<1>2. Places'
  BY DEF IInv, Places, TypeOK, Used
<1>3. Unborn'
  BY DEF IInv, Unborn, Used
<1>4. WatcherPlace'
  BY DEF IInv, WatcherPlace
<1> QED BY <1>1, <1>2, <1>3, <1>4 DEF IInv

(* inflight follows the publishers in publishWithConfirm: most steps leave *)
(* both alone ...                                                          *)
LEMMA CountStays ==
  ASSUME IInv, inflight' = inflight,
         \A q \in Publishers : pc'[q] = "publishing" <=> pc[q] = "publishing"
  PROVE  Counted'
BY DEF IInv, Counted

(* ... PubEnter adds one to both ...                                       *)
LEMMA CountEnter ==
  ASSUME IInv, NEW p \in Publishers, pc[p] # "publishing",
         pc' = [pc EXCEPT ![p] = "publishing"], inflight' = inflight + 1
  PROVE  Counted' /\ inflight' \in Nat
<1> DEFINE B  == {q \in Publishers : pc[q] = "publishing"}
           B2 == {q \in Publishers : pc'[q] = "publishing"}
<1>1. IsFiniteSet(B) /\ inflight = Cardinality(B)
  BY PublishersAssumption, FS_Subset DEF IInv, Counted
<1>2. B2 = B \cup {p} /\ p \notin B
  BY DEF IInv, TypeOK
<1>3. Cardinality(B2) = Cardinality(B) + 1 /\ Cardinality(B) \in Nat
  BY <1>1, <1>2, FS_AddElement, FS_CardinalityType
<1> QED BY <1>1, <1>3 DEF Counted

(* ... and PubReturns takes it away.                                       *)
LEMMA CountReturn ==
  ASSUME IInv, NEW p \in Publishers, pc[p] = "publishing",
         pc' = [pc EXCEPT ![p] = "returning"], inflight' = inflight - 1
  PROVE  Counted' /\ inflight' \in Nat
<1> DEFINE B  == {q \in Publishers : pc[q] = "publishing"}
           B2 == {q \in Publishers : pc'[q] = "publishing"}
<1>1. IsFiniteSet(B) /\ inflight = Cardinality(B)
  BY PublishersAssumption, FS_Subset DEF IInv, Counted
<1>2. B2 = B \ {p} /\ p \in B
  BY DEF IInv, TypeOK
<1>3. Cardinality(B2) = Cardinality(B) - 1
  BY <1>1, <1>2, FS_RemoveElement
<1>4. Cardinality(B2) \in Nat
  BY <1>1, <1>2, FS_Subset, FS_CardinalityType
<1> QED BY <1>1, <1>3, <1>4 DEF Counted

(* Closing a channel that exists keeps what is known of the unborn ones. *)
LEMMA CloseKeepsUnborn ==
  ASSUME IInv, NEW x \in Channels, chan[x] # "new", CloseChan(x)
  PROVE  /\ chan' \in [Channels -> {"new", "live", "dead"}]
         /\ \A y \in Channels : chan'[y] = "new" <=> chan[y] = "new"
BY DEF IInv, TypeOK, CloseChan

(* refreshPool, Close and GetProducerChannel take a channel out and close it. *)
LEMMA DropHeadKeepsInv ==
  ASSUME IInv, pool # <<>>, CloseChan(Head(pool)), pool' = Tail(pool),
         UNCHANGED <<conn, connState, inflight, pc, held, wpc, wconn, created, cpc, mClosed, poolMu>>
  PROVE  IInv'
<1>0. /\ pool \in Seq(Channels) /\ Injective(pool)
      /\ Len(pool) <= PoolSize /\ PoolSize \in Nat /\ Len(pool) \in Nat
  BY PoolSizeAssumption DEF IInv, TypeOK, Places
<1>1. /\ pool' \in Seq(Channels) /\ Len(pool') = Len(pool) - 1
      /\ Injective(pool')
      /\ Head(pool) \in Channels /\ Head(pool) \in Range(pool)
      /\ Range(pool') = Range(pool) \ {Head(pool)}
  BY <1>0, TailElements
<1>2. /\ chan' \in [Channels -> {"new", "live", "dead"}]
      /\ \A y \in Channels : chan'[y] = "new" <=> chan[y] = "new"
  BY <1>1, CloseKeepsUnborn DEF IInv, Unborn, Used
<1>3. TypeOK'
  BY <1>0, <1>1, <1>2 DEF IInv, TypeOK
<1>4. Places'
  BY <1>1 DEF IInv, Places, Used
<1>5. Unborn'
  <2>1. Used \subseteq Channels
    BY DEF IInv, TypeOK, Used, Range
  <2> QED BY <1>1, <1>2, <2>1, NoneAssumption DEF IInv, Unborn, Used, TypeOK
<1>6. WatcherPlace'
  BY <1>2 DEF IInv, WatcherPlace
<1>7. Counted'
  BY DEF IInv, Counted
<1> QED BY <1>3, <1>4, <1>5, <1>6, <1>7 DEF IInv

(* A channel is closed where it is (ChanNotices, PubReturns). *)
LEMMA CloseInPlaceKeepsInv ==
  ASSUME IInv, NEW x \in Channels, chan[x] # "new", CloseChan(x),
         UNCHANGED <<conn, connState, pool, inflight, pc, held, wpc, wconn, created, cpc, mClosed,
                     poolMu>>
  PROVE  IInv'
<1>1. /\ chan' \in [Channels -> {"new", "live", "dead"}]
      /\ \A y \in Channels : chan'[y] = "new" <=> chan[y] = "new"
  BY CloseKeepsUnborn
<1>2. TypeOK'
  BY <1>1 DEF IInv, TypeOK
<1>3. Places'
  BY DEF IInv, Places, Used
<1>4. Unborn'
  <2>1. Used \subseteq Channels
    BY DEF IInv, TypeOK, Used, Range
  <2> QED BY <1>1, <2>1 DEF IInv, Unborn, Used, TypeOK
<1>5. WatcherPlace'
  BY <1>1 DEF IInv, WatcherPlace
<1>6. Counted'
  BY DEF IInv, Counted
<1> QED BY <1>2, <1>3, <1>4, <1>5, <1>6 DEF IInv

(* The publisher takes the head of the pool. *)
LEMMA TakeKeepsInv ==
  ASSUME IInv, NEW p \in Publishers, GetLive(p)
  PROVE  IInv'
<1>0. /\ pool \in Seq(Channels) /\ Injective(pool) /\ pool # <<>>
      /\ Len(pool) <= PoolSize /\ PoolSize \in Nat /\ Len(pool) \in Nat
      /\ pc[p] = "getting" /\ pc' = [pc EXCEPT ![p] = "holding"]
      /\ held' = [held EXCEPT ![p] = Head(pool)] /\ pool' = Tail(pool)
      /\ UNCHANGED <<conn, connState, chan, inflight, wpc, wconn, created, cpc, mClosed, poolMu>>
  BY PoolSizeAssumption DEF GetLive, PubGoes, connVars, wVars, IInv, TypeOK, Places
<1>1. /\ pool' \in Seq(Channels) /\ Len(pool') = Len(pool) - 1
      /\ Injective(pool')
      /\ Head(pool) \in Channels /\ Head(pool) \in Range(pool)
      /\ Range(pool') = Range(pool) \ {Head(pool)}
  BY <1>0, TailElements
<1>2. TypeOK'
  BY <1>0, <1>1 DEF IInv, TypeOK
<1>3. Places'
  <2>1. Head(pool) # None /\ \A q \in Publishers : held[q] # Head(pool)
    BY <1>1, NoneAssumption DEF IInv, Places, Used
  <2>2. held'[p] = Head(pool) /\ \A q \in Publishers \ {p} : held'[q] = held[q] /\ pc'[q] = pc[q]
    BY <1>0 DEF IInv, TypeOK
  <2>3. pc'[p] \in InHand
    BY <1>0 DEF IInv, TypeOK, InHand
  <2> QED BY <1>0, <1>1, <2>1, <2>2, <2>3 DEF IInv, Places, Used
<1>4. Unborn'
  BY <1>0, <1>1 DEF IInv, TypeOK, Unborn, Used
<1>5. WatcherPlace'
  BY <1>0 DEF IInv, WatcherPlace
<1>6. Counted'
  <2>1. \A q \in Publishers : pc'[q] = "publishing" <=> pc[q] = "publishing"
    BY <1>0 DEF IInv, TypeOK
  <2> QED BY <1>0, <2>1, CountStays
<1> QED BY <1>2, <1>3, <1>4, <1>5, <1>6 DEF IInv

(* The publisher closes what it holds and lets go of it. *)
LEMMA DiscardKeepsInv ==
  ASSUME IInv, NEW p \in Publishers, PutRefused(p) \/ PutDiscards(p)
  PROVE  IInv'
<1>0. /\ pc[p] \in {"returning", "putwait"} /\ pc' = [pc EXCEPT ![p] = "idle"]
      /\ held' = [held EXCEPT ![p] = None] /\ CloseChan(held[p])
      /\ UNCHANGED <<conn, connState, pool, inflight, wpc, wconn, created, cpc, mClosed, poolMu>>
  BY DEF PutRefused, PutDiscards, PutDown, PubGoes, connVars, wVars
<1>1. held[p] \in Channels /\ chan[held[p]] # "new"
  BY <1>0 DEF IInv, TypeOK, Places, Unborn, InHand
<1>2. /\ chan' \in [Channels -> {"new", "live", "dead"}]
      /\ \A y \in Channels : chan'[y] = "new" <=> chan[y] = "new"
  BY <1>0, <1>1, CloseKeepsUnborn
<1>3. Used \subseteq Channels
  BY DEF IInv, TypeOK, Used, Range
<1>4. held'[p] = None /\ \A q \in Publishers \ {p} : held'[q] = held[q] /\ pc'[q] = pc[q]
  BY <1>0 DEF IInv, TypeOK
<1>5. TypeOK'
  BY <1>0, <1>2 DEF IInv, TypeOK
<1>6. Places'
  <2>1. pc'[p] \notin InHand
    BY <1>0 DEF IInv, TypeOK, InHand
  <2> QED BY <1>0, <1>3, <1>4, <2>1, NoneAssumption DEF IInv, Places, Used
<1>7. Unborn'
  BY <1>0, <1>2, <1>3, <1>4 DEF IInv, TypeOK, Unborn, Used
<1>8. WatcherPlace'
  BY <1>0, <1>2 DEF IInv, WatcherPlace
<1>9. Counted'
  <2>1. \A q \in Publishers : pc'[q] = "publishing" <=> pc[q] = "publishing"
    BY <1>0 DEF IInv, TypeOK
  <2> QED BY <1>0, <2>1, CountStays
<1> QED BY <1>5, <1>6, <1>7, <1>8, <1>9 DEF IInv

(* The publisher puts back what it holds. *)
LEMMA PutKeepsInv ==
  ASSUME IInv, NEW p \in Publishers, Put(p)
  PROVE  IInv'
<1>0. /\ pc[p] \in {"putting", "putwait"} /\ pc' = [pc EXCEPT ![p] = "idle"]
      /\ held' = [held EXCEPT ![p] = None] /\ pool' = Append(pool, held[p])
      /\ Len(pool) < PoolSize /\ PoolSize \in Nat /\ Len(pool) \in Nat
      /\ UNCHANGED <<conn, connState, chan, inflight, wpc, wconn, created, cpc, mClosed, poolMu>>
  BY PoolSizeAssumption
  DEF Put, PutDown, PubGoes, HasRoom, connVars, wVars, IInv, TypeOK
<1>1. /\ held[p] \in Channels /\ chan[held[p]] # "new" /\ held[p] # None
      /\ held[p] \notin Used /\ pool \in Seq(Channels) /\ Injective(pool)
  BY <1>0 DEF IInv, TypeOK, Places, Unborn, InHand
<1>2. /\ pool' \in Seq(Channels) /\ Len(pool') = Len(pool) + 1
      /\ Injective(pool')
      /\ Range(pool') = Range(pool) \cup {held[p]}
  BY <1>0, <1>1, AppendElements DEF Used
<1>3. Used \subseteq Channels /\ Used' = Used \cup {held[p]}
  <2>1. Used \subseteq Channels
    BY DEF IInv, TypeOK, Used, Range
  <2> QED BY <1>0, <1>2, <2>1 DEF Used
<1>4. held'[p] = None /\ \A q \in Publishers \ {p} : held'[q] = held[q] /\ pc'[q] = pc[q]
  BY <1>0 DEF IInv, TypeOK
<1>5. TypeOK'
  BY <1>0, <1>2 DEF IInv, TypeOK
<1>6. Places'
  <2>1. pc'[p] \notin InHand
    BY <1>0 DEF IInv, TypeOK, InHand
  <2>2. Range(pool') \cap Range(created') = {}
    BY <1>0, <1>1, <1>2 DEF IInv, Places, Used
  <2>3. \A q \in Publishers : held'[q] \notin Used'
    BY <1>1, <1>3, <1>4, NoneAssumption DEF IInv, Places
  <2> QED BY <1>0, <1>2, <1>4, <2>1, <2>2, <2>3 DEF IInv, Places
<1>7. Unborn'
  BY <1>0, <1>1, <1>3, <1>4 DEF IInv, TypeOK, Unborn
<1>8. WatcherPlace'
  BY <1>0 DEF IInv, WatcherPlace
<1>9. Counted'
  <2>1. \A q \in Publishers : pc'[q] = "publishing" <=> pc[q] = "publishing"
    BY <1>0 DEF IInv, TypeOK
  <2> QED BY <1>0, <2>1, CountStays
<1> QED BY <1>5, <1>6, <1>7, <1>8, <1>9 DEF IInv

LEMMA PublisherStep ==
  ASSUME IInv, NEW p \in Publishers, PubStep(p)
  PROVE  IInv'
<1>0. inflight \in Nat
  BY DEF IInv, TypeOK
<1>1. ASSUME PubStart(p) \/ GetGivesUp(p) \/ PutChecked(p) \/ PutWaits(p) PROVE IInv'
  <2>1. PICK to \in {"getting", "idle", "putting", "putwait"} :
          /\ pc' = [pc EXCEPT ![p] = to] /\ pc[p] # "publishing"
          /\ pc[p] \in InHand <=> to \in InHand
    BY <1>1 DEF PubStart, GetGivesUp, PutChecked, PutWaits, PubGoes, InHand
  <2>2. UNCHANGED <<conn, connState, chan, pool, inflight, held, wpc, wconn, created, cpc,
                    mClosed, poolMu>>
    BY <1>1 DEF PubStart, GetGivesUp, PutChecked, PutWaits, connVars, poolVars, wVars
  <2>3. \A q \in Publishers : pc'[q] = "publishing" <=> pc[q] = "publishing"
    BY <2>1 DEF IInv, TypeOK
  <2>4. Counted'
    BY <2>2, <2>3, CountStays
  <2>5. to \in InHand \cup {"idle", "getting"}
    BY DEF InHand
  <2> QED BY <1>0, <2>1, <2>2, <2>4, <2>5, MoveKeepsInv
<1>2. ASSUME GetLive(p) PROVE IInv'
  BY <1>2, TakeKeepsInv
<1>3. ASSUME GetDead(p) PROVE IInv'
  BY <1>3, DropHeadKeepsInv DEF GetDead, connVars, pubVars, wVars
<1>4. ASSUME PubEnter(p) PROVE IInv'
  <2>1. /\ pc[p] = "holding" /\ pc' = [pc EXCEPT ![p] = "publishing"]
        /\ inflight' = inflight + 1
        /\ UNCHANGED <<conn, connState, chan, pool, held, wpc, wconn, created, cpc, mClosed, poolMu>>
    BY <1>4 DEF PubEnter, PubGoes, connVars, poolVars, wVars
  <2>2. Counted' /\ inflight' \in Nat
    BY <2>1, CountEnter
  <2>3. "publishing" \in InHand /\ pc[p] \in InHand
    BY <2>1 DEF InHand
  <2> QED BY <2>1, <2>2, <2>3, MoveKeepsInv
<1>5. ASSUME PubReturns(p) PROVE IInv'
  <2>1. /\ pc[p] = "publishing" /\ pc' = [pc EXCEPT ![p] = "returning"]
        /\ inflight' = inflight - 1
        /\ CloseChan(held[p]) \/ UNCHANGED chan
        /\ UNCHANGED <<conn, connState, pool, held, wpc, wconn, created, cpc, mClosed, poolMu>>
    BY <1>5 DEF PubReturns, PubGoes, connVars, wVars
  <2>2. Counted' /\ inflight' \in Nat
    BY <2>1, CountReturn
  <2>3. "returning" \in InHand /\ pc[p] \in InHand
    BY <2>1 DEF InHand
  <2>4. CASE UNCHANGED chan
    BY <2>1, <2>2, <2>3, <2>4, MoveKeepsInv
  <2>5. CASE CloseChan(held[p])
    <3>1. held[p] \in Channels /\ chan[held[p]] # "new"
      BY <2>3 DEF IInv, TypeOK, Places, Unborn
    <3>2. /\ chan' \in [Channels -> {"new", "live", "dead"}]
          /\ \A y \in Channels : chan'[y] = "new" <=> chan[y] = "new"
      BY <2>5, <3>1, CloseKeepsUnborn
    <3>3. TypeOK'
      BY <2>1, <2>2, <3>2 DEF IInv, TypeOK
    <3>4. Places'
      BY <2>1, <2>3 DEF IInv, TypeOK, Places, Used
    <3>5. Unborn'
      <4>1. Used \subseteq Channels
        BY DEF IInv, TypeOK, Used, Range
      <4> QED BY <2>1, <3>2, <4>1 DEF IInv, Unborn, Used, TypeOK
    <3>6. WatcherPlace'
      BY <2>1, <3>2 DEF IInv, WatcherPlace
    <3> QED BY <2>2, <3>3, <3>4, <3>5, <3>6 DEF IInv
  <2> QED BY <2>1, <2>4, <2>5
<1>6. ASSUME PutRefused(p) \/ PutDiscards(p) PROVE IInv'
  BY <1>6, DiscardKeepsInv
<1>7. ASSUME Put(p) PROVE IInv'
  BY <1>7, PutKeepsInv
<1> QED BY <1>1, <1>2, <1>3, <1>4, <1>5, <1>6, <1>7 DEF PubStep

-----------------------------------------------------------------------------
(* Steps of the watcher. *)

(* The watcher changes its place with the channels where they are. *)
LEMMA WatcherMoveKeepsInv ==
  ASSUME IInv, TypeOK', WatcherPlace', UNCHANGED <<chan, pool, held, pc, inflight, created>>,
         \A k \in Conns : connState'[k] = "new" => connState[k] = "new"
  PROVE  IInv'
<1>1. Places'
  BY DEF IInv, Places, Used
<1>2. Unborn'
  BY DEF IInv, Unborn, Used, Channels, ConnOf
<1>3. Counted'
  BY DEF IInv, Counted
<1> QED BY <1>1, <1>2, <1>3 DEF IInv

(* The channels of one connection: AllOf(k) lists them all, once each. *)
LEMMA AllOfProperties ==
  ASSUME NEW k \in Conns
  PROVE  /\ AllOf(k) \in Seq(Channels)
         /\ Injective(AllOf(k))
         /\ \A x \in Channels : x \in Range(AllOf(k)) <=> ConnOf(x) = k
         /\ Range(AllOf(k)) \subseteq Channels
         /\ Len(AllOf(k)) = PoolSize
<1>0. PoolSize \in Nat
  BY PoolSizeAssumption
<1>1. /\ AllOf(k) \in [1..PoolSize -> Channels] /\ DOMAIN AllOf(k) = 1..PoolSize
      /\ \A i \in 1..PoolSize : AllOf(k)[i] = <<k, i>>
  BY DEF AllOf, Slots, Channels
<1>2. AllOf(k) \in Seq(Channels) /\ Len(AllOf(k)) = PoolSize
  BY <1>0, <1>1
<1>3. Injective(AllOf(k))
  BY <1>1 DEF Injective
<1>4. \A x \in Channels : x \in Range(AllOf(k)) <=> ConnOf(x) = k
  <2>1. SUFFICES ASSUME NEW l \in Conns, NEW i \in 1..PoolSize
                 PROVE  <<l, i>> \in Range(AllOf(k)) <=> l = k
    BY DEF Channels, Slots, ConnOf
  <2> QED BY <1>1 DEF Range
<1>5. Range(AllOf(k)) \subseteq Channels
  BY <1>1 DEF Range
<1> QED BY <1>2, <1>3, <1>4, <1>5

(* refreshPool's new channels are in nobody's hands. *)
LEMMA CreateKeepsInv ==
  ASSUME IInv, WCreate
  PROVE  IInv'
<1>0. /\ wpc = "draining" /\ wpc' = "filling" /\ pool = <<>> /\ created' = AllOf(wconn)
      /\ chan' = [x \in Channels |-> IF ConnOf(x) = wconn THEN "live" ELSE chan[x]]
      /\ connState[wconn] = "open" /\ wconn \in Conns
      /\ UNCHANGED <<conn, connState, pool, inflight, pc, held, wconn, cpc, mClosed, poolMu>>
  BY DEF WCreate, Open, connVars, pubVars, IInv, WatcherPlace
<1>1. /\ created' \in Seq(Channels) /\ Injective(created')
      /\ \A x \in Channels : x \in Range(created') <=> ConnOf(x) = wconn
      /\ Range(created') \subseteq Channels
  BY <1>0, AllOfProperties
<1>2. Range(pool) = {} /\ Range(pool') = {} /\ Used' = Range(created')
  BY <1>0 DEF Range, Used
<1>3. TypeOK'
  BY <1>0, <1>1 DEF IInv, TypeOK
<1>4. \A x \in Range(created') : chan[x] = "new" /\ chan'[x] # "new"
  BY <1>0, <1>1 DEF IInv, WatcherPlace
<1>5. Places'
  <2>1. \A p \in Publishers : held[p] \notin Range(created')
    BY <1>1, <1>4, NoneAssumption DEF IInv, Unborn
  <2> QED BY <1>0, <1>1, <1>2, <2>1 DEF IInv, Places
<1>6. Unborn'
  <2>1. \A p \in Publishers : held'[p] # None => chan'[held'[p]] # "new"
    BY <1>0 DEF IInv, Unborn, TypeOK
  <2>2. \A x \in Channels : connState'[ConnOf(x)] = "new" => chan'[x] = "new"
    BY <1>0 DEF IInv, Unborn
  <2> QED BY <1>2, <1>4, <2>1, <2>2 DEF Unborn
<1>7. WatcherPlace'
  BY <1>0 DEF WatcherPlace
<1>8. Counted'
  BY <1>0 DEF IInv, Counted
<1> QED BY <1>3, <1>5, <1>6, <1>7, <1>8 DEF IInv

(* Each of them moves to the pool. *)
LEMMA FillKeepsInv ==
  ASSUME IInv, WFill
  PROVE  IInv'
<1>0. /\ wpc = "filling" /\ created # <<>> /\ Len(pool) < PoolSize
      /\ pool' = Append(pool, Head(created)) /\ created' = Tail(created)
      /\ PoolSize \in Nat /\ Len(pool) \in Nat
      /\ created \in Seq(Channels) /\ Injective(created)
      /\ pool \in Seq(Channels) /\ Injective(pool)
      /\ UNCHANGED <<conn, connState, chan, inflight, pc, held, wpc, wconn, cpc, mClosed, poolMu>>
  BY PoolSizeAssumption DEF WFill, HasRoom, connVars, pubVars, IInv, TypeOK, Places
<1>1. /\ created' \in Seq(Channels) /\ Injective(created')
      /\ Head(created) \in Channels /\ Head(created) \in Range(created)
      /\ Range(created') = Range(created) \ {Head(created)}
  BY <1>0, TailElements
<1>2. Head(created) \notin Range(pool)
  BY <1>1 DEF IInv, Places
<1>3. /\ pool' \in Seq(Channels) /\ Len(pool') = Len(pool) + 1 /\ Injective(pool')
      /\ Range(pool') = Range(pool) \cup {Head(created)}
  BY <1>0, <1>1, <1>2, AppendElements
<1>4. Used' = Used
  BY <1>1, <1>3 DEF Used
<1>5. TypeOK'
  BY <1>0, <1>1, <1>3 DEF IInv, TypeOK
<1>6. Places'
  <2>1. Range(pool') \cap Range(created') = {}
    BY <1>1, <1>3 DEF IInv, Places
  <2> QED BY <1>0, <1>1, <1>3, <1>4, <2>1 DEF IInv, Places
<1>7. Unborn'
  BY <1>0, <1>4 DEF IInv, Unborn
<1>8. WatcherPlace'
  BY <1>0 DEF IInv, WatcherPlace
<1>9. Counted'
  BY <1>0 DEF IInv, Counted
<1> QED BY <1>5, <1>6, <1>7, <1>8, <1>9 DEF IInv

LEMMA WatcherStepKeepsInv ==
  ASSUME IInv, WatcherStep
  PROVE  IInv'
<1> USE NoneAssumption, ConnsAssumption
<1>1. ASSUME WCheck PROVE IInv'
  <2>1. TypeOK'
    BY <1>1 DEF WCheck, Open, IInv, TypeOK, connVars, poolVars, pubVars
  <2>2. WatcherPlace'
    BY <1>1 DEF WCheck, Open, IInv, TypeOK, WatcherPlace
  <2> QED BY <1>1, <2>1, <2>2, WatcherMoveKeepsInv DEF WCheck, connVars, poolVars, pubVars
<1>2. ASSUME WDial PROVE IInv'
  <2>1. PICK k \in Conns :
          /\ connState[k] = "new" /\ connState' = [connState EXCEPT ![k] = "open"] /\ wconn' = k
    BY <1>2 DEF WDial
  <2>2. TypeOK'
    BY <1>2, <2>1 DEF WDial, IInv, TypeOK, poolVars, pubVars
  <2>3. WatcherPlace'
    BY <1>2, <2>1 DEF WDial, IInv, TypeOK, WatcherPlace, Unborn, poolVars
  <2>4. \A l \in Conns : connState'[l] = "new" => connState[l] = "new"
    BY <2>1 DEF IInv, TypeOK
  <2> QED BY <1>2, <2>2, <2>3, <2>4, WatcherMoveKeepsInv DEF WDial, poolVars, pubVars
<1>3. ASSUME WDialFails \/ WStops PROVE IInv'
  <2>1. TypeOK'
    BY <1>3 DEF WDialFails, WStops, IInv, TypeOK, connVars, poolVars, pubVars
  <2>2. WatcherPlace'
    BY <1>3 DEF WDialFails, WStops, IInv, TypeOK, WatcherPlace
  <2> QED BY <1>3, <2>1, <2>2, WatcherMoveKeepsInv
          DEF WDialFails, WStops, connVars, poolVars, pubVars
<1>4. ASSUME WLock PROVE IInv'
  <2>1. TypeOK'
    BY <1>4 DEF WLock, IInv, TypeOK, connVars, poolVars, pubVars
  <2>2. WatcherPlace'
    BY <1>4 DEF WLock, IInv, TypeOK, WatcherPlace, connVars, poolVars
  <2> QED BY <1>4, <2>1, <2>2, WatcherMoveKeepsInv DEF WLock, connVars, poolVars, pubVars
<1>5. ASSUME WDrainOne PROVE IInv'
  BY <1>5, DropHeadKeepsInv DEF WDrainOne, connVars, pubVars, wVars
<1>6. ASSUME WCreate PROVE IInv'
  BY <1>6, CreateKeepsInv
<1>7. ASSUME WCreateFails PROVE IInv'
  <2>1. wconn \in Conns
    BY <1>7 DEF WCreateFails, IInv, WatcherPlace
  <2>2. TypeOK'
    BY <1>7, <2>1 DEF WCreateFails, IInv, TypeOK, poolVars, pubVars
  <2>3. WatcherPlace'
    BY <1>7 DEF WCreateFails, IInv, WatcherPlace
  <2>4. \A l \in Conns : connState'[l] = "new" => connState[l] = "new"
    BY <1>7, <2>1 DEF WCreateFails, IInv, TypeOK
  <2> QED BY <1>7, <2>2, <2>3, <2>4, WatcherMoveKeepsInv DEF WCreateFails, poolVars, pubVars
<1>8. ASSUME WFill PROVE IInv'
  BY <1>8, FillKeepsInv
<1>9. ASSUME WSwap \/ WSeesClose PROVE IInv'
  <2>1. TypeOK'
    BY <1>9 DEF WSwap, WSeesClose, IInv, TypeOK, poolVars, pubVars
  <2>2. WatcherPlace'
    BY <1>9 DEF WSwap, WSeesClose, IInv, TypeOK, WatcherPlace
  <2> QED BY <1>9, <2>1, <2>2, WatcherMoveKeepsInv DEF WSwap, WSeesClose, poolVars, pubVars
<1> QED BY <1>1, <1>2, <1>3, <1>4, <1>5, <1>6, <1>7, <1>8, <1>9 DEF WatcherStep

-----------------------------------------------------------------------------
(* Close, the network and the channels' own goroutines. *)

LEMMA OtherStepKeepsInv ==
  ASSUME IInv, CloseBegin \/ CloseStep \/ ConnDrops \/ \E x \in Channels : ChanNotices(x)
  PROVE  IInv'
<1> USE NoneAssumption, ConnsAssumption
<1>1. ASSUME \/ CloseBegin \/ CloseLock \/ CloseUnlock \/ CloseStore
             \/ CloseAwaited \/ CloseForced \/ CloseJoined
      PROVE  IInv'
  <2>1. /\ UNCHANGED <<connState, chan, pool, held, pc, inflight, wpc, wconn, created>>
        /\ conn' \in {conn, None} /\ mClosed' \in {mClosed, TRUE}
        /\ poolMu' \in {poolMu, None, "closer"}
        /\ cpc' \in {"locking", "draining", "loading", "waiting", "joining", "forced", "done"}
    BY <1>1 DEF CloseBegin, CloseLock, CloseUnlock, CloseStore, CloseAwaited, CloseForced,
                CloseJoined, CloseGoes, connVars, poolVars, pubVars, wVars
  <2>2. TypeOK'
    <3>1. /\ conn' \in Conns \cup {None} /\ mClosed' \in BOOLEAN
          /\ poolMu' \in {None, "watcher", "closer"}
      BY <2>1 DEF IInv, TypeOK
    <3>2. cpc' \in {"idle", "locking", "draining", "loading", "storing", "waiting", "joining",
                     "forced", "done"}
      BY <2>1
    <3> QED
      BY <2>1, <3>1, <3>2 DEF IInv, TypeOK
  <2>3. WatcherPlace'
    BY <2>1 DEF IInv, WatcherPlace
  <2> QED BY <2>1, <2>2, <2>3, WatcherMoveKeepsInv
<1>2. ASSUME CloseDrainOne PROVE IInv'
  BY <1>2, DropHeadKeepsInv DEF CloseDrainOne, connVars, pubVars, wVars
<1>3. ASSUME CloseConn \/ ConnDrops PROVE IInv'
  <2>1. /\ UNCHANGED <<conn, chan, pool, held, pc, inflight, wpc, wconn, created, mClosed, poolMu>>
        /\ \/ connState' = connState
           \/ \E k \in Conns : connState' = [connState EXCEPT ![k] = "closed"]
        /\ cpc' \in {cpc, "waiting", "storing"}
    BY <1>3 DEF CloseConn, ConnDrops, IInv, TypeOK, poolVars, pubVars, wVars
  <2>2. /\ connState' \in [Conns -> {"new", "open", "closed"}]
        /\ \A l \in Conns : connState'[l] = "new" => connState[l] = "new"
        /\ \A l \in Conns : connState[l] # "new" => connState'[l] # "new"
    BY <2>1 DEF IInv, TypeOK
  <2>3. TypeOK'
    BY <2>1, <2>2 DEF IInv, TypeOK
  <2>4. WatcherPlace'
    BY <2>1, <2>2 DEF IInv, WatcherPlace
  <2> QED BY <2>1, <2>2, <2>3, <2>4, WatcherMoveKeepsInv
<1>4. ASSUME NEW x \in Channels, ChanNotices(x) PROVE IInv'
  BY <1>4, CloseInPlaceKeepsInv DEF ChanNotices, connVars, pubVars, wVars
<1> QED BY <1>1, <1>2, <1>3, <1>4 DEF CloseStep

LEMMA InitHolds ==
  ASSUME Init
  PROVE  IInv
<1>0. FirstConn \in Conns /\ PoolSize \in Nat
  BY ConnsAssumption, PoolSizeAssumption
<1>1. /\ pool \in Seq(Channels) /\ Injective(pool) /\ Len(pool) = PoolSize
      /\ \A x \in Channels : x \in Range(pool) <=> ConnOf(x) = FirstConn
      /\ Range(pool) \subseteq Channels
  BY <1>0, AllOfProperties DEF Init
<1>2. created \in Seq(Channels) /\ Injective(created) /\ Range(created) = {}
  BY EmptySeq DEF Init, Injective, Range
<1>3. TypeOK
  <2>1. \A x \in Channels : ConnOf(x) \in Conns
    BY DEF Channels, ConnOf
  <2>2. /\ connState \in [Conns -> {"new", "open", "closed"}]
        /\ chan \in [Channels -> {"new", "live", "dead"}]
        /\ held \in [Publishers -> Channels \cup {None}]
        /\ pc \in [Publishers -> {"idle", "getting", "holding", "publishing", "returning",
                                   "putting", "putwait"}]
    BY <2>1 DEF Init
  <2>3. /\ conn \in Conns \cup {None} /\ wconn \in Conns \cup {None}
        /\ mClosed \in BOOLEAN /\ poolMu \in {None, "watcher", "closer"} /\ inflight \in Nat
        /\ wpc \in {"top", "dialing", "locking", "draining", "filling", "watching", "exit"}
        /\ cpc \in {"idle", "locking", "draining", "loading", "storing", "waiting", "joining",
                    "forced", "done"}
    BY <1>0 DEF Init
  <2>4. Len(pool) <= PoolSize
    BY <1>0, <1>1
  <2> QED BY <1>1, <1>2, <2>2, <2>3, <2>4 DEF TypeOK
<1>4. Places
  BY <1>1, <1>2, NoneAssumption DEF Init, Places, Used, InHand
<1>5. Unborn
  BY <1>1, <1>2 DEF Init, Unborn, Used, Channels, ConnOf
<1>6. WatcherPlace
  BY DEF Init, WatcherPlace
<1>7. Counted
  <2>1. {p \in Publishers : pc[p] = "publishing"} = {}
    BY DEF Init
  <2> QED BY <2>1, FS_EmptySet DEF Init, Counted
<1> QED BY <1>3, <1>4, <1>5, <1>6, <1>7 DEF IInv

LEMMA PoolInvariant == Spec => []IInv
<1>1. IInv /\ [Next]_vars => IInv'
  <2>1. ASSUME IInv, Next PROVE IInv'
    BY <2>1, PublisherStep, WatcherStepKeepsInv, OtherStepKeepsInv DEF Next
  <2>2. ASSUME IInv, UNCHANGED vars PROVE IInv'
    BY <2>2 DEF vars, connVars, poolVars, pubVars, wVars, IInv, TypeOK, Places, Unborn,
                WatcherPlace, Counted, Used
  <2> QED BY <2>1, <2>2
<1> QED BY <1>1, InitHolds, PTL DEF Spec

(* Type correctness: in particular the pool stays within its capacity and  *)
(* inflight, raised and lowered by racing publishers, never goes below 0.  *)
THEOREM PoolTypeCorrect == Spec => []TypeOK
<1>1. IInv => TypeOK
  BY DEF IInv
<1> QED BY <1>1, PoolInvariant, PTL

(* A channel is in one place at a time, whatever the publishers, the       *)
(* watcher and Close do: publishWithConfirm runs for one caller at a time  *)
(* on it, which is what ConfirmChannel's theorems call Exclusive.          *)
THEOREM ChannelsAreExclusive == Spec => []ExclusiveHolder
<1>1. IInv => ExclusiveHolder
  BY DEF IInv, Places, Used, Injective, Range, ExclusiveHolder
<1> QED BY <1>1, PoolInvariant, PTL

-----------------------------------------------------------------------------
(* No live channel is lost. *)

Placed(x)  == x \in Used \/ \E p \in Publishers : held[p] = x
LivePlaced == \A x \in Channels : chan[x] = "live" => Placed(x)

LEMMA PlacedStep ==
  ASSUME IInv, IInv', LivePlaced, Next
  PROVE  LivePlaced'
<1>0. /\ chan \in [Channels -> {"new", "live", "dead"}] /\ held \in [Publishers -> Channels \cup {None}]
      /\ pool \in Seq(Channels) /\ Injective(pool)
      /\ created \in Seq(Channels) /\ Injective(created)
  BY DEF IInv, TypeOK, Places
<1>1. ASSUME pool # <<>>, CloseChan(Head(pool)), pool' = Tail(pool), UNCHANGED <<held, created>>
      PROVE  LivePlaced'
  <2>1. Range(pool') = Range(pool) \ {Head(pool)} /\ Head(pool) \in Channels
    BY <1>0, <1>1, TailElements
  <2> QED BY <1>0, <1>1, <2>1 DEF LivePlaced, Placed, Used, CloseChan
<1>2. ASSUME UNCHANGED <<pool, held, created>>,
             \/ UNCHANGED chan
             \/ \E x \in Channels : CloseChan(x)
      PROVE  LivePlaced'
  BY <1>0, <1>2 DEF LivePlaced, Placed, Used, CloseChan
<1>3. ASSUME NEW p \in Publishers, PubStep(p) PROVE LivePlaced'
  <2>1. ASSUME PubStart(p) \/ GetGivesUp(p) \/ PubEnter(p) \/ PutChecked(p) \/ PutWaits(p)
        PROVE  LivePlaced'
    BY <1>2, <2>1 DEF PubStart, GetGivesUp, PubEnter, PutChecked, PutWaits, poolVars, wVars
  <2>2. ASSUME GetLive(p) PROVE LivePlaced'
    <3>1. /\ Range(pool') = Range(pool) \ {Head(pool)} /\ held' = [held EXCEPT ![p] = Head(pool)]
          /\ UNCHANGED <<chan, created>> /\ pc[p] = "getting"
      BY <1>0, <2>2, TailElements DEF GetLive, PubGoes, wVars
    <3>2. held[p] = None
      BY <3>1 DEF IInv, Places, InHand
    <3> QED BY <1>0, <3>1, <3>2, NoneAssumption DEF LivePlaced, Placed, Used
  <2>3. ASSUME GetDead(p) PROVE LivePlaced'
    BY <1>1, <2>3 DEF GetDead, pubVars, wVars
  <2>4. ASSUME PubReturns(p) PROVE LivePlaced'
    <3>1. held[p] \in Channels
      BY <1>0, <2>4 DEF PubReturns, PubGoes, IInv, Places, InHand
    <3> QED BY <1>2, <2>4, <3>1 DEF PubReturns, wVars
  <2>5. ASSUME PutRefused(p) \/ PutDiscards(p) PROVE LivePlaced'
    <3>1. /\ CloseChan(held[p]) /\ held' = [held EXCEPT ![p] = None]
          /\ UNCHANGED <<pool, created>>
      BY <2>5 DEF PutRefused, PutDiscards, PutDown, wVars
    <3> QED BY <1>0, <3>1 DEF LivePlaced, Placed, Used, CloseChan
  <2>6. ASSUME Put(p) PROVE LivePlaced'
    <3>1. /\ pool' = Append(pool, held[p]) /\ held' = [held EXCEPT ![p] = None]
          /\ pc[p] \in InHand /\ UNCHANGED <<chan, created>>
      BY <2>6 DEF Put, PutDown, PubGoes, InHand, wVars
    <3>2. held[p] \in Channels /\ held[p] \notin Range(pool)
      BY <1>0, <3>1 DEF IInv, Places, Used
    <3>3. Range(pool') = Range(pool) \cup {held[p]}
      BY <1>0, <3>1, <3>2, AppendElements
    <3> QED BY <1>0, <3>1, <3>3 DEF LivePlaced, Placed, Used
  <2> QED BY <1>3, <2>1, <2>2, <2>3, <2>4, <2>5, <2>6 DEF PubStep
<1>4. ASSUME WatcherStep PROVE LivePlaced'
  <2>1. ASSUME WCheck \/ WDial \/ WDialFails \/ WLock \/ WCreateFails \/ WSwap \/ WSeesClose \/ WStops
        PROVE  LivePlaced'
    BY <1>2, <2>1 DEF WCheck, WDial, WDialFails, WLock, WCreateFails, WSwap, WSeesClose, WStops,
                      poolVars, pubVars
  <2>2. ASSUME WDrainOne PROVE LivePlaced'
    BY <1>1, <2>2 DEF WDrainOne, pubVars, wVars
  <2>3. ASSUME WCreate PROVE LivePlaced'
    <3>1. /\ chan' = [x \in Channels |-> IF ConnOf(x) = wconn THEN "live" ELSE chan[x]]
          /\ created' = AllOf(wconn) /\ wconn \in Conns /\ created = <<>>
          /\ UNCHANGED <<pool, held>>
      BY <2>3 DEF WCreate, pubVars, IInv, WatcherPlace
    <3>2. \A x \in Channels : x \in Range(created') <=> ConnOf(x) = wconn
      BY <3>1, AllOfProperties
    <3>3. Range(created) = {}
      BY <3>1 DEF Range
    <3> QED BY <3>1, <3>2, <3>3 DEF LivePlaced, Placed, Used
  <2>4. ASSUME WFill PROVE LivePlaced'
    <3>1. /\ created # <<>> /\ pool' = Append(pool, Head(created)) /\ created' = Tail(created)
          /\ UNCHANGED <<chan, held>>
      BY <2>4 DEF WFill, pubVars
    <3>2. /\ Head(created) \in Channels /\ Head(created) \in Range(created)
          /\ Range(created') = Range(created) \ {Head(created)}
      BY <1>0, <3>1, TailElements
    <3>3. Head(created) \notin Range(pool)
      BY <3>2 DEF IInv, Places
    <3>4. Range(pool') = Range(pool) \cup {Head(created)}
      BY <1>0, <3>1, <3>2, <3>3, AppendElements
    <3> QED BY <3>1, <3>2, <3>4 DEF LivePlaced, Placed, Used
  <2> QED BY <1>4, <2>1, <2>2, <2>3, <2>4 DEF WatcherStep
<1>5. ASSUME CloseBegin \/ CloseStep PROVE LivePlaced'
  <2>1. ASSUME CloseDrainOne PROVE LivePlaced'
    BY <1>1, <2>1 DEF CloseDrainOne, pubVars, wVars
  <2>2. ASSUME ~CloseDrainOne PROVE LivePlaced'
    BY <1>2, <1>5, <2>2 DEF CloseBegin, CloseStep, CloseLock, CloseUnlock, CloseConn, CloseStore,
       CloseAwaited, CloseForced, CloseJoined, poolVars, pubVars, wVars
  <2> QED BY <2>1, <2>2
<1>6. ASSUME ConnDrops \/ \E x \in Channels : ChanNotices(x) PROVE LivePlaced'
  BY <1>2, <1>6 DEF ConnDrops, ChanNotices, poolVars, pubVars, wVars
<1> QED BY <1>3, <1>4, <1>5, <1>6 DEF Next

(* No channel that looks usable is ever lost, so none leaks. *)
THEOREM NoChannelIsLost == Spec => []NoLiveOrphan
<1>1. ASSUME Init PROVE LivePlaced
  <2>1. FirstConn \in Conns
    BY ConnsAssumption
  <2>2. \A x \in Channels : x \in Range(pool) <=> ConnOf(x) = FirstConn
    BY <1>1, <2>1, AllOfProperties DEF Init
  <2> QED BY <1>1, <2>2 DEF Init, LivePlaced, Placed, Used
<1>2. IInv /\ IInv' /\ LivePlaced /\ [Next]_vars => LivePlaced'
  <2>1. ASSUME LivePlaced, UNCHANGED vars PROVE LivePlaced'
    BY <2>1 DEF LivePlaced, Placed, Used, vars, poolVars, pubVars, wVars
  <2> QED BY <2>1, PlacedStep
<1>3. LivePlaced => NoLiveOrphan
  BY DEF LivePlaced, Placed, Used, Range, NoLiveOrphan
<1> QED BY <1>1, <1>2, <1>3, PoolInvariant, PTL DEF Spec

-----------------------------------------------------------------------------
(* No connection is lost before Close. *)

ConnPlace ==
  ~mClosed =>
    /\ cpc = "idle"
    /\ \A k \in Conns : connState[k] = "open" => k = conn \/ k = wconn
    /\ wpc \in {"dialing", "locking", "draining", "filling"} => ~Open(conn)
    /\ wpc = "watching" => conn = wconn
    /\ wpc \in {"top", "dialing", "exit"} => wconn = None
    /\ \A k \in {conn, wconn} \cap Conns : connState[k] # "new"

LEMMA ConnStep ==
  ASSUME IInv, ConnPlace, Next
  PROVE  ConnPlace'
<1>0. /\ connState \in [Conns -> {"new", "open", "closed"}]
      /\ conn \in Conns \cup {None} /\ wconn \in Conns \cup {None} /\ None \notin Conns
      /\ mClosed \in BOOLEAN
  BY ConnsAssumption DEF IInv, TypeOK
<1>1. ASSUME UNCHANGED <<conn, connState, wpc, wconn, cpc, mClosed>> PROVE ConnPlace'
  BY <1>1 DEF ConnPlace, Open
<1>2. ASSUME NEW p \in Publishers, PubStep(p) PROVE ConnPlace'
  <2>1. UNCHANGED <<conn, connState, wpc, wconn, cpc, mClosed>>
    BY <1>2 DEF PubStep, PubStart, GetLive, GetDead, GetGivesUp, PubEnter, PubReturns, PutRefused,
                PutChecked, PutWaits, Put, PutDiscards, connVars, wVars
  <2> QED BY <1>1, <2>1
<1>3. ASSUME WCheck PROVE ConnPlace'
  BY <1>0, <1>3 DEF WCheck, ConnPlace, Open, connVars
<1>4. ASSUME WDial PROVE ConnPlace'
  <2>1. PICK k \in Conns :
          /\ connState[k] = "new" /\ connState' = [connState EXCEPT ![k] = "open"] /\ wconn' = k
    BY <1>4 DEF WDial
  <2>2. ~mClosed => Open(conn)' = Open(conn)
    <3>1. ~mClosed => conn # k
      BY <1>0, <1>4, <2>1 DEF WDial, ConnPlace
    <3> QED BY <1>0, <1>4, <2>1, <3>1 DEF WDial, Open
  <2> QED BY <1>0, <1>4, <2>1, <2>2 DEF WDial, ConnPlace
<1>5. ASSUME WDialFails \/ WLock \/ WStops PROVE ConnPlace'
  BY <1>0, <1>5 DEF WDialFails, WLock, WStops, ConnPlace, Open, connVars
<1>6. ASSUME WDrainOne \/ WFill PROVE ConnPlace'
  BY <1>1, <1>6 DEF WDrainOne, WFill, connVars, wVars
<1>7. ASSUME WCreate PROVE ConnPlace'
  BY <1>0, <1>7 DEF WCreate, ConnPlace, Open, connVars
<1>8. ASSUME WCreateFails PROVE ConnPlace'
  <2>1. wconn \in Conns
    BY <1>8 DEF WCreateFails, IInv, WatcherPlace
  <2> QED BY <1>0, <1>8, <2>1 DEF WCreateFails, ConnPlace, Open
<1>9. ASSUME WSwap \/ WSeesClose PROVE ConnPlace'
  BY <1>0, <1>9 DEF WSwap, WSeesClose, ConnPlace, Open
<1>10. ASSUME CloseBegin \/ CloseStep PROVE ConnPlace'
  <2>1. mClosed'
    BY <1>0, <1>10 DEF CloseBegin, CloseStep, CloseLock, CloseDrainOne, CloseUnlock, CloseConn,
       CloseStore, CloseAwaited, CloseForced, CloseJoined, CloseGoes, ConnPlace
  <2> QED BY <2>1 DEF ConnPlace
<1>11. ASSUME ConnDrops PROVE ConnPlace'
  BY <1>0, <1>11 DEF ConnDrops, ConnPlace, Open, wVars
<1>12. ASSUME NEW x \in Channels, ChanNotices(x) PROVE ConnPlace'
  BY <1>1, <1>12 DEF ChanNotices, connVars, wVars
<1> QED
  BY <1>2, <1>3, <1>4, <1>5, <1>6, <1>7, <1>8, <1>9, <1>10, <1>11, <1>12 DEF Next, WatcherStep


-----------------------------------------------------------------------------
(* What bounds the harm of a reconnect that races Close: there is never more *)
(* than one open connection, and the watcher runs down once Close has begun. *)

OneConnOpen ==
  \A k, l \in Conns : connState[k] = "open" /\ connState[l] = "open" => k = l

(* Where the watcher stands limits which connection that can be. *)
OpenPlace ==
  /\ OneConnOpen
  /\ wpc = "dialing" => \A k \in Conns : connState[k] # "open"
  /\ wpc \in {"locking", "draining", "filling"} =>
       \A k \in Conns : connState[k] = "open" => k = wconn

LEMMA OpenStep ==
  ASSUME IInv, ConnPlace, OpenPlace, Next
  PROVE  OpenPlace'
<1>0. connState \in [Conns -> {"new", "open", "closed"}] /\ wconn \in Conns \cup {None}
  BY DEF IInv, TypeOK
<1>1. ASSUME UNCHANGED <<wpc, wconn>>, connState' \in [Conns -> {"new", "open", "closed"}],
             \A k \in Conns : connState'[k] = "open" => connState[k] = "open"
      PROVE  OpenPlace'
  BY <1>1 DEF OpenPlace, OneConnOpen
<1>2. ASSUME UNCHANGED connState,
             \/ wpc' \in {"top", "watching", "exit"}
             \/ /\ wpc \in {"locking", "draining", "filling"} /\ wconn' = wconn
                /\ wpc' \in {"draining", "filling"}
      PROVE  OpenPlace'
  BY <1>2 DEF OpenPlace, OneConnOpen
<1>3. ASSUME NEW p \in Publishers, PubStep(p) PROVE OpenPlace'
  <2>1. UNCHANGED <<connState, wpc, wconn>>
    BY <1>3 DEF PubStep, PubStart, GetLive, GetDead, GetGivesUp, PubEnter, PubReturns, PutRefused,
                PutChecked, PutWaits, Put, PutDiscards, connVars, wVars
  <2> QED BY <1>0, <1>1, <2>1
<1>4. ASSUME WCheck PROVE OpenPlace'
  <2>1. CASE mClosed \/ Open(conn)
    BY <1>2, <1>4, <2>1 DEF WCheck, connVars
  <2>2. CASE ~mClosed /\ ~Open(conn)
    <3>1. \A k \in Conns : connState[k] # "open"
      BY <1>4, <2>2, ConnsAssumption DEF WCheck, ConnPlace, Open
    <3>2. connState' = connState /\ wpc' = "dialing"
      BY <1>4, <2>2 DEF WCheck, connVars
    <3> QED BY <3>1, <3>2 DEF OpenPlace, OneConnOpen
  <2> QED BY <2>1, <2>2
<1>5. ASSUME WDial PROVE OpenPlace'
  <2>1. PICK k \in Conns : connState' = [connState EXCEPT ![k] = "open"] /\ wconn' = k
    BY <1>5 DEF WDial
  <2>2. \A l \in Conns : connState'[l] = "open" => l = k
    BY <1>0, <1>5, <2>1 DEF WDial, OpenPlace
  <2> QED BY <1>5, <2>1, <2>2 DEF WDial, OpenPlace, OneConnOpen
<1>6. ASSUME WDialFails \/ WLock \/ WCreate \/ WSwap \/ WSeesClose \/ WStops PROVE OpenPlace'
  BY <1>2, <1>6 DEF WDialFails, WLock, WCreate, WSwap, WSeesClose, WStops, connVars
<1>7. ASSUME WDrainOne \/ WFill PROVE OpenPlace'
  BY <1>0, <1>1, <1>7 DEF WDrainOne, WFill, connVars, wVars
<1>8. ASSUME WCreateFails PROVE OpenPlace'
  <2>1. /\ wpc' = "top"
        /\ \A k \in Conns : connState'[k] = "open" => connState[k] = "open"
    BY <1>0, <1>8 DEF WCreateFails
  <2> QED BY <2>1 DEF OpenPlace, OneConnOpen
<1>9. ASSUME CloseBegin \/ CloseStep \/ ConnDrops \/ \E x \in Channels : ChanNotices(x)
      PROVE  OpenPlace'
  <2>1. UNCHANGED <<wpc, wconn>>
    BY <1>9 DEF CloseBegin, CloseStep, CloseLock, CloseDrainOne, CloseUnlock, CloseConn,
       CloseStore, CloseAwaited, CloseForced, CloseJoined, ConnDrops, ChanNotices, wVars
  <2>2. \/ connState' = connState
        \/ \E k \in Conns : connState' = [connState EXCEPT ![k] = "closed"]
        \/ connState' = [connState EXCEPT ![conn] = "closed"]
    BY <1>9 DEF CloseBegin, CloseStep, CloseLock, CloseDrainOne, CloseUnlock, CloseConn,
       CloseStore, CloseAwaited, CloseForced, CloseJoined, ConnDrops, ChanNotices, connVars
  <2>3. /\ connState' \in [Conns -> {"new", "open", "closed"}]
        /\ \A k \in Conns : connState'[k] = "open" => connState[k] = "open"
    BY <1>0, <2>2
  <2> QED BY <1>1, <2>1, <2>3
<1> QED BY <1>3, <1>4, <1>5, <1>6, <1>7, <1>8, <1>9 DEF Next, WatcherStep

LEMMA ConnInvariant == Spec => [](ConnPlace /\ OpenPlace)
<1>1. ASSUME Init PROVE ConnPlace /\ OpenPlace
  BY <1>1, ConnsAssumption DEF Init, ConnPlace, OpenPlace, OneConnOpen
<1>2. IInv /\ ConnPlace /\ OpenPlace /\ [Next]_vars => (ConnPlace /\ OpenPlace)'
  <2>1. ASSUME ConnPlace, OpenPlace, UNCHANGED vars PROVE (ConnPlace /\ OpenPlace)'
    BY <2>1 DEF ConnPlace, OpenPlace, OneConnOpen, Open, vars, connVars, wVars
  <2> QED BY <2>1, ConnStep, OpenStep
<1> QED BY <1>1, <1>2, PoolInvariant, PTL DEF Spec

(* Until Close is called no connection is left open by a reconnect. *)
THEOREM NoConnectionIsLost == Spec => []ConnsTracked
<1>1. ConnPlace => ConnsTracked
  BY DEF ConnPlace, ConnsTracked
<1> QED BY <1>1, ConnInvariant, PTL

(* The producer never has two connections open: a reconnect dials only once  *)
(* the connection before is gone, and a Close that overlaps it (the finding  *)
(* CloseReleases) leaves at most the one that was being installed.           *)
THEOREM OneConnectionAtMost == Spec => []OneConnOpen
<1>1. OpenPlace => OneConnOpen
  BY DEF OpenPlace
<1> QED BY <1>1, ConnInvariant, PTL

(* How many moves the watcher has left at most when the manager is closed,   *)
(* the draining and filling of the pool counted as one each.                 *)
MovesLeft(place) ==
  CASE place = "dialing"  -> 5
    [] place = "locking"  -> 4
    [] place = "draining" -> 3
    [] place \in {"filling", "watching"} -> 2
    [] place = "top"      -> 1
    [] OTHER -> 0

(* Once Close has begun the watcher only winds down: every move brings it    *)
(* nearer to its end, so it dials at most the one connection it was about to *)
(* dial, and does not take the connection Close closes for a lost one.       *)
THEOREM WatcherWindsDown ==
  Spec => [][mClosed => mClosed' /\ (wpc' # wpc => MovesLeft(wpc') < MovesLeft(wpc))]_vars
<1>1. ASSUME Next, mClosed
      PROVE  mClosed' /\ (wpc' # wpc => MovesLeft(wpc') < MovesLeft(wpc))
  <2>1. mClosed'
    BY <1>1 DEF Next, PubStep, PubStart, GetLive, GetDead, GetGivesUp, PubEnter, PubReturns,
       PutRefused, PutChecked, PutWaits, Put, PutDiscards, WatcherStep, WCheck, WDial, WDialFails,
       WLock, WDrainOne, WCreate, WCreateFails, WFill, WSwap, WSeesClose, WStops, CloseBegin,
       CloseStep, CloseLock, CloseDrainOne, CloseUnlock, CloseConn, CloseStore, CloseAwaited,
       CloseForced, CloseJoined, ConnDrops, ChanNotices
  <2>2. ASSUME WatcherStep, wpc' # wpc PROVE MovesLeft(wpc') < MovesLeft(wpc)
    <3>1. \/ wpc = "dialing" /\ wpc' \in {"locking", "top"}
          \/ wpc = "locking" /\ wpc' = "draining"
          \/ wpc = "draining" /\ wpc' \in {"filling", "top"}
          \/ wpc \in {"filling", "watching"} /\ wpc' \in {"top", "exit"}
          \/ wpc = "top" /\ wpc' = "exit"
      BY <1>1, <2>2 DEF WatcherStep, WCheck, WDial, WDialFails, WLock, WDrainOne, WCreate,
         WCreateFails, WFill, WSwap, WSeesClose, WStops, wVars
    <3> QED BY <3>1 DEF MovesLeft
  <2>3. ASSUME ~WatcherStep PROVE wpc' = wpc
    BY <1>1, <2>3 DEF Next, PubStep, PubStart, GetLive, GetDead, GetGivesUp, PubEnter, PubReturns,
       PutRefused, PutChecked, PutWaits, Put, PutDiscards, CloseBegin, CloseStep, CloseLock,
       CloseDrainOne, CloseUnlock, CloseConn, CloseStore, CloseAwaited, CloseForced, CloseJoined,
       ConnDrops, ChanNotices, wVars
  <2> QED BY <2>1, <2>2, <2>3
<1>2. ASSUME UNCHANGED vars PROVE wpc' = wpc /\ mClosed' = mClosed
  BY <1>2 DEF vars, wVars
<1>3. [Next]_vars =>
        [mClosed => mClosed' /\ (wpc' # wpc => MovesLeft(wpc') < MovesLeft(wpc))]_vars
  BY <1>1, <1>2
<1> QED BY <1>3, PTL DEF Spec

-----------------------------------------------------------------------------
(* The lock, and the only way in which Close hangs (the finding              *)
(* CloseReturns).                                                            *)

LockPlace ==
  /\ poolMu = "watcher" <=> wpc \in {"draining", "filling"}
  /\ poolMu = "closer" <=> cpc = "draining"

LEMMA LockStep ==
  ASSUME LockPlace, Next
  PROVE  LockPlace'
<1> USE NoneAssumption DEF LockPlace
<1>1. ASSUME UNCHANGED <<poolMu, wpc, cpc>> PROVE LockPlace'
  BY <1>1
<1>2. ASSUME NEW p \in Publishers, PubStep(p) PROVE LockPlace'
  <2>1. UNCHANGED <<poolMu, wpc, cpc>>
    BY <1>2 DEF PubStep, PubStart, GetLive, GetDead, GetGivesUp, PubEnter, PubReturns, PutRefused,
                PutChecked, PutWaits, Put, PutDiscards, wVars
  <2> QED BY <1>1, <2>1
<1>3. ASSUME WatcherStep PROVE LockPlace'
  <2>1. ASSUME WCheck \/ WDial \/ WDialFails \/ WSeesClose \/ WStops PROVE LockPlace'
    BY <2>1 DEF WCheck, WDial, WDialFails, WSeesClose, WStops
  <2>2. ASSUME WLock PROVE LockPlace'
    BY <2>2 DEF WLock
  <2>3. ASSUME WDrainOne \/ WFill PROVE LockPlace'
    BY <1>1, <2>3 DEF WDrainOne, WFill, wVars
  <2>4. ASSUME WCreate PROVE LockPlace'
    BY <2>4 DEF WCreate
  <2>5. ASSUME WCreateFails \/ WSwap PROVE LockPlace'
    BY <2>5 DEF WCreateFails, WSwap
  <2> QED BY <1>3, <2>1, <2>2, <2>3, <2>4, <2>5 DEF WatcherStep
<1>4. ASSUME CloseBegin \/ CloseStep PROVE LockPlace'
  <2>1. ASSUME CloseLock \/ CloseUnlock PROVE LockPlace'
    BY <2>1 DEF CloseLock, CloseUnlock, CloseGoes, wVars
  <2>2. ASSUME ~CloseLock, ~CloseUnlock PROVE LockPlace'
    BY <1>4, <2>2 DEF CloseBegin, CloseStep, CloseDrainOne, CloseConn, CloseStore, CloseAwaited,
                      CloseForced, CloseJoined, CloseGoes, wVars
  <2> QED BY <2>1, <2>2
<1>5. ASSUME ConnDrops \/ \E x \in Channels : ChanNotices(x) PROVE LockPlace'
  BY <1>1, <1>5 DEF ConnDrops, ChanNotices, wVars
<1> QED BY <1>2, <1>3, <1>4, <1>5 DEF Next

LEMMA LockInvariant == Spec => []LockPlace
<1>1. ASSUME Init PROVE LockPlace
  BY <1>1, NoneAssumption DEF Init, LockPlace
<1>2. LockPlace /\ [Next]_vars => LockPlace'
  <2>1. ASSUME LockPlace, UNCHANGED vars PROVE LockPlace'
    BY <2>1 DEF LockPlace, vars, wVars
  <2> QED BY <2>1, LockStep
<1> QED BY <1>1, <1>2, PTL DEF Spec

(* poolMu is held by the watcher exactly while it drains and fills the pool, *)
(* and by Close exactly while it drains it: every way out of refreshPool,    *)
(* the failing ones included, releases it.                                   *)
THEOREM LockIsReleased == Spec => []LockPlace
<1> QED BY LockInvariant

(* What the watcher has yet to pool is of the connection it is installing. *)
FillsItsOwn == wpc = "filling" => \A i \in DOMAIN created : ConnOf(created[i]) = wconn

LEMMA FillsStep ==
  ASSUME IInv, FillsItsOwn, Next
  PROVE  FillsItsOwn'
<1>1. ASSUME UNCHANGED <<wpc, wconn, created>> PROVE FillsItsOwn'
  BY <1>1 DEF FillsItsOwn
<1>2. ASSUME NEW p \in Publishers, PubStep(p) PROVE FillsItsOwn'
  <2>1. UNCHANGED <<wpc, wconn, created>>
    BY <1>2 DEF PubStep, PubStart, GetLive, GetDead, GetGivesUp, PubEnter, PubReturns, PutRefused,
                PutChecked, PutWaits, Put, PutDiscards, wVars
  <2> QED BY <1>1, <2>1
<1>3. ASSUME WCheck \/ WDial \/ WDialFails \/ WLock \/ WCreateFails \/ WSwap \/ WSeesClose \/ WStops
      PROVE  FillsItsOwn'
  BY <1>3 DEF WCheck, WDial, WDialFails, WLock, WCreateFails, WSwap, WSeesClose, WStops, FillsItsOwn
<1>4. ASSUME WDrainOne PROVE FillsItsOwn'
  BY <1>1, <1>4 DEF WDrainOne, wVars
<1>5. ASSUME WCreate PROVE FillsItsOwn'
  BY <1>5 DEF WCreate, FillsItsOwn, AllOf, Slots, ConnOf
<1>6. ASSUME WFill PROVE FillsItsOwn'
  <2>1. /\ created \in Seq(Channels) /\ created # <<>> /\ Injective(created)
        /\ created' = Tail(created) /\ UNCHANGED <<wpc, wconn>>
    BY <1>6 DEF WFill, IInv, TypeOK, Places
  <2>2. \A i \in DOMAIN created' : i + 1 \in DOMAIN created /\ created'[i] = created[i + 1]
    BY <2>1
  <2> QED BY <2>1, <2>2 DEF FillsItsOwn
<1>7. ASSUME CloseBegin \/ CloseStep \/ ConnDrops \/ \E x \in Channels : ChanNotices(x)
      PROVE  FillsItsOwn'
  <2>1. UNCHANGED <<wpc, wconn, created>>
    BY <1>7 DEF CloseBegin, CloseStep, CloseLock, CloseDrainOne, CloseUnlock, CloseConn,
       CloseStore, CloseAwaited, CloseForced, CloseJoined, ConnDrops, ChanNotices, wVars
  <2> QED BY <1>1, <2>1
<1> QED BY <1>2, <1>3, <1>4, <1>5, <1>6, <1>7 DEF Next, WatcherStep

(* As many things are in a sequence without repetitions as it is long. *)
LEMMA ElementsCounted ==
  ASSUME NEW S, NEW s \in Seq(S), Injective(s)
  PROVE  IsFiniteSet(Range(s)) /\ Cardinality(Range(s)) = Len(s)
<1>1. Len(s) \in Nat /\ s \in [1..Len(s) -> Range(s)] /\ DOMAIN s = 1..Len(s)
  BY DEF Range
<1>2. s \in Bijection(1..Len(s), Range(s))
  <2>1. s \in Injection(1..Len(s), Range(s))
    BY <1>1 DEF Injection, Injective, IsInjective
  <2>2. s \in Surjection(1..Len(s), Range(s))
    BY <1>1 DEF Surjection, Range
  <2> QED BY <2>1, <2>2 DEF Bijection
<1>3. ExistsBijection(1..Len(s), Range(s))
  BY <1>2 DEF ExistsBijection
<1> QED BY <1>1, <1>3, FS_NatBijection, FS_CountingElements

(* The watcher blocks on a full pool only because a publisher has put back a *)
(* channel of a connection before, after refreshPool had emptied the pool:   *)
(* the channels it creates itself always fit.                                *)
THEOREM BlockedByReturnedChannel ==
  Spec => [](FillBlocked => \E i \in DOMAIN pool : ConnOf(pool[i]) # wconn)
<1>1. ASSUME Init PROVE FillsItsOwn
  BY <1>1 DEF Init, FillsItsOwn
<1>2. IInv /\ FillsItsOwn /\ [Next]_vars => FillsItsOwn'
  <2>1. ASSUME FillsItsOwn, UNCHANGED vars PROVE FillsItsOwn'
    BY <2>1 DEF FillsItsOwn, vars, wVars
  <2> QED BY <2>1, FillsStep
<1>3. ASSUME IInv, FillsItsOwn, FillBlocked
      PROVE  \E i \in DOMAIN pool : ConnOf(pool[i]) # wconn
  <2> SUFFICES ASSUME \A i \in DOMAIN pool : ConnOf(pool[i]) = wconn PROVE FALSE
    OBVIOUS
  <2>1. /\ wpc = "filling" /\ wconn \in Conns /\ created # <<>> /\ created \in Seq(Channels)
        /\ pool \in Seq(Channels) /\ Injective(pool) /\ Injective(created)
        /\ Range(pool) \cap Range(created) = {}
    BY <1>3 DEF IInv, FillBlocked, WatcherPlace, Places, TypeOK
  <2>2. Len(pool) = PoolSize
    BY <1>3, <2>1, PoolSizeAssumption DEF FillBlocked, HasRoom, IInv, TypeOK
  <2> DEFINE Own == Range(AllOf(wconn))
  <2>3. IsFiniteSet(Own) /\ Cardinality(Own) = PoolSize
    BY <2>1, AllOfProperties, ElementsCounted
  <2>4. IsFiniteSet(Range(pool)) /\ Cardinality(Range(pool)) = PoolSize
    BY <2>1, <2>2, ElementsCounted
  <2>5. \A x \in Channels : x \in Own <=> ConnOf(x) = wconn
    BY <2>1, AllOfProperties
  <2>6. Range(pool) \subseteq Own
    BY <2>1, <2>5 DEF Range
  <2>7. Head(created) \in Range(created) /\ Head(created) \in Channels
    BY <2>1, TailElements
  <2>8. Head(created) \in Own
    BY <1>3, <2>1, <2>5, <2>7 DEF FillsItsOwn, Range
  <2>9. Own = Range(pool)
    <3> HIDE DEF Own
    <3> QED BY <2>3, <2>4, <2>6, FS_Subset
  <2> QED BY <2>1, <2>7, <2>8, <2>9
<1> QED BY <1>1, <1>2, <1>3, PoolInvariant, PTL DEF Spec

(* Close waits for poolMu, the watcher for room, and nobody is at the pool. *)
Hung ==
  mClosed /\ cpc = "locking" /\ FillBlocked /\ \A p \in Publishers : pc[p] # "getting"

(* Such a hang is for ever: no step of anybody ends it, for no publisher     *)
(* gets past the closed flag to take a channel, and those that still return  *)
(* one find no room.                                                         *)
THEOREM HangIsForEver == Spec => [](Hung => []Hung)
<1> USE NoneAssumption DEF Hung, FillBlocked
<1>1. ASSUME IInv, LockPlace, Hung, Next PROVE Hung'
  <2>1. poolMu = "watcher" /\ pool # <<>>
    BY <1>1, PoolSizeAssumption DEF LockPlace, HasRoom
  <2>2. ASSUME NEW p \in Publishers, PubStep(p) PROVE Hung'
    <3>1. pc[p] # "getting" /\ mClosed /\ ~HasRoom
      BY <1>1
    <3>2. UNCHANGED <<pool, mClosed, cpc, wpc, created>>
      BY <2>2, <3>1 DEF PubStep, PubStart, GetLive, GetDead, GetGivesUp, PubEnter, PubReturns,
         PutRefused, PutChecked, PutWaits, Put, PutDiscards, PubGoes, poolVars, wVars
    <3>3. \A q \in Publishers : pc'[q] # "getting"
      <4>1. \E to \in {"idle", "publishing", "returning", "putting", "putwait"} :
              pc' = [pc EXCEPT ![p] = to]
        BY <2>2, <3>1 DEF PubStep, PubStart, GetLive, GetDead, GetGivesUp, PubEnter, PubReturns,
           PutRefused, PutChecked, PutWaits, Put, PutDiscards, PutDown, PubGoes
      <4> QED BY <1>1, <4>1 DEF IInv, TypeOK
    <3> QED BY <1>1, <3>2, <3>3 DEF HasRoom
  <2>3. ASSUME WatcherStep PROVE FALSE
    BY <1>1, <2>3 DEF WatcherStep, WCheck, WDial, WDialFails, WLock, WDrainOne, WCreate,
       WCreateFails, WFill, WSwap, WSeesClose, WStops
  <2>4. ASSUME CloseBegin \/ CloseStep PROVE FALSE
    BY <1>1, <2>1, <2>4 DEF CloseBegin, CloseStep, CloseLock, CloseDrainOne, CloseUnlock,
       CloseConn, CloseStore, CloseAwaited, CloseForced, CloseJoined, CloseGoes
  <2>5. ASSUME ConnDrops \/ \E x \in Channels : ChanNotices(x) PROVE Hung'
    BY <1>1, <2>5 DEF ConnDrops, ChanNotices, HasRoom, poolVars, pubVars, wVars
  <2> QED BY <1>1, <2>2, <2>3, <2>4, <2>5 DEF Next
<1>2. Hung /\ UNCHANGED vars => Hung'
  BY DEF vars, poolVars, pubVars, wVars, HasRoom
<1>3. IInv /\ LockPlace /\ Hung /\ [Next]_vars => Hung'
  BY <1>1, <1>2
<1> QED BY <1>3, PoolInvariant, LockInvariant, PTL DEF Spec

-----------------------------------------------------------------------------
(* Each channel as the pool uses it. *)

(* A step that leaves everybody where they are creates or closes, if it      *)
(* touches the channel at all.                                               *)
LEMMA AsideKeepsUse ==
  ASSUME NEW x \in Channels, UNCHANGED Inside(x),
         \/ chan'[x] = chan[x]
         \/ chan[x] = "new" /\ chan'[x] = "live"
         \/ chan[x] = "live" /\ chan'[x] = "dead"
  PROVE  [Use(x)!Next]_(Use(x)!useVars)
BY DEF Use!Next, Use!useVars, Use!Created, Use!Dies

LEMMA PublisherKeepsUse ==
  ASSUME IInv, NEW x \in Channels, NEW p \in Publishers, PubStep(p)
  PROVE  [Use(x)!Next]_(Use(x)!useVars)
<1>0. /\ chan \in [Channels -> {"new", "live", "dead"}]
      /\ held \in [Publishers -> Channels \cup {None}]
      /\ pool \in Seq(Channels)
      /\ pc \in [Publishers -> {"idle", "getting", "holding", "publishing", "returning",
                                 "putting", "putwait"}]
  BY DEF IInv, TypeOK
<1>1. ASSUME pc[p] # "publishing", NEW to \in {"idle", "getting", "holding", "returning", "putting",
                                               "putwait"},
             pc' = [pc EXCEPT ![p] = to],
             \A q \in Publishers \ {p} : held'[q] = held[q]
      PROVE  UNCHANGED Inside(x)
  BY <1>0, <1>1 DEF Inside
<1>2. CASE PubStart(p) \/ GetLive(p) \/ GetGivesUp(p) \/ PutChecked(p) \/ PutWaits(p) \/ Put(p)
  <2>1. UNCHANGED chan
    BY <1>2 DEF PubStart, GetLive, GetGivesUp, PutChecked, PutWaits, Put, poolVars
  <2>2. \A q \in Publishers \ {p} : held'[q] = held[q]
    BY <1>0, <1>2 DEF PubStart, GetLive, GetGivesUp, PutChecked, PutWaits, Put, PutDown
  <2>3. PICK to \in {"idle", "getting", "holding", "putting", "putwait"} :
          pc[p] # "publishing" /\ pc' = [pc EXCEPT ![p] = to]
    BY <1>2 DEF PubStart, GetLive, GetGivesUp, PutChecked, PutWaits, Put, PutDown, PubGoes
  <2> QED BY <1>1, <2>1, <2>2, <2>3, AsideKeepsUse
<1>3. CASE GetDead(p)
  <2>1. Head(pool) \in Channels /\ chan[Head(pool)] = "dead" /\ CloseChan(Head(pool))
    BY <1>0, <1>3 DEF GetDead
  <2>2. chan'[x] = chan[x]
    BY <1>0, <2>1 DEF CloseChan
  <2>3. UNCHANGED Inside(x)
    BY <1>3 DEF GetDead, pubVars, Inside
  <2> QED BY <2>2, <2>3, AsideKeepsUse
<1>4. CASE PubEnter(p)
  <2>1. /\ pc[p] = "holding" /\ pc' = [pc EXCEPT ![p] = "publishing"]
        /\ UNCHANGED <<chan, held>>
    BY <1>4 DEF PubEnter, PubGoes, poolVars
  <2>2. CASE held[p] = x
    <3>1. Inside(x) = {} /\ Inside(x)' = {p}
      BY <1>0, <2>1, <2>2, NoneAssumption DEF IInv, Places, Inside
    <3>2. chan[x] # "new" /\ chan'[x] = chan[x]
      BY <2>1, <2>2, NoneAssumption DEF IInv, Unborn
    <3> QED BY <3>1, <3>2 DEF Use!Next, Use!Enters
  <2>3. CASE held[p] # x
    <3>1. UNCHANGED Inside(x)
      BY <1>0, <2>1, <2>3 DEF Inside
    <3> QED BY <2>1, <3>1, AsideKeepsUse
  <2> QED BY <2>2, <2>3
<1>5. CASE PubReturns(p)
  <2>1. /\ pc[p] = "publishing" /\ pc' = [pc EXCEPT ![p] = "returning"]
        /\ UNCHANGED held
        /\ CloseChan(held[p]) \/ UNCHANGED chan
    BY <1>5 DEF PubReturns, PubGoes
  <2>2. CASE held[p] = x
    <3>1. Inside(x) = {p} /\ Inside(x)' = {}
      BY <1>0, <2>1, <2>2, NoneAssumption DEF IInv, Places, Inside
    <3>2. chan'[x] \in {chan[x], "dead"}
      BY <1>0, <2>1, <2>2 DEF CloseChan
    <3> QED BY <3>1, <3>2 DEF Use!Next, Use!Leaves
  <2>3. CASE held[p] # x
    <3>1. UNCHANGED Inside(x)
      BY <1>0, <2>1, <2>3 DEF Inside
    <3>2. chan'[x] = chan[x]
      BY <1>0, <2>1, <2>3 DEF CloseChan
    <3> QED BY <3>1, <3>2, AsideKeepsUse
  <2> QED BY <2>2, <2>3
<1>6. CASE PutRefused(p) \/ PutDiscards(p)
  <2>1. /\ pc[p] \in {"returning", "putwait"} /\ pc' = [pc EXCEPT ![p] = "idle"]
        /\ held' = [held EXCEPT ![p] = None] /\ CloseChan(held[p])
    BY <1>6 DEF PutRefused, PutDiscards, PutDown, PubGoes
  <2>2. held[p] \in Channels /\ chan[held[p]] # "new"
    BY <1>0, <2>1 DEF IInv, Places, Unborn, InHand
  <2>3. chan'[x] = chan[x] \/ (chan[x] = "live" /\ chan'[x] = "dead")
    BY <1>0, <2>1, <2>2 DEF CloseChan
  <2>4. UNCHANGED Inside(x)
    BY <1>0, <1>1, <2>1
  <2> QED BY <2>3, <2>4, AsideKeepsUse
<1> QED BY <1>2, <1>3, <1>4, <1>5, <1>6 DEF PubStep

LEMMA OtherStepKeepsUse ==
  ASSUME IInv, NEW x \in Channels,
         \/ WatcherStep \/ CloseBegin \/ CloseStep \/ ConnDrops
         \/ \E y \in Channels : ChanNotices(y)
  PROVE  [Use(x)!Next]_(Use(x)!useVars)
<1>0. chan \in [Channels -> {"new", "live", "dead"}] /\ pool \in Seq(Channels)
  BY DEF IInv, TypeOK
<1>1. UNCHANGED Inside(x)
  <2>1. UNCHANGED <<pc, held>>
    BY DEF WatcherStep, WCheck, WDial, WDialFails, WLock, WDrainOne, WCreate, WCreateFails, WFill,
           WSwap, WSeesClose, WStops, CloseBegin, CloseStep, CloseLock, CloseDrainOne,
           CloseUnlock, CloseConn, CloseStore, CloseAwaited, CloseForced, CloseJoined,
           ConnDrops, ChanNotices, pubVars
  <2> QED BY <2>1 DEF Inside
<1>2. ASSUME NEW y \in Channels, chan[y] # "new", CloseChan(y)
      PROVE  chan'[x] = chan[x] \/ (chan[x] = "live" /\ chan'[x] = "dead")
  BY <1>0, <1>2 DEF CloseChan
<1>3. CASE WDrainOne \/ CloseDrainOne
  <2>1. pool # <<>> /\ CloseChan(Head(pool))
    BY <1>3 DEF WDrainOne, CloseDrainOne
  <2>2. Head(pool) \in Channels /\ Head(pool) \in Range(pool)
    BY <1>0, <2>1 DEF Range
  <2>3. chan[Head(pool)] # "new"
    BY <2>2 DEF IInv, Unborn, Used
  <2> QED BY <1>1, <1>2, <2>1, <2>2, <2>3, AsideKeepsUse
<1>4. CASE \E y \in Channels : ChanNotices(y)
  BY <1>1, <1>2, <1>4, AsideKeepsUse DEF ChanNotices
<1>5. CASE WCreate
  <2>1. chan'[x] = IF ConnOf(x) = wconn THEN "live" ELSE chan[x]
    BY <1>5 DEF WCreate
  <2>2. ConnOf(x) = wconn => chan[x] = "new"
    BY <1>5 DEF WCreate, IInv, WatcherPlace
  <2> QED BY <1>1, <2>1, <2>2, AsideKeepsUse
<1>6. CASE ~WDrainOne /\ ~CloseDrainOne /\ ~WCreate /\ ~\E y \in Channels : ChanNotices(y)
  <2>1. UNCHANGED chan
    BY <1>6 DEF WatcherStep, WCheck, WDial, WDialFails, WLock, WCreateFails, WFill,
           WSwap, WSeesClose, WStops, CloseBegin, CloseStep, CloseLock,
           CloseUnlock, CloseConn, CloseStore, CloseAwaited, CloseForced, CloseJoined,
           ConnDrops, poolVars
  <2> QED BY <1>1, <2>1, AsideKeepsUse
<1> QED BY <1>3, <1>4, <1>5, <1>6

(* Whatever publishers, watcher and Close do, a channel is created once and  *)
(* has one caller at a time in publishWithConfirm: what is proved of a       *)
(* ConfirmChannel that is Exclusive holds of each channel of the pool.       *)
THEOREM PoolUsesAsAgreed == Spec => UsedAsAgreed
<1>1. ASSUME Init, NEW x \in Channels PROVE Use(x)!Init
  BY <1>1 DEF Init, Use!Init, Inside
<1>2. IInv /\ [Next]_vars => \A x \in Channels : [Use(x)!Next]_(Use(x)!useVars)
  <2>1. ASSUME NEW x \in Channels, UNCHANGED vars PROVE UNCHANGED Use(x)!useVars
    BY <2>1 DEF vars, poolVars, pubVars, Use!useVars, Inside
  <2>2. ASSUME IInv, NEW x \in Channels, Next PROVE [Use(x)!Next]_(Use(x)!useVars)
    BY <2>2, PublisherKeepsUse, OtherStepKeepsUse DEF Next
  <2> QED BY <2>1, <2>2
<1>3. Init => \A x \in Channels : Use(x)!Init
  BY <1>1
<1> QED BY <1>2, <1>3, PoolInvariant, PTL DEF Spec, UsedAsAgreed
=============================================================================
