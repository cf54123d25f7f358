---------------------------- MODULE Consumer_proofs ----------------------------
(***************************************************************************)
(* Proofs about Consumer, for any number of workers, messages, connections *)
(* and any limits.                                                         *)
(*                                                                         *)
(* DeliveriesMatch is inductive only together with Places, which says what *)
(* a worker may have in its hands, its Go channel and its AMQP channel at  *)
(* each place of workerLoop: it is why a delivery of a lost channel cannot *)
(* meet the next channel, and why a worker that left holds nothing.  The   *)
(* same two say what the contract may see of a step: the calls of a worker *)
(* that lost its delivery are hidden from it.                              *)
(***************************************************************************)
EXTENDS Consumer, FiniteSetTheorems, TLAPS

Busy    == {"handling", "acking", "nacking", "panicked"}
Looping == {"subscribed", "consuming"} \cup Busy

Places ==
  \A w \in Workers :
    /\ job[w] # None <=> loop[w] \in Busy
    /\ loop[w] \notin Looping => buf[w] = {}
    /\ loop[w] \notin Looping \cup {"opened"} => chan[w] = None
    /\ job[w] \notin buf[w]

Attempts ==
  \A w \in Workers :
    /\ loop[w] = "handling" => attempt[w] < RetryLimit
    /\ loop[w] = "nacking" => attempt[w] = RetryLimit
    /\ loop[w] \notin Busy => attempt[w] = 0
    /\ loop[w] = "acking" => job[w] \in handled

(* A worker launched after Stop has waited finds the context cancelled. *)
Joined ==
  /\ spc # "idle" => ctxDone
  /\ spc = "done" => \A w \in Workers : loop[w] \in {"new", "top", "exit", "left"}

IInv == ConsumerTypeOK /\ DeliveriesMatch /\ Places /\ Attempts /\ AckedWasHandled /\ Joined

LEMMA Limits == RetryLimit \in Nat \ {0} /\ NotFoundLimit \in Nat \ {0}
BY LimitsAssumption

LEMMA InitHolds == ConsumerInit => IInv
<1> SUFFICES ASSUME ConsumerInit PROVE IInv
  OBVIOUS
<1>1. ConsumerTypeOK
  <2>1. 0 \in 0..RetryLimit /\ 0 \in 0..NotFoundLimit
    BY Limits
  <2>2. mClosed \in BOOLEAN /\ ctxDone \in BOOLEAN /\ cut \in [Workers -> BOOLEAN]
    BY Zenon DEF ConsumerInit
  <2> QED BY <2>1, <2>2, ConnsAssumption DEF ConsumerInit, ConsumerTypeOK
<1>2. DeliveriesMatch
  BY NamesAssumption DEF ConsumerInit, DeliveriesMatch
<1>3. Places /\ Attempts /\ AckedWasHandled /\ Joined
  BY DEF ConsumerInit, Places, Attempts, AckedWasHandled, Joined, Busy, Looping
<1> QED BY <1>1, <1>2, <1>3 DEF IInv

-----------------------------------------------------------------------------
(* Steps of a worker. *)

(* A move within the loop, or outside it, that keeps all it has. *)
LEMMA MoveKeepsInv ==
  ASSUME IInv, NEW w \in Workers,
         NEW to \in {"top", "asking", "exit", "left", "subscribed", "consuming",
                     "acking", "nacking", "panicked", "handling"},
         Goes(w, loop[w], to),
         loop[w] \in Busy <=> to \in Busy,
         loop[w] \in Looping => to \in Looping,
         loop[w] = "opened" => to \in Looping,
         loop[w] \in {"new", "top"} /\ ctxDone => to \in {"top", "exit"},
         loop[w] \notin {"exit", "left"},
         attempt' \in [Workers -> 0..RetryLimit],
         \A v \in Workers : v # w => attempt'[v] = attempt[v],
         to = "handling" => attempt'[w] < RetryLimit,
         to = "nacking" => attempt'[w] = RetryLimit,
         to \notin Busy => attempt'[w] = 0,
         to = "acking" => job[w] \in handled',
         cut' \in [Workers -> BOOLEAN],
         notFound' \in Nat, streak' \in 0..NotFoundLimit,
         handled \subseteq handled', handled' \subseteq Messages,
         UNCHANGED <<connVars, place, chan, buf, job, ctxDone, wVars, spc>>
  PROVE  IInv'
<1>0. /\ ConsumerTypeOK /\ DeliveriesMatch /\ Places /\ Attempts /\ AckedWasHandled /\ Joined
      /\ loop \in [Workers -> {"new", "top", "asking", "opened", "subscribed", "missed", "consuming",
                         "handling", "acking", "nacking", "panicked", "exit", "left"}]
  BY DEF IInv, ConsumerTypeOK
<1>1. ConsumerTypeOK'
  BY <1>0 DEF ConsumerTypeOK, Goes, connVars, wVars
<1>2. DeliveriesMatch'
  BY <1>0 DEF DeliveriesMatch
<1>3. Places'
  BY <1>0 DEF Places, Goes, Busy, Looping
<1>4. Attempts'
  <2> SUFFICES ASSUME NEW v \in Workers
               PROVE  /\ loop'[v] = "handling" => attempt'[v] < RetryLimit
                      /\ loop'[v] = "nacking" => attempt'[v] = RetryLimit
                      /\ loop'[v] \notin Busy => attempt'[v] = 0
                      /\ loop'[v] = "acking" => job'[v] \in handled'
    BY DEF Attempts
  <2>1. CASE v = w
    BY <1>0, <2>1 DEF Goes
  <2>2. CASE v # w
    BY <1>0, <2>2 DEF Goes, Attempts
  <2> QED BY <2>1, <2>2
<1>5. AckedWasHandled'
  BY <1>0 DEF AckedWasHandled
<1>6. Joined'
  BY <1>0 DEF Joined, Goes
<1> QED BY <1>1, <1>2, <1>3, <1>4, <1>5, <1>6 DEF IInv

(* Closing channels gives back what is unacknowledged on them. *)
LEMMA CloseChansMatch ==
  ASSUME IInv, NEW ws \in SUBSET Workers, CloseChans(ws)
  PROVE  /\ place' \in [Messages -> {"queue", "acked", "rejected"} \cup Workers]
         /\ chan' \in [Workers -> Conns \cup {None}]
         /\ \A m \in Messages : place'[m] = "acked" <=> place[m] = "acked"
         /\ \A v \in Workers : v \in ws => chan'[v] = None
         /\ \A v \in Workers : v \notin ws => chan'[v] = chan[v]
         /\ \A v \in Workers, m \in Messages :
              place'[m] = v <=> (place[m] = v /\ v \notin ws)
BY NamesAssumption DEF IInv, ConsumerTypeOK, CloseChans

(* Channels close under workers that do not know yet (ChanDies, ConnDrops, *)
(* StopConn).                                                              *)
LEMMA ChansGoKeepsInv ==
  ASSUME IInv, NEW ws \in SUBSET Workers, CloseChans(ws),
         UNCHANGED <<conn, mClosed, buf, job, attempt, cut, loop, seenVars, ctxDone, wVars>>,
         connState' \in [Conns -> {"new", "open", "closed"}],
         spc' = spc \/ (spc # "idle" /\ spc' = "storing")
  PROVE  IInv'
<1>1. ConsumerTypeOK'
  BY CloseChansMatch DEF IInv, ConsumerTypeOK, seenVars, wVars
<1>2. DeliveriesMatch'
  BY CloseChansMatch DEF IInv, DeliveriesMatch
<1>3. Places'
  BY CloseChansMatch DEF IInv, Places
<1>4. Attempts'
  BY DEF IInv, Attempts, seenVars
<1>5. AckedWasHandled'
  BY CloseChansMatch DEF IInv, AckedWasHandled, seenVars
<1>6. Joined'
  BY DEF IInv, Joined
<1> QED BY <1>1, <1>2, <1>3, <1>4, <1>5, <1>6 DEF IInv

(* The worker closes its channel itself, on any way out of the loop. *)
LEMMA LeavesKeepsInv ==
  ASSUME IInv, NEW w \in Workers, NEW to \in {"top", "missed", "exit"},
         NEW from \in {"opened", "consuming"},
         Leaves(w, from, to), streak' \in 0..NotFoundLimit,
         UNCHANGED <<connVars, job, attempt, cut, notFound, handled, ctxDone, wVars, spc>>
  PROVE  IInv'
<1>0. /\ CloseChans({w}) /\ {w} \in SUBSET Workers
      /\ loop[w] = from /\ loop' = [loop EXCEPT ![w] = to]
      /\ buf' = [buf EXCEPT ![w] = {}]
  BY DEF Leaves, Goes
<1>1. ConsumerTypeOK'
  BY <1>0, CloseChansMatch DEF IInv, ConsumerTypeOK, connVars, wVars
<1>2. DeliveriesMatch'
  BY <1>0, CloseChansMatch DEF IInv, ConsumerTypeOK, DeliveriesMatch
<1>3. Places'
  BY <1>0, CloseChansMatch DEF IInv, ConsumerTypeOK, Places, Busy, Looping
<1>4. Attempts'
  BY <1>0 DEF IInv, ConsumerTypeOK, Attempts, Busy
<1>5. AckedWasHandled'
  BY <1>0, CloseChansMatch DEF IInv, AckedWasHandled
<1>6. Joined'
  BY <1>0 DEF IInv, ConsumerTypeOK, Joined
<1> QED BY <1>1, <1>2, <1>3, <1>4, <1>5, <1>6 DEF IInv

LEMMA GetChannelKeepsInv ==
  ASSUME IInv, NEW w \in Workers, GetChannel(w)
  PROVE  IInv'
<1>0. /\ loop[w] = "asking" /\ loop' = [loop EXCEPT ![w] = "opened"]
      /\ chan' = [chan EXCEPT ![w] = conn] /\ conn \in Conns
      /\ UNCHANGED <<connVars, place, buf, job, attempt, cut, seenVars, ctxDone, wVars, spc>>
  BY DEF GetChannel, Goes, Open, IInv, ConsumerTypeOK
<1>1. ConsumerTypeOK'
  BY <1>0 DEF IInv, ConsumerTypeOK, connVars, seenVars, wVars
<1>2. DeliveriesMatch'
  <2>1. job[w] = None /\ buf[w] = {} /\ chan[w] = None
    BY <1>0 DEF IInv, Places, Busy, Looping
  <2> QED BY <1>0, <2>1, NamesAssumption DEF IInv, ConsumerTypeOK, DeliveriesMatch
<1>3. Places'
  BY <1>0 DEF IInv, ConsumerTypeOK, Places, Busy, Looping
<1>4. Attempts' /\ AckedWasHandled' /\ Joined'
  BY <1>0 DEF IInv, ConsumerTypeOK, Attempts, AckedWasHandled, Joined, Busy, seenVars
<1> QED BY <1>1, <1>2, <1>3, <1>4 DEF IInv

LEMMA TakeKeepsInv ==
  ASSUME IInv, NEW w \in Workers, NEW m \in Messages, Take(w, m)
  PROVE  IInv'
<1>0. /\ loop[w] = "consuming" /\ loop' = [loop EXCEPT ![w] = "handling"]
      /\ m \in buf[w] /\ buf' = [buf EXCEPT ![w] = @ \ {m}]
      /\ job[w] = None /\ job' = [job EXCEPT ![w] = m]
      /\ attempt[w] = 0 /\ 0 < RetryLimit
      /\ UNCHANGED <<connVars, place, chan, attempt, cut, seenVars, ctxDone, wVars, spc>>
  BY Limits DEF Take, Goes, IInv, Places, Attempts, Busy
<1>1. ConsumerTypeOK'
  BY <1>0 DEF IInv, ConsumerTypeOK, connVars, seenVars, wVars
<1>2. DeliveriesMatch'
  BY <1>0, NamesAssumption DEF IInv, ConsumerTypeOK, DeliveriesMatch
<1>3. Places'
  BY <1>0, NamesAssumption DEF IInv, ConsumerTypeOK, Places, Busy, Looping
<1>4. Attempts'
  BY <1>0 DEF IInv, ConsumerTypeOK, Attempts, Busy, seenVars
<1>5. AckedWasHandled' /\ Joined'
  BY <1>0 DEF IInv, ConsumerTypeOK, AckedWasHandled, Joined, seenVars
<1> QED BY <1>1, <1>2, <1>3, <1>4, <1>5 DEF IInv

(* Ack and Nack; the worker's live delivery is the one it settles. *)
LEMMA SettleKeepsInv ==
  ASSUME IInv, NEW w \in Workers, NEW from \in {"acking", "nacking", "panicked"},
         NEW verdict \in {"acked", "rejected"}, SettleAs(w, from, verdict),
         verdict = "acked" => from = "acking"
  PROVE  IInv'
<1>0. /\ loop[w] = from /\ loop' = [loop EXCEPT ![w] = "consuming"]
      /\ job' = [job EXCEPT ![w] = None]
      /\ attempt' = [attempt EXCEPT ![w] = 0]
      /\ cut' = [cut EXCEPT ![w] = FALSE]
      /\ UNCHANGED <<connVars, chan, buf, seenVars, ctxDone, wVars, spc>>
      /\ job[w] \in Messages /\ job[w] # None /\ job[w] \notin buf[w]
      /\ from = "acking" => job[w] \in handled
      /\ place' = IF place[job[w]] = w THEN [place EXCEPT ![job[w]] = verdict] ELSE place
  BY DEF SettleAs, Returns, Goes, IInv, ConsumerTypeOK, Places, Attempts, Busy
<1>1. ConsumerTypeOK'
  BY <1>0, Limits DEF IInv, ConsumerTypeOK, connVars, seenVars, wVars
<1>2. DeliveriesMatch'
  <2> SUFFICES ASSUME NEW v \in Workers, NEW m \in Messages
               PROVE  place'[m] = v <=> chan'[v] # None /\ (job'[v] = m \/ m \in buf'[v])
    BY DEF DeliveriesMatch
  <2>0. /\ place[m] = v <=> chan[v] # None /\ (job[v] = m \/ m \in buf[v])
        /\ place[job[w]] = w <=> chan[w] # None
        /\ place[job[w]] = v <=> chan[v] # None /\ (job[v] = job[w] \/ job[w] \in buf[v])
        /\ verdict # v /\ m # None
        /\ chan' = chan /\ buf' = buf
    BY <1>0, NamesAssumption DEF IInv, DeliveriesMatch
  <2>1. place'[m] = IF m = job[w] /\ place[m] = w THEN verdict ELSE place[m]
    BY <1>0 DEF IInv, ConsumerTypeOK
  <2>2. job'[v] = IF v = w THEN None ELSE job[v]
    BY <1>0 DEF IInv, ConsumerTypeOK
  <2>3. CASE m = job[w]
    BY <1>0, <2>0, <2>1, <2>2, <2>3
  <2>4. CASE m # job[w]
    BY <1>0, <2>0, <2>1, <2>2, <2>4
  <2> QED BY <2>3, <2>4
<1>3. Places'
  BY <1>0, NamesAssumption DEF IInv, ConsumerTypeOK, Places, Busy, Looping
<1>4. Attempts'
  BY <1>0 DEF IInv, ConsumerTypeOK, Attempts, Busy, seenVars
<1>5. AckedWasHandled'
  BY <1>0 DEF IInv, ConsumerTypeOK, AckedWasHandled, seenVars
<1>6. Joined'
  BY <1>0 DEF IInv, ConsumerTypeOK, Joined
<1> QED BY <1>1, <1>2, <1>3, <1>4, <1>5, <1>6 DEF IInv

LEMMA WorkerKeepsInv ==
  ASSUME IInv, NEW w \in Workers, WorkerStep(w)
  PROVE  IInv'
<1>0. /\ ConsumerTypeOK /\ Attempts /\ Places
      /\ attempt \in [Workers -> 0..RetryLimit] /\ cut \in [Workers -> BOOLEAN]
      /\ notFound \in Nat /\ streak \in 0..NotFoundLimit /\ handled \subseteq Messages
      /\ NotFoundLimit \in Nat /\ RetryLimit \in Nat
      /\ job \in [Workers -> Messages \cup {None}]
  BY Limits DEF IInv, ConsumerTypeOK
<1>1. CASE StartWorker(w) \/ TopStops(w) \/ TopGoesOn(w) \/ GetFails(w)
  <2>1. PICK t \in {"exit", "asking", "top"} :
          /\ Goes(w, loop[w], t) /\ loop[w] \in {"new", "top", "asking"}
          /\ loop[w] \in {"new", "top"} /\ ctxDone => t \in {"top", "exit"}
    BY <1>1 DEF StartWorker, TopStops, TopGoesOn, GetFails, Goes
  <2>2. UNCHANGED <<connVars, place, workVars, seenVars, ctxDone, wVars, spc>>
    BY <1>1 DEF StartWorker, TopStops, TopGoesOn, GetFails
  <2> QED BY <1>0, <2>1, <2>2, MoveKeepsInv DEF Busy, Looping, Attempts, workVars, seenVars
<1>2. CASE GetChannel(w)
  BY <1>2, GetChannelKeepsInv
<1>3. CASE SubscribeFinds(w)
  <2>1. Goes(w, loop[w], "subscribed") /\ loop[w] = "opened" /\ attempt[w] = 0
    BY <1>0, <1>3 DEF SubscribeFinds, Goes, Attempts, Busy
  <2> QED BY <1>0, <1>3, <2>1, MoveKeepsInv DEF SubscribeFinds, Busy, Looping, workVars
<1>4. CASE Subscribed(w)
  <2>1. Goes(w, loop[w], "consuming") /\ loop[w] = "subscribed" /\ attempt[w] = 0
    BY <1>0, <1>4 DEF Subscribed, Goes, Attempts, Busy
  <2> QED BY <1>0, <1>4, <2>1, MoveKeepsInv DEF Subscribed, Busy, Looping, workVars
<1>5. CASE CountMiss(w)
  <2>1. PICK t \in {"left", "top"} : Goes(w, loop[w], t) /\ loop[w] = "missed"
    BY <1>5 DEF CountMiss, Goes
  <2>2. attempt[w] = 0 /\ notFound' \in Nat
    BY <1>0, <1>5, <2>1 DEF CountMiss, Attempts, Busy
  <2> QED BY <1>0, <1>5, <2>1, <2>2, MoveKeepsInv DEF CountMiss, Busy, Looping, workVars
<1>6. CASE HandlerSucceeds(w)
  <2>1. /\ Goes(w, loop[w], "acking") /\ loop[w] = "handling" /\ job[w] \in Messages
    BY <1>0, <1>6 DEF HandlerSucceeds, Goes, Places, Busy
  <2>2. handled \subseteq handled' /\ handled' \subseteq Messages /\ job[w] \in handled'
    BY <1>0, <1>6, <2>1 DEF HandlerSucceeds
  <2> QED BY <1>0, <1>6, <2>1, <2>2, MoveKeepsInv DEF HandlerSucceeds, Busy, Looping, workVars
<1>7. CASE HandlerFails(w)
  <2>1. PICK t \in {"handling", "nacking"} :
          /\ Goes(w, loop[w], t) /\ loop[w] = "handling"
          /\ attempt'[w] = RetryLimit <=> t = "nacking"
    BY <1>7 DEF HandlerFails, Goes
  <2>2. /\ attempt' \in [Workers -> 0..RetryLimit]
        /\ \A v \in Workers : v # w => attempt'[v] = attempt[v]
        /\ t = "handling" => attempt'[w] < RetryLimit
        /\ t = "nacking" => attempt'[w] = RetryLimit
    BY <1>0, <1>7, <2>1 DEF HandlerFails, Attempts
  <2>3. cut' \in [Workers -> BOOLEAN]
    BY <1>0, <1>7, Zenon DEF HandlerFails, IInv, ConsumerTypeOK
  <2> QED BY <1>0, <1>7, <2>1, <2>2, <2>3, MoveKeepsInv
          DEF HandlerFails, Busy, Looping, seenVars
<1>8. CASE HandlerPanics(w)
  <2>1. Goes(w, loop[w], "panicked") /\ loop[w] = "handling"
    BY <1>8 DEF HandlerPanics, Goes
  <2> QED BY <1>0, <1>8, <2>1, MoveKeepsInv
          DEF HandlerPanics, Busy, Looping, workVars, seenVars
<1>9. CASE SubscribeFails(w)
  BY <1>0, <1>9, LeavesKeepsInv DEF SubscribeFails, seenVars
<1>10. CASE SubscribeMisses(w)
  <2>1. streak' \in 0..NotFoundLimit
    BY <1>0, <1>10 DEF SubscribeMisses
  <2> QED BY <1>10, <2>1, LeavesKeepsInv DEF SubscribeMisses
<1>11. CASE LoopStops(w)
  BY <1>0, <1>11, LeavesKeepsInv DEF LoopStops, seenVars
<1>12. CASE LoopSeesClosed(w)
  BY <1>0, <1>12, LeavesKeepsInv DEF LoopSeesClosed, seenVars
<1>13. CASE \E m \in Messages : Take(w, m)
  BY <1>13, TakeKeepsInv
<1>14. CASE Ack(w) \/ Nack(w)
  BY <1>14, SettleKeepsInv DEF Ack, Nack
<1> QED
  BY <1>1, <1>2, <1>3, <1>4, <1>5, <1>6, <1>7, <1>8, <1>9, <1>10, <1>11, <1>12, <1>13, <1>14
  DEF WorkerStep, Handler

-----------------------------------------------------------------------------
(* The other steps. *)

LEMMA DeliverKeepsInv ==
  ASSUME IInv, NEW m \in Messages, Deliver(m)
  PROVE  IInv'
<1>0. PICK w \in Workers :
        /\ place[m] = "queue" /\ chan[w] # None /\ loop[w] \in Looping
        /\ place' = [place EXCEPT ![m] = w]
        /\ buf' = [buf EXCEPT ![w] = @ \cup {m}]
        /\ UNCHANGED <<connVars, chan, job, attempt, cut, loop, seenVars, ctxDone, wVars, spc>>
  BY DEF Deliver, Looping, Busy
<1>1. ConsumerTypeOK'
  BY <1>0 DEF IInv, ConsumerTypeOK, connVars, seenVars, wVars
<1>2. \A v \in Workers : place[m] # v
  BY <1>0, NamesAssumption
<1>3. DeliveriesMatch'
  BY <1>0, <1>2 DEF IInv, ConsumerTypeOK, DeliveriesMatch
<1>4. job[w] # m
  BY <1>0, <1>2 DEF IInv, DeliveriesMatch
<1>5. Places'
  BY <1>0, <1>4 DEF IInv, ConsumerTypeOK, Places
<1>6. Attempts' /\ AckedWasHandled' /\ Joined'
  BY <1>0, NamesAssumption DEF IInv, ConsumerTypeOK, Attempts, AckedWasHandled, Joined, seenVars
<1> QED BY <1>1, <1>3, <1>5, <1>6 DEF IInv

(* The watcher, Stop and the end of the context leave the workers alone. *)
LEMMA OtherKeepsInv ==
  ASSUME IInv, UNCHANGED <<place, workVars, loop, seenVars>>,
         conn' \in Conns \cup {None}, connState' \in [Conns -> {"new", "open", "closed"}],
         mClosed' \in BOOLEAN, ctxDone' \in BOOLEAN,
         wpc' \in {"top", "dialing", "storing", "watching", "exit"},
         wconn' \in Conns \cup {None},
         spc' \in {"idle", "closing", "loading", "storing", "waiting", "done", "forced"},
         spc' # "idle" => ctxDone',
         spc' = "done" => spc = "done" \/ \A w \in Workers : Gone(w) \/ loop[w] = "new"
  PROVE  IInv'
<1>1. ConsumerTypeOK'
  BY DEF IInv, ConsumerTypeOK, workVars, seenVars
<1>2. DeliveriesMatch' /\ Places' /\ Attempts' /\ AckedWasHandled'
  BY DEF IInv, DeliveriesMatch, Places, Attempts, AckedWasHandled, workVars, seenVars
<1>3. Joined'
  BY DEF IInv, Joined, Gone
<1> QED BY <1>1, <1>2, <1>3 DEF IInv

LEMMA WatcherKeepsInv == ASSUME IInv, WatcherStep PROVE IInv'
<1>0. /\ spc # "idle" => ctxDone
      /\ conn \in Conns \cup {None} /\ connState \in [Conns -> {"new", "open", "closed"}]
      /\ mClosed \in BOOLEAN /\ ctxDone \in BOOLEAN
      /\ wconn \in Conns \cup {None}
      /\ spc \in {"idle", "closing", "loading", "storing", "waiting", "done", "forced"}
  BY DEF IInv, ConsumerTypeOK, Joined
<1>1. CASE WCheck
  BY <1>0, <1>1, OtherKeepsInv DEF WCheck, connVars
<1>2. CASE WDial
  BY <1>0, <1>2, OtherKeepsInv DEF WDial
<1>3. CASE WDialFails \/ WStops
  BY <1>0, <1>3, OtherKeepsInv DEF WDialFails, WStops, connVars
<1>4. CASE WStore \/ WSeesClose
  BY <1>0, <1>4, OtherKeepsInv DEF WStore, WSeesClose
<1> QED BY <1>1, <1>2, <1>3, <1>4 DEF WatcherStep

LEMMA StopKeepsInv == ASSUME IInv, CtxEnds \/ StopBegin \/ StopStep PROVE IInv'
<1>0. /\ spc # "idle" => ctxDone
      /\ conn \in Conns \cup {None} /\ connState \in [Conns -> {"new", "open", "closed"}]
      /\ mClosed \in BOOLEAN /\ ctxDone \in BOOLEAN
      /\ wpc \in {"top", "dialing", "storing", "watching", "exit"}
      /\ wconn \in Conns \cup {None}
      /\ spc \in {"idle", "closing", "loading", "storing", "waiting", "done", "forced"}
  BY DEF IInv, ConsumerTypeOK, Joined
<1>1. CASE CtxEnds \/ StopBegin
  BY <1>0, <1>1, OtherKeepsInv DEF CtxEnds, StopBegin, StopGoes, connVars, wVars
<1>2. CASE StopMarks \/ StopNoConn \/ StopStore
  BY <1>0, <1>2, OtherKeepsInv DEF StopMarks, StopNoConn, StopStore, StopGoes, connVars, wVars
<1>3. CASE StopWaited \/ StopForced
  BY <1>0, <1>3, OtherKeepsInv DEF StopWaited, StopForced, StopGoes, connVars, wVars
<1>4. CASE StopConn
  <2>1. /\ CloseChans({w \in Workers : chan[w] = conn})
        /\ connState' \in [Conns -> {"new", "open", "closed"}]
    BY <1>0, <1>4 DEF StopConn, ConnGoes
  <2> QED BY <1>4, <2>1, ChansGoKeepsInv DEF StopConn
<1> QED BY <1>1, <1>2, <1>3, <1>4 DEF StopStep

LEMMA BrokerKeepsInv == ASSUME IInv, BrokerStep PROVE IInv'
<1>0. connState \in [Conns -> {"new", "open", "closed"}]
  BY DEF IInv, ConsumerTypeOK
<1>1. CASE \E m \in Messages : Deliver(m)
  BY <1>1, DeliverKeepsInv
<1>2. ASSUME NEW w \in Workers, ChanDies(w) PROVE IInv'
  BY <1>0, <1>2, ChansGoKeepsInv DEF ChanDies, connVars
<1>3. CASE ConnDrops
  <2>1. PICK k \in Conns : ConnGoes(k)
    BY <1>3 DEF ConnDrops
  <2>2. /\ CloseChans({w \in Workers : chan[w] = k})
        /\ connState' \in [Conns -> {"new", "open", "closed"}]
    BY <1>0, <2>1 DEF ConnGoes
  <2> QED BY <1>3, <2>2, ChansGoKeepsInv DEF ConnDrops
<1> QED BY <1>1, <1>2, <1>3 DEF BrokerStep

LEMMA NextKeepsInv == IInv /\ [ConsumerNext]_consumerVars => IInv'
<1>1. ASSUME IInv, UNCHANGED consumerVars PROVE IInv'
  BY <1>1 DEF IInv, ConsumerTypeOK, DeliveriesMatch, Places, Attempts, AckedWasHandled, Joined,
     consumerVars, connVars, workVars, seenVars, wVars
<1> QED
  BY <1>1, WorkerKeepsInv, WatcherKeepsInv, StopKeepsInv, BrokerKeepsInv DEF ConsumerNext

-----------------------------------------------------------------------------
(* Theorems. *)

(* The invariant of every reachable state. *)
THEOREM ConsumerInvariant == ConsumerSpec => []IInv
<1> QED BY InitHolds, NextKeepsInv, PTL DEF ConsumerSpec

(* Every variable keeps its type; no delivery is tried more than RetryLimit *)
(* times.                                                                  *)
THEOREM TypeCorrect == ConsumerSpec => []ConsumerTypeOK
<1>1. IInv => ConsumerTypeOK
  BY DEF IInv
<1> QED BY <1>1, ConsumerInvariant, PTL

(* No delivery is stranded: what the broker holds back as unacknowledged   *)
(* at a worker is what the worker has on its open channel.                 *)
THEOREM NothingStranded == ConsumerSpec => []DeliveriesMatch
<1>1. IInv => DeliveriesMatch
  BY DEF IInv
<1> QED BY <1>1, ConsumerInvariant, PTL

(* Nothing is acknowledged for which no handler call returned nil. *)
THEOREM AckNeedsSuccess == ConsumerSpec => []AckedWasHandled
<1>1. IInv => AckedWasHandled
  BY DEF IInv
<1> QED BY <1>1, ConsumerInvariant, PTL

(* When Stop returns nil no message is held by a worker any more. *)
THEOREM StopIsClean == ConsumerSpec => []StopGivesBack
<1>1. IInv => StopGivesBack
  <2> SUFFICES ASSUME IInv, spc = "done", NEW m \in Messages, NEW w \in Workers, place[m] = w
               PROVE  FALSE
    BY DEF StopGivesBack
  <2>1. chan[w] # None
    BY DEF IInv, DeliveriesMatch
  <2>2. loop[w] \in {"new", "top", "exit", "left"}
    BY DEF IInv, Joined
  <2> QED BY <2>1, <2>2 DEF IInv, Places, Looping, Busy
<1> QED BY <1>1, ConsumerInvariant, PTL

-----------------------------------------------------------------------------
(* The connection, between the watcher that replaces it and Stop.              *)

OneConnOpen ==
  \A k, l \in Conns : connState[k] = "open" /\ connState[l] = "open" => k = l

ConnPlace ==
  /\ OneConnOpen
  /\ ~mClosed =>
       /\ spc \in {"idle", "closing"}
       /\ \A k \in Conns : connState[k] = "open" => k = conn \/ k = wconn
       /\ wpc = "watching" => conn = wconn
  /\ wpc \in {"top", "dialing", "exit"} => wconn = None
  /\ wpc = "dialing" => \A k \in Conns : connState[k] # "open"
  /\ wpc = "storing" => \A k \in Conns : connState[k] = "open" => k = wconn

LEMMA WatcherKeepsConn == ASSUME IInv, ConnPlace, WatcherStep PROVE ConnPlace'
<1> USE ConnsAssumption DEF ConnPlace, OneConnOpen
<1>0. connState \in [Conns -> {"new", "open", "closed"}] /\ conn \in Conns \cup {None}
      /\ wconn \in Conns \cup {None} /\ mClosed \in BOOLEAN
  BY DEF IInv, ConsumerTypeOK
<1>1. CASE WCheck
  BY <1>0, <1>1 DEF WCheck, Open, connVars
<1>2. CASE WDial
  <2>1. PICK k \in Conns : connState' = [connState EXCEPT ![k] = "open"] /\ wconn' = k
    BY <1>2 DEF WDial
  <2>2. \A l \in Conns : connState'[l] = "open" => l = k
    BY <1>0, <1>2, <2>1 DEF WDial
  <2> QED BY <1>2, <2>1, <2>2 DEF WDial
<1>3. CASE WDialFails
  BY <1>3 DEF WDialFails, connVars
<1>4. CASE WStops
  BY <1>4 DEF WStops, connVars
<1>5. CASE WStore
  BY <1>5 DEF WStore
<1>6. CASE WSeesClose
  BY <1>0, <1>6 DEF WSeesClose, Open
<1> QED BY <1>1, <1>2, <1>3, <1>4, <1>5, <1>6 DEF WatcherStep

LEMMA NextKeepsConn == IInv /\ ConnPlace /\ [ConsumerNext]_consumerVars => ConnPlace'
<1> SUFFICES ASSUME IInv, ConnPlace, [ConsumerNext]_consumerVars PROVE ConnPlace'
  OBVIOUS
<1>0. connState \in [Conns -> {"new", "open", "closed"}]
  BY DEF IInv, ConsumerTypeOK
<1>1. ASSUME UNCHANGED <<conn, mClosed, wpc, wconn>>,
             spc' = spc \/ mClosed \/ spc' \in {"idle", "closing"},
             \A k \in Conns : connState'[k] = "open" => connState[k] = "open"
      PROVE  ConnPlace'
  BY <1>1 DEF ConnPlace, OneConnOpen
<1>2. ASSUME NEW w \in Workers, WorkerStep(w) PROVE ConnPlace'
  <2>1. UNCHANGED <<conn, connState, mClosed, wpc, wconn, spc>>
    BY <1>2 DEF WorkerStep, StartWorker, TopStops, TopGoesOn, GetFails, GetChannel, SubscribeFails,
       SubscribeFinds, Subscribed, SubscribeMisses, CountMiss, LoopStops, LoopSeesClosed, Take,
       Handler, HandlerSucceeds, HandlerFails, HandlerPanics, Ack, Nack, SettleAs, Returns,
       connVars, wVars
  <2> QED BY <1>1, <2>1
<1>3. ASSUME WatcherStep PROVE ConnPlace'
  BY <1>3, WatcherKeepsConn
<1>4. ASSUME CtxEnds \/ StopBegin \/ BrokerStep PROVE ConnPlace'
  <2>1. UNCHANGED <<conn, mClosed, wpc, wconn>> /\ spc' \in {spc, "closing"}
    BY <1>4 DEF CtxEnds, StopBegin, StopGoes, BrokerStep, Deliver, ChanDies, ConnDrops, connVars,
       wVars
  <2>2. connState' = connState \/ \E k \in Conns : connState' = [connState EXCEPT ![k] = "closed"]
    BY <1>4 DEF CtxEnds, StopBegin, StopGoes, BrokerStep, Deliver, ChanDies, ConnDrops, ConnGoes,
       connVars
  <2>3. \A k \in Conns : connState'[k] = "open" => connState[k] = "open"
    BY <1>0, <2>2
  <2> QED BY <1>1, <2>1, <2>3
<1>5. ASSUME StopMarks \/ StopStore PROVE ConnPlace'
  BY <1>5 DEF StopMarks, StopStore, StopGoes, ConnPlace, OneConnOpen, wVars
<1>6. ASSUME StopConn \/ StopNoConn \/ StopWaited \/ StopForced PROVE ConnPlace'
  <2>1. UNCHANGED <<conn, mClosed, wpc, wconn>> /\ mClosed
    BY <1>6 DEF StopConn, StopNoConn, StopWaited, StopForced, StopGoes, ConnPlace, connVars, wVars
  <2>2. connState' = connState \/ connState' = [connState EXCEPT ![conn] = "closed"]
    BY <1>6 DEF StopConn, StopNoConn, StopWaited, StopForced, ConnGoes, connVars
  <2>3. \A k \in Conns : connState'[k] = "open" => connState[k] = "open"
    BY <1>0, <2>2
  <2> QED BY <1>1, <2>1, <2>3
<1>7. ASSUME UNCHANGED consumerVars PROVE ConnPlace'
  BY <1>1, <1>7 DEF consumerVars, connVars, wVars
<1> QED BY <1>2, <1>3, <1>4, <1>5, <1>6, <1>7 DEF ConsumerNext, StopStep

(* The consumer never has two connections open: one is dialled only when the   *)
(* one before is gone, and a watcher that stores a connection after Stop has   *)
(* closed the manager (storeConn asks nothing) leaves that one at most.        *)
THEOREM OneConnectionAtMost == ConsumerSpec => []OneConnOpen
<1>1. ASSUME ConsumerInit PROVE ConnPlace
  BY <1>1, ConnsAssumption DEF ConsumerInit, ConnPlace, OneConnOpen
<1>2. ConnPlace => OneConnOpen
  BY DEF ConnPlace
<1> QED BY <1>1, <1>2, NextKeepsConn, ConsumerInvariant, PTL DEF ConsumerSpec

(* How many steps the watcher has left at most when the manager is closed. *)
StepsLeft(at) ==
  CASE at = "dialing" -> 3
    [] at \in {"storing", "watching"} -> 2
    [] at = "top" -> 1
    [] OTHER -> 0

(* Once the manager is closed every step of the watcher brings it nearer to    *)
(* its end: three at most, and one dial among them, whatever connections close *)
(* meanwhile (the safe half of StopEnds).                                      *)
THEOREM WatcherWindsDown ==
  ConsumerSpec => [][mClosed => /\ mClosed'
                                /\ WatcherStep => StepsLeft(wpc') < StepsLeft(wpc)
                                /\ wpc' # wpc => WatcherStep]_consumerVars
<1> DEFINE WindsDown == mClosed => /\ mClosed'
                                   /\ WatcherStep => StepsLeft(wpc') < StepsLeft(wpc)
                                   /\ wpc' # wpc => WatcherStep
<1>1. ASSUME ConsumerNext, mClosed PROVE WindsDown
  <2>1. ASSUME WatcherStep PROVE mClosed' /\ StepsLeft(wpc') < StepsLeft(wpc)
    <3>1. mClosed'
      BY <1>1, <2>1 DEF WatcherStep, WCheck, WDial, WDialFails, WStore, WSeesClose, WStops, connVars
    <3>2. \/ wpc = "dialing" /\ wpc' \in {"storing", "top"}
          \/ wpc = "storing" /\ wpc' = "top"
          \/ wpc = "watching" /\ wpc' \in {"top", "exit"}
          \/ wpc = "top" /\ wpc' = "exit"
      BY <1>1, <2>1 DEF WatcherStep, WCheck, WDial, WDialFails, WStore, WSeesClose, WStops
    <3> QED BY <3>1, <3>2 DEF StepsLeft
  <2>2. ASSUME NEW w \in Workers, WorkerStep(w) PROVE mClosed' /\ wpc' = wpc
    BY <1>1, <2>2 DEF WorkerStep, StartWorker, TopStops, TopGoesOn, GetFails, GetChannel,
       SubscribeFails, SubscribeFinds, Subscribed, SubscribeMisses, CountMiss, LoopStops,
       LoopSeesClosed, Take, Handler, HandlerSucceeds, HandlerFails, HandlerPanics, Ack, Nack,
       SettleAs, Returns, connVars, wVars
  <2>3. ASSUME CtxEnds \/ StopBegin \/ StopStep \/ BrokerStep PROVE mClosed' /\ wpc' = wpc
    BY <1>1, <2>3 DEF CtxEnds, StopBegin, StopStep, StopMarks, StopConn, StopNoConn, StopStore,
       StopWaited, StopForced, StopGoes, BrokerStep, Deliver, ChanDies, ConnDrops, connVars, wVars
  <2>4. WatcherStep => WindsDown
    BY <2>1
  <2>5. mClosed' /\ wpc' = wpc /\ ~WatcherStep => WindsDown
    OBVIOUS
  <2> HIDE DEF WindsDown
  <2> QED BY <1>1, <2>2, <2>3, <2>4, <2>5 DEF ConsumerNext
<1>2. [ConsumerNext]_consumerVars => [WindsDown]_consumerVars
  BY <1>1
<1> QED BY <1>2, PTL DEF ConsumerSpec

-----------------------------------------------------------------------------
(* A worker that is neither about to count a 404 nor gone has one to come      *)
(* before it leaves.  With those the broker's 404s since its last good answer  *)
(* exceed what the count may show without a worker having left; unless one     *)
(* that got a good answer has yet to zero the count.                           *)
ToCome == {w \in Workers : loop[w] \notin {"missed", "left"}}

Misses ==
  /\ \/ \E w \in Workers : loop[w] = "subscribed"
     \/ streak = NotFoundLimit
     \/ streak + Cardinality(ToCome) > IF notFound < NotFoundLimit THEN notFound
                                                                  ELSE NotFoundLimit - 1
  /\ (\A w \in Workers : loop[w] = "left") => notFound >= NotFoundLimit

(* The count and the answers go on together. *)
LEMMA MissesGoOn ==
  ASSUME IInv, Misses, [ConsumerNext]_consumerVars
  PROVE  Misses'
<1>0. /\ loop \in [Workers -> {"new", "top", "asking", "opened", "subscribed", "missed", "consuming",
                         "handling", "acking", "nacking", "panicked", "exit", "left"}]
      /\ notFound \in Nat /\ streak \in 0..NotFoundLimit /\ NotFoundLimit \in Nat \ {0}
  BY Limits DEF IInv, ConsumerTypeOK
<1>1. IsFiniteSet(ToCome) /\ Cardinality(ToCome) \in Nat
  <2>1. ToCome \subseteq Workers
    BY DEF ToCome
  <2> QED
    BY <2>1, WorkersAssumption, FS_Subset, FS_CardinalityType
<1>2. ASSUME UNCHANGED <<loop, notFound, streak>>  PROVE Misses'
  BY <1>2 DEF Misses, ToCome
<1>3. ASSUME NEW w \in Workers, NEW to, loop' = [loop EXCEPT ![w] = to],
             loop[w] \notin {"missed", "left", "subscribed"}, to \notin {"missed", "left"},
             UNCHANGED <<notFound, streak>>
      PROVE  Misses'
  <2>1. ToCome' = ToCome
    BY <1>0, <1>3 DEF ToCome
  <2> QED
    BY <1>0, <1>3, <2>1 DEF Misses
<1>4. ASSUME NEW w \in Workers, SubscribeFinds(w)  PROVE Misses'
  BY <1>0, <1>4 DEF SubscribeFinds, Goes, Misses
<1>5. ASSUME NEW w \in Workers, Subscribed(w)  PROVE Misses'
  <2>1. /\ notFound' = 0 /\ streak' = streak /\ loop'[w] = "consuming"
        /\ loop' = [loop EXCEPT ![w] = "consuming"] /\ loop[w] = "subscribed"
    BY <1>0, <1>5 DEF Subscribed, Goes
  <2>2. ToCome' = ToCome /\ w \in ToCome
    BY <1>0, <2>1 DEF ToCome
  <2>3. Cardinality(ToCome) # 0
    BY <1>1, <2>2, FS_EmptySet
  <2> QED
    BY <1>0, <1>1, <2>1, <2>2, <2>3 DEF Misses
<1>6. ASSUME NEW w \in Workers, SubscribeMisses(w)  PROVE Misses'
  <2>1. /\ loop[w] = "opened" /\ loop' = [loop EXCEPT ![w] = "missed"] /\ notFound' = notFound
        /\ streak' = IF streak < NotFoundLimit THEN streak + 1 ELSE streak
    BY <1>6 DEF SubscribeMisses, Leaves, Goes
  <2>2. ToCome' = ToCome \ {w} /\ w \in ToCome
    BY <1>0, <2>1 DEF ToCome
  <2>3. Cardinality(ToCome') = Cardinality(ToCome) - 1
    BY <1>1, <2>2, FS_RemoveElement
  <2> QED
    BY <1>0, <1>1, <2>1, <2>3 DEF Misses
<1>7. ASSUME NEW w \in Workers, CountMiss(w)  PROVE Misses'
  <2>1. /\ loop[w] = "missed" /\ notFound' = notFound + 1 /\ streak' = streak
        /\ loop' = [loop EXCEPT ![w] = IF notFound + 1 >= NotFoundLimit THEN "left" ELSE "top"]
    BY <1>7 DEF CountMiss, Goes
  <2>2. CASE notFound + 1 >= NotFoundLimit
    <3>1. ToCome' = ToCome
      BY <1>0, <2>1, <2>2 DEF ToCome
    <3> QED
      BY <1>0, <1>1, <2>1, <2>2, <3>1 DEF Misses
  <2>3. CASE notFound + 1 < NotFoundLimit
    <3>1. ToCome' = ToCome \cup {w} /\ w \notin ToCome
      BY <1>0, <2>1, <2>3 DEF ToCome
    <3>2. Cardinality(ToCome') = Cardinality(ToCome) + 1
      BY <1>1, <3>1, FS_AddElement
    <3> QED
      BY <1>0, <1>1, <2>1, <2>3, <3>2 DEF Misses
  <2> QED
    BY <1>0, <2>2, <2>3
<1>8. ASSUME NEW w \in Workers, WorkerStep(w)  PROVE Misses'
  <2>1. CASE \/ StartWorker(w) \/ TopStops(w) \/ TopGoesOn(w)
             \/ GetFails(w) \/ GetChannel(w) \/ SubscribeFails(w)
    BY <1>3, <2>1
       DEF StartWorker, TopStops, TopGoesOn, GetFails, GetChannel, SubscribeFails, Leaves, Goes, seenVars
  <2>2. CASE LoopStops(w) \/ LoopSeesClosed(w) \/ \E m \in Messages : Take(w, m)
    BY <1>3, <2>2 DEF LoopStops, LoopSeesClosed, Take, Leaves, Goes, seenVars
  <2>3. CASE Handler(w)
    BY <1>3, <2>3 DEF Handler, HandlerSucceeds, HandlerFails, HandlerPanics, Goes, seenVars
  <2>4. CASE Ack(w) \/ Nack(w)
    BY <1>3, <2>4 DEF Ack, Nack, SettleAs, Returns, Goes, seenVars
  <2> QED
    BY <1>4, <1>5, <1>6, <1>7, <1>8, <2>1, <2>2, <2>3, <2>4 DEF WorkerStep
<1>9. CASE WatcherStep
  BY <1>2, <1>9 DEF WatcherStep, WCheck, WDial, WDialFails, WStore, WSeesClose, WStops, seenVars
<1>10. CASE CtxEnds \/ StopBegin \/ StopStep
  BY <1>2, <1>10
     DEF CtxEnds, StopBegin, StopStep, StopMarks, StopConn, StopNoConn, StopStore, StopWaited,
         StopForced, seenVars
<1>11. CASE BrokerStep
  BY <1>2, <1>11 DEF BrokerStep, Deliver, ChanDies, ConnDrops, seenVars
<1>12. CASE UNCHANGED consumerVars
  BY <1>2, <1>12 DEF consumerVars, seenVars
<1> QED
  BY <1>8, <1>9, <1>10, <1>11, <1>12 DEF ConsumerNext

(* A queue's workers are all gone only when the broker's last answers, as many *)
(* as the limit, were 404 (consumer.go:185-224).                               *)
THEOREM GoneOnlyIfMissing == ConsumerSpec => []UnitGoneMeansMissing
<1>1. ConsumerInit => Misses
  <2>1. SUFFICES ASSUME ConsumerInit  PROVE Misses
    OBVIOUS
  <2>2. ToCome = Workers
    BY <2>1 DEF ConsumerInit, ToCome
  <2>3. Cardinality(Workers) \in Nat \ {0}
    BY WorkersAssumption, FS_CardinalityType, FS_EmptySet
  <2> QED
    BY <2>1, <2>2, <2>3, Limits, WorkersAssumption DEF ConsumerInit, Misses
<1>2. IInv /\ Misses /\ [ConsumerNext]_consumerVars => Misses'
  BY MissesGoOn
<1>3. IInv /\ Misses => UnitGoneMeansMissing
  <2> SUFFICES ASSUME IInv, Misses, \A w \in Workers : loop[w] = "left"
               PROVE  streak = NotFoundLimit
    BY DEF UnitGoneMeansMissing
  <2>1. ToCome = {} /\ Cardinality(ToCome) = 0 /\ streak \in 0..NotFoundLimit
    BY FS_EmptySet DEF ToCome, IInv, ConsumerTypeOK
  <2> QED
    BY <2>1, Limits DEF Misses, IInv, ConsumerTypeOK
<1> QED
  BY <1>1, <1>2, <1>3, ConsumerInvariant, PTL DEF ConsumerSpec
-----------------------------------------------------------------------------
(* Consumer keeps DeliveryContract.  What the contract sees of a message:      *)
Same(m) == place'[m] = place[m] /\ Failed(m)' = Failed(m) /\ Answer(m)' = Answer(m)

LEMMA AllSame ==
  ASSUME IInv, IInv', \A m \in Messages : Same(m)
  PROVE  UNCHANGED Delivery!vars
<1>1. place' = place
  BY DEF IInv, ConsumerTypeOK, Same
<1> QED
  BY <1>1 DEF Same, Delivery!vars

(* A worker that calls no handler has nothing in hand, and begins with no      *)
(* failed call.                                                                *)
LEMMA OutsideHandler ==
  ASSUME IInv, IInv', UNCHANGED place,
         \A w \in Workers : loop[w] \in Busy =>
           job'[w] = job[w] /\ attempt'[w] = attempt[w] /\ loop'[w] = loop[w],
         \A w \in Workers : loop[w] \notin Busy =>
           job'[w] = None \/ (attempt'[w] = 0 /\ loop'[w] = "handling")
  PROVE  UNCHANGED Delivery!vars
<1> SUFFICES ASSUME NEW m \in Messages  PROVE Same(m)
  BY AllSame
<1>1. CASE place[m] \notin Workers
  BY <1>1 DEF Same, Failed, Answer, InHand
<1>2. CASE place[m] \in Workers
  <2> DEFINE w == place[m]
  <2>1. m # None /\ place'[m] = w /\ w \in Workers
    BY <1>2, NamesAssumption
  <2>2. CASE loop[w] \in Busy
    BY <2>1, <2>2 DEF Same, Failed, Answer, InHand
  <2>3. CASE loop[w] \notin Busy
    <3>1. job[w] = None
      BY <2>1, <2>3 DEF IInv, Places
    <3>2. Failed(m) = 0 /\ Answer(m) = "none"
      BY <2>1, <3>1 DEF Failed, Answer, InHand
    <3>3. Failed(m)' = 0 /\ Answer(m)' = "none"
      BY <2>1, <2>3 DEF Failed, Answer, InHand
    <3> QED
      BY <2>1, <3>2, <3>3 DEF Same
  <2> QED
    BY <2>2, <2>3
<1> QED
  BY <1>1, <1>2

(* What a worker makes of its message is seen while it holds it.               *)
Verdict(at) == IF at = "acking" THEN "ok" ELSE IF at = "panicked" THEN "panic" ELSE "none"

LEMMA InsideHandler ==
  ASSUME IInv, NEW w \in Workers, loop[w] \in Busy,
         UNCHANGED <<place, job>>,
         \A v \in Workers : v # w => attempt'[v] = attempt[v] /\ loop'[v] = loop[v]
  PROVE  /\ job[w] \in Messages
         /\ \A m \in Messages : m # job[w] \/ place[m] # w => Same(m)
         /\ \A m \in Messages : m = job[w] /\ place[m] = w =>
              /\ Failed(m) = attempt[w] /\ Failed(m)' = attempt'[w]
              /\ Answer(m) = Verdict(loop[w]) /\ Answer(m)' = Verdict(loop'[w])
<1>1. job[w] \in Messages
  BY DEF IInv, ConsumerTypeOK, Places
<1>2. ASSUME NEW m \in Messages, m # job[w] \/ place[m] # w  PROVE Same(m)
  <2>1. CASE place[m] = w
    BY <1>2, <2>1 DEF Same, Failed, Answer, InHand
  <2>2. CASE place[m] # w
    BY <2>2 DEF Same, Failed, Answer, InHand
  <2> QED
    BY <2>1, <2>2
<1>3. ASSUME NEW m \in Messages, m = job[w], place[m] = w
      PROVE  /\ Failed(m) = attempt[w] /\ Failed(m)' = attempt'[w]
             /\ Answer(m) = Verdict(loop[w]) /\ Answer(m)' = Verdict(loop'[w])
  <2>1. place'[m] = w /\ job'[w] = m
    BY <1>3
  <2>2. InHand(m) /\ InHand(m)'
    BY <1>3, <2>1 DEF InHand
  <2> QED
    BY <1>3, <2>1, <2>2 DEF Failed, Answer, Verdict
<1> QED
  BY <1>1, <1>2, <1>3

(* Channels close: what was held on them is lost.                              *)
LEMMA ChansGoLose ==
  ASSUME IInv, IInv', NEW ws \in SUBSET Workers, CloseChans(ws), UNCHANGED <<job, attempt>>,
         \A w \in Workers : loop[w] \in Busy => loop'[w] = loop[w]
  PROVE  [Delivery!Next]_Delivery!vars
<1>0. /\ place' = [m \in Messages |-> IF place[m] \in ws THEN "queue" ELSE place[m]]
      /\ place \in [Messages -> {"queue", "acked", "rejected"} \cup Workers]
  BY DEF CloseChans, IInv, ConsumerTypeOK
<1>1. CASE \A m \in Messages : place[m] \notin ws
  <2>1. place' = place
    BY <1>0, <1>1
  <2>2. \A w \in Workers : loop[w] \notin Busy => job'[w] = None
    BY DEF IInv, Places
  <2> QED
    BY <2>1, <2>2, OutsideHandler
<1>2. CASE \E m \in Messages : place[m] \in ws
  <2>1. ASSUME NEW m \in Messages
        PROVE  /\ Failed(m)' = IF place[m] \in ws THEN 0 ELSE Failed(m)
               /\ Answer(m)' = IF place[m] \in ws THEN "none" ELSE Answer(m)
    <3>1. CASE place[m] \in ws
      <4>1. place'[m] = "queue" /\ "queue" \notin Workers
        BY <1>0, <3>1, NamesAssumption
      <4> QED
        BY <3>1, <4>1 DEF Failed, Answer, InHand
    <3>2. CASE place[m] \notin ws
      <4>1. place'[m] = place[m]
        BY <1>0, <3>2
      <4>2. InHand(m) => loop[place[m]] \in Busy /\ loop'[place[m]] = loop[place[m]]
        BY NamesAssumption DEF InHand, IInv, Places
      <4>3. InHand(m)' = InHand(m)
        BY <4>1 DEF InHand
      <4> QED
        BY <3>2, <4>1, <4>2, <4>3 DEF Failed, Answer
    <3> QED
      BY <3>1, <3>2
  <2>2. Delivery!Lose(ws)
    BY <1>0, <1>2, <2>1 DEF Delivery!Lose
  <2> QED
    BY <2>2 DEF Delivery!Next
<1> QED
  BY <1>1, <1>2
LEMMA DeliverDelivers ==
  ASSUME IInv, NEW m \in Messages, Deliver(m)
  PROVE  Delivery!Next
<1>1. PICK w \in Workers :
        /\ place[m] = "queue" /\ chan[w] # None
        /\ place' = [place EXCEPT ![m] = w]
        /\ UNCHANGED <<job, attempt, loop>>
  BY DEF Deliver
<1>2. job[w] # m /\ place[m] \notin Workers
  BY <1>1, NamesAssumption DEF IInv, DeliveriesMatch
<1>3. ASSUME NEW n \in Messages  PROVE Failed(n)' = Failed(n) /\ Answer(n)' = Answer(n)
  <2>1. CASE n = m
    <3>1. place'[n] = w
      BY <1>1, <2>1 DEF IInv, ConsumerTypeOK
    <3> QED
      BY <1>1, <1>2, <2>1, <3>1 DEF Failed, Answer, InHand
  <2>2. CASE n # m
    <3>1. place'[n] = place[n]
      BY <1>1, <2>2 DEF IInv, ConsumerTypeOK
    <3> QED
      BY <1>1, <3>1 DEF Failed, Answer, InHand
  <2> QED
    BY <2>1, <2>2
<1>4. Delivery!Deliver(m, w)
  BY <1>1, <1>3 DEF Delivery!Deliver
<1> QED
  BY <1>4 DEF Delivery!Next

(* A call of the handler counts, or is that of a lost delivery.                *)
LEMMA CallsCount ==
  ASSUME IInv, IInv', NEW w \in Workers, Handler(w)
  PROVE  [Delivery!Next]_Delivery!vars
<1>0. /\ loop[w] = "handling" /\ UNCHANGED <<place, job>>
      /\ \A v \in Workers : v # w => attempt'[v] = attempt[v] /\ loop'[v] = loop[v]
      /\ attempt[w] \in Nat /\ attempt[w] < RetryLimit
  <2>1. /\ loop[w] = "handling" /\ UNCHANGED <<place, job>>
        /\ attempt \in [Workers -> 0..RetryLimit] /\ DOMAIN loop = Workers
        /\ RetryLimit \in Nat
    BY Limits DEF Handler, HandlerSucceeds, HandlerFails, HandlerPanics, Goes, IInv, ConsumerTypeOK,
       workVars
  <2>2. \A v \in Workers : v # w => attempt'[v] = attempt[v] /\ loop'[v] = loop[v]
    BY <2>1 DEF Handler, HandlerSucceeds, HandlerFails, HandlerPanics, Goes, workVars
  <2> QED
    BY <2>1, <2>2 DEF IInv, Attempts
<1>1. /\ job[w] \in Messages
      /\ \A m \in Messages : m # job[w] \/ place[m] # w => Same(m)
      /\ \A m \in Messages : m = job[w] /\ place[m] = w =>
           /\ Failed(m) = attempt[w] /\ Failed(m)' = attempt'[w]
           /\ Answer(m) = Verdict(loop[w]) /\ Answer(m)' = Verdict(loop'[w])
  BY <1>0, InsideHandler DEF Busy
<1>2. CASE place[job[w]] # w
  BY <1>1, <1>2, AllSame
<1>3. CASE place[job[w]] = w
  <2> DEFINE m == job[w]
  <2>1. m \in Messages /\ Delivery!Called(m)
    BY <1>0, <1>1, <1>3 DEF Delivery!Called, Verdict
  <2>2. \A n \in Messages : n # m => Failed(n)' = Failed(n) /\ Answer(n)' = Answer(n)
    BY <1>1 DEF Same
  <2>3. Failed(m) = attempt[w] /\ Answer(m) = "none"
    BY <1>0, <1>1, <1>3 DEF Verdict
  <2>4. \A n \in Messages : n = m => Failed(n)' = attempt'[w] /\ Answer(n)' = Verdict(loop'[w])
    BY <1>1, <1>3
  <2> HIDE DEF m
  <2>5. CASE HandlerFails(w)
    <3>1. attempt'[w] = attempt[w] + 1 /\ loop'[w] \in {"handling", "nacking"}
      BY <1>0, <2>5 DEF HandlerFails, Goes, IInv, ConsumerTypeOK
    <3>2. Delivery!Fails(m)
      BY <1>0, <2>1, <2>2, <2>3, <2>4, <3>1 DEF Delivery!Fails, Verdict
    <3> QED
      BY <2>1, <3>2 DEF Delivery!Next
  <2>6. CASE HandlerSucceeds(w)
    <3>1. attempt'[w] = attempt[w] /\ loop'[w] = "acking"
      BY <1>0, <2>6 DEF HandlerSucceeds, Goes, IInv, ConsumerTypeOK, workVars
    <3>2. Delivery!Answers(m, "ok")
      BY <1>0, <2>1, <2>2, <2>3, <2>4, <3>1 DEF Delivery!Answers, Verdict
    <3> QED
      BY <2>1, <3>2 DEF Delivery!Next
  <2>7. CASE HandlerPanics(w)
    <3>1. attempt'[w] = attempt[w] /\ loop'[w] = "panicked"
      BY <1>0, <2>7 DEF HandlerPanics, Goes, IInv, ConsumerTypeOK, workVars
    <3>2. Delivery!Answers(m, "panic")
      BY <1>0, <2>1, <2>2, <2>3, <2>4, <3>1 DEF Delivery!Answers, Verdict
    <3> QED
      BY <2>1, <3>2 DEF Delivery!Next
  <2> QED
    BY <2>5, <2>6, <2>7 DEF Handler
<1> QED
  BY <1>2, <1>3

(* What is settled was earned by the calls of this delivery.                   *)
LEMMA SettledAsEarned ==
  ASSUME IInv, IInv', NEW w \in Workers, Ack(w) \/ Nack(w)
  PROVE  [Delivery!Next]_Delivery!vars
<1>1. PICK from \in {"acking", "nacking", "panicked"}, verdict \in {"acked", "rejected"} :
        /\ SettleAs(w, from, verdict)
        /\ verdict = "acked" <=> from = "acking"
  BY DEF Ack, Nack
<1>2. /\ loop[w] = from /\ loop' = [loop EXCEPT ![w] = "consuming"]
      /\ job' = [job EXCEPT ![w] = None] /\ attempt' = [attempt EXCEPT ![w] = 0]
      /\ place' = IF place[job[w]] = w THEN [place EXCEPT ![job[w]] = verdict] ELSE place
      /\ job[w] \in Messages /\ job[w] # None
      /\ from = "nacking" => attempt[w] = RetryLimit
  BY <1>1 DEF SettleAs, Returns, Goes, IInv, ConsumerTypeOK, Places, Attempts, Busy
<1>3. /\ job \in [Workers -> Messages \cup {None}] /\ attempt \in [Workers -> 0..RetryLimit]
      /\ place \in [Messages -> {"queue", "acked", "rejected"} \cup Workers]
      /\ DOMAIN loop = Workers
      /\ verdict \notin Workers /\ None \notin Messages
  BY NamesAssumption DEF IInv, ConsumerTypeOK
<1>4. ASSUME NEW m \in Messages, m # job[w] \/ place[m] # w  PROVE Same(m)
  <2>1. place'[m] = place[m]
    BY <1>2, <1>3, <1>4
  <2>2. CASE place[m] = w
    BY <1>2, <1>3, <1>4, <2>1, <2>2 DEF Same, Failed, Answer, InHand
  <2>3. CASE place[m] # w
    <3>1. place[m] \in Workers => /\ job'[place[m]] = job[place[m]]
                                  /\ attempt'[place[m]] = attempt[place[m]]
                                  /\ loop'[place[m]] = loop[place[m]]
      BY <1>2, <1>3, <2>3
    <3> QED
      BY <2>1, <3>1 DEF Same, Failed, Answer, InHand
  <2> QED
    BY <2>2, <2>3
<1>5. CASE place[job[w]] # w
  BY <1>4, <1>5, AllSame
<1>6. CASE place[job[w]] = w
  <2> DEFINE m == job[w]
  <2>1. m \in Messages /\ place[m] = w /\ place' = [place EXCEPT ![m] = verdict]
    BY <1>2, <1>6
  <2>2. \A n \in Messages : n # m => Failed(n)' = Failed(n) /\ Answer(n)' = Answer(n)
    BY <1>4 DEF Same
  <2>3. /\ Failed(m) = attempt[w]
        /\ from = "acking" => Answer(m) = "ok"
        /\ from = "panicked" => Answer(m) = "panic"
    BY <1>2, <1>6 DEF Failed, Answer, InHand
  <2> HIDE DEF m
  <2>4. \A n \in Messages : n = m => Failed(n)' = 0 /\ Answer(n)' = "none"
    BY <1>3, <2>1 DEF Failed, Answer, InHand
  <2>5. Delivery!Settle(m, verdict)
    BY <2>1, <2>2, <2>4 DEF Delivery!Settle
  <2>6. CASE verdict = "acked"
    BY <1>1, <2>1, <2>3, <2>5, <2>6 DEF Delivery!Ack, Delivery!Next
  <2>7. CASE verdict = "rejected"
    BY <1>1, <1>2, <2>1, <2>3, <2>5, <2>7 DEF Delivery!Reject, Delivery!Next
  <2> QED
    BY <2>6, <2>7
<1> QED
  BY <1>5, <1>6

LEMMA WorkerKeepsDelivery ==
  ASSUME IInv, IInv', NEW w \in Workers, WorkerStep(w)
  PROVE  [Delivery!Next]_Delivery!vars
<1>0. /\ DOMAIN loop = Workers /\ DOMAIN job = Workers
      /\ \A v \in Workers : (loop[v] \notin Busy => job[v] = None /\ attempt[v] = 0) /\ None \notin Messages
  BY NamesAssumption DEF IInv, ConsumerTypeOK, Places, Attempts
<1>1. CASE \/ StartWorker(w) \/ TopStops(w) \/ TopGoesOn(w) \/ GetFails(w) \/ GetChannel(w)
           \/ SubscribeFinds(w) \/ Subscribed(w) \/ CountMiss(w)
  <2>1. UNCHANGED <<place, job, attempt>>
    BY <1>1 DEF StartWorker, TopStops, TopGoesOn, GetFails, GetChannel, SubscribeFinds, Subscribed,
       CountMiss, workVars
  <2>2. loop[w] \notin Busy /\ \A v \in Workers : v # w => loop'[v] = loop[v]
    BY <1>0, <1>1 DEF StartWorker, TopStops, TopGoesOn, GetFails, GetChannel, SubscribeFinds, Subscribed,
       CountMiss, Goes, Busy
  <2> QED
    BY <1>0, <2>1, <2>2, OutsideHandler
<1>2. CASE \E m \in Messages : Take(w, m)
  <2>1. PICK m \in Messages : Take(w, m)
    BY <1>2
  <2>2. /\ UNCHANGED <<place, attempt>> /\ loop[w] = "consuming" /\ loop'[w] = "handling"
        /\ \A v \in Workers : v # w => loop'[v] = loop[v] /\ job'[v] = job[v]
    BY <1>0, <2>1 DEF Take, Goes
  <2> QED
    BY <1>0, <2>2, OutsideHandler DEF Busy
<1>3. CASE SubscribeFails(w) \/ SubscribeMisses(w) \/ LoopStops(w) \/ LoopSeesClosed(w)
  <2>1. /\ CloseChans({w}) /\ UNCHANGED <<job, attempt>> /\ loop[w] \in {"opened", "consuming"}
        /\ \A v \in Workers : v # w => loop'[v] = loop[v]
    BY <1>0, <1>3 DEF SubscribeFails, SubscribeMisses, LoopStops, LoopSeesClosed, Leaves, Goes
  <2>2. {w} \in SUBSET Workers /\ \A v \in Workers : loop[v] \in Busy => loop'[v] = loop[v]
    BY <2>1 DEF Busy
  <2> QED
    BY <2>1, <2>2, ChansGoLose
<1>4. CASE Handler(w)
  BY <1>4, CallsCount
<1>5. CASE Ack(w) \/ Nack(w)
  BY <1>5, SettledAsEarned
<1> QED
  BY <1>1, <1>2, <1>3, <1>4, <1>5 DEF WorkerStep

LEMMA OthersKeepDelivery ==
  ASSUME IInv, IInv', WatcherStep \/ CtxEnds \/ StopBegin \/ StopStep \/ BrokerStep
  PROVE  [Delivery!Next]_Delivery!vars
<1>0. \A v \in Workers : loop[v] \notin Busy => job[v] = None
  BY DEF IInv, Places
<1>1. ASSUME UNCHANGED <<place, job, attempt, loop>>  PROVE [Delivery!Next]_Delivery!vars
  BY <1>0, <1>1, OutsideHandler
<1>2. ASSUME NEW k, ConnGoes(k), UNCHANGED <<job, attempt, loop>>  PROVE [Delivery!Next]_Delivery!vars
  <2>1. {w \in Workers : chan[w] = k} \in SUBSET Workers
    OBVIOUS
  <2> QED
    BY <1>2, <2>1, ChansGoLose DEF ConnGoes
<1>3. CASE WatcherStep
  BY <1>1, <1>3 DEF WatcherStep, WCheck, WDial, WDialFails, WStore, WSeesClose, WStops, workVars
<1>4. CASE CtxEnds \/ StopBegin
  BY <1>1, <1>4 DEF CtxEnds, StopBegin, workVars
<1>5. CASE StopStep
  <2>1. CASE StopConn
    BY <1>2, <2>1 DEF StopConn
  <2>2. CASE StopMarks \/ StopNoConn \/ StopStore \/ StopWaited \/ StopForced
    BY <1>1, <2>2 DEF StopMarks, StopNoConn, StopStore, StopWaited, StopForced, workVars
  <2> QED
    BY <1>5, <2>1, <2>2 DEF StopStep
<1>6. CASE BrokerStep
  <2>1. CASE \E m \in Messages : Deliver(m)
    BY <2>1, DeliverDelivers
  <2>2. ASSUME NEW w \in Workers, ChanDies(w)  PROVE [Delivery!Next]_Delivery!vars
    <3>1. {w} \in SUBSET Workers
      OBVIOUS
    <3> QED
      BY <2>2, <3>1, ChansGoLose DEF ChanDies
  <2>3. CASE ConnDrops
    BY <1>2, <2>3 DEF ConnDrops
  <2> QED
    BY <1>6, <2>1, <2>2, <2>3 DEF BrokerStep
<1> QED
  BY <1>3, <1>4, <1>5, <1>6

(* The consumer implements DeliveryContract: whatever connections, the watcher *)
(* and Stop do, a message is acked or rejected only for what the handler made  *)
(* of the delivery that is settled (consumer.go:276-343).                      *)
THEOREM DeliversAsPromised == ConsumerSpec => KeepsDelivery
<1>1. ConsumerInit => Delivery!Init
  BY NamesAssumption DEF ConsumerInit, Delivery!Init, Failed, Answer, InHand
<1>2. IInv /\ IInv' /\ [ConsumerNext]_consumerVars => [Delivery!Next]_Delivery!vars
  <2> SUFFICES ASSUME IInv, IInv', [ConsumerNext]_consumerVars
               PROVE  [Delivery!Next]_Delivery!vars
    OBVIOUS
  <2>1. CASE UNCHANGED consumerVars
    BY <2>1, AllSame DEF consumerVars, workVars, Same, Failed, Answer, InHand
  <2> QED
    BY <2>1, WorkerKeepsDelivery, OthersKeepDelivery DEF ConsumerNext
<1> QED
  BY <1>1, <1>2, ConsumerInvariant, PTL DEF ConsumerSpec, KeepsDelivery, Delivery!Spec
===============================================================================
