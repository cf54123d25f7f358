------------------------------- MODULE HttpRetry -------------------------------
(***************************************************************************)
(* One call of xrequests.Request (pkg/xrequests/requests.go) with its      *)
(* retries.  URL, headers and body are left out: each attempt sends the    *)
(* same.  The server is external: it may carry out a request whose sender  *)
(* sees only an error, also after the sender has gone on.                  *)
(***************************************************************************)
EXTENDS Naturals

CONSTANT MaxRetries     \* WithMaxRetries; a negative one counts as 0

ASSUME RetriesAssumption == MaxRetries \in Nat

VARIABLES
  idempotent,           \* the method is GET, HEAD or OPTIONS
  call, round,        \* the call's place, and i of its loop
  cancelled,            \* its context is done
  fate,                 \* of each attempt at the server
  seen                  \* and what the client saw of it

retryVars == <<idempotent, call, round, cancelled, fate, seen>>

Attempts == 0..MaxRetries

RetryInit ==
  /\ idempotent \in BOOLEAN
  /\ call = "top" /\ round = 0 /\ cancelled = FALSE
  /\ fate = [i \in Attempts |-> "unsent"] /\ seen = [i \in Attempts |-> "nothing"]

CallGoes(from, to) == call = from /\ call' = to

(* The loop's check of the context, and client.Do. *)
Sends ==
  /\ CallGoes("top", "sent") /\ ~cancelled
  /\ fate' = [fate EXCEPT ![round] = "afloat"]
  /\ UNCHANGED <<idempotent, round, cancelled, seen>>

Abandons ==
  /\ CallGoes("top", "failed") /\ cancelled
  /\ UNCHANGED <<idempotent, round, cancelled, fate, seen>>

(* External: the server carries a request out, or it is lost on the way.   *)
Settles(i) ==
  /\ fate[i] = "afloat"
  /\ \E f \in {"executed", "lost"} : fate' = [fate EXCEPT ![i] = f]
  /\ UNCHANGED <<idempotent, call, round, cancelled, seen>>

Sees(what) == seen' = [seen EXCEPT ![round] = what]

(* client.Do returns an answer. *)
Responds ==
  /\ CallGoes("sent", "reading")
  /\ fate[round] = "executed" /\ Sees("answer")
  /\ UNCHANGED <<idempotent, round, cancelled, fate>>

AfterFailure == IF round < MaxRetries THEN "backoff" ELSE "failed"

(* client.Do fails: no connection, a timeout, the context is done. *)
TransportFails ==
  /\ CallGoes("sent", AfterFailure) /\ Sees("error")
  /\ UNCHANGED <<idempotent, round, cancelled, fate>>

(* The body cannot be read to its end: only an idempotent one goes again.  *)
ReadFailsRetrying ==                   \* faulty variant: any method goes again
  /\ CallGoes("reading", AfterFailure)
  /\ UNCHANGED <<idempotent, round, cancelled, fate, seen>>
ReadFails ==
  /\ CallGoes("reading", IF idempotent THEN AfterFailure ELSE "failed")
  /\ UNCHANGED <<idempotent, round, cancelled, fate, seen>>

ReadsAll ==
  /\ CallGoes("reading", "done")
  /\ UNCHANGED <<idempotent, round, cancelled, fate, seen>>

(* sleepBackoff ends, by its timer or by the context. *)
WakesUp ==
  /\ CallGoes("backoff", "top")
  /\ round' = round + 1
  /\ UNCHANGED <<idempotent, cancelled, fate, seen>>

Cancels ==
  /\ ~cancelled /\ cancelled' = TRUE
  /\ UNCHANGED <<idempotent, call, round, fate, seen>>

RetryNext ==
  \/ Sends \/ Abandons \/ (\E i \in Attempts : Settles(i)) \/ Responds
  \/ TransportFails \/ ReadFails \/ ReadsAll \/ WakesUp \/ Cancels

RetrySpec == RetryInit /\ [][RetryNext]_retryVars

-----------------------------------------------------------------------------
Executions == {i \in Attempts : fate[i] = "executed"}

(* A request that is not idempotent and was answered is not sent again:    *)
(* when the server has carried out two attempts of it, the client saw the  *)
(* first of them end in a transport error ("非幂等方法重试可能导致重复提交", *)
(* requests.go:291).                                                       *)
RepeatsOnlyBroken ==
  ~idempotent => \A i, j \in Executions : i < j => seen[i] = "error"
===============================================================================
