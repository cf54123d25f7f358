---------------------------- MODULE DeliveryContract ----------------------------
(***************************************************************************)
(* What the consumer promises about a message, with no connections, no     *)
(* channels, no loop and no Stop (Consumer and HandlerFunc of              *)
(* pkg/xmq/mq.go): a message is acknowledged only when a call of the       *)
(* handler for this very delivery returned nil, and rejected only when one *)
(* panicked or RetryLimit of them failed.  Until then it can be lost by    *)
(* its worker, with all else the worker holds, and goes back to the queue, *)
(* where the next delivery counts from the start: at least once.           *)
(***************************************************************************)
EXTENDS Integers

CONSTANTS Workers, Messages, RetryLimit

VARIABLES
  place,                \* queue, acked, rejected, or the worker that holds it
  failed,               \* failed calls of the handler for this delivery
  answer                \* its last call: none yet or an error, "ok", or "panic"

vars == <<place, failed, answer>>

Init ==
  /\ place  = [m \in Messages |-> "queue"]
  /\ failed = [m \in Messages |-> 0]
  /\ answer = [m \in Messages |-> "none"]

Deliver(m, w) ==
  /\ place[m] = "queue"
  /\ place' = [place EXCEPT ![m] = w]
  /\ UNCHANGED <<failed, answer>>

(* All that some workers hold goes back. *)
Lose(ws) ==
  /\ \E m \in Messages : place[m] \in ws
  /\ place'  = [m \in Messages |-> IF place[m] \in ws THEN "queue" ELSE place[m]]
  /\ failed' = [m \in Messages |-> IF place[m] \in ws THEN 0 ELSE failed[m]]
  /\ answer' = [m \in Messages |-> IF place[m] \in ws THEN "none" ELSE answer[m]]

Called(m) == place[m] \in Workers /\ answer[m] = "none" /\ failed[m] < RetryLimit

Fails(m) ==
  /\ Called(m)
  /\ failed' = [failed EXCEPT ![m] = @ + 1]
  /\ UNCHANGED <<place, answer>>

Answers(m, how) ==
  /\ Called(m)
  /\ answer' = [answer EXCEPT ![m] = how]
  /\ UNCHANGED <<place, failed>>

Settle(m, verdict) ==
  /\ place[m] \in Workers
  /\ place'  = [place EXCEPT ![m] = verdict]
  /\ failed' = [failed EXCEPT ![m] = 0]
  /\ answer' = [answer EXCEPT ![m] = "none"]

Ack(m)    == answer[m] = "ok" /\ Settle(m, "acked")
Reject(m) == (answer[m] = "panic" \/ failed[m] = RetryLimit) /\ Settle(m, "rejected")

Next ==
  \/ \E m \in Messages : \/ \E w \in Workers : Deliver(m, w)
                         \/ Fails(m) \/ Answers(m, "ok") \/ Answers(m, "panic")
                         \/ Ack(m) \/ Reject(m)
  \/ \E ws \in SUBSET Workers : Lose(ws)

Spec == Init /\ [][Next]_vars
===============================================================================
