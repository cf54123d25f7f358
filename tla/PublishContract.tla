--------------------------- MODULE PublishContract ---------------------------
(***************************************************************************)
(* What one confirm channel promises its callers, with no list, no router  *)
(* and no flags: Publish returns nil only for a message the broker has     *)
(* acked, and once a call was refused outright (nack, failed send,         *)
(* sequence reset) no further message goes out on the channel.             *)
(* xmq.Producer's comment (pkg/xmq/mq.go) is the promise in words; the     *)
(* code of ConfirmChannel is shown to keep it.                             *)
(***************************************************************************)
CONSTANT Calls          \* the Publish calls made on the channel

VARIABLES
  status,               \* what the caller of each call has been told so far
  verdict,              \* what the broker decided about each call's message
  retired               \* the channel carries no further message

vars == <<status, verdict, retired>>

Status  == {"new", "sent", "confirmed", "rejected", "unknown"}
Verdict == {"unsent", "none", "ack", "nack"}

Init ==
  /\ status  = [c \in Calls |-> "new"]
  /\ verdict = [c \in Calls |-> "unsent"]
  /\ retired = FALSE

(* The message goes out on a channel that is still in use. *)
Send(c) ==
  /\ status[c] = "new" /\ ~retired
  /\ status'  = [status EXCEPT ![c] = "sent"]
  /\ verdict' = [verdict EXCEPT ![c] = "none"]
  /\ UNCHANGED retired

(* The broker decides, possibly after the caller has given up. *)
Settle(c) ==
  /\ verdict[c] = "none"
  /\ \E v \in {"ack", "nack"} : verdict' = [verdict EXCEPT ![c] = v]
  /\ UNCHANGED <<status, retired>>

(* Publish returns nil. *)
Confirm(c) ==
  /\ status[c] = "sent" /\ verdict[c] = "ack"
  /\ status' = [status EXCEPT ![c] = "confirmed"]
  /\ UNCHANGED <<verdict, retired>>

(* Publish returns an error after which the channel is not used again. *)
Reject(c) ==
  /\ status[c] \in {"new", "sent"}
  /\ status'  = [status EXCEPT ![c] = "rejected"]
  /\ retired' = TRUE
  /\ UNCHANGED verdict

(* Publish returns an error that leaves the message's fate open. *)
GiveUp(c) ==
  /\ status[c] \in {"new", "sent"}
  /\ status' = [status EXCEPT ![c] = "unknown"]
  /\ retired' \in {retired, TRUE}
  /\ UNCHANGED verdict

Retire ==
  /\ retired' = TRUE
  /\ UNCHANGED <<status, verdict>>

Next ==
  \/ \E c \in Calls : Send(c) \/ Settle(c) \/ Confirm(c) \/ Reject(c) \/ GiveUp(c)
  \/ Retire

Spec == Init /\ [][Next]_vars
=============================================================================
