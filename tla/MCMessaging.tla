------------------------------ MODULE MCMessaging ------------------------------
(* The two sides of the queue: a channel that several calls publish on, and   *)
(* the consumer.  They share no state, so that each behaviour is one of the   *)
(* part that part names, while the other stays where it begins.  Workers and  *)
(* messages are interchangeable, and two of the calls: the .cfg gives them    *)
(* the model values of the workers.                                           *)
EXTENDS ConfirmChannel, Consumer

VARIABLE part

Symmetry == Permutations(Workers) \cup Permutations(Messages)

Start == Init /\ ConsumerInit /\ part \in {"channel", "consumer"}

ChannelSteps  == part = "channel" /\ Next /\ UNCHANGED consumerVars
ConsumerSteps == part = "consumer" /\ ConsumerNext /\ UNCHANGED vars
PartSteps     == (ChannelSteps \/ ConsumerSteps) /\ UNCHANGED part

MessagingSpec == Start /\ [][PartSteps]_<<vars, consumerVars, part>>
===============================================================================
