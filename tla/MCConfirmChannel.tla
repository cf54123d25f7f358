-------------------------- MODULE MCConfirmChannel --------------------------
(* A small instance of ConfirmChannel: an exclusive channel, with fairness. *)
EXTENDS ConfirmChannel
=============================================================================
