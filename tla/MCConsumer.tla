------------------------------ MODULE MCConsumer ------------------------------
(* Small instances of Consumer, one with fairness.                            *)
EXTENDS Consumer
===============================================================================
