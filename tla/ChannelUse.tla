------------------------------ MODULE ChannelUse ------------------------------
(***************************************************************************)
(* What the pool of conn_manager.go and one confirmChannel of it expect of *)
(* each other.  The pool lets one caller at a time into publishWithConfirm;*)
(* the channel lets it out again, dead or as it was, may die of its own at *)
(* any time, and never comes back to life.                                 *)
(***************************************************************************)
CONSTANT Users          \* who may call publishWithConfirm

VARIABLES
  life,                 \* new (not created yet), live or dead
  inside                \* the users in publishWithConfirm

useVars == <<life, inside>>

-----------------------------------------------------------------------------
Init == life \in {"new", "live"} /\ inside = {}

Created ==
  /\ life = "new" /\ life' = "live"
  /\ UNCHANGED inside

(* The channel may have died since the user took it from the pool. *)
Enters(u) ==
  /\ life # "new"
  /\ inside = {} /\ inside' = {u}
  /\ UNCHANGED life

Leaves(u) ==
  /\ inside = {u} /\ inside' = {}
  /\ life' \in {life, "dead"}

Dies ==
  /\ life = "live" /\ life' = "dead"
  /\ UNCHANGED inside

Next == Created \/ Dies \/ \E u \in Users : Enters(u) \/ Leaves(u)

Spec == Init /\ [][Next]_useVars
===============================================================================
