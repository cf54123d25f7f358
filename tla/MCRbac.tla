-------------------------------- MODULE MCRbac --------------------------------
(* A small instance of Rbac, up to permutations of the requests.             *)
EXTENDS Rbac, TLC

Symmetry == Permutations(Admins)
===============================================================================
