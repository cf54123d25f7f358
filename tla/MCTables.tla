-------------------------------- MODULE MCTables --------------------------------
(* The tables whose lists are cached: the tree of menus and the dictionaries.  *)
(* They share no state, so that each behaviour is one of the part that part    *)
(* names, while the other stays where it begins.  What is interchangeable in   *)
(* one module is so in the other: the .cfg gives them the same model values.   *)
EXTENDS MenuTree, Dict, TLC

VARIABLE part

Symmetry == Permutations(Admins) \cup Permutations(Dicts) \cup Permutations(Items)
       \cup Permutations(Codes)

Start == TreeInit /\ Init /\ part \in {"tree", "dict"}

TreeSteps == part = "tree" /\ TreeNext /\ UNCHANGED <<vars, part>>
DictSteps == part = "dict" /\ Next /\ UNCHANGED <<treeVars, part>>

TablesSpec == Start /\ [][TreeSteps \/ DictSteps]_<<treeVars, vars, part>>
===============================================================================
