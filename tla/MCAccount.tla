------------------------------- MODULE MCAccount -------------------------------
(* The account services over small tables: users, roles and menus (Rbac) and  *)
(* the refresh tokens (Session).  They share no state, so that each behaviour *)
(* is one of the part that part names, while the other stays where it begins. *)
(* Rbac has three parts: two users and two roles; the seed's user, two roles  *)
(* and a menu; and with the caches, which the others leave empty, the seed's  *)
(* user and role and a menu.  Requests are interchangeable.                   *)
EXTENDS Rbac, Session, TLC

VARIABLE part

Symmetry == Permutations(Admins)

Start == Init /\ SessionInit /\ part \in {"users", "roles", "caches", "session"}

NoNew(ids) == used' \cap ids = used \cap ids

LinkSteps == Next /\ UNCHANGED <<cached, reading, content, sessionVars>>

UserSteps    == part = "users" /\ LinkSteps /\ NoNew(Menus)
RoleSteps    == part = "roles" /\ LinkSteps /\ NoNew(Users)
CacheSteps   == part = "caches" /\ Next /\ NoNew(Keys) /\ UNCHANGED sessionVars
SessionSteps == part = "session" /\ SessionNext /\ UNCHANGED vars

Steps == (UserSteps \/ RoleSteps \/ CacheSteps \/ SessionSteps) /\ UNCHANGED part

AccountSpec == Start /\ [][Steps]_<<vars, sessionVars, part>>
===============================================================================
