--------------------------------- MODULE Rbac ---------------------------------
(***************************************************************************)
(* The user, role and menu services of internal/service/admin/account over *)
(* the tables sys_user, sys_role, sys_menu, sys_user_role, sys_role_menu   *)
(* and the two caches the permission check reads: the roles of a user and  *)
(* the menus of a role.                                                    *)
(*                                                                         *)
(* The database is external.  A transaction's SELECTs are snapshot reads   *)
(* that lock nothing (MySQL, REPEATABLE READ, no FOR UPDATE in the code)   *)
(* and its writes take effect together at the commit; a DELETE or UPDATE   *)
(* applies to the rows there are then.  There are no foreign keys, and an  *)
(* id is never given twice.  Names, codes, passwords, perms, the parents   *)
(* of the menus and the cache of the menu tree are left out: a request the *)
(* code refuses because of one of them ends in Rollback.                   *)
(***************************************************************************)
EXTENDS FiniteSets

CONSTANTS
  Admins,               \* requests that change the tables
  Readers,              \* permission checks that fill the caches
  Users, Roles, Menus,  \* ids
  FirstUser, SuperRole, \* the rows of the seed: the administrator, constant.SuperAdminRoleId
  SeedMenus,            \* and the menus it has
  Contents, Seed,       \* what a menu row says, and what a row not yet created holds
  None                  \* no id, nothing cached, nothing read

ASSUME IdsAssumption ==
  /\ FirstUser \in Users /\ SuperRole \in Roles /\ SeedMenus \subseteq Menus
  /\ Users \cap Roles = {} /\ Users \cap Menus = {} /\ Roles \cap Menus = {}
  /\ None \notin Users \cup Roles \cup Menus
ASSUME ContentsAssumption == Seed \in Contents

VARIABLES
  users, roles, menus,  \* ids of the rows there are
  content,              \* what each menu row says
  userRole, roleMenu,   \* the link tables
  used,                 \* ids given so far (AUTO_INCREMENT)
  pc, req,              \* each admin's place, and what it asks for
  inval,                \* cache keys it has yet to delete
  cached,               \* the two caches: a key is a user or a role
  reading,              \* each reader: the key and value it read from the tables
  lapsed,               \* history: keys left stale by a failed delete or an overtaken fill
  raced                 \* history: a row was deleted while another request relied on it

tables    == <<users, roles, menus, content, userRole, roleMenu, used>>
adminVars == <<pc, req, inval>>
cacheVars == <<cached, reading, lapsed>>
vars      == <<tables, adminVars, cacheVars, raced>>

Keys    == Users \cup Roles
Ids     == Keys \cup Menus
Creates == {"CreateUser", "CreateRole", "CreateMenu"}
Updates == {"UpdateUser", "UpdateRole", "UpdateMenu"}
Deletes == {"DeleteUser", "DeleteRole", "DeleteMenu"}
NoReq   == [do |-> "none", id |-> None, links |-> {}]

RolesOf(u) == {r \in Roles : <<u, r>> \in userRole}
MenusOf(r) == {m \in Menus : <<r, m>> \in roleMenu}
OperatorMenus(u) == UNION {MenusOf(r) : r \in RolesOf(u)}
RolesWith(m)     == {r \in Roles : <<r, m>> \in roleMenu}

(* What a reader that misses the cache finds in the tables. *)
FromTables(k) ==
  IF k \in Users THEN RolesOf(k)
  ELSE {<<m, content[m]>> : m \in MenusOf(k) \cap menus}

Init ==
  /\ users = {FirstUser} /\ roles = {SuperRole} /\ menus = SeedMenus
  /\ content = [m \in Menus |-> Seed]
  /\ userRole = {<<FirstUser, SuperRole>>} /\ roleMenu = {SuperRole} \X SeedMenus
  /\ used = {FirstUser, SuperRole} \cup SeedMenus
  /\ pc = [a \in Admins |-> "idle"] /\ req = [a \in Admins |-> NoReq]
  /\ inval = [a \in Admins |-> {}]
  /\ cached = [k \in Keys |-> None]
  /\ reading = [d \in Readers |-> None]
  /\ lapsed = {} /\ raced = FALSE

(***************************************************************************)
(* A request: the reads before the transaction (Receive), the reads in it  *)
(* (Check), the writes (Commit), the cache deletes (Invalidate).  It names *)
(* ids that were given out at some time.  op is the account in the         *)
(* caller's token, possibly deleted meanwhile.                             *)
(***************************************************************************)
Accounts == used \cap Users

Receive(a, do, id, links) ==
  /\ pc[a] = "idle"
  /\ pc'  = [pc EXCEPT ![a] = "found"]
  /\ req' = [req EXCEPT ![a] = [do |-> do, id |-> id, links |-> links]]
  /\ UNCHANGED <<tables, inval, cacheVars, raced>>

ReceiveCreateUser(a) ==
  \E rs \in SUBSET (used \cap Roles) : Receive(a, "CreateUser", None, rs)
ReceiveCreateRole(a) ==
  \E ms \in SUBSET (used \cap Menus) : Receive(a, "CreateRole", None, ms)
ReceiveCreateMenu(a) == Receive(a, "CreateMenu", None, {})

ReceiveUpdateUser(a) ==
  \E u \in users, rs \in SUBSET (used \cap Roles) : Receive(a, "UpdateUser", u, rs)
ReceiveUpdateRole(a) ==
  \E r \in roles, ms \in SUBSET (used \cap Menus) : Receive(a, "UpdateRole", r, ms)
ReceiveUpdateMenu(a) == \E m \in menus : Receive(a, "UpdateMenu", m, {})

ReceiveDeleteUser(a) ==
  \E op \in Accounts, u \in users : op # u /\ Receive(a, "DeleteUser", u, {})
ReceiveDeleteRole(a) ==
  \E r \in roles \ {SuperRole} : Receive(a, "DeleteRole", r, {})
ReceiveDeleteMenu(a) == \E m \in menus : Receive(a, "DeleteMenu", m, {})

(* The routes (POST, PUT, DELETE).  ResetPwdById writes a column that is   *)
(* left out.                                                               *)
ReceiveCreate(a) == ReceiveCreateUser(a) \/ ReceiveCreateRole(a) \/ ReceiveCreateMenu(a)
ReceiveUpdate(a) == ReceiveUpdateUser(a) \/ ReceiveUpdateRole(a) \/ ReceiveUpdateMenu(a)
ReceiveDelete(a) == ReceiveDeleteUser(a) \/ ReceiveDeleteRole(a) \/ ReceiveDeleteMenu(a)

IsSuperAdmin(op) == SuperRole \in RolesOf(op)
RolesExist(q)    == q.links \subseteq roles
MenusExist(q)    == q.links \subseteq menus
RoleUsed(r)      == \E u \in Users : r \in RolesOf(u)
MenuUsed(m)      == RolesWith(m) # {}

(* The operator may hand out these menus; only an update spares the super  *)
(* administrator the question.                                             *)
MayGrant(op, q) ==
  \/ q.links \subseteq OperatorMenus(op)
  \/ q.do = "UpdateRole" /\ IsSuperAdmin(op)

(* What the transaction's reads must find. *)
PassesUnasked(q) ==                    \* faulty variant: a delete does not ask for use
  CASE q.do \in {"CreateUser", "UpdateUser"} -> RolesExist(q)
    [] q.do \in {"CreateRole", "UpdateRole"} -> MenusExist(q)
    [] OTHER -> TRUE
Passes(q) ==
  CASE q.do \in {"CreateUser", "UpdateUser"} -> RolesExist(q)
    [] q.do \in {"CreateRole", "UpdateRole"} ->
         MenusExist(q) /\ \E op \in Accounts : MayGrant(op, q)
    [] q.do = "DeleteRole" -> ~RoleUsed(q.id)
    [] q.do = "DeleteMenu" -> ~MenuUsed(q.id)
    [] OTHER -> TRUE

Check(a) ==
  /\ pc[a] = "found" /\ Passes(req[a])
  /\ pc' = [pc EXCEPT ![a] = "checked"]
  /\ UNCHANGED <<tables, req, inval, cacheVars, raced>>

(* Refused, or a statement or the commit failed. *)
Rollback(a) ==
  /\ pc[a] \in {"found", "checked"}
  /\ pc'  = [pc EXCEPT ![a] = "idle"]
  /\ req' = [req EXCEPT ![a] = NoReq]
  /\ UNCHANGED <<tables, inval, cacheVars, raced>>

(* Request q deletes a row that p names. *)
Cuts(q, p) == q.do \in Deletes /\ q.id \in {p.id} \cup p.links

(* The commit of a, which leaves the cache keys ks to delete. *)
Commit(a, do, next, ks) ==
  /\ pc[a] = "checked" /\ req[a].do = do
  /\ pc'    = [pc EXCEPT ![a] = next]
  /\ req'   = IF next = "idle" THEN [req EXCEPT ![a] = NoReq] ELSE req
  /\ inval' = [inval EXCEPT ![a] = ks]
  /\ raced' = (raced \/ \E b \in Admins \ {a} :
                 /\ pc[b] \in {"found", "checked"}
                 /\ Cuts(req[a], req[b]) \/ Cuts(req[b], req[a]))
  /\ UNCHANGED cacheVars

(* The rows that link x to each of ys, in place of those x had. *)
Relink(table, x, ys) == {p \in table : p[1] # x} \cup {<<x, y>> : y \in ys}

CreateUser(a) ==
  /\ Commit(a, "CreateUser", "idle", {})
  /\ \E u \in Users \ used :
       /\ users' = users \cup {u} /\ used' = used \cup {u}
       /\ userRole' = Relink(userRole, u, req[a].links)
  /\ UNCHANGED <<roles, menus, content, roleMenu>>

(* The UPDATE of a row that is gone changes nothing and is no error. *)
UpdateUser(a) ==
  /\ Commit(a, "UpdateUser", "committed", {req[a].id})
  /\ userRole' = Relink(userRole, req[a].id, req[a].links)
  /\ UNCHANGED <<users, roles, menus, content, roleMenu, used>>

DeleteUser(a) ==
  /\ Commit(a, "DeleteUser", "committed", {req[a].id})
  /\ users' = users \ {req[a].id}
  /\ userRole' = Relink(userRole, req[a].id, {})
  /\ UNCHANGED <<roles, menus, content, roleMenu, used>>

CreateRole(a) ==
  /\ Commit(a, "CreateRole", "idle", {})
  /\ \E r \in Roles \ used :
       /\ roles' = roles \cup {r} /\ used' = used \cup {r}
       /\ roleMenu' = Relink(roleMenu, r, req[a].links)
  /\ UNCHANGED <<users, menus, content, userRole>>

(* Save of a slice is INSERT ... ON DUPLICATE KEY UPDATE: a role deleted   *)
(* since it was read comes back.                                           *)
UpdateRoleInPlace(a) ==                \* faulty variant: a plain UPDATE
  /\ Commit(a, "UpdateRole", "committed", {req[a].id})
  /\ roleMenu' = Relink(roleMenu, req[a].id, req[a].links)
  /\ UNCHANGED <<users, roles, menus, content, userRole, used>>
UpdateRole(a) ==
  /\ Commit(a, "UpdateRole", "committed", {req[a].id})
  /\ roles' = roles \cup {req[a].id}
  /\ roleMenu' = Relink(roleMenu, req[a].id, req[a].links)
  /\ UNCHANGED <<users, menus, content, userRole, used>>

DeleteRole(a) ==
  /\ Commit(a, "DeleteRole", "committed", {req[a].id})
  /\ roles' = roles \ {req[a].id}
  /\ roleMenu' = Relink(roleMenu, req[a].id, {})
  /\ UNCHANGED <<users, menus, content, userRole, used>>

CreateMenu(a) ==
  /\ Commit(a, "CreateMenu", "idle", {})
  /\ \E m \in Menus \ used, c \in Contents :
       /\ menus' = menus \cup {m} /\ used' = used \cup {m}
       /\ content' = [content EXCEPT ![m] = c]
  /\ UNCHANGED <<users, roles, userRole, roleMenu>>

(* A Save again.  The caches to delete are looked up after the commit. *)
UpdateMenuOnly(a) ==                   \* faulty variant: only the menu tree's cache goes
  /\ Commit(a, "UpdateMenu", "idle", {})
  /\ menus' = menus \cup {req[a].id}
  /\ \E c \in Contents : content' = [content EXCEPT ![req[a].id] = c]
  /\ UNCHANGED <<users, roles, userRole, roleMenu, used>>
UpdateMenu(a) ==
  /\ Commit(a, "UpdateMenu", "listing", {})
  /\ menus' = menus \cup {req[a].id}
  /\ \E c \in Contents : content' = [content EXCEPT ![req[a].id] = c]
  /\ UNCHANGED <<users, roles, userRole, roleMenu, used>>

(* Deletes no role's cache: no role is bound to the menu. *)
DeleteMenu(a) ==
  /\ Commit(a, "DeleteMenu", "idle", {})
  /\ menus' = menus \ {req[a].id}
  /\ UNCHANGED <<users, roles, content, userRole, roleMenu, used>>

Stale(k) == cached[k] \notin {None, FromTables(k)}

(* a has ks left to delete, and is done when there are none. *)
Proceed(a, ks) ==
  /\ inval' = [inval EXCEPT ![a] = ks]
  /\ pc'    = [pc EXCEPT ![a] = IF ks = {} THEN "idle" ELSE "committed"]
  /\ req'   = IF ks = {} THEN [req EXCEPT ![a] = NoReq] ELSE req

(* GetRoleIdsByIds, outside the transaction. *)
ListBound(a) ==
  /\ pc[a] = "listing"
  /\ Proceed(a, RolesWith(req[a].id))
  /\ UNCHANGED <<tables, cacheVars, raced>>

(* The query fails, or the process dies first: the caches stay. *)
ListBoundFails(a) ==
  /\ pc[a] = "listing"
  /\ Proceed(a, {})
  /\ lapsed' = lapsed \cup {r \in RolesWith(req[a].id) : Stale(r)}
  /\ UNCHANGED <<tables, cached, reading, raced>>

Invalidate(a, k) ==
  /\ k \in inval[a]
  /\ Proceed(a, inval[a] \ {k})
  /\ cached' = [cached EXCEPT ![k] = None] /\ lapsed' = lapsed \ {k}
  /\ UNCHANGED <<tables, reading, raced>>

(* Redis fails, which is only logged, or the process dies first. *)
InvalidateFails(a, k) ==
  /\ k \in inval[a]
  /\ Proceed(a, inval[a] \ {k})
  /\ lapsed' = lapsed \cup {x \in {k} : Stale(x)}
  /\ UNCHANGED <<tables, cached, reading, raced>>

(***************************************************************************)
(* Readers: GetRoleIdsByUserId and GetRoleMenuListByRuleID.  A hit changes *)
(* nothing.  A miss, and a Get that fails, reads the tables and then sets  *)
(* the key; anything may happen in between.  The permission check of an    *)
(* account goes from its cached roles to their menus; the page of its own  *)
(* permissions takes the roles from the tables, if the account is there.   *)
(***************************************************************************)
RolesSeen(u)   == IF cached[u] # None THEN cached[u] ELSE RolesOf(u)
CheckedKeys(u) == {u} \cup RolesSeen(u)
ShownKeys(u)   == IF u \in users THEN RolesOf(u) \cap roles ELSE {}

ReadTables(d, k) ==
  /\ reading[d] = None
  /\ reading' = [reading EXCEPT ![d] = [key |-> k, value |-> FromTables(k)]]
  /\ UNCHANGED <<tables, adminVars, cached, lapsed, raced>>

Fill(d) ==
  /\ reading[d] # None
  /\ LET k == reading[d].key IN
       /\ cached' = [cached EXCEPT ![k] = reading[d].value]
       /\ lapsed' = IF reading[d].value = FromTables(k) THEN lapsed \ {k}
                                                        ELSE lapsed \cup {k}
  /\ reading' = [reading EXCEPT ![d] = None]
  /\ UNCHANGED <<tables, adminVars, raced>>

(* The error of Set is dropped. *)
FillFails(d) ==
  /\ reading[d] # None
  /\ reading' = [reading EXCEPT ![d] = None]
  /\ UNCHANGED <<tables, adminVars, cached, lapsed, raced>>

(* External: the key's time is up (CacheUserRoleExpirationDay). *)
Expire(k) ==
  /\ cached[k] # None
  /\ cached' = [cached EXCEPT ![k] = None] /\ lapsed' = lapsed \ {k}
  /\ UNCHANGED <<tables, adminVars, reading, raced>>

Begins(a)  == ReceiveCreate(a) \/ ReceiveUpdate(a) \/ ReceiveDelete(a) \/ Check(a) \/ Rollback(a)
Commits(a) == CreateUser(a) \/ UpdateUser(a) \/ DeleteUser(a)
           \/ CreateRole(a) \/ UpdateRole(a) \/ DeleteRole(a)
           \/ CreateMenu(a) \/ UpdateMenu(a) \/ DeleteMenu(a)
Clears(a)  == ListBound(a) \/ ListBoundFails(a)
           \/ \E k \in Keys : Invalidate(a, k) \/ InvalidateFails(a, k)
Reads(d)   == Fill(d) \/ FillFails(d)
           \/ \E u \in Accounts, k \in used \cap Keys :
                k \in CheckedKeys(u) \cup ShownKeys(u) /\ ReadTables(d, k)

Next == (\E a \in Admins : Begins(a) \/ Commits(a) \/ Clears(a))
     \/ (\E d \in Readers : Reads(d))
     \/ (\E k \in Keys : Expire(k))

Spec == Init /\ [][Next]_vars

-----------------------------------------------------------------------------
Requests == [do : Creates \cup Updates \cup Deletes \cup {"none"},
             id : Ids \cup {None}, links : (SUBSET Roles) \cup (SUBSET Menus)]
Values(k) == IF k \in Users THEN SUBSET Roles ELSE SUBSET (Menus \X Contents)

(* Every row and every link is of known ids that were given out, and each  *)
(* request names a target and links of the kind its service works on.      *)
TypeOK ==
  /\ users \subseteq Users /\ roles \subseteq Roles /\ menus \subseteq Menus
  /\ content \in [Menus -> Contents]
  /\ userRole \subseteq Users \X Roles /\ roleMenu \subseteq Roles \X Menus
  /\ used \subseteq Ids /\ users \cup roles \cup menus \subseteq used
  /\ pc \in [Admins -> {"idle", "found", "checked", "listing", "committed"}]
  /\ req \in [Admins -> Requests]
  /\ inval \in [Admins -> SUBSET Keys]
  /\ DOMAIN cached = Keys /\ DOMAIN reading = Readers
  /\ \A k \in Keys : cached[k] = None \/ cached[k] \in Values(k)
  /\ \A d \in Readers : reading[d] # None =>
       reading[d].key \in Keys /\ reading[d].value \in Values(reading[d].key)
  /\ lapsed \subseteq Keys /\ raced \in BOOLEAN

(* As long as no row was deleted under a request that had already looked   *)
(* at it, every link joins two rows that exist: the checks for use before  *)
(* a delete and the link deletes beside it are enough when requests do     *)
(* not overlap, whatever the other requests in flight.                     *)
SerialLinksIntact ==
  ~raced => userRole \subseteq users \X roles /\ roleMenu \subseteq roles \X menus

(* A role that has menus exists, also when updates and deletes of the role *)
(* overlap: the update writes the row and its links in one transaction,    *)
(* and its Save brings a deleted row back.                                 *)
BoundRolesExist == \A p \in roleMenu : p[1] \in roles

(* Some request will delete the cache key k. *)
Pending(k) ==
  \E a \in Admins :
    \/ k \in inval[a]
    \/ pc[a] = "listing" /\ k \in RolesWith(req[a].id)

(* A cached value that no longer says what the tables say is about to be   *)
(* deleted, unless a delete failed or a slow reader wrote it back; for the *)
(* menus of a role also unless a delete raced.  So the permission check    *)
(* trusts an outdated answer only for as long as a request still runs.     *)
CacheFollowsTables ==
  \A k \in Keys : Stale(k) /\ k \notin lapsed => Pending(k) \/ (k \in Roles /\ raced)

(* "检查设置的角色id是否存在（事务内防止并发删除）", user.go:214 and 321:  *)
(* the roles a user is given exist when the transaction commits.           *)
RolesOfUsersExist == \A p \in userRole : p[2] \in roles
===============================================================================
