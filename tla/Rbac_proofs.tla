------------------------------ MODULE Rbac_proofs ------------------------------
(***************************************************************************)
(* Proofs about Rbac, for any number of requests, readers and ids.         *)
(*                                                                         *)
(* SerialLinksIntact is inductive together with Relied: what a request in  *)
(* flight read from its snapshot still holds, unless a delete raced.       *)
(* CacheFollowsTables needs Relied too (a menu is deleted while no role    *)
(* has it), and Known: an id not given out yet has nothing in the cache.   *)
(***************************************************************************)
EXTENDS Rbac, TLAPS

(* What a request names, by its kind, and the place it can be at. *)
Fits(a) ==
  LET q == req[a] IN
    /\ pc[a] # "idle" => q.do # "none"
    /\ pc[a] = "listing" => q.do = "UpdateMenu"
    /\ inval[a] # {} => pc[a] = "committed"
    /\ q.do \in {"CreateUser", "UpdateUser"} => q.links \subseteq Roles \cap used
    /\ q.do \in {"CreateRole", "UpdateRole"} => q.links \subseteq Menus \cap used
    /\ q.do \in {"UpdateUser", "DeleteUser"} => q.id \in Users \cap used
    /\ q.do \in {"UpdateRole", "DeleteRole"} => q.id \in Roles \cap used
    /\ q.do \in {"UpdateMenu", "DeleteMenu"} => q.id \in Menus \cap used

Shaped == \A a \in Admins : Fits(a)

(* Only ids given out are linked, read or cached. *)
Known ==
  /\ \A p \in roleMenu : p[2] \in used
  /\ \A k \in Keys : cached[k] # None => k \in used
  /\ \A d \in Readers : reading[d] # None => reading[d].key \in used

(* What a request in flight has seen still holds, unless a delete raced. *)
Sees(a) ==
  LET q == req[a] IN
    /\ pc[a] \in {"found", "checked"} =>
         /\ q.do = "UpdateUser" => q.id \in users
         /\ q.do = "UpdateRole" => q.id \in roles
    /\ pc[a] = "checked" =>
         /\ q.do \in {"CreateUser", "UpdateUser"} => q.links \subseteq roles
         /\ q.do \in {"CreateRole", "UpdateRole"} => q.links \subseteq menus
         /\ q.do = "DeleteRole" => \A u \in Users : q.id \notin RolesOf(u)
         /\ q.do = "DeleteMenu" => RolesWith(q.id) = {}

Relied == ~raced => \A a \in Admins : Sees(a)

TablesOK ==
  /\ users \subseteq Users /\ roles \subseteq Roles /\ menus \subseteq Menus
  /\ content \in [Menus -> Contents]
  /\ userRole \subseteq Users \X Roles /\ roleMenu \subseteq Roles \X Menus
  /\ used \subseteq Ids /\ users \cup roles \cup menus \subseteq used

Places == {"idle", "found", "checked", "listing", "committed"}

RequestsOK ==
  /\ pc \in [Admins -> Places]
  /\ req \in [Admins -> Requests]
  /\ inval \in [Admins -> SUBSET Keys]

CachesOK ==
  /\ DOMAIN cached = Keys /\ DOMAIN reading = Readers
  /\ \A k \in Keys : cached[k] = None \/ cached[k] \in Values(k)
  /\ \A d \in Readers : reading[d] # None =>
       reading[d].key \in Keys /\ reading[d].value \in Values(reading[d].key)
  /\ lapsed \subseteq Keys /\ raced \in BOOLEAN

LEMMA TypeParts ==
  /\ TypeOK <=> TablesOK /\ RequestsOK /\ CachesOK
  /\ TypeOK' <=> TablesOK' /\ RequestsOK' /\ CachesOK'
BY DEF TypeOK, TablesOK, RequestsOK, CachesOK, Places

-----------------------------------------------------------------------------
(* The requests. *)

LEMMA ReceiveShaped ==
  ASSUME RequestsOK, Shaped, NEW a \in Admins,
         NEW do \in Creates \cup Updates \cup Deletes, NEW id \in Ids \cup {None}, NEW links,
         Receive(a, do, id, links),
         do \in {"CreateUser", "UpdateUser"} => links \subseteq Roles \cap used,
         do \in {"CreateRole", "UpdateRole"} => links \subseteq Menus \cap used,
         do \notin {"CreateUser", "UpdateUser", "CreateRole", "UpdateRole"} => links = {},
         do \in {"UpdateUser", "DeleteUser"} => id \in Users \cap used,
         do \in {"UpdateRole", "DeleteRole"} => id \in Roles \cap used,
         do \in {"UpdateMenu", "DeleteMenu"} => id \in Menus \cap used
  PROVE  RequestsOK' /\ Shaped'
<1>1. links \in (SUBSET Roles) \cup (SUBSET Menus)
  BY DEF Creates, Updates, Deletes
<1>2. [do |-> do, id |-> id, links |-> links] \in Requests
  BY <1>1 DEF Requests
<1>3. pc' \in [Admins -> Places] /\ req' \in [Admins -> Requests] /\ UNCHANGED <<inval, used>>
  BY <1>2 DEF Receive, RequestsOK, Places, tables
<1>4. Shaped'
  <2> SUFFICES ASSUME NEW b \in Admins PROVE Fits(b)'
    BY DEF Shaped
  <2>1. pc'[b] = (IF b = a THEN "found" ELSE pc[b]) /\ inval'[b] = inval[b]
    BY <1>3 DEF Receive, RequestsOK
  <2>2. req'[b] = IF b = a THEN [do |-> do, id |-> id, links |-> links] ELSE req[b]
    BY <1>3 DEF Receive, RequestsOK
  <2>3. pc[a] = "idle" /\ Fits(a) /\ Fits(b)
    BY DEF Receive, Shaped
  <2> QED BY <1>3, <2>1, <2>2, <2>3 DEF Fits, Creates, Updates, Deletes
<1> QED BY <1>3, <1>4 DEF RequestsOK

LEMMA CommitShaped ==
  ASSUME RequestsOK, Shaped, NEW a \in Admins, NEW do, NEW ks \in SUBSET Keys,
         NEW next \in {"idle", "listing", "committed"}, Commit(a, do, next, ks),
         next = "listing" => do = "UpdateMenu",
         ks # {} => next = "committed",
         do # "none", used \subseteq used'
  PROVE  RequestsOK' /\ Shaped'
<1>1. NoReq \in Requests
  BY DEF NoReq, Requests
<1>2. RequestsOK'
  BY <1>1 DEF Commit, RequestsOK, Places
<1>3. Shaped'
  <2> SUFFICES ASSUME NEW b \in Admins PROVE Fits(b)'
    BY DEF Shaped
  <2>1. pc'[b] = (IF b = a THEN next ELSE pc[b]) /\ inval'[b] = (IF b = a THEN ks ELSE inval[b])
    BY DEF Commit, RequestsOK
  <2>2. req'[b] = IF b = a /\ next = "idle" THEN NoReq ELSE req[b]
    BY DEF Commit, RequestsOK
  <2>3. req[a].do = do /\ Fits(a) /\ Fits(b)
    BY DEF Commit, Shaped
  <2>4. CASE b = a /\ next = "idle"
    BY <2>1, <2>2, <2>4 DEF Fits, NoReq
  <2>5. CASE b = a /\ next # "idle"
    BY <2>1, <2>2, <2>3, <2>5 DEF Fits
  <2>6. CASE b # a
    BY <2>1, <2>2, <2>3, <2>6 DEF Fits
  <2> QED BY <2>4, <2>5, <2>6
<1> QED BY <1>2, <1>3

LEMMA ProceedShaped ==
  ASSUME RequestsOK, Shaped, NEW a \in Admins, NEW ks \in SUBSET Keys,
         Proceed(a, ks), pc[a] \in {"listing", "committed"}, UNCHANGED used
  PROVE  RequestsOK' /\ Shaped'
<1>1. NoReq \in Requests
  BY DEF NoReq, Requests
<1>2. RequestsOK'
  BY <1>1 DEF Proceed, RequestsOK, Places
<1>3. Shaped'
  <2> SUFFICES ASSUME NEW b \in Admins PROVE Fits(b)'
    BY DEF Shaped
  <2>1. /\ pc'[b] = IF b = a THEN (IF ks = {} THEN "idle" ELSE "committed") ELSE pc[b]
        /\ inval'[b] = IF b = a THEN ks ELSE inval[b]
    BY DEF Proceed, RequestsOK
  <2>2. req'[b] = IF b = a /\ ks = {} THEN NoReq ELSE req[b]
    BY DEF Proceed, RequestsOK
  <2>3. Fits(a) /\ Fits(b)
    BY DEF Shaped
  <2>4. CASE b = a /\ ks = {}
    BY <2>1, <2>2, <2>4 DEF Fits, NoReq
  <2>5. CASE b = a /\ ks # {}
    BY <2>1, <2>2, <2>3, <2>5 DEF Fits
  <2>6. CASE b # a
    BY <2>1, <2>2, <2>3, <2>6 DEF Fits
  <2> QED BY <2>4, <2>5, <2>6
<1> QED BY <1>2, <1>3

(* Steps that leave the requests alone, or start or drop one. *)
LEMMA RequestsRest ==
  ASSUME RequestsOK, Shaped, UNCHANGED used
  PROVE  /\ UNCHANGED adminVars => RequestsOK' /\ Shaped'
         /\ \A a \in Admins : Check(a) \/ Rollback(a) => RequestsOK' /\ Shaped'
<1>1. NoReq \in Requests
  BY DEF NoReq, Requests
<1>2. ASSUME UNCHANGED adminVars PROVE RequestsOK' /\ Shaped'
  BY <1>2 DEF adminVars, RequestsOK, Shaped, Fits
<1>3. ASSUME NEW a \in Admins, Check(a) PROVE RequestsOK' /\ Shaped'
  <2>1. RequestsOK'
    BY <1>3 DEF Check, RequestsOK, Places
  <2>2. pc[a] = "found" /\ UNCHANGED <<req, inval>> /\ \A b \in Admins : b # a => pc'[b] = pc[b]
    BY <1>3 DEF Check, RequestsOK
  <2>3. pc'[a] = "checked"
    BY <1>3 DEF Check, RequestsOK
  <2> QED BY <2>1, <2>2, <2>3 DEF Shaped, Fits
<1>4. ASSUME NEW a \in Admins, Rollback(a) PROVE RequestsOK' /\ Shaped'
  <2>1. RequestsOK'
    BY <1>1, <1>4 DEF Rollback, RequestsOK, Places
  <2>2. UNCHANGED inval /\ \A b \in Admins : b # a => pc'[b] = pc[b] /\ req'[b] = req[b]
    BY <1>4 DEF Rollback, RequestsOK
  <2>3. pc'[a] = "idle" /\ req'[a] = NoReq /\ pc[a] # "committed"
    BY <1>4 DEF Rollback, RequestsOK
  <2> QED BY <2>1, <2>2, <2>3 DEF Shaped, Fits, NoReq
<1> QED BY <1>2, <1>3, <1>4

(* The requests that can be received are shaped as their services need. *)
LEMMA ReceivesShaped ==
  ASSUME TablesOK, RequestsOK, Shaped, NEW a \in Admins,
         ReceiveCreate(a) \/ ReceiveUpdate(a) \/ ReceiveDelete(a)
  PROVE  RequestsOK' /\ Shaped'
<1> USE DEF Creates, Updates, Deletes, Ids, Keys
<1>1. CASE ReceiveCreate(a)
  <2>1. ASSUME NEW rs \in SUBSET (used \cap Roles), Receive(a, "CreateUser", None, rs)
        PROVE  RequestsOK' /\ Shaped'
    BY <2>1, ReceiveShaped
  <2>2. ASSUME NEW ms \in SUBSET (used \cap Menus), Receive(a, "CreateRole", None, ms)
        PROVE  RequestsOK' /\ Shaped'
    BY <2>2, ReceiveShaped
  <2>3. CASE Receive(a, "CreateMenu", None, {})
    BY <2>3, ReceiveShaped
  <2> QED BY <1>1, <2>1, <2>2, <2>3 DEF ReceiveCreate, ReceiveCreateUser, ReceiveCreateRole, ReceiveCreateMenu
<1>2. CASE ReceiveUpdate(a)
  <2>1. ASSUME NEW u \in users, NEW rs \in SUBSET (used \cap Roles), Receive(a, "UpdateUser", u, rs)
        PROVE  RequestsOK' /\ Shaped'
    BY <2>1, ReceiveShaped DEF TablesOK
  <2>2. ASSUME NEW r \in roles, NEW ms \in SUBSET (used \cap Menus), Receive(a, "UpdateRole", r, ms)
        PROVE  RequestsOK' /\ Shaped'
    BY <2>2, ReceiveShaped DEF TablesOK
  <2>3. ASSUME NEW m \in menus, Receive(a, "UpdateMenu", m, {})
        PROVE  RequestsOK' /\ Shaped'
    BY <2>3, ReceiveShaped DEF TablesOK
  <2> QED BY <1>2, <2>1, <2>2, <2>3 DEF ReceiveUpdate, ReceiveUpdateUser, ReceiveUpdateRole, ReceiveUpdateMenu
<1>3. CASE ReceiveDelete(a)
  <2>1. ASSUME NEW u \in users, Receive(a, "DeleteUser", u, {})
        PROVE  RequestsOK' /\ Shaped'
    BY <2>1, ReceiveShaped DEF TablesOK
  <2>2. ASSUME NEW r \in roles, Receive(a, "DeleteRole", r, {})
        PROVE  RequestsOK' /\ Shaped'
    BY <2>2, ReceiveShaped DEF TablesOK
  <2>3. ASSUME NEW m \in menus, Receive(a, "DeleteMenu", m, {})
        PROVE  RequestsOK' /\ Shaped'
    BY <2>3, ReceiveShaped DEF TablesOK
  <2> QED BY <1>3, <2>1, <2>2, <2>3 DEF ReceiveDelete, ReceiveDeleteUser, ReceiveDeleteRole, ReceiveDeleteMenu
<1> QED BY <1>1, <1>2, <1>3

-----------------------------------------------------------------------------
(* The tables. *)

LEMMA RelinkRows ==
  ASSUME NEW A, NEW B, NEW t \in SUBSET (A \X B), NEW x \in A, NEW ys \in SUBSET B
  PROVE  /\ Relink(t, x, ys) \subseteq A \X B
         /\ \A u \in A, v \in B :
              <<u, v>> \in Relink(t, x, ys) <=> IF u = x THEN v \in ys ELSE <<u, v>> \in t
<1>1. \A p \in t : p = <<p[1], p[2]>> /\ p[1] \in A /\ p[2] \in B
  OBVIOUS
<1> QED BY <1>1 DEF Relink

LEMMA UserRoleRows ==
  ASSUME userRole \subseteq Users \X Roles, NEW x \in Users, NEW ys, ys \subseteq Roles
  PROVE  /\ Relink(userRole, x, ys) \subseteq Users \X Roles
         /\ \A u \in Users, r \in Roles :
              <<u, r>> \in Relink(userRole, x, ys) <=> IF u = x THEN r \in ys ELSE <<u, r>> \in userRole
BY RelinkRows

LEMMA RoleMenuRows ==
  ASSUME roleMenu \subseteq Roles \X Menus, NEW x \in Roles, NEW ys, ys \subseteq Menus
  PROVE  /\ Relink(roleMenu, x, ys) \subseteq Roles \X Menus
         /\ \A r \in Roles, m \in Menus :
              <<r, m>> \in Relink(roleMenu, x, ys) <=> IF r = x THEN m \in ys ELSE <<r, m>> \in roleMenu
BY RelinkRows

(* Only commits touch the tables, and what each of them writes is typed.   *)
LEMMA CommitTables ==
  ASSUME TypeOK, Shaped, NEW a \in Admins, Commits(a)
  PROVE  TablesOK' /\ used \subseteq used'
<1>0. TablesOK /\ RequestsOK /\ Fits(a)
  BY TypeParts DEF Shaped
<1> USE <1>0, IdsAssumption DEF TablesOK, Ids, Keys
<1>1. CASE CreateUser(a)
  <2>1. PICK u \in Users \ used :
          /\ users' = users \cup {u} /\ used' = used \cup {u}
          /\ userRole' = Relink(userRole, u, req[a].links)
    BY <1>1 DEF CreateUser
  <2>2. req[a].links \subseteq Roles
    BY <1>1 DEF CreateUser, Commit, Fits
  <2>3. userRole' \subseteq Users \X Roles
    BY <2>1, <2>2, UserRoleRows
  <2> QED BY <1>1, <2>1, <2>3 DEF CreateUser
<1>2. CASE UpdateUser(a)
  <2>1. req[a].id \in Users /\ req[a].links \subseteq Roles
    BY <1>2 DEF UpdateUser, Commit, Fits
  <2>2. userRole' \subseteq Users \X Roles
    BY <1>2, <2>1, UserRoleRows DEF UpdateUser
  <2> QED BY <1>2, <2>2 DEF UpdateUser
<1>3. CASE DeleteUser(a)
  <2>1. req[a].id \in Users
    BY <1>3 DEF DeleteUser, Commit, Fits
  <2>2. userRole' \subseteq Users \X Roles
    BY <1>3, <2>1, UserRoleRows DEF DeleteUser
  <2> QED BY <1>3, <2>2 DEF DeleteUser
<1>4. CASE CreateRole(a)
  <2>1. PICK r \in Roles \ used :
          /\ roles' = roles \cup {r} /\ used' = used \cup {r}
          /\ roleMenu' = Relink(roleMenu, r, req[a].links)
    BY <1>4 DEF CreateRole
  <2>2. req[a].links \subseteq Menus
    BY <1>4 DEF CreateRole, Commit, Fits
  <2>3. roleMenu' \subseteq Roles \X Menus
    BY <2>1, <2>2, RoleMenuRows
  <2> QED BY <1>4, <2>1, <2>3 DEF CreateRole
<1>5. CASE UpdateRole(a)
  <2>1. req[a].id \in Roles \cap used /\ req[a].links \subseteq Menus
    BY <1>5 DEF UpdateRole, Commit, Fits
  <2>2. roleMenu' \subseteq Roles \X Menus
    BY <1>5, <2>1, RoleMenuRows DEF UpdateRole
  <2> QED BY <1>5, <2>1, <2>2 DEF UpdateRole
<1>6. CASE DeleteRole(a)
  <2>1. req[a].id \in Roles
    BY <1>6 DEF DeleteRole, Commit, Fits
  <2>2. roleMenu' \subseteq Roles \X Menus
    BY <1>6, <2>1, RoleMenuRows DEF DeleteRole
  <2> QED BY <1>6, <2>2 DEF DeleteRole
<1>7. CASE CreateMenu(a)
  BY <1>7 DEF CreateMenu
<1>8. CASE UpdateMenu(a)
  <2>1. req[a].id \in Menus \cap used
    BY <1>8 DEF UpdateMenu, Commit, Fits
  <2> QED BY <1>8, <2>1 DEF UpdateMenu
<1>9. CASE DeleteMenu(a)
  BY <1>9 DEF DeleteMenu
<1> QED BY <1>1, <1>2, <1>3, <1>4, <1>5, <1>6, <1>7, <1>8, <1>9 DEF Commits

(* Each commit is a Commit of some kind, with the cache keys it leaves.    *)
LEMMA CommitKinds ==
  ASSUME TypeOK, Shaped, NEW a \in Admins, Commits(a)
  PROVE  RequestsOK' /\ Shaped' /\ UNCHANGED cacheVars /\ raced' \in BOOLEAN
<1>0. TablesOK /\ RequestsOK /\ Fits(a) /\ used \subseteq used' /\ raced \in BOOLEAN
  BY TypeParts, CommitTables DEF Shaped, TypeOK
<1> DEFINE Kind(do, next, ks) ==
      /\ Commit(a, do, next, ks)
      /\ do \in {"CreateUser", "CreateRole", "CreateMenu", "DeleteMenu"} => next = "idle" /\ ks = {}
      /\ do \in {"UpdateUser", "DeleteUser", "UpdateRole", "DeleteRole"}
           => next = "committed" /\ ks = {req[a].id}
      /\ do = "UpdateMenu" => next = "listing" /\ ks = {}
      /\ do \in Creates \cup Updates \cup Deletes
<1>1. ASSUME NEW do, NEW next, NEW ks, Kind(do, next, ks)
      PROVE  RequestsOK' /\ Shaped' /\ UNCHANGED cacheVars /\ raced' \in BOOLEAN
  <2>1. req[a].do = do
    BY <1>1 DEF Commit
  <2>2. ks \in SUBSET Keys /\ next \in {"idle", "listing", "committed"}
    BY <1>0, <1>1, <2>1 DEF Fits, Keys, Creates, Updates, Deletes
  <2>3. /\ next = "listing" => do = "UpdateMenu"
        /\ ks # {} => next = "committed"
        /\ do # "none"
    BY <1>1 DEF Creates, Updates, Deletes
  <2>4. RequestsOK' /\ Shaped'
    BY <1>0, <1>1, <2>2, <2>3, CommitShaped
  <2>5. UNCHANGED cacheVars
    BY <1>1 DEF Commit
  <2>6. raced' \in BOOLEAN
    <3>1. raced' = (raced \/ \E b \in Admins \ {a} :
                     /\ pc[b] \in {"found", "checked"}
                     /\ Cuts(req[a], req[b]) \/ Cuts(req[b], req[a]))
      BY <1>1 DEF Commit
    <3> QED BY <3>1, Zenon
  <2> QED BY <2>4, <2>5, <2>6
<1>2. \E do, next, ks : Kind(do, next, ks)
  <2>1. CASE CreateUser(a) BY <2>1 DEF CreateUser, Creates
  <2>2. CASE UpdateUser(a) BY <2>2 DEF UpdateUser, Updates
  <2>3. CASE DeleteUser(a) BY <2>3 DEF DeleteUser, Deletes
  <2>4. CASE CreateRole(a) BY <2>4 DEF CreateRole, Creates
  <2>5. CASE UpdateRole(a) BY <2>5 DEF UpdateRole, Updates
  <2>6. CASE DeleteRole(a) BY <2>6 DEF DeleteRole, Deletes
  <2>7. CASE CreateMenu(a) BY <2>7 DEF CreateMenu, Creates
  <2>8. CASE UpdateMenu(a) BY <2>8 DEF UpdateMenu, Updates
  <2>9. CASE DeleteMenu(a) BY <2>9 DEF DeleteMenu, Deletes
  <2> QED BY <2>1, <2>2, <2>3, <2>4, <2>5, <2>6, <2>7, <2>8, <2>9 DEF Commits
<1> QED BY <1>1, <1>2

-----------------------------------------------------------------------------
(* Types, with the shape of the requests. *)

LEMMA FromTablesTyped ==
  ASSUME TablesOK, NEW k \in Keys
  PROVE  FromTables(k) \in Values(k)
<1>1. CASE k \in Users
  BY <1>1 DEF FromTables, Values, RolesOf
<1>2. CASE k \notin Users
  <2>1. \A m \in MenusOf(k) \cap menus : <<m, content[m]>> \in Menus \X Contents
    BY DEF TablesOK, MenusOf
  <2> QED BY <1>2, <2>1 DEF FromTables, Values
<1> QED BY <1>1, <1>2

(* Steps of the requests after the commit. *)
LEMMA ClearsTyped ==
  ASSUME TypeOK, Shaped, NEW a \in Admins, Clears(a)
  PROVE  TypeOK' /\ Shaped'
<1>0. TablesOK /\ RequestsOK /\ CachesOK /\ Fits(a)
  BY TypeParts DEF Shaped
<1>a. \A k \in inval[a] : k \in Keys /\ pc[a] = "committed" /\ inval[a] \ {k} \in SUBSET Keys
  BY <1>0 DEF RequestsOK, Fits
<1>b. ASSUME UNCHANGED tables PROVE TablesOK' /\ UNCHANGED used
  BY <1>0, <1>b DEF TablesOK, tables
<1>1. CASE ListBound(a)
  <2>1. RolesWith(req[a].id) \in SUBSET Keys
    BY DEF RolesWith, Keys
  <2>2. RequestsOK' /\ Shaped'
    BY <1>0, <1>1, <1>b, <2>1, ProceedShaped DEF ListBound
  <2>3. CachesOK'
    BY <1>0, <1>1 DEF ListBound, CachesOK, cacheVars
  <2> QED BY <1>1, <1>b, <2>2, <2>3, TypeParts DEF ListBound
<1>2. CASE ListBoundFails(a)
  <2>1. RequestsOK' /\ Shaped'
    BY <1>0, <1>2, <1>b, ProceedShaped DEF ListBoundFails
  <2>2. CachesOK'
    BY <1>0, <1>2 DEF ListBoundFails, CachesOK, RolesWith, Keys
  <2> QED BY <1>2, <1>b, <2>1, <2>2, TypeParts DEF ListBoundFails
<1>3. ASSUME NEW k \in Keys, Invalidate(a, k) PROVE TypeOK' /\ Shaped'
  <2>1. RequestsOK' /\ Shaped'
    BY <1>0, <1>3, <1>a, <1>b, ProceedShaped DEF Invalidate
  <2>2. CachesOK'
    BY <1>0, <1>3 DEF Invalidate, CachesOK
  <2> QED BY <1>3, <1>b, <2>1, <2>2, TypeParts DEF Invalidate
<1>4. ASSUME NEW k \in Keys, InvalidateFails(a, k) PROVE TypeOK' /\ Shaped'
  <2>1. RequestsOK' /\ Shaped'
    BY <1>0, <1>4, <1>a, <1>b, ProceedShaped DEF InvalidateFails
  <2>2. CachesOK'
    BY <1>0, <1>4 DEF InvalidateFails, CachesOK
  <2> QED BY <1>4, <1>b, <2>1, <2>2, TypeParts DEF InvalidateFails
<1> QED BY <1>1, <1>2, <1>3, <1>4 DEF Clears

LEMMA CachesTyped ==
  ASSUME TypeOK, Shaped,
         (\E d \in Readers : Reads(d)) \/ (\E k \in Keys : Expire(k))
  PROVE  TypeOK' /\ Shaped'
<1>0. TablesOK /\ RequestsOK /\ CachesOK
  BY TypeParts
<1>1. UNCHANGED <<tables, adminVars>>
  BY DEF Reads, ReadTables, Fill, FillFails, Expire
<1>2. TablesOK' /\ RequestsOK' /\ Shaped'
  BY <1>0, <1>1, RequestsRest DEF TablesOK, tables
<1>3. CachesOK'
  <2>1. ASSUME NEW d \in Readers, NEW k \in used \cap Keys, ReadTables(d, k) PROVE CachesOK'
    BY <1>0, <2>1, FromTablesTyped DEF ReadTables, CachesOK
  <2>2. ASSUME NEW d \in Readers, Fill(d) PROVE CachesOK'
    BY <1>0, <2>2 DEF Fill, CachesOK
  <2>3. ASSUME NEW d \in Readers, FillFails(d) PROVE CachesOK'
    BY <1>0, <2>3 DEF FillFails, CachesOK
  <2>4. ASSUME NEW k \in Keys, Expire(k) PROVE CachesOK'
    BY <1>0, <2>4 DEF Expire, CachesOK
  <2> QED BY <2>1, <2>2, <2>3, <2>4 DEF Reads
<1> QED BY <1>2, <1>3, TypeParts

LEMMA TypeStep ==
  ASSUME TypeOK, Shaped, [Next]_vars
  PROVE  TypeOK' /\ Shaped'
<1>0. TablesOK /\ RequestsOK /\ CachesOK
  BY TypeParts
<1>1. ASSUME NEW a \in Admins, Begins(a) PROVE TypeOK' /\ Shaped'
  <2>1. UNCHANGED <<tables, cacheVars, raced>>
    BY <1>1 DEF Begins, ReceiveCreate, ReceiveCreateUser, ReceiveCreateRole, ReceiveCreateMenu,
         ReceiveUpdate, ReceiveUpdateUser, ReceiveUpdateRole, ReceiveUpdateMenu,
         ReceiveDelete, ReceiveDeleteUser, ReceiveDeleteRole, ReceiveDeleteMenu, Receive, Check, Rollback
  <2>2. TablesOK' /\ CachesOK' /\ UNCHANGED used
    BY <1>0, <2>1 DEF TablesOK, CachesOK, tables, cacheVars
  <2>3. RequestsOK' /\ Shaped'
    BY <1>0, <1>1, <2>2, RequestsRest, ReceivesShaped DEF Begins
  <2> QED BY <2>2, <2>3, TypeParts
<1>2. ASSUME NEW a \in Admins, Commits(a) PROVE TypeOK' /\ Shaped'
  <2>1. TablesOK' /\ RequestsOK' /\ Shaped' /\ UNCHANGED cacheVars /\ raced' \in BOOLEAN
    BY <1>2, CommitTables, CommitKinds
  <2>2. CachesOK'
    BY <1>0, <2>1 DEF CachesOK, cacheVars
  <2> QED BY <2>1, <2>2, TypeParts
<1>3. ASSUME UNCHANGED vars PROVE TypeOK' /\ Shaped'
  <2>1. UNCHANGED <<tables, adminVars, cacheVars, raced>>
    BY <1>3 DEF vars
  <2>2. TablesOK' /\ CachesOK' /\ RequestsOK' /\ Shaped'
    BY <1>0, <2>1, RequestsRest DEF TablesOK, CachesOK, tables, cacheVars
  <2> QED BY <2>2, TypeParts
<1> QED BY <1>1, <1>2, <1>3, ClearsTyped, CachesTyped DEF Next

LEMMA TypeInit == Init => TypeOK /\ Shaped
<1> SUFFICES ASSUME Init PROVE TypeOK /\ Shaped
  OBVIOUS
<1>1. TablesOK
  BY IdsAssumption, ContentsAssumption DEF Init, TablesOK, Ids, Keys
<1>2. RequestsOK
  BY DEF Init, RequestsOK, Places, Requests, NoReq
<1>3. CachesOK
  BY DEF Init, CachesOK
<1>4. Shaped
  BY DEF Init, Shaped, Fits, NoReq
<1> QED BY <1>1, <1>2, <1>3, <1>4, TypeParts

(* The tables link known ids, the requests name ids their service works    *)
(* on, and the caches hold values of their key's kind, in every state.     *)
THEOREM TypeCorrect == Spec => []TypeOK
<1>1. Init => TypeOK /\ Shaped
  BY TypeInit
<1>2. TypeOK /\ Shaped /\ [Next]_vars => (TypeOK /\ Shaped)'
  BY TypeStep
<1> QED BY <1>1, <1>2, PTL DEF Spec

-----------------------------------------------------------------------------
(* The links. *)

(* A role with menus exists: the one invariant that no race disturbs. *)
LEMMA BoundStep ==
  ASSUME TypeOK, Shaped, BoundRolesExist, [Next]_vars
  PROVE  BoundRolesExist'
<1>0. roleMenu \subseteq Roles \X Menus /\ BoundRolesExist /\ \A p \in roleMenu : p[1] \in roles
  BY DEF TypeOK, BoundRolesExist
<1>1. ASSUME UNCHANGED <<roles, roleMenu>> PROVE BoundRolesExist'
  BY <1>0, <1>1 DEF BoundRolesExist
<1>2. ASSUME NEW x, NEW ys, roleMenu' = Relink(roleMenu, x, ys), roles \subseteq roles', x \in roles'
      PROVE  BoundRolesExist'
  BY <1>0, <1>2 DEF BoundRolesExist, Relink
<1>3. ASSUME NEW a \in Admins, Commits(a) PROVE BoundRolesExist'
  <2>1. CASE CreateRole(a)
    BY <1>2, <2>1 DEF CreateRole
  <2>2. CASE UpdateRole(a)
    BY <1>2, <2>2 DEF UpdateRole
  <2>3. CASE DeleteRole(a)
    BY <1>0, <2>3 DEF DeleteRole, BoundRolesExist, Relink
  <2>4. CASE CreateUser(a) \/ UpdateUser(a) \/ DeleteUser(a) \/ CreateMenu(a) \/ UpdateMenu(a) \/ DeleteMenu(a)
    BY <1>1, <2>4 DEF CreateUser, UpdateUser, DeleteUser, CreateMenu, UpdateMenu, DeleteMenu
  <2> QED BY <1>3, <2>1, <2>2, <2>3, <2>4 DEF Commits
<1>4. ASSUME NEW a \in Admins, Begins(a) \/ Clears(a) PROVE UNCHANGED <<roles, roleMenu>>
  BY <1>4 DEF Begins, ReceiveCreate, ReceiveCreateUser, ReceiveCreateRole, ReceiveCreateMenu,
         ReceiveUpdate, ReceiveUpdateUser, ReceiveUpdateRole, ReceiveUpdateMenu,
         ReceiveDelete, ReceiveDeleteUser, ReceiveDeleteRole, ReceiveDeleteMenu, Receive, Check, Rollback,
              Clears, ListBound, ListBoundFails, Invalidate, InvalidateFails, tables
<1>5. ASSUME (\E d \in Readers : Reads(d)) \/ (\E k \in Keys : Expire(k)) \/ UNCHANGED vars
      PROVE  UNCHANGED <<roles, roleMenu>>
  BY <1>5 DEF Reads, ReadTables, Fill, FillFails, Expire, tables, vars
<1> QED BY <1>1, <1>3, <1>4, <1>5 DEF Next

(* A role that has menus exists, however updates and deletes overlap. *)
THEOREM BoundRolesAreThere == Spec => []BoundRolesExist
<1>1. Init => TypeOK /\ Shaped /\ BoundRolesExist
  BY TypeInit DEF Init, BoundRolesExist
<1>2. TypeOK /\ Shaped /\ BoundRolesExist /\ [Next]_vars => (TypeOK /\ Shaped /\ BoundRolesExist)'
  BY TypeStep, BoundStep
<1> QED BY <1>1, <1>2, PTL DEF Spec

(* A commit that no delete races finds the others as they were, and the    *)
(* rows they name apart from what it deletes.                              *)
LEMMA CommitAlone ==
  ASSUME TypeOK, Shaped, NEW a \in Admins, Commits(a), ~raced'
  PROVE  /\ ~raced /\ pc[a] = "checked" /\ pc'[a] \notin {"found", "checked"}
         /\ \A b \in Admins \ {a} :
              /\ pc'[b] = pc[b] /\ req'[b] = req[b]
              /\ pc[b] \in {"found", "checked"} => ~Cuts(req[a], req[b]) /\ ~Cuts(req[b], req[a])
<1>1. RequestsOK
  BY TypeParts
<1>2. ASSUME NEW do, NEW next \in {"idle", "listing", "committed"}, NEW ks, Commit(a, do, next, ks)
      PROVE  /\ ~raced /\ pc[a] = "checked" /\ pc'[a] \notin {"found", "checked"}
             /\ \A b \in Admins \ {a} :
                  /\ pc'[b] = pc[b] /\ req'[b] = req[b]
                  /\ pc[b] \in {"found", "checked"} => ~Cuts(req[a], req[b]) /\ ~Cuts(req[b], req[a])
  <2>1. pc[a] = "checked" /\ pc'[a] = next
    BY <1>1, <1>2 DEF Commit, RequestsOK
  <2>2. \A b \in Admins \ {a} : pc'[b] = pc[b] /\ req'[b] = req[b]
    BY <1>1, <1>2 DEF Commit, RequestsOK
  <2>3. ~(raced \/ \E b \in Admins \ {a} :
            /\ pc[b] \in {"found", "checked"}
            /\ Cuts(req[a], req[b]) \/ Cuts(req[b], req[a]))
    BY <1>2 DEF Commit
  <2> QED BY <2>1, <2>2, <2>3
<1>3. \E do, ks : \E next \in {"idle", "listing", "committed"} : Commit(a, do, next, ks)
  BY DEF Commits, CreateUser, UpdateUser, DeleteUser, CreateRole, UpdateRole, DeleteRole,
         CreateMenu, UpdateMenu, DeleteMenu
<1> QED BY <1>2, <1>3

Serial == Relied /\ SerialLinksIntact

(* What request b has found, when a's commit neither deletes what b names  *)
(* nor names what b is to delete.                                          *)
Apart(a, b) ==
  /\ pc'[b] = pc[b] /\ req'[b] = req[b]
  /\ pc[b] \in {"found", "checked"} =>
       Fits(b) /\ Sees(b) /\ ~Cuts(req[a], req[b]) /\ ~Cuts(req[b], req[a])

(* What a commit of a keeps, when no delete raced: the links join rows,    *)
(* and what every other request found still holds.                         *)
LEMMA CommitSerial ==
  ASSUME TypeOK, Shaped, Serial, NEW a \in Admins, Commits(a)
  PROVE  Serial'
<1> SUFFICES ASSUME ~raced'
             PROVE  /\ \A b \in Admins : Sees(b)'
                    /\ userRole' \subseteq users' \X roles' /\ roleMenu' \subseteq roles' \X menus'
  BY DEF Serial, Relied, SerialLinksIntact
<1>0. /\ TablesOK /\ Fits(a) /\ Sees(a) /\ pc[a] = "checked"
      /\ userRole \subseteq users \X roles /\ roleMenu \subseteq roles \X menus
  BY CommitAlone, TypeParts DEF Shaped, Serial, Relied, SerialLinksIntact
<1>a. Sees(a)'
  <2>1. pc'[a] \notin {"found", "checked"}
    BY CommitAlone
  <2> QED BY <2>1 DEF Sees
<1>b. \A b \in Admins \ {a} : Apart(a, b)
  BY CommitAlone DEF Apart, Shaped, Serial, Relied
<1> DEFINE Other(b) == b \in Admins \ {a} /\ Apart(a, b)
<1>1. CASE CreateUser(a)
  <2>1. PICK u \in Users \ used :
          users' = users \cup {u} /\ userRole' = Relink(userRole, u, req[a].links)
    BY <1>1 DEF CreateUser
  <2>2. req[a].links \subseteq roles /\ req[a].links \subseteq Roles /\ UNCHANGED <<roles, menus, roleMenu>>
    BY <1>0, <1>1 DEF CreateUser, Commit, Sees, Fits
  <2>3. /\ userRole' \subseteq Users \X Roles
        /\ \A v \in Users, r \in Roles :
             <<v, r>> \in userRole' <=> IF v = u THEN r \in req[a].links ELSE <<v, r>> \in userRole
    BY <1>0, <2>1, <2>2, UserRoleRows DEF CreateUser, TablesOK
  <2>8. userRole' \subseteq users' \X roles' /\ roleMenu' \subseteq roles' \X menus'
    BY <1>0, <2>1, <2>2, <2>3 DEF TablesOK
  <2>9. ASSUME NEW b \in Admins, Other(b) PROVE Sees(b)'
    BY <1>1, <2>1, <2>2, <2>3, <2>9 DEF Apart, Sees, Fits, Cuts, Deletes, RolesOf, RolesWith
  <2> QED BY <1>a, <1>b, <2>8, <2>9
<1>2. CASE UpdateUser(a)
  <2>2. /\ req[a].id \in users /\ req[a].id \in Users /\ req[a].links \subseteq roles
        /\ req[a].links \subseteq Roles /\ UNCHANGED <<users, roles, menus, roleMenu>>
    BY <1>0, <1>2 DEF UpdateUser, Commit, Sees, Fits
  <2>3. /\ userRole' \subseteq Users \X Roles
        /\ \A v \in Users, r \in Roles :
             <<v, r>> \in userRole' <=> IF v = req[a].id THEN r \in req[a].links ELSE <<v, r>> \in userRole
    BY <1>0, <1>2, <2>2, UserRoleRows DEF UpdateUser, TablesOK
  <2>8. userRole' \subseteq users' \X roles' /\ roleMenu' \subseteq roles' \X menus'
    BY <1>0, <2>2, <2>3 DEF TablesOK
  <2>9. ASSUME NEW b \in Admins, Other(b) PROVE Sees(b)'
    BY <1>2, <2>2, <2>3, <2>9 DEF Apart, Sees, Fits, Cuts, Deletes, RolesOf, RolesWith
  <2> QED BY <1>a, <1>b, <2>8, <2>9
<1>3. CASE DeleteUser(a)
  <2>2. /\ req[a].do = "DeleteUser" /\ req[a].id \in Users
        /\ users' = users \ {req[a].id} /\ UNCHANGED <<roles, menus, roleMenu>>
    BY <1>0, <1>3 DEF DeleteUser, Commit, Sees, Fits
  <2>3. /\ userRole' \subseteq Users \X Roles
        /\ \A v \in Users, r \in Roles :
             <<v, r>> \in userRole' <=> IF v = req[a].id THEN r \in {} ELSE <<v, r>> \in userRole
    BY <1>0, <1>3, <2>2, UserRoleRows DEF DeleteUser, TablesOK
  <2>8. userRole' \subseteq users' \X roles' /\ roleMenu' \subseteq roles' \X menus'
    BY <1>0, <2>2, <2>3 DEF TablesOK
  <2>9. ASSUME NEW b \in Admins, Other(b) PROVE Sees(b)'
    BY <1>3, <2>2, <2>3, <2>9 DEF Apart, Sees, Fits, Cuts, Deletes, RolesOf, RolesWith
  <2> QED BY <1>a, <1>b, <2>8, <2>9
<1>4. CASE CreateRole(a)
  <2>1. PICK r \in Roles \ used :
          roles' = roles \cup {r} /\ roleMenu' = Relink(roleMenu, r, req[a].links)
    BY <1>4 DEF CreateRole
  <2>2. req[a].links \subseteq menus /\ req[a].links \subseteq Menus /\ UNCHANGED <<users, menus, userRole>>
    BY <1>0, <1>4 DEF CreateRole, Commit, Sees, Fits
  <2>3. /\ roleMenu' \subseteq Roles \X Menus
        /\ \A s \in Roles, m \in Menus :
             <<s, m>> \in roleMenu' <=> IF s = r THEN m \in req[a].links ELSE <<s, m>> \in roleMenu
    BY <1>0, <2>1, <2>2, RoleMenuRows DEF CreateRole, TablesOK
  <2>8. userRole' \subseteq users' \X roles' /\ roleMenu' \subseteq roles' \X menus'
    BY <1>0, <2>1, <2>2, <2>3 DEF TablesOK
  <2>9. ASSUME NEW b \in Admins, Other(b) PROVE Sees(b)'
    BY <1>4, <2>1, <2>2, <2>3, <2>9 DEF Apart, Sees, Fits, Cuts, Deletes, RolesOf, RolesWith
  <2> QED BY <1>a, <1>b, <2>8, <2>9
<1>5. CASE UpdateRole(a)
  <2>2. /\ req[a].id \in Roles /\ req[a].links \subseteq menus /\ req[a].links \subseteq Menus
        /\ roles' = roles \cup {req[a].id} /\ UNCHANGED <<users, menus, userRole>>
    BY <1>0, <1>5 DEF UpdateRole, Commit, Sees, Fits
  <2>3. /\ roleMenu' \subseteq Roles \X Menus
        /\ \A r \in Roles, m \in Menus :
             <<r, m>> \in roleMenu' <=> IF r = req[a].id THEN m \in req[a].links ELSE <<r, m>> \in roleMenu
    BY <1>0, <1>5, <2>2, RoleMenuRows DEF UpdateRole, TablesOK
  <2>8. userRole' \subseteq users' \X roles' /\ roleMenu' \subseteq roles' \X menus'
    BY <1>0, <2>2, <2>3 DEF TablesOK
  <2>9. ASSUME NEW b \in Admins, Other(b) PROVE Sees(b)'
    BY <1>5, <2>2, <2>3, <2>9 DEF Apart, Sees, Fits, Cuts, Deletes, RolesOf, RolesWith
  <2> QED BY <1>a, <1>b, <2>8, <2>9
<1>6. CASE DeleteRole(a)
  <2>2. /\ req[a].do = "DeleteRole" /\ req[a].id \in Roles /\ \A u \in Users : <<u, req[a].id>> \notin userRole
        /\ roles' = roles \ {req[a].id} /\ UNCHANGED <<users, menus, userRole>>
    BY <1>0, <1>6 DEF DeleteRole, Commit, Sees, Fits, RolesOf
  <2>3. /\ roleMenu' \subseteq Roles \X Menus
        /\ \A r \in Roles, m \in Menus :
             <<r, m>> \in roleMenu' <=> IF r = req[a].id THEN m \in {} ELSE <<r, m>> \in roleMenu
    BY <1>0, <1>6, <2>2, RoleMenuRows DEF DeleteRole, TablesOK
  <2>8. userRole' \subseteq users' \X roles' /\ roleMenu' \subseteq roles' \X menus'
    BY <1>0, <2>2, <2>3 DEF TablesOK
  <2>9. ASSUME NEW b \in Admins, Other(b) PROVE Sees(b)'
    BY <1>6, <2>2, <2>3, <2>9 DEF Apart, Sees, Fits, Cuts, Deletes, RolesOf, RolesWith
  <2> QED BY <1>a, <1>b, <2>8, <2>9
<1>7. CASE CreateMenu(a)
  <2>2. menus \subseteq menus' /\ UNCHANGED <<users, roles, userRole, roleMenu>>
    BY <1>7 DEF CreateMenu
  <2>8. userRole' \subseteq users' \X roles' /\ roleMenu' \subseteq roles' \X menus'
    BY <1>0, <2>2
  <2>9. ASSUME NEW b \in Admins, Other(b) PROVE Sees(b)'
    BY <1>7, <2>2, <2>9 DEF Apart, Sees, RolesOf, RolesWith
  <2> QED BY <1>a, <1>b, <2>8, <2>9
<1>8. CASE UpdateMenu(a)
  <2>2. menus \subseteq menus' /\ UNCHANGED <<users, roles, userRole, roleMenu>>
    BY <1>8 DEF UpdateMenu
  <2>8. userRole' \subseteq users' \X roles' /\ roleMenu' \subseteq roles' \X menus'
    BY <1>0, <2>2
  <2>9. ASSUME NEW b \in Admins, Other(b) PROVE Sees(b)'
    BY <1>8, <2>2, <2>9 DEF Apart, Sees, RolesOf, RolesWith
  <2> QED BY <1>a, <1>b, <2>8, <2>9
<1>9. CASE DeleteMenu(a)
  <2>2. /\ req[a].do = "DeleteMenu" /\ req[a].id \in Menus /\ \A r \in Roles : <<r, req[a].id>> \notin roleMenu
        /\ menus' = menus \ {req[a].id} /\ UNCHANGED <<users, roles, userRole, roleMenu>>
    BY <1>0, <1>9 DEF DeleteMenu, Commit, Sees, Fits, RolesWith
  <2>8. userRole' \subseteq users' \X roles' /\ roleMenu' \subseteq roles' \X menus'
    BY <1>0, <2>2 DEF TablesOK
  <2>9. ASSUME NEW b \in Admins, Other(b) PROVE Sees(b)'
    BY <1>9, <2>2, <2>9 DEF Apart, Sees, Fits, Cuts, Deletes, RolesOf, RolesWith
  <2> QED BY <1>a, <1>b, <2>8, <2>9
<1> QED BY <1>1, <1>2, <1>3, <1>4, <1>5, <1>6, <1>7, <1>8, <1>9 DEF Commits

(* The other steps move requests only forward, or drop them. *)
LEMMA BeginSerial ==
  ASSUME TypeOK, Shaped, Serial, NEW a \in Admins, Begins(a)
  PROVE  Serial'
<1>1. UNCHANGED <<tables, raced>>
  BY DEF Begins, ReceiveCreate, ReceiveCreateUser, ReceiveCreateRole, ReceiveCreateMenu,
         ReceiveUpdate, ReceiveUpdateUser, ReceiveUpdateRole, ReceiveUpdateMenu,
         ReceiveDelete, ReceiveDeleteUser, ReceiveDeleteRole, ReceiveDeleteMenu, Receive, Check, Rollback
<1>2. UNCHANGED <<users, roles, menus, userRole, roleMenu>> /\ SerialLinksIntact'
  BY <1>1 DEF tables, Serial, SerialLinksIntact
<1>3. RequestsOK
  BY TypeParts
<1> SUFFICES ASSUME ~raced' PROVE \A b \in Admins : Sees(b)'
  BY <1>2 DEF Serial, Relied
<1>4. \A b \in Admins : Sees(b)
  BY <1>1 DEF Serial, Relied
<1>5. ASSUME NEW b \in Admins \ {a} PROVE Sees(b)'
  <2>1. pc'[b] = pc[b] /\ req'[b] = req[b]
    BY <1>3 DEF Begins, ReceiveCreate, ReceiveCreateUser, ReceiveCreateRole, ReceiveCreateMenu,
         ReceiveUpdate, ReceiveUpdateUser, ReceiveUpdateRole, ReceiveUpdateMenu,
         ReceiveDelete, ReceiveDeleteUser, ReceiveDeleteRole, ReceiveDeleteMenu, Receive, Check, Rollback, RequestsOK
  <2> QED BY <1>2, <1>4, <2>1 DEF Sees, RolesOf, RolesWith
<1>6. Sees(a)'
  <2>1. ASSUME NEW do, NEW id, NEW links, Receive(a, do, id, links),
               do = "UpdateUser" => id \in users, do = "UpdateRole" => id \in roles
        PROVE  Sees(a)'
    <3>1. pc'[a] = "found" /\ req'[a] = [do |-> do, id |-> id, links |-> links]
      BY <1>3, <2>1 DEF Receive, RequestsOK
    <3> QED BY <1>2, <2>1, <3>1 DEF Sees
  <2>2. CASE ReceiveCreate(a)
    BY <2>1, <2>2 DEF ReceiveCreate, ReceiveCreateUser, ReceiveCreateRole, ReceiveCreateMenu
  <2>3. CASE ReceiveUpdate(a)
    BY <2>1, <2>3 DEF ReceiveUpdate, ReceiveUpdateUser, ReceiveUpdateRole, ReceiveUpdateMenu
  <2>4. CASE ReceiveDelete(a)
    BY <2>1, <2>4 DEF ReceiveDelete, ReceiveDeleteUser, ReceiveDeleteRole, ReceiveDeleteMenu
  <2>5. CASE Check(a)
    <3>1. pc[a] = "found" /\ pc'[a] = "checked" /\ req'[a] = req[a] /\ Passes(req[a])
      BY <1>3, <2>5 DEF Check, RequestsOK
    <3>2. /\ req[a].do \in {"CreateUser", "UpdateUser"} => req[a].links \subseteq roles
          /\ req[a].do \in {"CreateRole", "UpdateRole"} => req[a].links \subseteq menus
          /\ req[a].do = "DeleteRole" => \A u \in Users : req[a].id \notin RolesOf(u)
          /\ req[a].do = "DeleteMenu" => RolesWith(req[a].id) = {}
      BY <3>1 DEF Passes, RolesExist, MenusExist, RoleUsed, MenuUsed
    <3> QED BY <1>2, <1>4, <3>1, <3>2 DEF Sees, RolesOf, RolesWith
  <2>6. CASE Rollback(a)
    <3>1. pc'[a] = "idle"
      BY <1>3, <2>6 DEF Rollback, RequestsOK
    <3> QED BY <3>1 DEF Sees
  <2> QED BY <2>2, <2>3, <2>4, <2>5, <2>6 DEF Begins
<1> QED BY <1>5, <1>6

LEMMA RestSerial ==
  ASSUME TypeOK, Shaped, Serial,
         \/ \E a \in Admins : Clears(a)
         \/ (\E d \in Readers : Reads(d)) \/ (\E k \in Keys : Expire(k)) \/ UNCHANGED vars
  PROVE  Serial'
<1>1. UNCHANGED <<tables, raced>>
  BY DEF Clears, ListBound, ListBoundFails, Invalidate, InvalidateFails,
         Reads, ReadTables, Fill, FillFails, Expire, vars
<1>2. UNCHANGED <<users, roles, menus, userRole, roleMenu>> /\ SerialLinksIntact'
  BY <1>1 DEF tables, Serial, SerialLinksIntact
<1> SUFFICES ASSUME ~raced', NEW b \in Admins PROVE Sees(b)'
  BY <1>2 DEF Serial, Relied
<1>3. Sees(b) /\ RequestsOK /\ Shaped
  BY <1>1, TypeParts DEF Serial, Relied
<1>4. (pc'[b] = pc[b] /\ req'[b] = req[b]) \/ pc'[b] \in {"idle", "committed"}
  <2>1. ASSUME NEW a \in Admins, Clears(a)
        PROVE  (pc'[b] = pc[b] /\ req'[b] = req[b]) \/ pc'[b] \in {"idle", "committed"}
    <3>1. \E ks : Proceed(a, ks)
      BY <2>1 DEF Clears, ListBound, ListBoundFails, Invalidate, InvalidateFails
    <3> QED BY <1>3, <3>1 DEF Proceed, RequestsOK
  <2>2. ASSUME (\E d \in Readers : Reads(d)) \/ (\E k \in Keys : Expire(k)) \/ UNCHANGED vars
        PROVE  UNCHANGED <<pc, req>>
    BY <2>2 DEF Reads, ReadTables, Fill, FillFails, Expire, vars, adminVars
  <2> QED BY <2>1, <2>2
<1>5. CASE pc'[b] \in {"idle", "committed"}
  BY <1>5 DEF Sees
<1>6. CASE pc'[b] = pc[b] /\ req'[b] = req[b]
  BY <1>2, <1>3, <1>6 DEF Sees, RolesOf, RolesWith
<1> QED BY <1>4, <1>5, <1>6

LEMMA SerialStep ==
  ASSUME TypeOK, Shaped, Serial, [Next]_vars
  PROVE  Serial'
BY CommitSerial, BeginSerial, RestSerial DEF Next

LEMMA SerialInit == Init => Serial
BY DEF Init, Serial, Relied, Sees, SerialLinksIntact

(* Unless a row was deleted under a request that had looked at it, every   *)
(* link joins two rows that exist.                                         *)
THEOREM LinksIntact == Spec => []SerialLinksIntact
<1> DEFINE I == TypeOK /\ Shaped /\ Serial
<1>1. Init => I
  BY TypeInit, SerialInit
<1>2. I /\ [Next]_vars => I'
  BY TypeStep, SerialStep
<1>3. I => SerialLinksIntact
  BY DEF Serial
<1> QED BY <1>1, <1>2, <1>3, PTL DEF Spec

-----------------------------------------------------------------------------
(* The caches. *)

LEMMA KnownStep ==
  ASSUME TypeOK, Shaped, Known, [Next]_vars
  PROVE  Known'
<1>0. TablesOK /\ CachesOK /\ \A a \in Admins : Fits(a)
  BY TypeParts DEF Shaped
<1>1. ASSUME NEW a \in Admins, Commits(a) PROVE Known'
  <2>1. UNCHANGED <<cached, reading>> /\ used \subseteq used'
    BY <1>1, CommitKinds, CommitTables DEF cacheVars
  <2>2. \A p \in roleMenu' : p[2] \in used'
    <3>1. ASSUME NEW x, NEW ys, roleMenu' = Relink(roleMenu, x, ys), ys \subseteq used
          PROVE  \A p \in roleMenu' : p[2] \in used'
      BY <2>1, <3>1 DEF Known, Relink
    <3>2. CASE CreateRole(a)
      <4>1. req[a].links \subseteq used
        BY <1>0, <3>2 DEF CreateRole, Commit, Fits
      <4> QED BY <3>1, <3>2, <4>1 DEF CreateRole
    <3>3. CASE UpdateRole(a)
      <4>1. req[a].links \subseteq used
        BY <1>0, <3>3 DEF UpdateRole, Commit, Fits
      <4> QED BY <3>1, <3>3, <4>1 DEF UpdateRole
    <3>4. CASE DeleteRole(a)
      BY <3>1, <3>4 DEF DeleteRole
    <3>5. CASE UNCHANGED roleMenu
      BY <2>1, <3>5 DEF Known
    <3> QED BY <1>1, <3>2, <3>3, <3>4, <3>5
            DEF Commits, CreateUser, UpdateUser, DeleteUser, CreateMenu, UpdateMenu, DeleteMenu
  <2> QED BY <2>1, <2>2 DEF Known
<1>2. ASSUME NEW a \in Admins, Begins(a) \/ Clears(a) \/ UNCHANGED vars PROVE Known'
  <2>1. UNCHANGED <<tables, reading>>
    BY <1>2 DEF Begins, ReceiveCreate, ReceiveCreateUser, ReceiveCreateRole, ReceiveCreateMenu,
         ReceiveUpdate, ReceiveUpdateUser, ReceiveUpdateRole, ReceiveUpdateMenu,
         ReceiveDelete, ReceiveDeleteUser, ReceiveDeleteRole, ReceiveDeleteMenu, Receive, Check, Rollback,
                Clears, ListBound, ListBoundFails, Invalidate, InvalidateFails, cacheVars, vars
  <2>2. cached' = cached \/ \E k \in Keys : cached' = [cached EXCEPT ![k] = None]
    BY <1>2 DEF Begins, ReceiveCreate, ReceiveCreateUser, ReceiveCreateRole, ReceiveCreateMenu,
         ReceiveUpdate, ReceiveUpdateUser, ReceiveUpdateRole, ReceiveUpdateMenu,
         ReceiveDelete, ReceiveDeleteUser, ReceiveDeleteRole, ReceiveDeleteMenu, Receive, Check, Rollback,
                Clears, ListBound, ListBoundFails, Invalidate, InvalidateFails, cacheVars, vars
  <2> QED BY <1>0, <2>1, <2>2 DEF Known, CachesOK, tables
<1>3. ASSUME NEW d \in Readers, Reads(d) PROVE Known'
  <2>1. ASSUME NEW k \in used \cap Keys, ReadTables(d, k) PROVE Known'
    BY <1>0, <2>1 DEF ReadTables, Known, CachesOK, tables
  <2>2. CASE Fill(d)
    BY <1>0, <2>2 DEF Fill, Known, CachesOK, tables
  <2>3. CASE FillFails(d)
    BY <1>0, <2>3 DEF FillFails, Known, CachesOK, tables
  <2> QED BY <1>3, <2>1, <2>2, <2>3 DEF Reads
<1>4. ASSUME NEW k \in Keys, Expire(k) PROVE Known'
  BY <1>0, <1>4 DEF Expire, Known, CachesOK, tables
<1>5. CASE UNCHANGED vars
  BY <1>0, <1>5 DEF Known, vars, tables, cacheVars
<1> QED BY <1>1, <1>2, <1>3, <1>4, <1>5 DEF Next

(* A commit leaves what k caches right, or k to be deleted. *)
Covered(k) ==
  \/ FromTables(k)' = FromTables(k) /\ \A m : k \in RolesWith(m) => k \in RolesWith(m)'
  \/ Pending(k)' \/ (k \in Roles /\ raced') \/ cached[k] = None

LEMMA CommitCovers ==
  ASSUME TypeOK, Shaped, Known, Serial, NEW a \in Admins, Commits(a), NEW k \in Keys
  PROVE  Covered(k)
<1>0. /\ TablesOK /\ Fits(a) /\ RequestsOK /\ inval[a] \subseteq Keys
      /\ Users \cap Roles = {} /\ (k \in Users \/ k \in Roles)
  BY TypeParts, IdsAssumption DEF Shaped, Keys, RequestsOK
<1>1. ASSUME UNCHANGED <<menus, content, userRole, roleMenu>> PROVE Covered(k)
  BY <1>1 DEF Covered, FromTables, RolesOf, MenusOf, RolesWith
<1>2. ASSUME NEW do, Commit(a, do, "committed", {k}) PROVE Covered(k)
  <2>1. inval'[a] = {k}
    BY <1>0, <1>2 DEF Commit, RequestsOK
  <2> QED BY <2>1 DEF Covered, Pending
<1>3. ASSUME NEW x \in Users, NEW ys, ys \subseteq Roles, x # k,
             userRole' = Relink(userRole, x, ys), UNCHANGED <<menus, content, roleMenu>>
      PROVE  Covered(k)
  <2>1. k \in Users => RolesOf(k)' = RolesOf(k)
    BY <1>0, <1>3, UserRoleRows DEF RolesOf, TablesOK
  <2> QED BY <1>3, <2>1 DEF Covered, FromTables, MenusOf, RolesWith
<1>4. ASSUME NEW x \in Roles, NEW ys, ys \subseteq Menus, x # k,
             roleMenu' = Relink(roleMenu, x, ys), UNCHANGED <<menus, content, userRole>>
      PROVE  Covered(k)
  <2>1. k \in Roles => MenusOf(k)' = MenusOf(k)
    BY <1>0, <1>4, RoleMenuRows DEF MenusOf, TablesOK
  <2>2. \A m : k \in RolesWith(m) => k \in RolesWith(m)'
    BY <1>0, <1>4, RoleMenuRows DEF RolesWith, TablesOK
  <2> QED BY <1>0, <1>4, <2>1, <2>2 DEF Covered, FromTables, RolesOf
<1>5. CASE CreateUser(a)
  <2>1. PICK u \in Users \ used : userRole' = Relink(userRole, u, req[a].links)
    BY <1>5 DEF CreateUser
  <2>2. req[a].links \subseteq Roles
    BY <1>0, <1>5 DEF CreateUser, Commit, Fits
  <2>3. cached[u] = None
    BY <2>1 DEF Known, Keys
  <2>4. CASE u = k
    BY <2>3, <2>4 DEF Covered
  <2> QED BY <1>3, <1>5, <2>1, <2>2, <2>4 DEF CreateUser
<1>6. CASE UpdateUser(a)
  <2>1. req[a].id \in Users /\ req[a].links \subseteq Roles
    BY <1>0, <1>6 DEF UpdateUser, Commit, Fits
  <2> QED BY <1>2, <1>3, <1>6, <2>1 DEF UpdateUser
<1>7. CASE DeleteUser(a)
  <2>1. req[a].id \in Users
    BY <1>0, <1>7 DEF DeleteUser, Commit, Fits
  <2> QED BY <1>2, <1>3, <1>7, <2>1 DEF DeleteUser
<1>8. CASE CreateRole(a)
  <2>1. PICK r \in Roles \ used : roleMenu' = Relink(roleMenu, r, req[a].links)
    BY <1>8 DEF CreateRole
  <2>2. req[a].links \subseteq Menus
    BY <1>0, <1>8 DEF CreateRole, Commit, Fits
  <2>3. cached[r] = None
    BY <2>1 DEF Known, Keys
  <2>4. CASE r = k
    BY <2>3, <2>4 DEF Covered
  <2> QED BY <1>4, <1>8, <2>1, <2>2, <2>4 DEF CreateRole
<1>9. CASE UpdateRole(a)
  <2>1. req[a].id \in Roles /\ req[a].links \subseteq Menus
    BY <1>0, <1>9 DEF UpdateRole, Commit, Fits
  <2> QED BY <1>2, <1>4, <1>9, <2>1 DEF UpdateRole
<1>10. CASE DeleteRole(a)
  <2>1. req[a].id \in Roles
    BY <1>0, <1>10 DEF DeleteRole, Commit, Fits
  <2> QED BY <1>2, <1>4, <1>10, <2>1 DEF DeleteRole
<1>11. CASE CreateMenu(a)
  <2>1. PICK m \in Menus \ used, c \in Contents :
          menus' = menus \cup {m} /\ content' = [content EXCEPT ![m] = c]
    BY <1>11 DEF CreateMenu
  <2>2. \A r \in Roles : m \notin MenusOf(r)
    BY <2>1 DEF Known, MenusOf
  <2>3. UNCHANGED <<userRole, roleMenu>>
    BY <1>11 DEF CreateMenu
  <2>4. k \in Roles => FromTables(k)' = FromTables(k)
    <3>1. ASSUME k \in Roles PROVE MenusOf(k)' \cap menus' = MenusOf(k) \cap menus
      BY <2>1, <2>2, <2>3, <3>1 DEF MenusOf
    <3>2. ASSUME k \in Roles, NEW n \in MenusOf(k) PROVE content'[n] = content[n]
      BY <1>0, <2>1, <2>2, <3>2 DEF MenusOf, TablesOK
    <3> QED BY <1>0, <3>1, <3>2 DEF FromTables
  <2> QED BY <1>0, <2>3, <2>4 DEF Covered, FromTables, RolesOf, RolesWith
<1>12. CASE UpdateMenu(a)
  <2>1. /\ pc'[a] = "listing" /\ req'[a] = req[a] /\ req[a].id \in Menus
        /\ menus' = menus \cup {req[a].id} /\ UNCHANGED <<userRole, roleMenu>>
    BY <1>0, <1>12 DEF UpdateMenu, Commit, RequestsOK, Fits
  <2>2. PICK c \in Contents : content' = [content EXCEPT ![req[a].id] = c]
    BY <1>12 DEF UpdateMenu
  <2>3. CASE k \in RolesWith(req[a].id)
    BY <2>1, <2>3 DEF Covered, Pending, RolesWith
  <2>4. CASE k \notin RolesWith(req[a].id)
    <3>1. k \in Roles => req[a].id \notin MenusOf(k)
      BY <2>4 DEF MenusOf, RolesWith
    <3>2. ASSUME k \in Roles PROVE MenusOf(k)' \cap menus' = MenusOf(k) \cap menus
      BY <2>1, <3>1, <3>2 DEF MenusOf
    <3>3. ASSUME k \in Roles, NEW n \in MenusOf(k) PROVE content'[n] = content[n]
      BY <1>0, <2>2, <3>1, <3>3 DEF MenusOf, TablesOK
    <3>4. k \in Roles => FromTables(k)' = FromTables(k)
      BY <1>0, <3>2, <3>3 DEF FromTables
    <3> QED BY <1>0, <2>1, <3>4 DEF Covered, FromTables, RolesOf, RolesWith
  <2> QED BY <2>3, <2>4
<1>13. CASE DeleteMenu(a)
  <2>1. /\ menus' = menus \ {req[a].id} /\ UNCHANGED <<content, userRole, roleMenu>>
        /\ req[a].do = "DeleteMenu" /\ pc[a] = "checked"
    BY <1>13 DEF DeleteMenu, Commit
  <2>2. CASE raced'
    BY <1>0, <2>1, <2>2 DEF Covered, FromTables, RolesOf, RolesWith
  <2>3. CASE ~raced'
    <3>1. RolesWith(req[a].id) = {}
      BY <2>1, <2>3, CommitAlone DEF Serial, Relied, Sees
    <3>2. ASSUME k \in Roles PROVE MenusOf(k)' \cap menus' = MenusOf(k) \cap menus
      BY <2>1, <3>1, <3>2 DEF MenusOf, RolesWith
    <3>3. k \in Roles => FromTables(k)' = FromTables(k)
      BY <1>0, <2>1, <3>2 DEF FromTables
    <3> QED BY <1>0, <2>1, <3>3 DEF Covered, FromTables, RolesOf, RolesWith
  <2> QED BY <2>2, <2>3
<1> QED BY <1>5, <1>6, <1>7, <1>8, <1>9, <1>10, <1>11, <1>12, <1>13 DEF Commits

LEMMA CommitCache ==
  ASSUME TypeOK, Shaped, Known, Serial, CacheFollowsTables, NEW a \in Admins, Commits(a)
  PROVE  CacheFollowsTables'
<1> SUFFICES ASSUME NEW k \in Keys, Stale(k)', k \notin lapsed'
             PROVE  Pending(k)' \/ (k \in Roles /\ raced')
  BY DEF CacheFollowsTables
<1>1. UNCHANGED <<cached, lapsed>> /\ RequestsOK
  BY CommitKinds, TypeParts DEF cacheVars
<1>2. cached[k] # None /\ cached[k] # FromTables(k)'
  BY <1>1 DEF Stale
<1>3. SUFFICES ASSUME FromTables(k)' = FromTables(k), \A m : k \in RolesWith(m) => k \in RolesWith(m)'
               PROVE  Pending(k)' \/ (k \in Roles /\ raced')
  BY <1>2, CommitCovers DEF Covered
<1>4. Pending(k) \/ (k \in Roles /\ raced)
  BY <1>1, <1>2, <1>3 DEF CacheFollowsTables, Stale
<1>5. /\ pc[a] = "checked" /\ inval[a] = {} /\ (raced => raced')
      /\ \A b \in Admins : b # a => pc'[b] = pc[b] /\ req'[b] = req[b] /\ inval'[b] = inval[b]
  <2>1. ASSUME NEW do, NEW next, NEW ks, Commit(a, do, next, ks)
        PROVE  /\ pc[a] = "checked" /\ (raced => raced')
               /\ \A b \in Admins : b # a => pc'[b] = pc[b] /\ req'[b] = req[b] /\ inval'[b] = inval[b]
    BY <1>1, <2>1 DEF Commit, RequestsOK
  <2>2. \E do, next, ks : Commit(a, do, next, ks)
    BY DEF Commits, CreateUser, UpdateUser, DeleteUser, CreateRole, UpdateRole, DeleteRole,
           CreateMenu, UpdateMenu, DeleteMenu
  <2>3. pc[a] = "checked" => inval[a] = {}
    BY DEF Shaped, Fits
  <2> QED BY <2>1, <2>2, <2>3
<1>6. CASE Pending(k)
  <2>1. PICK b \in Admins : k \in inval[b] \/ (pc[b] = "listing" /\ k \in RolesWith(req[b].id))
    BY <1>6 DEF Pending
  <2>2. b # a /\ pc'[b] = pc[b] /\ req'[b] = req[b] /\ inval'[b] = inval[b]
    BY <1>5, <2>1
  <2>3. k \in RolesWith(req[b].id) => k \in RolesWith(req[b].id)'
    BY <1>3, <2>2 DEF RolesWith
  <2> QED BY <2>1, <2>2, <2>3 DEF Pending
<1>7. CASE k \in Roles /\ raced
  BY <1>5, <1>7
<1> QED BY <1>4, <1>6, <1>7

(* Deleting a key, or failing to, leaves the other keys as they were. *)
LEMMA ClearsCache ==
  ASSUME TypeOK, Shaped, CacheFollowsTables, NEW a \in Admins, Clears(a)
  PROVE  CacheFollowsTables'
<1> SUFFICES ASSUME NEW k \in Keys, Stale(k)', k \notin lapsed'
             PROVE  Pending(k)' \/ (k \in Roles /\ raced')
  BY DEF CacheFollowsTables
<1>1. UNCHANGED <<tables, raced>> /\ RequestsOK /\ CachesOK /\ Fits(a)
  BY TypeParts DEF Clears, ListBound, ListBoundFails, Invalidate, InvalidateFails, Shaped
<1>2. FromTables(k)' = FromTables(k) /\ \A m : RolesWith(m)' = RolesWith(m)
  BY <1>1 DEF tables, FromTables, RolesOf, MenusOf, RolesWith
<1>3. ASSUME NEW ks, Proceed(a, ks)
      PROVE  /\ inval'[a] = ks
             /\ \A b \in Admins : b # a => pc'[b] = pc[b] /\ req'[b] = req[b] /\ inval'[b] = inval[b]
  BY <1>1, <1>3 DEF Proceed, RequestsOK
<1>4. CASE ListBound(a)
  <2>1. Stale(k) /\ k \notin lapsed
    BY <1>2, <1>4 DEF ListBound, cacheVars, Stale
  <2>2. CASE k \in RolesWith(req[a].id)
    BY <1>3, <1>4, <2>2 DEF ListBound, Pending
  <2>3. CASE k \notin RolesWith(req[a].id)
    <3>1. inval[a] = {}
      BY <1>1, <1>4 DEF ListBound, Fits
    <3> QED BY <1>1, <1>2, <1>3, <1>4, <2>1, <2>3, <3>1 DEF ListBound, CacheFollowsTables, Pending
  <2> QED BY <2>2, <2>3
<1>5. CASE ListBoundFails(a)
  <2>1. cached' = cached /\ Stale(k) /\ k \notin lapsed /\ k \notin RolesWith(req[a].id)
    BY <1>2, <1>5 DEF ListBoundFails, Stale
  <2>2. inval[a] = {}
    BY <1>1, <1>5 DEF ListBoundFails, Fits
  <2> QED BY <1>1, <1>2, <1>3, <1>5, <2>1, <2>2 DEF ListBoundFails, CacheFollowsTables, Pending
<1>6. ASSUME NEW x \in Keys, Invalidate(a, x) PROVE Pending(k)' \/ (k \in Roles /\ raced')
  <2>1. k # x
    BY <1>1, <1>6 DEF Invalidate, Stale, CachesOK
  <2>2. Stale(k) /\ k \notin lapsed
    BY <1>1, <1>2, <1>6, <2>1 DEF Invalidate, Stale, CachesOK
  <2>3. pc[a] = "committed"
    BY <1>1, <1>6 DEF Invalidate, Fits
  <2> QED BY <1>1, <1>2, <1>3, <1>6, <2>1, <2>2, <2>3 DEF Invalidate, CacheFollowsTables, Pending
<1>7. ASSUME NEW x \in Keys, InvalidateFails(a, x) PROVE Pending(k)' \/ (k \in Roles /\ raced')
  <2>1. Stale(k) /\ k \notin lapsed /\ k # x
    BY <1>2, <1>7 DEF InvalidateFails, Stale
  <2>2. pc[a] = "committed"
    BY <1>1, <1>7 DEF InvalidateFails, Fits
  <2> QED BY <1>1, <1>2, <1>3, <1>7, <2>1, <2>2 DEF InvalidateFails, CacheFollowsTables, Pending
<1> QED BY <1>4, <1>5, <1>6, <1>7 DEF Clears

(* Steps that touch no table and no request's work after its commit. *)
LEMMA RestCache ==
  ASSUME TypeOK, CacheFollowsTables,
         \/ \E a \in Admins : Begins(a)
         \/ (\E d \in Readers : Reads(d)) \/ (\E k \in Keys : Expire(k)) \/ UNCHANGED vars
  PROVE  CacheFollowsTables'
<1> SUFFICES ASSUME NEW k \in Keys, Stale(k)', k \notin lapsed'
             PROVE  Pending(k)' \/ (k \in Roles /\ raced')
  BY DEF CacheFollowsTables
<1>1. UNCHANGED <<tables, raced, inval>> /\ RequestsOK /\ CachesOK
  BY TypeParts DEF Begins, ReceiveCreate, ReceiveCreateUser, ReceiveCreateRole, ReceiveCreateMenu,
         ReceiveUpdate, ReceiveUpdateUser, ReceiveUpdateRole, ReceiveUpdateMenu,
         ReceiveDelete, ReceiveDeleteUser, ReceiveDeleteRole, ReceiveDeleteMenu, Receive, Check, Rollback,
                   Reads, ReadTables, Fill, FillFails, Expire, vars, adminVars
<1>2. FromTables(k)' = FromTables(k) /\ \A m : RolesWith(m)' = RolesWith(m)
  BY <1>1 DEF tables, FromTables, RolesOf, MenusOf, RolesWith
<1>3. \A a \in Admins : pc[a] = "listing" => pc'[a] = "listing" /\ req'[a] = req[a]
  <2>1. ASSUME NEW a \in Admins, Begins(a)
        PROVE  \A b \in Admins : pc[b] = "listing" => pc'[b] = "listing" /\ req'[b] = req[b]
    BY <1>1, <2>1 DEF Begins, ReceiveCreate, ReceiveCreateUser, ReceiveCreateRole, ReceiveCreateMenu,
         ReceiveUpdate, ReceiveUpdateUser, ReceiveUpdateRole, ReceiveUpdateMenu,
         ReceiveDelete, ReceiveDeleteUser, ReceiveDeleteRole, ReceiveDeleteMenu, Receive, Check, Rollback, RequestsOK
  <2>2. ASSUME (\E d \in Readers : Reads(d)) \/ (\E x \in Keys : Expire(x)) \/ UNCHANGED vars
        PROVE  UNCHANGED <<pc, req>>
    BY <2>2 DEF Reads, ReadTables, Fill, FillFails, Expire, vars, adminVars
  <2> QED BY <2>1, <2>2
<1>4. Stale(k) /\ k \notin lapsed
  <2>1. CASE UNCHANGED <<cached, lapsed>>
    BY <1>2, <2>1 DEF Stale
  <2>2. ASSUME NEW d \in Readers, Fill(d) PROVE Stale(k) /\ k \notin lapsed
    <3>1. CASE k = reading[d].key
      BY <1>1, <1>2, <2>2, <3>1 DEF Fill, Stale, CachesOK
    <3>2. CASE k # reading[d].key
      BY <1>1, <1>2, <2>2, <3>2 DEF Fill, Stale, CachesOK
    <3> QED BY <3>1, <3>2
  <2>3. ASSUME NEW x \in Keys, Expire(x) PROVE Stale(k) /\ k \notin lapsed
    <3>1. k # x
      BY <1>1, <2>3 DEF Expire, Stale, CachesOK
    <3> QED BY <1>1, <1>2, <2>3, <3>1 DEF Expire, Stale, CachesOK
  <2> QED BY <2>1, <2>2, <2>3 DEF Begins, ReceiveCreate, ReceiveCreateUser, ReceiveCreateRole, ReceiveCreateMenu,
         ReceiveUpdate, ReceiveUpdateUser, ReceiveUpdateRole, ReceiveUpdateMenu,
         ReceiveDelete, ReceiveDeleteUser, ReceiveDeleteRole, ReceiveDeleteMenu, Receive,
             Check, Rollback, Reads, ReadTables, FillFails, vars, cacheVars
<1> QED BY <1>1, <1>2, <1>3, <1>4 DEF CacheFollowsTables, Pending

(* A cached value that no longer says what the tables say is about to be   *)
(* deleted, unless a delete of it failed, a slow reader wrote it back, or  *)
(* a delete of a row raced.                                                *)
THEOREM CacheFollows == Spec => []CacheFollowsTables
<1> DEFINE I == TypeOK /\ Shaped /\ Known /\ Serial /\ CacheFollowsTables
<1>1. Init => I
  <2>1. Init => Known
    BY DEF Init, Known
  <2>2. Init => CacheFollowsTables
    BY DEF Init, CacheFollowsTables, Stale
  <2> QED BY <2>1, <2>2, TypeInit, SerialInit
<1>2. I /\ [Next]_vars => I'
  <2> SUFFICES ASSUME I, [Next]_vars PROVE I'
    OBVIOUS
  <2>1. TypeOK' /\ Shaped' /\ Known' /\ Serial'
    BY TypeStep, KnownStep, SerialStep
  <2>2. CacheFollowsTables'
    BY CommitCache, ClearsCache, RestCache DEF Next
  <2> QED BY <2>1, <2>2
<1>3. I => CacheFollowsTables
  OBVIOUS
<1> QED BY <1>1, <1>2, <1>3, PTL DEF Spec
===============================================================================
