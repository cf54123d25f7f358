------------------------------ MODULE Tables_proofs ------------------------------
(* The tables whose lists are cached, menus and dictionaries, and the         *)
(* operation log.                                                            *)
EXTENDS MenuTree, Dict, AuditLog, DataLemmas, TLAPS

-----------------------------------------------------------------------------
(* MenuTree: an id that is asked for was given, and a Create has none.        *)
AskedIds ==
  \A a \in Editors : /\ ask[a].do \in {"Update", "Delete"} => ask[a].id \in usedNodes
                     /\ ask[a].do = "Create" => ask[a].id = Top

(* What an open transaction has checked still holds, as long as none has      *)
(* committed beside another.                                                  *)
StillAccepted == ~crossed => \A a \in Editors : place[a] = "open" => Accepts(ask[a])

TreeInv == TreeTypeOK /\ AskedIds /\ StillAccepted /\ SerialRowsSound /\ TreeCacheFollows

(* The tables' rows are of known ids and labels, whatever transactions do. *)
LEMMA TreeTypes ==
  ASSUME TreeTypeOK, AskedIds, [TreeNext]_treeVars
  PROVE  TreeTypeOK' /\ AskedIds'
<1> USE NodesAssumption DEF TreeTypeOK, AskedIds, RowsOf, Answers, There, NoAsk
<1>1. ASSUME NEW a \in Editors, AsksCreate(a) \/ AsksUpdate(a) \/ AsksDelete(a)
      PROVE  TreeTypeOK' /\ AskedIds'
  <2>1. CASE AsksCreate(a)
    BY <2>1 DEF AsksCreate, Asks, Parents
  <2>2. CASE AsksUpdate(a)
    BY <2>2 DEF AsksUpdate, Asks, Parents
  <2>3. CASE AsksDelete(a)
    BY <2>3 DEF AsksDelete, Asks
  <2> QED
    BY <1>1, <2>1, <2>2, <2>3
<1>2. ASSUME NEW a \in Editors, Validates(a) \/ Closes(a)  PROVE TreeTypeOK' /\ AskedIds'
  BY <1>2 DEF Validates, Closes
<1>3. ASSUME NEW x, NEW new, x \in {"none", "same", "differs"}
      PROVE  Aged(x, new) \in {"none", "same", "differs"}
  BY <1>3 DEF Aged
<1>4. ASSUME NEW a \in Editors, CreatesMenu(a)  PROVE TreeTypeOK' /\ AskedIds'
  BY <1>3, <1>4 DEF CreatesMenu, CommitsMenu, RowOf
<1>5. ASSUME NEW a \in Editors, UpdatesMenu(a)  PROVE TreeTypeOK' /\ AskedIds'
  BY <1>3, <1>5 DEF UpdatesMenu, CommitsMenu, RowOf
<1>6. ASSUME NEW a \in Editors, DeletesMenu(a)  PROVE TreeTypeOK' /\ AskedIds'
  BY <1>3, <1>6 DEF DeletesMenu, CommitsMenu
<1>7. ASSUME NEW a \in Editors, DropsTree(a) \/ DropFails(a)  PROVE TreeTypeOK' /\ AskedIds'
  BY <1>7 DEF DropsTree, DropFails
<1>8. ASSUME NEW v \in Viewers, Views(v) \/ FillsTree(v) \/ FillTreeFails(v)
      PROVE  TreeTypeOK' /\ AskedIds'
  BY <1>8 DEF Views, FillsTree, FillTreeFails
<1>9. CASE TreeExpires
  BY <1>9 DEF TreeExpires
<1>10. CASE UNCHANGED treeVars
  BY <1>10 DEF treeVars
<1> QED
  BY <1>1, <1>2, <1>4, <1>5, <1>6, <1>7, <1>8, <1>9, <1>10 DEF TreeNext, Edits

(* A commit that no other transaction is open beside leaves sound rows. *)
LEMMA SoundGoesOn ==
  ASSUME TreeInv, [TreeNext]_treeVars
  PROVE  SerialRowsSound' /\ StillAccepted'
<1> USE NodesAssumption DEF TreeInv, TreeTypeOK, AskedIds, RowsOf, NoAsk, StillAccepted, SerialRowsSound
<1>1. ASSUME NEW a \in Editors, AsksCreate(a) \/ AsksUpdate(a) \/ AsksDelete(a)
      PROVE  SerialRowsSound' /\ StillAccepted'
  BY <1>1 DEF AsksCreate, AsksUpdate, AsksDelete, Asks, Accepts, ParentExists, LabelTaken, HasChildren, There
<1>2. ASSUME NEW a \in Editors, Validates(a) \/ Closes(a)
      PROVE  SerialRowsSound' /\ StillAccepted'
  BY <1>2 DEF Validates, Closes, Accepts, ParentExists, LabelTaken, HasChildren, There
<1>3. ASSUME NEW a \in Editors, NEW do, NEW next, NEW new, next # "open",
             CommitsMenu(a, do, next, new)
      PROVE  StillAccepted'
  BY <1>3 DEF CommitsMenu
<1>4. ASSUME NEW a \in Editors, CreatesMenu(a)  PROVE SerialRowsSound'
  BY <1>4 DEF CreatesMenu, CommitsMenu, RowOf, Accepts, ParentExists, LabelTaken, There
<1>5. ASSUME NEW a \in Editors, UpdatesMenu(a)  PROVE SerialRowsSound'
  BY <1>5 DEF UpdatesMenu, CommitsMenu, RowOf, Accepts, ParentExists, LabelTaken, There
<1>6. ASSUME NEW a \in Editors, DeletesMenu(a)  PROVE SerialRowsSound'
  BY <1>6 DEF DeletesMenu, CommitsMenu, Accepts, HasChildren, There
<1>7. ASSUME NEW a \in Editors, CreatesMenu(a) \/ UpdatesMenu(a) \/ DeletesMenu(a)
      PROVE  StillAccepted'
  BY <1>3, <1>7 DEF CreatesMenu, UpdatesMenu, DeletesMenu
<1>8. ASSUME UNCHANGED <<rows, ask, crossed>>,
             \A b \in Editors : place'[b] = "open" => place[b] = "open"
      PROVE  SerialRowsSound' /\ StillAccepted'
  BY <1>8 DEF Accepts, ParentExists, LabelTaken, HasChildren, There
<1>9. ASSUME NEW a \in Editors, DropsTree(a) \/ DropFails(a)
      PROVE  SerialRowsSound' /\ StillAccepted'
  BY <1>8, <1>9 DEF DropsTree, DropFails
<1>10. ASSUME NEW v \in Viewers, Views(v) \/ FillsTree(v) \/ FillTreeFails(v)
       PROVE  SerialRowsSound' /\ StillAccepted'
  BY <1>8, <1>10 DEF Views, FillsTree, FillTreeFails
<1>11. CASE TreeExpires \/ UNCHANGED treeVars
  BY <1>8, <1>11 DEF TreeExpires, treeVars
<1> QED
  BY <1>1, <1>2, <1>4, <1>5, <1>6, <1>7, <1>9, <1>10, <1>11 DEF TreeNext, Edits

(* The tree in the cache differs from the table only from a commit to its DEL, *)
(* or once that failed or a viewer wrote back what it had read before.         *)
LEMMA TreeCacheGoesOn ==
  ASSUME TreeInv, [TreeNext]_treeVars
  PROVE  TreeCacheFollows'
<1> USE DEF TreeInv, TreeTypeOK, TreeCacheFollows
<1>1. ASSUME NEW a \in Editors, Edits(a)  PROVE TreeCacheFollows'
  <2>1. CASE AsksCreate(a) \/ AsksUpdate(a) \/ AsksDelete(a) \/ Validates(a) \/ Closes(a)
    BY <2>1 DEF AsksCreate, AsksUpdate, AsksDelete, Asks, Validates, Closes
  <2>2. CASE CreatesMenu(a) \/ UpdatesMenu(a) \/ DeletesMenu(a)
    BY <2>2 DEF CreatesMenu, UpdatesMenu, DeletesMenu, CommitsMenu
  <2>3. CASE DropsTree(a) \/ DropFails(a)
    BY <2>3 DEF DropsTree, DropFails
  <2> QED
    BY <1>1, <2>1, <2>2, <2>3 DEF Edits
<1>2. ASSUME NEW v \in Viewers, Views(v) \/ FillsTree(v) \/ FillTreeFails(v)
      PROVE  TreeCacheFollows'
  BY <1>2 DEF Views, FillsTree, FillTreeFails
<1>3. CASE TreeExpires
  BY <1>3 DEF TreeExpires
<1>4. CASE UNCHANGED treeVars
  BY <1>4 DEF treeVars
<1> QED
  BY <1>1, <1>2, <1>3, <1>4 DEF TreeNext

(* The invariant of the menu rows and their cached tree. *)
LEMMA TreeInvariant == TreeSpec => []TreeInv
<1>1. ASSUME TreeInit  PROVE TreeInv
  <2>1. There(rows) = {}
    BY <1>1 DEF TreeInit, There
  <2>2. TreeTypeOK
    BY <1>1, <2>1 DEF TreeInit, TreeTypeOK, RowsOf, Answers, NoAsk
  <2> QED
    BY <1>1, <2>1, <2>2
       DEF TreeInit, TreeInv, AskedIds, StillAccepted, SerialRowsSound, TreeCacheFollows, NoAsk
<1>2. TreeInv /\ [TreeNext]_treeVars => TreeInv'
  BY TreeTypes, SoundGoesOn, TreeCacheGoesOn DEF TreeInv
<1> QED
  BY <1>1, <1>2, PTL DEF TreeSpec

(* As long as no transaction commits beside another, parents exist and labels *)
(* are unique (menu.go:102-391).                                              *)
THEOREM RowsAreSound == TreeSpec => []SerialRowsSound
<1>1. TreeInv => SerialRowsSound
  BY DEF TreeInv
<1> QED
  BY <1>1, TreeInvariant, PTL

(* A cached tree that is out of date is about to go, unless a DEL failed or a *)
(* slow viewer wrote it back (menu.go:102-437).                               *)
THEOREM TreeCacheIsDropped == TreeSpec => []TreeCacheFollows
<1>1. TreeInv => TreeCacheFollows
  BY DEF TreeInv
<1> QED
  BY <1>1, TreeInvariant, PTL

(* The menus whose parent is one of near.                                     *)
Below(table, near) == {n \in There(table) : table[n].parent \in near}

(* What the tree shows is found layer by layer, from the roots down.          *)
LEMMA ReachedByLayers ==
  ASSUME NEW table
  PROVE  \E f \in [Nat -> SUBSET There(table)] :
           /\ f[0] = Roots(table)
           /\ \A k \in Nat : f[k + 1] = f[k] \cup Below(table, f[k])
           /\ Reached(table) = f[Cardinality(Nodes)]
<1> DEFINE S == SUBSET There(table)
           Grow == [near \in S |-> near \cup Below(table, near)]
           Layer(g, k) == IF k = 0 THEN Roots(table)
                          ELSE LET near == g[k - 1]
                               IN  near \cup {n \in There(table) : table[n].parent \in near}
           within[k \in Nat] == Layer(within, k)
<1>1. PICK f \in [Nat -> S] : f[0] = Roots(table) /\ \A k \in Nat : f[k + 1] = Grow[f[k]]
  <2>1. Roots(table) \in S /\ Grow \in [S -> S]
    BY DEF Roots, Below
  <2> HIDE DEF S, Grow
  <2> QED
    BY <2>1, IterationExists
<1>2. f = [k \in Nat |-> Layer(f, k)]
  <2>1. ASSUME NEW k \in Nat  PROVE f[k] = Layer(f, k)
    <3>1. CASE k = 0
      BY <1>1, <3>1
    <3>2. CASE k # 0
      <4>1. k - 1 \in Nat /\ (k - 1) + 1 = k
        BY <3>2
      <4> QED
        BY <1>1, <3>2, <4>1 DEF Below
    <3> QED
      BY <3>1, <3>2
  <2> QED
    BY <1>1, <2>1
<1>3. within = [k \in Nat |-> Layer(within, k)]
  <2> HIDE DEF Layer
  <2> QED
    BY <1>2
<1>4. Reached(table) = within[Cardinality(Nodes)]
  BY DEF Reached
<1> HIDE DEF within
<1>5. within[0] = Roots(table) /\ DOMAIN within = Nat
  BY <1>3
<1>6. ASSUME NEW k \in Nat  PROVE within[k + 1] = within[k] \cup Below(table, within[k])
  <2>1. k + 1 \in Nat /\ k + 1 # 0 /\ (k + 1) - 1 = k
    OBVIOUS
  <2> QED
    BY <1>3, <2>1 DEF Below
<1>7. within \in [Nat -> S]
  <2> DEFINE T == {k \in Nat : within[k] \in S}
  <2>1. 0 \in T /\ \A k \in Nat : k \in T => k + 1 \in T
    BY <1>5, <1>6 DEF Roots, Below
  <2>2. Nat \subseteq T
    <3> HIDE DEF T
    <3> QED
      BY <2>1, SetInduction
  <2> QED
    BY <1>3, <2>2
<1> QED
  BY <1>4, <1>5, <1>6, <1>7

(* As many layers as there are menus are enough: nothing is missing below.    *)
LEMMA ReachedIsClosed ==
  ASSUME NEW table, IsFiniteSet(Nodes)
  PROVE  /\ Roots(table) \subseteq Reached(table)
         /\ Below(table, Reached(table)) \subseteq Reached(table)
<1>1. PICK f \in [Nat -> SUBSET There(table)] :
        /\ f[0] = Roots(table)
        /\ \A k \in Nat : f[k + 1] = f[k] \cup Below(table, f[k])
        /\ Reached(table) = f[Cardinality(Nodes)]
  BY ReachedByLayers
<1>2. There(table) \subseteq Nodes
  BY DEF There
<1>3. Cardinality(Nodes) \in Nat
  BY FS_CardinalityType
<1>4. Roots(table) \subseteq Reached(table)
  <2> DEFINE T == {k \in Nat : Roots(table) \subseteq f[k]}
  <2>1. 0 \in T /\ \A k \in Nat : k \in T => k + 1 \in T
    BY <1>1
  <2>2. Nat \subseteq T
    <3> HIDE DEF T
    <3> QED
      BY <2>1, SetInduction
  <2> QED
    BY <1>1, <1>3, <2>2
<1>5. f[Cardinality(Nodes)] = f[Cardinality(Nodes)] \cup Below(table, f[Cardinality(Nodes)])
  <2> DEFINE F == [near \in SUBSET Nodes |-> (near \cup Below(table, near))]
  <2>1. F \in [SUBSET Nodes -> SUBSET Nodes] /\ f \in [Nat -> SUBSET Nodes]
    BY <1>1, <1>2 DEF Below
  <2>2. \A k \in Nat : f[k] \subseteq f[k + 1] /\ f[k + 1] = F[f[k]]
    BY <1>1, <1>2
  <2>3. F[f[Cardinality(Nodes)]] = f[Cardinality(Nodes)]
    <3> HIDE DEF F
    <3> QED
      BY <2>1, <2>2, GrowthStops
  <2> QED
    BY <1>1, <1>2, <1>3, <2>3
<1> QED
  BY <1>1, <1>4, <1>5

(* And no more is shown than hangs below the roots.                           *)
LEMMA ReachedIsLeast ==
  ASSUME NEW table, NEW some, IsFiniteSet(Nodes),
         Roots(table) \subseteq some, Below(table, some) \subseteq some
  PROVE  Reached(table) \subseteq some
<1>1. PICK f \in [Nat -> SUBSET There(table)] :
        /\ f[0] = Roots(table)
        /\ \A k \in Nat : f[k + 1] = f[k] \cup Below(table, f[k])
        /\ Reached(table) = f[Cardinality(Nodes)]
  BY ReachedByLayers
<1> DEFINE T == {k \in Nat : f[k] \subseteq some}
<1>2. 0 \in T /\ \A k \in Nat : k \in T => k + 1 \in T
  BY <1>1 DEF Below
<1>3. Nat \subseteq T
  <2> HIDE DEF T
  <2> QED
    BY <1>2, SetInduction
<1> QED
  BY <1>1, <1>3, FS_CardinalityType

(* A menu is left out exactly when going up from it never ends.               *)
LEMMA LeftOutIsEndless ==
  ASSUME NEW table, IsFiniteSet(Nodes)
  PROVE  There(table) \ Reached(table) =
           UNION {endless \in SUBSET There(table) :
                    \A n \in endless : table[n].parent \in endless}
<1>1. \A n \in There(table) \ Reached(table) : table[n].parent \in There(table) \ Reached(table)
  BY ReachedIsClosed DEF Roots, Below
<1>2. ASSUME NEW endless \in SUBSET There(table), \A n \in endless : table[n].parent \in endless
      PROVE  endless \cap Reached(table) = {}
  <2> DEFINE rest == There(table) \ endless
  <2>1. Roots(table) \subseteq rest /\ Below(table, rest) \subseteq rest
    BY <1>2 DEF Roots, Below
  <2>2. Reached(table) \subseteq rest
    <3> HIDE DEF rest
    <3> QED
      BY <2>1, ReachedIsLeast
  <2> QED
    BY <2>2
<1> DEFINE E == {endless \in SUBSET There(table) : \A n \in endless : table[n].parent \in endless}
<1>3. There(table) \ Reached(table) \in E
  BY <1>1
<1> QED
  BY <1>2, <1>3

(* GetMenuTree, and the tree of an account, leave out exactly the menus from  *)
(* which going up never ends, whatever races did to the parents, in tables of *)
(* any size (menu.go:421-442, user.go:801-823).                               *)
THEOREM TreesLeaveOutLoops == TreeSpec => []TreeShowsUnlooped
<1>1. TreeShowsUnlooped
  BY LeftOutIsEndless, NodesAssumption DEF TreeShowsUnlooped
<1> QED
  BY <1>1, PTL

-----------------------------------------------------------------------------
(* Dict: what a request asks for; it deletes nothing before its commit.       *)
Asked ==
  \A a \in Admins :
    LET q == req[a] IN
    /\ pc[a] # "committed" => inval[a] = {}
    /\ q.do \in {"CreateDict", "UpdateDict"} => q.new \in Codes
    /\ q.do \in {"CreateItem", "UpdateItem"} => q.new \in ItemCodes
    /\ q.do = "CreateDict" => q.id = None
    /\ q.do = "CreateItem" => q.id = None /\ q.dict \in Dicts /\ q.old \in Codes
    /\ q.do \in {"UpdateDict", "DeleteDict"} =>
         q.id \in Dicts \cap given /\ q.dict = q.id /\ q.old \in Codes
    /\ q.do \in {"UpdateItem", "DeleteItem"} =>
         q.id \in Items \cap given /\ q.dict \in Dicts /\ q.old \in Codes

(* What it has read is still so, as long as requests have not raced.          *)
StillRead ==
  ~raced => \A a \in Admins : pc[a] \in {"found", "checked"} =>
    LET q == req[a] IN
    /\ q.do \in {"UpdateDict", "DeleteDict"} => dicts[q.id] = q.old
    /\ q.do = "CreateItem" => dicts[q.dict] = q.old
    /\ q.do \in {"UpdateItem", "DeleteItem"} =>
         q.id \in Rows /\ items[q.id].dict = q.dict /\ items[q.id].code = q.old

DictInv == TypeOK /\ Asked /\ StillRead /\ SerialItemsMatch /\ CacheFollowsItems

(* A request begins with what it is asked for and what it reads. *)
LEMMA RequestsBegin ==
  ASSUME DictInv, NEW a \in Admins, Begins(a)
  PROVE  DictInv'
<1>0. TypeOK /\ Asked /\ StillRead /\ SerialItemsMatch /\ CacheFollowsItems
  BY DEF DictInv
<1>1. ASSUME UNCHANGED <<tables, inval, cacheVars, raced>>, req' \in [Admins -> Requests],
             pc' \in [Admins -> {"idle", "found", "checked", "committed"}],
             Asked', StillRead'
      PROVE  DictInv'
  <2>1. UNCHANGED <<dicts, items, given, cached, reading, lapsed, raced, inval>>
    BY <1>1 DEF tables, cacheVars
  <2>2. TypeOK'
    BY <1>0, <1>1, <2>1 DEF TypeOK, Known, Rows
  <2>3. SerialItemsMatch' /\ CacheFollowsItems'
    BY <1>0, <2>1 DEF SerialItemsMatch, CacheFollowsItems, Stale, FromTables, Rows
  <2> QED
    BY <1>1, <2>2, <2>3 DEF DictInv
<1>2. CASE Check(a)
  <2>1. pc[a] = "found" /\ pc' = [pc EXCEPT ![a] = "checked"]
        /\ UNCHANGED <<dicts, items, given, req, inval, raced>>
        /\ UNCHANGED <<tables, inval, cacheVars, raced>>
    BY <1>2 DEF Check, tables
  <2>2. Asked'
    BY <1>0, <2>1 DEF Asked, TypeOK
  <2>3. StillRead'
    BY <1>0, <2>1 DEF StillRead, Rows, TypeOK
  <2>4. req' \in [Admins -> Requests]
        /\ pc' \in [Admins -> {"idle", "found", "checked", "committed"}]
    BY <1>0, <2>1 DEF TypeOK
  <2> QED
    BY <1>1, <2>1, <2>2, <2>3, <2>4
<1>3. CASE Rollback(a)
  <2>1. pc[a] # "committed" /\ pc' = [pc EXCEPT ![a] = "idle"]
        /\ req' = [req EXCEPT ![a] = NoReq]
        /\ UNCHANGED <<dicts, items, given, inval, raced>>
        /\ UNCHANGED <<tables, inval, cacheVars, raced>>
    BY <1>3 DEF Rollback, tables
  <2>2. Asked'
    BY <1>0, <2>1 DEF Asked, TypeOK, NoReq
  <2>3. StillRead'
    BY <1>0, <2>1 DEF StillRead, Rows, TypeOK
  <2>4. NoReq \in Requests
    BY DEF NoReq, Requests, Kinds
  <2>5. req' \in [Admins -> Requests]
        /\ pc' \in [Admins -> {"idle", "found", "checked", "committed"}]
    BY <1>0, <2>1, <2>4 DEF TypeOK
  <2> QED
    BY <1>1, <2>1, <2>2, <2>3, <2>5
<1>4. ASSUME NEW q \in Requests, Receive(a, q.do, q.id, q.dict, q.old, q.new),
             q.do \in {"CreateDict", "UpdateDict"} => q.new \in Codes,
             q.do \in {"CreateItem", "UpdateItem"} => q.new \in ItemCodes,
             q.do = "CreateDict" => q.id = None,
             q.do = "CreateItem" => q.id = None /\ q.dict \in Dicts /\ dicts[q.dict] = q.old,
             q.do \in {"UpdateDict", "DeleteDict"} =>
               q.id \in Known /\ q.dict = q.id /\ dicts[q.id] = q.old,
             q.do \in {"UpdateItem", "DeleteItem"} =>
               q.id \in Rows /\ items[q.id].dict = q.dict /\ items[q.id].code = q.old,
             q.do # "CreateDict" => q.old \in Codes,
             q.do \in {"UpdateItem", "DeleteItem"} => q.dict \in Dicts
      PROVE  DictInv'
  <2>1. q = [do |-> q.do, id |-> q.id, dict |-> q.dict, old |-> q.old, new |-> q.new]
    BY DEF Requests
  <2>2. pc[a] = "idle" /\ pc' = [pc EXCEPT ![a] = "found"] /\ req' = [req EXCEPT ![a] = q]
        /\ UNCHANGED <<dicts, items, given, inval, raced>>
        /\ UNCHANGED <<tables, inval, cacheVars, raced>>
    BY <1>4, <2>1 DEF Receive, tables
  <2>3. Asked'
    BY <1>0, <1>4, <2>2 DEF Asked, TypeOK, Known, Rows
  <2>4. StillRead'
    BY <1>0, <1>4, <2>2 DEF StillRead, TypeOK, Known, Rows
  <2>5. req' \in [Admins -> Requests]
        /\ pc' \in [Admins -> {"idle", "found", "checked", "committed"}]
    BY <1>0, <2>2 DEF TypeOK
  <2> QED
    BY <1>1, <2>2, <2>3, <2>4, <2>5
<1>5. CASE ReceiveCreateDict(a)
  <2>1. PICK c \in Codes :
          Receive(a, "CreateDict", None, None, None, c)
    BY <1>5 DEF ReceiveCreateDict
  <2> DEFINE q == [do |-> "CreateDict", id |-> None, dict |-> None,
                   old |-> None, new |-> c]
  <2>2. q \in Requests
    BY <1>0, <2>1 DEF TypeOK, Requests, Kinds, Known, Rows, ItemRows
  <2> QED
    BY <1>0, <1>4, <2>1, <2>2 DEF TypeOK, Known, Rows, ItemRows
<1>6. CASE ReceiveUpdateDict(a)
  <2>1. PICK d \in Known, c \in Codes :
          Receive(a, "UpdateDict", d, d, dicts[d], c)
    BY <1>6 DEF ReceiveUpdateDict
  <2> DEFINE q == [do |-> "UpdateDict", id |-> d, dict |-> d,
                   old |-> dicts[d], new |-> c]
  <2>2. q \in Requests
    BY <1>0, <2>1 DEF TypeOK, Requests, Kinds, Known, Rows, ItemRows
  <2> QED
    BY <1>0, <1>4, <2>1, <2>2 DEF TypeOK, Known, Rows, ItemRows
<1>7. CASE ReceiveDeleteDict(a)
  <2>1. PICK d \in Known :
          Receive(a, "DeleteDict", d, d, dicts[d], None)
    BY <1>7 DEF ReceiveDeleteDict
  <2> DEFINE q == [do |-> "DeleteDict", id |-> d, dict |-> d,
                   old |-> dicts[d], new |-> None]
  <2>2. q \in Requests
    BY <1>0, <2>1 DEF TypeOK, Requests, Kinds, Known, Rows, ItemRows
  <2> QED
    BY <1>0, <1>4, <2>1, <2>2 DEF TypeOK, Known, Rows, ItemRows
<1>8. CASE ReceiveCreateItem(a)
  <2>1. PICK d \in Known, x \in ItemCodes :
          Receive(a, "CreateItem", None, d, dicts[d], x)
    BY <1>8 DEF ReceiveCreateItem
  <2> DEFINE q == [do |-> "CreateItem", id |-> None, dict |-> d,
                   old |-> dicts[d], new |-> x]
  <2>2. q \in Requests
    BY <1>0, <2>1 DEF TypeOK, Requests, Kinds, Known, Rows, ItemRows
  <2> QED
    BY <1>0, <1>4, <2>1, <2>2 DEF TypeOK, Known, Rows, ItemRows
<1>9. CASE ReceiveUpdateItem(a)
  <2>1. PICK i \in Rows, x \in ItemCodes :
          Receive(a, "UpdateItem", i, items[i].dict, items[i].code, x)
    BY <1>9 DEF ReceiveUpdateItem
  <2> DEFINE q == [do |-> "UpdateItem", id |-> i, dict |-> items[i].dict,
                   old |-> items[i].code, new |-> x]
  <2>2. q \in Requests
    BY <1>0, <2>1 DEF TypeOK, Requests, Kinds, Known, Rows, ItemRows
  <2> QED
    BY <1>0, <1>4, <2>1, <2>2 DEF TypeOK, Known, Rows, ItemRows
<1>10. CASE ReceiveDeleteItem(a)
  <2>1. PICK i \in Rows :
          Receive(a, "DeleteItem", i, items[i].dict, items[i].code, None)
    BY <1>10 DEF ReceiveDeleteItem
  <2> DEFINE q == [do |-> "DeleteItem", id |-> i, dict |-> items[i].dict,
                   old |-> items[i].code, new |-> None]
  <2>2. q \in Requests
    BY <1>0, <2>1 DEF TypeOK, Requests, Kinds, Known, Rows, ItemRows
  <2> QED
    BY <1>0, <1>4, <2>1, <2>2 DEF TypeOK, Known, Rows, ItemRows
<1> QED
  BY <1>2, <1>3, <1>5, <1>6, <1>7, <1>8, <1>9, <1>10 DEF Begins

(* A commit ends its request, and leaves the others' as they are. *)
LEMMA CommitEnds ==
  ASSUME DictInv, NEW a \in Admins, NEW do, NEW ks \in SUBSET Codes, Commit(a, do, ks),
         given \subseteq given'
  PROVE  /\ req' \in [Admins -> Requests] /\ inval' \in [Admins -> SUBSET Codes]
         /\ pc' \in [Admins -> {"idle", "found", "checked", "committed"}]
         /\ UNCHANGED <<cached, reading, lapsed>> /\ raced' \in BOOLEAN
         /\ Asked'
<1>1. NoReq \in Requests
  BY DEF NoReq, Requests, Kinds
<1>2. /\ UNCHANGED <<cached, reading, lapsed>>
      /\ pc' = [pc EXCEPT ![a] = IF ks = {} THEN "idle" ELSE "committed"]
      /\ req' = [req EXCEPT ![a] = NoReq] /\ inval' = [inval EXCEPT ![a] = ks]
      /\ raced' \in BOOLEAN
  BY DEF Commit, cacheVars, DictInv, TypeOK
<1>3. Asked'
  BY <1>2 DEF DictInv, TypeOK, Asked, NoReq
<1> QED
  BY <1>1, <1>2, <1>3 DEF DictInv, TypeOK

(* What a commit makes of the tables is of the right types. *)
LEMMA CommitTypes ==
  ASSUME DictInv, NEW a \in Admins, Commits(a)
  PROVE  TypeOK' /\ Asked'
<1>1. /\ dicts \in [Dicts -> Codes \cup {None}] /\ items \in [Items -> ItemRows \cup {None}]
      /\ given \subseteq Dicts \cup Items /\ Known \cup Rows \subseteq given
      /\ cached \in [Codes -> Lists \cup {None}] /\ lapsed \subseteq Codes
      /\ reading \in [Readers -> [key : Codes, list : Lists] \cup {None}] /\ Asked
  BY DEF DictInv, TypeOK
<1>2. ASSUME NEW do, NEW ks \in SUBSET Codes, Commit(a, do, ks),
             dicts' \in [Dicts -> Codes \cup {None}], items' \in [Items -> ItemRows \cup {None}],
             given \subseteq given', given' \subseteq Dicts \cup Items,
             (Known \cup Rows)' \subseteq given'
      PROVE  TypeOK' /\ Asked'
  BY <1>1, <1>2, CommitEnds DEF TypeOK
<1> USE DictAssumption DEF Known, Rows, ItemRows, Asked
<1>3. CASE CreateDict(a)
  <2>1. req[a].do = "CreateDict"
    BY <1>3 DEF CreateDict, Commit
  <2> QED
    BY <1>1, <1>2, <1>3, <2>1 DEF CreateDict
<1>4. CASE UpdateDict(a)
  <2>1. req[a].do = "UpdateDict"
    BY <1>4 DEF UpdateDict, Commit
  <2> DEFINE q == req[a]
             ks == IF q.old = q.new THEN {} ELSE {q.old, q.new}
  <2>2. /\ q.id \in Dicts /\ q.id \in given /\ q.old \in Codes /\ q.new \in Codes
        /\ ks \in SUBSET Codes /\ Commit(a, "UpdateDict", ks) /\ given' = given
    BY <1>1, <1>4, <2>1 DEF UpdateDict
  <2>3. dicts' \in [Dicts -> Codes \cup {None}] /\ Known' \subseteq given
    BY <1>1, <1>4, <2>2 DEF UpdateDict, SaveDict
  <2>4. items' \in [Items -> ItemRows \cup {None}] /\ Rows' \subseteq given
    BY <1>1, <1>4, <2>2 DEF UpdateDict, Recode, ItemsOf
  <2> QED
    BY <1>1, <1>2, <2>2, <2>3, <2>4
<1>5. CASE DeleteDict(a)
  <2>1. req[a].do = "DeleteDict"
    BY <1>5 DEF DeleteDict, Commit
  <2> QED
    BY <1>1, <1>2, <1>5, <2>1 DEF DeleteDict, WithoutItemsOf
<1>6. CASE CreateItem(a)
  <2>1. req[a].do = "CreateItem"
    BY <1>6 DEF CreateItem, Commit
  <2> QED
    BY <1>1, <1>2, <1>6, <2>1 DEF CreateItem, Row
<1>7. CASE UpdateItem(a)
  <2>1. req[a].do = "UpdateItem"
    BY <1>7 DEF UpdateItem, Commit
  <2> QED
    BY <1>1, <1>2, <1>7, <2>1 DEF UpdateItem, SavedItem, Row
<1>8. CASE DeleteItem(a)
  <2>1. req[a].do = "DeleteItem"
    BY <1>8 DEF DeleteItem, Commit
  <2> QED
    BY <1>1, <1>2, <1>8, <2>1 DEF DeleteItem
<1> QED
  BY <1>3, <1>4, <1>5, <1>6, <1>7, <1>8 DEF Commits

(* Without a race it changes only rows of ids it is said to write, keeps each *)
(* item matched with its dictionary, and deletes each list that it changes.   *)
LEMMA CommitKeepsWithin ==
  ASSUME DictInv, NEW a \in Admins, Commits(a), ~raced'
  PROVE  /\ \A d \in Dicts \cap given : d \in Writes(req[a]) \/ dicts'[d] = dicts[d]
         /\ \A i \in Items \cap given : i \in Writes(req[a]) \/ items'[i] = items[i]
         /\ SerialItemsMatch'
         /\ \A c \in Codes : FromTables(c)' = FromTables(c) \/ c \in inval'[a]
<1> DEFINE Within ==
      /\ \A d \in Dicts \cap given : d \in Writes(req[a]) \/ dicts'[d] = dicts[d]
      /\ \A i \in Items \cap given : i \in Writes(req[a]) \/ items'[i] = items[i]
<1>1. /\ dicts \in [Dicts -> Codes \cup {None}] /\ items \in [Items -> ItemRows \cup {None}]
      /\ given \subseteq Dicts \cup Items /\ Known \cup Rows \subseteq given
      /\ Asked /\ inval \in [Admins -> SUBSET Codes]
  BY DEF DictInv, TypeOK
<1>2. ~raced /\ pc[a] \in {"found", "checked"}
  BY DEF Commits, CreateDict, UpdateDict, DeleteDict, CreateItem, UpdateItem, DeleteItem, Commit
<1>3. \A i \in Rows : dicts[items[i].dict] = items[i].code
  BY <1>2 DEF DictInv, SerialItemsMatch
<1>4. LET q == req[a] IN
      /\ q.do \in {"UpdateDict", "DeleteDict"} => dicts[q.id] = q.old
      /\ q.do = "CreateItem" => dicts[q.dict] = q.old
      /\ q.do \in {"UpdateItem", "DeleteItem"} =>
           q.id \in Rows /\ items[q.id].dict = q.dict /\ items[q.id].code = q.old
  BY <1>2 DEF DictInv, StillRead
<1> USE DictAssumption DEF Known, Rows, ItemRows, Asked, Writes, SerialItemsMatch, FromTables
<1>5. CASE CreateDict(a)
  <2>1. req[a].do = "CreateDict"
    BY <1>5 DEF CreateDict, Commit
  <2> QED
    BY <1>1, <1>3, <1>5, <2>1 DEF CreateDict
<1>6. CASE UpdateDict(a)
  <2>1. /\ req[a].do = "UpdateDict" /\ dicts' = [dicts EXCEPT ![req[a].id] = req[a].new]
        /\ items' = IF req[a].old = req[a].new THEN items ELSE Recode(req[a].id, req[a].new)
        /\ inval'[a] = IF req[a].old = req[a].new THEN {} ELSE {req[a].old, req[a].new}
    <3>1. /\ req[a].do = "UpdateDict"
          /\ items' = IF req[a].old = req[a].new THEN items ELSE Recode(req[a].id, req[a].new)
          /\ inval'[a] = IF req[a].old = req[a].new THEN {} ELSE {req[a].old, req[a].new}
      BY <1>1, <1>6 DEF UpdateDict, Commit
    <3>2. SaveDict(req[a])
      BY <1>6 DEF UpdateDict
    <3>3. dicts[req[a].id] = req[a].old /\ req[a].old \in Codes
      BY <1>1, <1>4, <3>1
    <3>4. dicts' = [dicts EXCEPT ![req[a].id] = req[a].new]
      BY <3>2, <3>3 DEF SaveDict
    <3> QED
      BY <3>1, <3>4
  <2>2. Within
    BY <1>1, <2>1 DEF Recode, ItemsOf
  <2>3. SerialItemsMatch'
    BY <1>1, <1>3, <1>4, <2>1 DEF Recode, ItemsOf
  <2>4. ASSUME NEW c \in Codes, c \notin inval'[a]  PROVE FromTables(c)' = FromTables(c)
    <3>1. CASE req[a].old = req[a].new
      BY <2>1, <3>1
    <3>2. CASE req[a].old # req[a].new
      <4>1. c \notin {req[a].old, req[a].new}
        BY <2>1, <2>4, <3>2
      <4>2. ASSUME NEW i \in Items
            PROVE  /\ i \in Rows' /\ items'[i].code = c <=> i \in Rows /\ items[i].code = c
                   /\ i \in Rows /\ items[i].code = c => items'[i].item = items[i].item
        <5>1. CASE i \in ItemsOf(req[a].id)
          <6>1. items[i].code = req[a].old /\ items'[i] = [items[i] EXCEPT !.code = req[a].new]
            BY <1>1, <1>3, <1>4, <2>1, <3>2, <5>1 DEF Recode, ItemsOf
          <6>2. items'[i].code = req[a].new
            BY <1>1, <5>1, <6>1 DEF ItemsOf
          <6> QED
            BY <4>1, <6>1, <6>2
        <5>2. CASE i \notin ItemsOf(req[a].id)
          BY <2>1, <3>2, <5>2 DEF Recode
        <5> QED
          BY <5>1, <5>2
      <4> QED
        BY <4>2
    <3> QED
      BY <3>1, <3>2
  <2> QED
    BY <2>2, <2>3, <2>4
<1>7. CASE DeleteDict(a)
  <2>1. /\ req[a].do = "DeleteDict" /\ dicts' = [dicts EXCEPT ![req[a].id] = None]
        /\ items' = WithoutItemsOf(req[a].id) /\ inval'[a] = {req[a].old}
    BY <1>1, <1>7 DEF DeleteDict, Commit
  <2>2. Within
    BY <1>1, <2>1 DEF WithoutItemsOf, ItemsOf
  <2>3. SerialItemsMatch'
    BY <1>1, <1>3, <1>4, <2>1 DEF WithoutItemsOf, ItemsOf
  <2>4. \A c \in Codes : FromTables(c)' = FromTables(c) \/ c \in inval'[a]
    BY <1>1, <1>3, <1>4, <2>1 DEF WithoutItemsOf, ItemsOf
  <2> QED
    BY <2>2, <2>3, <2>4
<1>8. CASE CreateItem(a)
  <2>1. req[a].do = "CreateItem" /\ inval'[a] = {req[a].old} /\ dicts' = dicts
    BY <1>1, <1>8 DEF CreateItem, Commit
  <2>2. PICK i \in Items \ given : items' = [items EXCEPT ![i] = Row(req[a])]
    BY <1>8 DEF CreateItem
  <2>3. Within /\ SerialItemsMatch'
    BY <1>1, <1>3, <1>4, <2>1, <2>2 DEF Row
  <2>4. \A c \in Codes : FromTables(c)' = FromTables(c) \/ c \in inval'[a]
    BY <1>1, <2>1, <2>2 DEF Row
  <2> QED
    BY <2>3, <2>4
<1>9. CASE UpdateItem(a)
  <2>1. /\ req[a].do = "UpdateItem" /\ inval'[a] = {req[a].old} /\ dicts' = dicts
        /\ items' = [items EXCEPT ![req[a].id] = Row(req[a])]
    BY <1>1, <1>4, <1>9 DEF UpdateItem, Commit, SavedItem
  <2>3. Within /\ SerialItemsMatch'
    BY <1>1, <1>3, <1>4, <2>1 DEF Row
  <2>4. \A c \in Codes : FromTables(c)' = FromTables(c) \/ c \in inval'[a]
    BY <1>1, <1>4, <2>1 DEF Row
  <2> QED
    BY <2>3, <2>4
<1>10. CASE DeleteItem(a)
  <2>1. /\ req[a].do = "DeleteItem" /\ inval'[a] = {req[a].old} /\ dicts' = dicts
        /\ items' = [items EXCEPT ![req[a].id] = None]
    BY <1>1, <1>10 DEF DeleteItem, Commit
  <2>3. Within /\ SerialItemsMatch'
    BY <1>1, <1>3, <2>1
  <2>4. \A c \in Codes : FromTables(c)' = FromTables(c) \/ c \in inval'[a]
    BY <1>1, <1>4, <2>1
  <2> QED
    BY <2>3, <2>4
<1> QED
  BY <1>5, <1>6, <1>7, <1>8, <1>9, <1>10 DEF Commits

(* A commit keeps the invariant. *)
LEMMA CommitKeeps ==
  ASSUME DictInv, NEW a \in Admins, Commits(a)
  PROVE  DictInv'
<1>1. TypeOK' /\ Asked'
  BY CommitTypes
<1>2. /\ UNCHANGED <<cached, reading, lapsed>> /\ req' = [req EXCEPT ![a] = NoReq]
      /\ pc[a] # "committed" /\ pc' = [pc EXCEPT ![a] = pc'[a]] /\ pc'[a] \in {"idle", "committed"}
      /\ inval' = [inval EXCEPT ![a] = inval'[a]]
      /\ ~raced' => ~raced /\ \A b \in Admins \ {a} : pc[b] \in {"found", "checked"} =>
                                (Writes(req[a]) \cap Read(req[b])) \ {None} = {}
  <2>1. PICK do, ks : Commit(a, do, ks)
    BY DEF Commits, CreateDict, UpdateDict, DeleteDict, CreateItem, UpdateItem, DeleteItem
  <2> QED
    BY <2>1 DEF Commit, cacheVars, DictInv, TypeOK
<1>3. CASE raced'
  BY <1>1, <1>3 DEF DictInv, StillRead, SerialItemsMatch, CacheFollowsItems
<1>4. CASE ~raced'
  <2>1. /\ \A d \in Dicts \cap given : d \in Writes(req[a]) \/ dicts'[d] = dicts[d]
        /\ \A i \in Items \cap given : i \in Writes(req[a]) \/ items'[i] = items[i]
        /\ SerialItemsMatch'
        /\ \A c \in Codes : FromTables(c)' = FromTables(c) \/ c \in inval'[a]
    BY <1>4, CommitKeepsWithin
  <2>2. StillRead'
    <3> SUFFICES ASSUME NEW b \in Admins, pc'[b] \in {"found", "checked"}
                 PROVE  LET q == req'[b] IN
                        /\ q.do \in {"UpdateDict", "DeleteDict"} => dicts'[q.id] = q.old
                        /\ q.do = "CreateItem" => dicts'[q.dict] = q.old
                        /\ q.do \in {"UpdateItem", "DeleteItem"} =>
                             q.id \in Rows' /\ items'[q.id].dict = q.dict /\ items'[q.id].code = q.old
      BY DEF StillRead
    <3>1. b # a /\ pc[b] \in {"found", "checked"} /\ req'[b] = req[b]
      BY <1>2 DEF DictInv, TypeOK
    <3>2. \A x \in {req[b].id, req[b].dict} \ {None} : x \notin Writes(req[a])
      BY <1>2, <1>4, <3>1 DEF Read
    <3>3. LET q == req[b] IN
          /\ q.do \in {"UpdateDict", "DeleteDict"} => dicts[q.id] = q.old
          /\ q.do = "CreateItem" => dicts[q.dict] = q.old
          /\ q.do \in {"UpdateItem", "DeleteItem"} =>
               q.id \in Rows /\ items[q.id].dict = q.dict /\ items[q.id].code = q.old
      BY <1>2, <1>4, <3>1 DEF DictInv, StillRead
    <3>4. Asked /\ Known \subseteq given /\ Rows \subseteq given
      BY DEF DictInv, TypeOK
    <3> QED
      BY <2>1, <3>1, <3>2, <3>3, <3>4, DictAssumption DEF Asked, Known, Rows
  <2>3. CacheFollowsItems'
    <3>1. inval[a] = {} /\ inval \in [Admins -> SUBSET Codes] /\ CacheFollowsItems
      BY <1>2 DEF DictInv, Asked, TypeOK
    <3> QED
      BY <1>2, <1>4, <2>1, <3>1 DEF CacheFollowsItems, Stale
  <2> QED
    BY <1>1, <2>1, <2>2, <2>3 DEF DictInv
<1> QED
  BY <1>3, <1>4

(* Deleting and filling lists. *)
LEMMA ListsFollow ==
  ASSUME DictInv,
         \/ \E a \in Admins : Invalidate(a) \/ InvalidateFails(a)
         \/ \E r \in Readers : Reads(r)
         \/ \E c \in Codes : Expire(c)
  PROVE  DictInv'
<1>0. TypeOK /\ Asked /\ StillRead /\ SerialItemsMatch /\ CacheFollowsItems
  BY DEF DictInv
<1>1. ASSUME UNCHANGED <<dicts, items, given, req, raced>>, Asked', TypeOK', CacheFollowsItems',
             \A a \in Admins : pc'[a] \in {"found", "checked"} => pc[a] = pc'[a]
      PROVE  DictInv'
  BY <1>0, <1>1 DEF DictInv, StillRead, SerialItemsMatch, Rows
<1>2. \A c \in Codes : FromTables(c) \in Lists
  BY <1>0 DEF FromTables, Lists, Rows, TypeOK, ItemRows
<1>3. ASSUME NEW a \in Admins, Invalidate(a) \/ InvalidateFails(a)  PROVE DictInv'
  <2>1. /\ UNCHANGED <<dicts, items, given, req, reading, raced>>
        /\ pc' = [pc EXCEPT ![a] = "idle"] /\ inval' = [inval EXCEPT ![a] = {}]
        /\ \/ /\ cached' = [c \in Codes |-> IF c \in inval[a] THEN None ELSE cached[c]]
              /\ lapsed' = lapsed \ inval[a]
           \/ cached' = cached /\ lapsed' = lapsed \cup {c \in inval[a] : Stale(c)}
    BY <1>3 DEF Invalidate, InvalidateFails, Done, tables
  <2>2. TypeOK' /\ Asked'
    BY <1>0, <2>1 DEF TypeOK, Asked, Known, Rows
  <2>3. \A c \in Codes : FromTables(c)' = FromTables(c)
    BY <2>1 DEF FromTables, Rows
  <2>4. CacheFollowsItems'
    BY <1>0, <2>1, <2>3 DEF CacheFollowsItems, Stale, TypeOK
  <2>5. \A b \in Admins : pc'[b] \in {"found", "checked"} => pc[b] = pc'[b]
    BY <1>0, <2>1 DEF TypeOK
  <2> QED
    BY <1>1, <2>1, <2>2, <2>4, <2>5
<1>4. ASSUME UNCHANGED <<dicts, items, given, pc, req, inval, raced>>, TypeOK', CacheFollowsItems'
      PROVE  DictInv'
  BY <1>0, <1>1, <1>4 DEF Asked
<1>5. ASSUME UNCHANGED <<dicts, items, given, pc, req, inval, cached, lapsed, raced>>
      PROVE  CacheFollowsItems'
  BY <1>0, <1>5 DEF CacheFollowsItems, Stale, FromTables, Rows
<1>6. ASSUME NEW r \in Readers, NEW c \in Codes, ReadTable(r, c)  PROVE DictInv'
  <2>1. UNCHANGED <<dicts, items, given, pc, req, inval, cached, lapsed, raced>>
        /\ reading' = [reading EXCEPT ![r] = [key |-> c, list |-> FromTables(c)]]
    BY <1>6 DEF ReadTable, tables, adminVars
  <2>2. TypeOK'
    BY <1>0, <1>2, <2>1 DEF TypeOK, Known, Rows
  <2> QED
    BY <1>4, <1>5, <2>1, <2>2
<1>7. ASSUME NEW r \in Readers, Fill(r)  PROVE DictInv'
  <2>1. PICK k \in Codes, l \in Lists : reading[r].key = k /\ reading[r].list = l
    BY <1>0, <1>7 DEF Fill, TypeOK
  <2>2. /\ UNCHANGED <<dicts, items, given, pc, req, inval, raced>>
        /\ reading' = [reading EXCEPT ![r] = None] /\ cached' = [cached EXCEPT ![k] = l]
        /\ lapsed' = IF l = FromTables(k) THEN lapsed \ {k} ELSE lapsed \cup {k}
    BY <1>7, <2>1 DEF Fill, tables, adminVars
  <2>3. TypeOK'
    BY <1>0, <2>1, <2>2 DEF TypeOK, Known, Rows
  <2>4. \A c \in Codes : FromTables(c)' = FromTables(c)
    BY <2>2 DEF FromTables, Rows
  <2>5. CacheFollowsItems'
    BY <1>0, <2>1, <2>2, <2>4 DEF CacheFollowsItems, Stale, TypeOK
  <2> QED
    BY <1>4, <2>2, <2>3, <2>5
<1>8. ASSUME NEW r \in Readers, FillFails(r)  PROVE DictInv'
  <2>1. UNCHANGED <<dicts, items, given, pc, req, inval, cached, lapsed, raced>>
        /\ reading' = [reading EXCEPT ![r] = None]
    BY <1>8 DEF FillFails, tables, adminVars
  <2>2. TypeOK'
    BY <1>0, <2>1 DEF TypeOK, Known, Rows
  <2> QED
    BY <1>4, <1>5, <2>1, <2>2
<1>9. ASSUME NEW c \in Codes, Expire(c)  PROVE DictInv'
  <2>1. /\ UNCHANGED <<dicts, items, given, pc, req, inval, reading, raced>>
        /\ cached' = [cached EXCEPT ![c] = None] /\ lapsed' = lapsed \ {c}
    BY <1>9 DEF Expire, tables, adminVars
  <2>2. TypeOK'
    BY <1>0, <2>1 DEF TypeOK, Known, Rows
  <2>3. \A k \in Codes : FromTables(k)' = FromTables(k)
    BY <2>1 DEF FromTables, Rows
  <2>4. CacheFollowsItems'
    BY <1>0, <2>1, <2>3 DEF CacheFollowsItems, Stale, TypeOK
  <2> QED
    BY <1>4, <2>1, <2>2, <2>4
<1> QED
  BY <1>3, <1>6, <1>7, <1>8, <1>9 DEF Reads

(* The invariant of the dictionaries, their items and the lists. *)
LEMMA DictInvariant == Spec => []DictInv
<1>1. ASSUME Init  PROVE DictInv
  <2>1. Rows = {} /\ Known = {}
    BY <1>1 DEF Init, Rows, Known
  <2>2. NoReq \in Requests
    BY DEF NoReq, Requests, Kinds
  <2>3. TypeOK
    BY <1>1, <2>1, <2>2 DEF Init, TypeOK
  <2>4. Asked /\ StillRead /\ SerialItemsMatch /\ CacheFollowsItems
    BY <1>1, <2>1 DEF Init, NoReq, Asked, StillRead, SerialItemsMatch, CacheFollowsItems, Stale
  <2> QED
    BY <2>3, <2>4 DEF DictInv
<1>2. ASSUME DictInv, [Next]_vars  PROVE DictInv'
  <2>1. CASE UNCHANGED vars
    BY <1>2, <2>1
       DEF vars, tables, adminVars, cacheVars, DictInv, TypeOK, Asked, StillRead, SerialItemsMatch,
           CacheFollowsItems, Stale, FromTables, Rows, Known
  <2> QED
    BY <1>2, <2>1, RequestsBegin, CommitKeeps, ListsFollow DEF Next
<1> QED
  BY <1>1, <1>2, PTL DEF Spec

(* As long as requests do not race, every item belongs to a dictionary and    *)
(* repeats its code (dict.go:224-386).                                        *)
THEOREM ItemsMatch == Spec => []SerialItemsMatch
<1>1. DictInv => SerialItemsMatch
  BY DEF DictInv
<1> QED
  BY <1>1, DictInvariant, PTL

(* A cached list that is out of date is about to go, unless a DEL failed, a   *)
(* slow reader wrote it back, or requests raced (dict.go:224-680).            *)
THEOREM ListsAreDropped == Spec => []CacheFollowsItems
<1>1. DictInv => CacheFollowsItems
  BY DEF DictInv
<1> QED
  BY <1>1, DictInvariant, PTL

-----------------------------------------------------------------------------
(* AuditLog: the snapshots of each depth, as Snapshots builds them up.        *)
Layers(L) ==
  /\ DOMAIN L = 0..Depth
  /\ L[0] = {Leaf, Object(<<>>)}
  /\ \A d \in 0..Depth : d # 0 => L[d] = L[d - 1] \cup UNION {Around(v) : v \in L[d - 1]}
  /\ Snapshots = L[Depth]

(* The recursion that defines Snapshots has a solution.                       *)
LEMMA SnapshotLayers == \E L : Layers(L)
<1> DEFINE Layer(g, d) == IF d = 0 THEN {Leaf, Object(<<>>)}
                          ELSE g[d - 1] \cup UNION {Around(v) : v \in g[d - 1]}
           upTo[d \in 0..Depth] == Layer(upTo, d)
           T == {n \in Nat : \E g : g = [d \in 0..n |-> Layer(g, d)]}
<1>1. 0 \in T
  <2> DEFINE g == [d \in 0..0 |-> Layer(<<>>, 0)]
  <2>1. g = [d \in 0..0 |-> Layer(g, d)]
    OBVIOUS
  <2> HIDE DEF Layer, g
  <2> QED
    BY <2>1
<1>2. ASSUME NEW n \in Nat, n \in T  PROVE n + 1 \in T
  <2>1. PICK g : g = [d \in 0..n |-> Layer(g, d)]
    BY <1>2
  <2> DEFINE h == [d \in 0..(n + 1) |-> IF d = n + 1 THEN Layer(g, d) ELSE g[d]]
  <2>2. ASSUME NEW d \in 0..(n + 1)  PROVE h[d] = Layer(h, d)
    <3>1. CASE d = n + 1
      <4>1. h[d] = Layer(g, d) /\ d # 0 /\ d - 1 \in 0..n /\ d - 1 # n + 1
        BY <3>1
      <4>2. h[d - 1] = g[d - 1]
        BY <4>1
      <4> QED
        BY <4>1, <4>2
    <3>2. CASE d # n + 1 /\ d # 0
      <4>1. d \in 0..n /\ d - 1 \in 0..n /\ d - 1 # n + 1 /\ d - 1 \in 0..(n + 1)
        BY <3>2
      <4>2. h[d] = g[d] /\ h[d - 1] = g[d - 1]
        BY <3>2, <4>1
      <4> QED
        BY <2>1, <3>2, <4>1, <4>2
    <3>3. CASE d = 0
      BY <2>1, <3>3
    <3> QED
      BY <3>1, <3>2, <3>3
  <2>3. h = [d \in 0..(n + 1) |-> Layer(h, d)]
    <3> HIDE DEF Layer
    <3> QED
      BY <2>2
  <2> HIDE DEF Layer, h
  <2> QED
    BY <2>3
<1>3. Depth \in T
  <2> HIDE DEF T
  <2> QED
    BY <1>1, <1>2, SetInduction, DepthAssumption
<1>4. upTo = [d \in 0..Depth |-> Layer(upTo, d)]
  <2> HIDE DEF Layer
  <2> QED
    BY <1>3
<1>5. Snapshots = upTo[Depth]
  BY DEF Snapshots
<1> HIDE DEF upTo
<1>6. Layers(upTo)
  BY <1>4, <1>5, DepthAssumption DEF Layers
<1> QED
  BY <1>6

(* The values right below a value.                                            *)
PartsOf(v) == IF IsObject(v) THEN {v.fields[k] : k \in DOMAIN v.fields}
            ELSE IF IsArray(v) THEN {v.elems[i] : i \in DOMAIN v.elems}
            ELSE {}

(* What holds v, and at most one more thing, has only these as parts.         *)
LEMMA AroundShapes ==
  ASSUME NEW v, NEW w \in Around(v)
  PROVE  /\ PartsOf(w) \subseteq {v, Leaf}
         /\ IsObject(w) => DOMAIN w.fields \subseteq Keys \cup {Neighbour}
         /\ ~IsObject(w) => IsArray(w) /\ w.elems = <<v, Leaf>>
<1>1. ASSUME w = Array(<<v, Leaf>>)
      PROVE  ~IsObject(w) /\ IsArray(w) /\ w.elems = <<v, Leaf>> /\ PartsOf(w) \subseteq {v, Leaf}
  <2>1. ~IsObject(w) /\ IsArray(w) /\ w.elems = <<v, Leaf>>
    BY <1>1 DEF Array, IsObject, IsArray
  <2> QED
    BY <2>1 DEF PartsOf
<1>2. ASSUME NEW key \in Keys, NEW beside \in {{}, {Neighbour}},
             w = Holding(key, beside, v)
      PROVE  /\ IsObject(w)
             /\ DOMAIN w.fields \subseteq Keys \cup {Neighbour}
             /\ PartsOf(w) \subseteq {v, Leaf}
  <2>1. IsObject(w) /\ w.fields = [k \in {key} \cup beside |-> IF k = key THEN v ELSE Leaf]
    BY <1>2 DEF Holding, Object, IsObject
  <2> QED
    BY <2>1 DEF PartsOf
<1>3. \/ w = Array(<<v, Leaf>>)
      \/ \E key \in Keys, beside \in {{}, {Neighbour}} :
           w = Holding(key, beside, v)
  BY DEF Around
<1>4. CASE w = Array(<<v, Leaf>>)
  BY <1>1, <1>4
<1>5. CASE \E key \in Keys, beside \in {{}, {Neighbour}} :
             w = Holding(key, beside, v)
  BY <1>2, <1>5
<1> QED
  BY <1>3, <1>4, <1>5

(* The two values without parts.                                              *)
LEMMA FlatShapes ==
  /\ ~IsObject(Leaf) /\ ~IsArray(Leaf) /\ PartsOf(Leaf) = {}
  /\ IsObject(Object(<<>>)) /\ Object(<<>>).fields = <<>> /\ PartsOf(Object(<<>>)) = {}
BY DEF Leaf, Object, IsObject, IsArray, PartsOf

(* A layer keeps what the one before has, and its parts are in that one.      *)
LEMMA LayerShapes ==
  ASSUME NEW L, Layers(L), NEW d \in 0..Depth
  PROVE  /\ L[0] \subseteq L[d]
         /\ \A v \in L[d] : PartsOf(v) \subseteq L[d]
         /\ d # 0 => L[d - 1] \subseteq L[d] /\ \A v \in L[d] : PartsOf(v) \subseteq L[d - 1]
<1> USE DepthAssumption
<1> DEFINE Good(e) == /\ L[0] \subseteq L[e]
                      /\ \A v \in L[e] : PartsOf(v) \subseteq L[e]
           T == {e \in Nat : e <= Depth => Good(e)}
<1>1. Good(0)
  BY FlatShapes DEF Layers
<1>2. ASSUME NEW e \in Nat, e + 1 <= Depth, Good(e)
      PROVE  /\ Good(e + 1)
             /\ L[e] \subseteq L[e + 1] /\ \A v \in L[e + 1] : PartsOf(v) \subseteq L[e]
  <2>1. L[e + 1] = L[e] \cup UNION {Around(v) : v \in L[e]}
    <3>1. e + 1 \in 0..Depth /\ e + 1 # 0 /\ (e + 1) - 1 = e
      BY <1>2
    <3> QED
      BY <3>1 DEF Layers
  <2>2. Leaf \in L[e]
    BY <1>2 DEF Layers
  <2>3. ASSUME NEW v \in L[e], NEW w \in Around(v)  PROVE PartsOf(w) \subseteq L[e]
    BY <2>2, AroundShapes
  <2> QED
    BY <1>2, <2>1, <2>3
<1>3. Nat \subseteq T
  <2>1. 0 \in T /\ \A e \in Nat : e \in T => e + 1 \in T
    <3> HIDE DEF Good
    <3> QED
      BY <1>1, <1>2
  <2> HIDE DEF T
  <2> QED
    BY <2>1, SetInduction
<1>4. Good(d)
  BY <1>3
<1>5. ASSUME d # 0
      PROVE  L[d - 1] \subseteq L[d] /\ \A v \in L[d] : PartsOf(v) \subseteq L[d - 1]
  <2>1. d - 1 \in Nat /\ d - 1 <= Depth /\ (d - 1) + 1 = d
    BY <1>5
  <2>2. Good(d - 1)
    BY <1>3, <2>1
  <2> HIDE DEF Good
  <2> QED
    BY <1>2, <2>1, <2>2
<1> QED
  BY <1>4, <1>5

(* What Sanitize makes of a value whose parts it made f of.                   *)
Cleaned(f, v) ==
  IF IsObject(v)
    THEN Object([k \in {key \in DOMAIN v.fields : ~ShouldDrop(key)} |-> f[v.fields[k]]])
  ELSE IF IsArray(v) THEN Array([i \in DOMAIN v.elems |-> f[v.elems[i]]])
  ELSE v

(* The places of a value whose parts have the places f.                       *)
Inside(f, v) ==
  {<<>>} \cup
  IF IsObject(v) THEN UNION {Under(<<"key", k>>, f[v.fields[k]]) : k \in DOMAIN v.fields}
  ELSE IF IsArray(v) THEN UNION {Under(<<"at", i>>, f[v.elems[i]]) : i \in DOMAIN v.elems}
  ELSE {}

(* What becomes of a value depends on its parts alone.                        *)
LEMMA CleanedFromParts ==
  ASSUME NEW f, NEW g, NEW v, \A w \in PartsOf(v) : f[w] = g[w]
  PROVE  Cleaned(f, v) = Cleaned(g, v)
<1>1. CASE IsObject(v)
  <2>1. \A k \in DOMAIN v.fields : f[v.fields[k]] = g[v.fields[k]]
    BY <1>1 DEF PartsOf
  <2>2. [k \in {key \in DOMAIN v.fields : ~ShouldDrop(key)} |-> f[v.fields[k]]]
          = [k \in {key \in DOMAIN v.fields : ~ShouldDrop(key)} |-> g[v.fields[k]]]
    BY <2>1
  <2> QED
    BY <1>1, <2>2 DEF Cleaned
<1>2. CASE ~IsObject(v) /\ IsArray(v)
  <2>1. \A i \in DOMAIN v.elems : f[v.elems[i]] = g[v.elems[i]]
    BY <1>2 DEF PartsOf
  <2>2. [i \in DOMAIN v.elems |-> f[v.elems[i]]] = [i \in DOMAIN v.elems |-> g[v.elems[i]]]
    BY <2>1
  <2> QED
    BY <1>2, <2>2 DEF Cleaned
<1> QED
  BY <1>1, <1>2 DEF Cleaned

(* p leads into a part of v, and there to one of the places f.                *)
Through(f, v, p) ==
  \/ IsObject(v) /\ \E k \in DOMAIN v.fields : \E q \in f[v.fields[k]] : p = << <<"key", k>> >> \o q
  \/ ~IsObject(v) /\ IsArray(v)
       /\ \E i \in DOMAIN v.elems : \E q \in f[v.elems[i]] : p = << <<"at", i>> >> \o q

(* A place of a value is the value itself or leads through one of its parts.  *)
LEMMA InsideMembers ==
  ASSUME NEW f, NEW v, NEW p
  PROVE  p \in Inside(f, v) <=> p = <<>> \/ Through(f, v, p)
<1> DEFINE inner == UNION {Under(<<"key", k>>, f[v.fields[k]]) : k \in DOMAIN v.fields}
           outer == UNION {Under(<<"at", i>>, f[v.elems[i]]) : i \in DOMAIN v.elems}
<1>0. \A step, places : p \in Under(step, places) <=> \E q \in places : p = <<step>> \o q
  BY DEF Under
<1>1. p \in inner <=> \E k \in DOMAIN v.fields : \E q \in f[v.fields[k]] : p = << <<"key", k>> >> \o q
  <2>1. p \in inner <=> \E k \in DOMAIN v.fields : p \in Under(<<"key", k>>, f[v.fields[k]])
    OBVIOUS
  <2> HIDE DEF inner
  <2> QED
    BY <1>0, <2>1
<1>2. p \in outer <=> \E i \in DOMAIN v.elems : \E q \in f[v.elems[i]] : p = << <<"at", i>> >> \o q
  <2>1. p \in outer <=> \E i \in DOMAIN v.elems : p \in Under(<<"at", i>>, f[v.elems[i]])
    OBVIOUS
  <2> HIDE DEF outer
  <2> QED
    BY <1>0, <2>1
<1>3. Inside(f, v) = {<<>>} \cup (IF IsObject(v) THEN inner ELSE IF IsArray(v) THEN outer ELSE {})
  BY Zenon DEF Inside
<1> HIDE DEF inner, outer
<1> QED
  BY <1>1, <1>2, <1>3 DEF Through

(* The places of a value depend on its parts alone.                           *)
LEMMA InsideFromParts ==
  ASSUME NEW f, NEW g, NEW v, \A w \in PartsOf(v) : f[w] = g[w]
  PROVE  Inside(f, v) = Inside(g, v)
<1>1. CASE IsObject(v)
  <2>1. \A k \in DOMAIN v.fields : f[v.fields[k]] = g[v.fields[k]]
    BY <1>1 DEF PartsOf
  <2>2. {Under(<<"key", k>>, f[v.fields[k]]) : k \in DOMAIN v.fields}
          = {Under(<<"key", k>>, g[v.fields[k]]) : k \in DOMAIN v.fields}
    BY <2>1
  <2> QED
    BY <1>1, <2>2 DEF Inside
<1>2. CASE ~IsObject(v) /\ IsArray(v)
  <2>1. \A i \in DOMAIN v.elems : f[v.elems[i]] = g[v.elems[i]]
    BY <1>2 DEF PartsOf
  <2>2. {Under(<<"at", i>>, f[v.elems[i]]) : i \in DOMAIN v.elems}
          = {Under(<<"at", i>>, g[v.elems[i]]) : i \in DOMAIN v.elems}
    BY <2>1
  <2> QED
    BY <1>2, <2>2 DEF Inside
<1> QED
  BY <1>1, <1>2 DEF Inside

(* Sanitize is well defined: a solution on one layer gives one on the next.   *)
LEMMA SanitizeByParts == \A v \in Snapshots : Sanitize[v] = Cleaned(Sanitize, v)
<1>1. PICK L : Layers(L)
  BY SnapshotLayers
<1> DEFINE Solves(g, S) == g = [v \in S |-> Cleaned(g, v)]
           T == {n \in Nat : n <= Depth => \E g : Solves(g, L[n])}
<1>2. 0 \in T
  <2> DEFINE g == [v \in L[0] |-> Cleaned(<<>>, v)]
  <2>1. ASSUME NEW v \in L[0]  PROVE g[v] = Cleaned(g, v)
    <3>1. PartsOf(v) = {}
      BY <1>1, FlatShapes DEF Layers
    <3> QED
      BY <3>1, CleanedFromParts
  <2>2. Solves(g, L[0])
    BY <2>1
  <2> HIDE DEF Solves, g
  <2> QED
    BY <2>2
<1>3. ASSUME NEW n \in Nat, n \in T  PROVE n + 1 \in T
  <2> SUFFICES ASSUME n + 1 <= Depth  PROVE \E h : Solves(h, L[n + 1])
    OBVIOUS
  <2>1. PICK g : Solves(g, L[n])
    BY <1>3, DepthAssumption
  <2> DEFINE h == [v \in L[n + 1] |-> Cleaned(g, v)]
  <2>2. L[n] \subseteq L[n + 1] /\ \A v \in L[n + 1] : PartsOf(v) \subseteq L[n]
    <3>1. n + 1 \in 0..Depth /\ n + 1 # 0 /\ (n + 1) - 1 = n
      BY DepthAssumption
    <3> QED
      BY <1>1, <3>1, LayerShapes
  <2>3. ASSUME NEW v \in L[n + 1]  PROVE h[v] = Cleaned(h, v)
    <3>1. ASSUME NEW w \in PartsOf(v)  PROVE h[w] = g[w]
      BY <2>1, <2>2
    <3>2. Cleaned(g, v) = Cleaned(h, v)
      <4> HIDE DEF h
      <4> QED
        BY <3>1, CleanedFromParts
    <3> QED
      BY <3>2
  <2>4. Solves(h, L[n + 1])
    <3>1. h = [v \in L[n + 1] |-> h[v]]
      OBVIOUS
    <3> HIDE DEF h
    <3> QED
      BY <2>3, <3>1
  <2> HIDE DEF Solves, h
  <2> QED
    BY <2>4
<1>4. \E g : Solves(g, Snapshots)
  <2>1. Depth \in T
    <3> HIDE DEF T
    <3> QED
      BY <1>2, <1>3, SetInduction, DepthAssumption
  <2> QED
    BY <1>1, <2>1, DepthAssumption DEF Layers
<1>5. Sanitize = CHOOSE g : Solves(g, Snapshots)
  BY Zenon DEF Sanitize, Cleaned
<1>6. Solves(Sanitize, Snapshots)
  <2> HIDE DEF Solves
  <2> QED
    BY <1>4, <1>5
<1> QED
  BY <1>6

(* And so are the places.                                                     *)
LEMMA PlacesByParts == \A v \in Snapshots : Places[v] = Inside(Places, v)
<1>1. PICK L : Layers(L)
  BY SnapshotLayers
<1> DEFINE Solves(g, S) == g = [v \in S |-> Inside(g, v)]
           T == {n \in Nat : n <= Depth => \E g : Solves(g, L[n])}
<1>2. 0 \in T
  <2> DEFINE g == [v \in L[0] |-> Inside(<<>>, v)]
  <2>1. ASSUME NEW v \in L[0]  PROVE g[v] = Inside(g, v)
    <3>1. PartsOf(v) = {}
      BY <1>1, FlatShapes DEF Layers
    <3> QED
      BY <3>1, InsideFromParts
  <2>2. Solves(g, L[0])
    BY <2>1
  <2> HIDE DEF Solves, g
  <2> QED
    BY <2>2
<1>3. ASSUME NEW n \in Nat, n \in T  PROVE n + 1 \in T
  <2> SUFFICES ASSUME n + 1 <= Depth  PROVE \E h : Solves(h, L[n + 1])
    OBVIOUS
  <2>1. PICK g : Solves(g, L[n])
    BY <1>3, DepthAssumption
  <2> DEFINE h == [v \in L[n + 1] |-> Inside(g, v)]
  <2>2. L[n] \subseteq L[n + 1] /\ \A v \in L[n + 1] : PartsOf(v) \subseteq L[n]
    <3>1. n + 1 \in 0..Depth /\ n + 1 # 0 /\ (n + 1) - 1 = n
      BY DepthAssumption
    <3> QED
      BY <1>1, <3>1, LayerShapes
  <2>3. ASSUME NEW v \in L[n + 1]  PROVE h[v] = Inside(h, v)
    <3>1. ASSUME NEW w \in PartsOf(v)  PROVE h[w] = g[w]
      BY <2>1, <2>2
    <3>2. Inside(g, v) = Inside(h, v)
      <4> HIDE DEF h
      <4> QED
        BY <3>1, InsideFromParts
    <3> QED
      BY <3>2
  <2>4. Solves(h, L[n + 1])
    <3>1. h = [v \in L[n + 1] |-> h[v]]
      OBVIOUS
    <3> HIDE DEF h
    <3> QED
      BY <2>3, <3>1
  <2> HIDE DEF Solves, h
  <2> QED
    BY <2>4
<1>4. \E g : Solves(g, Snapshots)
  <2>1. Depth \in T
    <3> HIDE DEF T
    <3> QED
      BY <1>2, <1>3, SetInduction, DepthAssumption
  <2> QED
    BY <1>1, <2>1, DepthAssumption DEF Layers
<1>5. Places = CHOOSE g : Solves(g, Snapshots)
  BY Zenon DEF Places, Inside
<1>6. Solves(Places, Snapshots)
  <2> HIDE DEF Solves
  <2> QED
    BY <1>4, <1>5
<1> QED
  BY <1>6

(* The field that stands beside others is one of the keys.                    *)
LEMMA NeighbourIsKey == Neighbour \in Keys
<1> DEFINE name == CHOOSE name \in OtherFields : TRUE
<1>1. name \in OtherFields /\ Neighbour = Snake(name)
  BY FieldsAssumption DEF Neighbour
<1> HIDE DEF name
<1>2. Snake(name) \in Spellings(name)
  BY DEF Snake, Separated, Spellings
<1> QED
  BY <1>1, <1>2 DEF Keys

(* Fields have keys.                                                          *)
LEMMA AroundKeys ==
  ASSUME NEW v, NEW w \in Around(v), IsObject(w)
  PROVE  DOMAIN w.fields \subseteq Keys
BY AroundShapes, NeighbourIsKey

(* What holds nothing stays as it is.                                         *)
LEMMA SanitizedLeaf ==
  /\ Sanitize[Leaf] = Leaf
  /\ Sanitize[Object(<<>>)] = Object(<<>>)
<1>1. Leaf \in Snapshots /\ Object(<<>>) \in Snapshots
  BY SnapshotLayers, LayerShapes, DepthAssumption DEF Layers
<1>2. Cleaned(Sanitize, Leaf) = Leaf
  BY FlatShapes DEF Cleaned
<1>3. Cleaned(Sanitize, Object(<<>>)) = Object(<<>>)
  <2>1. DOMAIN <<>> = {}
    OBVIOUS
  <2>2. [k \in {key \in DOMAIN <<>> : ~ShouldDrop(key)} |-> Sanitize[<<>>[k]]] = <<>>
    BY <2>1
  <2> QED
    BY FlatShapes, <2>2 DEF Cleaned
<1> QED
  BY <1>1, <1>2, <1>3, SanitizeByParts

(* What is left around a value is around what is left of it.                  *)
LEMMA SanitizedAround ==
  ASSUME NEW v, NEW w \in Around(v), w \in Snapshots, Sanitize[Leaf] = Leaf
  PROVE  \/ Sanitize[w] \in Around(Sanitize[v]) \cup Around(Leaf)
         \/ Sanitize[w] = Object(<<>>)
<1>1. Sanitize[w] = Cleaned(Sanitize, w)
  BY SanitizeByParts
<1>2. \/ w = Array(<<v, Leaf>>)
      \/ \E key \in Keys, beside \in {{}, {Neighbour}} :
           w = Holding(key, beside, v)
  BY DEF Around
<1>3. CASE w = Array(<<v, Leaf>>)
  <2>1. ~IsObject(w) /\ IsArray(w) /\ w.elems = <<v, Leaf>>
    BY <1>3 DEF Array, IsObject, IsArray
  <2>2. [i \in DOMAIN w.elems |-> Sanitize[w.elems[i]]] = <<Sanitize[v], Leaf>>
    BY <2>1
  <2>3. Sanitize[w] = Array(<<Sanitize[v], Leaf>>)
    BY <1>1, <2>1, <2>2 DEF Cleaned
  <2> QED
    BY <2>3 DEF Around
<1>4. ASSUME NEW key \in Keys, NEW beside \in {{}, {Neighbour}},
             w = Holding(key, beside, v)
      PROVE  \/ Sanitize[w] \in Around(Sanitize[v]) \cup Around(Leaf)
             \/ Sanitize[w] = Object(<<>>)
  <2> DEFINE f == [k \in {key} \cup beside |-> IF k = key THEN v ELSE Leaf]
             stay == {k \in {key} \cup beside : ~ShouldDrop(k)}
             left == [k \in stay |-> IF k = key THEN Sanitize[v] ELSE Leaf]
  <2>1. IsObject(w) /\ w.fields = f
    BY <1>4 DEF Holding, Object, IsObject
  <2>2. [k \in {k \in DOMAIN f : ~ShouldDrop(k)} |-> Sanitize[f[k]]] = left
    OBVIOUS
  <2>3. Sanitize[w] = Object(left)
    <3> HIDE DEF f, left, stay
    <3> QED
      BY <1>1, <2>1, <2>2 DEF Cleaned
  <2>4. \A u : \A at \in Keys, by \in {{}, {Neighbour}} :
          Holding(at, by, u) \in Around(u)
    BY DEF Around
  <2>5. CASE key \in stay
    <3> DEFINE by == beside \cap stay
    <3>1. by \in {{}, {Neighbour}} /\ stay = {key} \cup by
      BY <2>5
    <3>2. left = [k \in {key} \cup by |-> IF k = key THEN Sanitize[v] ELSE Leaf]
      BY <3>1
    <3> HIDE DEF by, left, stay
    <3> QED
      BY <2>3, <2>4, <3>1, <3>2 DEF Holding
  <2>6. CASE stay = {}
    <3>1. left = <<>>
      BY <2>6
    <3> HIDE DEF left
    <3> QED
      BY <2>3, <3>1
  <2>7. CASE key \notin stay /\ stay # {}
    <3>1. stay = {Neighbour} /\ key # Neighbour
      BY <2>7
    <3>2. left = [k \in {Neighbour} \cup {} |-> IF k = Neighbour THEN Leaf ELSE Leaf]
      BY <3>1
    <3> HIDE DEF left
    <3> QED
      BY <2>3, <2>4, <3>2, NeighbourIsKey DEF Holding
  <2> QED
    BY <2>5, <2>6, <2>7
<1> QED
  BY <1>2, <1>3, <1>4

(* All layers are of snapshots.                                               *)
LEMMA LayersAreSnapshots ==
  ASSUME NEW L, Layers(L), NEW d \in 0..Depth
  PROVE  L[d] \subseteq Snapshots
<1> USE DepthAssumption
<1> DEFINE T == {j \in Nat : j <= Depth => L[Depth - j] \subseteq L[Depth]}
<1>1. 0 \in T
  OBVIOUS
<1>2. ASSUME NEW j \in Nat, j \in T  PROVE j + 1 \in T
  <2> SUFFICES ASSUME j + 1 <= Depth  PROVE L[Depth - (j + 1)] \subseteq L[Depth]
    OBVIOUS
  <2>1. Depth - j \in 0..Depth /\ Depth - j # 0 /\ (Depth - j) - 1 = Depth - (j + 1)
    OBVIOUS
  <2>2. L[Depth - (j + 1)] \subseteq L[Depth - j]
    BY <2>1, LayerShapes
  <2> QED
    BY <1>2, <2>2
<1>3. Nat \subseteq T
  <2> HIDE DEF T
  <2> QED
    BY <1>1, <1>2, SetInduction
<1>4. Depth - d \in Nat /\ Depth - d <= Depth /\ Depth - (Depth - d) = d
  OBVIOUS
<1> QED
  BY <1>3, <1>4 DEF Layers

(* Induction on the depth of a snapshot.                                      *)
LEMMA SnapshotInduction ==
  ASSUME NEW P, Leaf \in P, Object(<<>>) \in P,
         \A v \in Snapshots \cap P : Snapshots \cap Around(v) \subseteq P
  PROVE  Snapshots \subseteq P
<1> USE DepthAssumption
<1>1. PICK L : Layers(L)
  BY SnapshotLayers
<1> DEFINE T == {d \in Nat : d <= Depth => L[d] \subseteq P}
<1>2. 0 \in T
  BY <1>1 DEF Layers
<1>3. ASSUME NEW d \in Nat, d \in T  PROVE d + 1 \in T
  <2> SUFFICES ASSUME d + 1 <= Depth  PROVE L[d + 1] \subseteq P
    OBVIOUS
  <2>1. d \in 0..Depth /\ d + 1 \in 0..Depth /\ d + 1 # 0 /\ (d + 1) - 1 = d
    OBVIOUS
  <2>2. L[d + 1] = L[d] \cup UNION {Around(v) : v \in L[d]}
    BY <1>1, <2>1 DEF Layers
  <2>3. L[d] \subseteq P
    BY <1>3
  <2>4. L[d] \subseteq Snapshots /\ L[d + 1] \subseteq Snapshots
    BY <1>1, <2>1, LayersAreSnapshots
  <2> QED
    BY <2>2, <2>3, <2>4
<1>4. Nat \subseteq T
  <2> HIDE DEF T
  <2> QED
    BY <1>2, <1>3, SetInduction
<1> QED
  BY <1>1, <1>4 DEF Layers

(* What is left of a snapshot is no deeper than it was.                       *)
LEMMA SanitizedIsSnapshot == \A v \in Snapshots : Sanitize[v] \in Snapshots
<1> USE DepthAssumption
<1>1. PICK L : Layers(L)
  BY SnapshotLayers
<1> DEFINE T == {d \in Nat : d <= Depth => \A v \in L[d] : Sanitize[v] \in L[d]}
<1>2. 0 \in T
  BY <1>1, SanitizedLeaf DEF Layers
<1>3. ASSUME NEW d \in Nat, d \in T  PROVE d + 1 \in T
  <2> SUFFICES ASSUME d + 1 <= Depth, NEW w \in L[d + 1]  PROVE Sanitize[w] \in L[d + 1]
    OBVIOUS
  <2>1. d \in 0..Depth /\ d + 1 \in 0..Depth /\ d + 1 # 0 /\ (d + 1) - 1 = d
    OBVIOUS
  <2>2. L[d + 1] = L[d] \cup UNION {Around(v) : v \in L[d]}
    BY <1>1, <2>1 DEF Layers
  <2>3. Leaf \in L[d] /\ Object(<<>>) \in L[d + 1]
    BY <1>1, <2>1, LayerShapes DEF Layers
  <2>4. w \in Snapshots
    BY <1>1, <2>1, LayersAreSnapshots
  <2>5. CASE w \in L[d]
    BY <1>3, <2>1, <2>2, <2>5
  <2>6. ASSUME NEW v \in L[d], w \in Around(v)  PROVE Sanitize[w] \in L[d + 1]
    <3>1. Sanitize[v] \in L[d]
      BY <1>3, <2>1
    <3>2. \/ Sanitize[w] \in Around(Sanitize[v]) \cup Around(Leaf)
          \/ Sanitize[w] = Object(<<>>)
      BY <2>4, <2>6, SanitizedAround, SanitizedLeaf
    <3> QED
      BY <2>2, <2>3, <3>1, <3>2
  <2> QED
    BY <2>2, <2>5, <2>6
<1>4. Nat \subseteq T
  <2> HIDE DEF T
  <2> QED
    BY <1>2, <1>3, SetInduction
<1> QED
  BY <1>1, <1>4 DEF Layers

(* A step of a place: into a field or into an element.                        *)
PlaceSteps == {"key", "at"} \X (Keys \cup {1, 2})

(* The places of a snapshot are itself and those through its parts.           *)
LEMMA PlaceMembers ==
  ASSUME NEW v \in Snapshots, NEW p
  PROVE  p \in Places[v] <=> p = <<>> \/ Through(Places, v, p)
BY PlacesByParts, InsideMembers

(* What holds nothing has one place.                                          *)
LEMMA FlatPlaces == Places[Leaf] = {<<>>} /\ Places[Object(<<>>)] = {<<>>}
<1>1. Leaf \in Snapshots /\ Object(<<>>) \in Snapshots
  BY SnapshotLayers, LayerShapes, DepthAssumption DEF Layers
<1>2. Inside(Places, Leaf) = {<<>>}
  BY FlatShapes DEF Inside
<1>3. Inside(Places, Object(<<>>)) = {<<>>}
  <2>1. DOMAIN <<>> = {}
    OBVIOUS
  <2> QED
    BY <2>1, FlatShapes DEF Inside
<1> QED
  BY <1>1, <1>2, <1>3, PlacesByParts

(* A place is a sequence of steps.                                            *)
LEMMA PlacesAreSequences == \A v \in Snapshots : Places[v] \subseteq Seq(PlaceSteps)
<1> DEFINE P == {v \in Snapshots : Places[v] \subseteq Seq(PlaceSteps)}
<1>1. Leaf \in Snapshots /\ Object(<<>>) \in Snapshots
  BY SnapshotLayers, LayerShapes, DepthAssumption DEF Layers
<1>2. Leaf \in P /\ Object(<<>>) \in P
  <2>1. <<>> \in Seq(PlaceSteps)
    OBVIOUS
  <2> QED
    BY <1>1, <2>1, FlatPlaces
<1>3. ASSUME NEW v \in Snapshots \cap P, NEW w \in Snapshots \cap Around(v)  PROVE w \in P
  <2> SUFFICES ASSUME NEW p \in Places[w]  PROVE p \in Seq(PlaceSteps)
    OBVIOUS
  <2>1. \A u \in {v, Leaf} : Places[u] \subseteq Seq(PlaceSteps)
    BY <1>2, <1>3
  <2>2. ASSUME NEW step \in PlaceSteps, NEW q \in Seq(PlaceSteps)  PROVE <<step>> \o q \in Seq(PlaceSteps)
    BY <2>2
  <2>3. CASE p = <<>>
    BY <2>3
  <2>4. ASSUME NEW step \in PlaceSteps, NEW u \in {v, Leaf}, NEW q \in Places[u], p = <<step>> \o q
        PROVE  p \in Seq(PlaceSteps)
    BY <2>1, <2>2, <2>4
  <2>5. CASE IsObject(w) /\ Through(Places, w, p)
    <3>1. \A k \in DOMAIN w.fields : <<"key", k>> \in PlaceSteps /\ w.fields[k] \in {v, Leaf}
      BY <2>5, AroundKeys, AroundShapes DEF PartsOf, PlaceSteps
    <3>2. PICK k \in DOMAIN w.fields : \E q \in Places[w.fields[k]] : p = << <<"key", k>> >> \o q
      BY <2>5 DEF Through
    <3> QED
      BY <2>4, <3>1, <3>2
  <2>6. CASE ~IsObject(w) /\ Through(Places, w, p)
    <3>1. IsArray(w) /\ \A i \in DOMAIN w.elems : <<"at", i>> \in PlaceSteps /\ w.elems[i] \in {v, Leaf}
      BY <2>6, AroundShapes DEF PlaceSteps
    <3>2. PICK i \in DOMAIN w.elems : \E q \in Places[w.elems[i]] : p = << <<"at", i>> >> \o q
      BY <2>6 DEF Through
    <3> QED
      BY <2>4, <3>1, <3>2
  <2> QED
    BY <2>3, <2>5, <2>6, PlaceMembers
<1>4. Snapshots \subseteq P
  <2> HIDE DEF P
  <2> QED
    BY <1>2, <1>3, SnapshotInduction
<1> QED
  BY <1>4

(* The key of a credential, in any of its spellings.                          *)
IsCredential(k) == \E name \in AuditDropFields : k \in Spellings(name)

(* A place leads through a credential at its first step or after it.          *)
LEMMA ThroughStep ==
  ASSUME NEW step \in PlaceSteps, NEW q \in Seq(PlaceSteps)
  PROVE  ThroughCredential(<<step>> \o q) <=>
           (step[1] = "key" /\ IsCredential(step[2])) \/ ThroughCredential(q)
<1> DEFINE p == <<step>> \o q
           Bad(s) == s[1] = "key" /\ IsCredential(s[2])
<1>1. Len(p) = Len(q) + 1 /\ p[1] = step /\ \A i \in DOMAIN q : i + 1 \in DOMAIN p /\ p[i + 1] = q[i]
  OBVIOUS
<1>2. \A i \in DOMAIN p : i = 1 \/ (i - 1 \in DOMAIN q /\ p[i] = q[i - 1])
  OBVIOUS
<1>3. 1 \in DOMAIN p
  OBVIOUS
<1> HIDE DEF p
<1>4. \A s : ThroughCredential(s) <=> \E i \in DOMAIN s : Bad(s[i])
  BY DEF ThroughCredential, IsCredential
<1> HIDE DEF Bad
<1>5. ThroughCredential(p) <=> Bad(step) \/ ThroughCredential(q)
  BY <1>1, <1>2, <1>3, <1>4
<1> QED
  BY <1>5 DEF p, Bad

(* What is written of a key after each of its signs.                          *)
WritesOut(key, f) ==
  /\ f[0] = <<>>
  /\ \A i \in 1..Len(key) : f[i] = Written(f[i - 1], key, i)

LEMMA UntrimmedBySteps ==
  ASSUME NEW key, Len(key) \in Nat
  PROVE  \E f : WritesOut(key, f) /\ Untrimmed(key) = f[Len(key)]
<1> DEFINE Out(g, i) == IF i = 0 THEN <<>> ELSE Written(g[i - 1], key, i)
           upTo[i \in 0..Len(key)] == Out(upTo, i)
           T == {n \in Nat : \E g : g = [i \in 0..n |-> Out(g, i)]}
<1>1. 0 \in T
  <2> DEFINE g == [i \in 0..0 |-> <<>>]
  <2>1. g = [i \in 0..0 |-> Out(g, i)]
    OBVIOUS
  <2> HIDE DEF Out, g
  <2> QED
    BY <2>1
<1>2. ASSUME NEW n \in Nat, n \in T  PROVE n + 1 \in T
  <2>1. PICK g : g = [i \in 0..n |-> Out(g, i)]
    BY <1>2
  <2> DEFINE h == [i \in 0..(n + 1) |-> IF i = n + 1 THEN Out(g, i) ELSE g[i]]
  <2>2. ASSUME NEW i \in 0..(n + 1)  PROVE h[i] = Out(h, i)
    <3>1. CASE i = 0
      BY <2>1, <3>1
    <3>2. CASE i # 0
      <4>1. i - 1 \in 0..n /\ i - 1 \in 0..(n + 1) /\ i - 1 # n + 1
        BY <3>2
      <4>2. h[i - 1] = g[i - 1]
        BY <4>1
      <4>3. h[i] = Out(g, i)
        <5>1. i # n + 1 => i \in 0..n
          OBVIOUS
        <5> HIDE DEF Out
        <5> QED
          BY <2>1, <5>1
      <4> QED
        BY <3>2, <4>2, <4>3
    <3> QED
      BY <3>1, <3>2
  <2>3. h = [i \in 0..(n + 1) |-> Out(h, i)]
    <3>1. h = [i \in 0..(n + 1) |-> h[i]]
      OBVIOUS
    <3> HIDE DEF Out, h
    <3> QED
      BY <2>2, <3>1
  <2> HIDE DEF Out, h
  <2> QED
    BY <2>3
<1>3. Len(key) \in T
  <2> HIDE DEF T
  <2> QED
    BY <1>1, <1>2, SetInduction
<1>4. upTo = [i \in 0..Len(key) |-> Out(upTo, i)]
  <2> HIDE DEF Out
  <2> QED
    BY <1>3
<1>5. Untrimmed(key) = upTo[Len(key)]
  BY Zenon DEF Untrimmed
<1> HIDE DEF upTo
<1>6. upTo[0] = <<>>
  BY <1>4
<1>7. ASSUME NEW i \in 1..Len(key)  PROVE upTo[i] = Written(upTo[i - 1], key, i)
  BY <1>4
<1> QED
  BY <1>5, <1>6, <1>7 DEF WritesOut

(* A word of n letters, in one of the three cases.                            *)
Letter   == {"x", "X"}
Cases(n) == {Lower(n), Upper(n), Capital(n)}

(* In a word a capital that is not the first has capitals on both sides.      *)
LEMMA WordShape ==
  ASSUME NEW n \in Nat \ {0}, NEW w \in Cases(n)
  PROVE  /\ w \in Seq(Letter) /\ Len(w) = n
         /\ \A i \in 2..n : w[i] = "X" => w[i - 1] = "X" /\ (i < n => w[i + 1] = "X")
<1>1. CASE w = Lower(n)
  BY <1>1 DEF Lower, Letters, Letter
<1>2. CASE w = Upper(n)
  BY <1>2 DEF Upper, Letters, Letter
<1>3. CASE w = Capital(n)
  <2> DEFINE rest == Lower(n - 1)
  <2>1. n - 1 \in Nat
    OBVIOUS
  <2>2. rest \in Seq(Letter) /\ Len(rest) = n - 1 /\ \A i \in 1..(n - 1) : rest[i] = "x"
    BY <2>1 DEF Lower, Letters, Letter
  <2>3. <<"X">> \in Seq(Letter) /\ Len(<<"X">>) = 1
    BY DEF Letter
  <2> HIDE DEF rest
  <2>4. w = <<"X">> \o rest
    BY <1>3 DEF Capital, rest
  <2>5. w \in Seq(Letter) /\ Len(w) = n
    BY <2>2, <2>3, <2>4
  <2>6. \A i \in 2..n : w[i] = "x"
    <3> TAKE i \in 2..n
    <3>1. i - 1 \in 1..(n - 1) /\ i > Len(<<"X">>)
      OBVIOUS
    <3>2. w[i] = rest[i - 1]
      BY <2>2, <2>3, <2>4, <3>1
    <3> QED
      BY <2>2, <3>1, <3>2
  <2> QED
    BY <2>5, <2>6
<1> QED
  BY <1>1, <1>2, <1>3 DEF Cases

(* Of the first letter ...                                                    *)
LEMMA FirstLetters ==
  ASSUME NEW n \in Nat \ {0}
  PROVE  /\ Lower(n) \in Seq(Letter) /\ Len(Lower(n)) = n /\ \A i \in 1..n : Lower(n)[i] = "x"
         /\ Upper(n)[1] = "X" /\ Capital(n)[1] = "X"
         /\ n > 1 => Capital(n)[2] = "x"
<1>1. /\ Lower(n) \in Seq(Letter) /\ Len(Lower(n)) = n /\ \A i \in 1..n : Lower(n)[i] = "x"
      /\ Upper(n)[1] = "X"
  BY DEF Lower, Upper, Letters, Letter
<1> DEFINE rest == Lower(n - 1)
<1>2. rest \in Seq(Letter) /\ Len(rest) = n - 1 /\ \A i \in 1..(n - 1) : rest[i] = "x"
  BY DEF Lower, Letters, Letter
<1>3. <<"X">> \in Seq(Letter) /\ Len(<<"X">>) = 1 /\ <<"X">>[1] = "X"
  BY DEF Letter
<1> HIDE DEF rest
<1>4. Capital(n) = <<"X">> \o rest
  BY DEF Capital, rest
<1>5. Capital(n)[1] = "X"
  BY <1>2, <1>3, <1>4
<1>6. n > 1 => Capital(n)[2] = "x"
  <2> SUFFICES ASSUME n > 1 PROVE Capital(n)[2] = "x"
    OBVIOUS
  <2>1. Capital(n)[2] = rest[1]
    BY <1>2, <1>3, <1>4
  <2> QED
    BY <1>2, <2>1
<1> QED
  BY <1>1, <1>5, <1>6

(* What stands where in words put together.                                   *)
LEMMA ConcatAt ==
  ASSUME NEW S, NEW a \in Seq(S), NEW b \in Seq(S)
  PROVE  /\ a \o b \in Seq(S) /\ Len(a \o b) = Len(a) + Len(b)
         /\ \A i \in 1..Len(a) : (a \o b)[i] = a[i]
         /\ \A i \in 1..Len(b) : (a \o b)[Len(a) + i] = b[i]
<1>1. \A i \in 1..Len(b) : Len(a) + i \in 1..(Len(a) + Len(b)) /\ Len(a) + i > Len(a)
  OBVIOUS
<1> QED
  BY <1>1

(* A stretch of a key of letters before which no word begins.                 *)
Plain(key, a, m) == \A i \in (a + 1)..(a + m) : key[i] \in Letter /\ ~BreaksBefore(key, i)

Sign == Letter \cup {"under", "dash", "space"}

LEMMA OneWordPlain ==
  ASSUME NEW m \in Nat \ {0}, NEW key \in Cases(m)
  PROVE  Plain(key, 0, m) /\ key \in Seq(Sign) /\ Len(key) = m
<1>1. /\ key \in Seq(Letter) /\ Len(key) = m
      /\ \A i \in 2..m : key[i] = "X" => key[i - 1] = "X" /\ (i < m => key[i + 1] = "X")
  BY WordShape
<1>2. Plain(key, 0, m)
  BY <1>1 DEF Plain, BreaksBefore, Letter
<1> QED
  BY <1>1, <1>2 DEF Sign

(* Behind whatever stands before it the rest of a word is plain.              *)
LEMMA WordAfter ==
  ASSUME NEW a \in Nat, NEW n \in Nat \ {0}, NEW u \in Cases(n), NEW key,
         Len(key) = a + n, \A i \in 1..n : key[a + i] = u[i]
  PROVE  key[a + 1] \in Letter /\ Plain(key, a + 1, n - 1)
<1>1. /\ \A i \in 1..n : u[i] \in Letter
      /\ \A i \in 2..n : u[i] = "X" => u[i - 1] = "X" /\ (i < n => u[i + 1] = "X")
  <2>1. u \in Seq(Letter) /\ Len(u) = n
    BY WordShape
  <2> QED
    BY <2>1, WordShape
<1>2. ASSUME NEW j \in (a + 2)..(a + n)
      PROVE  key[j] \in Letter /\ ~BreaksBefore(key, j)
  <2> DEFINE i == j - a
  <2>1. /\ i \in 2..n /\ i \in 1..n /\ i - 1 \in 1..n /\ (i < n => i + 1 \in 1..n)
        /\ j = a + i /\ j - 1 = a + (i - 1) /\ j + 1 = a + (i + 1)
    OBVIOUS
  <2> HIDE DEF i
  <2>2. key[j] = u[i] /\ key[j - 1] = u[i - 1] /\ (i < n => key[j + 1] = u[i + 1])
    BY <2>1
  <2>3. u[i] = "X" => u[i - 1] = "X" /\ (i < n => u[i + 1] = "X")
    BY <1>1, <2>1
  <2>4. j < Len(key) => i < n
    BY <2>1
  <2>5. key[j] \in Letter
    BY <1>1, <2>1, <2>2
  <2> QED
    BY <2>2, <2>3, <2>4, <2>5 DEF BreaksBefore
<1>3. key[a + 1] \in Letter
  <2>1. 1 \in 1..n
    OBVIOUS
  <2> QED
    BY <1>1, <2>1
<1>4. (a + 1) + 1 = a + 2 /\ (a + 1) + (n - 1) = a + n
  OBVIOUS
<1> QED
  BY <1>2, <1>3, <1>4 DEF Plain

Separator == {"under", "dash", "space"}
Apart(key, m, n) ==
  \E w \in Cases(m), sep \in Separator, u \in Cases(n) : key = w \o <<sep>> \o u
Together(m, n) == {w \o Capital(n) : w \in Cases(m)} \cup {Lower(m) \o Upper(n)}

LEMMA SeparatedPlain ==
  ASSUME NEW m \in Nat \ {0}, NEW n \in Nat \ {0}, NEW key, Apart(key, m, n)
  PROVE  /\ Len(key) = (m + 1) + n
         /\ Plain(key, 0, m) /\ key[m + 1] \in Separator /\ Plain(key, m + 1, n)
<1>0. PICK w \in Cases(m), sep \in Separator, u \in Cases(n) : key = w \o <<sep>> \o u
  BY DEF Apart
<1>1. /\ w \in Seq(Letter) /\ Len(w) = m
      /\ \A i \in 2..m : w[i] = "X" => w[i - 1] = "X" /\ (i < m => w[i + 1] = "X")
  BY WordShape
<1>2. u \in Seq(Letter) /\ Len(u) = n
  BY WordShape
<1>3. w \in Seq(Sign) /\ u \in Seq(Sign) /\ <<sep>> \in Seq(Sign) /\ Len(<<sep>>) = 1
  BY <1>1, <1>2 DEF Sign, Separator
<1> DEFINE front == w \o <<sep>>
<1>4. /\ front \in Seq(Sign) /\ Len(front) = m + 1
      /\ \A i \in 1..m : front[i] = w[i]
      /\ front[m + 1] = sep
  <2>1. 1 \in 1..Len(<<sep>>) /\ <<sep>>[1] = sep
    OBVIOUS
  <2> QED
    BY <1>1, <1>3, <2>1, ConcatAt
<1> HIDE DEF front
<1>5. key = front \o u
  BY <1>0 DEF front
<1>6. /\ Len(key) = (m + 1) + n
      /\ \A i \in 1..(m + 1) : key[i] = front[i]
      /\ \A i \in 1..n : key[(m + 1) + i] = u[i]
  <2>1. front \in Seq(Sign) /\ u \in Seq(Sign)
    BY <1>3, <1>4
  <2>2. /\ Len(front \o u) = Len(front) + Len(u)
        /\ \A i \in 1..Len(front) : (front \o u)[i] = front[i]
        /\ \A i \in 1..Len(u) : (front \o u)[Len(front) + i] = u[i]
    BY <2>1, ConcatAt
  <2> QED
    BY <1>2, <1>4, <1>5, <2>2
<1>7. \A i \in 1..m : key[i] = w[i]
  BY <1>4, <1>6
<1>8. key[m + 1] = sep
  BY <1>4, <1>6
<1>9. Plain(key, 0, m)
  BY <1>1, <1>6, <1>7, <1>8 DEF Plain, BreaksBefore, Letter, Separator
<1>10. Plain(key, m + 1, n)
  <2> DEFINE b == m + 1
  <2>1. b \in Nat /\ Len(key) = b + n /\ \A i \in 1..n : key[b + i] = u[i]
    BY <1>6
  <2>2. m + 2 = b + 1 /\ key[(b + 1) - 1] = sep
    <3>1. m + 2 = b + 1 /\ (b + 1) - 1 = m + 1
      OBVIOUS
    <3> QED
      BY <1>8, <3>1
  <2> HIDE DEF b
  <2>3. key[b + 1] \in Letter /\ Plain(key, b + 1, n - 1)
    BY <2>1, WordAfter
  <2>4. ~BreaksBefore(key, b + 1)
    BY <2>2 DEF BreaksBefore, Separator
  <2>5. \A i \in (b + 1)..(b + n) :
          i = b + 1 \/ i \in ((b + 1) + 1)..((b + 1) + (n - 1))
    BY <2>1
  <2>6. Plain(key, b, n)
    BY <2>3, <2>4, <2>5 DEF Plain
  <2> QED
    BY <2>2, <2>6 DEF b
<1> QED
  BY <1>6, <1>8, <1>9, <1>10

(* Of words run together the second begins with a capital that is set off.    *)
LEMMA TogetherPlain ==
  ASSUME NEW m \in Nat \ {0}, NEW n \in Nat \ {0, 1}, NEW key \in Together(m, n)
  PROVE  /\ Len(key) = m + n
         /\ Plain(key, 0, m) /\ Plain(key, m + 1, n - 1)
         /\ key[m + 1] = "X" /\ BreaksBefore(key, m + 1)
<1>0. PICK w \in Cases(m), u \in Cases(n) :
        /\ key = w \o u
        /\ u = Capital(n) \/ (u = Upper(n) /\ w = Lower(m))
  BY DEF Together, Cases
<1>1. /\ w \in Seq(Letter) /\ Len(w) = m
      /\ \A i \in 2..m : w[i] = "X" => w[i - 1] = "X" /\ (i < m => w[i + 1] = "X")
  BY WordShape
<1>2. u \in Seq(Letter) /\ Len(u) = n
  BY WordShape
<1>3. /\ Len(key) = m + n
      /\ \A i \in 1..m : key[i] = w[i]
      /\ \A i \in 1..n : key[m + i] = u[i]
  <2>1. w \in Seq(Letter) /\ u \in Seq(Letter)
    BY <1>1, <1>2
  <2>2. /\ Len(w \o u) = Len(w) + Len(u)
        /\ \A i \in 1..Len(w) : (w \o u)[i] = w[i]
        /\ \A i \in 1..Len(u) : (w \o u)[Len(w) + i] = u[i]
    BY <2>1, ConcatAt
  <2> QED
    BY <1>0, <1>1, <1>2, <2>2
<1>4. key[m + 1] = "X" /\ u[1] = "X"
  <2>1. u[1] = "X"
    BY <1>0, FirstLetters
  <2>2. 1 \in 1..n
    OBVIOUS
  <2> QED
    BY <1>3, <2>1, <2>2
<1>5. BreaksBefore(key, m + 1)
  <2>1. (m + 1) - 1 = m /\ key[m] = w[m] /\ w[m] \in Letter
    BY <1>1, <1>3
  <2>2. CASE u = Capital(n)
    <3>1. u[2] = "x" /\ 2 \in 1..n
      BY <2>2, FirstLetters
    <3>2. (m + 1) + 1 = m + 2 /\ key[m + 2] = "x" /\ m + 1 < Len(key)
      BY <1>3, <3>1
    <3> QED
      BY <1>4, <2>1, <3>2 DEF BreaksBefore, Letter
  <2>3. CASE w = Lower(m)
    <3>1. w[m] = "x"
      BY <2>3, FirstLetters
    <3>2. m + 1 > 1
      OBVIOUS
    <3>3. key[(m + 1) - 1] = "x"
      BY Zenon, <2>1, <3>1
    <3> QED
      BY <1>4, <3>2, <3>3 DEF BreaksBefore
  <2> QED
    BY <1>0, <2>2, <2>3
<1>6. Plain(key, 0, m)
  BY <1>1, <1>3, <1>4 DEF Plain, BreaksBefore, Letter
<1>7. Plain(key, m + 1, n - 1)
  BY <1>3, WordAfter
<1> QED
  BY <1>3, <1>4, <1>5, <1>6, <1>7

(* What is written of a key consists of small letters and underscores.        *)
Clean == {"x", "under"}

LEMMA CleanConcat ==
  \A s, t \in Seq(Clean) :
    /\ s \o t \in Seq(Clean) /\ Len(s \o t) = Len(s) + Len(t)
    /\ \A i \in 1..(Len(s) + Len(t)) :
         (s \o t)[i] = IF i <= Len(s) THEN s[i] ELSE t[i - Len(s)]
BY ConcatProperties

LEMMA CleanAssociative ==
  \A s, t, u \in Seq(Clean) : (s \o t) \o u = s \o (t \o u)
BY ConcatAssociative

LEMMA CleanSigns ==
  /\ <<"x">> \in Seq(Clean) /\ Len(<<"x">>) = 1
  /\ <<"under">> \in Seq(Clean) /\ Len(<<"under">>) = 1
  /\ <<"under">> \o <<"x">> = <<"under", "x">>
<1>1. /\ <<"x">> \in Seq(Clean) /\ Len(<<"x">>) = 1
      /\ <<"under">> \in Seq(Clean) /\ Len(<<"under">>) = 1
  BY DEF Clean
<1>2. <<"under">> \o <<"x">> = <<"under", "x">>
  <2> DEFINE u == <<"under">>
             x == <<"x">>
             v == <<"under", "x">>
  <2>1. /\ u[1] = "under" /\ x[1] = "x"
        /\ v \in Seq(Clean) /\ Len(v) = 2 /\ v[1] = "under" /\ v[2] = "x"
    BY DEF Clean
  <2> HIDE DEF u, x, v
  <2>2. u \in Seq(Clean) /\ x \in Seq(Clean) /\ Len(u) = 1 /\ Len(x) = 1
    BY <1>1 DEF u, x
  <2>3. /\ u \o x \in Seq(Clean) /\ Len(u \o x) = Len(u) + Len(x)
        /\ \A i \in 1..(Len(u) + Len(x)) :
             (u \o x)[i] = IF i <= Len(u) THEN u[i] ELSE x[i - Len(u)]
    BY <2>2, CleanConcat
  <2>4. \A i \in 1..2 : (u \o x)[i] = v[i]
    BY <2>1, <2>2, <2>3
  <2>5. u \o x = v
    BY <2>1, <2>2, <2>3, <2>4, SeqEqual
  <2> QED
    BY <2>5 DEF u, x, v
<1> QED
  BY <1>1, <1>2

LEMMA OneLetterMore ==
  ASSUME NEW j \in Nat
  PROVE  /\ Lower(j) \in Seq(Clean) /\ Len(Lower(j)) = j
         /\ Lower(j) \o <<"x">> = Lower(j + 1) /\ <<"x">> \o Lower(j) = Lower(j + 1)
<1> DEFINE a == Lower(j)
           b == Lower(j + 1)
           x == <<"x">>
<1>1. /\ a \in Seq(Clean) /\ Len(a) = j /\ \A i \in 1..j : a[i] = "x"
      /\ b \in Seq(Clean) /\ Len(b) = j + 1 /\ \A i \in 1..(j + 1) : b[i] = "x"
  BY DEF Lower, Letters, Clean
<1>2. x \in Seq(Clean) /\ Len(x) = 1 /\ x[1] = "x"
  BY DEF Clean
<1> HIDE DEF a, b, x
<1>3. /\ a \o x \in Seq(Clean) /\ Len(a \o x) = j + 1 /\ \A i \in 1..(j + 1) : (a \o x)[i] = "x"
      /\ x \o a \in Seq(Clean) /\ Len(x \o a) = j + 1 /\ \A i \in 1..(j + 1) : (x \o a)[i] = "x"
  <2>1. /\ \A i \in 1..(j + 1) : (i <= j => i \in 1..j) /\ (i > j => i - j = 1)
        /\ \A i \in 1..(j + 1) : (i <= 1 => i = 1) /\ (i > 1 => i - 1 \in 1..j)
    OBVIOUS
  <2>2. a \in Seq(Clean) /\ x \in Seq(Clean)
    BY <1>1, <1>2
  <2>3. /\ a \o x \in Seq(Clean) /\ Len(a \o x) = Len(a) + Len(x)
        /\ \A i \in 1..(Len(a) + Len(x)) :
             (a \o x)[i] = IF i <= Len(a) THEN a[i] ELSE x[i - Len(a)]
    BY <2>2, CleanConcat
  <2>4. /\ x \o a \in Seq(Clean) /\ Len(x \o a) = Len(x) + Len(a)
        /\ \A i \in 1..(Len(x) + Len(a)) :
             (x \o a)[i] = IF i <= Len(x) THEN x[i] ELSE a[i - Len(x)]
    BY <2>2, CleanConcat
  <2>5. \A i \in 1..(j + 1) : (a \o x)[i] = "x"
    BY <1>1, <1>2, <2>1, <2>3
  <2>6. \A i \in 1..(j + 1) : (x \o a)[i] = "x"
    BY <1>1, <1>2, <2>1, <2>4
  <2> QED
    BY <1>1, <1>2, <2>3, <2>4, <2>5, <2>6
<1>4. a \o x = b
  BY <1>1, <1>3, SeqEqual
<1>5. x \o a = b
  BY <1>1, <1>3, SeqEqual
<1> QED
  BY <1>1, <1>4, <1>5 DEF a, b, x

LEMMA LowerGrows ==
  ASSUME NEW out \in Seq(Clean), NEW j \in Nat
  PROVE  /\ out \o Lower(j) \in Seq(Clean) /\ Len(out \o Lower(j)) = Len(out) + j
         /\ (out \o Lower(j)) \o <<"x">> = out \o Lower(j + 1)
<1> DEFINE a == Lower(j)
           x == <<"x">>
<1>1. a \in Seq(Clean) /\ Len(a) = j /\ a \o x = Lower(j + 1)
  BY OneLetterMore
<1>2. x \in Seq(Clean)
  BY CleanSigns
<1> HIDE DEF a, x
<1>3. (out \o a) \o x = out \o (a \o x)
  BY <1>1, <1>2, CleanAssociative
<1>4. out \o a \in Seq(Clean) /\ Len(out \o a) = Len(out) + j
  BY <1>1, CleanConcat
<1> QED
  BY <1>1, <1>3, <1>4 DEF a, x

LEMMA LowerOfNone ==
  ASSUME NEW out \in Seq(Clean)
  PROVE  out \o Lower(0) = out
<1>1. Lower(0) = <<>>
  BY DEF Lower, Letters
<1> QED
  BY <1>1

(* A word that begins with an underscore set off, letter by letter or at once.*)
LEMMA SetOffGrows ==
  ASSUME NEW out \in Seq(Clean), NEW n \in Nat \ {0}
  PROVE  (out \o <<"under", "x">>) \o Lower(n - 1) = (out \o <<"under">>) \o Lower(n)
<1> DEFINE a == Lower(n - 1)
           u == <<"under">>
           x == <<"x">>
<1>1. n - 1 \in Nat /\ (n - 1) + 1 = n
  OBVIOUS
<1>2. a \in Seq(Clean) /\ x \o a = Lower(n)
  BY <1>1, OneLetterMore
<1>3. u \in Seq(Clean) /\ x \in Seq(Clean) /\ u \o x = <<"under", "x">>
  BY CleanSigns
<1> HIDE DEF a, u, x
<1>4. out \o (u \o x) = (out \o u) \o x /\ out \o u \in Seq(Clean)
  BY <1>3, CleanAssociative, CleanConcat
<1>5. ((out \o u) \o x) \o a = (out \o u) \o (x \o a)
  BY <1>2, <1>3, <1>4, CleanAssociative
<1> QED
  BY <1>2, <1>3, <1>4, <1>5 DEF a, u

(* A plain stretch is written as one word.                                    *)
LEMMA WordWritten ==
  ASSUME NEW key, Len(key) \in Nat, NEW f, WritesOut(key, f), NEW a \in Nat, NEW m \in Nat,
         a + m <= Len(key), f[a] \in Seq(Clean), Plain(key, a, m)
  PROVE  f[a + m] = f[a] \o Lower(m)
<1> DEFINE T == {j \in Nat : j <= m => f[a + j] = f[a] \o Lower(j)}
<1>1. 0 \in T
  <2>1. f[a] \o Lower(0) = f[a] /\ a + 0 = a
    BY LowerOfNone
  <2> QED
    BY <2>1
<1>2. ASSUME NEW j \in Nat, j \in T  PROVE j + 1 \in T
  <2> SUFFICES ASSUME j + 1 <= m  PROVE f[a + (j + 1)] = f[a] \o Lower(j + 1)
    <3>1. j + 1 \in Nat
      OBVIOUS
    <3> QED
      BY Zenon, <3>1
  <2> DEFINE i == a + (j + 1)
  <2>1. i \in 1..Len(key) /\ i \in (a + 1)..(a + m) /\ i - 1 = a + j /\ j <= m
    OBVIOUS
  <2>2. f[a + j] = f[a] \o Lower(j)
    BY <1>2, <2>1
  <2> HIDE DEF i, T
  <2>3. f[i] = Written(f[a + j], key, i)
    BY <2>1 DEF WritesOut
  <2>4. key[i] \in Letter /\ ~BreaksBefore(key, i)
    BY <2>1 DEF Plain
  <2>5. f[i] = f[a + j] \o <<"x">>
    BY <2>3, <2>4 DEF Written, Letter
  <2>6. (f[a] \o Lower(j)) \o <<"x">> = f[a] \o Lower(j + 1)
    BY LowerGrows
  <2> QED
    BY Zenon, <2>2, <2>5, <2>6 DEF i
<1>3. m \in T
  <2> HIDE DEF T
  <2> QED
    BY <1>1, <1>2, SetInduction
<1> QED
  BY <1>3

LEMMA FirstWordWritten ==
  ASSUME NEW key, Len(key) \in Nat, NEW f, WritesOut(key, f), NEW m \in Nat, m <= Len(key),
         Plain(key, 0, m)
  PROVE  f[m] = Lower(m)
<1>1. f[0] = <<>> /\ <<>> \in Seq(Clean)
  BY DEF WritesOut
<1>2. 0 \in Nat /\ 0 + m = m /\ 0 + 1 = 1
  OBVIOUS
<1>3. f[0 + m] = f[0] \o Lower(m)
  <2>1. 0 + m <= Len(key) /\ Plain(key, 0, m) /\ f[0] \in Seq(Clean)
    BY <1>1, <1>2
  <2> QED
    BY <1>2, <2>1, WordWritten
<1>4. <<>> \o Lower(m) = Lower(m)
  BY OneLetterMore
<1> QED
  BY <1>1, <1>2, <1>3, <1>4

LEMMA OneWordRecognised ==
  ASSUME NEW m \in Nat \ {0}, NEW key \in Cases(m)
  PROVE  Untrimmed(key) = Lower(m)
<1>1. Plain(key, 0, m) /\ Len(key) = m
  BY OneWordPlain
<1>2. PICK f : WritesOut(key, f) /\ Untrimmed(key) = f[Len(key)]
  BY <1>1, UntrimmedBySteps
<1>3. f[m] = Lower(m)
  <2>1. WritesOut(key, f) /\ Len(key) \in Nat /\ m \in Nat /\ m <= Len(key)
    BY <1>1, <1>2
  <2> QED
    BY <1>1, <2>1, FirstWordWritten
<1> QED
  BY Zenon, <1>1, <1>2, <1>3

(* The second of two words is written behind what the first left.             *)
LEMMA SecondWordWritten ==
  ASSUME NEW key, NEW f, WritesOut(key, f), NEW a \in Nat, NEW n \in Nat, Len(key) = a + n,
         f[a] \in Seq(Clean), Plain(key, a, n), Untrimmed(key) = f[Len(key)]
  PROVE  Untrimmed(key) = f[a] \o Lower(n)
<1>1. Len(key) \in Nat /\ a + n <= Len(key)
  OBVIOUS
<1>2. f[a + n] = f[a] \o Lower(n)
  BY <1>1, WordWritten
<1> QED
  BY Zenon, <1>2

LEMMA SeparatedRecognised ==
  ASSUME NEW m \in Nat \ {0}, NEW n \in Nat \ {0}, NEW key, Apart(key, m, n)
  PROVE  Untrimmed(key) = (Lower(m) \o <<"under">>) \o Lower(n)
<1> DEFINE a == m + 1
           first == Lower(m)
           u1 == <<"under">>
<1>1. /\ Len(key) = a + n /\ Plain(key, 0, m) /\ key[a] \in Separator
      /\ Plain(key, a, n)
  <2>1. /\ Len(key) = (m + 1) + n /\ Plain(key, 0, m) /\ key[m + 1] \in Separator
        /\ Plain(key, m + 1, n)
    BY SeparatedPlain
  <2> QED
    BY Zenon, <2>1
<1>2. a \in Nat /\ a - 1 = m /\ m + 2 = a + 1 /\ a \in 1..(a + n) /\ a + n \in Nat
  OBVIOUS
<1>3. /\ first \in Seq(Clean) /\ Len(first) = m /\ first[m] = "x"
      /\ u1 \in Seq(Clean)
  <2>1. first \in Seq(Clean) /\ Len(first) = m
    BY OneLetterMore
  <2>2. first[m] = "x"
    BY FirstLetters
  <2> QED
    BY <2>1, <2>2, CleanSigns
<1> HIDE DEF a, first, u1
<1>4. PICK f : WritesOut(key, f) /\ Untrimmed(key) = f[Len(key)]
  BY <1>1, <1>2, UntrimmedBySteps
<1>5. f[m] = first
  <2>1. m <= Len(key) /\ Len(key) \in Nat
    BY <1>1, <1>2
  <2> QED
    BY <1>1, <1>4, <2>1, FirstWordWritten DEF first
<1>6. f[a] = first \o u1
  <2>1. f[a] = Written(first, key, a)
    BY <1>1, <1>2, <1>4, <1>5 DEF WritesOut
  <2>2. first # <<>> /\ Last(first) # "under"
    BY <1>3 DEF Last
  <2> QED
    BY <1>1, <2>1, <2>2 DEF Written, u1, Separator
<1>7. f[a] \in Seq(Clean)
  BY <1>3, <1>6, CleanConcat
<1>8. Untrimmed(key) = f[a] \o Lower(n)
  <2>1. /\ a \in Nat /\ n \in Nat /\ Len(key) = a + n /\ Plain(key, a, n)
        /\ WritesOut(key, f) /\ Untrimmed(key) = f[Len(key)]
    BY <1>1, <1>2, <1>4
  <2> QED
    BY <1>7, <2>1, SecondWordWritten
<1> QED
  BY Zenon, <1>6, <1>8 DEF first, u1

LEMMA TogetherRecognised ==
  ASSUME NEW m \in Nat \ {0}, NEW n \in Nat \ {0, 1}, NEW key \in Together(m, n)
  PROVE  Untrimmed(key) = (Lower(m) \o <<"under">>) \o Lower(n)
<1> DEFINE a == m + 1
           b == n - 1
           first == Lower(m)
           v == <<"under", "x">>
<1>1. /\ Len(key) = m + n /\ Plain(key, 0, m) /\ Plain(key, m + 1, n - 1)
      /\ key[a] = "X" /\ BreaksBefore(key, a)
  <2>1. /\ Len(key) = m + n /\ Plain(key, 0, m) /\ Plain(key, m + 1, n - 1)
        /\ key[m + 1] = "X" /\ BreaksBefore(key, m + 1)
    BY TogetherPlain
  <2> QED
    BY Zenon, <2>1
<1>2. /\ a \in Nat /\ a - 1 = m /\ m + 2 = a + 1 /\ a \in 1..(m + n) /\ m + n \in Nat
      /\ b \in Nat /\ m + n = a + b
  OBVIOUS
<1>3. first \in Seq(Clean) /\ v \in Seq(Clean)
  BY OneLetterMore, CleanSigns, CleanConcat
<1> HIDE DEF a, b, first, v
<1>4. PICK f : WritesOut(key, f) /\ Untrimmed(key) = f[Len(key)]
  BY <1>1, <1>2, UntrimmedBySteps
<1>5. f[m] = first
  <2>1. m <= Len(key) /\ Len(key) \in Nat
    BY <1>1, <1>2
  <2> QED
    BY <1>1, <1>4, <2>1, FirstWordWritten DEF first
<1>6. f[a] = first \o v
  <2>1. f[a] = Written(first, key, a)
    BY <1>1, <1>2, <1>4, <1>5 DEF WritesOut
  <2> QED
    BY <1>1, <2>1 DEF Written, v
<1>7. f[a] \in Seq(Clean)
  BY <1>3, <1>6, CleanConcat
<1>8. Untrimmed(key) = f[a] \o Lower(b)
  <2>1. a \in Nat /\ b \in Nat /\ Len(key) \in Nat /\ a + b <= Len(key) /\ Plain(key, a, b)
    BY <1>1, <1>2
  <2>2. f[a + b] = f[a] \o Lower(b)
    BY <1>4, <1>7, <2>1, WordWritten
  <2>3. Len(key) = a + b
    BY <1>1, <1>2
  <2> QED
    BY Zenon, <1>4, <2>2, <2>3
<1>9. (first \o <<"under", "x">>) \o Lower(n - 1) = (first \o <<"under">>) \o Lower(n)
  BY <1>3, SetOffGrows
<1> QED
  BY Zenon, <1>6, <1>8, <1>9 DEF first, b, v

(* Names, and what normalizeAuditField makes of them.                         *)
Names == AuditDropFields \cup OtherFields

LEMMA NameShapes ==
  ASSUME NEW name \in Names
  PROVE  /\ name \in Seq(Nat \ {0, 1})
         /\ \/ Len(name) = 1 /\ name[1] \in Nat \ {0, 1} /\ Snake(name) = Lower(name[1])
            \/ /\ Len(name) = 2 /\ name[1] \in Nat \ {0, 1} /\ name[2] \in Nat \ {0, 1}
               /\ Snake(name) = (Lower(name[1]) \o <<"under">>) \o Lower(name[2])
<1>1. name \in Seq(Nat \ {0, 1}) /\ Len(name) \in 1..2
  BY FieldsAssumption DEF Names
<1>2. DOMAIN name = 1..Len(name) /\ \A i \in 1..Len(name) : name[i] \in Nat \ {0, 1}
  BY <1>1
<1>3. DOMAIN Small(name) = DOMAIN name /\ \A i \in DOMAIN name : Small(name)[i] = Lower(name[i])
  BY DEF Small
<1>4. Len(Small(name)) = Len(name)
  BY <1>1, <1>2, <1>3 DEF Small
<1>5. CASE Len(name) = 1
  <2>1. Snake(name) = Lower(name[1])
    BY <1>2, <1>3, <1>4, <1>5 DEF Snake, Joined
  <2> QED
    BY <1>1, <1>2, <1>5, <2>1
<1>6. CASE Len(name) = 2
  <2>1. Snake(name) = (Lower(name[1]) \o <<"under">>) \o Lower(name[2])
    BY <1>2, <1>3, <1>4, <1>6 DEF Snake, Joined
  <2> QED
    BY <1>1, <1>2, <1>6, <2>1
<1> QED
  BY <1>1, <1>5, <1>6

(* In snake_case small letters stand everywhere but between the words.        *)
LEMMA SnakeOfTwo ==
  ASSUME NEW m \in Nat \ {0}, NEW n \in Nat \ {0}
  PROVE  LET s == (Lower(m) \o <<"under">>) \o Lower(n)
         IN  /\ s \in Seq(Clean) /\ Len(s) = m + 1 + n /\ s[m + 1] = "under"
             /\ \A i \in 1..(m + 1 + n) : i # m + 1 => s[i] = "x"
<1> DEFINE a == Lower(m)
           b == Lower(n)
           u == <<"under">>
           c == a \o u
           s == c \o b
<1>1. /\ a \in Seq(Clean) /\ Len(a) = m /\ b \in Seq(Clean) /\ Len(b) = n
      /\ u \in Seq(Clean) /\ Len(u) = 1 /\ u[1] = "under"
  BY OneLetterMore, CleanSigns
<1>2. (\A i \in 1..m : a[i] = "x") /\ (\A i \in 1..n : b[i] = "x")
  BY FirstLetters
<1> HIDE DEF a, b, u
<1>3. /\ c \in Seq(Clean) /\ Len(c) = m + 1 /\ c[m + 1] = "under"
      /\ \A i \in 1..m : c[i] = "x"
  <2>1. /\ a \o u \in Seq(Clean) /\ Len(a \o u) = Len(a) + Len(u)
        /\ \A i \in 1..(Len(a) + Len(u)) :
             (a \o u)[i] = IF i <= Len(a) THEN a[i] ELSE u[i - Len(a)]
    BY <1>1, CleanConcat
  <2> QED
    BY <1>1, <1>2, <2>1
<1> HIDE DEF c
<1>4. /\ s \in Seq(Clean) /\ Len(s) = m + 1 + n
      /\ \A i \in 1..(m + 1) : s[i] = c[i]
      /\ \A i \in (m + 2)..(m + 1 + n) : s[i] = b[i - (m + 1)]
  <2>1. /\ c \o b \in Seq(Clean) /\ Len(c \o b) = Len(c) + Len(b)
        /\ \A i \in 1..(Len(c) + Len(b)) :
             (c \o b)[i] = IF i <= Len(c) THEN c[i] ELSE b[i - Len(c)]
    BY <1>1, <1>3, CleanConcat
  <2> QED
    BY <1>1, <1>3, <2>1
<1> HIDE DEF s
<1>5. ASSUME NEW i \in 1..(m + 1 + n), i # m + 1  PROVE s[i] = "x"
  <2>1. CASE i \in 1..m
    BY <1>3, <1>4, <2>1
  <2>2. CASE i \in (m + 2)..(m + 1 + n)
    BY <1>2, <1>4, <2>2
  <2> QED
    BY <1>5, <2>1, <2>2
<1>6. s[m + 1] = "under"
  BY <1>3, <1>4
<1> QED
  BY <1>4, <1>5, <1>6 DEF a, b, c, s, u

(* Nothing is trimmed of what begins and ends with a letter.                  *)
LEMMA NothingTrimmed ==
  ASSUME NEW key, NEW out \in Seq(Clean), Untrimmed(key) = out, Len(out) > 0,
         out[1] # "under", out[Len(out)] # "under"
  PROVE  NormalizeAuditField(key) = out
<1> DEFINE rest == {i \in DOMAIN out : out[i] # "under"}
<1>1. DOMAIN out = 1..Len(out) /\ Len(out) \in Nat
  OBVIOUS
<1>2. 1 \in rest /\ Len(out) \in rest
  BY <1>1
<1>3. rest \subseteq 1..Len(out)
  BY <1>1
<1> HIDE DEF rest
<1>4. (CHOOSE i \in rest : \A j \in rest : i <= j) = 1
  <2> DEFINE c == CHOOSE i \in rest : \A j \in rest : i <= j
  <2>1. 1 \in rest /\ \A j \in rest : 1 <= j
    BY <1>2, <1>3
  <2>2. c \in rest /\ \A j \in rest : c <= j
    BY Zenon, <2>1
  <2> HIDE DEF c
  <2>3. c = 1
    BY <1>3, <2>1, <2>2
  <2> QED
    BY <2>3 DEF c
<1>5. (CHOOSE i \in rest : \A j \in rest : i >= j) = Len(out)
  <2> DEFINE c == CHOOSE i \in rest : \A j \in rest : i >= j
  <2>1. Len(out) \in rest /\ \A j \in rest : Len(out) >= j
    BY <1>1, <1>2, <1>3
  <2>2. c \in rest /\ \A j \in rest : c >= j
    BY Zenon, <2>1
  <2> HIDE DEF c
  <2>3. c \in 1..Len(out) /\ c >= Len(out)
    BY <1>2, <1>3, <2>2
  <2>4. \A k \in Nat : \A i \in 1..k : i >= k => i = k
    OBVIOUS
  <2>5. c = Len(out)
    BY Zenon, <1>1, <2>3, <2>4
  <2> QED
    BY <2>5 DEF c
<1>6. SubSeq(out, 1, Len(out)) = out
  BY SubSeqFull
<1>7. NormalizeAuditField(key)
        = IF rest = {} THEN <<>>
          ELSE SubSeq(out, CHOOSE i \in rest : \A j \in rest : i <= j,
                           CHOOSE i \in rest : \A j \in rest : i >= j)
  BY DEF NormalizeAuditField, rest
<1>8. rest # {}
  BY <1>2
<1> QED
  BY Zenon, <1>4, <1>5, <1>6, <1>7, <1>8

(* Every spelling of a name is recognised as that name.                       *)
LEMMA SpellingRecognised ==
  ASSUME NEW name \in Names, NEW key \in Spellings(name)
  PROVE  NormalizeAuditField(key) = Snake(name)
<1>1. name \in Seq(Nat \ {0, 1}) /\ DOMAIN name = 1..Len(name)
  BY NameShapes
<1>2. CASE Len(name) = 1
  <2> DEFINE m == name[1]
  <2>1. m \in Nat \ {0} /\ Snake(name) = Lower(m)
    BY <1>2, NameShapes
  <2>2. key \in Cases(m)
    <3>1. CASE key \in Separated(name)
      BY <1>1, <1>2, <3>1 DEF Separated, Joined, Small, Large, Titled, Cases
    <3>2. CASE key \in RunTogether(name)
      BY <1>1, <1>2, <3>2 DEF RunTogether, Joined, Cases
    <3> QED
      BY <3>1, <3>2 DEF Spellings
  <2> HIDE DEF m
  <2>3. Untrimmed(key) = Lower(m)
    BY <2>1, <2>2, OneWordRecognised
  <2>4. Lower(m) \in Seq(Clean) /\ Len(Lower(m)) = m
    BY <2>1, OneLetterMore
  <2>5. Lower(m)[1] = "x" /\ Lower(m)[m] = "x"
    BY <2>1, FirstLetters
  <2> QED
    BY <2>1, <2>3, <2>4, <2>5, NothingTrimmed
<1>3. CASE Len(name) = 2
  <2> DEFINE m == name[1]
             n == name[2]
             s == (Lower(m) \o <<"under">>) \o Lower(n)
  <2>1. m \in Nat \ {0, 1} /\ n \in Nat \ {0, 1} /\ Snake(name) = s
    <3>1. Len(name) # 1
      BY <1>3
    <3> QED
      BY Zenon, <3>1, NameShapes
  <2>2. Apart(key, m, n) \/ key \in Together(m, n)
    <3>1. CASE key \in Separated(name)
      <4>1. PICK sep \in Separator, words \in {Small(name), Large(name), Titled(name)} :
              key = Joined(words, <<sep>>)
        BY <3>1 DEF Separated, Separator
      <4>2. Len(words) = 2 /\ words[1] \in Cases(m) /\ words[2] \in Cases(n)
        BY <1>1, <1>3 DEF Small, Large, Titled, Cases
      <4>3. key = words[1] \o <<sep>> \o words[2]
        BY <4>1, <4>2 DEF Joined
      <4> QED
        BY <4>2, <4>3 DEF Apart
    <3>2. CASE key \in RunTogether(name)
      <4>1. CASE \E first \in {Lower(m), Upper(m), Capital(m)} :
                   key = Joined([i \in DOMAIN name |-> IF i = 1 THEN first ELSE Capital(name[i])],
                                <<>>)
        <5>1. PICK first \in Cases(m) :
                key = Joined([i \in DOMAIN name |-> IF i = 1 THEN first ELSE Capital(name[i])], <<>>)
          BY <4>1 DEF Cases
        <5> DEFINE words == [i \in DOMAIN name |-> IF i = 1 THEN first ELSE Capital(name[i])]
        <5>2. Len(words) = 2 /\ words[1] = first /\ words[2] = Capital(n)
          BY <1>1, <1>3
        <5>6. key = Joined(words, <<>>)
          BY <5>1
        <5> HIDE DEF words
        <5>3. key = first \o <<>> \o Capital(n)
          BY <5>2, <5>6 DEF Joined
        <5>4. first \in Seq(Letter)
          BY <2>1, WordShape
        <5>5. first \o <<>> = first
          BY <5>4
        <5> QED
          BY <5>3, <5>5 DEF Together
      <4>2. CASE key = Joined([i \in DOMAIN name |-> IF i = Len(name) THEN Upper(name[i])
                                                                    ELSE Lower(name[i])], <<>>)
        <5> DEFINE words == [i \in DOMAIN name |-> IF i = Len(name) THEN Upper(name[i])
                                                                   ELSE Lower(name[i])]
        <5>2. Len(words) = 2 /\ words[1] = Lower(m) /\ words[2] = Upper(n)
          BY <1>1, <1>3
        <5>1. key = Joined(words, <<>>)
          BY <4>2
        <5> HIDE DEF words
        <5>3. key = Lower(m) \o <<>> \o Upper(n)
          BY <5>1, <5>2 DEF Joined
        <5>4. Lower(m) \in Seq(Letter)
          BY <2>1, FirstLetters
        <5>5. Lower(m) \o <<>> = Lower(m)
          BY <5>4
        <5> QED
          BY <5>3, <5>5 DEF Together
      <4> QED
        BY <3>2, <4>1, <4>2 DEF RunTogether
    <3> QED
      BY <3>1, <3>2 DEF Spellings
  <2> HIDE DEF m, n
  <2>3. Untrimmed(key) = s
    BY <2>1, <2>2, SeparatedRecognised, TogetherRecognised
  <2>4. /\ s \in Seq(Clean) /\ Len(s) = m + 1 + n
        /\ \A i \in 1..(m + 1 + n) : i # m + 1 => s[i] = "x"
    <3>1. m \in Nat \ {0} /\ n \in Nat \ {0}
      BY <2>1
    <3> QED
      BY Zenon, <3>1, SnakeOfTwo
  <2> HIDE DEF s
  <2>5. Len(s) > 0 /\ s[1] = "x" /\ s[Len(s)] = "x"
    BY <2>1, <2>4
  <2> QED
    BY <2>1, <2>3, <2>4, <2>5, NothingTrimmed
<1> QED
  BY <1>2, <1>3, NameShapes

(* Two names are told apart by their snake_case.                              *)
LEMMA SnakeTellsApart ==
  ASSUME NEW name \in Names, NEW other \in Names, Snake(name) = Snake(other)
  PROVE  name = other
<1>1. name \in Seq(Nat \ {0, 1}) /\ other \in Seq(Nat \ {0, 1})
  BY NameShapes
<1>2. SUFFICES Len(name) = Len(other) /\ \A i \in 1..Len(name) : name[i] = other[i]
  BY <1>1, SeqEqual
<1> DEFINE One(x) == Len(x) = 1 /\ x[1] \in Nat /\ Len(Snake(x)) = x[1]
                     /\ \A i \in 1..x[1] : Snake(x)[i] = "x"
           Two(x) == /\ Len(x) = 2 /\ x[1] \in Nat /\ x[2] \in Nat
                     /\ x[1] > 0 /\ x[2] > 0 /\ Len(Snake(x)) = x[1] + 1 + x[2]
                     /\ Snake(x)[x[1] + 1] = "under"
                     /\ \A i \in 1..(x[1] + 1 + x[2]) : i # x[1] + 1 => Snake(x)[i] = "x"
<1>3. ASSUME NEW x \in Names  PROVE One(x) \/ Two(x)
  <2>1. CASE Len(x) = 1
    <3>1. x[1] \in Nat \ {0} /\ Snake(x) = Lower(x[1])
      BY <2>1, NameShapes
    <3>2. Len(Lower(x[1])) = x[1] /\ \A i \in 1..x[1] : Lower(x[1])[i] = "x"
      BY <3>1, FirstLetters
    <3> QED
      BY <2>1, <3>1, <3>2
  <2>2. CASE Len(x) # 1
    <3> DEFINE m == x[1]
               n == x[2]
               s == (Lower(m) \o <<"under">>) \o Lower(n)
    <3>1. /\ Len(x) = 2 /\ m \in Nat \ {0, 1} /\ n \in Nat \ {0, 1} /\ Snake(x) = s
      BY Zenon, <2>2, NameShapes
    <3> HIDE DEF m, n
    <3>2. /\ Len(s) = m + 1 + n /\ s[m + 1] = "under"
          /\ \A i \in 1..(m + 1 + n) : i # m + 1 => s[i] = "x"
      <4>1. m \in Nat \ {0} /\ n \in Nat \ {0}
        BY <3>1
      <4> QED
        BY Zenon, <4>1, SnakeOfTwo
    <3> HIDE DEF s
    <3> QED
      BY <3>1, <3>2 DEF m, n
  <2> QED
    BY <2>1, <2>2
<1>4. (One(name) \/ Two(name)) /\ (One(other) \/ Two(other))
  BY <1>3
<1>5. CASE One(name) /\ One(other)
  BY <1>2, <1>5
<1>6. CASE One(name) /\ Two(other)
  BY <1>2, <1>6
<1>7. CASE Two(name) /\ One(other)
  BY <1>2, <1>7
<1>8. CASE Two(name) /\ Two(other)
  <2>1. name[1] = other[1]
    BY <1>2, <1>8
  <2>2. name[2] = other[2]
    BY <1>2, <1>8, <2>1
  <2> QED
    BY <1>8, <2>1, <2>2
<1> QED
  BY <1>4, <1>5, <1>6, <1>7, <1>8

(* A key is dropped as it spells a name of the list, whatever the spelling.   *)
LEMMA KeysRecognised ==
  \A key \in Keys : ShouldDrop(key) <=> \E name \in AuditDropFields : key \in Spellings(name)
<1> SUFFICES ASSUME NEW key \in Keys
             PROVE  ShouldDrop(key) <=> \E name \in AuditDropFields : key \in Spellings(name)
  OBVIOUS
<1>1. PICK name \in Names : key \in Spellings(name)
  BY DEF Keys, Names
<1>2. NormalizeAuditField(key) = Snake(name)
  BY <1>1, SpellingRecognised
<1>3. ASSUME NEW other \in AuditDropFields, key \in Spellings(other)  PROVE ShouldDrop(key)
  <2>1. NormalizeAuditField(key) = Snake(other)
    BY <1>3, SpellingRecognised DEF Names
  <2> QED
    BY <2>1 DEF ShouldDrop
<1>4. ASSUME ShouldDrop(key)  PROVE name \in AuditDropFields
  <2>1. PICK other \in AuditDropFields : Snake(name) = Snake(other)
    BY <1>2, <1>4 DEF ShouldDrop
  <2> QED
    BY <2>1, SnakeTellsApart DEF Names
<1> QED
  BY <1>1, <1>3, <1>4

(* Of the places of a snapshot those that no credential leads to.             *)
Kept(v) == {p \in Places[v] : ~ThroughCredential(p)}

(* Nothing is dropped where nothing is held.                                  *)
LEMMA KeptOfFlat ==
  /\ Places[Sanitize[Leaf]] = Kept(Leaf)
  /\ Places[Sanitize[Object(<<>>)]] = Kept(Object(<<>>))
<1>1. ~ThroughCredential(<<>>)
  BY DEF ThroughCredential
<1> QED
  BY <1>1, SanitizedLeaf, FlatPlaces DEF Kept

(* An object loses the fields of credentials, and within the others the same. *)
LEMMA KeptOfObject ==
  ASSUME NEW w \in Snapshots, IsObject(w), DOMAIN w.fields \subseteq Keys,
         \A u \in PartsOf(w) : u \in Snapshots /\ Places[Sanitize[u]] = Kept(u)
  PROVE  Places[Sanitize[w]] = Kept(w)
<1> DEFINE stay == {k \in DOMAIN w.fields : ~ShouldDrop(k)}
           left == [k \in stay |-> Sanitize[w.fields[k]]]
<1>1. Sanitize[w] = Object(left) /\ Sanitize[w] \in Snapshots
  BY SanitizeByParts, SanitizedIsSnapshot DEF Cleaned
<1>2. IsObject(Sanitize[w]) /\ Sanitize[w].fields = left /\ DOMAIN left = stay
  BY <1>1 DEF Object, IsObject
<1>3. ASSUME NEW k \in DOMAIN w.fields
      PROVE  /\ <<"key", k>> \in PlaceSteps /\ (k \in stay <=> ~IsCredential(k))
             /\ Places[Sanitize[w.fields[k]]] = Kept(w.fields[k])
             /\ Places[w.fields[k]] \subseteq Seq(PlaceSteps)
  <2>1. w.fields[k] \in PartsOf(w) /\ k \in Keys
    BY DEF PartsOf
  <2> QED
    BY <2>1, KeysRecognised, PlacesAreSequences DEF IsCredential, PlaceSteps
<1>4. \A p : Through(Places, w, p) <=>
              \E k \in DOMAIN w.fields : \E q \in Places[w.fields[k]] : p = << <<"key", k>> >> \o q
  BY DEF Through
<1>5. \A p : Through(Places, Sanitize[w], p) <=>
              \E k \in stay : \E q \in Places[Sanitize[w.fields[k]]] : p = << <<"key", k>> >> \o q
  BY <1>2 DEF Through
<1> HIDE DEF stay, left
<1>6. ASSUME NEW p \in Places[Sanitize[w]]  PROVE p \in Kept(w)
  <2>1. CASE p = <<>>
    BY <2>1, PlaceMembers DEF Kept, ThroughCredential
  <2>2. CASE Through(Places, Sanitize[w], p)
    <3>1. PICK k \in stay : \E q \in Places[Sanitize[w.fields[k]]] : p = << <<"key", k>> >> \o q
      BY <1>5, <2>2
    <3>2. PICK q \in Places[Sanitize[w.fields[k]]] : p = << <<"key", k>> >> \o q
      BY <3>1
    <3>3. k \in DOMAIN w.fields
      BY DEF stay
    <3>4. q \in Places[w.fields[k]] /\ ~ThroughCredential(q) /\ q \in Seq(PlaceSteps)
      BY <1>3, <3>2, <3>3 DEF Kept
    <3>5. ~ThroughCredential(p)
      BY <1>3, <3>2, <3>3, <3>4, ThroughStep
    <3> QED
      BY <1>4, <3>2, <3>3, <3>4, <3>5, PlaceMembers DEF Kept
  <2> QED
    BY <1>1, <2>1, <2>2, PlaceMembers
<1>7. ASSUME NEW p \in Kept(w)  PROVE p \in Places[Sanitize[w]]
  <2>1. CASE p = <<>>
    BY <1>1, <2>1, PlaceMembers
  <2>2. CASE Through(Places, w, p)
    <3>1. PICK k \in DOMAIN w.fields : \E q \in Places[w.fields[k]] : p = << <<"key", k>> >> \o q
      BY <1>4, <2>2
    <3>2. PICK q \in Places[w.fields[k]] : p = << <<"key", k>> >> \o q
      BY <3>1
    <3>3. ~IsCredential(k) /\ ~ThroughCredential(q)
      BY <1>3, <1>7, <3>2, ThroughStep DEF Kept
    <3>4. k \in stay /\ q \in Places[Sanitize[w.fields[k]]]
      BY <1>3, <3>2, <3>3 DEF Kept
    <3> QED
      BY <1>1, <1>5, <3>2, <3>4, PlaceMembers
  <2> QED
    BY <1>7, <2>1, <2>2, PlaceMembers DEF Kept
<1> QED
  BY <1>6, <1>7

(* An array loses nothing but within its elements.                            *)
LEMMA KeptOfArray ==
  ASSUME NEW w \in Snapshots, ~IsObject(w), IsArray(w), DOMAIN w.elems \subseteq {1, 2},
         \A u \in PartsOf(w) : u \in Snapshots /\ Places[Sanitize[u]] = Kept(u)
  PROVE  Places[Sanitize[w]] = Kept(w)
<1> DEFINE left == [i \in DOMAIN w.elems |-> Sanitize[w.elems[i]]]
<1>1. Sanitize[w] = Array(left) /\ Sanitize[w] \in Snapshots
  BY SanitizeByParts, SanitizedIsSnapshot DEF Cleaned
<1>2. ~IsObject(Sanitize[w]) /\ IsArray(Sanitize[w]) /\ Sanitize[w].elems = left
  BY <1>1 DEF Array, IsObject, IsArray
<1>3. ASSUME NEW i \in DOMAIN w.elems
      PROVE  /\ <<"at", i>> \in PlaceSteps
             /\ Places[Sanitize[w.elems[i]]] = Kept(w.elems[i])
             /\ Places[w.elems[i]] \subseteq Seq(PlaceSteps)
  <2>1. w.elems[i] \in PartsOf(w)
    BY DEF PartsOf
  <2> QED
    BY <2>1, PlacesAreSequences DEF PlaceSteps
<1>4. \A p : Through(Places, w, p) <=>
              \E i \in DOMAIN w.elems : \E q \in Places[w.elems[i]] : p = << <<"at", i>> >> \o q
  BY DEF Through
<1>5. \A p : Through(Places, Sanitize[w], p) <=>
              \E i \in DOMAIN w.elems : \E q \in Places[Sanitize[w.elems[i]]] : p = << <<"at", i>> >> \o q
  BY <1>2 DEF Through
<1>6. ASSUME NEW i \in DOMAIN w.elems, NEW q, q \in Places[w.elems[i]]
      PROVE  ThroughCredential(<< <<"at", i>> >> \o q) <=> ThroughCredential(q)
  BY <1>3, <1>6, ThroughStep
<1>7. ASSUME NEW p \in Places[Sanitize[w]]  PROVE p \in Kept(w)
  <2>1. CASE p = <<>>
    BY <2>1, PlaceMembers DEF Kept, ThroughCredential
  <2>2. CASE Through(Places, Sanitize[w], p)
    <3>1. PICK i \in DOMAIN w.elems : \E q \in Places[Sanitize[w.elems[i]]] : p = << <<"at", i>> >> \o q
      BY <1>5, <2>2
    <3>2. PICK q \in Places[Sanitize[w.elems[i]]] : p = << <<"at", i>> >> \o q
      BY <3>1
    <3>3. q \in Places[w.elems[i]] /\ ~ThroughCredential(q)
      BY <1>3, <3>2 DEF Kept
    <3>4. Through(Places, w, p)
      BY <1>4, <3>2, <3>3
    <3> QED
      BY <1>6, <3>2, <3>3, <3>4, PlaceMembers DEF Kept
  <2> QED
    BY <1>1, <2>1, <2>2, PlaceMembers
<1>8. ASSUME NEW p \in Kept(w)  PROVE p \in Places[Sanitize[w]]
  <2>1. CASE p = <<>>
    BY <1>1, <2>1, PlaceMembers
  <2>2. CASE Through(Places, w, p)
    <3>1. PICK i \in DOMAIN w.elems : \E q \in Places[w.elems[i]] : p = << <<"at", i>> >> \o q
      BY <1>4, <2>2
    <3>2. PICK q \in Places[w.elems[i]] : p = << <<"at", i>> >> \o q
      BY <3>1
    <3>3. q \in Places[Sanitize[w.elems[i]]]
      BY <1>3, <1>6, <1>8, <3>2 DEF Kept
    <3> QED
      BY <1>1, <1>5, <3>2, <3>3, PlaceMembers
  <2> QED
    BY <1>8, <2>1, <2>2, PlaceMembers DEF Kept
<1> QED
  BY <1>7, <1>8

(* Of any snapshot exactly the places that no credential leads to are kept.   *)
LEMMA ExactlyKept == \A v \in Snapshots : Places[Sanitize[v]] = Kept(v)
<1> DEFINE P == {v \in Snapshots : Places[Sanitize[v]] = Kept(v)}
<1>1. Leaf \in P /\ Object(<<>>) \in P
  BY KeptOfFlat, SnapshotLayers, LayerShapes, DepthAssumption DEF Layers
<1>2. ASSUME NEW v \in Snapshots \cap P, NEW w \in Snapshots \cap Around(v)  PROVE w \in P
  <2>1. \A u \in PartsOf(w) : u \in Snapshots /\ Places[Sanitize[u]] = Kept(u)
    BY <1>1, <1>2, AroundShapes
  <2>2. CASE IsObject(w)
    BY <2>1, <2>2, AroundKeys, KeptOfObject
  <2>3. CASE ~IsObject(w)
    <3>1. IsArray(w) /\ DOMAIN w.elems \subseteq {1, 2}
      BY <2>3, AroundShapes
    <3> QED
      BY <2>1, <2>3, <3>1, KeptOfArray
  <2> QED
    BY <2>2, <2>3
<1> HIDE DEF P
<1>3. Snapshots \subseteq P
  BY <1>1, <1>2, SnapshotInduction
<1> QED
  BY <1>3 DEF P

(* The row holds what Sanitize made of the snapshot.                          *)
AuditInv == snapshot = Nil \/ (snapshot \in Snapshots /\ logged = Sanitize[snapshot])

(* Of a snapshot the log has every place that no credential leads to and none *)
(* that one does, at any depth of objects and arrays, for any list of names   *)
(* and in every spelling of them (operation_log.go:166-246).                  *)
THEOREM CredentialsAreDropped == AuditSpec => []LogHidesCredentials
<1>1. AuditInit => AuditInv
  BY DEF AuditInit, AuditInv
<1>2. AuditInv /\ [CreateOperationLog]_auditVars => AuditInv'
  BY DEF AuditInv, CreateOperationLog, auditVars, MarshalAuditData
<1>3. AuditInv => LogHidesCredentials
  BY ExactlyKept DEF AuditInv, LogHidesCredentials, Kept
<1> QED
  BY <1>1, <1>2, <1>3, PTL DEF AuditSpec
===============================================================================
