-------------------------------- MODULE MenuTree --------------------------------
(***************************************************************************)
(* The rows of sys_menu as a tree: which menu is whose parent, the labels  *)
(* that must be unique (perms and path, checked alike), and the cache of   *)
(* the whole tree (internal/service/admin/account/menu.go).  What roles    *)
(* are bound to is the business of Rbac: a delete refused for that reason  *)
(* ends in Closes.                                                         *)
(*                                                                         *)
(* As in Rbac a transaction's reads lock nothing, its writes take effect   *)
(* at the commit, and Save inserts the row if it is gone.  The table has   *)
(* no key but its id.                                                      *)
(***************************************************************************)
EXTENDS Naturals, FiniteSets

CONSTANTS
  Editors,              \* requests that change menus
  Viewers,              \* requests for the tree
  Nodes,                \* menu ids
  Top,                  \* no parent: 0, or below, which the code treats alike
  Labels, NoLabel,      \* perms or paths, and none
  NoRow                 \* no row

ASSUME NodesAssumption ==
  /\ IsFiniteSet(Nodes) /\ Top \notin Nodes /\ NoLabel \notin Labels
  /\ NoRow \notin [parent : Nodes \cup {Top}, label : Labels \cup {NoLabel}]

VARIABLES
  rows,                 \* the table
  usedNodes,            \* ids given so far
  place, ask,           \* each editor's place, and what it asks for
  tree,                 \* the cached tree: "none", "same" as the table's, or it "differs"
  view,                 \* and the one each viewer built and will cache
  treeLapsed,           \* history: the cache was left stale by a failed DEL or an overtaken fill
  crossed               \* history: a transaction committed while another was open

treeVars == <<rows, usedNodes, place, ask, tree, view, treeLapsed, crossed>>

NoAsk == [do |-> "none", id |-> Top, parent |-> Top, label |-> NoLabel]

There(table) == {n \in Nodes : table[n] # NoRow}

-----------------------------------------------------------------------------
(* GetMenuTree: a menu hangs below its parent; one whose parent is not     *)
(* there is a root.  What no root reaches is in no answer.                 *)
RootsStrict(table) ==                  \* faulty variant: only parent 0 makes a root
  {n \in There(table) : table[n].parent = Top}
Roots(table) == {n \in There(table) : table[n].parent \notin There(table)}

Reached(table) ==
  LET within[k \in Nat] ==
        IF k = 0 THEN Roots(table)
        ELSE LET near == within[k - 1]
             IN  near \cup {n \in There(table) : table[n].parent \in near}
  IN  within[Cardinality(Nodes)]

(* GetUserPermissionById builds the tree of one account from the menus its *)
(* roles are bound to, in the same way.                                    *)
Granted(table, some) == [n \in Nodes |-> IF n \in some THEN table[n] ELSE NoRow]

BuildTree(table) == {<<n, table[n]>> : n \in Reached(table)}

TreeInit ==
  /\ rows = [n \in Nodes |-> NoRow] /\ usedNodes = {}
  /\ place = [a \in Editors |-> "idle"] /\ ask = [a \in Editors |-> NoAsk]
  /\ tree = "none" /\ view = [v \in Viewers |-> "none"]
  /\ treeLapsed = FALSE /\ crossed = FALSE

-----------------------------------------------------------------------------
Asks(a, do, id, parent, label) ==
  /\ place[a] = "idle"
  /\ place' = [place EXCEPT ![a] = "found"]
  /\ ask'   = [ask EXCEPT ![a] = [do |-> do, id |-> id, parent |-> parent, label |-> label]]
  /\ UNCHANGED <<rows, usedNodes, tree, view, treeLapsed, crossed>>

Parents == usedNodes \cup {Top}

AsksCreate(a) ==
  \E p \in Parents, l \in Labels \cup {NoLabel} : Asks(a, "Create", Top, p, l)
AsksUpdate(a) ==
  \E n \in There(rows), p \in Parents, l \in Labels \cup {NoLabel} :
    Asks(a, "Update", n, p, l)
AsksDelete(a) == \E n \in There(rows) : Asks(a, "Delete", n, Top, NoLabel)

(* The reads of the transaction. *)
ParentExists(q) == q.parent \in There(rows) \cup {Top}
LabelTaken(q)   == q.label # NoLabel /\ \E n \in There(rows) \ {q.id} : rows[n].label = q.label
HasChildren(n)  == \E m \in There(rows) : rows[m].parent = n

AcceptsRelabel(q) ==                   \* faulty variant: an update does not ask for its label
  IF q.do = "Delete" THEN ~HasChildren(q.id)
  ELSE (q.do = "Update" => q.parent # q.id) /\ ParentExists(q) /\ (q.do = "Create" => ~LabelTaken(q))
Accepts(q) ==
  IF q.do = "Delete" THEN ~HasChildren(q.id)
  ELSE (q.do = "Update" => q.parent # q.id) /\ ParentExists(q) /\ ~LabelTaken(q)

Validates(a) ==
  /\ place[a] = "found" /\ Accepts(ask[a])
  /\ place' = [place EXCEPT ![a] = "open"]
  /\ UNCHANGED <<rows, usedNodes, ask, tree, view, treeLapsed, crossed>>

(* Refused, or the database failed. *)
Closes(a) ==
  /\ place[a] \in {"found", "open"}
  /\ place' = [place EXCEPT ![a] = "idle"]
  /\ ask'   = [ask EXCEPT ![a] = NoAsk]
  /\ UNCHANGED <<rows, usedNodes, tree, view, treeLapsed, crossed>>

(* The tree x after the table has become new. *)
Aged(x, new) == IF x = "same" /\ BuildTree(new) # BuildTree(rows) THEN "differs" ELSE x

CommitsMenu(a, do, next, new) ==
  /\ place[a] = "open" /\ ask[a].do = do
  /\ place' = [place EXCEPT ![a] = next]
  /\ ask'   = [ask EXCEPT ![a] = NoAsk]
  /\ crossed' = (crossed \/ \E b \in Editors \ {a} : place[b] = "open")
  /\ rows' = new
  /\ tree' = Aged(tree, new) /\ view' = [v \in Viewers |-> Aged(view[v], new)]
  /\ UNCHANGED treeLapsed

RowOf(q) == [parent |-> q.parent, label |-> q.label]

CreatesMenu(a) ==
  \E n \in Nodes \ usedNodes :
    /\ CommitsMenu(a, "Create", "committed", [rows EXCEPT ![n] = RowOf(ask[a])])
    /\ usedNodes' = usedNodes \cup {n}

UpdatesMenuQuietly(a) ==               \* faulty variant: leaves the cached tree
  /\ CommitsMenu(a, "Update", "idle", [rows EXCEPT ![ask[a].id] = RowOf(ask[a])])
  /\ UNCHANGED usedNodes
UpdatesMenu(a) ==
  /\ CommitsMenu(a, "Update", "committed", [rows EXCEPT ![ask[a].id] = RowOf(ask[a])])
  /\ UNCHANGED usedNodes

DeletesMenu(a) ==
  /\ CommitsMenu(a, "Delete", "committed", [rows EXCEPT ![ask[a].id] = NoRow])
  /\ UNCHANGED usedNodes

(* The cached tree goes after every commit; Redis may fail, which is only  *)
(* logged, or the process die first.                                       *)
DropsTree(a) ==
  /\ place[a] = "committed"
  /\ place' = [place EXCEPT ![a] = "idle"]
  /\ tree' = "none" /\ treeLapsed' = FALSE
  /\ UNCHANGED <<rows, usedNodes, ask, view, crossed>>

DropFails(a) ==
  /\ place[a] = "committed"
  /\ place' = [place EXCEPT ![a] = "idle"]
  /\ treeLapsed' = (treeLapsed \/ tree = "differs")
  /\ UNCHANGED <<rows, usedNodes, ask, tree, view, crossed>>

(* A miss, or a Get that fails. *)
Views(v) ==
  /\ view[v] = "none"
  /\ view' = [view EXCEPT ![v] = "same"]
  /\ UNCHANGED <<rows, usedNodes, place, ask, tree, treeLapsed, crossed>>

FillsTree(v) ==
  /\ view[v] # "none"
  /\ tree' = view[v] /\ treeLapsed' = (view[v] = "differs")
  /\ view' = [view EXCEPT ![v] = "none"]
  /\ UNCHANGED <<rows, usedNodes, place, ask, crossed>>

FillTreeFails(v) ==
  /\ view[v] # "none"
  /\ view' = [view EXCEPT ![v] = "none"]
  /\ UNCHANGED <<rows, usedNodes, place, ask, tree, treeLapsed, crossed>>

(* External: the key's time is up (CacheMenuTreeExpirationDay).            *)
TreeExpires ==
  /\ tree # "none" /\ tree' = "none" /\ treeLapsed' = FALSE
  /\ UNCHANGED <<rows, usedNodes, place, ask, view, crossed>>

Edits(a) == AsksCreate(a) \/ AsksUpdate(a) \/ AsksDelete(a) \/ Validates(a) \/ Closes(a)
         \/ CreatesMenu(a) \/ UpdatesMenu(a) \/ DeletesMenu(a)
         \/ DropsTree(a) \/ DropFails(a)

TreeNext == (\E a \in Editors : Edits(a))
         \/ (\E v \in Viewers : Views(v) \/ FillsTree(v) \/ FillTreeFails(v))
         \/ TreeExpires

TreeSpec == TreeInit /\ [][TreeNext]_treeVars

-----------------------------------------------------------------------------
RowsOf  == [parent : Nodes \cup {Top}, label : Labels \cup {NoLabel}]
Answers == {"none", "same", "differs"}

(* Rows, requests and cached trees are of known ids and labels.            *)
TreeTypeOK ==
  /\ rows \in [Nodes -> RowsOf \cup {NoRow}]
  /\ There(rows) \subseteq usedNodes /\ usedNodes \subseteq Nodes
  /\ place \in [Editors -> {"idle", "found", "open", "committed"}]
  /\ ask \in [Editors -> [do : {"none", "Create", "Update", "Delete"}, id : Nodes \cup {Top},
                          parent : Nodes \cup {Top}, label : Labels \cup {NoLabel}]]
  /\ tree \in Answers /\ view \in [Viewers -> Answers]
  /\ treeLapsed \in BOOLEAN /\ crossed \in BOOLEAN

(* As long as no transaction commits while another is open, every menu's   *)
(* parent exists and no two menus have the same label: the reads in the    *)
(* transaction are enough against the rows read before it.                 *)
SerialRowsSound ==
  ~crossed =>
    \A n \in There(rows) :
      /\ rows[n].parent \in There(rows) \cup {Top}
      /\ \A m \in There(rows) : rows[n].label = rows[m].label => m = n \/ rows[n].label = NoLabel

(* The whole tree, like the one of an account, leaves out exactly the menus *)
(* from which going up never ends: also a menu whose parent a race deleted, *)
(* or the account was not granted, is shown, and with it what is below it.  *)
(* (Two updates can make such a loop: only a menu that is its own parent is *)
(* refused.)                                                                *)
TreeShowsUnlooped ==
  \A some \in SUBSET Nodes :
    LET table == Granted(rows, some)
    IN  There(table) \ Reached(table) =
          UNION {endless \in SUBSET There(table) : \A n \in endless : table[n].parent \in endless}

(* A cached tree that is not the one of the table is about to be deleted,  *)
(* unless a DEL failed or a slow viewer wrote it back.                     *)
TreeCacheFollows ==
  tree = "differs" => treeLapsed \/ \E a \in Editors : place[a] = "committed"
===============================================================================
