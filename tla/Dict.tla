---------------------------------- MODULE Dict ----------------------------------
(***************************************************************************)
(* The dictionary service (internal/service/admin/system/dict.go) over the *)
(* tables sys_dict and sys_dict_item, and the cached list of the items of  *)
(* a code.  An item's row repeats the code of its dictionary.              *)
(*                                                                         *)
(* A request reads the old row, asks whether the new code is taken, both   *)
(* outside the transaction, and then writes.  The database is external: a  *)
(* transaction's writes take effect together at the commit, the codes are  *)
(* unique keys, an id is never given twice.  Save is INSERT ... ON         *)
(* DUPLICATE KEY UPDATE.  Names, descriptions, order and status are left   *)
(* out, and so is the operation log, written in the same transaction.  At  *)
(* first the tables are empty: the seed's dictionaries are others.         *)
(***************************************************************************)
EXTENDS FiniteSets

CONSTANTS
  Admins,               \* requests that change the tables
  Readers,              \* requests for the list of a code
  Dicts, Items,         \* ids
  Codes, ItemCodes,     \* codes of dictionaries and of items
  None                  \* no row, no id, nothing cached or read

ASSUME DictAssumption ==
  Dicts \cap Items = {} /\ None \notin Dicts \cup Items \cup Codes \cup ItemCodes

VARIABLES
  dicts,                \* the code of each dictionary there is
  items,                \* and the row of each item: dict, code, item
  given,                \* ids given so far (AUTO_INCREMENT)
  pc, req,              \* each admin's place, and what it asks for and read
  inval,                \* cache keys it has yet to delete, in one DEL
  cached,               \* the list cached for each code
  reading,              \* each reader: the key and the list it read
  lapsed,               \* history: keys left stale by a failed DEL or an overtaken fill
  raced                 \* history: a row was written that another request had read

tables    == <<dicts, items, given>>
adminVars == <<pc, req, inval>>
cacheVars == <<cached, reading, lapsed>>
vars      == <<tables, adminVars, cacheVars, raced>>

NoReq == [do |-> "none", id |-> None, dict |-> None, old |-> None, new |-> None]

Rows == {i \in Items : items[i] # None}
ItemsOf(d) == {i \in Rows : items[i].dict = d}

(* GetItemListByDictCode. *)
FromTables(c) == {<<i, items[i].item>> : i \in {j \in Rows : items[j].code = c}}

Init ==
  /\ dicts = [d \in Dicts |-> None] /\ items = [i \in Items |-> None] /\ given = {}
  /\ pc = [a \in Admins |-> "idle"] /\ req = [a \in Admins |-> NoReq]
  /\ inval = [a \in Admins |-> {}]
  /\ cached = [c \in Codes |-> None] /\ reading = [r \in Readers |-> None]
  /\ lapsed = {} /\ raced = FALSE

-----------------------------------------------------------------------------
(* The reads before the transaction.  dict and old are what the old row    *)
(* says: of which dictionary it is, and under which code.                  *)
Receive(a, do, id, dict, old, new) ==
  /\ pc[a] = "idle"
  /\ pc'  = [pc EXCEPT ![a] = "found"]
  /\ req' = [req EXCEPT ![a] =
               [do |-> do, id |-> id, dict |-> dict, old |-> old, new |-> new]]
  /\ UNCHANGED <<tables, inval, cacheVars, raced>>

Known == {d \in Dicts : dicts[d] # None}

ReceiveCreateDict(a) ==
  \E c \in Codes : Receive(a, "CreateDict", None, None, None, c)
ReceiveUpdateDict(a) ==
  \E d \in Known, c \in Codes : Receive(a, "UpdateDict", d, d, dicts[d], c)
ReceiveDeleteDict(a) ==
  \E d \in Known : Receive(a, "DeleteDict", d, d, dicts[d], None)
ReceiveCreateItem(a) ==
  \E d \in Known, x \in ItemCodes : Receive(a, "CreateItem", None, d, dicts[d], x)
ReceiveUpdateItem(a) ==
  \E i \in Rows, x \in ItemCodes :
    Receive(a, "UpdateItem", i, items[i].dict, items[i].code, x)
ReceiveDeleteItem(a) ==
  \E i \in Rows : Receive(a, "DeleteItem", i, items[i].dict, items[i].code, None)

(* IsCodeDuplicate and IsCodeItemDuplicate. *)
CodeTaken(q) == \E d \in Known \ {q.id} : dicts[d] = q.new
ItemTaken(q) == \E i \in ItemsOf(q.dict) \ {q.id} : items[i].item = q.new

Deletes == {"DeleteDict", "DeleteItem"}

Check(a) ==
  /\ pc[a] = "found" /\ req[a].do \notin Deletes
  /\ req[a].do \in {"CreateDict", "UpdateDict"} => ~CodeTaken(req[a])
  /\ req[a].do \in {"CreateItem", "UpdateItem"} => ~ItemTaken(req[a])
  /\ pc' = [pc EXCEPT ![a] = "checked"]
  /\ UNCHANGED <<tables, req, inval, cacheVars, raced>>

(* Refused, a unique key in the way, or the database failed.               *)
Rollback(a) ==
  /\ pc[a] \in {"found", "checked"}
  /\ pc'  = [pc EXCEPT ![a] = "idle"]
  /\ req' = [req EXCEPT ![a] = NoReq]
  /\ UNCHANGED <<tables, inval, cacheVars, raced>>

(* The ids whose rows request q writes, and those whose rows it has read.  *)
Writes(q) ==
  IF q.do \in {"UpdateDict", "DeleteDict"} THEN {q.id} \cup ItemsOf(q.id) ELSE {q.id}
Read(q) == {q.id, q.dict}

Commit(a, do, ks) ==
  /\ pc[a] = (IF do \in Deletes THEN "found" ELSE "checked") /\ req[a].do = do
  /\ pc'    = [pc EXCEPT ![a] = IF ks = {} THEN "idle" ELSE "committed"]
  /\ req'   = [req EXCEPT ![a] = NoReq]
  /\ inval' = [inval EXCEPT ![a] = ks]
  /\ raced' = (raced \/ \E b \in Admins \ {a} :
                 /\ pc[b] \in {"found", "checked"}
                 /\ (Writes(req[a]) \cap Read(req[b])) \ {None} # {})
  /\ UNCHANGED cacheVars

-----------------------------------------------------------------------------
CreateDict(a) ==
  /\ Commit(a, "CreateDict", {})
  /\ ~CodeTaken(req[a])
  /\ \E d \in Dicts \ given :
       dicts' = [dicts EXCEPT ![d] = req[a].new] /\ given' = given \cup {d}
  /\ UNCHANGED items

(* The row is updated; a row that is gone is inserted again; or, gone and  *)
(* its code another's, that other row is overwritten: it has the code.     *)
SaveDict(q) ==
  \/ ~CodeTaken(q) /\ dicts' = [dicts EXCEPT ![q.id] = q.new]
  \/ CodeTaken(q) /\ dicts[q.id] = None /\ UNCHANGED dicts

(* No two rows have the same code and item code. *)
KeysUnique(rows) ==
  \A i, j \in Items :
    rows[i] # None /\ rows[j] # None
      /\ rows[i].code = rows[j].code /\ rows[i].item = rows[j].item => i = j

Recode(d, c) ==
  [i \in Items |-> IF i \in ItemsOf(d) THEN [items[i] EXCEPT !.code = c] ELSE items[i]]

UpdateDictOnly(a) ==                   \* faulty variant: the items keep the old code
  LET q == req[a] IN
  /\ Commit(a, "UpdateDict", IF q.old = q.new THEN {} ELSE {q.old, q.new})
  /\ SaveDict(q)
  /\ UNCHANGED <<items, given>>
UpdateDictOldKey(a) ==                 \* faulty variant: the new code's list stays cached
  LET q == req[a] IN
  /\ Commit(a, "UpdateDict", IF q.old = q.new THEN {} ELSE {q.old})
  /\ SaveDict(q)
  /\ items' = IF q.old = q.new THEN items ELSE Recode(q.id, q.new)
  /\ KeysUnique(items')
  /\ UNCHANGED given
UpdateDict(a) ==
  LET q == req[a] IN
  /\ Commit(a, "UpdateDict", IF q.old = q.new THEN {} ELSE {q.old, q.new})
  /\ SaveDict(q)
  /\ items' = IF q.old = q.new THEN items ELSE Recode(q.id, q.new)
  /\ KeysUnique(items')
  /\ UNCHANGED given

WithoutItemsOf(d) == [i \in Items |-> IF i \in ItemsOf(d) THEN None ELSE items[i]]

DeleteDict(a) ==
  LET q == req[a] IN
  /\ Commit(a, "DeleteDict", {q.old})
  /\ items' = WithoutItemsOf(q.id) /\ dicts' = [dicts EXCEPT ![q.id] = None]
  /\ UNCHANGED given

Row(q) == [dict |-> q.dict, code |-> q.old, item |-> q.new]

CreateItem(a) ==
  LET q == req[a] IN
  /\ Commit(a, "CreateItem", {q.old})
  /\ \E i \in Items \ given :
       items' = [items EXCEPT ![i] = Row(q)] /\ given' = given \cup {i}
  /\ KeysUnique(items')
  /\ UNCHANGED dicts

(* A Save again: of a row that is gone the one with the same codes, if     *)
(* there is one, is overwritten, its dict_id included.                     *)
SavedItem(q) ==
  LET same == {j \in Rows : items[j].code = q.old /\ items[j].item = q.new}
  IN  IF items[q.id] = None /\ same # {} THEN same ELSE {q.id}

UpdateItem(a) ==
  LET q == req[a] IN
  /\ Commit(a, "UpdateItem", {q.old})
  /\ \E i \in SavedItem(q) : items' = [items EXCEPT ![i] = Row(q)]
  /\ KeysUnique(items')
  /\ UNCHANGED <<dicts, given>>

DeleteItem(a) ==
  /\ Commit(a, "DeleteItem", {req[a].old})
  /\ items' = [items EXCEPT ![req[a].id] = None]
  /\ UNCHANGED <<dicts, given>>

-----------------------------------------------------------------------------
Stale(c) == cached[c] \notin {None, FromTables(c)}

Done(a) ==
  /\ pc[a] = "committed"
  /\ pc'    = [pc EXCEPT ![a] = "idle"]
  /\ inval' = [inval EXCEPT ![a] = {}]
  /\ UNCHANGED <<tables, req, reading, raced>>

Invalidate(a) ==
  /\ Done(a)
  /\ cached' = [c \in Codes |-> IF c \in inval[a] THEN None ELSE cached[c]]
  /\ lapsed' = lapsed \ inval[a]

(* Redis fails, which is only logged, or the process dies first. *)
InvalidateFails(a) ==
  /\ Done(a)
  /\ lapsed' = lapsed \cup {c \in inval[a] : Stale(c)}
  /\ UNCHANGED cached

(* GetItemListByCode: a hit changes nothing; a miss, and a Get that fails, *)
(* reads the table and then sets the key, an empty list for an hour.       *)
ReadTable(r, c) ==
  /\ reading[r] = None
  /\ reading' = [reading EXCEPT ![r] = [key |-> c, list |-> FromTables(c)]]
  /\ UNCHANGED <<tables, adminVars, cached, lapsed, raced>>

Fill(r) ==
  /\ reading[r] # None
  /\ LET c == reading[r].key IN
       /\ cached' = [cached EXCEPT ![c] = reading[r].list]
       /\ lapsed' = IF reading[r].list = FromTables(c) THEN lapsed \ {c} ELSE lapsed \cup {c}
  /\ reading' = [reading EXCEPT ![r] = None]
  /\ UNCHANGED <<tables, adminVars, raced>>

FillFails(r) ==
  /\ reading[r] # None
  /\ reading' = [reading EXCEPT ![r] = None]
  /\ UNCHANGED <<tables, adminVars, cached, lapsed, raced>>

(* External: the key's time is up. *)
Expire(c) ==
  /\ cached[c] # None
  /\ cached' = [cached EXCEPT ![c] = None] /\ lapsed' = lapsed \ {c}
  /\ UNCHANGED <<tables, adminVars, reading, raced>>

Begins(a)  == ReceiveCreateDict(a) \/ ReceiveUpdateDict(a) \/ ReceiveDeleteDict(a)
           \/ ReceiveCreateItem(a) \/ ReceiveUpdateItem(a) \/ ReceiveDeleteItem(a)
           \/ Check(a) \/ Rollback(a)
Commits(a) == CreateDict(a) \/ UpdateDict(a) \/ DeleteDict(a)
           \/ CreateItem(a) \/ UpdateItem(a) \/ DeleteItem(a)
Reads(r)   == (\E c \in Codes : ReadTable(r, c)) \/ Fill(r) \/ FillFails(r)

Next == (\E a \in Admins : Begins(a) \/ Commits(a) \/ Invalidate(a) \/ InvalidateFails(a))
     \/ (\E r \in Readers : Reads(r))
     \/ (\E c \in Codes : Expire(c))

Spec == Init /\ [][Next]_vars

-----------------------------------------------------------------------------
ItemRows == [dict : Dicts, code : Codes, item : ItemCodes]
Kinds    == {"none", "CreateDict", "UpdateDict", "DeleteDict",
             "CreateItem", "UpdateItem", "DeleteItem"}
Requests == [do : Kinds, id : Dicts \cup Items \cup {None}, dict : Dicts \cup {None},
             old : Codes \cup {None}, new : Codes \cup ItemCodes \cup {None}]
Lists    == SUBSET (Items \X ItemCodes)

(* Rows, requests and cached lists are of known ids and codes. *)
TypeOK ==
  /\ dicts \in [Dicts -> Codes \cup {None}] /\ items \in [Items -> ItemRows \cup {None}]
  /\ given \subseteq Dicts \cup Items /\ Known \cup Rows \subseteq given
  /\ pc \in [Admins -> {"idle", "found", "checked", "committed"}]
  /\ req \in [Admins -> Requests] /\ inval \in [Admins -> SUBSET Codes]
  /\ cached \in [Codes -> Lists \cup {None}]
  /\ reading \in [Readers -> [key : Codes, list : Lists] \cup {None}]
  /\ lapsed \subseteq Codes /\ raced \in BOOLEAN

(* As long as no request wrote a row that another had read before its      *)
(* transaction, every item belongs to a dictionary that exists and repeats *)
(* its code: UpdateDict carries the items along and DeleteById takes them  *)
(* with it.                                                                *)
SerialItemsMatch == ~raced => \A i \in Rows : dicts[items[i].dict] = items[i].code

(* A cached list that no longer says what the table says is about to be    *)
(* deleted, unless a DEL failed, a slow reader wrote it back, or requests  *)
(* raced: each handler deletes every list its writes change.               *)
CacheFollowsItems ==
  \A c \in Codes : Stale(c) => c \in lapsed \/ raced \/ \E a \in Admins : c \in inval[a]
===============================================================================
