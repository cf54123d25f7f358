-------------------------------- MODULE AuditLog --------------------------------
(***************************************************************************)
(* What an operation log keeps of the snapshots it is given, before and    *)
(* after a change alike (internal/service/admin/system/operation_log.go):  *)
(* the values of credential fields are dropped at any depth, however the   *)
(* key is spelled.  That the log is written in the transaction of the      *)
(* change itself is part of the commits in Rbac and Dict.                  *)
(*                                                                         *)
(* Of a key only what its spelling tells is kept: the case of each letter, *)
(* "x" or "X", and what stands between words, "under", "dash" or "space".  *)
(* A name is the lengths of its words, as <<6, 5>> for access_token; those *)
(* of the list have one word or two.                                       *)
(***************************************************************************)
EXTENDS Integers, SequencesExt

CONSTANTS
  AuditDropFields,      \* the names of the list
  OtherFields,          \* names of other fields
  Depth                 \* of the nested objects and arrays

ASSUME DepthAssumption  == Depth \in Nat
ASSUME FieldsAssumption ==
  /\ OtherFields # {}
  /\ \A name \in AuditDropFields \cup OtherFields :
       name \in Seq(Nat \ {0, 1}) /\ Len(name) \in 1..2

VARIABLES
  snapshot,             \* what the service passed
  logged                \* what the row holds

auditVars == <<snapshot, logged>>

-----------------------------------------------------------------------------
(* Keys, and what their writers make of the words of a name. *)
Letters(c, n) == [i \in 1..n |-> c]
Lower(n)      == Letters("x", n)
Upper(n)      == Letters("X", n)
Capital(n)    == <<"X">> \o Lower(n - 1)

Joined(words, sep) == IF Len(words) = 1 THEN words[1] ELSE words[1] \o sep \o words[2]

Small(name)  == [i \in DOMAIN name |-> Lower(name[i])]
Large(name)  == [i \in DOMAIN name |-> Upper(name[i])]
Titled(name) == [i \in DOMAIN name |-> Capital(name[i])]

Snake(name) == Joined(Small(name), <<"under">>)

(* snake_case, kebab-case and words apart in three cases each; PascalCase, *)
(* camelCase, and both with an acronym in capitals, first or last.         *)
Separated(name) ==
  {Joined(words, <<sep>>) : sep \in {"under", "dash", "space"},
                            words \in {Small(name), Large(name), Titled(name)}}
RunTogether(name) ==
  {Joined([i \in DOMAIN name |-> IF i = 1 THEN first ELSE Capital(name[i])], <<>>) :
     first \in {Lower(name[1]), Upper(name[1]), Capital(name[1])}}
  \cup {Joined([i \in DOMAIN name |-> IF i = Len(name) THEN Upper(name[i]) ELSE Lower(name[i])],
               <<>>)}
Spellings(name) == Separated(name) \cup RunTogether(name)

Keys == UNION {Spellings(name) : name \in AuditDropFields \cup OtherFields}

(* JSON values, told apart by their field. *)
Leaf         == [leaf |-> TRUE]
Object(f)    == [fields |-> f]
Array(s)     == [elems |-> s]
IsObject(v)  == "fields" \in DOMAIN v
IsArray(v)   == "elems" \in DOMAIN v

(* What holds v: an array, or an object with at most one field beside it. *)
Neighbour == Snake(CHOOSE name \in OtherFields : TRUE)
Holding(key, beside, v) == Object([k \in {key} \cup beside |-> IF k = key THEN v ELSE Leaf])
Around(v) == {Array(<<v, Leaf>>)}
         \cup {Holding(key, beside, v) : key \in Keys, beside \in {{}, {Neighbour}}}

Snapshots ==
  LET upTo[d \in 0..Depth] ==
        IF d = 0 THEN {Leaf, Object(<<>>)}
        ELSE upTo[d - 1] \cup UNION {Around(v) : v \in upTo[d - 1]}
  IN  upTo[Depth]

-----------------------------------------------------------------------------
(* normalizeAuditField: a capital that begins a word, after a small letter *)
(* or before one, is set off; a separator becomes an underscore.           *)
BreaksAfterLower(key, i) ==            \* faulty variant: capitals in a row are one word
  /\ i > 1 /\ key[i] = "X" /\ key[i - 1] = "x"
BreaksBefore(key, i) ==
  /\ i > 1 /\ key[i] = "X" /\ key[i - 1] \notin {"under", "dash", "space"}
  /\ key[i - 1] = "X" => i < Len(key) /\ key[i + 1] = "x"

Written(out, key, i) ==
  CASE key[i] \in {"dash", "space"} -> out \o <<"under">>
    [] key[i] = "under" -> IF out # <<>> /\ Last(out) = "under" THEN out ELSE out \o <<"under">>
    [] OTHER -> out \o (IF BreaksBefore(key, i) THEN <<"under", "x">> ELSE <<"x">>)

Untrimmed(key) ==
  LET upTo[i \in 0..Len(key)] == IF i = 0 THEN <<>> ELSE Written(upTo[i - 1], key, i)
  IN  upTo[Len(key)]

NormalizeAuditField(key) ==
  LET out  == Untrimmed(key)
      rest == {i \in DOMAIN out : out[i] # "under"}
  IN  IF rest = {} THEN <<>>
      ELSE SubSeq(out, CHOOSE i \in rest : \A j \in rest : i <= j,
                       CHOOSE i \in rest : \A j \in rest : i >= j)

ShouldDrop(key) == NormalizeAuditField(key) \in {Snake(name) : name \in AuditDropFields}

Sanitize[v \in Snapshots] ==
  IF IsObject(v)
    THEN Object([k \in {key \in DOMAIN v.fields : ~ShouldDrop(key)} |-> Sanitize[v.fields[k]]])
  ELSE IF IsArray(v) THEN Array([i \in DOMAIN v.elems |-> Sanitize[v.elems[i]]])
  ELSE v

(* A snapshot that is nil, or cannot be marshalled, is logged as {}. *)
Nil == [nil |-> TRUE]
MarshalAuditData(v) == IF v = Nil THEN Object(<<>>) ELSE Sanitize[v]

-----------------------------------------------------------------------------
AuditInit == snapshot = Nil /\ logged = Nil

CreateOperationLog ==
  /\ logged = Nil
  /\ snapshot' \in Snapshots \cup {Nil}
  /\ logged' = MarshalAuditData(snapshot')

AuditSpec == AuditInit /\ [][CreateOperationLog]_auditVars

-----------------------------------------------------------------------------
(* The places of a value: the keys and indices that lead there. *)
Under(step, places) == {<<step>> \o p : p \in places}

Places[v \in Snapshots] ==
  {<<>>} \cup
  IF IsObject(v) THEN UNION {Under(<<"key", k>>, Places[v.fields[k]]) : k \in DOMAIN v.fields}
  ELSE IF IsArray(v) THEN UNION {Under(<<"at", i>>, Places[v.elems[i]]) : i \in DOMAIN v.elems}
  ELSE {}

ThroughCredential(p) ==
  \E i \in DOMAIN p, name \in AuditDropFields : p[i][1] = "key" /\ p[i][2] \in Spellings(name)

(* Of a snapshot the log has every place that no credential leads to, and  *)
(* none that one does, at any depth and in any usual spelling of the key   *)
(* (operation_log.go:166, "dropping high-risk credential fields").         *)
LogHidesCredentials ==
  snapshot # Nil => Places[logged] = {p \in Places[snapshot] : ~ThroughCredential(p)}
===============================================================================
