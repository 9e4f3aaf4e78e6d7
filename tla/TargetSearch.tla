------------------------------ MODULE TargetSearch -----------------------------
(***************************************************************************)
(* internal/target and internal/identity: the exact search for targets and *)
(* the details of a node, as functions of the database of a generation.    *)
(*                                                                         *)
(* A database is a record of functions on its node IDs.  IDs, names, paths *)
(* and namespaces are numbers in the order that SQLite compares them in;   *)
(* what the search compares of a name or a path is its normal form.  Every *)
(* generation has the table node_identity: Load creates it.                *)
(***************************************************************************)
EXTENDS Integers, Sequences, FiniteSets, SequencesExt

CONSTANTS
  NameForm, PathForm,   \* normalize.Name and normalize.Path
  Null,                 \* no parent, path or value of an input
  MaxSearchResults

ASSUME SearchAssumption == MaxSearchResults \in Nat \ {0} /\ Null \notin Nat

TargetTypes == {"job", "job_network"}

(* targetTypes: without `type` both are asked for. *)
types(input) == IF input.types = {} THEN TargetTypes ELSE input.types

Default == 0
LegacyPublic(id) == [namespace |-> Default, localId |-> id]

(* LoadPublic: a node without a row in node_identity is a legacy one. *)
LoadPublic(db, id) == IF id \in DOMAIN db.identity THEN db.identity[id] ELSE LegacyPublic(id)

--------------------------------------------------------------------------------
(* The two statements: which rows, in which order, how many at most. *)

matchedBy(db, id, input) ==
  IF input.jobId # Null THEN {"localId"}
  ELSE {f \in {"id", "name", "path"} :
          CASE f = "id"   -> id = input.query
            [] f = "name" -> NameForm[db.name[id]] = NameForm[input.query]
            [] f = "path" -> db.path[id] # Null /\ PathForm[db.path[id]] = PathForm[input.query]}

Matches(db, input) ==
  {id \in DOMAIN db.type :
     /\ db.type[id] \in types(input)
     /\ IF input.jobId # Null
          THEN /\ id \in DOMAIN db.identity
               /\ db.identity[id].localId = input.jobId
               /\ input.namespace # Null => db.identity[id].namespace = input.namespace
          ELSE matchedBy(db, id, input) # {}}

TypeRank(t) == IF t = "job" THEN 0 ELSE 1

(* ORDER BY. *)
SortKey(db, id, input) ==
  IF input.jobId # Null
    THEN <<db.identity[id].namespace, db.identity[id].localId, TypeRank(db.type[id]), id>>
    ELSE <<CASE id = input.query -> 0
             [] id # input.query /\ NameForm[db.name[id]] = NameForm[input.query] -> 1
             [] OTHER -> 2,
           IF db.path[id] = Null THEN 1 ELSE 0,
           IF db.path[id] = Null THEN 0 ELSE db.path[id],
           id>>

KeyLess(k, l) == \E i \in DOMAIN k : k[i] < l[i] /\ \A j \in 1..(i - 1) : k[j] = l[j]

\* Bug: as many rows as are returned are asked for, so that there are never more.
RowLimitWithoutOneMore == MaxSearchResults

(* LIMIT: one row more than is returned. *)
RowLimit == MaxSearchResults + 1

FirstOf(s, n) == SubSeq(s, 1, IF Len(s) < n THEN Len(s) ELSE n)

(* The one listing of the matches by their keys. *)
Ordered(db, input) ==
  LET all == Matches(db, input)
      key(id) == SortKey(db, id, input)
  IN  CHOOSE s \in [1..Cardinality(all) -> all] :
        \A j, k \in DOMAIN s : j < k => KeyLess(key(s[j]), key(s[k]))

Rows(db, input) ==
  LET ids == FirstOf(Ordered(db, input), RowLimit)
  IN  [i \in DOMAIN ids |-> [id |-> ids[i], matchedBy |-> matchedBy(db, ids[i], input)]]

truncated(rows) == Len(rows) > MaxSearchResults
candidates(rows) == FirstOf(rows, MaxSearchResults)

--------------------------------------------------------------------------------
(* LoadMany: the recursive query follows the parents of all nodes at once, and the
   rows of a node come from its topmost ancestor down. *)

Lineage(db) ==
  LET up[n \in 0..Cardinality(DOMAIN db.type)] ==
        IF n = 0 THEN {<<id, id, 0>> : id \in DOMAIN db.type}
        ELSE LET below == up[n - 1] IN
               {<<r[1], db.parent[r[2]], n>> : r \in {x \in below : db.parent[x[2]] # Null}}
  IN  UNION {up[n] : n \in DOMAIN up}

AncestorPath(db, id) ==
  LET rows == {r \in Lineage(db) : r[1] = id /\ r[3] > 0}
  IN  [i \in 1..Cardinality(rows) |->
         (CHOOSE r \in rows : Cardinality({x \in rows : x[3] >= r[3]}) = i)[2]]

Known(db, ids) == ids \subseteq DOMAIN db.type
===============================================================================
