---------------------------- MODULE TraversalProofs ----------------------------
(***************************************************************************)
(* Theorems about module Traversal, for every set of nodes, every database *)
(* and every batch size.  IInv is inductive: each step that registers a    *)
(* node has read a row of a node taken from `pending`, and each taken node *)
(* has its rows recorded or still in `rows`; when nothing is pending, the  *)
(* nodes are therefore closed under scopes and relations, and they were    *)
(* within every closed set all the time.                                   *)
(***************************************************************************)
EXTENDS Traversal, TLAPS

(* Init establishes the invariant. *)
LEMMA InitInv == Init => IInv
  <1> SUFFICES ASSUME Init PROVE IInv
    OBVIOUS
  <1>1. TypeOK /\ ValidatedHierarchy
    BY DEF Init, TypeOK, Pcs
  <1>2. QueueHoldsNodes
    BY DEF Init, QueueHoldsNodes, Taken
  <1>3. NodesReachable /\ RowsRecorded /\ BatchesRead /\ ContainedSoFar
    BY DEF Init, NodesReachable, RowsRecorded, BatchesRead, ContainedSoFar, Started
  <1> QED
    BY <1>1, <1>2, <1>3 DEF IInv

(* The database does not change, and with it the notions defined from it. *)
LEMMA SameDatabase ==
  ASSUME UNCHANGED database
  PROVE  /\ ValidatedHierarchy => ValidatedHierarchy'
         /\ \A n \in Node : Scope(n)' = Scope(n)
         /\ \A S \in SUBSET Node : Closed(S)' <=> Closed(S)
         /\ \A S \in SUBSET Node : ScopeRows(S)' = ScopeRows(S)
         /\ \A S \in SUBSET Node : RelationRows(S)' = RelationRows(S)
         /\ \A n \in Node : RelationsOf(n)' = RelationsOf(n)
  <1>1. ValidatedHierarchy => ValidatedHierarchy'
    BY DEF database, ValidatedHierarchy
  <1>2. \A n \in Node : Scope(n)' = Scope(n) /\ Dependents(n)' = Dependents(n)
    BY DEF database, Scope, Dependents, isTraversableType
  <1>3. \A S \in SUBSET Node : Closed(S)' <=> Closed(S)
    BY <1>2 DEF Closed
  <1> QED
    BY <1>1, <1>2, <1>3 DEF database, ScopeRows, RelationRows, RelationsOf

(* The rows of the two queries are the pairs that Scope and relation give. *)
LEMMA RowsOfQueries ==
  ASSUME TypeOK, NEW S \in SUBSET Node
  PROVE  /\ ScopeRows(S) \subseteq Node \X Node
         /\ \A p, c \in Node : <<p, c>> \in ScopeRows(S) <=> p \in S /\ c \in Scope(p)
         /\ RelationRows(S) = {r \in relation : r[1] \in S}
  BY DEF TypeOK, ScopeRows, Scope, RelationRows

(* discover keeps `pending` an enumeration of `nodes`. *)
LEMMA DiscoverKeepsQueue ==
  ASSUME TypeOK, QueueHoldsNodes, NEW n \in Node, Discover(n),
         UNCHANGED <<head, batch>>, pc \notin {"contain", "done"}, pc' = pc
  PROVE  /\ QueueHoldsNodes'
         /\ Taken' = Taken
         /\ nodes' = nodes \cup {n}
         /\ nodes' \subseteq Node
         /\ pending' \in Seq(Node)
  <1>1. CASE n \in nodes
    BY <1>1 DEF Discover, QueueHoldsNodes, Taken, TypeOK
  <1>2. CASE n \notin nodes
    <2>1. /\ pending' = Append(pending, n)
          /\ nodes' = nodes \cup {n}
          /\ pending' \in Seq(Node)
          /\ Len(pending') = Len(pending) + 1
      BY <1>2 DEF Discover, TypeOK
    <2>2. /\ \A i \in 1..Len(pending) : pending'[i] = pending[i]
          /\ pending'[Len(pending) + 1] = n
      BY <2>1 DEF TypeOK
    <2>3. Taken' = Taken
      BY <2>2 DEF Taken, QueueHoldsNodes, TypeOK
    <2>4. nodes' = {pending'[i] : i \in 1..Len(pending')}
      <3>1. 1..Len(pending') = (1..Len(pending)) \cup {Len(pending) + 1}
        BY <2>1 DEF TypeOK
      <3> QED
        BY <3>1, <2>1, <2>2 DEF QueueHoldsNodes
    <2>5. \A i, j \in 1..Len(pending') : pending'[i] = pending'[j] => i = j
      <3>1. \A i \in 1..Len(pending) : pending[i] # n
        BY <1>2 DEF QueueHoldsNodes
      <3> QED
        BY <3>1, <2>1, <2>2 DEF QueueHoldsNodes, TypeOK
    <2>6. head' <= Len(pending')
      BY <2>1 DEF QueueHoldsNodes, TypeOK
    <2>7. pc' \notin {"contain", "done"} /\ batch' \subseteq Taken'
      BY <2>3 DEF QueueHoldsNodes
    <2>8. QueueHoldsNodes'
      BY <2>4, <2>5, <2>6, <2>7 DEF QueueHoldsNodes
    <2> QED
      BY <2>1, <2>3, <2>8 DEF TypeOK
  <1> QED
    BY <1>1, <1>2

(* Start registers the target. *)
LEMMA StartInv == ASSUME IInv, NEW t \in Node, Start(t) PROVE IInv'
  <1>1. UNCHANGED database
    BY DEF Start
  <1>2. CASE ~isTargetType(nodeType[t])
    <2>1. TypeOK'
      BY <1>2 DEF Start, IInv, TypeOK, Pcs, database
    <2>2. pc = "idle" /\ pc' = "failed" /\ UNCHANGED <<nodes, pending, head, batch, rows,
            connections, scopeEdges, endpoints, queue, contained>>
      BY <1>2 DEF Start
    <2>3. QueueHoldsNodes' /\ RowsRecorded' /\ BatchesRead' /\ ContainedSoFar'
      BY <1>1, <2>2 DEF IInv, QueueHoldsNodes, Taken, RowsRecorded, BatchesRead, ContainedSoFar,
          Started, database, Scope
    <2>4. NodesReachable'
      BY <2>2 DEF IInv, NodesReachable, Started
    <2> QED
      BY <1>1, <2>1, <2>3, <2>4, SameDatabase DEF IInv
  <1>3. CASE isTargetType(nodeType[t])
    <2>1. /\ pc = "idle" /\ pc' = "batch" /\ target' = t /\ nodes' = {t} /\ pending' = <<t>>
          /\ UNCHANGED <<head, batch, rows, connections, scopeEdges, endpoints, queue, contained>>
          /\ nodes = {}
      BY <1>3 DEF Start, IInv, NodesReachable
    <2>2. TypeOK'
      BY <1>1, <2>1 DEF IInv, TypeOK, Pcs, database
    <2>3. Len(pending) = 0 /\ head = 0 /\ Taken = {} /\ Taken' = {}
      <3>1. Len(pending) = 0
        <4>1. Len(pending) \in Nat
          BY DEF IInv, TypeOK
        <4>2. Len(pending) # 0 => pending[1] \in nodes
          BY <4>1 DEF IInv, QueueHoldsNodes
        <4> QED
          BY <4>2, <2>1
      <3> QED
        BY <3>1, <2>1 DEF IInv, QueueHoldsNodes, Taken, TypeOK
    <2>4. QueueHoldsNodes'
      BY <2>1, <2>3 DEF IInv, QueueHoldsNodes
    <2>5. NodesReachable'
      BY <2>1 DEF NodesReachable, Started
    <2>6. RowsRecorded' /\ BatchesRead'
      BY <2>1, <2>3 DEF IInv, RowsRecorded, BatchesRead, Started
    <2>7. ContainedSoFar'
      BY <2>1 DEF IInv, ContainedSoFar
    <2> QED
      BY <1>1, <2>2, <2>4, <2>5, <2>6, <2>7, SameDatabase DEF IInv
  <1> QED
    BY <1>2, <1>3

(* A batch moves from the pending nodes to the taken ones. *)
LEMMA TakeBatchInv == ASSUME IInv, TakeBatch PROVE IInv'
  <1>1. UNCHANGED database
    BY DEF TakeBatch
  <1>2. /\ head \in Nat /\ Len(pending) \in Nat
        /\ BatchEnd \in Nat /\ head <= BatchEnd /\ BatchEnd <= Len(pending)
        /\ head' = BatchEnd
    BY BatchAssumption DEF IInv, TypeOK, TakeBatch, HeadAfterBatch, BatchEnd
  <1>3. Taken' = Taken \cup batch'
    BY <1>2 DEF TakeBatch, Taken, found
  <1>4. batch' \subseteq nodes
    BY <1>2 DEF TakeBatch, IInv, QueueHoldsNodes
  <1>5. TypeOK'
    <2>1. batch' \in SUBSET Node
      BY <1>4 DEF IInv, TypeOK
    <2>3. rows' = ScopeRows(batch') /\ rows' \subseteq Node \X Node
      BY <2>1, RowsOfQueries DEF TakeBatch, IInv
    <2> QED
      BY <1>1, <1>2, <2>1, <2>3 DEF TakeBatch, IInv, TypeOK, Pcs, database, found
  <1>6. QueueHoldsNodes'
    BY <1>2, <1>3 DEF TakeBatch, IInv, QueueHoldsNodes, found
  <1>7. NodesReachable'
    BY <1>1, SameDatabase DEF TakeBatch, IInv, NodesReachable, Started, found
  <1>8. RowsRecorded'
    BY <1>1, <1>3 DEF TakeBatch, IInv, RowsRecorded, found, database, Scope, isTraversableType
  <1>9. BatchesRead'
    <2>1. \A n \in Taken : ScopeRead(n)' /\ (RelationsOf(n) \subseteq connections)'
      BY <1>1 DEF TakeBatch, IInv, BatchesRead, Started, ScopeRead, RelationsOf, found, database, Scope
    <2>2. rows' = ScopeRows(batch)'
      BY <1>1 DEF TakeBatch, database, ScopeRows
    <2> QED
      BY <1>3, <2>1, <2>2 DEF TakeBatch, BatchesRead, Started
  <1>10. ContainedSoFar'
    BY DEF TakeBatch, IInv, ContainedSoFar
  <1> QED
    BY <1>1, <1>5, <1>6, <1>7, <1>8, <1>9, <1>10, SameDatabase DEF IInv

(* A row of the scope query. *)
LEMMA ScopeRowInv == ASSUME IInv, ScopeRow PROVE IInv'
  <1>1. PICK row \in rows : /\ rows' = rows \ {row}
                            /\ Discover(row[2])
                            /\ scopeEdges' = scopeEdges \cup {row}
    BY DEF ScopeRow
  <1>2. /\ UNCHANGED <<database, pc, target, head, batch, connections, endpoints, queue, contained>>
        /\ pc = "scopes"
    BY DEF ScopeRow
  <1> PICK p \in Node, c \in Node : row = <<p, c>> /\ p \in batch /\ c \in Scope(p)
    <2>1. batch \in SUBSET Node /\ row \in ScopeRows(batch)
      BY <1>1, <1>2 DEF IInv, TypeOK, BatchesRead
    <2> QED
      BY <2>1, RowsOfQueries DEF IInv
  <1>3. /\ QueueHoldsNodes' /\ Taken' = Taken /\ nodes' = nodes \cup {c}
        /\ nodes' \subseteq Node /\ pending' \in Seq(Node)
    BY <1>1, <1>2, DiscoverKeepsQueue DEF IInv
  <1>4. p \in Taken /\ p \in nodes
    BY DEF IInv, QueueHoldsNodes, Taken, TypeOK
  <1>5. TypeOK'
    BY <1>1, <1>2, <1>3 DEF IInv, TypeOK, database
  <1>6. NodesReachable'
    <2>1. \A S \in SUBSET Node : target \in S /\ Closed(S) => nodes' \subseteq S
      BY <1>3, <1>4 DEF IInv, NodesReachable, Closed
    <2> QED
      BY <1>2, <1>3, <2>1, SameDatabase DEF IInv, NodesReachable, Started
  <1>7. RowsRecorded'
    BY <1>1, <1>2, <1>3, <1>4 DEF IInv, RowsRecorded, database, Scope, isTraversableType
  <1>8. BatchesRead'
    BY <1>1, <1>2, <1>3 DEF IInv, BatchesRead, Started, ScopeRead, RelationsOf, database, Scope,
        ScopeRows
  <1>9. ContainedSoFar'
    BY <1>2 DEF IInv, ContainedSoFar
  <1> QED
    BY <1>2, <1>3, <1>5, <1>6, <1>7, <1>8, <1>9, SameDatabase DEF IInv

(* The scope query has been read to its end. *)
LEMMA ScopesReadInv == ASSUME IInv, ScopesRead PROVE IInv'
  <1>1. /\ UNCHANGED <<database, target, found, head, batch, queue, contained>>
        /\ pc = "scopes" /\ pc' = "relations" /\ rows = {} /\ rows' = RelationRows(batch)
    BY DEF ScopesRead
  <1>2. TypeOK'
    BY <1>1, RowsOfQueries DEF IInv, TypeOK, Pcs, database, found
  <1>3. QueueHoldsNodes' /\ Taken' = Taken
    BY <1>1 DEF IInv, QueueHoldsNodes, Taken, found
  <1>4. NodesReachable'
    BY <1>1, SameDatabase DEF IInv, NodesReachable, Started, found
  <1>5. RowsRecorded'
    BY <1>1, <1>3 DEF IInv, RowsRecorded, found, database, Scope, isTraversableType
  <1>6. BatchesRead'
    <2>1. \A n \in batch : ScopeRead(n)
      <3>1. batch \in SUBSET Node /\ ScopeRows(batch) \subseteq scopeEdges
        BY <1>1 DEF IInv, BatchesRead, TypeOK
      <3> QED
        BY <3>1, RowsOfQueries DEF IInv, ScopeRead, Scope
    <2>2. \A n : ScopeRead(n)' <=> ScopeRead(n)
      BY <1>1 DEF ScopeRead, Scope, found, database
    <2>3. \A n : RelationsOf(n)' = RelationsOf(n)
      BY <1>1 DEF RelationsOf, database
    <2>4. RelationRows(batch)' = rows'
      BY <1>1 DEF RelationRows, database
    <2> QED
      BY <1>1, <1>3, <2>1, <2>2, <2>3, <2>4 DEF IInv, BatchesRead, Started, found
  <1>7. ContainedSoFar'
    BY <1>1 DEF IInv, ContainedSoFar
  <1> QED
    BY <1>1, <1>2, <1>3, <1>4, <1>5, <1>6, <1>7, SameDatabase DEF IInv

(* A row of the relation query. *)
LEMMA RelationRowInv == ASSUME IInv, RelationRow PROVE IInv'
  <1>1. PICK row \in rows :
          /\ rows' = rows \ {row}
          /\ connections' = connections \cup {row}
          /\ IF isTraversableType(nodeType[row[2]])
               THEN Discover(row[2]) /\ UNCHANGED endpoints
               ELSE endpoints' = endpoints \cup {row[2]} /\ UNCHANGED <<nodes, pending>>
    BY DEF RelationRow
  <1>2. /\ UNCHANGED <<database, pc, target, head, batch, scopeEdges, queue, contained>>
        /\ pc = "relations"
    BY DEF RelationRow
  <1> PICK n \in Node, m \in Node : row = <<n, m>> /\ row \in relation /\ n \in batch
    BY <1>1, <1>2 DEF IInv, TypeOK, BatchesRead, RelationRows
  <1>3. /\ QueueHoldsNodes' /\ Taken' = Taken /\ nodes \subseteq nodes'
        /\ nodes' \subseteq nodes \cup {m}
        /\ isTraversableType(nodeType[m]) => m \in nodes'
        /\ ~isTraversableType(nodeType[m]) => nodes' = nodes
        /\ nodes' \subseteq Node /\ pending' \in Seq(Node)
    <2>1. CASE isTraversableType(nodeType[m])
      BY <1>1, <1>2, <2>1, DiscoverKeepsQueue DEF IInv
    <2>2. CASE ~isTraversableType(nodeType[m])
      <3>1. UNCHANGED <<nodes, pending, head, batch, pc>>
        BY <1>1, <1>2, <2>2
      <3> QED
        BY <2>2, <3>1 DEF IInv, QueueHoldsNodes, Taken, TypeOK
    <2> QED
      BY <2>1, <2>2
  <1>4. n \in Taken /\ n \in nodes
    BY DEF IInv, QueueHoldsNodes, Taken, TypeOK
  <1>5. TypeOK'
    BY <1>1, <1>2, <1>3 DEF IInv, TypeOK, database
  <1>6. NodesReachable'
    <2>1. \A S \in SUBSET Node : target \in S /\ Closed(S) => nodes' \subseteq S
      <3> TAKE S \in SUBSET Node
      <3> HAVE target \in S /\ Closed(S)
      <3>1. n \in S /\ nodes \subseteq S
        BY <1>4 DEF IInv, NodesReachable
      <3>2. isTraversableType(nodeType[m]) => m \in S
        BY <3>1 DEF Closed, Dependents
      <3> QED
        BY <1>3, <3>1, <3>2
    <2> QED
      BY <1>2, <1>3, <2>1, SameDatabase DEF IInv, NodesReachable, Started
  <1>7. RowsRecorded'
    <2>1. \A e \in scopeEdges : e[1] \in Taken /\ e[2] \in Scope(e[1])' \cap nodes'
      BY <1>2, <1>3 DEF IInv, RowsRecorded, database, Scope
    <2>2. \A r \in connections' :
            /\ r[1] \in Taken
            /\ r[2] \in IF isTraversableType(nodeType[r[2]]) THEN nodes' ELSE endpoints'
      BY <1>1, <1>3, <1>4 DEF IInv, RowsRecorded
    <2>3. \A e \in endpoints' :
            ~isTraversableType(nodeType[e]) /\ \E r \in connections' : r[2] = e
      BY <1>1 DEF IInv, RowsRecorded
    <2> QED
      BY <1>2, <1>3, <2>1, <2>2, <2>3 DEF RowsRecorded, database, isTraversableType
  <1>8. BatchesRead'
    <2>1. \A x : ScopeRead(x)' <=> ScopeRead(x)
      BY <1>2 DEF ScopeRead, Scope, database
    <2>2. \A x : RelationsOf(x)' = RelationsOf(x)
      BY <1>2 DEF RelationsOf, database
    <2>3. RelationRows(batch)' = RelationRows(batch)
      BY <1>2 DEF RelationRows, database
    <2> QED
      BY <1>1, <1>2, <1>3, <2>1, <2>2, <2>3 DEF IInv, BatchesRead, Started
  <1>9. ContainedSoFar'
    BY <1>2 DEF IInv, ContainedSoFar
  <1> QED
    BY <1>2, <1>3, <1>5, <1>6, <1>7, <1>8, <1>9, SameDatabase DEF IInv

(* The relation query has been read to its end: the batch is settled. *)
LEMMA RelationsReadInv == ASSUME IInv, RelationsRead PROVE IInv'
  <1>1. /\ UNCHANGED <<database, target, found, head, batch, rows, queue, contained>>
        /\ pc = "relations" /\ pc' = "batch" /\ rows = {}
    BY DEF RelationsRead
  <1>2. TypeOK'
    BY <1>1 DEF IInv, TypeOK, Pcs, database, found
  <1>3. QueueHoldsNodes' /\ Taken' = Taken
    BY <1>1 DEF IInv, QueueHoldsNodes, Taken, found
  <1>4. NodesReachable'
    BY <1>1, SameDatabase DEF IInv, NodesReachable, Started, found
  <1>5. RowsRecorded'
    BY <1>1, <1>3 DEF IInv, RowsRecorded, found, database, Scope, isTraversableType
  <1>6. BatchesRead'
    <2>1. \A n \in Taken : ScopeRead(n) /\ RelationsOf(n) \subseteq connections
      BY <1>1 DEF IInv, BatchesRead, Started, RelationRows, RelationsOf
    <2>2. \A n : ScopeRead(n)' <=> ScopeRead(n)
      BY <1>1 DEF ScopeRead, Scope, found, database
    <2>3. \A n : RelationsOf(n)' = RelationsOf(n)
      BY <1>1 DEF RelationsOf, database
    <2> QED
      BY <1>1, <1>3, <2>1, <2>2, <2>3 DEF BatchesRead, found
  <1>7. ContainedSoFar'
    BY <1>1 DEF IInv, ContainedSoFar
  <1> QED
    BY <1>1, <1>2, <1>3, <1>4, <1>5, <1>6, <1>7, SameDatabase DEF IInv

(* Once every taken node is settled, the recorded scope edges of a registered
   node are its whole scope. *)
LEMMA ChildrenAreScope ==
  ASSUME IInv, head = Len(pending), pc \in {"batch", "contain"}, NEW n \in nodes
  PROVE  Children(n) = Scope(n)
  <1>1. n \in Taken
    BY DEF IInv, QueueHoldsNodes, Taken
  <1>2. ScopeRead(n)
    BY <1>1 DEF IInv, BatchesRead, Started
  <1>3. Scope(n) \subseteq Children(n)
    <2> SUFFICES ASSUME NEW c \in Scope(n) PROVE c \in Children(n)
      OBVIOUS
    <2>1. <<n, c>> \in scopeEdges
      BY <1>2 DEF ScopeRead
    <2>2. <<n, c>>[1] = n /\ <<n, c>>[2] = c
      OBVIOUS
    <2> QED
      BY <2>1, <2>2 DEF Children
  <1>4. Children(n) \subseteq Scope(n)
    BY DEF Children, IInv, RowsRecorded
  <1> QED
    BY <1>3, <1>4

(* The scope of a node below the target is below the target. *)
LEMMA BelowClosed ==
  /\ \A n \in Below : Scope(n) \subseteq Below
  /\ Scope(target) \subseteq Below
  BY DEF Below, ClosedBelow, Scope

(* containedNodeIDs starts with the children of a target network. *)
LEMMA BeginFinishInv == ASSUME IInv, BeginFinish PROVE IInv'
  <1>1. /\ UNCHANGED <<database, target, found, head, batch, rows, contained>>
        /\ pc = "batch" /\ pc' = "contain" /\ head = Len(pending)
    BY DEF BeginFinish
  <1>2. queue' = Scope(target) /\ contained = {}
    <2>1. target \in nodes
      BY <1>1 DEF IInv, NodesReachable, Started
    <2>2. Children(target) = Scope(target)
      BY <1>1, <2>1, ChildrenAreScope
    <2>3. nodeType[target] # "job_network" => Scope(target) = {}
      BY DEF Scope
    <2> QED
      BY <1>1, <2>2, <2>3 DEF BeginFinish, IInv, ContainedSoFar
  <1>3. TypeOK'
    BY <1>1, <1>2 DEF IInv, TypeOK, Pcs, database, found, Scope
  <1>4. QueueHoldsNodes' /\ Taken' = Taken
    BY <1>1 DEF IInv, QueueHoldsNodes, Taken, found
  <1>5. NodesReachable'
    BY <1>1, SameDatabase DEF IInv, NodesReachable, Started, found
  <1>6. RowsRecorded'
    BY <1>1, <1>4 DEF IInv, RowsRecorded, found, database, Scope, isTraversableType
  <1>7. BatchesRead'
    BY <1>1, <1>4 DEF IInv, BatchesRead, Started, ScopeRead, RelationsOf, found, database, Scope
  <1>8. ContainedSoFar'
    <2>1. Below' = Below
      BY <1>1 DEF Below, ClosedBelow, Scope, database
    <2>2. \A n : Scope(n)' = Scope(n)
      BY <1>1 DEF Scope, database
    <2> QED
      BY <1>1, <1>2, <2>1, <2>2, BelowClosed DEF ContainedSoFar
  <1> QED
    BY <1>1, <1>3, <1>4, <1>5, <1>6, <1>7, <1>8, SameDatabase DEF IInv

(* containedNodeIDs looks at one more node, then ends; a failure ends it all. *)
LEMMA ContainInv == ASSUME IInv, Contain \/ Finish \/ Fail PROVE IInv'
  <1>1. /\ UNCHANGED <<database, target, found, head, batch, rows>>
        /\ pc' = pc \/ pc' = "failed" \/ (pc = "contain" /\ pc' = "done")
    BY DEF Contain, Finish, Fail
  <1>2. QueueHoldsNodes' /\ Taken' = Taken
    BY <1>1 DEF IInv, QueueHoldsNodes, Taken, found
  <1>3. NodesReachable'
    BY <1>1, SameDatabase DEF IInv, NodesReachable, Started, found
  <1>4. RowsRecorded'
    BY <1>1, <1>2 DEF IInv, RowsRecorded, found, database, Scope, isTraversableType
  <1>5. BatchesRead'
    <2>1. UNCHANGED <<nodeType, parent, relation, scopeEdges, connections, rows, batch>>
      BY <1>1 DEF found, database
    <2> QED
      BY <1>1, <1>2, <2>1 DEF IInv, BatchesRead, Started, ScopeRead, RelationsOf, Scope,
          ScopeRows, RelationRows
  <1>6. Below' = Below /\ \A n : Scope(n)' = Scope(n)
    BY <1>1 DEF Below, ClosedBelow, Scope, database
  <1>7. CASE Contain
    <2>1. PICK n \in queue :
            IF n \in contained
              THEN queue' = queue \ {n} /\ UNCHANGED contained
              ELSE queue' = NextContained(n) /\ contained' = contained \cup {n}
      BY <1>7 DEF Contain
    <2>2. pc = "contain" /\ pc' = "contain" /\ head = Len(pending)
      BY <1>7 DEF Contain, IInv, QueueHoldsNodes
    <2>3. n \in Below /\ n \in nodes
      <3>1. queue \subseteq Below
        BY <2>2 DEF IInv, ContainedSoFar
      <3>2. ClosedBelow(nodes, target) /\ nodes \in SUBSET Node
        <4>1. \A x \in nodes : Children(x) = Scope(x)
          BY <2>2, ChildrenAreScope
        <4>2. \A x \in nodes : Scope(x) \subseteq nodes
          BY <4>1 DEF Children, IInv, RowsRecorded
        <4> QED
          BY <2>2, <4>2 DEF ClosedBelow, IInv, NodesReachable, Started, TypeOK
      <3> QED
        BY <3>1, <3>2 DEF Below
    <2>4. NextContained(n) = (queue \ {n}) \cup Scope(n)
      BY <2>2, <2>3, ChildrenAreScope DEF NextContained
    <2>5. TypeOK'
      BY <1>1, <2>1, <2>2, <2>4 DEF IInv, TypeOK, database, found, Scope
    <2>6. ContainedSoFar'
      <3>1. contained' \cup queue' \subseteq Below
        BY <2>1, <2>2, <2>3, <2>4, BelowClosed DEF IInv, ContainedSoFar
      <3>2. \A x \in contained' \cup {target} : Scope(x) \subseteq contained' \cup queue'
        BY <2>1, <2>2, <2>4 DEF IInv, ContainedSoFar
      <3> QED
        BY <1>1, <1>6, <2>2, <3>1, <3>2 DEF ContainedSoFar
    <2> QED
      BY <1>1, <1>2, <1>3, <1>4, <1>5, <2>5, <2>6, SameDatabase DEF IInv
  <1>8. CASE Finish \/ Fail
    <2>1. UNCHANGED <<queue, contained>> /\ (pc' = "done" => queue = {}) /\ pc' \in {"done", "failed"}
      BY <1>8 DEF Finish, Fail
    <2>2. pc' = "done" => pc = "contain"
      BY <1>8 DEF Finish, Fail
    <2>3. TypeOK'
      BY <1>1, <2>1 DEF IInv, TypeOK, Pcs, database, found
    <2>4. ContainedSoFar'
      BY <1>1, <1>6, <2>1, <2>2 DEF IInv, ContainedSoFar
    <2> QED
      BY <1>1, <1>2, <1>3, <1>4, <1>5, <2>3, <2>4, SameDatabase DEF IInv
  <1> QED
    BY <1>7, <1>8

--------------------------------------------------------------------------------
(* Every step keeps the invariant. *)
LEMMA NextInv == IInv /\ [Next]_vars => IInv'
  <1> SUFFICES ASSUME IInv, [Next]_vars PROVE IInv'
    OBVIOUS
  <1>1. ASSUME NEW t \in Node, Start(t) PROVE IInv'
    BY <1>1, StartInv
  <1>2. CASE TakeBatch
    BY <1>2, TakeBatchInv
  <1>3. CASE ScopeRow
    BY <1>3, ScopeRowInv
  <1>4. CASE ScopesRead
    BY <1>4, ScopesReadInv
  <1>5. CASE RelationRow
    BY <1>5, RelationRowInv
  <1>6. CASE RelationsRead
    BY <1>6, RelationsReadInv
  <1>7. CASE BeginFinish
    BY <1>7, BeginFinishInv
  <1>8. CASE Contain \/ Finish \/ Fail
    BY <1>8, ContainInv
  <1>9. CASE UNCHANGED vars
    BY <1>9 DEF vars, database, found, IInv, TypeOK, ValidatedHierarchy, QueueHoldsNodes, Taken,
        NodesReachable, Started, Closed, Scope, Dependents, RowsRecorded, BatchesRead,
        ScopeRead, RelationsOf, ScopeRows, RelationRows, ContainedSoFar, Below, ClosedBelow
  <1> QED
    BY <1>1, <1>2, <1>3, <1>4, <1>5, <1>6, <1>7, <1>8, <1>9 DEF Next, Work

(* The invariant holds in every state of every traversal: pending enumerates
   the registered nodes, and each taken node's rows are recorded or being read. *)
THEOREM Invariance == Spec => []IInv
  BY InitInv, NextInv, PTL DEF Spec

(* Every variable of the traversal keeps its type. *)
THEOREM TypeCorrect == Spec => []TypeOK
  <1>1. IInv => TypeOK
    BY DEF IInv
  <1> QED
    BY <1>1, Invariance, PTL

(* When Traverse returns a result, the registered nodes are exactly the
   reachable ones: they are closed under the expansion of every one of them. *)
LEMMA ResultClosed ==
  ASSUME IInv, pc = "done"
  PROVE  /\ nodes = Taken
         /\ \A n \in nodes : ScopeRead(n) /\ RelationsOf(n) \subseteq connections
         /\ nodes = Reachable
  <1>1. nodes = Taken
    BY DEF IInv, QueueHoldsNodes, Taken
  <1>2. \A n \in nodes : ScopeRead(n) /\ RelationsOf(n) \subseteq connections
    BY <1>1 DEF IInv, BatchesRead, Started
  <1>3. Closed(nodes)
    <2> SUFFICES ASSUME NEW n \in nodes PROVE Scope(n) \cup Dependents(n) \subseteq nodes
      BY DEF Closed
    <2>1. ASSUME NEW c \in Scope(n) PROVE c \in nodes
      <3>1. <<n, c>> \in scopeEdges
        BY <1>2 DEF ScopeRead
      <3> QED
        BY <3>1 DEF IInv, RowsRecorded
    <2>2. ASSUME NEW m \in Dependents(n) PROVE m \in nodes
      <3>1. <<n, m>> \in connections /\ isTraversableType(nodeType[m])
        BY <1>2 DEF RelationsOf, Dependents
      <3> QED
        BY <3>1 DEF IInv, RowsRecorded
    <2> QED
      BY <2>1, <2>2
  <1>4. target \in nodes /\ nodes \in SUBSET Node
    BY DEF IInv, NodesReachable, Started, TypeOK
  <1>5. Reachable \subseteq nodes
    BY <1>3, <1>4 DEF Reachable
  <1>6. nodes \subseteq Reachable
    BY <1>4 DEF IInv, NodesReachable, Reachable
  <1> QED
    BY <1>1, <1>2, <1>5, <1>6

(* The result Traverse returns is complete and exact, whatever the graph, the
   batch size and the order of the rows. *)
THEOREM ResultIsReachability == Spec => []ResultComplete
  <1>1. IInv => ResultComplete
    <2> SUFFICES ASSUME IInv, pc = "done"
                 PROVE  /\ nodes = Reachable
                        /\ connections = {r \in relation : r[1] \in Reachable}
                        /\ scopeEdges = {r \in Node \X Node : r[1] \in Reachable /\ r[2] \in Scope(r[1])}
                        /\ endpoints = {m \in Node : /\ ~isTraversableType(nodeType[m])
                                                     /\ \E n \in Reachable : <<n, m>> \in relation}
      BY DEF ResultComplete
    <2>1. /\ nodes = Taken /\ nodes = Reachable
          /\ \A n \in nodes : ScopeRead(n) /\ RelationsOf(n) \subseteq connections
      BY ResultClosed
    <2>2. connections = {r \in relation : r[1] \in nodes}
      BY <2>1 DEF IInv, TypeOK, RowsRecorded, RelationsOf
    <2>3. scopeEdges = {r \in Node \X Node : r[1] \in nodes /\ r[2] \in Scope(r[1])}
      <3>1. ASSUME NEW r \in Node \X Node, r[1] \in nodes, r[2] \in Scope(r[1])
            PROVE  r \in scopeEdges
        <4>1. r = <<r[1], r[2]>>
          OBVIOUS
        <4>2. <<r[1], r[2]>> \in scopeEdges
          BY <2>1, <3>1 DEF ScopeRead
        <4> QED
          BY <4>1, <4>2
      <3>2. \A r \in scopeEdges : r \in Node \X Node /\ r[1] \in nodes /\ r[2] \in Scope(r[1])
        BY <2>1 DEF IInv, TypeOK, RowsRecorded
      <3> QED
        BY <3>1, <3>2
    <2>4. endpoints = {m \in Node : /\ ~isTraversableType(nodeType[m])
                                    /\ \E n \in nodes : <<n, m>> \in relation}
      <3>1. ASSUME NEW m \in endpoints
            PROVE  m \in Node /\ ~isTraversableType(nodeType[m]) /\ \E n \in nodes : <<n, m>> \in relation
        <4>1. PICK r \in connections : r[2] = m
          BY DEF IInv, RowsRecorded
        <4>2. r \in relation /\ r \in Node \X Node /\ r[1] \in nodes
          BY <2>1, <4>1 DEF IInv, TypeOK, RowsRecorded
        <4>3. r = <<r[1], m>>
          BY <4>1, <4>2
        <4> QED
          BY <4>2, <4>3 DEF IInv, RowsRecorded, TypeOK
      <3>2. ASSUME NEW m \in Node, ~isTraversableType(nodeType[m]),
                   NEW n \in nodes, <<n, m>> \in relation
            PROVE  m \in endpoints
        <4>1. <<n, m>> \in connections
          BY <2>2, <3>2
        <4>2. <<n, m>>[2] = m
          OBVIOUS
        <4> QED
          BY <3>2, <4>1, <4>2 DEF IInv, RowsRecorded
      <3> QED
        BY <3>1, <3>2
    <2> QED
      BY <2>1, <2>2, <2>3, <2>4
  <1> QED
    BY <1>1, Invariance, PTL

(* No node enters pending twice and every registered node is expanded. *)
THEOREM ExpansionOnce == Spec => []ExpandedOnce
  <1>1. IInv => ExpandedOnce
    BY DEF IInv, QueueHoldsNodes, ExpandedOnce
  <1> QED
    BY <1>1, Invariance, PTL

(* In a validated hierarchy no network is below itself: the nodes below it
   whose parent is below or equal to it are closed below it, and a nonempty
   set that has the parents of all its nodes would be a cycle of parents. *)
LEMMA NotBelowItself ==
  ASSUME IInv, target \in Node
  PROVE  target \notin Below
  <1> SUFFICES ASSUME target \in Below PROVE FALSE
    OBVIOUS
  <1> DEFINE Rooted == {x \in Below : parent[x] \in Below}
  <1>1. Below \in SUBSET Node
    BY DEF Below
  <1>2. ClosedBelow(Rooted, target)
    <2> SUFFICES ASSUME NEW n \in Rooted \cup {target}, NEW c \in Scope(n) PROVE c \in Rooted
      BY DEF ClosedBelow
    <2>1. n \in Below
      OBVIOUS
    <2>2. c \in Below /\ parent[c] = n
      BY <2>1, BelowClosed DEF Scope
    <2> QED
      BY <2>1, <2>2
  <1>3. Below \subseteq Rooted
    BY <1>1, <1>2 DEF Below
  <1>4. \A x \in Below : parent[x] \in Below
    BY <1>3
  <1> QED
    BY <1>1, <1>4 DEF IInv, ValidatedHierarchy

(* Contained are exactly the nodes below a target network, and the target is
   not among them, in every hierarchy that passed the import checks. *)
THEOREM ContainedIsBelow == Spec => []ContainedComplete
  <1>1. IInv => ContainedComplete
    <2> SUFFICES ASSUME IInv, pc = "done"
                 PROVE  contained = Below /\ contained \subseteq nodes \ {target}
      BY DEF ContainedComplete
    <2>1. /\ contained \subseteq Below
          /\ ClosedBelow(contained, target)
      BY DEF IInv, ContainedSoFar, ClosedBelow
    <2>2. Below \subseteq contained
      BY <2>1 DEF Below, IInv, TypeOK
    <2>3. target \in nodes /\ nodes \in SUBSET Node /\ target \in Node
      BY DEF IInv, NodesReachable, Started, TypeOK
    <2>4. ClosedBelow(nodes, target)
      <3>1. ASSUME NEW n \in nodes, NEW c \in Scope(n) PROVE c \in nodes
        <4>1. <<n, c>> \in scopeEdges
          BY ResultClosed DEF ScopeRead
        <4> QED
          BY <4>1 DEF IInv, RowsRecorded
      <3> QED
        BY <2>3, <3>1 DEF ClosedBelow
    <2>5. Below \subseteq nodes
      BY <2>3, <2>4 DEF Below
    <2> QED
      BY <2>1, <2>2, <2>3, <2>5, NotBelowItself
  <1> QED
    BY <1>1, Invariance, PTL
===============================================================================
