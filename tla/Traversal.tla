------------------------------- MODULE Traversal -------------------------------
(***************************************************************************)
(* internal/traversal.Traverse: the search for every node that depends on  *)
(* a target.  Nodes are taken from `pending` in batches; a batch is        *)
(* expanded by one query for the logical children of its job networks and  *)
(* one for its outgoing relations, whose rows are handled one by one.  The *)
(* rows of a query come in any order here: no result depends on ORDER BY.  *)
(*                                                                         *)
(* The database is an immutable generation that passed the import checks:  *)
(* parents form a forest of the allowed types and relations join existing  *)
(* nodes.  Any step may instead end in an error: a failed query, or the    *)
(* request's context cancelled or past its deadline.  findCycles, the last *)
(* part of finish, is module CycleSearch.                                  *)
(***************************************************************************)
EXTENDS Naturals, Sequences, FiniteSets

CONSTANTS
  Node,       \* node IDs
  None,       \* no parent, no target
  BatchSize   \* queryBatchSize (500)

ASSUME NodeAssumption == None \notin Node
ASSUME BatchAssumption == BatchSize \in Nat \ {0}

VARIABLES
  nodeType, parent, relation,  \* the database: constant after Init
  pc,           \* where Traverse is
  target,       \* state.target
  nodes,        \* state.nodes: the IDs registered so far
  pending,      \* state.pending
  head,         \* state.pendingHead
  batch,        \* the IDs of the batch that is expanded
  rows,         \* rows of the running query that are still to be read
  connections,  \* state.connections: the pairs (from, to)
  scopeEdges,   \* state.scopeEdges: the pairs (parent, child)
  endpoints,    \* state.endpoints
  queue,        \* containedNodeIDs: IDs still to be looked at
  contained     \* containedNodeIDs: the set it returns

database == <<nodeType, parent, relation>>
found == <<nodes, pending, connections, scopeEdges, endpoints>>
vars == <<database, pc, target, found, head, batch, rows, queue, contained>>

NodeTypes == {"management_unit", "job_network", "job", "file", "file_pattern",
              "job_status", "external_event"}
isTargetType(t) == t \in {"job", "job_network"}
isTraversableType(t) ==
  t \in {"job", "job_network", "file", "file_pattern", "job_status", "external_event"}

(* allowedParent of package snapshot. *)
AllowedParent(child, of) ==
  \/ child = "management_unit" /\ of = "management_unit"
  \/ child = "job_network" /\ of \in {"management_unit", "job_network"}
  \/ child = "job" /\ of = "job_network"

ValidatedHierarchy ==
  /\ \A n \in Node : parent[n] # None => AllowedParent(nodeType[n], nodeType[parent[n]])
  /\ \A S \in SUBSET Node : S # {} => \E n \in S : parent[n] \notin S

Pcs == {"idle", "batch", "scopes", "relations", "contain", "done", "failed"}

TypeOK ==
  /\ nodeType \in [Node -> NodeTypes]
  /\ parent \in [Node -> Node \cup {None}]
  /\ relation \subseteq Node \X Node
  /\ pc \in Pcs
  /\ target \in Node \cup {None}
  /\ nodes \subseteq Node
  /\ pending \in Seq(Node)
  /\ head \in Nat
  /\ batch \subseteq Node
  /\ rows \subseteq Node \X Node
  /\ connections \subseteq relation
  /\ scopeEdges \subseteq Node \X Node
  /\ endpoints \subseteq Node
  /\ queue \subseteq Node
  /\ contained \subseteq Node

Init ==
  /\ nodeType \in [Node -> NodeTypes]
  /\ parent \in [Node -> Node \cup {None}]
  /\ ValidatedHierarchy
  /\ relation \in SUBSET (Node \X Node)
  /\ pc = "idle"
  /\ target = None
  /\ nodes = {}
  /\ pending = <<>>
  /\ head = 0
  /\ batch = {}
  /\ rows = {}
  /\ connections = {}
  /\ scopeEdges = {}
  /\ endpoints = {}
  /\ queue = {}
  /\ contained = {}

--------------------------------------------------------------------------------
(* The logical children of the networks in S, as rows (parent, child). *)
ScopeRows(S) ==
  {<<parent[c], c>> : c \in {n \in Node : /\ parent[n] \in S
                                          /\ nodeType[parent[n]] = "job_network"
                                          /\ nodeType[n] \in {"job", "job_network"}}}

\* Bug: relations are read only for the jobs of the batch.
RelationRowsOfJobs(S) == {r \in relation : r[1] \in S /\ nodeType[r[1]] = "job"}

RelationRows(S) == {r \in relation : r[1] \in S}

(* selectNode and the check of the target's type. *)
Start(t) ==
  /\ pc = "idle"
  /\ target' = t
  /\ IF isTargetType(nodeType[t])
       THEN /\ pc' = "batch"
            /\ nodes' = {t}
            /\ pending' = <<t>>
       ELSE /\ pc' = "failed"
            /\ UNCHANGED <<nodes, pending>>
  /\ UNCHANGED <<database, head, batch, rows, connections, scopeEdges, endpoints,
                 queue, contained>>

BatchEnd == IF head + BatchSize < Len(pending) THEN head + BatchSize ELSE Len(pending)

\* Bug: pendingHead is not moved.
HeadAfterBatchForgotten == head

HeadAfterBatch == BatchEnd

(* takeBatch, and the scope query for its networks. *)
TakeBatch ==
  /\ pc = "batch"
  /\ head < Len(pending)
  /\ batch' = {pending[i] : i \in (head + 1)..BatchEnd}
  /\ head' = HeadAfterBatch
  /\ rows' = ScopeRows(batch')
  /\ pc' = "scopes"
  /\ UNCHANGED <<database, target, found, queue, contained>>

(* discover: a node is registered and queued the first time it is met. *)
Discover(n) ==
  /\ nodes' = nodes \cup {n}
  /\ pending' = IF n \in nodes THEN pending ELSE Append(pending, n)

ScopeRow ==
  /\ pc = "scopes"
  /\ \E row \in rows :
       /\ rows' = rows \ {row}
       /\ Discover(row[2])
       /\ scopeEdges' = scopeEdges \cup {row}
  /\ UNCHANGED <<database, pc, target, head, batch, connections, endpoints,
                 queue, contained>>

(* The scope query is read to its end; the relation query follows. *)
ScopesRead ==
  /\ pc = "scopes"
  /\ rows = {}
  /\ rows' = RelationRows(batch)
  /\ pc' = "relations"
  /\ UNCHANGED <<database, target, found, head, batch, queue, contained>>

RelationRow ==
  /\ pc = "relations"
  /\ \E row \in rows :
       /\ rows' = rows \ {row}
       /\ connections' = connections \cup {row}
       /\ IF isTraversableType(nodeType[row[2]])
            THEN Discover(row[2]) /\ UNCHANGED endpoints
            ELSE endpoints' = endpoints \cup {row[2]} /\ UNCHANGED <<nodes, pending>>
  /\ UNCHANGED <<database, pc, target, head, batch, scopeEdges, queue,
                 contained>>

RelationsRead ==
  /\ pc = "relations"
  /\ rows = {}
  /\ pc' = "batch"
  /\ UNCHANGED <<database, target, found, head, batch, rows, queue, contained>>

Children(n) == {edge[2] : edge \in {x \in scopeEdges : x[1] = n}}

(* Nothing is pending: finish starts with containedNodeIDs. *)
BeginFinish ==
  /\ pc = "batch"
  /\ head = Len(pending)
  /\ pc' = "contain"
  /\ queue' = IF nodeType[target] = "job_network" THEN Children(target) ELSE {}
  /\ UNCHANGED <<database, target, found, head, batch, rows, contained>>

\* Bug: only the direct children are contained.
NextContainedDirect(n) == queue \ {n}

NextContained(n) == (queue \ {n}) \cup Children(n)

Contain ==
  /\ pc = "contain"
  /\ \E n \in queue :
       IF n \in contained
         THEN queue' = queue \ {n} /\ UNCHANGED contained
         ELSE queue' = NextContained(n) /\ contained' = contained \cup {n}
  /\ UNCHANGED <<database, pc, target, found, head, batch, rows>>

Finish ==
  /\ pc = "contain"
  /\ queue = {}
  /\ pc' = "done"
  /\ UNCHANGED <<database, target, found, head, batch, rows, queue, contained>>

(* A query fails or the context is done: no result, not even a partial one. *)
Fail ==
  /\ pc \notin {"done", "failed"}
  /\ pc' = "failed"
  /\ UNCHANGED <<database, target, found, head, batch, rows, queue, contained>>

Work ==
  \/ TakeBatch
  \/ ScopeRow
  \/ ScopesRead
  \/ RelationRow
  \/ RelationsRead
  \/ BeginFinish
  \/ Contain
  \/ Finish

Next == (\E t \in Node : Start(t)) \/ Work \/ Fail

Spec == Init /\ [][Next]_vars
FairSpec == Spec /\ WF_vars(Work)

--------------------------------------------------------------------------------
(* What a traversal must find, stated without an algorithm. *)

Scope(n) == {c \in Node : /\ nodeType[n] = "job_network"
                         /\ parent[c] = n
                         /\ nodeType[c] \in {"job", "job_network"}}

Dependents(n) == {m \in Node : <<n, m>> \in relation /\ isTraversableType(nodeType[m])}

(* S is closed under the scope of its networks and under relations to
   traversable nodes. *)
Closed(S) == \A n \in S : Scope(n) \cup Dependents(n) \subseteq S

(* The nodes reachable from the target: in every closed set that has it. *)
Reachable == {n \in Node : \A S \in SUBSET Node : target \in S /\ Closed(S) => n \in S}

ClosedBelow(S, t) == \A n \in S \cup {t} : Scope(n) \subseteq S

(* The nodes below the target in the hierarchy of networks and jobs. *)
Below == {n \in Node : \A S \in SUBSET Node : ClosedBelow(S, target) => n \in S}

(* "Traverse returns every node reachable from targetID through relations and
   the scopes of job networks" (traversal.go:134), however the nodes fall into
   batches: the nodes, the connections, the scope edges and the endpoints of a
   returned result are exactly the ones the definition of reachability gives. *)
ResultComplete ==
  pc = "done" =>
    /\ nodes = Reachable
    /\ connections = {r \in relation : r[1] \in Reachable}
    /\ scopeEdges = {r \in Node \X Node : r[1] \in Reachable /\ r[2] \in Scope(r[1])}
    /\ endpoints = {m \in Node : /\ ~isTraversableType(nodeType[m])
                                 /\ \E n \in Reachable : <<n, m>> \in relation}

(* Contained are exactly the nodes below a target network, all of them reached,
   and never the target itself. *)
ContainedComplete ==
  pc = "done" =>
    /\ contained = Below
    /\ contained \subseteq nodes \ {target}

(* "Only an ID registered in nodes for the first time enters pending, the same
   ID never twice, so the scope of a job network is expanded at most once"
   (traversal.go:123); and every registered node is expanded. *)
ExpandedOnce ==
  /\ \A i, j \in 1..Len(pending) : pending[i] = pending[j] => i = j
  /\ pc = "done" => head = Len(pending) /\ nodes = {pending[i] : i \in 1..head}

(* The inductive invariant. *)

Taken == {pending[i] : i \in 1..head}

Started == pc \notin {"idle", "failed"}

QueueHoldsNodes ==
  /\ head <= Len(pending)
  /\ nodes = {pending[i] : i \in 1..Len(pending)}
  /\ \A i, j \in 1..Len(pending) : pending[i] = pending[j] => i = j
  /\ pc \in {"contain", "done"} => head = Len(pending)
  /\ batch \subseteq Taken

(* Nothing is registered that is not reachable. *)
NodesReachable ==
  /\ Started => target \in nodes
  /\ pc = "idle" => nodes = {}
  /\ \A S \in SUBSET Node : target \in S /\ Closed(S) => nodes \subseteq S

(* What the rows read so far have left behind. *)
RowsRecorded ==
  /\ \A e \in scopeEdges : e[1] \in Taken /\ e[2] \in Scope(e[1]) \cap nodes
  /\ \A r \in connections :
       /\ r[1] \in Taken
       /\ r[2] \in IF isTraversableType(nodeType[r[2]]) THEN nodes ELSE endpoints
  /\ \A m \in endpoints :
       ~isTraversableType(nodeType[m]) /\ \E r \in connections : r[2] = m

ScopeRead(n) == \A c \in Scope(n) : <<n, c>> \in scopeEdges
RelationsOf(n) == {r \in relation : r[1] = n}

(* Every row of a node taken before has been read; those of the batch are
   among the rows still to be read. *)
BatchesRead ==
  /\ Started => \A n \in Taken :
       n \notin batch \/ pc \in {"batch", "contain", "done"} =>
         ScopeRead(n) /\ RelationsOf(n) \subseteq connections
  /\ pc = "scopes" =>
       /\ rows \subseteq ScopeRows(batch)
       /\ ScopeRows(batch) \subseteq rows \cup scopeEdges
  /\ pc = "relations" =>
       /\ \A n \in batch : ScopeRead(n)
       /\ rows \subseteq RelationRows(batch)
       /\ RelationRows(batch) \subseteq rows \cup connections

(* containedNodeIDs keeps to the nodes below the target and forgets none. *)
ContainedSoFar ==
  /\ pc \in {"idle", "batch", "scopes", "relations"} => queue = {} /\ contained = {}
  /\ pc \in {"contain", "done"} =>
       /\ contained \cup queue \subseteq Below
       /\ \A n \in contained \cup {target} : Scope(n) \subseteq contained \cup queue
  /\ pc = "done" => queue = {}

IInv ==
  /\ TypeOK
  /\ ValidatedHierarchy
  /\ QueueHoldsNodes
  /\ NodesReachable
  /\ RowsRecorded
  /\ BatchesRead
  /\ ContainedSoFar

(* Liveness under Fairness: a started traversal ends, cycles or not. *)
Terminates == pc = "batch" ~> pc \in {"done", "failed"}
===============================================================================
