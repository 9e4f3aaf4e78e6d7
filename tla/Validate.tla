-------------------------------- MODULE Validate -------------------------------
(***************************************************************************)
(* internal/snapshot: Validate, which checks an extracted snapshot phase   *)
(* by phase and stops at the first problem, and Load, which reads the      *)
(* files once more into the database.                                      *)
(*                                                                         *)
(* The three files are the input.  A line is a record of what the checks   *)
(* look at; `form` says whether it is JSON, fits its schema and has        *)
(* durations of whole seconds.  The largest numbers of nodes, limits and   *)
(* so on are parameters.                                                   *)
(***************************************************************************)
EXTENDS Integers, Sequences, FiniteSets, SequencesExt, FiniteSetsExt

CONSTANTS
  Node,       \* node IDs, those of missing nodes among them
  Limit,      \* limit IDs
  Body,       \* what a relation says beyond its two ends
  Canonical,  \* identity.Canonical: the ID of a namespace and a local ID
  Decode,     \* identity.Decode: also of IDs that are not written as Canonical does
  None,
  MaxSnapshotNodes, MaxSnapshotLimits, MaxSnapshotRelations, MaxJobNetworkDepth, MaxSCCNodes

ASSUME CanonicalAssumption ==
  /\ None \notin Node
  /\ \A k \in DOMAIN Canonical : k = <<k[1], k[2]>> /\ Canonical[k] \in Node
  /\ \A k \in DOMAIN Canonical : Canonical[k] \in DOMAIN Decode /\ Decode[Canonical[k]] = k

(* The kinds of what is wrong with a line or a node, and a duplicate. *)
Kinds ==
  {"invalid_json", "schema_violation", "invalid_limit_owner", "invalid_parent_type", "invalid_duration",
   "multiple_parents", "duplicate_node", "duplicate_limit", "missing_parent", "missing_node",
   "capacity_exceeded", "duplicate_relation"}
ASSUME NoneAssumption == None \notin Kinds /\ None \notin [line : Nat, kind : Kinds]
ASSUME MaximaAssumption ==
  {MaxSnapshotNodes, MaxSnapshotLimits, MaxSnapshotRelations, MaxJobNetworkDepth, MaxSCCNodes} \subseteq Nat

VARIABLES
  manifest,       \* whether manifest.json is in order, and its counts
  nodeLines,      \* the lines of nodes.ndjson
  relationLines,  \* the lines of relations.ndjson
  pc,             \* the phase that Validate is in
  line,           \* lines or nodes the running loop is done with
  error,          \* the error that is returned: phase, kind and line
  nodeByID,       \* the first definition of each node
  orderedNodeIDs, \* the IDs in the order of these definitions
  limitIDs, limitCount,
  duplicateErr,   \* the first duplicate in nodes.ndjson
  path, current,  \* validateParentHierarchy: the chain it follows upwards
  depthByID,      \* its depths; the nodes of state 2 are the DOMAIN
  seen,           \* readRelations: the relation IDs met
  adjacency,      \* sccGraph, as a set of pairs
  indices, lowlinks, stack, maximum,  \* maxSCCNodes
  frames,         \* the calls of visit that run, with the neighbours left to each
  tables          \* what Load has committed

files == <<manifest, nodeLines, relationLines>>
gathered == <<nodeByID, orderedNodeIDs, limitIDs, limitCount, duplicateErr>>
hierarchy == <<path, current, depthByID>>
graph == <<seen, adjacency>>
tarjan == <<indices, lowlinks, stack, maximum, frames>>
vars == <<files, pc, line, error, gathered, hierarchy, graph, tarjan, tables>>

(* A line may name the default namespace: it is refused for that. *)
Explicit == DOMAIN Canonical \cup ({"default"} \X {k[2] : k \in DOMAIN Canonical})

(* What else is wrong: not JSON; values of other types than nodeInput has; against the
   schema in another way; a limit with what durationSeconds does not take for
   a duration, which the schema takes for one or does not. *)
LineForms == {"ok", "json", "structure", "schema", "duration", "noDuration"}

NodeLines ==
  [id : Node, explicit : Explicit \cup {None}, type : STRING, parent : Node \cup {None},
   limits : Seq(Limit), form : LineForms]
RelationLines ==
  [from : Node, to : Node, body : Body, form : {"ok", "json", "schema", "evidence"}]

Begin(phase) ==
  /\ pc = phase
  /\ line = 0
  /\ error = None
  /\ nodeByID = <<>>
  /\ orderedNodeIDs = <<>>
  /\ limitIDs = {}
  /\ limitCount = 0
  /\ duplicateErr = None
  /\ path = <<>>
  /\ current = None
  /\ depthByID = <<>>
  /\ seen = {}
  /\ adjacency = {}
  /\ indices = <<>>
  /\ lowlinks = <<>>
  /\ stack = <<>>
  /\ maximum = 0
  /\ frames = <<>>
  /\ tables = None

Init ==
  /\ manifest \in [valid : BOOLEAN, nodeCount : Nat, relationCount : Nat]
  /\ nodeLines \in Seq(NodeLines)
  /\ relationLines \in Seq(RelationLines)
  /\ Begin("manifest")

Reject(phase, kind, l) ==
  /\ error' = [phase |-> phase, kind |-> kind, line |-> l]
  /\ pc' = "rejected"

Goes(phase) == pc' = phase /\ line' = 0 /\ UNCHANGED error
Stays == UNCHANGED <<pc, error>>

--------------------------------------------------------------------------------
(* readManifest: a manifest that is not in order, or announces too much. *)

ReadManifest ==
  /\ pc = "manifest"
  /\ IF \/ ~manifest.valid
        \/ manifest.nodeCount > MaxSnapshotNodes
        \/ manifest.relationCount > MaxSnapshotRelations
       THEN Reject("manifest", IF manifest.valid THEN "capacity_exceeded" ELSE "invalid", 0)
            /\ UNCHANGED line
       ELSE Goes("nodes")
  /\ UNCHANGED <<files, gathered, hierarchy, graph, tarjan, tables>>

--------------------------------------------------------------------------------
(* readNodes. *)

isNodeType(t) ==
  t \in {"management_unit", "job_network", "job", "file", "file_pattern", "job_status", "external_event"}

isParentlessType(t) == t \in {"file", "file_pattern", "job_status", "external_event"}

(* UnmarshalJSON refuses a line whose ID or parent does not fit its namespace. *)
IdentityInvalid(l) ==
  /\ l.explicit # None
  /\ \/ l.explicit[1] = "default"
     \/ l.id # Canonical[l.explicit]
     \/ /\ l.parent # None
        /\ l.parent \notin DOMAIN Decode \/ Decode[l.parent][1] # l.explicit[1]

DurationInvalid(l) == l.limits # <<>> /\ l.form \in {"duration", "noDuration"}

(* node.schema.json, with what it says of the parts that are looked at. *)
AgainstSchema(l) ==
  \/ l.form \in {"structure", "schema"}
  \/ ~isNodeType(l.type)
  \/ l.explicit # None /\ l.explicit[1] = "default"
  \/ l.type # "job" /\ l.limits # <<>>
  \/ isParentlessType(l.type) /\ l.parent # None
  \/ l.limits # <<>> /\ l.form = "noDuration"

effectiveNodeNamespace(l) == IF l.explicit = None THEN "default" ELSE l.explicit[1]

(* validateNodeLine.  What nodeInput cannot take is refused for the schema if it has
   a reason; after that come the checks with a reason of their own. *)
LineProblem(l) ==
  IF l.form = "json" THEN "invalid_json"
  ELSE IF l.form = "structure" \/ IdentityInvalid(l)
    THEN IF AgainstSchema(l) THEN "schema_violation" ELSE "invalid_json"
  ELSE IF isNodeType(l.type) /\ l.type # "job" /\ l.limits # <<>> THEN "invalid_limit_owner"
  ELSE IF isParentlessType(l.type) /\ l.parent # None THEN "invalid_parent_type"
  ELSE IF DurationInvalid(l) THEN "invalid_duration"
  ELSE IF AgainstSchema(l) THEN "schema_violation"
  ELSE None

(* A limit of the line was met on a line before or earlier on this one. *)
HasDuplicateLimit(l) == ToSet(l.limits) \cap limitIDs # {} \/ ~IsInjective(l.limits)

Duplicate(l) ==
  IF l.id \in DOMAIN nodeByID
    THEN IF nodeByID[l.id].parent # l.parent THEN "multiple_parents" ELSE "duplicate_node"
    ELSE IF HasDuplicateLimit(l) THEN "duplicate_limit" ELSE None

NodesFull(l) == line + 1 > MaxSnapshotNodes \/ Len(l.limits) > MaxSnapshotLimits - limitCount

ReadNode ==
  /\ pc = "nodes"
  /\ line < Len(nodeLines)
  /\ LET l == nodeLines[line + 1] IN
       IF LineProblem(l) # None \/ NodesFull(l)
         THEN /\ Reject("nodes", IF LineProblem(l) # None THEN LineProblem(l) ELSE "capacity_exceeded",
                        line + 1)
              /\ UNCHANGED <<line, gathered>>
         ELSE /\ Stays
              /\ line' = line + 1
              /\ limitCount' = limitCount + Len(l.limits)
              /\ duplicateErr' = IF duplicateErr = None /\ Duplicate(l) # None
                                   THEN [line |-> line + 1, kind |-> Duplicate(l)]
                                   ELSE duplicateErr
              /\ IF l.id \in DOMAIN nodeByID
                   THEN UNCHANGED <<nodeByID, orderedNodeIDs, limitIDs>>
                   ELSE /\ nodeByID' = [id \in DOMAIN nodeByID \cup {l.id} |->
                             IF id # l.id THEN nodeByID[id]
                             ELSE [type |-> l.type, parent |-> l.parent, line |-> line + 1,
                                   namespace |-> effectiveNodeNamespace(l)]]
                        /\ orderedNodeIDs' = Append(orderedNodeIDs, l.id)
                        /\ limitIDs' = limitIDs \cup ToSet(l.limits)
  /\ UNCHANGED <<files, hierarchy, graph, tarjan, tables>>

NodesRead ==
  /\ pc = "nodes"
  /\ line = Len(nodeLines)
  /\ IF manifest.nodeCount # Len(nodeLines)
       THEN Reject("nodeCount", "node_count_mismatch", 0) /\ UNCHANGED line
       ELSE Goes("references")
  /\ UNCHANGED <<files, gathered, hierarchy, graph, tarjan, tables>>

--------------------------------------------------------------------------------
(* validateNodeReferences. *)

allowedParent(child, parent) ==
  \/ child = "management_unit" /\ parent = "management_unit"
  \/ child = "job_network" /\ parent \in {"management_unit", "job_network"}
  \/ child = "job" /\ parent = "job_network"

ParentProblem(node) ==
  IF node.parent = None THEN None
  ELSE IF node.parent \notin DOMAIN nodeByID THEN "missing_parent"
  ELSE IF \/ node.namespace # nodeByID[node.parent].namespace
          \/ ~allowedParent(node.type, nodeByID[node.parent].type)
    THEN "invalid_parent_type"
  ELSE None

\* Bug: the duplicates are reported after all the parents.
DuplicateIsNextAtEnd == duplicateErr # None /\ line = Len(orderedNodeIDs)

(* The duplicate's line comes before the node that is looked at next. *)
DuplicateIsNext ==
  /\ duplicateErr # None
  /\ \/ line = Len(orderedNodeIDs)
     \/ line < Len(orderedNodeIDs) /\ duplicateErr.line < nodeByID[orderedNodeIDs[line + 1]].line

CheckReference ==
  /\ pc = "references"
  /\ IF DuplicateIsNext
       THEN Reject("references", duplicateErr.kind, duplicateErr.line) /\ UNCHANGED line
       ELSE IF line = Len(orderedNodeIDs) THEN Goes("hierarchy")
       ELSE LET node == nodeByID[orderedNodeIDs[line + 1]] IN
              IF ParentProblem(node) # None
                THEN Reject("references", ParentProblem(node), node.line) /\ UNCHANGED line
                ELSE Stays /\ line' = line + 1
  /\ UNCHANGED <<files, gathered, hierarchy, graph, tarjan, tables>>

--------------------------------------------------------------------------------
(* validateParentHierarchy. *)

settled == DOMAIN depthByID
Unsettled == {i \in DOMAIN orderedNodeIDs : orderedNodeIDs[i] \notin settled}

StartChain ==
  /\ pc = "hierarchy"
  /\ path = <<>>
  /\ current = None
  /\ Unsettled # {}
  /\ current' = orderedNodeIDs[Min(Unsettled)]
  /\ UNCHANGED <<files, pc, line, error, gathered, path, depthByID, graph, tarjan, tables>>

Climb ==
  /\ pc = "hierarchy"
  /\ current \notin ToSet(path) \cup settled \cup {None}
  /\ path' = Append(path, current)
  /\ current' = nodeByID[current].parent
  /\ UNCHANGED <<files, pc, line, error, gathered, depthByID, graph, tarjan, tables>>

(* The chain has met itself: the first line of the circle is reported. *)
ChainCloses ==
  /\ pc = "hierarchy"
  /\ current \in ToSet(path)
  /\ LET first == CHOOSE i \in DOMAIN path : path[i] = current
         circle == {path[i] : i \in first..Len(path)}
     IN  Reject("hierarchy", "parent_cycle", Min({nodeByID[id].line : id \in circle}))
  /\ UNCHANGED <<files, line, gathered, hierarchy, graph, tarjan, tables>>

IsNetwork(id) == nodeByID[id].type = "job_network"

(* How many networks are above the chain. *)
DepthAbove == IF current = None THEN 0 ELSE depthByID[current]

(* The depths of the chain, from its upper end down. *)
SettleChain ==
  /\ pc = "hierarchy"
  /\ path # <<>>
  /\ current \in settled \cup {None}
  /\ LET depth(i) == DepthAbove + Cardinality({j \in i..Len(path) : IsNetwork(path[j])})
         place(id) == CHOOSE i \in DOMAIN path : path[i] = id
     IN  depthByID' = [id \in settled \cup ToSet(path) |->
                         IF id \in settled THEN depthByID[id] ELSE depth(place(id))]
  /\ path' = <<>>
  /\ current' = None
  /\ UNCHANGED <<files, pc, line, error, gathered, graph, tarjan, tables>>

jobNetworkDepth == Max({0} \cup {depthByID[id] : id \in {n \in settled : IsNetwork(n)}})

(* newSCCGraph: the edges from networks to their children. *)
ScopeAdjacency ==
  {<<nodeByID[id].parent, id>> :
     id \in {n \in DOMAIN nodeByID : nodeByID[n].parent # None /\ IsNetwork(nodeByID[n].parent)}}

HierarchyChecked ==
  /\ pc = "hierarchy"
  /\ path = <<>>
  /\ current = None
  /\ Unsettled = {}
  /\ IF jobNetworkDepth > MaxJobNetworkDepth
       THEN Reject("depth", "capacity_exceeded", 0) /\ UNCHANGED <<line, adjacency>>
       ELSE Goes("relations") /\ adjacency' = ScopeAdjacency
  /\ UNCHANGED <<files, gathered, hierarchy, seen, tarjan, tables>>

--------------------------------------------------------------------------------
(* readRelations. *)

\* Bug: the list lacks a type that the search has.
isTraversableNodeKindWithoutStatus(t) ==
  t \in {"job", "job_network", "file", "file_pattern", "external_event"}

isTraversableNodeKind(t) ==
  t \in {"job", "job_network", "file", "file_pattern", "job_status", "external_event"}

relationID(l) == <<l.from, l.to, l.body>>

RelationProblem(l) ==
  IF l.form = "json" THEN "invalid_json"
  ELSE IF l.form = "schema" THEN "schema_violation"
  ELSE IF {l.from, l.to} \ DOMAIN nodeByID # {} THEN "missing_node"
  ELSE IF line + 1 > MaxSnapshotRelations THEN "capacity_exceeded"
  ELSE IF l.form = "evidence" THEN "invalid_json"
  ELSE IF relationID(l) \in seen THEN "duplicate_relation"
  ELSE None

ReadRelation ==
  /\ pc = "relations"
  /\ line < Len(relationLines)
  /\ LET l == relationLines[line + 1] IN
       IF RelationProblem(l) # None
         THEN Reject("relations", RelationProblem(l), line + 1) /\ UNCHANGED <<line, graph>>
         ELSE /\ Stays
              /\ line' = line + 1
              /\ seen' = seen \cup {relationID(l)}
              /\ adjacency' = IF isTraversableNodeKind(nodeByID[l.from].type)
                                THEN adjacency \cup {<<l.from, l.to>>} ELSE adjacency
  /\ UNCHANGED <<files, gathered, hierarchy, tarjan, tables>>

RelationsRead ==
  /\ pc = "relations"
  /\ line = Len(relationLines)
  /\ IF manifest.relationCount # Len(relationLines)
       THEN Reject("relationCount", "relation_count_mismatch", 0) /\ UNCHANGED line
       ELSE Goes("components")
  /\ UNCHANGED <<files, gathered, hierarchy, graph, tarjan, tables>>

--------------------------------------------------------------------------------
(* maxSCCNodes. *)

Neighbours(v) == {e[2] : e \in {x \in adjacency : x[1] = v}}

(* The first lines of visit. *)
Enter(v, above) ==
  LET visited == DOMAIN indices \cup {v}
      next == Cardinality(DOMAIN indices)
  IN  /\ indices' = [n \in visited |-> IF n = v THEN next ELSE indices[n]]
      /\ lowlinks' = [n \in visited |-> IF n = v THEN next ELSE lowlinks[n]]
      /\ stack' = Append(stack, v)
      /\ frames' = Append(above, [vertex |-> v, left |-> Neighbours(v)])

Unvisited == {i \in DOMAIN orderedNodeIDs : orderedNodeIDs[i] \notin DOMAIN indices}

VisitRoot ==
  /\ pc = "components"
  /\ frames = <<>>
  /\ Unvisited # {}
  /\ Enter(orderedNodeIDs[Min(Unvisited)], frames)
  /\ UNCHANGED <<files, pc, line, error, gathered, hierarchy, graph, maximum, tables>>

Lowered(v, value) == [lowlinks EXCEPT ![v] = IF value < @ THEN value ELSE @]

(* onStack. *)
Links(w) == w \in ToSet(stack)

LookAtNeighbour ==
  /\ pc = "components"
  /\ frames # <<>>
  /\ LET top == Last(frames) IN
       \E w \in top.left :
         LET looked == Append(Front(frames), [top EXCEPT !.left = @ \ {w}]) IN
           IF w \notin DOMAIN indices
             THEN Enter(w, looked)
             ELSE /\ frames' = looked
                  /\ lowlinks' = IF Links(w) THEN Lowered(top.vertex, indices[w]) ELSE lowlinks
                  /\ UNCHANGED <<indices, stack>>
  /\ UNCHANGED <<files, pc, line, error, gathered, hierarchy, graph, maximum, tables>>

(* The end of visit: a component is complete, or the caller's link is lowered. *)
Leave ==
  /\ pc = "components"
  /\ frames # <<>>
  /\ LET v == Last(frames).vertex
         at == CHOOSE i \in DOMAIN stack : stack[i] = v
         isRoot == lowlinks[v] = indices[v]
     IN  /\ Last(frames).left = {}
         /\ maximum' = IF isRoot THEN Max({maximum, Len(stack) - at + 1}) ELSE maximum
         /\ stack' = IF isRoot THEN SubSeq(stack, 1, at - 1) ELSE stack
         /\ lowlinks' = IF Len(frames) = 1 THEN lowlinks
                        ELSE Lowered(frames[Len(frames) - 1].vertex, lowlinks[v])
  /\ frames' = Front(frames)
  /\ UNCHANGED <<files, pc, line, error, gathered, hierarchy, graph, indices, tables>>

(* The fingerprint, whose calculation changes nothing, follows. *)
ComponentsFound ==
  /\ pc = "components"
  /\ frames = <<>>
  /\ Unvisited = {}
  /\ IF maximum > MaxSCCNodes
       THEN Reject("components", "capacity_exceeded", 0) /\ UNCHANGED line
       ELSE Goes("accepted")
  /\ UNCHANGED <<files, gathered, hierarchy, graph, tarjan, tables>>

--------------------------------------------------------------------------------
(* Load: all rows of the files in one transaction, foreign keys at its end. *)

\* Bug: the local ID alone is stored for a node with a namespace.
PublicIdentityLocal(l) == <<"default", IF l.explicit = None THEN l.id ELSE l.explicit[2]>>

PublicIdentity(l) == IF l.explicit = None THEN <<"default", l.id>> ELSE l.explicit

Rows ==
  [node          |-> [i \in DOMAIN nodeLines |-> nodeLines[i].id],
   node_identity |-> [i \in DOMAIN nodeLines |-> PublicIdentity(nodeLines[i])],
   limit_fact    |-> FlattenSeq([i \in DOMAIN nodeLines |-> nodeLines[i].limits]),
   relation      |-> [i \in DOMAIN relationLines |-> relationID(relationLines[i])]]

ForeignKeysHold ==
  LET ids == ToSet(Rows.node) IN
    /\ \A i \in DOMAIN nodeLines : nodeLines[i].parent \in ids \cup {None}
    /\ \A i \in DOMAIN relationLines : {relationLines[i].from, relationLines[i].to} \subseteq ids

(* A row that violates a key rolls the transaction back. *)
Load ==
  /\ pc = "accepted"
  /\ IF ForeignKeysHold /\ \A t \in DOMAIN Rows : IsInjective(Rows[t])
       THEN pc' = "loaded" /\ tables' = Rows
       ELSE pc' = "refused" /\ UNCHANGED tables
  /\ UNCHANGED <<files, line, error, gathered, hierarchy, graph, tarjan>>

(* A file cannot be read, the database refuses a statement, or the context is
   done: "io", and the transaction is rolled back. *)
Fail ==
  /\ pc \in {"manifest", "nodes", "references", "hierarchy", "relations", "components", "accepted"}
  /\ pc' = "failed"
  /\ UNCHANGED <<files, line, error, gathered, hierarchy, graph, tarjan, tables>>

Next ==
  \/ ReadManifest
  \/ ReadNode
  \/ NodesRead
  \/ CheckReference
  \/ StartChain
  \/ Climb
  \/ ChainCloses
  \/ SettleChain
  \/ HierarchyChecked
  \/ ReadRelation
  \/ RelationsRead
  \/ VisitRoot
  \/ LookAtNeighbour
  \/ Leave
  \/ ComponentsFound
  \/ Load
  \/ Fail

Spec == Init /\ [][Next]_vars

--------------------------------------------------------------------------------
(* What is wrong with the files, said without the order of any check: the faults
   of a phase have a meaning when the phases before it have none. *)

Phases == <<"manifest", "nodes", "nodeCount", "references", "hierarchy", "depth",
            "relations", "relationCount", "components">>

FaultIf(condition, phase, kind) == IF condition THEN {[phase |-> phase, kind |-> kind, line |-> 0]} ELSE {}
FaultsAt(lines, phase, kind) == {[phase |-> phase, kind |-> kind, line |-> i] : i \in lines}

Lines == DOMAIN nodeLines
Defining == {i \in Lines : \A j \in 1..(i - 1) : nodeLines[j].id # nodeLines[i].id}
Definition(id) == nodeLines[CHOOSE i \in Defining : nodeLines[i].id = id]
Defined == {nodeLines[i].id : i \in Lines}
Same(i) == Definition(nodeLines[i].id)

LimitsUpTo(i) == FlattenSeq([j \in 1..i |-> nodeLines[j].limits])

NodeFaults ==
  FaultsAt({i \in Lines : i > MaxSnapshotNodes \/ Len(LimitsUpTo(i)) > MaxSnapshotLimits},
           "nodes", "capacity_exceeded")
    \cup UNION {FaultsAt({i \in Lines : LineProblem(nodeLines[i]) = kind}, "nodes", kind) :
                  kind \in {LineProblem(nodeLines[i]) : i \in Lines} \ {None}}

Parented == {i \in Defining : nodeLines[i].parent # None}
Misplaced(l) ==
  LET p == Definition(l.parent) IN
    effectiveNodeNamespace(p) # effectiveNodeNamespace(l) \/ ~allowedParent(l.type, p.type)

ReferenceFaults ==
  FaultsAt({i \in Lines \ Defining : nodeLines[i].parent = Same(i).parent}, "references", "duplicate_node")
    \cup FaultsAt({i \in Lines \ Defining : nodeLines[i].parent # Same(i).parent},
                  "references", "multiple_parents")
    \cup FaultsAt({i \in Defining : LET all == LimitsUpTo(i)
                                        old == Len(all) - Len(nodeLines[i].limits)
                                    IN  \E k \in (old + 1)..Len(all) : \E j \in 1..(k - 1) : all[j] = all[k]},
                  "references", "duplicate_limit")
    \cup FaultsAt({i \in Parented : nodeLines[i].parent \notin Defined}, "references", "missing_parent")
    \cup FaultsAt({i \in Parented : nodeLines[i].parent \in Defined /\ Misplaced(nodeLines[i])},
                  "references", "invalid_parent_type")

(* The pairs joined by one edge or more: the set that every closed set agrees on. *)
Closure(edges) ==
  LET closed == {S \in SUBSET Defined : \A e \in edges : e[1] \in S => e[2] \in S}
  IN  {p \in Defined \X Defined :
         \E e \in edges : e[1] = p[1] /\ \A S \in closed : e[2] \in S => p[2] \in S}

Above == Closure({<<nodeLines[i].id, nodeLines[i].parent>> :
                    i \in {j \in Parented : nodeLines[j].parent \in Defined}})

(* The circle that the first of the lines leads to, at its own first line. *)
HierarchyFaults ==
  LET above == Above
      circleOf(id) == {p[2] : p \in {q \in above : q[1] = id /\ <<q[2], q[2]>> \in above}}
      leading == {i \in Lines : circleOf(nodeLines[i].id) # {}}
  IN  IF leading = {} THEN {}
      ELSE FaultsAt({Min({i \in Lines : nodeLines[i].id \in circleOf(nodeLines[Min(leading)].id)})},
                    "hierarchy", "parent_cycle")

Networks == {id \in Defined : Definition(id).type = "job_network"}
LongestChain ==
  LET above == {p \in Above : p[2] \in Networks} IN
    Max({0} \cup {1 + Cardinality({p \in above : p[1] = id}) : id \in Networks})

RelationFaults ==
  LET L == DOMAIN relationLines
      Of(form, kind) == FaultsAt({i \in L : relationLines[i].form = form}, "relations", kind)
  IN  Of("json", "invalid_json") \cup Of("schema", "schema_violation") \cup Of("evidence", "invalid_json")
        \cup FaultsAt({i \in L : {relationLines[i].from, relationLines[i].to} \ Defined # {}},
                      "relations", "missing_node")
        \cup FaultsAt({i \in L : i > MaxSnapshotRelations}, "relations", "capacity_exceeded")
        \cup FaultsAt({i \in L : \E j \in 1..(i - 1) : relationID(relationLines[j]) = relationID(relationLines[i])},
                      "relations", "duplicate_relation")

(* The search of Traversal on the nodes and relations of the files. *)
Search ==
  INSTANCE Traversal WITH
    BatchSize <- 1, target <- None,
    nodeType <- [n \in Node |-> IF n \in Defined THEN Definition(n).type ELSE "management_unit"],
    parent <- [n \in Node |-> IF n \in Defined THEN Definition(n).parent ELSE None],
    relation <- {<<relationLines[i].from, relationLines[i].to>> : i \in DOMAIN relationLines},
    pc <- "idle", nodes <- {}, pending <- <<>>, head <- 0, batch <- {}, rows <- {},
    connections <- {}, scopeEdges <- {}, endpoints <- {}, queue <- {}, contained <- {}

Expanded == UNION {{<<n, m>> : m \in Search!Scope(n) \cup Search!Dependents(n)} : n \in Defined}

LargestComponent ==
  LET reach == Closure(Expanded)
      component(n) == {n} \cup {m \in Defined : {<<n, m>>, <<m, n>>} \subseteq reach}
  IN  Max({0} \cup {Cardinality(component(n)) : n \in Defined})

Faults(phase) ==
  CASE phase = "manifest" ->
         FaultIf(~manifest.valid, "manifest", "invalid")
           \cup FaultIf(manifest.nodeCount > MaxSnapshotNodes \/ manifest.relationCount > MaxSnapshotRelations,
                        "manifest", "capacity_exceeded")
    [] phase = "nodes" -> NodeFaults
    [] phase = "nodeCount" ->
         FaultIf(manifest.nodeCount # Len(nodeLines), "nodeCount", "node_count_mismatch")
    [] phase = "references" -> ReferenceFaults
    [] phase = "hierarchy" -> HierarchyFaults
    [] phase = "depth" -> FaultIf(LongestChain > MaxJobNetworkDepth, "depth", "capacity_exceeded")
    [] phase = "relations" -> RelationFaults
    [] phase = "relationCount" ->
         FaultIf(manifest.relationCount # Len(relationLines), "relationCount", "relation_count_mismatch")
    [] phase = "components" ->
         FaultIf(LargestComponent > MaxSCCNodes, "components", "capacity_exceeded")

--------------------------------------------------------------------------------
(* Properties. *)

(* "The phases are in a fixed order, the line number comes before the kind of
   the check, and the least line of a circle is returned" (validate.go:126): what
   is rejected is rejected for a fault of the first phase that has one, at the
   first line that has one; what is accepted has no fault at all. *)
FirstProblemReported ==
  /\ pc = "rejected" =>
       \E k \in DOMAIN Phases :
         /\ error \in Faults(Phases[k])
         /\ \A f \in Faults(Phases[k]) : error.line <= f.line
         /\ \A j \in 1..(k - 1) : Faults(Phases[j]) = {}
  /\ pc = "accepted" => \A k \in DOMAIN Phases : Faults(Phases[k]) = {}

(* "The SCC at the import is that of the graph which a search expands"
   (validate.go:762): the largest component and the deepest chain of networks
   that Validate returns are those of the graph that Traversal searches. *)
SizesExact ==
  pc = "accepted" => maximum = LargestComponent /\ jobNetworkDepth = LongestChain

(* What Validate has accepted Load can store, row for row and without a violated
   key, under identities of its own; and it is a hierarchy, with relations
   between its nodes, as the search takes for granted. *)
AcceptedLoads ==
  /\ pc # "refused"
  /\ pc = "loaded" =>
       /\ Search!ValidatedHierarchy
       /\ Len(tables.node) = manifest.nodeCount
       /\ Len(tables.relation) = manifest.relationCount
       /\ \A i, j \in Lines : tables.node_identity[i] = tables.node_identity[j] => i = j
       /\ \A i \in Lines : nodeLines[i].explicit = None => tables.node_identity[i][1] = "default"
===============================================================================
