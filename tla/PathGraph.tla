------------------------------- MODULE PathGraph -------------------------------
(***************************************************************************)
(* What internal/pathtree works on: the reachable part of the graph that   *)
(* Traverse returned, with the jobs that own a limit, and the order in     *)
(* which it prefers one path to another.  The modules PathPrepare and      *)
(* PathTree share it: each has a part of Build, and pc tells where in it.  *)
(*                                                                         *)
(* A path is the sequence of its edges, from the target on: two paths of   *)
(* the code are the same tree node exactly when these sequences are equal. *)
(***************************************************************************)
EXTENDS Naturals, Sequences, FiniteSets, SequencesExt, FiniteSetsExt

CONSTANTS
  Node,   \* the IDs there can be, as numbers in their order
  None    \* no path

ASSUME NodeAssumption == Node \subseteq Nat \ {0} /\ IsFiniteSet(Node)

VARIABLES
  target,  \* traversalResult.Target
  nodes,   \* the IDs of Nodes and Endpoints
  type,    \* the type of each node
  edges,   \* Connections and ScopeEdges
  owners,  \* the jobs with a limit
  cycles,  \* traversalResult.Cycles, as sets of nodes
  pc       \* which part of Build runs

graph == <<target, nodes, type, edges, owners, cycles>>

Types == {"job", "job_network", "file", "external_event", "management_unit"}

(* The certainties of the relations that one connection aggregates: "sure" for
   declared and confirmed ones, "unsure" for inferred and candidate ones. *)
Connections ==
  [from : Node, to : Node, kind : {"relation"}, certainty : (SUBSET {"sure", "unsure"}) \ {{}}]
ScopeEdges == [from : Node, to : Node, kind : {"scope"}, certainty : {{}}]

ASSUME NoneIsNoPath == None \notin Seq(Connections \cup ScopeEdges)

confirmed(e) == e.kind = "scope" \/ "sure" \in e.certainty
hasUncertainRelation(e) == "unsure" \in e.certainty

Out(n) == {e \in edges : e.from = n}
In(n) == {e \in edges : e.to = n}

--------------------------------------------------------------------------------
(* Paths. *)

End(p) == IF p = <<>> THEN target ELSE Last(p).to

(* Every path from n along edges of E that meets no node twice. *)
SimplePathsFrom(n, E) ==
  LET last(p) == IF p = <<>> THEN n ELSE Last(p).to
      met(p) == {n} \cup {p[i].to : i \in DOMAIN p}
      longer(p) == {Append(p, e) : e \in {f \in E : f.from = last(p) /\ f.to \notin met(p)}}
      P[k \in 0..Cardinality(nodes)] ==
        IF k = 0 THEN {<<>>}
        ELSE LET shorter == P[k - 1] IN shorter \cup UNION {longer(p) : p \in shorter}
  IN  P[Cardinality(nodes) - 1]

isRelation(e) == e.kind = "relation"

(* The IDs of the relations on p.  A connection stands for its relations, and
   its place among the connections for their IDs. *)
RelationIDs(p) ==
  FlattenSeq([i \in DOMAIN p |-> IF isRelation(p[i]) THEN <<p[i].from, p[i].to>> ELSE <<>>])

NodeIDs(p) == [i \in DOMAIN p |-> p[i].to]

dependencyDistance(p) ==
  Cardinality({i \in DOMAIN p : isRelation(p[i]) /\ type[p[i].to] \in {"job", "job_network"}})

graphDepth(p) == Cardinality({i \in DOMAIN p : isRelation(p[i])})

(* s comes before t, as slices.Compare has it. *)
Before(s, t) ==
  \E i \in DOMAIN t :
    /\ \A j \in 1..(i - 1) : j \in DOMAIN s /\ s[j] = t[j]
    /\ i \in DOMAIN s => s[i] < t[i]

(* What lessPath compares, in one sequence: no ID is 0, so that the 0 ends the
   shorter of two sequences of nodes first. *)
PathKey(p) ==
  <<dependencyDistance(p), graphDepth(p)>> \o NodeIDs(p) \o <<0>> \o RelationIDs(p)

lessPath(p, q) == Before(PathKey(p), PathKey(q))

(* What lessHopPath compares. *)
HopKey(p) == <<Len(p)>> \o NodeIDs(p) \o <<0>> \o RelationIDs(p)

(* The paths from the target to n along the edges of E. *)
PathsTo(n, E) == {p \in SimplePathsFrom(target, E) : End(p) = n}

LeastPath(S) ==
  LET keyed == {[key |-> PathKey(p), path |-> p] : p \in S}
  IN  (CHOOSE k \in keyed : \A j \in keyed : ~Before(j.key, k.key)).path
LeastHopPath(S) == CHOOSE p \in S : \A q \in S : ~Before(HopKey(q), HopKey(p))

--------------------------------------------------------------------------------
(* The cycles. *)

Reached(E, n) ==
  LET R[k \in 0..Cardinality(nodes)] ==
        IF k = 0 THEN {n}
        ELSE LET near == R[k - 1] IN near \cup {e.to : e \in {f \in E : f.from \in near}}
  IN  R[Cardinality(nodes)]

Components ==
  LET to == {r \in nodes \X nodes : r[2] \in Reached(edges, r[1])}
  IN  {{n \in nodes : <<m, n>> \in to /\ <<n, m>> \in to} : m \in nodes}

(* cycleByNode. *)
InCycle(n) == \E c \in cycles : n \in c
sameCycle(m, n) == \E c \in cycles : m \in c /\ n \in c

--------------------------------------------------------------------------------
(* The graphs that Traverse and Scan can return. *)
Graph ==
  /\ nodes \subseteq Node
  /\ target \in nodes
  /\ type \in [nodes -> Types]
  /\ type[target] \in {"job", "job_network"}
  /\ edges \in SUBSET (Connections \cup ScopeEdges)
  /\ \A e \in edges : {e.from, e.to} \subseteq nodes
  /\ \A d, e \in edges : d.from = e.from /\ d.to = e.to /\ d.kind = e.kind => d = e
  /\ \A e \in edges : type[e.from] # "management_unit"
  /\ \A e \in edges : ~isRelation(e) =>
       /\ type[e.from] = "job_network"
       /\ type[e.to] \in {"job", "job_network"}
       /\ e.from \notin Reached({f \in edges : ~isRelation(f)}, e.to)
       /\ \A f \in In(e.to) : ~isRelation(f) => f = e
  /\ Reached(edges, target) = nodes
  /\ owners \in SUBSET {n \in nodes : type[n] = "job"}
  /\ cycles = {c \in Components : Cardinality(c) = 1 => \E e \in edges : e.from \in c /\ e.to \in c}
===============================================================================
