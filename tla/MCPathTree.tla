------------------------------ MODULE MCPathTree ------------------------------
(* PathTree on two families of small graphs: any graph of SmallNodes, whose types
   follow one of Shapes and which has at most SmallEdges edges, and graphs
   of jobs without cycles, on all of Node with at most AcyclicEdges edges.  At
   most MaxUnsure connections are of a certainty from Uncertainties. *)
EXTENDS PathTree

CONSTANTS
  Target, Shapes, SmallNodes, SmallEdges, AcyclicEdges,
  MaxScopes, MaxUnsure, Uncertainties, MaxOwners

Assignment(shape) ==
  [n \in nodes |->
     CASE shape = "jobs" -> "job"
       [] shape = "networks" -> IF n = Max(nodes) THEN "job" ELSE "job_network"
       [] OTHER -> IF n = Target THEN "job" ELSE
                   IF n = Min(nodes) THEN "external_event" ELSE
                   IF n = Max(nodes) THEN "management_unit" ELSE "job"]

Relation(e, c) == [from |-> e[1], to |-> e[2], kind |-> "relation", certainty |-> c]
Scope(e) == [from |-> e[1], to |-> e[2], kind |-> "scope", certainty |-> {}]

FewOf(k, S) == UNION {kSubset(j, S) : j \in 0..k}

Pairs == nodes \X nodes
ScopePairs ==
  {e \in Pairs : e[1] # e[2] /\ type[e[1]] = "job_network" /\ type[e[2]] \in {"job", "job_network"}}

(* The edges: scope edges from S, relations from R, at most k of both. *)
EdgesFrom(S, R, k) ==
  \E s \in FewOf(MaxScopes, S) : \E r \in FewOf(k - Cardinality(s), R) :
    /\ Reached({Scope(e) : e \in r \cup s}, Target) = nodes
    /\ \E u \in FewOf(MaxUnsure, r) : \E c \in Uncertainties :
         edges = {Relation(e, c) : e \in u} \cup {Relation(e, {"sure"}) : e \in r \ u}
                   \cup {Scope(e) : e \in s}

Small ==
  /\ nodes = SmallNodes
  /\ type \in {Assignment(s) : s \in Shapes}
  /\ EdgesFrom(ScopePairs, Pairs, SmallEdges)

(* The nodes in an order of the edges: from the target on, then falling. *)
Acyclic ==
  LET place(n) == IF n = Target THEN Max(Node) + 1 ELSE n
  IN  /\ nodes = Node
      /\ type = Assignment("jobs")
      /\ EdgesFrom({}, {e \in Pairs : place(e[1]) > place(e[2])}, AcyclicEdges)

MCInit ==
  /\ target = Target
  /\ Small \/ Acyclic
  /\ owners \in FewOf(MaxOwners, {n \in nodes : type[n] = "job"})
  /\ TreeInit

MCSpec == MCInit /\ [][TreeNext]_treeVars
===============================================================================
