----------------------------- MODULE MCPathPrepare -----------------------------
(* PathPrepare on small graphs, of all of Node and of one node less: the nodes
   have a type from a list of assignments, at most MaxUnsure connections are
   uncertain. *)
EXTENDS PathPrepare

CONSTANTS Target, MaxEdges, MaxScopes, MaxUnsure, MaxOwners

Assignments ==
  {[n \in nodes |-> "job"],
   [n \in nodes |-> IF n = Max(nodes) THEN "job" ELSE "job_network"],
   [n \in nodes |-> IF n = Target THEN "job" ELSE
                   IF n = Min(nodes) THEN "file" ELSE
                   IF n = Max(nodes) THEN "management_unit" ELSE "job"]}

Pairs == nodes \X nodes

Relation(e, c) == [from |-> e[1], to |-> e[2], kind |-> "relation", certainty |-> c]
Scope(e) == [from |-> e[1], to |-> e[2], kind |-> "scope", certainty |-> {}]

ScopePairs(t) ==
  {e \in Pairs : t[e[1]] = "job_network" /\ t[e[2]] \in {"job", "job_network"} /\ e[1] # e[2]}

FewOf(k, S) == UNION {kSubset(j, S) : j \in 0..k}

MCInit ==
  /\ target = Target
  /\ nodes \in {Node, Node \ {Max(Node)}}
  /\ type \in Assignments
  /\ \E S \in FewOf(MaxScopes, ScopePairs(type)) :
       \E R \in FewOf(MaxEdges - Cardinality(S), Pairs) :
         /\ Reached({Scope(e) : e \in R \cup S}, Target) = nodes
         /\ \E U \in FewOf(MaxUnsure, R) :
              edges = {Relation(e, {"unsure"}) : e \in U} \cup {Relation(e, {"sure"}) : e \in R \ U}
                        \cup {Scope(e) : e \in S}
  /\ owners \in FewOf(MaxOwners, {n \in nodes : type[n] = "job"})
  /\ Init

MCSpec == MCInit /\ [][Next]_vars
===============================================================================
