----------------------------- MODULE MCCycleSearch -----------------------------
(* CycleSearch on every small graph with at most MaxConnections connections
   and MaxScopeEdges scope edges. *)
EXTENDS CycleSearch, FiniteSetsExt, TLC

CONSTANTS MaxConnections, MaxScopeEdges

ConnectionSets == UNION {kSubset(k, Node \X Node) : k \in 0..MaxConnections}
ScopeSets ==
  {E \in UNION {kSubset(k, Node \X Node) : k \in 0..MaxScopeEdges} : Forest(E)}

MCInit ==
  /\ connections \in ConnectionSets
  /\ scopeEdges \in ScopeSets
  /\ Init

MCSpec == MCInit /\ [][Next]_vars
MCFairSpec == MCSpec /\ WF_vars(Work)
MCSymmetry == Permutations(Node)
===============================================================================
