------------------------------ MODULE MCTraversal ------------------------------
(* Traversal on every small database with at most MaxRelations relations.  The
   type "file" stands for the four traversable types that have no parent. *)
EXTENDS Traversal, FiniteSetsExt

CONSTANT MaxRelations

MCInit ==
  /\ nodeType \in [Node -> {"management_unit", "job_network", "job", "file"}]
  /\ relation \in UNION {kSubset(k, Node \X Node) : k \in 0..MaxRelations}
  /\ Init

MCFairSpec == MCInit /\ [][Next]_vars /\ WF_vars(Work)
===============================================================================
