------------------------------ MODULE MCLimitScan ------------------------------
(* LimitScan on small databases.  In the first family the graph varies and each
   job has one limit; in the second the graph is fixed, a network with two jobs
   and a job behind one of them, and three limits take all values. *)
EXTENDS LimitScan, FiniteSetsExt, SequencesExt

CONSTANTS MaxRelations, MaxValue

Assignments ==
  {<<"job_network", "job_network", "job", "job">>,
   <<"job_network", "job_network", "job_network", "job">>,
   <<"management_unit", "job_network", "job", "file">>}

Raw(o) == [owner |-> o, kind |-> "raw", zone |-> 0, offset |-> 0, time |-> 0, duration |-> 0]

Values == 0..MaxValue
FewFacts ==
  [owner : {2, 3}, kind : {"finish_by"}, zone : Values, offset : Values, time : Values, duration : {0}]
    \cup [owner : {2, 3}, kind : {"max_elapsed"}, zone : {0}, offset : {0}, time : {0}, duration : Values]
    \cup {Raw(o) : o \in {2, 3}}

\* A relation that leaves no reached node has no part in the result.
GraphVaries ==
  /\ nodeType \in Assignments
  /\ parent \in {p \in [Node -> Node \cup {None}] : \A n \in Node : p[n] = None \/ p[n] < n}
  /\ Search!ValidatedHierarchy = TRUE
  /\ relation \in UNION {kSubset(k, Node \X Node) : k \in 0..MaxRelations}
  /\ target \in Node
  /\ nodes = Search!Reachable
  /\ {r[1] : r \in relation} \subseteq nodes
  /\ fact = [l \in {n \in Node : nodeType[n] = "job"} |-> Raw(l)]

FactsVary ==
  /\ nodeType = <<"job_network", "job", "job", "job">>
  /\ parent = <<None, 1, 1, None>>
  /\ relation = {<<3, 4>>}
  /\ target = 1
  /\ nodes = Search!Reachable
  /\ fact \in [{1, 2} -> FewFacts] \cup {f \in [1..3 -> FewFacts] : f[3].kind = f[2].kind}

MCInit ==
  /\ GraphVaries \/ FactsVary
  /\ scopeEdges = {e \in Node \X Node : e[1] \in nodes /\ e[2] \in Search!Scope(e[1])}
  /\ contained = Search!Below
  /\ reachedIDs = SetToSortSeq(nodes, <)
  /\ Input = TRUE   \* one condition, not a choice among its disjuncts
  /\ Begin

MCSpec == MCInit /\ [][Next]_vars
===============================================================================
