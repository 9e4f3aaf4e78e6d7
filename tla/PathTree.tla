-------------------------------- MODULE PathTree --------------------------------
(***************************************************************************)
(* buildTree, compressTree and finish of internal/pathtree: the tree that  *)
(* shows every connection of the reached graph once.  The paths it is made *)
(* of are the least ones, which is what PathPrepare finds.                 *)
(*                                                                         *)
(* A node of the tree is the path from the target to it.                   *)
(***************************************************************************)
EXTENDS PathGraph

CONSTANT MaxHidden  \* maxHiddenNodeIDs

ASSUME MaxHiddenAssumption == MaxHidden \in Nat

VARIABLES
  selected,          \* selectedPaths
  limitFree,         \* limitFreePaths
  todo,              \* the nodes whose path is still to be inserted
  occurrences,       \* the tree nodes of each node, as they were created
  referenceTargets,  \* where references to a node lead
  reference,         \* the tree nodes that are references
  shown              \* the tree nodes that are not compressed away; `via` has the
                     \* connection from the node above, or HiddenConnections

inputs == <<graph, selected, limitFree>>
treeVars == <<inputs, pc, todo, occurrences, referenceTargets, reference, shown>>

--------------------------------------------------------------------------------
(* The paths that prepare returns. *)

LeastPaths(E) ==
  LET S == SimplePathsFrom(target, E)
      to(n) == {p \in S : End(p) = n}
  IN  [n \in nodes |-> LET T == to(n) IN IF T = {} THEN None ELSE LeastPath(T)]

SelectedPaths ==
  LET sure == LeastPaths({e \in edges : confirmed(e)})
      all == LeastPaths(edges)
  IN  [n \in nodes |-> LET p == sure[n] IN IF p # None THEN p ELSE all[n]]

LimitFreePaths ==
  IF target \in owners THEN [n \in nodes |-> None]
  ELSE LeastPaths({e \in edges : e.to \notin owners})

(* Terminals, endpoints and the cycles without a limit. *)
Boundaries ==
  LET past == {n \in nodes : limitFree[n] # None}
  IN  {n \in past : Out(n) = {}}
      \cup {Min(c \cap past) : c \in {d \in cycles : d \cap owners = {} /\ d \cap past # {}}}

TreeInit ==
  /\ Graph
  /\ selected = <<>>
  /\ limitFree = <<>>
  /\ pc = "prepare"
  /\ todo = {}
  /\ occurrences = [n \in nodes |-> IF n = target THEN <<<<>>>> ELSE <<>>]
  /\ referenceTargets = <<>>
  /\ reference = <<>>
  /\ shown = <<>>

(* prepare, as PathPrepare has it step by step. *)
Prepare ==
  /\ pc = "prepare"
  /\ selected' = SelectedPaths
  /\ limitFree' = LimitFreePaths
  /\ referenceTargets' = selected'
  /\ todo' = nodes
  /\ pc' = "selected"
  /\ UNCHANGED <<graph, occurrences, reference, shown>>

--------------------------------------------------------------------------------
(* The tree before it is compressed. *)

Occurrences == UNION {Range(occurrences[n]) : n \in nodes}
Tree == Occurrences \cup DOMAIN reference

Children(p) == {q \in Tree : q # <<>> /\ Front(q) = p}

(* insertPath: the prefixes of p that are new.  A path meets no node twice, so that
   a node gets at most one of them. *)
Inserted(p) ==
  LET new(n) == {q \in {SubSeq(p, 1, k) : k \in DOMAIN p} \ Occurrences : End(q) = n}
  IN  [n \in nodes |->
         IF new(n) = {} THEN occurrences[n]
         ELSE Append(occurrences[n], CHOOSE q \in new(n) : TRUE)]

InsertSelected ==
  /\ pc = "selected"
  /\ todo # {}
  /\ occurrences' = Inserted(selected[Min(todo)])
  /\ todo' = todo \ {Min(todo)}
  /\ UNCHANGED <<inputs, pc, referenceTargets, reference, shown>>

SelectedDone ==
  /\ pc = "selected"
  /\ todo = {}
  /\ pc' = "uncovered"
  /\ todo' = Boundaries
  /\ UNCHANGED <<inputs, occurrences, referenceTargets, reference, shown>>

InsertUncovered ==
  /\ pc = "uncovered"
  /\ todo # {}
  /\ occurrences' = Inserted(limitFree[Min(todo)])
  /\ todo' = todo \ {Min(todo)}
  /\ UNCHANGED <<inputs, pc, referenceTargets, reference, shown>>

--------------------------------------------------------------------------------
(* References. *)

ReferenceTo(p, kind) == [type |-> kind, to |-> referenceTargets'[End(p)]]

(* A leaf gives way to the first occurrence that has children. *)
ChosenTarget(n) ==
  LET inner == {i \in DOMAIN occurrences[n] : Children(occurrences[n][i]) # {}}
  IN  IF Children(referenceTargets[n]) = {} /\ inner # {}
        THEN occurrences[n][Min(inner)] ELSE referenceTargets[n]

\* Bug: every other occurrence becomes a reference.
BecomesReferenceAlways(p) == p # referenceTargets'[End(p)]

(* An occurrence with children leads to other nodes: it stays as it is. *)
BecomesReference(p) == p # referenceTargets'[End(p)] /\ Children(p) = {}

MarkReferences ==
  /\ pc = "uncovered"
  /\ todo = {}
  /\ referenceTargets' = [n \in nodes |-> ChosenTarget(n)]
  /\ reference' =
       [p \in {q \in Occurrences : BecomesReference(q)} |-> ReferenceTo(p, "shared")]
  /\ pc' = "edges"
  /\ UNCHANGED <<inputs, todo, occurrences, shown>>

(* The edges that no path in the tree uses where references lead. *)
Unused ==
  {p \in {Append(referenceTargets[e.from], e) : e \in edges} : p \notin Tree}

CloseEdges ==
  /\ pc = "edges"
  /\ UNCHANGED <<inputs, todo, occurrences, referenceTargets>>
  /\ reference' =
       [p \in DOMAIN reference \cup Unused |->
          IF p \in DOMAIN reference THEN reference[p]
          ELSE ReferenceTo(p, IF sameCycle(Last(p).from, Last(p).to) THEN "cycle" ELSE "shared")]
  /\ shown' =
       [p \in Tree \cup Unused |->
          [via |-> IF p = <<>> THEN <<>> ELSE <<Last(p)>>,
           hiddenNodeIDs |-> <<>>, hiddenJobs |-> 0, hiddenNodes |-> 0, truncated |-> FALSE]]
  /\ pc' = "compress"

--------------------------------------------------------------------------------
(* compressTree. *)

Above(p) == {q \in DOMAIN shown : IsStrictPrefix(q, p)}
Parent(p) == CHOOSE q \in Above(p) : \A r \in Above(p) : Len(r) <= Len(q)
ShownChildren(p) == {q \in DOMAIN shown : q # <<>> /\ Parent(q) = p}

\* Bug: the number of occurrences is not looked at.
MeetsOnceForgotten(n) == Cardinality(In(n)) = 1 /\ Cardinality(Out(n)) = 1

MeetsOnce(n) ==
  Len(occurrences[n]) <= 1 /\ Cardinality(In(n)) = 1 /\ Cardinality(Out(n)) = 1

canHide(p) ==
  LET n == End(p)
  IN  /\ p # <<>>
      /\ p \notin DOMAIN reference
      /\ n \notin owners
      /\ ~InCycle(n)
      /\ type[n] # "management_unit"
      /\ MeetsOnce(n)
      /\ \A e \in In(n) \cup Out(n) :
           /\ isRelation(e)
           /\ ~hasUncertainRelation(e)
           /\ "external_event" \notin {type[e.from], type[e.to]}

Hideable == {p \in DOMAIN shown : canHide(p) /\ Cardinality(ShownChildren(p)) = 1}

Take(s, k) == SubSeq(s, 1, Min({Len(s), k}))

\* Bug: the connections of the compressed node are dropped.
MergedOwnConnectionsOnly(p, q) ==
  [shown[q] EXCEPT !.hiddenNodes = @ + shown[p].hiddenNodes + 1]

(* What q shows when p, the node above it, is compressed away. *)
Merged(p, q) ==
  LET count == shown[q].hiddenNodes + shown[p].hiddenNodes + 1
  IN  [via |-> shown[p].via \o shown[q].via,
       hiddenNodeIDs |->
         Take(<<End(p)>> \o shown[p].hiddenNodeIDs \o shown[q].hiddenNodeIDs, MaxHidden),
       hiddenJobs |-> shown[q].hiddenJobs + shown[p].hiddenJobs + (IF type[End(p)] = "job" THEN 1 ELSE 0),
       hiddenNodes |-> count,
       truncated |-> shown[p].truncated \/ shown[q].truncated \/ count > MaxHidden]

(* Lower nodes first. *)
Compress ==
  /\ pc = "compress"
  /\ \E p \in Hideable :
       /\ \A q \in Hideable : Len(q) <= Len(p)
       /\ \E q \in ShownChildren(p) :
            shown' = [r \in DOMAIN shown \ {p} |-> IF r = q THEN Merged(p, q) ELSE shown[r]]
  /\ UNCHANGED <<inputs, pc, todo, occurrences, referenceTargets, reference>>

--------------------------------------------------------------------------------
(* finish. *)

(* The places of limit owners and of uncovered boundaries. *)
Referred == {selected[n] : n \in owners} \cup {limitFree[n] : n \in Boundaries}

(* A reference to a node that was compressed away has no ID to refer to. *)
Finish ==
  /\ pc = "compress"
  /\ Hideable = {}
  /\ pc' = IF Referred \subseteq DOMAIN shown THEN "done" ELSE "removed"
  /\ reference' =
       [p \in DOMAIN reference |->
          IF reference[p].to \in DOMAIN shown THEN reference[p] ELSE [reference[p] EXCEPT !.to = None]]
  /\ UNCHANGED <<inputs, todo, occurrences, referenceTargets, shown>>

(* The context is done: nothing is returned. *)
TreeFail ==
  /\ pc \notin {"done", "removed", "failed"}
  /\ pc' = "failed"
  /\ UNCHANGED <<inputs, todo, occurrences, referenceTargets, reference, shown>>

TreeNext ==
  \/ Prepare
  \/ InsertSelected
  \/ SelectedDone
  \/ InsertUncovered
  \/ MarkReferences
  \/ CloseEdges
  \/ Compress
  \/ Finish
  \/ TreeFail

TreeSpec == TreeInit /\ [][TreeNext]_treeVars

--------------------------------------------------------------------------------
(* What Build promises. *)

Inner(via) == [i \in 1..(Len(via) - 1) |-> via[i].to]

(* "All hops of a compressed section, in order from the parent to the shown
   node ... not cut by the limit of hidden IDs" (dependency-analysis.md:219): read
   from the root, the connections of the shown nodes give the paths of the
   tree, together they are all connections of the graph, and the IDs, the counts
   and the mark of truncation tell what was left out. *)
ConnectionsKept ==
  pc = "done" =>
    /\ \A p \in DOMAIN shown \ {<<>>} :
         LET s == shown[p]
         IN  /\ p = Parent(p) \o s.via
             /\ s.hiddenNodeIDs = Take(Inner(s.via), MaxHidden)
             /\ s.truncated <=> Len(s.via) - 1 > MaxHidden
             /\ s.hiddenJobs = Cardinality({i \in DOMAIN Inner(s.via) : type[Inner(s.via)[i]] = "job"})
    /\ edges = UNION {Range(shown[p].via) : p \in DOMAIN shown}

(* "Connections that were not taken refer to a tree node shown elsewhere ... a
   tree node that refers has no children" (dependency-analysis.md:201): a
   reference leads to a shown node of the same ID, which is no reference itself
   and has all connections of that ID below it, and no owner of a limit and no
   boundary was compressed away. *)
ReferencesResolve ==
  /\ pc # "removed"
  /\ pc = "done" =>
       \A p \in DOMAIN shown \cap DOMAIN reference :
         LET to == reference[p].to
         IN  /\ ShownChildren(p) = {}
             /\ to \in DOMAIN shown \ DOMAIN reference
             /\ End(to) = End(p)
             /\ {Head(shown[q].via) : q \in ShownChildren(to)} = Out(End(p))

(* "An occurrence that the representative path of another node passes is left
   expanded" (dependency-analysis.md:204): no reference stands within a selected
   path or the path of an uncovered boundary. *)
PathsUnbroken ==
  pc = "done" =>
    \A p \in Range(selected) \cup {limitFree[n] : n \in Boundaries} :
      \A q \in DOMAIN reference : ~IsStrictPrefix(q, p)

(* "References tell the joining of another path from the return to a cycle"
   (dependency-analysis.md:202): who follows children and references comes
   back to the same tree node only over a reference that is marked "cycle". *)
CyclesMarked ==
  pc = "done" =>
    LET steps == {[from |-> Parent(p), to |-> p] : p \in DOMAIN shown \ {<<>>}}
                 \cup {[from |-> p, to |-> reference[p].to] :
                         p \in {q \in DOMAIN reference : reference[q].type = "shared"}}
        after[k \in 0..Cardinality(DOMAIN shown)] ==
          IF k = 0 THEN DOMAIN shown
          ELSE LET near == after[k - 1] IN {s.to : s \in {r \in steps : r.from \in near}}
    IN  after[Cardinality(DOMAIN shown)] = {}
===============================================================================
