---------------------------- MODULE LimitScanProofs ----------------------------
(***************************************************************************)
(* Scan lists every limit of the reached jobs at its place, with its scope *)
(* root, and never takes the result of a traversal for inconsistent: for   *)
(* every database that passed the import checks, every target, every batch *)
(* size and every order in which the maps are iterated.  The invariant     *)
(* follows the walks of prepareScopeRoots (WalkGoesUp, RootsKnown) and the *)
(* batches (LimitsRead); the places follow by counting, once for each of   *)
(* the slices that finishBucket sorts.                                     *)
(***************************************************************************)
EXTENDS LimitScan, FiniteSetTheorems, TLAPS

Typed ==
  /\ pc \in Pcs
  /\ scopeRoots \in [Node -> Node \cup {None}]
  /\ path \subseteq Node
  /\ current \in Node \cup {None}
  /\ start \in Nat

(* A root that is known is the top of the scopes above its node. *)
IsRootOf(r, n) == r \in Above(n) /\ ~hasParent(r) /\ IsRoot(r)
RootsKnown == \A n \in Node : scopeRoots[n] # None => IsRootOf(scopeRoots[n], n)

(* A walk has come up to `current` by way of the nodes of `path`, and each of
   them was left for its parent. *)
WalkGoesUp ==
  current # None =>
    /\ current \in scopeNodeIDs
    /\ \A p \in path : hasParent(p) /\ scopeParent(p) \in path \cup {current} /\ current \in Above(p)

RootsNoted == pc \in {"read", "finish", "done"} => \A n \in scopeNodeIDs : scopeRoots[n] # None

(* The candidates are those of the batches read. *)
ReadIDs == {reachedIDs[i] : i \in {j \in DOMAIN reachedIDs : j <= start}}
LimitsRead ==
  /\ pc \in {"idle", "roots"} => start = 0
  /\ pc \in {"finish", "done"} => start >= Len(reachedIDs)
  /\ candidates = {Candidate(l) : l \in {k \in DOMAIN fact : fact[k].owner \in ReadIDs}}

IInv ==
  /\ Input
  /\ Typed
  /\ RootsKnown
  /\ WalkGoesUp
  /\ RootsNoted
  /\ LimitsRead
  /\ EveryLimitListed
  /\ ScanAccepts

--------------------------------------------------------------------------------
(* The input, and what it says of the scope edges. *)

USE DEF input, database, traversed

(* Where the input stays, so does what is defined from it. *)
LEMMA SameInput ==
  ASSUME UNCHANGED input
  PROVE  /\ \A n : hasParent(n)' <=> hasParent(n)
         /\ \A n : scopeParent(n)' = scopeParent(n)
         /\ scopeNodeIDs' = scopeNodeIDs
         /\ \A n : Above(n)' = Above(n)
         /\ \A n : IsRoot(n)' <=> IsRoot(n)
         /\ \A n : membership(n)' = membership(n)
  <1>1. \A n : hasParent(n)' <=> hasParent(n)
    BY DEF hasParent
  <1>2. \A n : scopeParent(n)' = scopeParent(n)
    BY DEF scopeParent
  <1>3. \A n : Above(n)' = Above(n)
    BY DEF Above, UpClosed
  <1> QED
    BY <1>1, <1>2, <1>3 DEF scopeNodeIDs, IsRoot, membership

(* No step of Scan disturbs its input. *)
LEMMA InputUntouched ==
  ASSUME Input, UNCHANGED input
  PROVE  Input'
  <1>1. Search!ValidatedHierarchy'
    BY DEF Input, Search!ValidatedHierarchy, Search!AllowedParent
  <1>2. \A n : Search!Scope(n)' = Search!Scope(n)
    BY DEF Search!Scope
  <1>3. \A n : Search!Dependents(n)' = Search!Dependents(n)
    BY DEF Search!Dependents, Search!isTraversableType
  <1>4. \A S : Search!Closed(S)' <=> Search!Closed(S)
    BY <1>2, <1>3 DEF Search!Closed
  <1>5. Search!Reachable' = Search!Reachable
    BY <1>4 DEF Search!Reachable
  <1>6. \A S : Search!ClosedBelow(S, target)' <=> Search!ClosedBelow(S, target)
    BY <1>2 DEF Search!ClosedBelow
  <1>7. Search!Below' = Search!Below
    BY <1>6 DEF Search!Below
  <1>8. TraversalResult'
    BY <1>2, <1>5, <1>7 DEF Input, TraversalResult, Search!isTargetType
  <1>9. ValidatedLimits'
    BY DEF Input, ValidatedLimits, Facts
  <1> QED
    BY <1>1, <1>8, <1>9 DEF Input, Search!NodeTypes

(* A scope edge joins a reached network to a child of it, reached as well. *)
LEMMA EdgeIsScope ==
  ASSUME Input, NEW e \in scopeEdges
  PROVE  /\ e = <<e[1], e[2]>> /\ e[1] \in Node /\ e[2] \in Node
         /\ e[1] \in nodes /\ e[2] \in nodes
         /\ nodeType[e[1]] = "job_network"
         /\ parent[e[2]] = e[1]
         /\ e[2] \in Search!Scope(e[1])
  <1>1. /\ e \in Node \X Node /\ e[1] \in nodes /\ e[2] \in Search!Scope(e[1])
    BY DEF Input, TraversalResult
  <1>2. e[2] \in nodes
    BY <1>1 DEF Input, TraversalResult, Search!Reachable, Search!Closed
  <1> QED
    BY <1>1, <1>2 DEF Search!Scope

(* A scope child has one parent. *)
LEMMA OneParent ==
  ASSUME Input
  PROVE  \A e, f \in scopeEdges : e[2] = f[2] => e = f
  BY EdgeIsScope

(* The edge into a node is the one prepare has put into its map. *)
LEMMA ScopeParentIsParent ==
  ASSUME Input, NEW n \in Node, hasParent(n)
  PROVE  /\ <<scopeParent(n), n>> \in scopeEdges
         /\ scopeParent(n) \in scopeNodeIDs
         /\ scopeParent(n) = parent[n]
         /\ scopeParent(n) \in Node
  <1> DEFINE e == CHOOSE x \in scopeEdges : x[2] = n
  <1>1. e \in scopeEdges /\ e[2] = n
    BY DEF hasParent
  <1>2. e[1] = scopeParent(n)
    BY DEF scopeParent
  <1> HIDE DEF e
  <1> QED
    BY <1>1, <1>2, EdgeIsScope DEF scopeNodeIDs

(* The nodes of the edges are reached. *)
LEMMA ScopeNodesReached ==
  ASSUME Input
  PROVE  /\ scopeNodeIDs \subseteq nodes
         /\ scopeNodeIDs \subseteq Node
         /\ nodes \subseteq Node
         /\ \A n \in scopeNodeIDs : ~hasParent(n) => IsRoot(n)
  <1>1. nodes \subseteq Node
    BY DEF Input, TraversalResult, Search!Reachable
  <1>2. \A n \in scopeNodeIDs : n \in nodes
    BY EdgeIsScope DEF scopeNodeIDs
  <1>3. \A n \in scopeNodeIDs : ~hasParent(n) => nodeType[n] = "job_network"
    BY EdgeIsScope DEF scopeNodeIDs, hasParent
  <1> QED
    BY <1>1, <1>2, <1>3 DEF IsRoot

(* Above is the way up: from a node, from its parent, and from what is met. *)
LEMMA AboveItself ==
  ASSUME NEW n \in Node
  PROVE  n \in Above(n)
  BY DEF Above

LEMMA AboveStep ==
  ASSUME NEW p \in Node, NEW n \in Above(p), NEW m \in Node, <<m, n>> \in scopeEdges
  PROVE  m \in Above(p)
  BY DEF Above, UpClosed

LEMMA AboveTransitive ==
  ASSUME NEW p \in Node, NEW n \in Above(p), NEW m \in Above(n)
  PROVE  m \in Above(p)
  BY DEF Above

LEMMA AboveTop ==
  ASSUME NEW n \in Node, ~hasParent(n)
  PROVE  Above(n) = {n}
  <1>1. UpClosed({n})
    BY DEF UpClosed, hasParent
  <1> QED
    BY <1>1 DEF Above

(* What is not the target and not below it stays so on the way up. *)
LEMMA AboveStaysDownstream ==
  ASSUME Input, NEW n \in Node, NEW m \in Above(n), membership(n) = "downstream"
  PROVE  membership(m) = "downstream"
  <1> DEFINE D == {k \in Node : membership(k) = "downstream"}
  <1>1. \A S \in SUBSET Node : Search!ClosedBelow(S, target) => \A k \in contained : k \in S
    BY DEF Input, TraversalResult, Search!Below
  <1>2. \A e \in scopeEdges : e[1] = target \/ e[1] \in contained => e[2] \in contained
    <2> SUFFICES ASSUME NEW e \in scopeEdges, e[1] = target \/ e[1] \in contained
                 PROVE  e[2] \in contained
      OBVIOUS
    <2>1. e[2] \in Node /\ e[2] \in Search!Scope(e[1])
      BY EdgeIsScope
    <2>2. \A S \in SUBSET Node : Search!ClosedBelow(S, target) => e[2] \in S
      BY <1>1, <2>1 DEF Search!ClosedBelow
    <2> QED
      BY <2>1, <2>2 DEF Input, TraversalResult, Search!Below
  <1>3. UpClosed(D)
    BY <1>2, EdgeIsScope DEF UpClosed, membership
  <1>4. m \in D
    BY <1>3 DEF Above
  <1> QED
    BY <1>4

(* A reached node that is not the target and has no scope edge into it was
   reached by a relation. *)
LEMMA EntryHasRelation ==
  ASSUME Input, NEW r \in nodes, r # target, ~hasParent(r)
  PROVE  \E n \in nodes : <<n, r>> \in relation
  <1> SUFFICES ASSUME \A n \in nodes : <<n, r>> \notin relation
               PROVE  FALSE
    OBVIOUS
  <1> DEFINE S == nodes \ {r}
  <1>1. nodes = Search!Reachable /\ target \in nodes /\ nodes \in SUBSET Node
    BY DEF Input, TraversalResult, Search!Reachable
  <1>2. \A n \in nodes : Search!Scope(n) \cup Search!Dependents(n) \subseteq nodes
    BY DEF Input, TraversalResult, Search!Reachable, Search!Closed, Search!Scope, Search!Dependents
  <1>3. ASSUME NEW n \in nodes, r \in Search!Scope(n)
        PROVE  FALSE
    <2>1. <<n, r>> \in scopeEdges
      BY <1>1, <1>3 DEF Input, TraversalResult
    <2> QED
      BY <2>1 DEF hasParent
  <1>4. \A n \in nodes : r \notin Search!Dependents(n)
    BY DEF Search!Dependents
  <1>5. Search!Closed(S)
    BY <1>2, <1>3, <1>4 DEF Search!Closed
  <1> QED
    BY <1>1, <1>5 DEF Search!Reachable

--------------------------------------------------------------------------------
(* The walks of prepareScopeRoots. *)

(* Roots, candidates and the result of the steps that leave them alone. *)
LEMMA RootsUntouched ==
  ASSUME RootsKnown, UNCHANGED <<input, scopeRoots>>
  PROVE  RootsKnown'
  BY SameInput DEF RootsKnown, IsRootOf

LEMMA NotedUntouched ==
  ASSUME RootsNoted, UNCHANGED <<input, scopeRoots>>,
         pc' \in {"read", "finish", "done"} => pc \in {"read", "finish", "done"}
  PROVE  RootsNoted'
  BY SameInput DEF RootsNoted

LEMMA WalkUntouched ==
  ASSUME WalkGoesUp, UNCHANGED <<input, path, current>>
  PROVE  WalkGoesUp'
  BY SameInput DEF WalkGoesUp

LEMMA ReadUntouched ==
  ASSUME LimitsRead, UNCHANGED <<input, scopeRoots, start, candidates>>,
         pc' \in {"idle", "roots"} => pc \in {"idle", "roots"},
         pc' \in {"finish", "done"} => pc \in {"finish", "done"}
  PROVE  LimitsRead'
  <1>1. ReadIDs' = ReadIDs
    BY DEF ReadIDs
  <1>2. \A l : Candidate(l)' = Candidate(l)
    BY SameInput DEF Candidate
  <1> QED
    BY <1>1, <1>2 DEF LimitsRead

(* The start of Scan. *)
LEMMA InitInv == Init => IInv
  <1> SUFFICES ASSUME Init PROVE IInv
    OBVIOUS
  <1> USE DEF Init, Begin
  <1>1. Typed
    BY DEF Typed, Pcs
  <1>2. RootsKnown /\ WalkGoesUp /\ RootsNoted
    BY DEF RootsKnown, WalkGoesUp, RootsNoted
  <1>3. ReadIDs = {}
    BY DEF ReadIDs, Input
  <1>4. LimitsRead
    BY <1>3 DEF LimitsRead
  <1> QED
    BY <1>1, <1>2, <1>4 DEF IInv, EveryLimitListed, ScanAccepts

(* prepare: the scopes of a generation have one parent each. *)
LEMMA PrepareKeeps ==
  ASSUME IInv, Prepare
  PROVE  IInv'
  <1> USE DEF IInv, Prepare
  <1>1. pc' = "roots"
    BY OneParent
  <1>2. Typed'
    BY <1>1 DEF Typed, Pcs
  <1>3. RootsKnown' /\ WalkGoesUp'
    BY RootsUntouched, WalkUntouched
  <1>4. RootsNoted' /\ EveryLimitListed' /\ ScanAccepts'
    BY <1>1 DEF RootsNoted, EveryLimitListed, ScanAccepts
  <1>5. LimitsRead'
    BY <1>1, ReadUntouched
  <1> QED
    BY InputUntouched, <1>2, <1>3, <1>4, <1>5

LEMMA StartWalkKeeps ==
  ASSUME IInv, StartWalk
  PROVE  IInv'
  <1> USE DEF IInv, StartWalk
  <1>1. PICK n \in scopeNodeIDs : current' = n
    OBVIOUS
  <1>2. Typed'
    BY <1>1, ScopeNodesReached DEF Typed, Pcs
  <1>3. RootsKnown'
    BY RootsUntouched
  <1>4. WalkGoesUp'
    BY <1>1, SameInput DEF WalkGoesUp
  <1>5. RootsNoted' /\ EveryLimitListed' /\ ScanAccepts'
    BY DEF RootsNoted, EveryLimitListed, ScanAccepts
  <1>6. LimitsRead'
    BY ReadUntouched
  <1> QED
    BY InputUntouched, <1>2, <1>3, <1>4, <1>5, <1>6

LEMMA ClimbKeeps ==
  ASSUME IInv, Climb
  PROVE  IInv'
  <1> USE DEF IInv, Climb
  <1>1. /\ hasParent(current)
        /\ current \in Node
    BY DEF WalkEnds, Typed
  <1>2. /\ <<scopeParent(current), current>> \in scopeEdges
        /\ scopeParent(current) \in scopeNodeIDs
        /\ scopeParent(current) \in Node
    BY <1>1, ScopeParentIsParent
  <1>3. Typed'
    BY <1>1, <1>2 DEF Typed, Pcs
  <1>4. RootsKnown'
    BY RootsUntouched
  <1>5. WalkGoesUp'
    <2>1. \A p \in path : scopeParent(current) \in Above(p)
      BY <1>1, <1>2, AboveStep DEF WalkGoesUp, Typed
    <2>2. scopeParent(current) \in Above(current)
      BY <1>1, <1>2, AboveStep, AboveItself
    <2>3. \A p \in path \cup {current} :
            /\ hasParent(p)
            /\ scopeParent(p) \in path \cup {current} \cup {scopeParent(current)}
            /\ scopeParent(current) \in Above(p)
      BY <1>1, <2>1, <2>2 DEF WalkGoesUp
    <2> QED
      BY <1>2, <2>3, SameInput DEF WalkGoesUp
  <1>6. RootsNoted' /\ EveryLimitListed' /\ ScanAccepts'
    BY DEF RootsNoted, EveryLimitListed, ScanAccepts
  <1>7. LimitsRead'
    BY ReadUntouched
  <1> QED
    BY InputUntouched, <1>3, <1>4, <1>5, <1>6, <1>7

(* A walk never comes back to a node it has passed: the parents of its path
   would be a set of nodes that has the parent of each of them. *)
LEMMA WalkIsNoCycle ==
  ASSUME IInv, current # None
  PROVE  current \notin path
  <1> SUFFICES ASSUME current \in path PROVE FALSE
    OBVIOUS
  <1>1. \A p \in path : p \in Node /\ hasParent(p) /\ scopeParent(p) \in path
    BY DEF IInv, WalkGoesUp, Typed
  <1>2. \A p \in path : parent[p] \in path
    BY <1>1, ScopeParentIsParent DEF IInv
  <1>3. path \in SUBSET Node /\ path # {}
    BY DEF IInv, Typed
  <1> QED
    BY <1>2, <1>3 DEF IInv, Input, Search!ValidatedHierarchy

(* Where a walk ends, there is the root of all that it has passed. *)
LEMMA WalkFindsRoot ==
  ASSUME IInv, current # None, WalkEnds(current)
  PROVE  /\ FindsRoot(current)
         /\ \A p \in path \cup {current} : IsRootOf(RootFound(current), p)
  <1>1. current \notin path /\ current \in Node /\ current \in scopeNodeIDs
    BY WalkIsNoCycle DEF IInv, WalkGoesUp, Typed
  <1>2. IsRootOf(RootFound(current), current) /\ FindsRoot(current)
    <2>1. CASE scopeRoots[current] # None
      BY <1>1, <2>1 DEF IInv, RootsKnown, RootFound, FindsRoot
    <2>2. CASE scopeRoots[current] = None
      <3>1. ~hasParent(current)
        BY <1>1, <2>2 DEF WalkEnds
      <3>2. IsRoot(current)
        BY <1>1, <3>1, ScopeNodesReached DEF IInv
      <3> QED
        BY <1>1, <2>2, <3>1, <3>2, AboveItself DEF RootFound, FindsRoot, IsRootOf
    <2> QED
      BY <2>1, <2>2
  <1>3. \A p \in path \cup {current} : p \in Node /\ current \in Above(p)
    BY <1>1, AboveItself DEF IInv, WalkGoesUp, Typed
  <1>4. \A p \in path \cup {current} : RootFound(current) \in Above(p)
    BY <1>2, <1>3, AboveTransitive DEF IsRootOf
  <1> QED
    BY <1>2, <1>4 DEF IsRootOf

(* Before the first batch nothing is read. *)
LEMMA NothingReadYet ==
  ASSUME IInv, pc \in {"idle", "roots"}
  PROVE  ReadIDs = {} /\ candidates = {} /\ start = 0
  <1>1. start = 0
    BY DEF IInv, LimitsRead
  <1>2. ReadIDs = {}
    BY <1>1 DEF ReadIDs, IInv, Input
  <1> QED
    BY <1>1, <1>2 DEF IInv, LimitsRead

LEMMA EndWalkKeeps ==
  ASSUME IInv, EndWalk
  PROVE  IInv'
  <1> USE DEF EndWalk
  <1>1. FindsRoot(current) /\ \A p \in path \cup {current} : IsRootOf(RootFound(current), p)
    BY WalkFindsRoot
  <1>2. /\ scopeRoots' = [n \in Node |-> IF n \in path \cup {current} THEN RootFound(current)
                                         ELSE scopeRoots[n]]
        /\ current' = None /\ pc' = pc
    BY <1>1
  <1>3. RootFound(current) \in Node
    BY <1>1 DEF IsRootOf, IsRoot, IInv, Input, TraversalResult, Search!Reachable
  <1>4. Typed'
    BY <1>2, <1>3 DEF IInv, Typed, Pcs
  <1>5. RootsKnown'
    <2>1. \A n \in Node : scopeRoots'[n] # None => IsRootOf(scopeRoots'[n], n)
      BY <1>1, <1>2 DEF IInv, RootsKnown
    <2> QED
      BY <2>1, SameInput DEF RootsKnown, IsRootOf
  <1>6. WalkGoesUp' /\ RootsNoted' /\ EveryLimitListed' /\ ScanAccepts'
    BY <1>2 DEF WalkGoesUp, RootsNoted, EveryLimitListed, ScanAccepts
  <1>7. LimitsRead'
    <2>1. ReadIDs' = {} /\ candidates' = {} /\ start' = 0
      BY NothingReadYet DEF ReadIDs
    <2> QED
      BY <1>2, <2>1 DEF LimitsRead
  <1>8. Input'
    BY InputUntouched DEF IInv
  <1> QED
    BY <1>4, <1>5, <1>6, <1>7, <1>8 DEF IInv

LEMMA RootsPreparedKeeps ==
  ASSUME IInv, RootsPrepared
  PROVE  IInv'
  <1> USE DEF RootsPrepared
  <1>1. Typed'
    BY DEF IInv, Typed, Pcs
  <1>2. RootsKnown' /\ WalkGoesUp'
    BY RootsUntouched, WalkUntouched DEF IInv
  <1>3. RootsNoted' /\ EveryLimitListed' /\ ScanAccepts'
    BY SameInput DEF RootsNoted, EveryLimitListed, ScanAccepts
  <1>4. LimitsRead'
    BY ReadUntouched DEF IInv
  <1>5. Input'
    BY InputUntouched DEF IInv
  <1> QED
    BY <1>1, <1>2, <1>3, <1>4, <1>5 DEF IInv

--------------------------------------------------------------------------------
(* readAll. *)

(* A batch adds the IDs between two values of start. *)
LEMMA BatchExtendsRead ==
  ASSUME IInv, start < Len(reachedIDs), start' = NextStart, UNCHANGED input
  PROVE  ReadIDs' = ReadIDs \cup Batch
  <1> DEFINE N == Len(reachedIDs)
  <1>1. reachedIDs \in Seq(Node) /\ N \in Nat /\ DOMAIN reachedIDs = 1..N /\ start \in Nat
    BY DEF IInv, Input, Typed
  <1>2. BatchEnd = IF start + BatchSize < N THEN start + BatchSize ELSE N
    BY DEF BatchEnd
  <1>3. {j \in DOMAIN reachedIDs : j <= start + BatchSize}
          = {j \in DOMAIN reachedIDs : j <= start} \cup ((start + 1)..BatchEnd)
    <2>1. \A j \in Int : j \in 1..N /\ j <= start + BatchSize
                          <=> (j \in 1..N /\ j <= start) \/ j \in (start + 1)..BatchEnd
      <3>1. start < N /\ BatchSize \in Nat
        BY BatchAssumption
      <3>2. N \in Nat /\ start \in Nat
        BY <1>1
      <3> HIDE DEF N
      <3> QED
        BY <1>2, <3>1, <3>2
    <2>2. DOMAIN reachedIDs \subseteq Int /\ (start + 1)..BatchEnd \subseteq Int
      BY <1>1
    <2> HIDE DEF N
    <2> QED
      BY <1>1, <2>1, <2>2
  <1>4. ReadIDs' = {reachedIDs[i] : i \in {j \in DOMAIN reachedIDs : j <= start + BatchSize}}
    BY DEF ReadIDs, NextStart
  <1> QED
    BY <1>3, <1>4 DEF ReadIDs, Batch

(* The rows of a batch are limits of jobs that the search has reached. *)
LEMMA RowsAreValid ==
  ASSUME IInv
  PROVE  \A l \in Rows : ~RowInvalid(l)
  <1>1. reachedIDs \in Seq(Node) /\ start \in Nat
    BY DEF IInv, Input, Typed
  <1>2. (start + 1)..BatchEnd \subseteq DOMAIN reachedIDs
    BY <1>1, BatchAssumption DEF BatchEnd
  <1>3. Batch \subseteq nodes
    BY <1>2 DEF Batch, IInv, Input
  <1> QED
    BY <1>3 DEF Rows, RowInvalid, IInv, Input, ValidatedLimits

LEMMA ReadBatchKeeps ==
  ASSUME IInv, ReadBatch
  PROVE  IInv'
  <1> USE DEF ReadBatch
  <1>1. /\ candidates' = candidates \cup {Candidate(l) : l \in Rows}
        /\ start' = NextStart /\ pc' = pc
    BY RowsAreValid
  <1>2. Typed'
    BY <1>1, BatchAssumption DEF IInv, Typed, NextStart
  <1>3. RootsKnown' /\ WalkGoesUp' /\ RootsNoted'
    BY <1>1, RootsUntouched, WalkUntouched, NotedUntouched DEF IInv
  <1>4. EveryLimitListed' /\ ScanAccepts'
    BY <1>1 DEF EveryLimitListed, ScanAccepts
  <1>5. LimitsRead'
    <2>1. ReadIDs' = ReadIDs \cup Batch
      BY <1>1, BatchExtendsRead
    <2>2. candidates = {Candidate(l) : l \in {k \in DOMAIN fact : fact[k].owner \in ReadIDs}}
      BY DEF IInv, LimitsRead
    <2>3. candidates' = {Candidate(l) : l \in {k \in DOMAIN fact : fact[k].owner \in ReadIDs'}}
      BY <1>1, <2>1, <2>2 DEF Rows
    <2>4. \A l : Candidate(l)' = Candidate(l)
      BY SameInput DEF Candidate
    <2> QED
      BY <1>1, <2>3, <2>4 DEF LimitsRead
  <1>6. Input'
    BY InputUntouched DEF IInv
  <1> QED
    BY <1>2, <1>3, <1>4, <1>5, <1>6 DEF IInv

LEMMA AllReadKeeps ==
  ASSUME IInv, AllRead
  PROVE  IInv'
  <1> USE DEF AllRead
  <1>1. Typed'
    BY DEF IInv, Typed, Pcs
  <1>2. RootsKnown' /\ WalkGoesUp' /\ RootsNoted'
    BY RootsUntouched, WalkUntouched, NotedUntouched DEF IInv
  <1>3. EveryLimitListed' /\ ScanAccepts'
    BY DEF EveryLimitListed, ScanAccepts
  <1>4. LimitsRead'
    <2>1. ReadIDs' = ReadIDs
      BY DEF ReadIDs
    <2>2. \A l : Candidate(l)' = Candidate(l)
      BY SameInput DEF Candidate
    <2>3. start' >= Len(reachedIDs')
      OBVIOUS
    <2> QED
      BY <2>1, <2>2, <2>3 DEF LimitsRead, IInv
  <1>5. Input'
    BY InputUntouched DEF IInv
  <1> QED
    BY <1>1, <1>2, <1>3, <1>4, <1>5 DEF IInv

LEMMA FailKeeps ==
  ASSUME IInv, Fail
  PROVE  IInv'
  <1> USE DEF Fail
  <1>1. Typed'
    BY DEF IInv, Typed, Pcs
  <1>2. RootsKnown' /\ WalkGoesUp' /\ RootsNoted'
    BY RootsUntouched, WalkUntouched, NotedUntouched DEF IInv
  <1>3. EveryLimitListed' /\ ScanAccepts'
    BY DEF EveryLimitListed, ScanAccepts
  <1>4. LimitsRead'
    BY ReadUntouched DEF IInv
  <1>5. Input'
    BY InputUntouched DEF IInv
  <1> QED
    BY <1>1, <1>2, <1>3, <1>4, <1>5 DEF IInv

--------------------------------------------------------------------------------
(* The order of finishBucket. *)

(* The fields of a limit that the order reads. *)
LEMMA FactFields ==
  ASSUME Input, NEW l \in DOMAIN fact
  PROVE  /\ l \in Nat /\ fact[l].owner \in Nat /\ fact[l].owner \in Node
         /\ fact[l].offset \in Nat /\ fact[l].time \in Nat /\ fact[l].duration \in Nat
         /\ fact[l].kind \in {"finish_by", "max_elapsed", "raw"}
  <1>1. l \in Nat /\ fact[l] \in Facts
    BY LimitAssumption DEF Input, ValidatedLimits
  <1>2. /\ fact[l].owner \in Node /\ fact[l].offset \in Nat /\ fact[l].time \in Nat
        /\ fact[l].duration \in Nat /\ fact[l].kind \in {"finish_by", "max_elapsed", "raw"}
    BY <1>1 DEF Facts
  <1> QED
    BY <1>1, <1>2, NodeAssumption

(* Two limits of one kind stand in the order of the code exactly if they stand
   in the order of the documented keys. *)
LEMMA LessIsPrecedes ==
  ASSUME Input, NEW a \in DOMAIN fact, NEW b \in DOMAIN fact, fact[a].kind = fact[b].kind
  PROVE  less(a, b) <=> Precedes(a, b)
  <1>1. CASE fact[a].kind = "finish_by"
    <2> DEFINE x == <<fact[a].offset, fact[a].time, fact[a].owner, a>>
               y == <<fact[b].offset, fact[b].time, fact[b].owner, b>>
    <2>1. Key(a) = x /\ Key(b) = y
      BY <1>1 DEF Key
    <2>2. Precedes(a, b) <=>
            \E i \in 1..4 : x[i] < y[i] /\ \A j \in 1..(i - 1) : x[j] = y[j]
      BY <2>1 DEF Precedes
    <2>3. @ <=> \/ x[1] < y[1]
                \/ x[1] = y[1] /\ x[2] < y[2]
                \/ x[1] = y[1] /\ x[2] = y[2] /\ x[3] < y[3]
                \/ x[1] = y[1] /\ x[2] = y[2] /\ x[3] = y[3] /\ x[4] < y[4]
      <3> HIDE DEF x, y
      <3>1. \A i : i \in 1..4 <=> i \in {1, 2, 3, 4}
        OBVIOUS
      <3>2. \A j : /\ j \notin 1..(1 - 1)
                   /\ j \in 1..(2 - 1) <=> j = 1
                   /\ j \in 1..(3 - 1) <=> j \in {1, 2}
                   /\ j \in 1..(4 - 1) <=> j \in {1, 2, 3}
        OBVIOUS
      <3> QED
        BY <3>1, <3>2
    <2>4. less(a, b) <=> lessFinishBy(a, b)
      BY <1>1 DEF less
    <2> QED
      BY <2>2, <2>3, <2>4 DEF lessFinishBy, lessByOwnerAndLimit
  <1>2. CASE fact[a].kind = "max_elapsed"
    <2> DEFINE x == <<fact[a].duration, fact[a].owner, a>>
               y == <<fact[b].duration, fact[b].owner, b>>
    <2>1. Key(a) = x /\ Key(b) = y
      BY <1>2 DEF Key
    <2>2. Precedes(a, b) <=>
            \E i \in 1..3 : x[i] < y[i] /\ \A j \in 1..(i - 1) : x[j] = y[j]
      BY <2>1 DEF Precedes
    <2>3. @ <=> \/ x[1] < y[1]
                \/ x[1] = y[1] /\ x[2] < y[2]
                \/ x[1] = y[1] /\ x[2] = y[2] /\ x[3] < y[3]
      <3> HIDE DEF x, y
      <3>1. \A i : i \in 1..3 <=> i \in {1, 2, 3}
        OBVIOUS
      <3>2. \A j : /\ j \notin 1..(1 - 1)
                   /\ j \in 1..(2 - 1) <=> j = 1
                   /\ j \in 1..(3 - 1) <=> j \in {1, 2}
        OBVIOUS
      <3> QED
        BY <3>1, <3>2
    <2>4. less(a, b) <=> lessMaxElapsed(a, b)
      BY <1>2 DEF less
    <2> QED
      BY <2>2, <2>3, <2>4 DEF lessMaxElapsed, lessByOwnerAndLimit
  <1>3. CASE fact[a].kind = "raw"
    <2> DEFINE x == <<fact[a].owner, a>>
               y == <<fact[b].owner, b>>
    <2>1. Key(a) = x /\ Key(b) = y
      BY <1>3 DEF Key
    <2>2. Precedes(a, b) <=>
            \E i \in 1..2 : x[i] < y[i] /\ \A j \in 1..(i - 1) : x[j] = y[j]
      BY <2>1 DEF Precedes
    <2>3. @ <=> x[1] < y[1] \/ (x[1] = y[1] /\ x[2] < y[2])
      <3> HIDE DEF x, y
      <3>1. \A i : i \in 1..2 <=> i \in {1, 2}
        OBVIOUS
      <3>2. \A j : j \notin 1..(1 - 1) /\ (j \in 1..(2 - 1) <=> j = 1)
        OBVIOUS
      <3> QED
        BY <3>1, <3>2
    <2>4. less(a, b) <=> lessByOwnerAndLimit(a, b)
      BY <1>3 DEF less
    <2> QED
      BY <2>2, <2>3, <2>4 DEF lessByOwnerAndLimit
  <1> QED
    BY <1>1, <1>2, <1>3, FactFields

(* It is total: of two limits of one kind exactly one stands before the other. *)
LEMMA LessIsTotal ==
  ASSUME Input, NEW a \in DOMAIN fact, NEW b \in DOMAIN fact, fact[a].kind = fact[b].kind
  PROVE  /\ ~(less(a, b) /\ less(b, a))
         /\ a # b => less(a, b) \/ less(b, a)
  <1>1. CASE fact[a].kind = "finish_by"
    BY <1>1, FactFields DEF less, lessFinishBy, lessByOwnerAndLimit
  <1>2. CASE fact[a].kind = "max_elapsed"
    BY <1>2, FactFields DEF less, lessMaxElapsed, lessByOwnerAndLimit
  <1>3. CASE fact[a].kind = "raw"
    BY <1>3, FactFields DEF less, lessByOwnerAndLimit
  <1> QED
    BY <1>1, <1>2, <1>3, FactFields

--------------------------------------------------------------------------------
(* Counting: a place that respects the order is one more than the number of
   candidates before it. *)

(* places numbers the members of a finite set S from 1 on, each number within
   the size of S and no number twice: the members with a smaller number than c
   are as many as there are smaller numbers. *)
LEMMA PlaceIsCount ==
  ASSUME NEW S, IsFiniteSet(S), NEW places \in [S -> Nat \ {0}],
         \A c \in S : places[c] <= Cardinality(S),
         \A c, d \in S : places[c] = places[d] => c = d,
         NEW c \in S
  PROVE  places[c] = Cardinality({d \in S : places[d] < places[c]}) + 1
  <1> DEFINE n == Cardinality(S)
             f == [d \in S |-> places[d]]
             B == {d \in S : places[d] < places[c]}
             g == [d \in B |-> places[d]]
  <1>1. n \in Nat
    BY FS_CardinalityType
  <1>2. IsFiniteSet(1..n) /\ Cardinality(1..n) = n
    BY <1>1, FS_Interval
  <1>3. f \in Injection(S, 1..n)
    <2>1. \A d \in S : places[d] \in 1..n
      BY <1>1
    <2> QED
      BY <2>1 DEF Injection, IsInjective
  <1>4. f \in Surjection(S, 1..n)
    BY <1>2, <1>3, FS_Injection
  <1>5. \A i \in 1..n : \E d \in S : places[d] = i
    BY <1>4 DEF Surjection
  <1>6. places[c] \in 1..n /\ places[c] \in Nat
    BY <1>1
  <1>7. g \in Injection(B, 1..(places[c] - 1))
    <2>1. \A d \in B : places[d] \in 1..(places[c] - 1)
      BY <1>6
    <2> QED
      BY <2>1 DEF Injection, IsInjective
  <1>8. g \in Surjection(B, 1..(places[c] - 1))
    <2>1. ASSUME NEW i \in 1..(places[c] - 1)
          PROVE  \E d \in B : g[d] = i
      <3>1. i \in 1..n /\ i < places[c]
        BY <1>1, <1>6
      <3>2. PICK d \in S : places[d] = i
        BY <1>5, <3>1
      <3> QED
        BY <3>1, <3>2
    <2> QED
      BY <1>7, <2>1 DEF Surjection, Injection
  <1>9. IsFiniteSet(1..(places[c] - 1)) /\ Cardinality(1..(places[c] - 1)) = places[c] - 1
    <2> DEFINE q == places[c] - 1
    <2>1. q \in Nat
      BY <1>6
    <2> HIDE DEF q
    <2>2. IsFiniteSet(1..q) /\ Cardinality(1..q) = q
      BY <2>1, FS_Interval
    <2> QED
      BY <2>2 DEF q
  <1>10. Cardinality(B) = places[c] - 1
    BY <1>7, <1>8, <1>9, FS_Injection
  <1> QED
    BY <1>6, <1>10

(* A map that joins the members of two sets one to one: they have one size. *)
LEMMA SameSize ==
  ASSUME NEW S, NEW T, IsFiniteSet(S), NEW f \in [S -> T],
         \A x, y \in S : f[x] = f[y] => x = y,
         \A t \in T : \E x \in S : f[x] = t
  PROVE  Cardinality(T) = Cardinality(S)
  <1>1. f \in Surjection(S, T) /\ f \in Injection(S, T)
    BY DEF Surjection, Injection, IsInjective
  <1> QED
    BY <1>1, FS_Surjection

(* When all batches are read, the candidates are the reached limits. *)
LEMMA AllLimitsRead ==
  ASSUME IInv, pc \in {"finish", "done"}
  PROVE  /\ candidates = {Candidate(l) : l \in ReachedLimits}
         /\ IsFiniteSet(candidates)
         /\ \A c \in candidates : c = Candidate(c.limit) /\ c.limit \in ReachedLimits
         /\ \A c \in candidates : Group(c) = GroupOf(c.limit)
  <1>1. reachedIDs \in Seq(Node) /\ start \in Nat /\ start >= Len(reachedIDs)
    BY DEF IInv, Input, Typed, LimitsRead
  <1>2. {j \in DOMAIN reachedIDs : j <= start} = DOMAIN reachedIDs
    <2>1. DOMAIN reachedIDs = 1..Len(reachedIDs) /\ Len(reachedIDs) \in Nat
      BY <1>1
    <2>2. \A j \in DOMAIN reachedIDs : j <= start
      BY <1>1, <2>1
    <2> QED
      BY <2>2
  <1>3. ReadIDs = nodes
    BY <1>2 DEF ReadIDs, IInv, Input
  <1>4. candidates = {Candidate(l) : l \in ReachedLimits}
    BY <1>3 DEF IInv, LimitsRead, ReachedLimits
  <1>5. \A l : Candidate(l).limit = l /\ Candidate(l).membership = membership(fact[l].owner)
    BY DEF Candidate
  <1>6. \A c \in candidates : c = Candidate(c.limit) /\ c.limit \in ReachedLimits
    BY <1>4, <1>5
  <1>7. IsFiniteSet(candidates)
    <2> DEFINE f == [l \in ReachedLimits |-> Candidate(l)]
    <2>1. IsFiniteSet(ReachedLimits)
      <3>1. ReachedLimits \in SUBSET Limit
        BY DEF ReachedLimits, IInv, Input, ValidatedLimits
      <3> QED
        BY <3>1, LimitAssumption, FS_Subset
    <2>2. f \in Surjection(ReachedLimits, candidates)
      BY <1>4 DEF Surjection
    <2> QED
      BY <2>1, <2>2, FS_Surjection
  <1>8. \A c \in candidates : Group(c) = GroupOf(c.limit)
    BY <1>5, <1>6 DEF Group, GroupOf
  <1> QED
    BY <1>4, <1>6, <1>7, <1>8

(* In an order that finishBucket may leave, each candidate stands at the place
   that the documented keys give its limit. *)
LEMMA PlaceIsDocumented ==
  ASSUME IInv, pc = "finish", NEW places \in [candidates -> 1..Cardinality(candidates)],
         Sorted(places), NEW c \in candidates
  PROVE  LET before == {k \in ReachedLimits : GroupOf(k) = GroupOf(c.limit) /\ Precedes(k, c.limit)}
         IN  places[c] = Cardinality(before) + 1
  <1> DEFINE before == {k \in ReachedLimits : GroupOf(k) = GroupOf(c.limit) /\ Precedes(k, c.limit)}
             S == Slice(c)
             p == [d \in S |-> places[d]]
             B == {d \in S : p[d] < p[c]}
             f == [d \in B |-> d.limit]
  <1>1. /\ candidates = {Candidate(l) : l \in ReachedLimits}
        /\ IsFiniteSet(candidates)
        /\ \A d \in candidates : d = Candidate(d.limit) /\ d.limit \in ReachedLimits
        /\ \A d \in candidates : Group(d) = GroupOf(d.limit)
    BY AllLimitsRead
  <1>2. Cardinality(candidates) \in Nat /\ S \subseteq candidates /\ c \in S
    BY <1>1, FS_CardinalityType DEF Slice
  <1>3. IsFiniteSet(S)
    BY <1>1, <1>2, FS_Subset
  <1>4. \A d \in S : Slice(d) = S
    BY DEF Slice
  <1>5. \A d \in S : places[d] \in Nat \ {0} /\ places[d] <= Cardinality(S)
    BY <1>2, <1>4 DEF Sorted
  <1>6. \A d, e \in S : d # e => places[d] # places[e]
    BY <1>2, <1>4 DEF Sorted
  <1>7. \A d, e \in S : d # e /\ places[d] < places[e] => ~less(e.limit, d.limit)
    BY <1>2, <1>4 DEF Sorted
  <1>8. p[c] = Cardinality(B) + 1
    <2>1. p \in [S -> Nat \ {0}]
      BY <1>5
    <2>2. \A d \in S : p[d] <= Cardinality(S)
      BY <1>5
    <2>3. \A d, e \in S : p[d] = p[e] => d = e
      BY <1>6
    <2> HIDE DEF p, S
    <2> QED
      BY <1>2, <1>3, <2>1, <2>2, <2>3, PlaceIsCount
  <1>9. \A d \in S : /\ d.limit \in DOMAIN fact /\ d.limit \in ReachedLimits
                     /\ fact[d.limit].kind = fact[c.limit].kind
                     /\ GroupOf(d.limit) = GroupOf(c.limit)
    <2>1. \A d \in S : Group(d) = Group(c)
      BY DEF Slice
    <2> QED
      BY <1>1, <1>2, <2>1 DEF ReachedLimits, GroupOf
  <1>10. \A d, e \in S : d.limit = e.limit => d = e
    BY <1>1, <1>2
  <1>11. \A d \in S : places[d] < places[c] <=> Precedes(d.limit, c.limit)
    <2> SUFFICES ASSUME NEW d \in S
                 PROVE  places[d] < places[c] <=> less(d.limit, c.limit)
      BY <1>2, <1>9, LessIsPrecedes DEF IInv
    <2>1. CASE d = c
      BY <1>2, <1>5, <1>9, <2>1, LessIsTotal DEF IInv
    <2>2. CASE d # c
      <3>1. d.limit # c.limit
        BY <1>2, <1>10, <2>2
      <3>2. less(d.limit, c.limit) \/ less(c.limit, d.limit)
        BY <1>2, <1>9, <3>1, LessIsTotal DEF IInv
      <3>3. places[d] < places[c] \/ places[c] < places[d]
        BY <1>2, <1>5, <1>6, <2>2
      <3>4. ~(places[d] < places[c] /\ places[c] < places[d])
        BY <1>2, <1>5
      <3> QED
        BY <1>2, <1>7, <2>2, <3>2, <3>3, <3>4
    <2> QED
      BY <2>1, <2>2
  <1>12. Cardinality(before) = Cardinality(B)
    <2>1. IsFiniteSet(B)
      BY <1>3, FS_Subset
    <2>2. f \in [B -> before]
      BY <1>2, <1>9, <1>11
    <2>3. \A x, y \in B : f[x] = f[y] => x = y
      BY <1>10
    <2>4. ASSUME NEW k \in before PROVE \E x \in B : f[x] = k
      <3>1. Candidate(k) \in candidates /\ Candidate(k).limit = k
        BY <1>1 DEF Candidate
      <3>2. Candidate(k) \in S
        BY <1>1, <3>1 DEF Slice
      <3>3. Candidate(k) \in B
        BY <1>2, <1>11, <3>1, <3>2
      <3> QED
        BY <3>1, <3>3
    <2> HIDE DEF f, B, before
    <2> QED
      BY <2>1, <2>2, <2>3, <2>4, SameSize
  <1> QED
    BY <1>2, <1>8, <1>12

LEMMA FinishKeeps ==
  ASSUME IInv, Finish
  PROVE  IInv'
  <1> USE DEF Finish
  <1>1. Typed'
    BY DEF IInv, Typed, Pcs
  <1>2. RootsKnown' /\ WalkGoesUp' /\ RootsNoted'
    BY RootsUntouched, WalkUntouched, NotedUntouched DEF IInv
  <1>3. LimitsRead'
    BY ReadUntouched DEF IInv
  <1>4. EveryLimitListed'
    <2>1. PICK places \in [candidates -> 1..Cardinality(candidates)] :
            /\ Sorted(places)
            /\ listed' = [c \in candidates |-> [group |-> Group(c), place |-> places[c]]]
      OBVIOUS
    <2>2. /\ candidates = {Candidate(l) : l \in ReachedLimits}
          /\ \A c \in candidates : c = Candidate(c.limit) /\ c.limit \in ReachedLimits
          /\ \A c \in candidates : Group(c) = GroupOf(c.limit)
      BY AllLimitsRead
    <2>3. DOMAIN listed' = candidates
      BY <2>1
    <2>4. {c.limit : c \in candidates} = ReachedLimits
      <3>1. \A l : Candidate(l).limit = l
        BY DEF Candidate
      <3> QED
        BY <2>2, <3>1
    <2>5. \A c, d \in candidates : c.limit = d.limit => c = d
      BY <2>2
    <2>6. \A c \in candidates :
            LET before == {k \in ReachedLimits : GroupOf(k) = GroupOf(c.limit) /\ Precedes(k, c.limit)}
            IN  listed'[c] = [group |-> GroupOf(c.limit), place |-> Cardinality(before) + 1]
      BY <2>1, <2>2, PlaceIsDocumented
    <2>7. ReachedLimits' = ReachedLimits
      BY DEF ReachedLimits
    <2>8. \A k : GroupOf(k)' = GroupOf(k)
      BY SameInput DEF GroupOf
    <2>9. \A k, l : Precedes(k, l)' <=> Precedes(k, l)
      BY DEF Precedes, Key
    <2> QED
      BY <2>3, <2>4, <2>5, <2>6, <2>7, <2>8, <2>9 DEF EveryLimitListed
  <1>5. Input' /\ ScanAccepts'
    BY InputUntouched DEF IInv, ScanAccepts
  <1> QED
    BY <1>1, <1>2, <1>3, <1>4, <1>5 DEF IInv

--------------------------------------------------------------------------------
(* The theorems. *)

(* Every step of Scan keeps the invariant. *)
LEMMA NextInv == IInv /\ [Next]_vars => IInv'
  <1> SUFFICES ASSUME IInv, [Next]_vars PROVE IInv'
    OBVIOUS
  <1>1. CASE UNCHANGED vars
    <2>1. UNCHANGED <<input, pc, scopeRoots, path, current, start, candidates, listed>>
      BY <1>1 DEF vars
    <2>2. Typed' /\ ScanAccepts' /\ Input'
      BY <2>1, InputUntouched DEF IInv, Typed, ScanAccepts
    <2>3. RootsKnown' /\ WalkGoesUp'
      BY <2>1, RootsUntouched, WalkUntouched DEF IInv
    <2>4. RootsNoted' /\ LimitsRead'
      BY <2>1, NotedUntouched, ReadUntouched DEF IInv
    <2>5. /\ ReachedLimits' = ReachedLimits
          /\ \A k : GroupOf(k)' = GroupOf(k)
          /\ \A k, l : Precedes(k, l)' <=> Precedes(k, l)
      BY <1>1, SameInput DEF vars, ReachedLimits, GroupOf, Precedes, Key
    <2>6. EveryLimitListed'
      BY <1>1, <2>5 DEF vars, IInv, EveryLimitListed
    <2> QED
      BY <2>2, <2>3, <2>4, <2>6 DEF IInv
  <1>2. CASE Prepare
    BY <1>2, PrepareKeeps
  <1>3. CASE StartWalk
    BY <1>3, StartWalkKeeps
  <1>4. CASE Climb
    BY <1>4, ClimbKeeps
  <1>5. CASE EndWalk
    BY <1>5, EndWalkKeeps
  <1>6. CASE RootsPrepared
    BY <1>6, RootsPreparedKeeps
  <1>7. CASE ReadBatch
    BY <1>7, ReadBatchKeeps
  <1>8. CASE AllRead
    BY <1>8, AllReadKeeps
  <1>9. CASE Finish
    BY <1>9, FinishKeeps
  <1>10. CASE Fail
    BY <1>10, FailKeeps
  <1> QED
    BY <1>1, <1>2, <1>3, <1>4, <1>5, <1>6, <1>7, <1>8, <1>9, <1>10 DEF Next

(* The invariant holds throughout. *)
LEMMA Invariance == Spec => []IInv
  <1> QED
    BY InitInv, NextInv, PTL DEF Spec

(* The invariant gives each candidate its root. *)
LEMMA CandidateHasRoot ==
  ASSUME IInv, pc = "done", NEW c \in candidates
  PROVE  LET o == fact[c.limit].owner IN
           IF c.membership = "downstream" /\ hasParent(o)
             THEN /\ c.root \in Above(o)
                  /\ ~hasParent(c.root)
                  /\ nodeType[c.root] = "job_network"
                  /\ membership(c.root) = "downstream"
                  /\ \E n \in nodes : <<n, c.root>> \in relation
             ELSE c.root = None
  <1> DEFINE o == fact[c.limit].owner
  <1>1. c = Candidate(c.limit) /\ c.limit \in ReachedLimits
    BY AllLimitsRead
  <1>2. /\ c.membership = membership(o)
        /\ c.root = IF membership(o) = "downstream" THEN scopeRoots[o] ELSE None
    BY <1>1 DEF Candidate
  <1>3. o \in nodes /\ o \in Node /\ nodeType[o] = "job"
    BY <1>1, ScopeNodesReached DEF ReachedLimits, IInv, Input, ValidatedLimits
  <1>4. scopeRoots[o] # None => IsRootOf(scopeRoots[o], o)
    BY <1>3 DEF IInv, RootsKnown
  <1>5. CASE membership(o) = "downstream" /\ hasParent(o)
    <2> DEFINE r == scopeRoots[o]
    <2>1. o \in scopeNodeIDs
      BY <1>5 DEF hasParent, scopeNodeIDs
    <2>2. r # None /\ c.root = r /\ IsRootOf(r, o)
      BY <1>2, <1>4, <1>5, <2>1 DEF IInv, RootsNoted
    <2>3. r \in Above(o) /\ ~hasParent(r) /\ nodeType[r] = "job_network" /\ r \in nodes
      BY <2>2 DEF IsRootOf, IsRoot
    <2>4. membership(r) = "downstream"
      BY <1>3, <1>5, <2>3, AboveStaysDownstream DEF IInv
    <2>5. r # target
      BY <2>4 DEF membership
    <2>6. \E n \in nodes : <<n, r>> \in relation
      BY <2>3, <2>5, EntryHasRelation DEF IInv
    <2> QED
      BY <1>2, <1>5, <2>2, <2>3, <2>4, <2>6
  <1>6. CASE membership(o) = "downstream" /\ ~hasParent(o)
    <2>1. scopeRoots[o] = None
      <3>1. Above(o) = {o}
        BY <1>3, <1>6, AboveTop
      <3> QED
        BY <1>3, <1>4, <3>1 DEF IsRootOf, IsRoot
    <2> QED
      BY <1>2, <1>6, <2>1
  <1>7. CASE membership(o) # "downstream"
    BY <1>2, <1>7
  <1> QED
    BY <1>5, <1>6, <1>7

(* Every limit of a reached job is listed once, in its group and at the place
   of the documented order, whatever order the map of candidates was read in and
   however the jobs fell into batches. *)
THEOREM LimitsListed == Spec => []EveryLimitListed
  <1>1. IInv => EveryLimitListed
    BY DEF IInv
  <1> QED
    BY <1>1, Invariance, PTL

(* The scope root of a limit downstream is the topmost network above its job:
   downstream as well, and reached by a relation. *)
THEOREM ScopeRootsAreEntries == Spec => []ScopeRootIsEntry
  <1>1. IInv => ScopeRootIsEntry
    BY CandidateHasRoot DEF ScopeRootIsEntry
  <1> QED
    BY <1>1, Invariance, PTL

(* Scan never returns an error of an inconsistent input for the result of a
   traversal of a generation that passed the import checks. *)
THEOREM ScanAcceptsTraversal == Spec => []ScanAccepts
  <1>1. IInv => ScanAccepts
    BY DEF IInv
  <1> QED
    BY <1>1, Invariance, PTL
===============================================================================
