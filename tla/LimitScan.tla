------------------------------- MODULE LimitScan -------------------------------
(***************************************************************************)
(* internal/limitscan.Scan: the limits of the jobs that a traversal has    *)
(* reached, each with the scope root of its job, listed by their relation  *)
(* to the target, by kind and by time zone.                                *)
(*                                                                         *)
(* Its input is the database of a generation and the result of Traverse on *)
(* it, which TraversalProofs has shown to be what ResultComplete and       *)
(* ContainedComplete say.  `Search` takes their words from Traversal.      *)
(* Any step may end in an error of the database or of the context.         *)
(***************************************************************************)
EXTENDS Naturals, Sequences, FiniteSets

CONSTANTS
  Node,       \* node IDs, as numbers in their order
  Limit,      \* limit IDs, as numbers in their order
  None,       \* no node
  BatchSize   \* queryBatchSize (500)

ASSUME NodeAssumption == Node \subseteq Nat /\ None \notin Node
ASSUME LimitAssumption == Limit \subseteq Nat /\ IsFiniteSet(Limit)
ASSUME BatchAssumption == BatchSize \in Nat \ {0}

VARIABLES
  nodeType, parent, relation,   \* the database: tables node and relation
  fact,         \* the database: table limit_fact, by limit ID
  target,       \* traversalResult.Target
  nodes,        \* the IDs of traversalResult.Nodes
  scopeEdges,   \* traversalResult.ScopeEdges: the pairs (parent, child)
  contained,    \* the nodes whose membership is contained
  pc,           \* where Scan is
  scopeRoots,   \* state.scopeRoots, None where it has no entry
  path,         \* prepareScopeRoots: path and pathSeen
  current,      \* prepareScopeRoots: currentID, None between two walks
  reachedIDs,   \* state.reachedIDs
  start,        \* readAll: start
  candidates,   \* state.candidates, by limit ID
  listed        \* the result: the group and the place of each limit

database == <<nodeType, parent, relation, fact>>
traversed == <<target, nodes, scopeEdges, contained>>
input == <<database, traversed, reachedIDs>>
vars == <<input, pc, scopeRoots, path, current, start, candidates, listed>>

Search == INSTANCE Traversal WITH
            pc <- "done", pending <- <<>>, head <- 0, batch <- {}, rows <- {},
            connections <- {}, endpoints <- {}, queue <- {}

(* What Traverse returns; nodes sorted by ID is one order of several. *)
TraversalResult ==
  /\ Search!isTargetType(nodeType[target])
  /\ nodes = Search!Reachable
  /\ scopeEdges = {e \in Node \X Node : e[1] \in nodes /\ e[2] \in Search!Scope(e[1])}
  /\ contained = Search!Below

Memberships == {"target", "contained", "downstream"}
membership(n) ==
  IF n = target THEN "target" ELSE IF n \in contained THEN "contained" ELSE "downstream"

(* The limits of a generation: owned by jobs, as the import checks.  A limit of
   one kind has no value in the fields of the others; 0 stands for NULL. *)
Facts ==
  [owner : Node, kind : {"finish_by"}, zone : Nat, offset : Nat, time : Nat, duration : {0}]
    \cup [owner : Node, kind : {"max_elapsed"}, zone : {0}, offset : {0}, time : {0}, duration : Nat]
    \cup [owner : Node, kind : {"raw"}, zone : {0}, offset : {0}, time : {0}, duration : {0}]

ValidatedLimits ==
  /\ DOMAIN fact \subseteq Limit
  /\ \A l \in DOMAIN fact : fact[l] \in Facts /\ nodeType[fact[l].owner] = "job"

Pcs == {"idle", "roots", "read", "finish", "done", "failed", "invalid"}

Input ==
  /\ nodeType \in [Node -> Search!NodeTypes]
  /\ parent \in [Node -> Node \cup {None}]
  /\ relation \subseteq Node \X Node
  /\ target \in Node
  /\ Search!ValidatedHierarchy
  /\ TraversalResult
  /\ ValidatedLimits
  /\ reachedIDs \in Seq(Node)
  /\ {reachedIDs[i] : i \in DOMAIN reachedIDs} = nodes

Begin ==
  /\ pc = "idle"
  /\ scopeRoots = [n \in Node |-> None]
  /\ path = {}
  /\ current = None
  /\ start = 0
  /\ candidates = {}
  /\ listed = <<>>

Init == Input /\ Begin

--------------------------------------------------------------------------------
(* prepare and prepareScopeRoots. *)

hasParent(n) == \E e \in scopeEdges : e[2] = n
scopeParent(n) == (CHOOSE e \in scopeEdges : e[2] = n)[1]
scopeNodeIDs == {e[1] : e \in scopeEdges} \cup {e[2] : e \in scopeEdges}

(* The loop over the scope edges; "scope child has multiple parents". *)
Prepare ==
  /\ pc = "idle"
  /\ pc' = IF \A e, f \in scopeEdges : e[2] = f[2] => e = f THEN "roots" ELSE "invalid"
  /\ UNCHANGED <<input, scopeRoots, path, current, start, candidates, listed>>

(* A walk starts at a node whose root is not known yet. *)
StartWalk ==
  /\ pc = "roots"
  /\ current = None
  /\ \E n \in scopeNodeIDs : scopeRoots[n] = None /\ current' = n
  /\ path' = {}
  /\ UNCHANGED <<input, pc, scopeRoots, start, candidates, listed>>

\* Bug: the walk ends at a node of an earlier walk as if that were the root.
RootFoundHere(n) == n

\* Either the root an earlier walk has found, or a node without a parent.
RootFound(n) == IF scopeRoots[n] # None THEN scopeRoots[n] ELSE n

\* Bug: the target's own network is not expected among the roots.
IsRootOutsideTarget(n) == n \in nodes \ {target} /\ nodeType[n] = "job_network"

(* "scope root is not in traversal result", "want job_network". *)
IsRoot(n) == n \in nodes /\ nodeType[n] = "job_network"

(* A root is known, the walk is back at a node it has passed ("scope edges
   contain a cycle"), or it is at the top. *)
WalkEnds(n) == scopeRoots[n] # None \/ n \in path \/ ~hasParent(n)
FindsRoot(n) == scopeRoots[n] # None \/ (n \notin path /\ IsRoot(n))

Climb ==
  /\ pc = "roots"
  /\ current # None
  /\ ~WalkEnds(current)
  /\ path' = path \cup {current}
  /\ current' = scopeParent(current)
  /\ UNCHANGED <<input, pc, scopeRoots, start, candidates, listed>>

(* cacheScopePath notes the root for every node of the path. *)
EndWalk ==
  /\ pc = "roots"
  /\ current # None
  /\ WalkEnds(current)
  /\ IF FindsRoot(current)
       THEN /\ scopeRoots' = [n \in Node |-> IF n \in path \cup {current} THEN RootFound(current)
                                             ELSE scopeRoots[n]]
            /\ current' = None
            /\ UNCHANGED pc
       ELSE pc' = "invalid" /\ UNCHANGED <<scopeRoots, current>>
  /\ UNCHANGED <<input, path, start, candidates, listed>>

RootsPrepared ==
  /\ pc = "roots"
  /\ current = None
  /\ \A n \in scopeNodeIDs : scopeRoots[n] # None
  /\ pc' = "read"
  /\ UNCHANGED <<input, scopeRoots, path, current, start, candidates, listed>>

--------------------------------------------------------------------------------
(* readAll and readBatch. *)

BatchEnd == IF start + BatchSize < Len(reachedIDs) THEN start + BatchSize ELSE Len(reachedIDs)
Batch == {reachedIDs[i] : i \in (start + 1)..BatchEnd}
Rows == {l \in DOMAIN fact : fact[l].owner \in Batch}

(* scanCandidate. *)
Candidate(l) ==
  [limit |-> l,
   membership |-> membership(fact[l].owner),
   root |-> IF membership(fact[l].owner) = "downstream" THEN scopeRoots[fact[l].owner] ELSE None]

(* ErrInvalidLimitOwner, or "owner is not in traversal result". *)
RowInvalid(l) == nodeType[fact[l].owner] # "job" \/ fact[l].owner \notin nodes

\* Bug: the node behind each batch is passed over.
NextStartPastOne == start + BatchSize + 1

NextStart == start + BatchSize

ReadBatch ==
  /\ pc = "read"
  /\ start < Len(reachedIDs)
  /\ IF \E l \in Rows : RowInvalid(l)
       THEN pc' = "invalid" /\ UNCHANGED <<start, candidates>>
       ELSE /\ candidates' = candidates \cup {Candidate(l) : l \in Rows}
            /\ start' = NextStart
            /\ UNCHANGED pc
  /\ UNCHANGED <<input, scopeRoots, path, current, listed>>

AllRead ==
  /\ pc = "read"
  /\ start >= Len(reachedIDs)
  /\ pc' = "finish"
  /\ UNCHANGED <<input, scopeRoots, path, current, start, candidates, listed>>

--------------------------------------------------------------------------------
(* finish and finishBucket.  The candidates come out of a map in any order and
   sort.Slice is not stable: any order that `less` allows can be the result. *)

lessByOwnerAndLimit(a, b) ==
  \/ fact[a].owner < fact[b].owner
  \/ fact[a].owner = fact[b].owner /\ a < b

lessFinishBy(a, b) ==
  \/ fact[a].offset < fact[b].offset
  \/ /\ fact[a].offset = fact[b].offset
     /\ \/ fact[a].time < fact[b].time
        \/ fact[a].time = fact[b].time /\ lessByOwnerAndLimit(a, b)

lessMaxElapsed(a, b) ==
  \/ fact[a].duration < fact[b].duration
  \/ fact[a].duration = fact[b].duration /\ lessByOwnerAndLimit(a, b)

less(a, b) ==
  CASE fact[a].kind = "finish_by"   -> lessFinishBy(a, b)
    [] fact[a].kind = "max_elapsed" -> lessMaxElapsed(a, b)
    [] fact[a].kind = "raw"         -> lessByOwnerAndLimit(a, b)

(* The slice a candidate is put into: its zone matters to finish_by only. *)
Group(c) == <<c.membership, fact[c.limit].kind, fact[c.limit].zone>>
Slice(c) == {d \in candidates : Group(d) = Group(c)}

Sorted(places) ==
  \A c \in candidates :
    /\ places[c] <= Cardinality(Slice(c))
    /\ \A d \in Slice(c) \ {c} :
         places[d] # places[c] /\ (places[c] < places[d] => ~less(d.limit, c.limit))

Finish ==
  /\ pc = "finish"
  /\ \E places \in [candidates -> 1..Cardinality(candidates)] :
       /\ Sorted(places)
       /\ listed' = [c \in candidates |-> [group |-> Group(c), place |-> places[c]]]
  /\ pc' = "done"
  /\ UNCHANGED <<input, scopeRoots, path, current, start, candidates>>

(* A query fails or the context is done: what was read is thrown away. *)
Fail ==
  /\ pc \notin {"done", "failed", "invalid"}
  /\ pc' = "failed"
  /\ UNCHANGED <<input, scopeRoots, path, current, start, candidates, listed>>

Next ==
  \/ Prepare
  \/ StartWalk
  \/ Climb
  \/ EndWalk
  \/ RootsPrepared
  \/ ReadBatch
  \/ AllRead
  \/ Finish
  \/ Fail

Spec == Init /\ [][Next]_vars

--------------------------------------------------------------------------------
(* Properties. *)

ReachedLimits == {l \in DOMAIN fact : fact[l].owner \in nodes}

(* The reading order of dependency-analysis.md:118, as one key for each limit. *)
Key(l) ==
  CASE fact[l].kind = "finish_by"   -> <<fact[l].offset, fact[l].time, fact[l].owner, l>>
    [] fact[l].kind = "max_elapsed" -> <<fact[l].duration, fact[l].owner, l>>
    [] fact[l].kind = "raw"         -> <<fact[l].owner, l>>

Precedes(k, l) ==
  \E i \in DOMAIN Key(k) : Key(k)[i] < Key(l)[i] /\ \A j \in 1..(i - 1) : Key(k)[j] = Key(l)[j]

GroupOf(l) == <<membership(fact[l].owner), fact[l].kind, fact[l].zone>>

(* "Scan reads all limits of the reached nodes and returns them in the reading
   order of their group and kind" (limitscan.go:107): every limit of a reached
   job is listed once, in its group, at the place that the documented order
   gives it, however the jobs fall into batches and the map is iterated. *)
EveryLimitListed ==
  pc = "done" =>
    /\ {c.limit : c \in DOMAIN listed} = ReachedLimits
    /\ \A c, d \in DOMAIN listed : c.limit = d.limit => c = d
    /\ \A c \in DOMAIN listed :
         LET before == {k \in ReachedLimits : GroupOf(k) = GroupOf(c.limit) /\ Precedes(k, c.limit)}
         IN  listed[c] = [group |-> GroupOf(c.limit), place |-> Cardinality(before) + 1]

UpClosed(S) == \A e \in scopeEdges : e[2] \in S => e[1] \in S

(* The nodes met on the way up from n, n among them. *)
Above(n) == {m \in Node : \A S \in SUBSET Node : n \in S /\ UpClosed(S) => m \in S}

(* "scopeRoot is the topmost ancestor, without a scope edge into it; it is a
   job network downstream that a dependency relation has reached"
   (dependency-analysis.md:100): set exactly for the limits downstream whose job
   has a scope edge into it, never the target or a part of it, and reached by a
   relation from some node the search took. *)
ScopeRootIsEntry ==
  pc = "done" =>
    \A c \in candidates :
      LET o == fact[c.limit].owner IN
        IF c.membership = "downstream" /\ hasParent(o)
          THEN /\ c.root \in Above(o)
               /\ ~hasParent(c.root)
               /\ nodeType[c.root] = "job_network"
               /\ membership(c.root) = "downstream"
               /\ \E n \in nodes : <<n, c.root>> \in relation
          ELSE c.root = None

(* What the traversal hands over is what Scan expects: for a generation that
   passed the import checks, no error of an inconsistent input is returned. *)
ScanAccepts == pc # "invalid"
===============================================================================
