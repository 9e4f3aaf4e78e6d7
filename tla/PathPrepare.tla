------------------------------ MODULE PathPrepare ------------------------------
(***************************************************************************)
(* prepare of internal/pathtree, for a graph that is in order: the paths   *)
(* the target has to each node (by all edges, by confirmed ones, past the  *)
(* owners of limits), a way round each cycle, the number of paths to each  *)
(* node, and the boundaries that are reached past all limits.              *)
(***************************************************************************)
EXTENDS PathGraph

CONSTANT MaxInt  \* where the counts saturate

ASSUME MaxIntAssumption == MaxInt \in Nat \ {0}

VARIABLES
  best,       \* shortestPaths: best
  queue,      \* shortestPaths: queue
  paths,      \* allPaths, confirmedPaths, limitFreePaths
  route,      \* Cycle.Route of each cycle
  counted,    \* countAlternatePaths: the components taken from `ready`
  pathCount,  \* countAlternatePaths: pathCounts
  uncovered   \* state.uncovered

search == <<best, queue, paths>>
counting == <<counted, pathCount>>
vars == <<graph, pc, search, route, counting, uncovered>>

Searches == {"all", "confirmed", "limitFree"}

(* Where a search begins, and which edges it takes. *)
Excluded(s) == IF s = "limitFree" THEN owners ELSE {}
FirstBest(s) == [n \in nodes |-> IF n = target /\ n \notin Excluded(s) THEN <<>> ELSE None]
FirstQueue(s) == IF target \in Excluded(s) THEN {} ELSE {<<>>}
Taken(s) == {e \in edges : e.to \notin Excluded(s) /\ (s = "confirmed" => confirmed(e))}

componentFor(n) == IF InCycle(n) THEN CHOOSE c \in cycles : n \in c ELSE {n}
components == {componentFor(n) : n \in nodes}

Init ==
  /\ Graph
  /\ pc = "all"
  /\ best = FirstBest("all")
  /\ queue = FirstQueue("all")
  /\ paths = [s \in Searches |-> [n \in nodes |-> None]]
  /\ route = [c \in cycles |-> <<>>]
  /\ counted = {}
  /\ pathCount = [c \in components |-> IF target \in c THEN 1 ELSE 0]
  /\ uncovered = {}

--------------------------------------------------------------------------------
(* shortestPaths. *)

\* Bug: the first path to a node stays.
ImprovesNever(c) == best[End(c)] = None

Improves(c) == best[End(c)] = None \/ lessPath(c, best[End(c)])

(* The least path of the queue is extended by each edge, unless a better path
   to its node was found since.  A candidate that a parallel edge already beats
   is queued here too: it is skipped when its turn comes. *)
Pop ==
  /\ pc \in Searches
  /\ queue # {}
  /\ LET p == LeastPath(queue)
         better == IF best[End(p)] = p
                     THEN {c \in {Append(p, e) : e \in Taken(pc) \cap Out(End(p))} : Improves(c)}
                     ELSE {}
         to(n) == {c \in better : End(c) = n}
     IN  /\ best' = [n \in nodes |-> IF to(n) = {} THEN best[n] ELSE LeastPath(to(n))]
         /\ queue' = (queue \ {p}) \cup better
  /\ UNCHANGED <<graph, pc, paths, route, counting, uncovered>>

(* The next search begins.  When every edge is confirmed, the second search
   would find what the first found and is left out. *)
SearchDone ==
  /\ pc \in Searches
  /\ queue = {}
  /\ LET skip == pc = "all" /\ \A e \in edges : confirmed(e)
         next == CASE pc = "limitFree" -> "cycles"
                   [] pc = "all" /\ ~skip -> "confirmed"
                   [] OTHER -> "limitFree"
     IN  /\ pc' = next
         /\ paths' = [s \in Searches |->
                        IF s = pc \/ (skip /\ s = "confirmed") THEN best ELSE paths[s]]
         /\ best' = FirstBest(next)
         /\ queue' = IF next \in Searches THEN FirstQueue(next) ELSE {}
  /\ UNCHANGED <<graph, route, counting, uncovered>>

--------------------------------------------------------------------------------
(* buildCycles and oneCycle. *)

Start(c) == Min(c)
Walked(c) == {Start(c)} \cup {route[c][i].to : i \in DOMAIN route[c]}
At(c) == IF route[c] = <<>> THEN Start(c) ELSE Last(route[c]).to

\* Bug: the way round ends when every node was met.
IsClosedWithoutReturn(c) == Walked(c) = c

IsClosed(c) == route[c] # <<>> /\ At(c) = Start(c)

Within(c) == {e \in edges : e.from \in c /\ e.to \in c}

(* The first node not met so far, and at last the start. *)
Goal(c) == IF Walked(c) = c THEN Start(c) ELSE Min(c \ Walked(c))

(* One hop further: of the paths that go on from those found so far, the best to
   each node that had none. *)
Farther(found, E) ==
  LET on == {e \in E : e.from \in DOMAIN found /\ e.to \notin DOMAIN found}
  IN  [n \in DOMAIN found \cup {e.to : e \in on} |->
         IF n \in DOMAIN found THEN found[n]
         ELSE LeastHopPath({Append(found[e.from], e) : e \in {f \in on : f.to = n}})]

(* shortestHopPath: the paths come out of the heap hop by hop, and the one that is
   kept for a node is the only one that goes on from it. *)
BestPaths(c) ==
  LET B[k \in 0..Cardinality(nodes)] ==
        IF k = 0 THEN [n \in {At(c)} |-> <<>>] ELSE Farther(B[k - 1], Within(c))
  IN  B[Cardinality(nodes)]

(* To the goal, or the loop at a component of one node. *)
Segment(c) ==
  IF Cardinality(c) = 1
    THEN LeastHopPath({<<e>> : e \in Within(c)})
    ELSE BestPaths(c)[Goal(c)]

LengthenRoute ==
  /\ pc = "cycles"
  /\ \E c \in cycles :
       /\ ~IsClosed(c)
       /\ \A d \in cycles : Start(d) < Start(c) => IsClosed(d)
       /\ route' = [route EXCEPT ![c] = @ \o Segment(c)]
  /\ UNCHANGED <<graph, pc, search, counting, uncovered>>

CyclesDone ==
  /\ pc = "cycles"
  /\ \A c \in cycles : IsClosed(c)
  /\ pc' = "counts"
  /\ UNCHANGED <<graph, search, route, counting, uncovered>>

--------------------------------------------------------------------------------
(* countAlternatePaths: the components in an order that follows the edges. *)

Crossing(c, d) == {e \in edges : e.from \in c /\ e.to \in d}

\* Bug: the sum is not kept below the largest number.
SaturatedNever(k) == k % (MaxInt + 1)

(* saturatingAdd, once for each edge. *)
Saturated(k) == IF k > MaxInt THEN MaxInt ELSE k

CountComponent ==
  /\ pc = "counts"
  /\ \E c \in components \ counted :
       /\ \A d \in components \ (counted \cup {c}) : Crossing(d, c) = {}
       /\ counted' = counted \cup {c}
       /\ pathCount' =
            [d \in components |->
               IF d = c THEN pathCount[d]
               ELSE Saturated(pathCount[d] + Cardinality(Crossing(c, d)) * pathCount[c])]
  /\ UNCHANGED <<graph, pc, search, route, uncovered>>

alternatePathCounts(n) ==
  IF pathCount[componentFor(n)] > 0 THEN pathCount[componentFor(n)] - 1 ELSE 0

--------------------------------------------------------------------------------
(* findUncoveredRoutes. *)

Boundary(n, reason, cycle) == [boundary |-> n, reason |-> reason, cycle |-> cycle]

\* Bug: a path that meets an owner on its way counts as well.
PastLimitsByAnyPath(n) == n \notin owners /\ paths["all"][n] # None

PastLimits(n) == paths["limitFree"][n] # None

FindUncovered ==
  /\ pc = "counts"
  /\ counted = components
  /\ uncovered' =
       {Boundary(n, "terminal", {}) : n \in
          {m \in nodes : type[m] # "management_unit" /\ Out(m) = {} /\ PastLimits(m)}}
       \cup {Boundary(n, "endpoint", {}) : n \in
          {m \in nodes : type[m] = "management_unit" /\ PastLimits(m)}}
       \cup {Boundary(Min({n \in c : PastLimits(n)}), "cycle", c) : c \in
          {d \in cycles : d \cap owners = {} /\ \E n \in d : PastLimits(n)}}
  /\ pc' = "done"
  /\ UNCHANGED <<graph, search, route, counting>>

(* The context is done: nothing is returned. *)
Fail ==
  /\ pc \in Searches \cup {"cycles", "counts"}
  /\ pc' = "failed"
  /\ best' = FirstBest("all")
  /\ queue' = {}
  /\ paths' = [s \in Searches |-> [n \in nodes |-> None]]
  /\ route' = [c \in cycles |-> <<>>]
  /\ counted' = {}
  /\ pathCount' = [c \in components |-> 0]
  /\ uncovered' = {}
  /\ UNCHANGED graph

Next ==
  \/ Pop
  \/ SearchDone
  \/ LengthenRoute
  \/ CyclesDone
  \/ CountComponent
  \/ FindUncovered
  \/ Fail

Spec == Init /\ [][Next]_vars

--------------------------------------------------------------------------------
(* What prepare promises. *)

(* "Paths that declared or confirmed relations explain are preferred; then the
   path of fewer jobs and job networks, then of fewer connections with
   relations, at last by node and relation IDs" (dependency-analysis.md:187):
   each search ends with the least of all its paths to every node, and with no
   path where there is none, although the heap extends a path before all the
   others are known and scope edges cost nothing. *)
PathsAreLeast ==
  pc = "done" =>
    \A s \in Searches : \A n \in nodes :
      LET S == IF target \in Excluded(s) THEN {} ELSE PathsTo(n, Taken(s))
      IN  IF S = {} THEN paths[s][n] = None
                    ELSE paths[s][n] \in S /\ \A q \in S : ~lessPath(q, paths[s][n])

(* "One display route of the cycle" (dependency-analysis.md:290): a route leads
   from the first node of its cycle along edges of the cycle through every node
   of it and back. *)
RoutesGoRound ==
  pc \in {"counts", "done"} =>
    \A c \in cycles :
      LET r == route[c]
      IN  /\ r # <<>>
          /\ r[1].from = Start(c) /\ Last(r).to = Start(c)
          /\ \A i \in 1..(Len(r) - 1) : r[i].to = r[i + 1].from
          /\ {r[i].to : i \in DOMAIN r} = c

(* The connections between components, and the paths they make from the target,
   which may go on from any node of the component they come to. *)
crossing == {e \in edges : ~sameCycle(e.from, e.to)}

CrossingPaths ==
  LET longer(p) == {Append(p, e) : e \in {f \in crossing : f.from \in componentFor(End(p))}}
      P[k \in 0..Cardinality(nodes)] ==
        IF k = 0 THEN {<<>>}
        ELSE LET shorter == P[k - 1] IN shorter \cup UNION {longer(p) : p \in shorter}
  IN  P[Cardinality(nodes)]

(* "The number of paths from the target in the acyclic graph that has one place
   per strongly connected component, less the representative one ... the upper
   limit is kept where the number exceeds it" (dependency-analysis.md:194). *)
AlternativesCounted ==
  pc = "done" =>
    \A n \in nodes :
      LET count == Cardinality({p \in CrossingPaths : componentFor(End(p)) = componentFor(n)})
      IN  alternatePathCounts(n) = Min({count, MaxInt}) - 1

(* "Boundaries for which there is a path that meets no owner of a limit, itself
   included" (dependency-analysis.md:261): a terminal, an endpoint, and a cycle
   without a limit of its own are reported exactly if they can be reached so. *)
UncoveredExact ==
  pc = "done" =>
    LET past == IF target \in owners THEN {}
                ELSE Reached({e \in edges : e.to \notin owners}, target)
        at(n) == {u \in uncovered : u.boundary = n /\ u.reason # "cycle"}
        of(c) == {u \in uncovered : u.cycle = c}
    IN  /\ \A n \in nodes : at(n) # {} <=> n \in past /\ Out(n) = {}
        /\ \A c \in cycles : of(c) # {} <=> c \cap owners = {} /\ c \cap past # {}
        /\ \A c \in cycles : \A u \in of(c) : u.boundary = Min(c \cap past)
===============================================================================
