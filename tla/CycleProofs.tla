------------------------------ MODULE CycleProofs ------------------------------
(***************************************************************************)
(* Theorems about module CycleSearch, for every finite graph.              *)
(*                                                                         *)
(* The nodes listed between the visit of a node and its own place in the   *)
(* order can be reached from it (DescendantsReached), an edge leads to a   *)
(* node visited before its source was listed (EdgesMarked), and what is    *)
(* visited while a node is on the stack is listed before it (MarksNested). *)
(* These three facts alone give BackwardsStays: a predecessor of a node of *)
(* the running component is in that component or was settled before.      *)
(***************************************************************************)
EXTENDS CycleSearch, FiniteSetTheorems, SequenceTheorems, TLAPS

(* Reachability is reflexive, transitive and contains the edges. *)
LEMMA ReachReflexive == ASSUME NEW n \in Node PROVE Reaches(n, n)
  BY DEF Reaches

LEMMA ReachTransitive ==
  ASSUME NEW n \in Node, NEW m \in Node, NEW k \in Node, Reaches(n, m), Reaches(m, k)
  PROVE  Reaches(n, k)
  BY DEF Reaches

LEMMA ReachEdge ==
  ASSUME NEW n \in Node, NEW m \in Successors(n)
  PROVE  Reaches(n, m)
  BY DEF Reaches, Closed

(* Component is a partition. *)
LEMMA ComponentSame ==
  ASSUME NEW n \in Node, NEW m \in Component(n)
  PROVE  Component(m) = Component(n) /\ n \in Component(m)
  BY ReachTransitive DEF Component

(* A set that is not closed between two nodes has an edge that leaves it. *)
LEMMA LeavingEdge ==
  ASSUME NEW y \in Node, NEW s \in Node, Reaches(y, s), NEW S \in SUBSET Node,
         y \in S, s \notin S
  PROVE  \E a \in S : \E b \in Successors(a) : b \notin S
  BY DEF Reaches, Closed

(* The graph does not change, nor do the notions defined from it. *)
LEMMA SameGraph ==
  ASSUME UNCHANGED graph
  PROVE  /\ Vertices' = Vertices /\ Edges' = Edges
         /\ \A S \in SUBSET Node : Closed(S)' <=> Closed(S)
         /\ Forest(scopeEdges) => Forest(scopeEdges)'
         /\ \A n \in Node : Successors(n)' = Successors(n) /\ Predecessors(n)' = Predecessors(n)
         /\ \A n, m \in Node : Reaches(n, m)' <=> Reaches(n, m)
         /\ \A n \in Node : Component(n)' = Component(n)
         /\ \A n \in Node : OnCycle(n)' <=> OnCycle(n)
  <1>1. Edges' = Edges
    BY DEF graph, Edges
  <1>2. \A n \in Node : Successors(n)' = Successors(n) /\ Predecessors(n)' = Predecessors(n)
    BY <1>1 DEF Successors, Predecessors
  <1>3. \A S \in SUBSET Node : Closed(S)' <=> Closed(S)
    BY <1>2 DEF Closed
  <1>4. \A n, m \in Node : Reaches(n, m)' <=> Reaches(n, m)
    BY <1>3 DEF Reaches
  <1>5. \A n \in Node : Component(n)' = Component(n)
    BY <1>4 DEF Component
  <1>6. \A n \in Node : OnCycle(n)' <=> OnCycle(n)
    <2> SUFFICES ASSUME NEW n \in Node PROVE OnCycle(n)' <=> OnCycle(n)
      OBVIOUS
    <2>1. Successors(n)' = Successors(n) /\ Successors(n) \subseteq Node
      BY <1>2 DEF Successors
    <2> QED
      BY <2>1, <1>4 DEF OnCycle
  <1>7. Vertices' = Vertices
    BY <1>1 DEF Vertices
  <1>8. Forest(scopeEdges) => Forest(scopeEdges)'
    BY DEF graph, Forest
  <1> QED
    BY <1>1, <1>2, <1>3, <1>4, <1>5, <1>6, <1>7, <1>8

(* A node has a successor that comes back to it exactly if it is not alone in
   its component or has an edge to itself. *)
LEMMA CycleOfComponent ==
  ASSUME TypeOK, Forest(scopeEdges), NEW s \in Node, NEW m \in Component(s)
  PROVE  IsCycle(Component(s)) <=> OnCycle(m)
  <1>1. m \in Node /\ Component(s) \subseteq Node /\ Component(m) = Component(s) /\ m \in Component(m)
    BY ComponentSame, ReachReflexive DEF Component
  <1>2. Component(s) = {m} => Cardinality(Component(s)) = 1
    BY FS_Singleton
  <1>3. Cardinality(Component(s)) = 1 => Component(s) = {m}
    <2>1. IsFiniteSet(Component(s))
      BY NodeAssumption, FS_Subset, <1>1
    <2> QED
      BY <2>1, FS_Singleton
  <1>4. ASSUME Component(s) # {m} PROVE OnCycle(m)
    <2>1. PICK k \in Component(m) : k # m
      BY <1>1, <1>4
    <2>2. k \in Node /\ Reaches(m, k) /\ Reaches(k, m)
      BY <2>1 DEF Component
    <2> DEFINE S == {m} \cup {z \in Node : \E w \in Successors(m) : Reaches(w, z)}
    <2>3. Closed(S) /\ S \in SUBSET Node
      <3> SUFFICES ASSUME NEW z \in S, NEW k2 \in Successors(z) PROVE k2 \in S
        BY <1>1 DEF Closed
      <3>0. k2 \in Node /\ z \in Node
        BY <1>1 DEF Successors
      <3>1. CASE z = m
        BY <3>0, <3>1, ReachReflexive
      <3>2. CASE z # m
        <4>1. PICK w \in Successors(m) : Reaches(w, z)
          BY <3>2
        <4>2. w \in Node
          BY DEF Successors
        <4>3. Reaches(w, k2)
          BY <3>0, <4>1, <4>2, ReachEdge, ReachTransitive
        <4> QED
          BY <3>0, <4>3
      <3> QED
        BY <3>1, <3>2
    <2>4. k \in S
      BY <2>2, <2>3 DEF Reaches
    <2>5. PICK w \in Successors(m) : Reaches(w, k)
      BY <2>1, <2>4
    <2>6. Reaches(w, m)
      BY <1>1, <2>2, <2>5, ReachTransitive DEF Successors
    <2> QED
      BY <2>6 DEF OnCycle
  <1>5. ASSUME Component(s) = {m} PROVE OnCycle(m) <=> <<m, m>> \in connections
    <2>1. ASSUME OnCycle(m) PROVE <<m, m>> \in connections
      <3>1. PICK w \in Successors(m) : Reaches(w, m)
        BY <2>1 DEF OnCycle
      <3>2. w \in Component(m)
        BY <3>1, <1>1, ReachEdge DEF Component, Successors
      <3>3. <<m, m>> \in Edges
        BY <1>1, <1>5, <3>1, <3>2 DEF Successors
      <3>4. <<m, m>> \notin scopeEdges
        BY DEF Forest
      <3> QED
        BY <3>3, <3>4 DEF Edges
    <2>2. ASSUME <<m, m>> \in connections PROVE OnCycle(m)
      BY <1>1, <2>2, ReachReflexive DEF OnCycle, Successors, Edges
    <2> QED
      BY <2>1, <2>2
  <1> QED
    BY <1>2, <1>3, <1>4, <1>5 DEF IsCycle

(* The step of Kosaraju's argument: with A settled, s the last listed node
   outside of A and y in the component of s, a predecessor of y outside of A
   is in the component of s. *)
LEMMA BackwardsStays ==
  ASSUME TypeOK, SearchInv, pc = "collect",
         NEW A \in SUBSET Node, \A n \in A : Component(n) \subseteq A,
         NEW i \in 1..Len(order), \A j \in 1..Len(order) : j > i => order[j] \in A,
         order[i] \notin A,
         NEW y \in Component(order[i]), NEW x \in Predecessors(y), x \notin A
  PROVE  x \in Component(order[i])
  <1> DEFINE s == order[i]
  <1>1. s \in Node /\ y \in Node /\ x \in Node /\ Len(order) \in Nat
    BY DEF TypeOK, Component, Predecessors
  <1>2. Reaches(s, y) /\ Reaches(y, s) /\ y \in Successors(x) /\ Reaches(x, y)
    BY <1>1, ReachEdge DEF Component, Predecessors, Successors
  <1>3. Reaches(x, s)
    BY <1>1, <1>2, ReachTransitive
  <1>4. y \notin A
    BY <1>1, <1>2 DEF Component
  <1>5. \A n \in Vertices : \E k \in 1..Len(order) : order[k] = n
    BY DEF SearchInv, SearchShape, Finished, OnPath
  <1>6. PICK px \in 1..Len(order) : order[px] = x
    <2>1. x \in Vertices
      BY <1>1, <1>2 DEF Vertices, Successors
    <2> QED
      BY <2>1, <1>5
  <1>7. PICK py \in 1..Len(order) : order[py] = y
    <2>1. y \in Vertices
      BY <1>1, <1>2 DEF Vertices, Successors
    <2> QED
      BY <2>1, <1>5
  <1>8. px <= i /\ py <= i
    BY <1>1, <1>4, <1>6, <1>7
  <1>9. \A k \in 1..Len(order) : order[k] = s => k = i
    BY DEF SearchInv, SearchShape
  <1>10. visited = {order[k] : k \in 1..Len(order)} /\ mark \in [Node -> Nat]
    BY DEF SearchInv, SearchShape, Finished, OnPath, TypeOK
  <1> SUFFICES Reaches(s, x)
    BY <1>1, <1>3 DEF Component
  <1>11. CASE mark[s] < px
    BY <1>1, <1>6, <1>8, <1>9, <1>10, <1>11 DEF SearchInv, DescendantsReached
  <1>12. CASE px <= mark[s] /\ px <= py
    <2>1. mark[y] < px
      BY <1>2, <1>6 DEF SearchInv, EdgesMarked
    <2>2. \A k \in 1..Len(order) : order[k] = y => px <= k
      BY <1>7, <1>12 DEF SearchInv, SearchShape
    <2>3. Reaches(y, x)
      BY <2>1, <2>2, <1>6, <1>7, <1>10 DEF SearchInv, DescendantsReached
    <2> QED
      BY <2>3, <1>1, <1>2, ReachTransitive
  <1>13. CASE px <= mark[s] /\ py < px
    <2> DEFINE Early(z) == \E k \in 1..Len(order) : order[k] = z /\ k <= mark[s]
               S == {z \in Node : Reaches(y, z) /\ (Early(z) \/ ~Reaches(z, s))}
    <2>0. mark[s] < i /\ mark[s] \in Nat
      BY <1>1, <1>10 DEF SearchInv, MarksOrdered
    <2>1. y \in S
      <3>1. Early(y)
        BY <1>7, <1>8, <1>13, <2>0
      <3> QED
        BY <3>1, <1>1, ReachReflexive
    <2>2. s \notin S
      BY <1>1, <1>9, <2>0, ReachReflexive
    <2>30. PICK a \in S : \E b \in Successors(a) : b \notin S
      <3>1. S \in SUBSET Node
        OBVIOUS
      <3> HIDE DEF S
      <3> QED
        BY <2>1, <2>2, <3>1, <1>1, <1>2, LeavingEdge
    <2>3. PICK b \in Successors(a) : b \notin S
      BY <2>30
    <2>4. a \in Node /\ b \in Node /\ Reaches(y, b)
      BY <1>1, ReachEdge, ReachTransitive DEF Successors
    <2>5. ~Early(b) /\ Reaches(b, s)
      BY <2>3, <2>4
    <2>6. Reaches(a, s)
      BY <1>1, <2>4, <2>5, ReachEdge, ReachTransitive
    <2>7. PICK ka \in 1..Len(order) : order[ka] = a /\ ka <= mark[s]
      BY <2>6
    <2>8. b \in visited /\ mark[b] < ka
      BY <2>7 DEF SearchInv, EdgesMarked
    <2>9. PICK kb \in 1..Len(order) : order[kb] = b
      BY <2>8, <1>10
    <2>10. mark[s] < kb
      BY <2>0, <2>5, <2>9
    <2>11. b \in Component(s)
      BY <1>1, <1>2, <2>4, <2>5, ReachTransitive DEF Component
    <2>12. b \notin A
      BY <1>1, <2>11, ComponentSame
    <2>13. kb <= i
      BY <2>9, <2>12
    <2>14. mark[b] < mark[s]
      BY <2>0, <2>4, <2>7, <2>8, <1>10
    <2>15. s \in visited
      BY <1>10
    <2>16. \E k \in 1..Len(order) : k < kb /\ order[k] = s
      BY <2>9, <2>10, <2>14, <2>15 DEF SearchInv, MarksNested
    <2> QED
      BY <2>13, <2>16, <1>9
  <1>14. mark[s] \in Nat
    BY <1>1, <1>10
  <1> QED
    BY <1>11, <1>12, <1>13, <1>14

--------------------------------------------------------------------------------
(* A visited node that is not listed is on the stack. *)
LEMMA VisitedPlaced ==
  ASSUME SearchInv, NEW n \in visited
  PROVE  \/ \E k \in 1..Len(order) : order[k] = n
         \/ \E k \in 1..Len(path) : path[k] = n
  BY DEF SearchInv, SearchShape, Finished, OnPath

(* A new node on top of the stack, reachable from every node below it. *)
LEMMA VisitKeeps ==
  ASSUME TypeOK, SearchInv, UNCHANGED <<graph, order>>, pc = "order", pc' = "order",
         NEW n \in Vertices \ visited, Visit(n, path),
         \A i \in 1..Len(path) : Reaches(path[i], n)
  PROVE  /\ SearchShape' /\ MarksOrdered' /\ PathConnected'
         /\ EdgesMarked' /\ DescendantsReached' /\ MarksNested'
         /\ visited' \subseteq Vertices' /\ path' \in Seq(Node) /\ mark' \in [Node -> Nat]
         /\ OnPath' = OnPath \cup {n}
  <1>1. n \in Node
    BY DEF Vertices, Edges, TypeOK
  <1>2. /\ Len(path) \in Nat /\ Len(order) \in Nat
        /\ path' \in Seq(Node)
        /\ Len(path') = Len(path) + 1
        /\ path'[Len(path) + 1] = n
        /\ \A i \in 1..Len(path) : path'[i] = path[i]
    BY <1>1 DEF Visit, TypeOK
  <1>3. /\ mark' \in [Node -> Nat]
        /\ mark'[n] = Len(order)
        /\ \A m \in visited : mark'[m] = mark[m]
    BY <1>1, <1>2 DEF Visit, TypeOK, SearchInv, SearchShape
  <1>4. /\ visited' = visited \cup {n}
        /\ UNCHANGED order
    BY DEF Visit
  <1>5. /\ \A i \in 1..Len(order) : order[i] \in visited
        /\ \A i \in 1..Len(path) : path[i] \in visited
    BY DEF SearchInv, SearchShape, Finished, OnPath
  <1>6. \A i \in 1..Len(path') : i = Len(path) + 1 \/ i \in 1..Len(path)
    BY <1>2
  <1>7. OnPath' = OnPath \cup {n}
    BY <1>2, <1>6 DEF OnPath
  <1>8. Vertices' = Vertices /\ Finished' = Finished
    BY <1>4, SameGraph DEF Finished
  <1>9. SearchShape'
    <2>1. \A i, j \in 1..Len(path') : path'[i] = path'[j] => i = j
      BY <1>2, <1>5, <1>6 DEF SearchInv, SearchShape
    <2>2. Finished' \cap OnPath' = {}
      BY <1>5, <1>7, <1>8 DEF SearchInv, SearchShape, Finished
    <2> QED
      BY <1>4, <1>7, <1>8, <2>1, <2>2 DEF SearchInv, SearchShape
  <1>10. MarksOrdered'
    <2>1. \A i \in 1..Len(order) : mark'[order[i]] < i
      BY <1>3, <1>5 DEF SearchInv, MarksOrdered
    <2>2. \A i \in 1..Len(path) : mark'[path'[i]] = mark[path[i]] /\ mark[path[i]] <= Len(order)
      BY <1>2, <1>3, <1>5 DEF SearchInv, MarksOrdered
    <2>3. \A i \in 1..Len(path') : mark'[path'[i]] <= Len(order)
      BY <1>2, <1>3, <1>6, <2>2
    <2>4. ASSUME NEW i \in 1..Len(path'), NEW j \in 1..Len(path'), i < j
          PROVE  mark'[path'[i]] <= mark'[path'[j]]
      <3>1. i \in 1..Len(path)
        BY <1>2, <1>6, <2>4
      <3>2. CASE j = Len(path) + 1
        BY <1>2, <1>3, <2>2, <3>1, <3>2
      <3>3. CASE j \in 1..Len(path)
        BY <2>2, <2>4, <3>1, <3>3 DEF SearchInv, MarksOrdered
      <3> QED
        BY <1>6, <3>2, <3>3
    <2> QED
      BY <1>4, <2>1, <2>3, <2>4 DEF MarksOrdered
  <1>11. PathConnected'
    <2> SUFFICES ASSUME NEW i \in 1..Len(path'), NEW j \in 1..Len(path'), i < j,
                        NEW S \in SUBSET Node, path'[i] \in S, Closed(S)
                 PROVE  path'[j] \in S
      BY SameGraph DEF PathConnected, Reaches
    <2>1. i \in 1..Len(path) /\ path'[i] = path[i]
      BY <1>2, <1>6
    <2>2. CASE j = Len(path) + 1
      BY <1>2, <2>1, <2>2 DEF Reaches
    <2>3. CASE j \in 1..Len(path)
      BY <1>2, <2>1, <2>3 DEF SearchInv, PathConnected, Reaches
    <2> QED
      BY <1>6, <2>2, <2>3
  <1>12. EdgesMarked'
    <2>1. \A i \in 1..Len(order) : Successors(order[i])' = Successors(order[i])
      BY <1>4, SameGraph DEF Successors
    <2> QED
      BY <1>3, <1>4, <2>1 DEF SearchInv, EdgesMarked
  <1>13. DescendantsReached'
    <2> SUFFICES ASSUME NEW m \in visited', NEW i \in 1..Len(order), mark'[m] < i,
                        \A k \in 1..Len(order) : order[k] = m => i <= k
                 PROVE  Reaches(m, order[i])'
      BY <1>4 DEF DescendantsReached
    <2>1. m \in visited
      BY <1>2, <1>3, <1>4
    <2>2. Reaches(m, order[i])
      BY <1>3, <2>1 DEF SearchInv, DescendantsReached
    <2> QED
      BY <1>4, <2>2, SameGraph DEF Reaches
  <1>14. MarksNested'
    <2> SUFFICES ASSUME NEW i \in 1..Len(order), NEW m \in visited',
                        mark'[order[i]] < mark'[m], mark'[m] < i
                 PROVE  \E k \in 1..Len(order) : k < i /\ order[k] = m
      BY <1>4 DEF MarksNested
    <2>1. m \in visited /\ mark'[m] = mark[m] /\ mark'[order[i]] = mark[order[i]]
      BY <1>2, <1>3, <1>4, <1>5
    <2> QED
      BY <2>1 DEF SearchInv, MarksNested
  <1> QED
    BY <1>2, <1>3, <1>4, <1>7, <1>8, <1>9, <1>10, <1>11, <1>12, <1>13, <1>14 DEF SearchShape

(* The steps of the search leave the collection untouched. *)
LEMMA CollectionUntouched ==
  ASSUME CollectInv, pc = "order", pc' = "order", UNCHANGED <<graph, collection>>,
         Len(order) \in Nat, Len(order') \in Nat
  PROVE  CollectInv'
  <1>1. /\ assigned = {} /\ work = {} /\ component = {} /\ cycles = {} /\ index = 0
        /\ assigned' = {} /\ work' = {} /\ component' = {} /\ cycles' = {} /\ index' = 0
    BY DEF CollectInv, CollectionShape, collection
  <1>2. Settled = {} /\ Settled' = {}
    BY <1>1 DEF Settled
  <1> QED
    BY <1>1, <1>2 DEF CollectInv, CollectionShape, ComponentsWhole, ComponentSoFar, CyclesSoFar

(* A search starts at a node that has not been visited. *)
LEMMA StartSearchInv == ASSUME IInv, StartSearch PROVE IInv'
  <1>1. PICK n \in Vertices \ visited : /\ Visit(n, path)
                                        /\ left' = [left EXCEPT ![n] = Successors(n)]
    BY DEF StartSearch
  <1>2. /\ UNCHANGED <<graph, pc, order, collection>>
        /\ pc = "order" /\ pc' = "order" /\ path = <<>>
    BY DEF StartSearch
  <1>3. n \in Node
    BY DEF Vertices, Edges, IInv, TypeOK
  <1>4. /\ SearchShape' /\ MarksOrdered' /\ PathConnected'
        /\ EdgesMarked' /\ DescendantsReached' /\ MarksNested'
        /\ visited' \subseteq Vertices' /\ path' \in Seq(Node) /\ mark' \in [Node -> Nat]
        /\ OnPath' = OnPath \cup {n} /\ visited' = visited \cup {n}
    <2>1. \A i \in 1..Len(path) : Reaches(path[i], n)
      BY <1>2
    <2> QED
      BY <1>1, <1>2, <2>1, VisitKeeps DEF IInv, Visit
  <1>5. left' \in [Node -> SUBSET Node]
    BY <1>1, <1>3 DEF IInv, TypeOK, Successors
  <1>6. TypeOK'
    BY <1>2, <1>4, <1>5, SameGraph DEF IInv, TypeOK, graph, collection
  <1>7. Looked'
    <2>1. OnPath' = {n}
      <3>1. OnPath = {}
        BY <1>2 DEF OnPath
      <3> QED
        BY <1>4, <3>1
    <2>2. left'[n] = Successors(n) /\ Successors(n)' = Successors(n)
      BY <1>1, <1>2, <1>3, SameGraph DEF IInv, TypeOK
    <2> QED
      BY <2>1, <2>2 DEF Looked
  <1>8. CollectInv'
    BY <1>2, CollectionUntouched DEF IInv, TypeOK
  <1> QED
    BY <1>2, <1>4, <1>6, <1>7, <1>8, SameGraph DEF IInv, SearchInv

(* The top frame looks at a neighbour, which gets a frame if it is new. *)
LEMMA LookAtNeighbourInv == ASSUME IInv, LookAtNeighbour PROVE IInv'
  <1> DEFINE top == path[Len(path)]
  <1>1. PICK n \in left[top] :
          IF SeenBefore(n)
            THEN /\ left' = [left EXCEPT ![top] = @ \ {n}]
                 /\ UNCHANGED <<visited, path, mark>>
            ELSE /\ Visit(n, path)
                 /\ left' = [left EXCEPT ![top] = @ \ {n}, ![n] = Successors(n)]
    BY DEF LookAtNeighbour
  <1>2. /\ UNCHANGED <<graph, pc, order, collection>>
        /\ pc = "order" /\ pc' = "order" /\ path # <<>>
    BY DEF LookAtNeighbour
  <1>3. /\ Len(path) \in Nat \ {0} /\ top \in Node /\ top \in OnPath /\ Len(order) \in Nat
        /\ top \in visited
    BY <1>2 DEF IInv, TypeOK, OnPath, SearchInv, SearchShape
  <1>4. n \in Successors(top) /\ n \in Node /\ n \in Vertices
    <2>1. n \in Successors(top)
      BY <1>3 DEF IInv, SearchInv, Looked
    <2> QED
      BY <1>3, <2>1 DEF Successors, Vertices
  <1>5. CollectInv'
    BY <1>2, <1>3, CollectionUntouched DEF IInv, TypeOK
  <1>6. CASE n \in visited
    <2>1. left' = [left EXCEPT ![top] = @ \ {n}] /\ UNCHANGED <<visited, path, mark, order>>
      BY <1>1, <1>2, <1>6 DEF SeenBefore
    <2>2. TypeOK'
      BY <1>2, <2>1, SameGraph DEF IInv, TypeOK, graph, collection
    <2>3. SearchShape'
      BY <1>2, <2>1, SameGraph DEF IInv, SearchInv, SearchShape, Finished, OnPath
    <2>4. MarksOrdered' /\ MarksNested'
      BY <2>1 DEF IInv, SearchInv, MarksOrdered, MarksNested
    <2>5. PathConnected' /\ DescendantsReached'
      BY <1>2, <2>1, SameGraph DEF IInv, SearchInv, PathConnected, DescendantsReached, Reaches
    <2>6. EdgesMarked'
      BY <1>2, <2>1, SameGraph DEF IInv, SearchInv, EdgesMarked, Successors
    <2>7. Looked'
      <3>1. OnPath' = OnPath /\ OnPath \subseteq Node
        BY <2>1 DEF OnPath, IInv, TypeOK
      <3>2. \A m \in OnPath : Successors(m)' = Successors(m)
        BY <1>2, <3>1, SameGraph
      <3> SUFFICES ASSUME NEW m \in OnPath
                   PROVE  /\ left'[m] \subseteq Successors(m)
                          /\ Successors(m) \ left'[m] \subseteq visited
        BY <2>1, <3>1, <3>2 DEF Looked
      <3>3. left[m] \subseteq Successors(m) /\ Successors(m) \ left[m] \subseteq visited
        BY DEF IInv, SearchInv, Looked
      <3>4. CASE m = top
        <4>1. left'[m] = left[m] \ {n}
          BY <1>3, <2>1, <3>4 DEF IInv, TypeOK
        <4> QED
          BY <1>6, <3>3, <4>1
      <3>5. CASE m # top
        <4>1. left'[m] = left[m]
          BY <1>3, <2>1, <3>1, <3>5 DEF IInv, TypeOK
        <4> QED
          BY <3>3, <4>1
      <3> QED
        BY <3>4, <3>5
    <2> QED
      BY <1>2, <1>5, <2>2, <2>3, <2>4, <2>5, <2>6, <2>7, SameGraph DEF IInv, SearchInv
  <1>7. CASE n \notin visited
    <2>1. Visit(n, path) /\ left' = [left EXCEPT ![top] = @ \ {n}, ![n] = Successors(n)]
      BY <1>1, <1>7 DEF SeenBefore
    <2>2. \A i \in 1..Len(path) : Reaches(path[i], n)
      <3> SUFFICES ASSUME NEW i \in 1..Len(path) PROVE Reaches(path[i], n)
        OBVIOUS
      <3>1. path[i] \in Node /\ Reaches(top, n)
        BY <1>3, <1>4, ReachEdge DEF IInv, TypeOK
      <3>2. CASE i = Len(path)
        BY <3>1, <3>2
      <3>3. CASE i # Len(path)
        <4>1. Reaches(path[i], top)
          BY <1>3, <3>3 DEF IInv, SearchInv, PathConnected
        <4> QED
          BY <1>3, <1>4, <3>1, <4>1, ReachTransitive
      <3> QED
        BY <3>2, <3>3
    <2>3. /\ SearchShape' /\ MarksOrdered' /\ PathConnected'
          /\ EdgesMarked' /\ DescendantsReached' /\ MarksNested'
          /\ visited' \subseteq Vertices' /\ path' \in Seq(Node) /\ mark' \in [Node -> Nat]
          /\ OnPath' = OnPath \cup {n} /\ visited' = visited \cup {n}
      BY <1>2, <1>4, <1>7, <2>1, <2>2, VisitKeeps DEF IInv, Visit
    <2>4. left' \in [Node -> SUBSET Node]
      BY <1>3, <1>4, <2>1 DEF IInv, TypeOK, Successors
    <2>5. TypeOK'
      BY <1>2, <2>3, <2>4, SameGraph DEF IInv, TypeOK, graph, collection
    <2>6. Looked'
      <3>1. OnPath \subseteq Node
        BY DEF OnPath, IInv, TypeOK
      <3>2. \A m \in OnPath \cup {n} : Successors(m)' = Successors(m)
        BY <1>2, <1>4, <3>1, SameGraph
      <3> SUFFICES ASSUME NEW m \in OnPath \cup {n}
                   PROVE  /\ left'[m] \subseteq Successors(m)
                          /\ Successors(m) \ left'[m] \subseteq visited'
        BY <2>3, <3>2 DEF Looked
      <3>3. CASE m = n
        BY <1>3, <1>4, <1>7, <2>1, <3>3 DEF IInv, TypeOK
      <3>4. CASE m # n
        <4>1. left[m] \subseteq Successors(m) /\ Successors(m) \ left[m] \subseteq visited
          BY <3>4 DEF IInv, SearchInv, Looked
        <4>2. left'[m] \subseteq left[m] /\ left[m] \subseteq left'[m] \cup {n}
          BY <1>3, <1>4, <2>1, <3>1, <3>4 DEF IInv, TypeOK
        <4> QED
          BY <2>3, <4>1, <4>2
      <3> QED
        BY <3>3, <3>4
    <2> QED
      BY <1>2, <1>5, <2>3, <2>5, <2>6, SameGraph DEF IInv, SearchInv
  <1> QED
    BY <1>6, <1>7

(* The top node is listed behind everything that can be reached from it. *)
LEMMA LeaveNodeInv == ASSUME IInv, LeaveNode PROVE IInv'
  <1> DEFINE top == path[Len(path)]
  <1>1. /\ UNCHANGED <<graph, pc, visited, left, mark, collection>>
        /\ pc = "order" /\ pc' = "order" /\ path # <<>> /\ left[top] = {}
        /\ order' = Append(order, top)
        /\ path' = SubSeq(path, 1, Len(path) - 1)
    BY DEF LeaveNode, Listed
  <1>2. /\ Len(path) \in Nat \ {0} /\ Len(order) \in Nat /\ top \in Node
        /\ top \in OnPath /\ top \in visited
    BY <1>1 DEF IInv, TypeOK, OnPath, SearchInv, SearchShape
  <1>3. /\ order' \in Seq(Node) /\ Len(order') = Len(order) + 1
        /\ order'[Len(order) + 1] = top
        /\ \A i \in 1..Len(order) : order'[i] = order[i]
    BY <1>1, <1>2 DEF IInv, TypeOK
  <1>4. /\ path' \in Seq(Node) /\ Len(path') = Len(path) - 1
        /\ \A i \in 1..(Len(path) - 1) : path'[i] = path[i]
    <2>1. \A i \in 1..(Len(path) - 1) : i \in 1..Len(path)
      BY <1>2
    <2>2. \A i \in 1..(Len(path) - 1) : path[i] \in Node
      BY <2>1 DEF IInv, TypeOK
    <2>3. 1 \in Int /\ Len(path) - 1 \in Int
      BY <1>2
    <2>4. /\ SubSeq(path, 1, Len(path) - 1) \in Seq(Node)
          /\ Len(SubSeq(path, 1, Len(path) - 1)) =
               IF 1 <= Len(path) - 1 THEN Len(path) - 1 - 1 + 1 ELSE 0
          /\ \A i \in 1..(Len(path) - 1 - 1 + 1) : SubSeq(path, 1, Len(path) - 1)[i] = path[1 + i - 1]
      BY <2>2, <2>3, SubSeqProperties
    <2>5. Len(path) - 1 - 1 + 1 = Len(path) - 1
      BY <1>2
    <2>6. Len(SubSeq(path, 1, Len(path) - 1)) = Len(path) - 1
      <3>1. CASE Len(path) = 1
        BY <2>4, <3>1
      <3>2. CASE Len(path) # 1
        <4>1. 1 <= Len(path) - 1
          <5>1. Len(path) \in Nat /\ Len(path) # 0
            BY <1>2
          <5>2. \A k \in Nat : k # 0 /\ k # 1 => 1 <= k - 1
            OBVIOUS
          <5> QED
            BY <3>2, <5>1, <5>2
        <4> QED
          BY <2>4, <2>5, <4>1
      <3> QED
        BY <3>1, <3>2
    <2>7. \A i \in 1..(Len(path) - 1) : 1 + i - 1 = i
      OBVIOUS
    <2>8. \A i \in 1..(Len(path) - 1) : path'[i] = path[i]
      BY <1>1, <2>4, <2>5, <2>7
    <2> QED
      BY <1>1, <2>4, <2>6, <2>8
  <1>5. \A i \in 1..Len(order') : i = Len(order) + 1 \/ i \in 1..Len(order)
    BY <1>2, <1>3
  <1>6. \A i \in 1..Len(path') : i \in 1..Len(path) /\ i # Len(path) /\ i \in 1..Len(path) - 1
    BY <1>2, <1>4
  <1>7. Finished' = Finished \cup {top}
    BY <1>2, <1>3, <1>5 DEF Finished
  <1>8. /\ \A i, j \in 1..Len(path) : path[i] = path[j] => i = j
        /\ \A i \in 1..Len(path) : path[i] \notin Finished
        /\ \A i \in 1..Len(order) : order[i] \in Finished
    BY DEF IInv, SearchInv, SearchShape, OnPath, Finished
  <1>9. OnPath' = OnPath \ {top}
    <2>1. OnPath' \subseteq OnPath \ {top}
      BY <1>2, <1>4, <1>6, <1>8 DEF OnPath
    <2>2. OnPath \ {top} \subseteq OnPath'
      <3> SUFFICES ASSUME NEW i \in 1..Len(path), path[i] # top PROVE path[i] \in OnPath'
        BY DEF OnPath
      <3>1. i \in 1..Len(path') /\ path'[i] = path[i]
        BY <1>2, <1>4
      <3> QED
        BY <3>1 DEF OnPath
    <2> QED
      BY <2>1, <2>2
  <1>10. TypeOK'
    BY <1>1, <1>3, <1>4, SameGraph DEF IInv, TypeOK, graph, collection
  <1>11. SearchShape'
    <2>1. \A i, j \in 1..Len(order') : order'[i] = order'[j] => i = j
      BY <1>2, <1>3, <1>5, <1>8 DEF IInv, SearchInv, SearchShape
    <2>2. \A i, j \in 1..Len(path') : path'[i] = path'[j] => i = j
      BY <1>4, <1>6, <1>8
    <2>3. Finished' \cap OnPath' = {} /\ visited' = Finished' \cup OnPath'
      BY <1>1, <1>2, <1>7, <1>9 DEF IInv, SearchInv, SearchShape
    <2> QED
      BY <1>1, <2>1, <2>2, <2>3, SameGraph DEF IInv, SearchInv, SearchShape
  <1>12. /\ mark \in [Node -> Nat] /\ UNCHANGED mark
         /\ \A i \in 1..Len(path) : mark[path[i]] <= Len(order) /\ mark[path[i]] <= mark[top]
         /\ \A i \in 1..Len(path) : mark[path[i]] \in Nat
    <2>1. \A i \in 1..Len(path) : i < Len(path) \/ i = Len(path)
      BY <1>2
    <2>2. mark \in [Node -> Nat] /\ \A i \in 1..Len(path) : path[i] \in Node /\ mark[path[i]] \in Nat
      BY DEF IInv, TypeOK
    <2>3. \A i \in 1..Len(path) : mark[path[i]] <= mark[top]
      BY <1>2, <2>1, <2>2 DEF IInv, SearchInv, MarksOrdered
    <2> QED
      BY <1>1, <2>2, <2>3 DEF IInv, SearchInv, MarksOrdered
  <1>13. MarksOrdered'
    <2>1. \A i \in 1..Len(order') : mark[order'[i]] < i
      <3>1. \A i \in 1..Len(order) : mark[order[i]] < i
        BY DEF IInv, SearchInv, MarksOrdered
      <3>2. \A i \in 1..Len(order) : mark[order'[i]] < i
        BY <1>3, <3>1
      <3>3. mark[top] <= Len(order) /\ mark[top] \in Nat
        BY <1>2, <1>12
      <3>4. mark[order'[Len(order) + 1]] < Len(order) + 1
        BY <1>2, <1>3, <3>3
      <3> QED
        BY <1>5, <3>2, <3>4
    <2>2. \A i \in 1..Len(path') : mark[path'[i]] <= Len(order')
      <3> SUFFICES ASSUME NEW i \in 1..Len(path') PROVE mark[path'[i]] <= Len(order')
        OBVIOUS
      <3>1. path'[i] = path[i] /\ mark[path[i]] <= Len(order) /\ mark[path[i]] \in Nat
        BY <1>4, <1>6, <1>12
      <3> QED
        BY <1>2, <1>3, <3>1
    <2>3. \A i, j \in 1..Len(path') : i < j => mark[path'[i]] <= mark[path'[j]]
      BY <1>4, <1>6 DEF IInv, SearchInv, MarksOrdered
    <2> QED
      BY <1>1, <2>1, <2>2, <2>3 DEF MarksOrdered
  <1>14. PathConnected'
    <2> SUFFICES ASSUME NEW i \in 1..Len(path'), NEW j \in 1..Len(path'), i < j,
                        NEW S \in SUBSET Node, path'[i] \in S, Closed(S)
                 PROVE  path'[j] \in S
      BY <1>1, SameGraph DEF PathConnected, Reaches
    <2>1. Reaches(path[i], path[j])
      BY <1>6 DEF IInv, SearchInv, PathConnected
    <2> QED
      BY <1>4, <1>6, <2>1 DEF Reaches
  <1>15. Looked'
    <2>1. \A m \in OnPath : Successors(m)' = Successors(m)
      BY <1>1, SameGraph DEF OnPath, IInv, TypeOK
    <2> QED
      BY <1>1, <1>9, <2>1 DEF IInv, SearchInv, Looked
  <1>16. EdgesMarked'
    <2> SUFFICES ASSUME NEW i \in 1..Len(order'), NEW m \in Node, <<order'[i], m>> \in Edges
                 PROVE  m \in visited /\ mark[m] < i
      BY <1>1, SameGraph DEF EdgesMarked, Successors
    <2>2. CASE i \in 1..Len(order)
      BY <1>3, <2>2 DEF IInv, SearchInv, EdgesMarked, Successors
    <2>3. CASE i = Len(order) + 1
      <3>1. m \in Successors(top)
        BY <1>3, <2>3 DEF Successors
      <3>2. m \in visited
        BY <1>1, <1>2, <3>1 DEF IInv, SearchInv, Looked
      <3>3. CASE \E k \in 1..Len(order) : order[k] = m
        <4>1. mark[m] < Len(order) + 1
          BY <1>2, <1>12, <3>3 DEF IInv, TypeOK, SearchInv, MarksOrdered
        <4> QED
          BY <2>3, <3>2, <4>1
      <3>4. CASE \E k \in 1..Len(path) : path[k] = m
        BY <1>2, <1>12, <2>3, <3>2, <3>4
      <3> QED
        BY <3>2, <3>3, <3>4, VisitedPlaced DEF IInv
    <2> QED
      BY <1>5, <2>2, <2>3
  <1>17. DescendantsReached'
    <2> SUFFICES ASSUME NEW n \in visited, NEW i \in 1..Len(order'), mark[n] < i,
                        \A k \in 1..Len(order') : order'[k] = n => i <= k,
                        NEW S \in SUBSET Node, n \in S, Closed(S)
                 PROVE  order'[i] \in S
      BY <1>1, SameGraph DEF DescendantsReached, Reaches
    <2>1. n \in Node
      BY DEF IInv, TypeOK, Vertices, Edges
    <2>2. CASE i \in 1..Len(order)
      <3>1. \A k \in 1..Len(order) : order[k] = n => i <= k
        BY <1>2, <1>3
      <3>2. Reaches(n, order[i])
        BY <2>2, <3>1 DEF IInv, SearchInv, DescendantsReached
      <3> QED
        BY <1>3, <2>2, <3>2 DEF Reaches
    <2>3. CASE i = Len(order) + 1
      <3>1. ~\E k \in 1..Len(order) : order[k] = n
        BY <1>2, <1>3, <2>3
      <3>2. PICK k \in 1..Len(path) : path[k] = n
        BY <3>1, VisitedPlaced DEF IInv
      <3>3. Reaches(n, top)
        <4>1. CASE k = Len(path)
          BY <1>2, <3>2, <4>1, ReachReflexive
        <4>2. CASE k # Len(path)
          <5>1. k < Len(path) /\ Len(path) \in 1..Len(path)
            BY <1>2, <4>2
          <5> QED
            BY <3>2, <5>1 DEF IInv, SearchInv, PathConnected
        <4> QED
          BY <4>1, <4>2
      <3> QED
        BY <1>3, <2>3, <3>3 DEF Reaches
    <2> QED
      BY <1>5, <2>2, <2>3
  <1>18. MarksNested'
    <2> SUFFICES ASSUME NEW i \in 1..Len(order'), NEW n \in visited,
                        mark[order'[i]] < mark[n], mark[n] < i
                 PROVE  \E k \in 1..Len(order') : k < i /\ order'[k] = n
      BY <1>1 DEF MarksNested
    <2>1. CASE i \in 1..Len(order)
      BY <1>2, <1>3, <2>1 DEF IInv, SearchInv, MarksNested
    <2>2. CASE i = Len(order) + 1
      <3>1. ~\E k \in 1..Len(path) : path[k] = n
        BY <1>2, <1>3, <1>12, <2>2
      <3>2. PICK k \in 1..Len(order) : order[k] = n
        BY <3>1, VisitedPlaced DEF IInv
      <3> QED
        BY <1>2, <1>3, <2>2, <3>2
    <2> QED
      BY <1>5, <2>1, <2>2
  <1>19. CollectInv'
    BY <1>1, <1>2, <1>3, CollectionUntouched DEF IInv
  <1> QED
    BY <1>1, <1>10, <1>11, <1>13, <1>14, <1>15, <1>16, <1>17, <1>18, <1>19, SameGraph
       DEF IInv, SearchInv

--------------------------------------------------------------------------------
(* The steps of the collection leave the search untouched. *)
LEMMA SearchUntouched ==
  ASSUME TypeOK, SearchInv, UNCHANGED <<graph, search>>,
         pc' \in {"collect", "done"} => path = <<>> /\ visited = Vertices
  PROVE  SearchInv'
  <1>1. UNCHANGED <<visited, path, left, order, mark>>
    BY DEF search
  <1>2. SearchShape'
    BY <1>1, SameGraph DEF SearchInv, SearchShape, Finished, OnPath
  <1>3. MarksOrdered' /\ MarksNested'
    BY <1>1 DEF SearchInv, MarksOrdered, MarksNested
  <1>4. PathConnected' /\ DescendantsReached'
    BY <1>1, SameGraph DEF SearchInv, PathConnected, DescendantsReached, Reaches
  <1>5. EdgesMarked' /\ Looked'
    BY <1>1, SameGraph DEF SearchInv, EdgesMarked, Looked, OnPath, Successors
  <1> QED
    BY <1>2, <1>3, <1>4, <1>5 DEF SearchInv

(* Settled nodes are vertices, and vertices are nodes. *)
LEMMA SettledNodes ==
  ASSUME TypeOK
  PROVE  Vertices \subseteq Node /\ Settled \subseteq Node
  <1>1. \A e \in Edges : e[1] \in Node /\ e[2] \in Node
    <2>1. Edges \subseteq Node \X Node
      BY DEF TypeOK, Edges
    <2> QED
      BY <2>1
  <1>2. Vertices \subseteq Node
    BY <1>1 DEF Vertices
  <1>3. assigned \subseteq Vertices
    BY DEF TypeOK
  <1> QED
    BY <1>2, <1>3 DEF Settled

(* What the collection starts from: every vertex is listed. *)
LEMMA CollectingFacts ==
  ASSUME IInv, pc = "collect"
  PROVE  /\ path = <<>> /\ visited = Vertices
         /\ order \in Seq(Node) /\ Len(order) \in Nat /\ index \in 0..Len(order)
         /\ \A k \in 1..Len(order) : order[k] \in Vertices
         /\ Vertices \subseteq Node /\ Settled \subseteq Node
         /\ index > 0 => index \in 1..Len(order) /\ order[index] \in Node
  <1>1. path = <<>> /\ visited = Vertices
    BY DEF IInv, SearchInv, SearchShape
  <1>2. order \in Seq(Node) /\ Len(order) \in Nat /\ index \in 0..Len(order)
    BY DEF IInv, TypeOK, CollectInv, CollectionShape
  <1>3. \A k \in 1..Len(order) : order[k] \in Vertices
    BY <1>1 DEF IInv, SearchInv, SearchShape, Finished
  <1>4. Vertices \subseteq Node /\ Settled \subseteq Node
    BY SettledNodes DEF IInv
  <1> QED
    BY <1>1, <1>2, <1>3, <1>4

(* The search has ended; the last listed node comes first. *)
LEMMA BeginCollectionInv == ASSUME IInv, BeginCollection PROVE IInv'
  <1>1. /\ UNCHANGED <<graph, search, assigned, work, component, cycles>>
        /\ pc = "order" /\ pc' = "collect" /\ path = <<>> /\ visited = Vertices
        /\ index' = Len(order) /\ UNCHANGED order
    BY DEF BeginCollection, search
  <1>2. TypeOK'
    BY <1>1, SameGraph DEF IInv, TypeOK, graph, search
  <1>3. SearchInv'
    BY <1>1, SearchUntouched DEF IInv
  <1>4. /\ assigned' = {} /\ work' = {} /\ component' = {} /\ cycles' = {}
    BY <1>1 DEF IInv, CollectInv, CollectionShape
  <1>5. Settled' = {}
    BY <1>4 DEF Settled
  <1>6. CollectInv'
    <2>1. Len(order) \in Nat
      BY DEF IInv, TypeOK
    <2> QED
      BY <1>1, <1>4, <1>5, <2>1 DEF CollectInv, CollectionShape, ComponentsWhole,
          ComponentSoFar, CyclesSoFar
  <1> QED
    BY <1>1, <1>2, <1>3, <1>6, SameGraph DEF IInv

(* A node that is settled is passed over. *)
LEMMA SkipAssignedInv == ASSUME IInv, SkipAssigned PROVE IInv'
  <1>1. /\ UNCHANGED <<graph, pc, search, assigned, work, component, cycles>>
        /\ pc = "collect" /\ component = {} /\ work = {} /\ index > 0
        /\ order[index] \in assigned /\ index' = index - 1 /\ UNCHANGED order
    BY DEF SkipAssigned, search
  <1>2. index \in 1..Len(order) /\ Len(order) \in Nat /\ index' \in Nat /\ index' <= Len(order)
    BY <1>1, CollectingFacts
  <1>3. TypeOK'
    BY <1>1, <1>2, SameGraph DEF IInv, TypeOK, graph, search
  <1>4. SearchInv'
    BY <1>1, CollectingFacts, SearchUntouched DEF IInv
  <1>5. Settled' = Settled /\ Settled = assigned /\ Settled \subseteq Node
    BY <1>1, CollectingFacts DEF Settled
  <1>6. CollectionShape' /\ ComponentSoFar'
    BY <1>1, <1>2 DEF IInv, CollectInv, CollectionShape, ComponentSoFar
  <1>7. ComponentsWhole'
    <2>1. \A n \in Settled : Component(n)' \subseteq Settled
      BY <1>1, <1>5, SameGraph DEF IInv, CollectInv, ComponentsWhole
    <2>2. \A i \in 1..Len(order) : i > index' => order[i] \in Settled
      BY <1>1, <1>2, <1>5 DEF IInv, CollectInv, ComponentsWhole
    <2> QED
      BY <1>1, <1>5, <2>1, <2>2 DEF ComponentsWhole
  <1>8. CyclesSoFar'
    BY <1>1, <1>5, SameGraph DEF IInv, CollectInv, CyclesSoFar
  <1> QED
    BY <1>1, <1>3, <1>4, <1>6, <1>7, <1>8, SameGraph DEF IInv, CollectInv

(* A component begins with the last listed node that is not settled. *)
LEMMA StartComponentInv == ASSUME IInv, StartComponent PROVE IInv'
  <1>1. /\ UNCHANGED <<graph, pc, search, index, component, cycles>>
        /\ pc = "collect" /\ component = {} /\ work = {} /\ index > 0
        /\ order[index] \notin assigned /\ UNCHANGED order
        /\ assigned' = assigned \cup {order[index]} /\ work' = {order[index]}
    BY DEF StartComponent, search
  <1>2. /\ index \in 1..Len(order) /\ order[index] \in Node /\ order[index] \in Vertices
        /\ Settled \subseteq Node
    BY <1>1, CollectingFacts
  <1>3. TypeOK'
    BY <1>1, <1>2, SameGraph DEF IInv, TypeOK, graph, search
  <1>4. SearchInv'
    BY <1>1, CollectingFacts, SearchUntouched DEF IInv
  <1>5. Settled' = Settled
    BY <1>1 DEF Settled
  <1>6. CollectionShape'
    BY <1>1, <1>2 DEF IInv, CollectInv, CollectionShape
  <1>7. ComponentsWhole'
    <2>1. \A n \in Settled : Component(n)' \subseteq Settled
      BY <1>1, <1>2, SameGraph DEF IInv, CollectInv, ComponentsWhole
    <2> QED
      BY <1>1, <1>5, <2>1 DEF IInv, CollectInv, ComponentsWhole
  <1>8. ComponentSoFar'
    <2>1. order[index] \in Component(order[index])
      BY <1>2, ReachReflexive DEF Component
    <2>2. Component(order[index])' = Component(order[index])
      BY <1>1, SameGraph DEF Component, Reaches
    <2>3. order[index] \notin Settled
      BY <1>1 DEF Settled
    <2> QED
      BY <1>1, <1>5, <2>1, <2>2, <2>3 DEF ComponentSoFar
  <1>9. CyclesSoFar'
    BY <1>1, <1>2, <1>5, SameGraph DEF IInv, CollectInv, CyclesSoFar
  <1> QED
    BY <1>1, <1>3, <1>4, <1>6, <1>7, <1>8, <1>9, SameGraph DEF IInv, CollectInv

(* The predecessors that are not settled belong to the running component. *)
LEMMA CollectNodeInv == ASSUME IInv, CollectNode PROVE IInv'
  <1>1. PICK n \in work : /\ component' = component \cup {n}
                          /\ work' = (work \ {n}) \cup Followed(n)
                          /\ assigned' = assigned \cup Followed(n)
    BY DEF CollectNode
  <1>2. /\ UNCHANGED <<graph, pc, search, index, cycles>> /\ pc = "collect" /\ UNCHANGED order
    BY DEF CollectNode, search
  <1> DEFINE s == order[index]
             new == Followed(n)
  <1>3. /\ new \subseteq Node /\ new \cap assigned = {} /\ Predecessors(n) \subseteq assigned \cup new
        /\ new \subseteq Vertices /\ new \subseteq Predecessors(n)
    BY DEF Followed, Predecessors, Vertices
  <1>4. /\ index > 0 /\ s \in component \cup work /\ component \cap work = {}
        /\ component \cup work \subseteq assigned /\ n \in Node
    BY DEF IInv, CollectInv, CollectionShape, TypeOK
  <1>5. /\ index \in 1..Len(order) /\ s \in Node /\ Settled \subseteq Node
    BY <1>2, <1>4, CollectingFacts
  <1>6. /\ s \notin Settled /\ component \cup work \subseteq Component(s)
        /\ \A m \in component : Predecessors(m) \subseteq assigned
    BY <1>4 DEF IInv, CollectInv, ComponentSoFar
  <1>7. new \subseteq Component(s)
    <2> SUFFICES ASSUME NEW x \in new PROVE x \in Component(s)
      OBVIOUS
    <2>1. x \in Predecessors(n) /\ x \notin Settled
      BY <1>3 DEF Settled
    <2>2. /\ \A m \in Settled : Component(m) \subseteq Settled
          /\ \A j \in 1..Len(order) : j > index => order[j] \in Settled
      BY <1>2 DEF IInv, CollectInv, ComponentsWhole
    <2>3. n \in Component(s)
      BY <1>6
    <2> QED
      BY <1>2, <1>5, <1>6, <2>1, <2>2, <2>3, BackwardsStays DEF IInv
  <1>8. Settled' = Settled
    BY <1>1, <1>3 DEF Settled
  <1>9. TypeOK'
    <2>1. /\ component' \subseteq Node /\ work' \subseteq Node
          /\ assigned' \subseteq Vertices'
      BY <1>1, <1>2, <1>3, <1>4, SameGraph DEF IInv, TypeOK
    <2> QED
      BY <1>2, <2>1, SameGraph DEF IInv, TypeOK, graph, search
  <1>10. SearchInv'
    BY <1>2, CollectingFacts, SearchUntouched DEF IInv
  <1>11. CollectionShape'
    <2>1. component' \cap work' = {} /\ component' \cup work' \subseteq assigned'
      BY <1>1, <1>3, <1>4
    <2>2. s \in component' \cup work'
      BY <1>1, <1>4
    <2> QED
      BY <1>2, <1>4, <2>1, <2>2 DEF IInv, CollectInv, CollectionShape
  <1>12. ComponentsWhole'
    <2>1. \A m \in Settled : Component(m)' \subseteq Settled
      BY <1>2, <1>5, SameGraph DEF IInv, CollectInv, ComponentsWhole
    <2> QED
      BY <1>2, <1>8, <2>1 DEF IInv, CollectInv, ComponentsWhole
  <1>13. ComponentSoFar'
    <2>1. Component(order[index])' = Component(s)
      BY <1>2, SameGraph DEF Component, Reaches
    <2>2. component' \cup work' \subseteq Component(s)
      BY <1>1, <1>6, <1>7
    <2>3. \A m \in component' : Predecessors(m)' \subseteq assigned'
      <3>1. \A m \in component' : m \in Node /\ Predecessors(m) \subseteq assigned'
        BY <1>1, <1>3, <1>4, <1>6 DEF IInv, TypeOK
      <3> QED
        BY <1>2, <3>1, SameGraph
    <2> QED
      BY <1>2, <1>6, <1>8, <2>1, <2>2, <2>3 DEF ComponentSoFar
  <1>14. CyclesSoFar'
    BY <1>2, <1>5, <1>8, SameGraph DEF IInv, CollectInv, CyclesSoFar
  <1> QED
    BY <1>2, <1>9, <1>10, <1>11, <1>12, <1>13, <1>14, SameGraph DEF IInv, CollectInv

(* A component without unexplored nodes is a whole component of the graph. *)
LEMMA WholeComponent ==
  ASSUME IInv, pc = "collect", component # {}, work = {}
  PROVE  /\ index > 0 /\ order[index] \in component
         /\ component = Component(order[index])
  <1> DEFINE s == order[index]
  <1>1. index > 0 /\ s \in component /\ component \subseteq assigned
    BY DEF IInv, CollectInv, CollectionShape
  <1>2. s \in Node /\ Settled = assigned \ component /\ s \notin Settled
    BY <1>1, CollectingFacts DEF Settled
  <1>3. /\ component \subseteq Component(s)
        /\ \A m \in component : Predecessors(m) \subseteq assigned
    BY DEF IInv, CollectInv, ComponentSoFar
  <1>4. ASSUME NEW y \in Component(s), y \notin component PROVE FALSE
    <2> DEFINE S == {z \in Node : Reaches(y, z) /\ z \notin component}
    <2>1. y \in Node /\ Reaches(y, s) /\ Reaches(s, y)
      BY DEF Component
    <2>2. y \in S /\ s \notin S /\ S \in SUBSET Node
      BY <1>1, <1>4, <2>1, ReachReflexive
    <2>3. PICK a \in S : \E b \in Successors(a) : b \notin S
      <3> HIDE DEF S
      <3> QED
        BY <1>2, <2>1, <2>2, LeavingEdge
    <2>4. PICK b \in Successors(a) : b \notin S
      BY <2>3
    <2>5. a \in Node /\ b \in Node /\ Reaches(y, a) /\ a \notin component
      BY DEF Successors
    <2>6. Reaches(y, b)
      BY <2>1, <2>5, ReachEdge, ReachTransitive
    <2>7. b \in component
      BY <2>4, <2>5, <2>6
    <2>8. Reaches(b, s)
      BY <1>3, <2>7 DEF Component
    <2>9. Reaches(a, s) /\ Reaches(s, a)
      BY <1>2, <2>1, <2>5, <2>8, ReachEdge, ReachTransitive
    <2>10. a \in Predecessors(b)
      BY <2>5 DEF Predecessors, Successors
    <2>11. a \in Settled
      BY <1>2, <1>3, <2>5, <2>7, <2>10
    <2>12. s \in Component(a)
      BY <1>2, <2>9 DEF Component
    <2> QED
      BY <1>2, <2>11, <2>12 DEF IInv, CollectInv, ComponentsWhole
  <1> QED
    BY <1>1, <1>3, <1>4

(* A collected component is settled, and kept if it is a cycle. *)
LEMMA EndComponentInv == ASSUME IInv, EndComponent PROVE IInv'
  <1>1. /\ UNCHANGED <<graph, pc, search, assigned, work>>
        /\ pc = "collect" /\ component # {} /\ work = {} /\ UNCHANGED order
        /\ cycles' = IF IsCycle(component) THEN cycles \cup {component} ELSE cycles
        /\ component' = {} /\ index' = index - 1
    BY DEF EndComponent, search
  <1> DEFINE s == order[index]
  <1>2. /\ index > 0 /\ s \in component /\ component = Component(s)
    BY <1>1, WholeComponent
  <1>3. /\ index \in 1..Len(order) /\ Len(order) \in Nat /\ s \in Node /\ Settled \subseteq Node
        /\ index' \in Nat /\ index' <= Len(order)
    BY <1>1, <1>2, CollectingFacts
  <1>4. Settled' = Settled \cup component /\ Settled' = assigned /\ component \subseteq Node
    BY <1>1 DEF Settled, IInv, CollectInv, CollectionShape, TypeOK
  <1>5. TypeOK'
    BY <1>1, <1>3, <1>4, SameGraph DEF IInv, TypeOK, graph, search
  <1>6. SearchInv'
    BY <1>1, CollectingFacts, SearchUntouched DEF IInv
  <1>7. CollectionShape' /\ ComponentSoFar'
    BY <1>1, <1>3 DEF CollectionShape, ComponentSoFar
  <1>8. ComponentsWhole'
    <2>1. \A n \in Settled : Component(n)' \subseteq Settled'
      BY <1>1, <1>3, <1>4, SameGraph DEF IInv, CollectInv, ComponentsWhole
    <2>2. \A n \in component : Component(n)' \subseteq Settled'
      BY <1>1, <1>2, <1>3, <1>4, SameGraph, ComponentSame
    <2>3. \A i \in 1..Len(order) : i > index' => order[i] \in Settled'
      BY <1>1, <1>2, <1>3, <1>4 DEF IInv, CollectInv, ComponentsWhole
    <2> QED
      BY <1>1, <1>4, <2>1, <2>2, <2>3 DEF ComponentsWhole
  <1>9. CyclesSoFar'
    <2>1. \A m \in component : IsCycle(component) <=> OnCycle(m)
      BY <1>2, <1>3, CycleOfComponent DEF IInv
    <2>2. \A m \in component : Component(m) = component
      BY <1>2, <1>3, ComponentSame
    <2>3. cycles = {Component(n) : n \in {m \in Settled : OnCycle(m)}}
      BY DEF IInv, CollectInv, CyclesSoFar
    <2>4. cycles' = {Component(n) : n \in {m \in Settled \cup component : OnCycle(m)}}
      <3>1. CASE IsCycle(component)
        <4>1. cycles' = cycles \cup {component} /\ OnCycle(s) /\ Component(s) = component
          BY <1>1, <1>2, <2>1, <3>1
        <4> QED
          BY <1>2, <2>2, <2>3, <4>1
      <3>2. CASE ~IsCycle(component)
        BY <1>1, <2>1, <2>3, <3>2
      <3> QED
        BY <3>1, <3>2
    <2> QED
      BY <1>1, <1>3, <1>4, <2>4, SameGraph DEF CyclesSoFar
  <1> QED
    BY <1>1, <1>5, <1>6, <1>7, <1>8, <1>9, SameGraph DEF IInv, CollectInv

(* A step that changes at most pc keeps the invariant, unless it ends a
   collection before its time. *)
LEMMA NothingCollected ==
  ASSUME IInv, UNCHANGED <<graph, search, collection>>,
         \/ pc' = pc
         \/ pc' = "failed"
         \/ /\ pc' = "done" /\ pc = "collect"
            /\ component = {} /\ work = {} /\ index = 0
  PROVE  IInv'
  <1>0. pc \in {"order", "collect", "done", "failed"}
    BY DEF IInv, TypeOK
  <1>1. /\ UNCHANGED <<graph, search, collection>>
        /\ pc' \in {"order", "collect", "done", "failed"}
        /\ pc' = "order" => pc = "order"
        /\ pc' \in {"collect", "done"} => pc \in {"collect", "done"}
        /\ pc' = "done" => pc = "done" \/ (component = {} /\ work = {} /\ index = 0)
    BY <1>0
  <1>2. /\ UNCHANGED <<visited, path, left, order, mark, index, assigned, work, component, cycles>>
    BY <1>1 DEF search, collection
  <1>3. TypeOK'
    BY <1>1, <1>2, SameGraph DEF IInv, TypeOK, graph
  <1>4. SearchInv'
    <2>1. pc' \in {"collect", "done"} => path = <<>> /\ visited = Vertices
      BY <1>1 DEF IInv, SearchInv, SearchShape
    <2> QED
      BY <1>1, <2>1, SearchUntouched DEF IInv
  <1>5. CollectionShape'
    BY <1>1, <1>2 DEF IInv, CollectInv, CollectionShape
  <1>6. Settled' = Settled /\ Settled \subseteq Node
    BY <1>2, SettledNodes DEF Settled, IInv
  <1>7. ComponentsWhole'
    <2>1. \A n \in Settled : Component(n)' \subseteq Settled
      BY <1>1, <1>6, SameGraph DEF IInv, CollectInv, ComponentsWhole
    <2> QED
      BY <1>1, <1>2, <1>6, <2>1 DEF IInv, CollectInv, ComponentsWhole
  <1>8. ComponentSoFar'
    <2>1. Component(order[index])' = Component(order[index])
      BY <1>1, <1>2, SameGraph DEF Component, Reaches
    <2>2. \A m \in component : Predecessors(m)' = Predecessors(m)
      BY <1>1, SameGraph DEF IInv, TypeOK
    <2> QED
      BY <1>2, <1>6, <2>1, <2>2 DEF IInv, CollectInv, ComponentSoFar
  <1>9. CyclesSoFar'
    BY <1>1, <1>2, <1>6, SameGraph DEF IInv, CollectInv, CyclesSoFar
  <1> QED
    BY <1>1, <1>3, <1>4, <1>5, <1>7, <1>8, <1>9, SameGraph DEF IInv, CollectInv

(* The end, regular or not, changes no set. *)
LEMMA EndInv == ASSUME IInv, Return \/ Fail PROVE IInv'
  BY NothingCollected DEF Return, Fail

--------------------------------------------------------------------------------
(* Init establishes the invariant: nothing is visited. *)
LEMMA InitInv == Init => IInv
  <1> SUFFICES ASSUME Init PROVE IInv
    OBVIOUS
  <1>1. TypeOK /\ Forest(scopeEdges)
    BY DEF Init, TypeOK
  <1>2. Len(path) = 0 /\ Len(order) = 0 /\ OnPath = {} /\ Finished = {}
    BY DEF Init, OnPath, Finished
  <1>3. SearchInv
    BY <1>2 DEF Init, SearchInv, SearchShape, MarksOrdered, PathConnected, Looked, EdgesMarked,
        DescendantsReached, MarksNested
  <1>4. Settled = {}
    BY DEF Init, Settled
  <1>5. CollectInv
    BY <1>2, <1>4 DEF Init, CollectInv, CollectionShape, ComponentsWhole, ComponentSoFar,
        CyclesSoFar
  <1> QED
    BY <1>1, <1>3, <1>5 DEF IInv

(* Every step keeps the invariant. *)
LEMMA NextInv == IInv /\ [Next]_vars => IInv'
  <1> SUFFICES ASSUME IInv, [Next]_vars PROVE IInv'
    OBVIOUS
  <1>1. CASE StartSearch
    BY <1>1, StartSearchInv
  <1>2. CASE LookAtNeighbour
    BY <1>2, LookAtNeighbourInv
  <1>3. CASE LeaveNode
    BY <1>3, LeaveNodeInv
  <1>4. CASE BeginCollection
    BY <1>4, BeginCollectionInv
  <1>5. CASE SkipAssigned
    BY <1>5, SkipAssignedInv
  <1>6. CASE StartComponent
    BY <1>6, StartComponentInv
  <1>7. CASE CollectNode
    BY <1>7, CollectNodeInv
  <1>8. CASE EndComponent
    BY <1>8, EndComponentInv
  <1>9. CASE Return \/ Fail
    BY <1>9, EndInv
  <1>10. CASE UNCHANGED vars
    BY <1>10, NothingCollected DEF vars
  <1> QED
    BY <1>1, <1>2, <1>3, <1>4, <1>5, <1>6, <1>7, <1>8, <1>9, <1>10 DEF Next, Work

(* The invariant of the two searches holds in every state, on every graph. *)
THEOREM Invariance == Spec => []IInv
  BY InitInv, NextInv, PTL DEF Spec

(* findCycles returns exactly the strongly connected components that lie on a
   cycle, for every finite graph and every order of nodes and neighbours. *)
THEOREM CyclesFound == Spec => []CyclesAreComponents
  <1>1. IInv => CyclesAreComponents
    <2> SUFFICES ASSUME IInv, pc = "done"
                 PROVE  cycles = {Component(n) : n \in {m \in Node : OnCycle(m)}}
      BY DEF CyclesAreComponents
    <2>1. visited = Vertices /\ path = <<>> /\ index = 0 /\ Len(order) \in Nat
      BY DEF IInv, TypeOK, SearchInv, SearchShape, CollectInv, CollectionShape
    <2>2. OnPath = {}
      BY <2>1 DEF OnPath
    <2>3. \A n \in Vertices : n \in Settled
      BY <2>1, <2>2 DEF IInv, SearchInv, SearchShape, Finished, CollectInv, ComponentsWhole
    <2>4. \A m \in Node : OnCycle(m) => m \in Vertices
      BY DEF OnCycle, Successors, Vertices
    <2>5. Settled \subseteq Node
      BY SettledNodes DEF IInv
    <2>6. {m \in Settled : OnCycle(m)} = {m \in Node : OnCycle(m)}
      BY <2>3, <2>4, <2>5
    <2> QED
      BY <2>6 DEF IInv, CollectInv, CyclesSoFar
  <1> QED
    BY <1>1, Invariance, PTL
===============================================================================
