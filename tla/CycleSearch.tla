------------------------------ MODULE CycleSearch ------------------------------
(***************************************************************************)
(* findCycles of internal/traversal: the connections and scope edges of a  *)
(* result are one directed graph, and its strongly connected components of *)
(* more than one node, or of one node with a connection to itself, are the *)
(* cycles of the result.  appendFinishOrder searches depth first with its  *)
(* own stack and lists the nodes as they are left; collectComponent then   *)
(* takes the listed nodes from the last to the first and follows the edges *)
(* backwards.                                                              *)
(*                                                                         *)
(* Nodes and neighbours come in any order here, where the code sorts them: *)
(* what is found does not rest on the order of IDs.                        *)
(***************************************************************************)
EXTENDS Naturals, Sequences, FiniteSets

CONSTANT Node

ASSUME NodeAssumption == IsFiniteSet(Node)

VARIABLES
  connections,  \* the pairs (from, to): constant after Init
  scopeEdges,   \* the pairs (parent, child): constant after Init
  pc,           \* which part of findCycles runs
  visited,      \* findCycles: visited
  path,         \* appendFinishOrder: the IDs of `stack`
  left,         \* the neighbours that the frame of an ID has still to look at
  order,        \* findCycles: order
  index,        \* findCycles: index + 1
  assigned,     \* findCycles: assigned
  work,         \* collectComponent: the IDs of `stack`
  component,    \* collectComponent: component
  cycles,       \* the components found to be cycles
  mark          \* history: the length of `order` when an ID was visited

graph == <<connections, scopeEdges>>
search == <<visited, path, left, order, mark>>
collection == <<index, assigned, work, component, cycles>>
vars == <<graph, pc, search, collection>>

Edges == connections \cup scopeEdges
Vertices == {e[1] : e \in Edges} \cup {e[2] : e \in Edges}
Successors(n) == {m \in Node : <<n, m>> \in Edges}
Predecessors(n) == {m \in Node : <<m, n>> \in Edges}

(* Scope edges are part of the validated hierarchy: a forest. *)
Forest(E) ==
  /\ \A d, e \in E : d[2] = e[2] => d = e
  /\ \A e \in E : e[1] # e[2]
  /\ \A S \in SUBSET Node : S # {} =>
       \E n \in S : \A e \in E : e[2] = n => e[1] \notin S

TypeOK ==
  /\ connections \subseteq Node \X Node
  /\ scopeEdges \subseteq Node \X Node
  /\ pc \in {"order", "collect", "done", "failed"}
  /\ visited \subseteq Vertices
  /\ path \in Seq(Node)
  /\ left \in [Node -> SUBSET Node]
  /\ order \in Seq(Node)
  /\ index \in Nat
  /\ assigned \subseteq Vertices
  /\ work \subseteq Node
  /\ component \subseteq Node
  /\ cycles \subseteq SUBSET Node
  /\ mark \in [Node -> Nat]

Init ==
  /\ connections \in SUBSET (Node \X Node)
  /\ scopeEdges \in {E \in SUBSET (Node \X Node) : Forest(E)}
  /\ pc = "order"
  /\ visited = {}
  /\ path = <<>>
  /\ left = [n \in Node |-> {}]
  /\ order = <<>>
  /\ index = 0
  /\ assigned = {}
  /\ work = {}
  /\ component = {}
  /\ cycles = {}
  /\ mark = [n \in Node |-> 0]

--------------------------------------------------------------------------------
(* appendFinishOrder. *)

(* A node is visited and gets a frame on top of p. *)
Visit(n, p) ==
  /\ visited' = visited \cup {n}
  /\ path' = Append(p, n)
  /\ mark' = [mark EXCEPT ![n] = Len(order)]

(* The loop of findCycles starts a search at a node not seen so far. *)
StartSearch ==
  /\ pc = "order"
  /\ path = <<>>
  /\ \E n \in Vertices \ visited :
       /\ Visit(n, path)
       /\ left' = [left EXCEPT ![n] = Successors(n)]
  /\ UNCHANGED <<graph, pc, order, collection>>

SeenBefore(n) == n \in visited

(* The top frame looks at its next neighbour. *)
LookAtNeighbour ==
  /\ pc = "order"
  /\ path # <<>>
  /\ LET top == path[Len(path)]
     IN  \E n \in left[top] :
           IF SeenBefore(n)
             THEN /\ left' = [left EXCEPT ![top] = @ \ {n}]
                  /\ UNCHANGED <<visited, path, mark>>
             ELSE /\ Visit(n, path)
                  /\ left' = [left EXCEPT ![top] = @ \ {n}, ![n] = Successors(n)]
  /\ UNCHANGED <<graph, pc, order, collection>>

\* Bug: the node that is left is listed in front of the others.
ListedInFront(n) == <<n>> \o order

Listed(n) == Append(order, n)

(* The top frame has looked at all its neighbours: the node is listed. *)
LeaveNode ==
  /\ pc = "order"
  /\ path # <<>>
  /\ LET top == path[Len(path)]
     IN  /\ left[top] = {}
         /\ order' = Listed(top)
  /\ path' = SubSeq(path, 1, Len(path) - 1)
  /\ UNCHANGED <<graph, pc, visited, left, mark, collection>>

BeginCollection ==
  /\ pc = "order"
  /\ path = <<>>
  /\ visited = Vertices
  /\ pc' = "collect"
  /\ index' = Len(order)
  /\ UNCHANGED <<graph, search, assigned, work, component, cycles>>

--------------------------------------------------------------------------------
(* collectComponent, from the last listed node to the first. *)

(* The node belongs to a component collected before. *)
SkipAssigned ==
  /\ pc = "collect"
  /\ component = {} /\ work = {}
  /\ index > 0
  /\ order[index] \in assigned
  /\ index' = index - 1
  /\ UNCHANGED <<graph, pc, search, assigned, work, component, cycles>>

StartComponent ==
  /\ pc = "collect"
  /\ component = {} /\ work = {}
  /\ index > 0
  /\ order[index] \notin assigned
  /\ assigned' = assigned \cup {order[index]}
  /\ work' = {order[index]}
  /\ UNCHANGED <<graph, pc, search, index, component, cycles>>

\* Bug: a node is pushed although it was assigned before.
FollowedAgain(n) == Predecessors(n)

Followed(n) == Predecessors(n) \ assigned

CollectNode ==
  /\ pc = "collect"
  /\ \E n \in work :
       /\ component' = component \cup {n}
       /\ work' = (work \ {n}) \cup Followed(n)
       /\ assigned' = assigned \cup Followed(n)
  /\ UNCHANGED <<graph, pc, search, index, cycles>>

IsCycle(c) == Cardinality(c) = 1 => \E n \in c : <<n, n>> \in connections

EndComponent ==
  /\ pc = "collect"
  /\ component # {} /\ work = {}
  /\ cycles' = IF IsCycle(component) THEN cycles \cup {component} ELSE cycles
  /\ component' = {}
  /\ index' = index - 1
  /\ UNCHANGED <<graph, pc, search, assigned, work>>

Return ==
  /\ pc = "collect"
  /\ component = {} /\ work = {}
  /\ index = 0
  /\ pc' = "done"
  /\ UNCHANGED <<graph, search, collection>>

(* The context is done: findCycles returns no cycles. *)
Fail ==
  /\ pc \in {"order", "collect"}
  /\ pc' = "failed"
  /\ UNCHANGED <<graph, search, collection>>

Work ==
  \/ StartSearch
  \/ LookAtNeighbour
  \/ LeaveNode
  \/ BeginCollection
  \/ SkipAssigned
  \/ StartComponent
  \/ CollectNode
  \/ EndComponent
  \/ Return

Next == Work \/ Fail

Spec == Init /\ [][Next]_vars
FairSpec == Spec /\ WF_vars(Work)

--------------------------------------------------------------------------------
(* What a cycle is, stated without an algorithm. *)

Closed(S) == \A n \in S : Successors(n) \subseteq S

(* m can be reached from n by zero or more edges. *)
Reaches(n, m) == \A S \in SUBSET Node : n \in S /\ Closed(S) => m \in S

(* n comes back to itself by one or more edges. *)
OnCycle(n) == \E m \in Successors(n) : Reaches(m, n)

Component(n) == {m \in Node : Reaches(n, m) /\ Reaches(m, n)}

(* "Scopes and dependencies are decomposed as one directed graph into strongly
   connected components; with the scopes, a cycle is found that a relation
   from a child job back to its job network makes" (traversal.go:509): the
   cycles returned are the classes of mutually reachable nodes that lie on a
   cycle, each of them whole and no node in two. *)
CyclesAreComponents ==
  pc = "done" => cycles = {Component(n) : n \in {m \in Node : OnCycle(m)}}

--------------------------------------------------------------------------------
(* The parts of the inductive invariant. *)

Finished == {order[i] : i \in 1..Len(order)}
OnPath == {path[i] : i \in 1..Len(path)}

(* A visited node is on the stack, or it has been left and is listed once. *)
SearchShape ==
  /\ \A i, j \in 1..Len(order) : order[i] = order[j] => i = j
  /\ \A i, j \in 1..Len(path) : path[i] = path[j] => i = j
  /\ Finished \cap OnPath = {}
  /\ visited = Finished \cup OnPath
  /\ visited \subseteq Vertices
  /\ pc \in {"collect", "done"} => path = <<>> /\ visited = Vertices

(* Where the nodes stand in the order, against the marks. *)
MarksOrdered ==
  /\ \A i \in 1..Len(order) : mark[order[i]] < i
  /\ \A i \in 1..Len(path) : mark[path[i]] <= Len(order)
  /\ \A i, j \in 1..Len(path) : i < j => mark[path[i]] <= mark[path[j]]

(* The stack is a path of the graph. *)
PathConnected ==
  \A i, j \in 1..Len(path) : i < j => Reaches(path[i], path[j])

(* What the frames have looked at has been visited. *)
Looked ==
  /\ \A n \in OnPath : left[n] \subseteq Successors(n)
  /\ \A n \in OnPath : Successors(n) \ left[n] \subseteq visited

(* An edge leads to a node that was visited before its source was listed. *)
EdgesMarked ==
  \A i \in 1..Len(order) : \A m \in Successors(order[i]) :
    m \in visited /\ mark[m] < i

(* What is listed while a node is on the stack can be reached from it. *)
DescendantsReached ==
  \A n \in visited : \A i \in 1..Len(order) :
    mark[n] < i /\ (\A k \in 1..Len(order) : order[k] = n => i <= k)
      => Reaches(n, order[i])

(* A node visited while another was on the stack is listed before it. *)
MarksNested ==
  \A i \in 1..Len(order) : \A n \in visited :
    mark[order[i]] < mark[n] /\ mark[n] < i =>
      \E k \in 1..Len(order) : k < i /\ order[k] = n

(* What was assigned before the running component. *)
Settled == assigned \ (component \cup work)

(* The running component is not settled, and it has the node it began with. *)
CollectionShape ==
  /\ pc = "order" => assigned = {} /\ work = {} /\ component = {} /\ cycles = {} /\ index = 0
  /\ index <= Len(order)
  /\ pc = "done" => index = 0 /\ work = {} /\ component = {}
  /\ component \cap work = {}
  /\ component \cup work \subseteq assigned
  /\ component \cup work # {} => index > 0 /\ order[index] \in component \cup work

(* The settled nodes form whole components and include every node listed
   behind the index. *)
ComponentsWhole ==
  /\ \A n \in Settled : Component(n) \subseteq Settled
  /\ pc \in {"collect", "done"} =>
       \A i \in 1..Len(order) : i > index => order[i] \in Settled

(* The running component is within one strongly connected component, and the
   predecessors of its nodes have been taken up. *)
ComponentSoFar ==
  component \cup work # {} =>
    /\ order[index] \notin Settled
    /\ component \cup work \subseteq Component(order[index])
    /\ \A n \in component : Predecessors(n) \subseteq assigned

(* The cycles found are the cycles among the settled nodes. *)
CyclesSoFar ==
  cycles = {Component(n) : n \in {m \in Settled : OnCycle(m)}}

SearchInv ==
  /\ SearchShape
  /\ MarksOrdered
  /\ PathConnected
  /\ Looked
  /\ EdgesMarked
  /\ DescendantsReached
  /\ MarksNested

CollectInv ==
  /\ CollectionShape
  /\ ComponentsWhole
  /\ ComponentSoFar
  /\ CyclesSoFar

(* The inductive invariant. *)
IInv ==
  /\ TypeOK
  /\ Forest(scopeEdges)
  /\ SearchInv
  /\ CollectInv

(* Liveness under Fairness: findCycles ends on every graph. *)
Terminates == <>(pc \in {"done", "failed"})
===============================================================================
