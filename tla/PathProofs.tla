------------------------------- MODULE PathProofs -------------------------------
(***************************************************************************)
(* Proofs about both parts of Build: first that prepare finds the least    *)
(* paths, then that the tree made of them keeps what it promises.          *)
(***************************************************************************)
EXTENDS PathPrepare, PathTree, SequenceTheorems, FiniteSetTheorems, WellFoundedInduction, TLAPS

--------------------------------------------------------------------------------
(* The invariant. *)

(* p leads from m along edges of E and meets no node twice. *)
IsPath(p, m, E) ==
  /\ p \in Seq(E)
  /\ \A i \in DOMAIN p :
       /\ p[i].from = IF i = 1 THEN m ELSE p[i - 1].to
       /\ p[i].to # m
       /\ \A j \in 1..(i - 1) : p[j].to # p[i].to

Prefix(p, k) == SubSeq(p, 1, k)

(* A path was found that leads where p does and is no worse.  (The found path is
   bound by a quantifier here and below, so that the order, which rests on `type`,
   is that of two values.) *)
Beaten(p) == \E b \in {best[End(p)]} : b # None /\ ~lessPath(p, b)

(* What the queue holds: on its way p passed nodes that had paths no worse. *)
Candidate(p) ==
  /\ IsPath(p, target, Taken(pc))
  /\ \A k \in 0..Len(p) : Beaten(Prefix(p, k))

Extended(n, b) == \A e \in Taken(pc) \cap Out(n) : Beaten(Append(b, e))

(* The best path to a node waits in the queue or was extended by each edge. *)
SearchRuns ==
  pc \in Searches =>
    /\ best \in [nodes -> Seq(edges) \cup {None}]
    /\ IsFiniteSet(queue)
    /\ \A p \in queue : Candidate(p)
    /\ \A n \in nodes : \A b \in {best[n]} : b # None =>
         /\ Candidate(b)
         /\ End(b) = n
         /\ b \in queue \/ Extended(n, b)
    /\ IF target \in Excluded(pc) THEN \A n \in nodes : best[n] = None ELSE best[target] = <<>>

(* The paths that search s chooses from, and that it has chosen the least. *)
Ways(s) ==
  IF target \in Excluded(s) THEN {} ELSE {p \in Seq(Taken(s)) : IsPath(p, target, Taken(s))}

Least(s, found) ==
  \A n \in nodes : \A b \in {found[n]} :
    LET S == {p \in Ways(s) : End(p) = n}
    IN  IF S = {} THEN b = None ELSE b \in S /\ \A q \in S : ~lessPath(q, b)

SearchesOver ==
  CASE pc = "confirmed" -> {"all"}
    [] pc = "limitFree" -> {"all", "confirmed"}
    [] pc \in {"cycles", "counts", "done"} -> Searches
    [] OTHER -> {}

PathsFound == \A s \in SearchesOver : \A found \in {paths[s]} : Least(s, found)

(* A way round is a walk within its cycle, and back at its start it has met all. *)
RoutesWalk ==
  /\ DOMAIN route = cycles
  /\ \A c \in cycles :
       /\ route[c] \in Seq(Within(c))
       /\ \A i \in DOMAIN route[c] :
            route[c][i].from = IF i = 1 THEN Start(c) ELSE route[c][i - 1].to
       /\ IsClosed(c) => Walked(c) = c
  /\ pc \in {"counts", "done"} => \A c \in cycles : IsClosed(c)

BoundariesFound ==
  pc = "done" =>
    uncovered =
       {Boundary(n, "terminal", {}) : n \in
          {m \in nodes : type[m] # "management_unit" /\ Out(m) = {} /\ PastLimits(m)}}
       \cup {Boundary(n, "endpoint", {}) : n \in
          {m \in nodes : type[m] = "management_unit" /\ PastLimits(m)}}
       \cup {Boundary(Min({n \in c : PastLimits(n)}), "cycle", c) : c \in
          {d \in cycles : d \cap owners = {} /\ \E n \in d : PastLimits(n)}}

Typed ==
  /\ Graph
  /\ pc \in Searches \cup {"cycles", "counts", "done", "failed"}
  /\ DOMAIN paths = Searches

IInv ==
  /\ Typed
  /\ SearchRuns
  /\ PathsFound
  /\ RoutesWalk
  /\ BoundariesFound

--------------------------------------------------------------------------------
(* Numbers, and functions by recursion. *)

(* Induction, with the property as a set. *)
LEMMA SetInduction ==
  ASSUME NEW S, 0 \in S, \A n \in Nat : n \in S => n + 1 \in S
  PROVE  Nat \subseteq S
  <1> DEFINE R == OpToRel(<, Nat)
             T == Nat \ S
  <1> SUFFICES ASSUME T # {} PROVE FALSE
    OBVIOUS
  <1>1. IsWellFoundedOn(R, Nat)
    BY NatLessThanWellFounded
  <1>2. PICK m \in T : \A k \in T : <<k, m>> \notin R
    <2>1. T \subseteq Nat
      OBVIOUS
    <2> HIDE DEF T, R
    <2> QED
      BY <1>1, <2>1, WFMin
  <1>3. m \in Nat /\ m # 0
    OBVIOUS
  <1>4. m - 1 \in Nat /\ m - 1 \in T
    BY <1>3
  <1>5. <<m - 1, m>> \in R
    BY <1>3, <1>4 DEF OpToRel
  <1> QED
    BY <1>2, <1>4, <1>5

(* A set of numbers with a member has a least one, and a bounded one a greatest. *)
LEMMA LeastExists ==
  ASSUME NEW T \in SUBSET Nat, T # {}
  PROVE  \E m \in T : \A k \in T : m <= k
  <1>1. IsWellFoundedOn(OpToRel(<, Nat), Nat)
    BY NatLessThanWellFounded
  <1>2. PICK m \in T : \A k \in T : <<k, m>> \notin OpToRel(<, Nat)
    BY <1>1, WFMin
  <1>3. ASSUME NEW k \in T PROVE m <= k
    <2> SUFFICES ASSUME k < m PROVE FALSE
      OBVIOUS
    <2>1. <<k, m>> \in OpToRel(<, Nat)
      BY DEF OpToRel
    <2> QED
      BY <1>2, <2>1
  <1> QED
    BY <1>3

(* A function of k that is given by its value for k - 1. *)
Follows(f, n, a, step) == f[0] = a /\ \A k \in 1..n : f[k] = step[k][f[k - 1]]

(* A value can be computed by a given number of steps. *)
LEMMA Recursion ==
  ASSUME NEW X, NEW n \in Nat, NEW a \in X, NEW step \in [1..n -> [X -> X]]
  PROVE  \E f \in [0..n -> X] : Follows(f, n, a, step)
  <1> DEFINE Upto(f, m) == f[0] = a /\ \A k \in 1..m : f[k] = step[k][f[k - 1]]
             K == {m \in Nat : m <= n => \E f \in [0..n -> X] : Upto(f, m)}
  <1>1. 0 \in K
    <2>1. Upto([k \in 0..n |-> a], 0)
      OBVIOUS
    <2> HIDE DEF Upto
    <2> QED
      BY <2>1
  <1>2. ASSUME NEW m \in Nat, m \in K PROVE m + 1 \in K
    <2> DEFINE j == m + 1
    <2>1. CASE ~(j <= n)
      BY <2>1
    <2>2. CASE j <= n
      <3>1. PICK f \in [0..n -> X] : Upto(f, m)
        <4> HIDE DEF Upto
        <4> QED
          BY <1>2, <2>2
      <3>2. j \in 1..n /\ j \in 0..n /\ m \in 0..n /\ j - 1 = m /\ 1..j = 1..m \cup {j} /\ j # 0
        BY <2>2
      <3>3. \A k \in 1..m : k \in 0..n /\ k # j /\ k - 1 \in 0..n /\ k - 1 # j
        BY <2>2
      <3> HIDE DEF j
      <3> DEFINE g == [k \in 0..n |-> IF k = j THEN step[j][f[m]] ELSE f[k]]
      <3>4. step[j][f[m]] \in X
        BY <3>2
      <3>5. g \in [0..n -> X]
        BY <3>4
      <3>6. g[0] = a /\ g[j] = step[j][g[j - 1]]
        BY <3>1, <3>2
      <3>7. \A k \in 1..m : g[k] = f[k] /\ g[k - 1] = f[k - 1]
        BY <3>3
      <3> HIDE DEF g
      <3>8. \A k \in 1..j : g[k] = step[k][g[k - 1]]
        BY <3>1, <3>2, <3>6, <3>7
      <3>9. Upto(g, j)
        BY <3>6, <3>8
      <3> HIDE DEF Upto
      <3> QED
        BY <3>5, <3>9 DEF j
    <2> QED
      BY <2>1, <2>2
  <1>3. n \in K
    <2> HIDE DEF K
    <2> QED
      BY <1>1, <1>2, SetInduction
  <1> QED
    BY <1>3 DEF Follows

(* Min picks the least number. *)
LEMMA MinIsLeast ==
  ASSUME NEW T \in SUBSET Nat, T # {}
  PROVE  Min(T) \in T /\ \A k \in T : Min(T) <= k
  BY LeastExists DEF Min

(* The value of a concatenation, piece by piece. *)
Joins(f, seqs) ==
  /\ f[0] = <<>>
  /\ \A k \in 1..Len(seqs) : f[k] = f[k - 1] \o seqs[k]
  /\ FlattenSeq(seqs) = f[Len(seqs)]

(* The value of a concatenation is reached piece by piece. *)
LEMMA FlattenSteps ==
  ASSUME NEW X, NEW seqs \in Seq(Seq(X)), seqs # <<>>
  PROVE  \E f \in [0..Len(seqs) -> Seq(X)] : Joins(f, seqs)
  <1> DEFINE n == Len(seqs)
             step == [k \in 1..n |-> [s \in Seq(X) |-> s \o seqs[k]]]
             Is(g) == g = [i \in 1..n |-> IF i = 1 THEN seqs[i] ELSE g[i - 1] \o seqs[i]]
             flatten == CHOOSE g : Is(g)
  <1>1. n \in Nat \ {0} /\ (\A i \in 1..n : seqs[i] \in Seq(X)) /\ <<>> \in Seq(X)
    OBVIOUS
  <1>2. step \in [1..n -> [Seq(X) -> Seq(X)]]
    BY <1>1
  <1>3. PICK f \in [0..n -> Seq(X)] : f[0] = <<>> /\ \A k \in 1..n : f[k] = step[k][f[k - 1]]
    <2> DEFINE Y == Seq(X)
               empty == <<>>
    <2>1. n \in Nat /\ empty \in Y /\ step \in [1..n -> [Y -> Y]]
      BY <1>1, <1>2
    <2> HIDE DEF step, n, Y, empty
    <2>2. \E f \in [0..n -> Y] : Follows(f, n, empty, step)
      BY <2>1, Recursion
    <2> QED
      BY <2>2 DEF Y, empty, Follows
  <1>4. ASSUME NEW k \in 1..n PROVE f[k] = f[k - 1] \o seqs[k] /\ (k = 1 => f[k] = seqs[k])
    <2> HIDE DEF step, n
    <2>1. k - 1 \in 0..n
      BY <1>1
    <2>2. f[k - 1] \in Seq(X) /\ seqs[k] \in Seq(X)
      BY <1>1, <1>3, <2>1
    <2>3. step[k][f[k - 1]] = f[k - 1] \o seqs[k]
      BY <2>2 DEF step
    <2>4. f[k] = f[k - 1] \o seqs[k]
      BY <1>3, <2>3
    <2>5. ASSUME k = 1 PROVE f[k] = seqs[k]
      <3>1. f[k - 1] = <<>>
        BY <1>3, <2>5
      <3> QED
        BY <2>2, <2>4, <3>1
    <2> QED
      BY <2>4, <2>5
  <1> HIDE DEF step
  <1>5. Is([i \in 1..n |-> f[i]])
    <2> DEFINE g == [i \in 1..n |-> f[i]]
    <2>1. \A i \in 1..n : i # 1 => i - 1 \in 1..n
      BY <1>1
    <2>2. \A i \in 1..n : g[i] = f[i]
      OBVIOUS
    <2>3. \A i \in 1..n : f[i] = IF i = 1 THEN seqs[i] ELSE g[i - 1] \o seqs[i]
      BY <1>4, <2>1, <2>2
    <2> HIDE DEF n
    <2> QED
      BY <2>3
  <1>6. Is(flatten)
    <2> HIDE DEF Is
    <2> QED
      BY <1>5
  <1>7. \A i \in 1..n : flatten[i] = IF i = 1 THEN seqs[i] ELSE flatten[i - 1] \o seqs[i]
    <2> HIDE DEF flatten
    <2> QED
      BY <1>6
  <1>8. FlattenSeq(seqs) = flatten[n]
    <2>1. Len(seqs) # 0
      BY <1>1
    <2> QED
      BY <2>1, Zenon DEF FlattenSeq
  <1> HIDE DEF flatten, Is
  <1> DEFINE K == {k \in Nat : k + 1 \in 1..n => flatten[k + 1] = f[k + 1]}
  <1>9. 0 \in K
    <2>1. 1 \in 1..n
      BY <1>1
    <2>2. flatten[1] = f[1]
      BY <1>4, <1>7, <2>1
    <2> QED
      BY <2>2
  <1>10. ASSUME NEW k \in Nat, k \in K PROVE k + 1 \in K
    <2> DEFINE j == (k + 1) + 1
    <2> SUFFICES ASSUME j \in 1..n PROVE flatten[j] = f[j]
      OBVIOUS
    <2>1. k + 1 \in 1..n /\ j - 1 = k + 1 /\ j # 1
      BY <1>1
    <2>2. flatten[j - 1] = f[j - 1]
      BY <1>10, <2>1
    <2> HIDE DEF j, n
    <2>3. flatten[j] = flatten[j - 1] \o seqs[j] /\ f[j] = f[j - 1] \o seqs[j]
      BY <1>4, <1>7, <2>1
    <2> QED
      BY <2>2, <2>3
  <1>11. n - 1 \in K
    <2>1. n - 1 \in Nat
      BY <1>1
    <2> HIDE DEF K, n
    <2> QED
      BY <1>9, <1>10, <2>1, SetInduction
  <1>12. flatten[n] = f[n]
    BY <1>1, <1>11
  <1> QED
    BY <1>3, <1>4, <1>8, <1>12 DEF Joins

(* One piece more. *)
LEMMA FlattenAppend ==
  ASSUME NEW X, NEW seqs \in Seq(Seq(X)), NEW s \in Seq(X)
  PROVE  FlattenSeq(Append(seqs, s)) = FlattenSeq(seqs) \o s
  <1> DEFINE n == Len(seqs)
             more == Append(seqs, s)
  <1>0. n \in Nat /\ more \in Seq(Seq(X)) /\ Len(more) = n + 1
    OBVIOUS
  <1>1. more # <<>> /\ more[n + 1] = s /\ \A k \in 1..n : more[k] = seqs[k]
    BY AppendProperties
  <1> HIDE DEF more
  <1>2. PICK g \in [0..(n + 1) -> Seq(X)] :
          /\ g[0] = <<>>
          /\ \A k \in 1..(n + 1) : g[k] = g[k - 1] \o more[k]
          /\ FlattenSeq(more) = g[n + 1]
    <2>1. \E g \in [0..Len(more) -> Seq(X)] : Joins(g, more)
      BY <1>0, <1>1, FlattenSteps
    <2> QED
      BY <1>0, <2>1 DEF Joins
  <1>3. FlattenSeq(more) = g[n] \o s
    <2>1. n + 1 \in 1..(n + 1) /\ (n + 1) - 1 = n
      BY <1>0, <1>1
    <2> QED
      BY <1>0, <1>1, <1>2, <2>1
  <1>4. CASE seqs = <<>>
    <2>1. n = 0 /\ FlattenSeq(seqs) = <<>>
      BY <1>4, Zenon DEF FlattenSeq
    <2> QED
      BY <1>2, <1>3, <2>1 DEF more
  <1>5. CASE seqs # <<>>
    <2>1. PICK f \in [0..n -> Seq(X)] :
            /\ f[0] = <<>>
            /\ \A k \in 1..n : f[k] = f[k - 1] \o seqs[k]
            /\ FlattenSeq(seqs) = f[n]
      BY <1>5, FlattenSteps DEF Joins
    <2> DEFINE K == {k \in Nat : k \in 0..n => f[k] = g[k]}
    <2>2. 0 \in K
      BY <1>2, <2>1
    <2>3. ASSUME NEW k \in Nat, k \in K PROVE k + 1 \in K
      <3> DEFINE j == k + 1
      <3> SUFFICES ASSUME j \in 0..n PROVE f[j] = g[j]
        OBVIOUS
      <3>1. k \in 0..n /\ j - 1 = k /\ j \in 1..n /\ j \in 1..(n + 1)
        BY <1>0, <1>1
      <3> HIDE DEF j, n
      <3> QED
        BY <1>0, <1>1, <1>2, <2>1, <2>3, <3>1
    <2>4. n \in K
      <3> HIDE DEF K
      <3> QED
        BY <1>0, <1>1, <2>2, <2>3, SetInduction
    <2>5. f[n] = g[n]
      BY <1>0, <1>1, <2>4
    <2> QED
      BY <1>3, <2>1, <2>5 DEF more
  <1> QED
    BY <1>4, <1>5


--------------------------------------------------------------------------------
(* The order of sequences of numbers. *)

(* slices.Compare finds no sequence before itself. *)
LEMMA BeforeIrreflexive ==
  ASSUME NEW s \in Seq(Nat)
  PROVE  ~Before(s, s)
  BY DEF Before

(* What is known of a sequence of numbers. *)
LEMMA NumbersAt ==
  ASSUME NEW s \in Seq(Nat)
  PROVE  Len(s) \in Nat /\ DOMAIN s = 1..Len(s) /\ \A k \in 1..Len(s) : s[k] \in Nat
  OBVIOUS

(* The order of slices.Compare is transitive. *)
LEMMA BeforeTransitive ==
  ASSUME NEW s \in Seq(Nat), NEW t \in Seq(Nat), NEW u \in Seq(Nat), Before(s, t), Before(t, u)
  PROVE  Before(s, u)
  <1>1. PICK i \in DOMAIN t : /\ \A k \in 1..(i - 1) : k \in DOMAIN s /\ s[k] = t[k]
                              /\ i \in DOMAIN s => s[i] < t[i]
    BY DEF Before
  <1>2. PICK j \in DOMAIN u : /\ \A k \in 1..(j - 1) : k \in DOMAIN t /\ t[k] = u[k]
                              /\ j \in DOMAIN t => t[j] < u[j]
    BY DEF Before
  <1>3. /\ DOMAIN s = 1..Len(s) /\ DOMAIN t = 1..Len(t) /\ DOMAIN u = 1..Len(u)
        /\ Len(s) \in Nat /\ Len(t) \in Nat /\ Len(u) \in Nat
        /\ \A k \in 1..Len(s) : s[k] \in Nat
        /\ \A k \in 1..Len(t) : t[k] \in Nat
        /\ \A k \in 1..Len(u) : u[k] \in Nat
    BY NumbersAt
  <1>4. CASE i < j
    <2>0. i \in Nat /\ j \in Nat /\ i \in 1..(j - 1) /\ i \in 1..Len(u)
      BY <1>1, <1>2, <1>3, <1>4
    <2>1. i \in DOMAIN u /\ t[i] = u[i]
      BY <1>2, <1>3, <2>0
    <2>2. \A k \in 1..(i - 1) : k \in DOMAIN s /\ s[k] = u[k]
      BY <1>1, <1>2, <1>3, <1>4
    <2> QED
      BY <1>1, <2>1, <2>2 DEF Before
  <1>5. CASE i = j
    <2>1. \A k \in 1..(j - 1) : k \in DOMAIN s /\ s[k] = u[k]
      BY <1>1, <1>2, <1>5
    <2>2. j \in DOMAIN s => s[j] < u[j]
      BY <1>1, <1>2, <1>3, <1>5
    <2> QED
      BY <2>1, <2>2 DEF Before
  <1>6. CASE j < i
    <2>0. i \in Nat /\ j \in Nat /\ j \in 1..(i - 1) /\ j \in 1..Len(t)
      BY <1>1, <1>2, <1>3, <1>6
    <2>1. j \in DOMAIN t /\ j \in DOMAIN s /\ s[j] = t[j]
      BY <1>1, <1>3, <2>0
    <2>2. ASSUME NEW k \in 1..(j - 1) PROVE k \in DOMAIN s /\ s[k] = u[k]
      <3>1. k \in 1..(i - 1)
        BY <1>6, <2>0
      <3> QED
        BY <1>1, <1>2, <3>1
    <2> QED
      BY <1>2, <2>1, <2>2 DEF Before
  <1> QED
    BY <1>3, <1>4, <1>5, <1>6

(* Of two sequences that differ, one comes before the other. *)
LEMMA BeforeTotal ==
  ASSUME NEW s \in Seq(Nat), NEW t \in Seq(Nat), s # t
  PROVE  Before(s, t) \/ Before(t, s)
  <1> DEFINE Same(i) == i \in DOMAIN s /\ i \in DOMAIN t /\ s[i] = t[i]
             D == {i \in DOMAIN s \cup DOMAIN t : ~Same(i)}
  <1>1. /\ DOMAIN s = 1..Len(s) /\ DOMAIN t = 1..Len(t)
        /\ Len(s) \in Nat /\ Len(t) \in Nat
        /\ \A k \in 1..Len(s) : s[k] \in Nat
        /\ \A k \in 1..Len(t) : t[k] \in Nat
    OBVIOUS
  <1>2. D # {}
    <2> SUFFICES ASSUME D = {} PROVE FALSE
      OBVIOUS
    <2>1. \A i \in DOMAIN s \cup DOMAIN t : Same(i)
      OBVIOUS
    <2>2. DOMAIN s = DOMAIN t /\ \A i \in DOMAIN s : s[i] = t[i]
      BY <2>1
    <2>3. Len(s) = Len(t)
      <3>1. Len(s) \in Nat /\ Len(t) \in Nat /\ 1..Len(s) = 1..Len(t)
        BY <1>1, <2>2
      <3> QED
        BY <3>1
    <2>4. \A i \in 1..Len(s) : s[i] = t[i]
      BY <1>1, <2>2
    <2> QED
      BY <2>3, <2>4, SeqEqual
  <1>3. D \in SUBSET Nat
    BY <1>1
  <1>4. PICK m \in D : \A k \in D : m <= k
    <2> HIDE DEF D
    <2> QED
      BY <1>2, <1>3, LeastExists
  <1>5. ASSUME NEW k \in 1..(m - 1) PROVE Same(k)
    <2>1. k \in DOMAIN s \cup DOMAIN t /\ k < m
      BY <1>1, <1>3, <1>4
    <2> QED
      BY <1>3, <1>4, <2>1
  <1>6. CASE m \in DOMAIN s /\ m \in DOMAIN t
    <2>1. s[m] < t[m] \/ t[m] < s[m]
      BY <1>1, <1>4, <1>6
    <2> QED
      BY <1>5, <1>6, <2>1 DEF Before
  <1>7. CASE m \notin DOMAIN s
    BY <1>4, <1>5, <1>7 DEF Before
  <1>8. CASE m \notin DOMAIN t
    BY <1>4, <1>5, <1>8 DEF Before
  <1> QED
    BY <1>6, <1>7, <1>8

(* What is not before is at most; and that is transitive as well. *)
LEMMA AtMostTransitive ==
  ASSUME NEW s \in Seq(Nat), NEW t \in Seq(Nat), NEW u \in Seq(Nat), ~Before(t, s), ~Before(u, t)
  PROVE  ~Before(u, s)
  BY BeforeTotal, BeforeTransitive

(* Of two sequences, at most one comes before the other. *)
LEMMA BeforeAsymmetric ==
  ASSUME NEW s \in Seq(Nat), NEW t \in Seq(Nat), Before(s, t)
  PROVE  ~Before(t, s)
  BY BeforeTransitive, BeforeIrreflexive

(* A finite set of sequences of numbers has a first one. *)
LEMMA FirstExists ==
  ASSUME NEW T \in SUBSET Seq(Nat), IsFiniteSet(T), T # {}
  PROVE  \E m \in T : \A k \in T : ~Before(k, m)
  <1> DEFINE First(U) == \E m \in U : \A k \in U : ~Before(k, m)
             K == {n \in Nat : \A U \in SUBSET Seq(Nat) :
                     IsFiniteSet(U) /\ Cardinality(U) = n /\ U # {} => First(U)}
  <1>1. 0 \in K
    BY FS_EmptySet
  <1>2. ASSUME NEW n \in Nat, n \in K PROVE n + 1 \in K
    <2> HIDE DEF First
    <2> SUFFICES ASSUME NEW U \in SUBSET Seq(Nat), IsFiniteSet(U), Cardinality(U) = n + 1, U # {}
                 PROVE  First(U)
      OBVIOUS
    <2> USE DEF First
    <2>1. PICK x \in U : TRUE
      OBVIOUS
    <2> DEFINE V == U \ {x}
    <2>0. IsFiniteSet(V) /\ Cardinality(V) = Cardinality(U) - 1
      BY <2>1, FS_RemoveElement
    <2>2. IsFiniteSet(V) /\ Cardinality(V) = n /\ V \in SUBSET Seq(Nat)
      BY <2>0
    <2>3. CASE V = {}
      BY <2>1, <2>3, BeforeIrreflexive
    <2>4. CASE V # {}
      <3>1. PICK m \in V : \A k \in V : ~Before(k, m)
        BY <1>2, <2>2, <2>4
      <3>2. CASE Before(x, m)
        <4>1. \A k \in V : ~Before(k, x)
          BY <2>2, <3>1, <3>2, BeforeTransitive
        <4> QED
          BY <2>1, <4>1, BeforeIrreflexive
      <3>3. CASE ~Before(x, m)
        BY <3>1, <3>3
      <3> QED
        BY <3>2, <3>3
    <2> QED
      BY <2>3, <2>4
  <1>3. Cardinality(T) \in K
    <2> HIDE DEF K
    <2> QED
      BY <1>1, <1>2, SetInduction, FS_CardinalityType
  <1> QED
    BY <1>3
--------------------------------------------------------------------------------
(* The edges of a graph, and what a path adds up. *)

(* The nodes are positive numbers, the edges join them, and no path is None. *)
LEMMA EdgeEnds ==
  ASSUME Graph
  PROVE  /\ nodes \subseteq Nat \ {0} /\ IsFiniteSet(nodes) /\ target \in nodes
         /\ edges \subseteq Connections \cup ScopeEdges
         /\ \A e \in edges : e.from \in nodes /\ e.to \in nodes
         /\ None \notin Seq(edges)
  <1>1. nodes \subseteq Node /\ target \in nodes /\ edges \subseteq Connections \cup ScopeEdges
        /\ \A e \in edges : {e.from, e.to} \subseteq nodes
    BY DEF Graph
  <1>2. IsFiniteSet(nodes)
    BY <1>1, NodeAssumption, FS_Subset
  <1>3. None \notin Seq(edges)
    <2> DEFINE all == Connections \cup ScopeEdges
    <2> HIDE DEF all
    <2>1. edges \subseteq all /\ None \notin Seq(all)
      BY <1>1, NoneIsNoPath DEF all
    <2> QED
      BY <2>1, SeqMonotonic
  <1> QED
    BY <1>1, <1>2, <1>3, NodeAssumption

(* The edges are finitely many: two of one kind between the same nodes are one. *)
LEMMA EdgesFinite ==
  ASSUME Graph
  PROVE  IsFiniteSet(edges)
  <1> DEFINE kinds == {"relation", "scope"}
             T == nodes \X (nodes \X kinds)
             f == [e \in edges |-> <<e.from, <<e.to, e.kind>>>>]
  <1>1. IsFiniteSet(kinds)
    <2>1. IsFiniteSet({"relation"} \cup {"scope"})
      BY FS_Singleton, FS_Union
    <2>2. kinds = {"relation"} \cup {"scope"}
      OBVIOUS
    <2> QED
      BY <2>1, <2>2
  <1>2. IsFiniteSet(T)
    <2>1. IsFiniteSet(nodes \X kinds)
      BY <1>1, EdgeEnds, FS_Product
    <2> QED
      BY <2>1, EdgeEnds, FS_Product
  <1>3. \A e \in edges : e.kind \in kinds
    BY EdgeEnds DEF Connections, ScopeEdges
  <1>4. f \in Injection(edges, T)
    <2>1. f \in [edges -> T]
      BY <1>3, EdgeEnds
    <2>2. ASSUME NEW d \in edges, NEW e \in edges, f[d] = f[e] PROVE d = e
      <3>1. d.from = e.from /\ d.to = e.to /\ d.kind = e.kind
        BY <2>2
      <3> QED
        BY <3>1 DEF Graph
    <2> HIDE DEF f, T
    <2> QED
      BY <2>1, <2>2 DEF Injection, IsInjective
  <1> HIDE DEF f, T
  <1> QED
    BY <1>2, <1>4, FS_Injection

(* A count of the places of a sequence, when the sequence gets longer by one. *)
LEMMA PlacesAppend ==
  ASSUME NEW n \in Nat, NEW P, NEW Q, P \subseteq 1..n,
         NEW here \in BOOLEAN, Q = IF here THEN P \cup {n + 1} ELSE P
  PROVE  /\ Cardinality(P) \in Nat
         /\ Cardinality(Q) = Cardinality(P) + IF here THEN 1 ELSE 0
  <1>1. IsFiniteSet(P)
    <2>1. IsFiniteSet(1..n)
      BY FS_Interval
    <2> QED
      BY <2>1, FS_Subset
  <1>2. Cardinality(P) \in Nat
    BY <1>1, FS_CardinalityType
  <1>3. n + 1 \notin P
    OBVIOUS
  <1> QED
    BY <1>1, <1>2, <1>3, FS_AddElement

(* An edge counts as a connection, and as a step of the distance. *)
Distant(e) == isRelation(e) /\ type[e.to] \in {"job", "job_network"}
IDs(e) == IF isRelation(e) THEN <<e.from, e.to>> ELSE <<>>

(* How an edge changes what is counted along a path. *)
LEMMA CountsAppend ==
  ASSUME NEW p \in Seq(edges), NEW e \in edges
  PROVE  /\ graphDepth(p) \in Nat /\ dependencyDistance(p) \in Nat
         /\ graphDepth(Append(p, e)) = graphDepth(p) + IF isRelation(e) THEN 1 ELSE 0
         /\ dependencyDistance(Append(p, e))
              = dependencyDistance(p) + IF Distant(e) THEN 1 ELSE 0
  <1> DEFINE n == Len(p)
             q == Append(p, e)
             Places(r) == {i \in DOMAIN r : isRelation(r[i])}
             Far(r) == {i \in DOMAIN r : isRelation(r[i]) /\ type[r[i].to] \in {"job", "job_network"}}
  <1>1. n \in Nat /\ DOMAIN p = 1..n /\ q \in Seq(edges) /\ Len(q) = n + 1
    BY LenProperties, AppendProperties
  <1>2. DOMAIN q = 1..(n + 1) /\ q[n + 1] = e /\ \A i \in 1..n : q[i] = p[i]
    BY <1>1, LenProperties, AppendProperties
  <1> HIDE DEF q
  <1>3. Places(p) \subseteq 1..n /\ Far(p) \subseteq 1..n
    BY <1>1
  <1>4. isRelation(e) \in BOOLEAN /\ Distant(e) \in BOOLEAN
    BY DEF isRelation, Distant
  <1>5. Places(q) = IF isRelation(e) THEN Places(p) \cup {n + 1} ELSE Places(p)
    BY <1>1, <1>2
  <1>6. Far(q) = IF Distant(e) THEN Far(p) \cup {n + 1} ELSE Far(p)
    BY <1>1, <1>2 DEF Distant
  <1>7. /\ graphDepth(p) = Cardinality(Places(p)) /\ graphDepth(q) = Cardinality(Places(q))
        /\ dependencyDistance(p) = Cardinality(Far(p))
        /\ dependencyDistance(q) = Cardinality(Far(q))
    BY DEF graphDepth, dependencyDistance
  <1> HIDE DEF Places, Far, n
  <1>8. /\ Cardinality(Places(p)) \in Nat
        /\ Cardinality(Places(q)) = Cardinality(Places(p)) + IF isRelation(e) THEN 1 ELSE 0
    BY <1>1, <1>3, <1>4, <1>5, PlacesAppend
  <1>9. /\ Cardinality(Far(p)) \in Nat
        /\ Cardinality(Far(q)) = Cardinality(Far(p)) + IF Distant(e) THEN 1 ELSE 0
    BY <1>1, <1>3, <1>4, <1>6, PlacesAppend
  <1> QED
    BY <1>7, <1>8, <1>9 DEF q

(* Nothing is counted along the empty path. *)
LEMMA CountsEmpty ==
  graphDepth(<<>>) = 0 /\ dependencyDistance(<<>>) = 0 /\ RelationIDs(<<>>) = <<>>
  <1>1. graphDepth(<<>>) = 0
    BY FS_EmptySet DEF graphDepth
  <1>2. dependencyDistance(<<>>) = 0
    BY FS_EmptySet DEF dependencyDistance
  <1>3. RelationIDs(<<>>) = <<>>
    <2>1. [i \in DOMAIN <<>> |-> IDs(<<>>[i])] = <<>>
      OBVIOUS
    <2>2. RelationIDs(<<>>) = FlattenSeq([i \in DOMAIN <<>> |-> IDs(<<>>[i])])
      BY Zenon DEF RelationIDs, IDs
    <2>3. FlattenSeq(<<>>) = <<>>
      <3>1. Len(<<>>) = 0
        OBVIOUS
      <3> QED
        BY <3>1, Zenon DEF FlattenSeq
    <2> QED
      BY <2>1, <2>2, <2>3
  <1> QED
    BY <1>1, <1>2, <1>3

(* An edge adds its IDs at the end. *)
LEMMA RelationIDsAppend ==
  ASSUME Graph, NEW p \in Seq(edges), NEW e \in edges
  PROVE  RelationIDs(Append(p, e)) = RelationIDs(p) \o IDs(e) /\ IDs(e) \in Seq(Nat)
  <1> DEFINE pieces(r) == [i \in DOMAIN r |-> IDs(r[i])]
             n == Len(p)
             q == Append(p, e)
  <1>1. \A d \in edges : IDs(d) \in Seq(Nat)
    BY EdgeEnds DEF IDs
  <1>2. n \in Nat /\ DOMAIN p = 1..n /\ q \in Seq(edges) /\ Len(q) = n + 1
    BY LenProperties, AppendProperties
  <1>3. DOMAIN q = 1..(n + 1) /\ q[n + 1] = e /\ \A i \in 1..n : q[i] = p[i] /\ p[i] \in edges
    BY <1>2, LenProperties, AppendProperties
  <1> HIDE DEF q
  <1>4. pieces(p) \in Seq(Seq(Nat)) /\ Len(pieces(p)) = n
    BY <1>1, <1>2, <1>3
  <1>5. pieces(q) = Append(pieces(p), IDs(e))
    <2>1. pieces(q) \in Seq(Seq(Nat)) /\ Len(pieces(q)) = n + 1
      BY <1>1, <1>2, <1>3
    <2> DEFINE r == Append(pieces(p), IDs(e))
    <2>2. r \in Seq(Seq(Nat)) /\ Len(r) = n + 1
      BY <1>1, <1>4, AppendProperties
    <2>3. r[n + 1] = IDs(e) /\ \A i \in 1..n : r[i] = pieces(p)[i]
      BY <1>1, <1>4, AppendProperties
    <2>4. ASSUME NEW i \in 1..(n + 1) PROVE pieces(q)[i] = r[i]
      <3>1. CASE i = n + 1
        BY <1>2, <1>3, <2>3, <3>1
      <3>2. CASE i \in 1..n
        BY <1>2, <1>3, <2>3, <3>2
      <3> QED
        BY <1>2, <3>1, <3>2
    <2> HIDE DEF r, pieces
    <2> QED
      BY <2>1, <2>2, <2>4, SeqEqual DEF r
  <1>6. RelationIDs(p) = FlattenSeq(pieces(p)) /\ RelationIDs(q) = FlattenSeq(pieces(q))
    BY Zenon DEF RelationIDs, IDs
  <1> HIDE DEF pieces
  <1>7. FlattenSeq(pieces(q)) = FlattenSeq(pieces(p)) \o IDs(e)
    BY <1>1, <1>4, <1>5, FlattenAppend
  <1> QED
    BY <1>1, <1>6, <1>7 DEF q

(* Each connection has two relation IDs: a path's IDs are as many as its depth says. *)
LEMMA RelationIDsType ==
  ASSUME Graph, NEW p \in Seq(edges)
  PROVE  RelationIDs(p) \in Seq(Nat) /\ Len(RelationIDs(p)) = 2 * graphDepth(p)
         /\ graphDepth(p) \in Nat /\ dependencyDistance(p) \in Nat
  <1> DEFINE Fine(q) == /\ RelationIDs(q) \in Seq(Nat)
                        /\ Len(RelationIDs(q)) = 2 * graphDepth(q)
                        /\ graphDepth(q) \in Nat /\ dependencyDistance(q) \in Nat
             K == {k \in Nat : \A q \in Seq(edges) : Len(q) = k => Fine(q)}
  <1>1. 0 \in K
    <2> SUFFICES ASSUME NEW q \in Seq(edges), Len(q) = 0 PROVE Fine(q)
      OBVIOUS
    <2>1. q = <<>>
      BY EmptySeq
    <2>2. RelationIDs(q) = <<>> /\ graphDepth(q) = 0 /\ dependencyDistance(q) = 0
      BY <2>1, CountsEmpty
    <2>3. <<>> \in Seq(Nat) /\ Len(<<>>) = 2 * 0
      OBVIOUS
    <2> QED
      BY <2>2, <2>3
  <1>2. ASSUME NEW k \in Nat, k \in K PROVE k + 1 \in K
    <2> HIDE DEF Fine
    <2> SUFFICES ASSUME NEW q \in Seq(edges), Len(q) = k + 1 PROVE Fine(q)
      OBVIOUS
    <2>1. q # <<>>
      OBVIOUS
    <2>2. PICK r \in Seq(edges), e \in edges : q = Append(r, e)
      BY <2>1, SequenceEmptyOrAppend
    <2>3. Len(r) = k
      BY <2>2, AppendProperties, LenProperties
    <2>4. Fine(r)
      BY <1>2, <2>3
    <2>5. RelationIDs(q) = RelationIDs(r) \o IDs(e) /\ IDs(e) \in Seq(Nat)
      BY <2>2, RelationIDsAppend
    <2>6. Len(IDs(e)) = IF isRelation(e) THEN 2 ELSE 0
      BY DEF IDs
    <2>7. /\ graphDepth(q) = graphDepth(r) + (IF isRelation(e) THEN 1 ELSE 0)
          /\ dependencyDistance(q) = dependencyDistance(r) + IF Distant(e) THEN 1 ELSE 0
      BY <2>2, CountsAppend
    <2>8. RelationIDs(q) \in Seq(Nat) /\ Len(RelationIDs(q)) = Len(RelationIDs(r)) + Len(IDs(e))
      BY <2>4, <2>5, ConcatProperties DEF Fine
    <2>9. /\ graphDepth(r) \in Nat /\ dependencyDistance(r) \in Nat
          /\ Len(RelationIDs(r)) = 2 * graphDepth(r)
      BY <2>4 DEF Fine
    <2>10. graphDepth(q) \in Nat /\ dependencyDistance(q) \in Nat
      BY <2>7, <2>9
    <2>11. Len(RelationIDs(q)) = 2 * graphDepth(q)
      <3>1. CASE isRelation(e)
        BY <2>6, <2>7, <2>8, <2>9, <3>1
      <3>2. CASE ~isRelation(e)
        BY <2>6, <2>7, <2>8, <2>9, <3>2
      <3> QED
        BY <3>1, <3>2
    <2> QED
      BY <2>8, <2>10, <2>11 DEF Fine
  <1>3. Len(p) \in K
    <2> HIDE DEF K
    <2> QED
      BY <1>1, <1>2, SetInduction, LenProperties
  <1> QED
    BY <1>3

--------------------------------------------------------------------------------
(* The keys of paths. *)

(* Where the parts of a key are. *)
Shape(k, p) ==
  /\ Len(k) = Len(p) + 3 + Len(RelationIDs(p))
  /\ k[1] = dependencyDistance(p)
  /\ k[2] = graphDepth(p)
  /\ \A i \in 1..Len(p) : k[2 + i] = p[i].to
  /\ k[Len(p) + 3] = 0
  /\ \A j \in 1..Len(RelationIDs(p)) : k[Len(p) + 3 + j] = RelationIDs(p)[j]

(* The key of a path has the parts it is put together from. *)
LEMMA KeyShape ==
  ASSUME Graph, NEW p \in Seq(edges)
  PROVE  PathKey(p) \in Seq(Nat) /\ Shape(PathKey(p), p)
  <1> DEFINE a == <<dependencyDistance(p), graphDepth(p)>>
             b == NodeIDs(p)
             c == <<0>>
             d == RelationIDs(p)
             n == Len(p)
             ab == a \o b
             abc == ab \o c
             k == abc \o d
  <1>1. PathKey(p) = k
    BY DEF PathKey
  <1>2. a \in Seq(Nat) /\ Len(a) = 2 /\ a[1] = dependencyDistance(p) /\ a[2] = graphDepth(p)
    BY RelationIDsType
  <1>3. n \in Nat /\ b \in Seq(Nat) /\ Len(b) = n /\ \A i \in 1..n : b[i] = p[i].to
    BY EdgeEnds DEF NodeIDs
  <1>4. c \in Seq(Nat) /\ Len(c) = 1 /\ c[1] = 0
    OBVIOUS
  <1>5. d \in Seq(Nat) /\ Len(d) \in Nat
    BY RelationIDsType, LenProperties
  <1> HIDE DEF a, b, c, d, n
  <1>6. /\ ab \in Seq(Nat) /\ Len(ab) = 2 + n
        /\ \A i \in 1..(2 + n) : ab[i] = IF i <= 2 THEN a[i] ELSE b[i - 2]
    <2>1. /\ ab \in Seq(Nat) /\ Len(ab) = Len(a) + Len(b)
          /\ \A i \in 1..(Len(a) + Len(b)) : ab[i] = IF i <= Len(a) THEN a[i] ELSE b[i - Len(a)]
      BY <1>2, <1>3, ConcatProperties
    <2> HIDE DEF ab
    <2> QED
      BY <1>2, <1>3, <2>1
  <1> HIDE DEF ab
  <1>7. /\ abc \in Seq(Nat) /\ Len(abc) = 3 + n
        /\ \A i \in 1..(3 + n) : abc[i] = IF i <= 2 + n THEN ab[i] ELSE c[i - (2 + n)]
    <2>1. /\ abc \in Seq(Nat) /\ Len(abc) = Len(ab) + Len(c)
          /\ \A i \in 1..(Len(ab) + Len(c)) :
               abc[i] = IF i <= Len(ab) THEN ab[i] ELSE c[i - Len(ab)]
      BY <1>4, <1>6, ConcatProperties
    <2> HIDE DEF abc
    <2>2. Len(ab) + Len(c) = 3 + n
      BY <1>3, <1>4, <1>6
    <2> QED
      BY <1>6, <2>1, <2>2
  <1> HIDE DEF abc
  <1>8. /\ k \in Seq(Nat) /\ Len(k) = 3 + n + Len(d)
        /\ \A i \in 1..(3 + n + Len(d)) : k[i] = IF i <= 3 + n THEN abc[i] ELSE d[i - (3 + n)]
    BY <1>5, <1>7, ConcatProperties
  <1> HIDE DEF k
  <1>9. k[1] = dependencyDistance(p) /\ k[2] = graphDepth(p)
    BY <1>2, <1>3, <1>5, <1>6, <1>7, <1>8
  <1>10. ASSUME NEW i \in 1..n PROVE k[2 + i] = p[i].to
    <2>1. 2 + i \in 1..(2 + n) /\ (2 + i) - 2 = i /\ ~(2 + i <= 2)
      BY <1>3
    <2>2. ab[2 + i] = b[i]
      BY <1>6, <2>1
    <2>3. 2 + i \in 1..(3 + n) /\ 2 + i <= 2 + n
      BY <1>3
    <2>4. abc[2 + i] = ab[2 + i]
      BY <1>7, <2>3
    <2>5. 2 + i \in 1..(3 + n + Len(d)) /\ 2 + i <= 3 + n
      BY <1>3, <1>5
    <2> QED
      BY <1>3, <1>8, <2>2, <2>4, <2>5
  <1>11. k[n + 3] = 0
    <2>1. n + 3 \in 1..(3 + n) /\ ~(n + 3 <= 2 + n) /\ (n + 3) - (2 + n) = 1
      BY <1>3
    <2>2. abc[n + 3] = 0
      BY <1>4, <1>7, <2>1
    <2>3. n + 3 \in 1..(3 + n + Len(d)) /\ n + 3 <= 3 + n
      BY <1>3, <1>5
    <2> QED
      BY <1>8, <2>2, <2>3
  <1>12. ASSUME NEW j \in 1..Len(d) PROVE k[n + 3 + j] = d[j]
    <2>1. /\ n + 3 + j \in 1..(3 + n + Len(d)) /\ ~(n + 3 + j <= 3 + n)
          /\ (n + 3 + j) - (3 + n) = j
      BY <1>3, <1>5
    <2> QED
      BY <1>8, <2>1
  <1>13. Len(k) = n + 3 + Len(d)
    BY <1>3, <1>5, <1>8
  <1> QED
    BY <1>1, <1>8, <1>9, <1>10, <1>11, <1>12, <1>13 DEF Shape, n, d

(* A path is before each one that goes on where it ends. *)
LEMMA LongerIsLater ==
  ASSUME Graph, NEW p \in Seq(edges), NEW e \in edges
  PROVE  lessPath(p, Append(p, e))
  <1> DEFINE n == Len(p)
             q == Append(p, e)
             k == PathKey(p)
             l == PathKey(q)
  <1>1. /\ n \in Nat /\ q \in Seq(edges) /\ Len(q) = n + 1
        /\ q[n + 1] = e /\ \A i \in 1..n : q[i] = p[i]
    BY LenProperties, AppendProperties
  <1>2. k \in Seq(Nat) /\ l \in Seq(Nat) /\ Shape(k, p) /\ Shape(l, q)
    BY <1>1, KeyShape
  <1>3. /\ dependencyDistance(p) \in Nat /\ graphDepth(p) \in Nat
        /\ Len(RelationIDs(p)) \in Nat /\ Len(RelationIDs(q)) \in Nat
    BY <1>1, RelationIDsType, LenProperties
  <1>4. /\ dependencyDistance(q) = dependencyDistance(p) + IF Distant(e) THEN 1 ELSE 0
        /\ graphDepth(q) = graphDepth(p) + IF isRelation(e) THEN 1 ELSE 0
    BY CountsAppend
  <1>5. e.to \in Nat \ {0}
    BY EdgeEnds
  <1> SUFFICES Before(k, l)
    BY DEF lessPath
  <1> HIDE DEF q, k, l, n
  <1>6. /\ DOMAIN k = 1..(n + 3 + Len(RelationIDs(p)))
        /\ DOMAIN l = 1..(n + 1 + 3 + Len(RelationIDs(q)))
    BY <1>1, <1>2, NumbersAt DEF Shape, n
  <1>7. k[1] = dependencyDistance(p) /\ k[2] = graphDepth(p) /\ k[n + 3] = 0
        /\ l[1] = dependencyDistance(q) /\ l[2] = graphDepth(q)
    BY <1>2 DEF Shape, n
  <1>8. \A i \in 1..n : k[2 + i] = l[2 + i]
    <2> SUFFICES ASSUME NEW i \in 1..n PROVE k[2 + i] = l[2 + i]
      OBVIOUS
    <2>1. k[2 + i] = p[i].to
      BY <1>2 DEF Shape, n
    <2>2. i \in 1..Len(q) /\ q[i] = p[i]
      BY <1>1
    <2>3. l[2 + i] = q[i].to
      BY <1>2, <2>2 DEF Shape
    <2> QED
      BY <2>1, <2>2, <2>3
  <1>9. l[n + 3] = e.to
    <2>1. n + 1 \in 1..Len(q) /\ 2 + (n + 1) = n + 3
      BY <1>1
    <2> QED
      BY <1>1, <1>2, <2>1 DEF Shape
  <1>10. 1 \in DOMAIN l /\ 2 \in DOMAIN l /\ n + 3 \in DOMAIN l /\ 1 \in DOMAIN k
    BY <1>1, <1>3, <1>6
  <1>11. CASE Distant(e)
    <2>1. k[1] < l[1]
      BY <1>3, <1>4, <1>7, <1>11
    <2> QED
      BY <1>10, <2>1 DEF Before
  <1>12. CASE ~Distant(e) /\ isRelation(e)
    <2>1. k[1] = l[1] /\ k[2] < l[2]
      BY <1>3, <1>4, <1>7, <1>12
    <2>2. \A j \in 1..(2 - 1) : j \in DOMAIN k /\ k[j] = l[j]
      BY <1>10, <2>1
    <2> QED
      BY <1>10, <2>1, <2>2 DEF Before
  <1>13. CASE ~Distant(e) /\ ~isRelation(e)
    <2>1. k[1] = l[1] /\ k[2] = l[2]
      BY <1>3, <1>4, <1>7, <1>13
    <2>2. ASSUME NEW j \in 1..((n + 3) - 1) PROVE j \in DOMAIN k /\ k[j] = l[j]
      <3>1. j \in DOMAIN k
        BY <1>1, <1>3, <1>6
      <3>2. CASE j \in 1..2
        BY <2>1, <3>1, <3>2
      <3>3. CASE j \notin 1..2
        <4>1. j - 2 \in 1..n /\ 2 + (j - 2) = j
          BY <1>1, <3>3
        <4> QED
          BY <1>8, <3>1, <4>1
      <3> QED
        BY <3>2, <3>3
    <2>3. k[n + 3] < l[n + 3]
      BY <1>5, <1>7, <1>9
    <2> QED
      BY <1>10, <2>2, <2>3 DEF Before
  <1> QED
    BY <1>11, <1>12, <1>13

(* Of two paths to the same node, the later one stays the later one when both go
   on by the same edge, provided that it meets no node twice. *)
LEMMA ExtensionKeepsOrder ==
  ASSUME Graph, NEW p \in Seq(edges), NEW q \in Seq(edges), NEW e \in edges, NEW E,
         IsPath(p, target, E), End(p) = End(q), lessPath(Append(p, e), Append(q, e))
  PROVE  lessPath(p, q)
  <1> DEFINE m == Len(p)
             n == Len(q)
             pe == Append(p, e)
             qe == Append(q, e)
             k == PathKey(p)
             l == PathKey(q)
             ke == PathKey(pe)
             le == PathKey(qe)
             rp == RelationIDs(p)
             rq == RelationIDs(q)
             re == IDs(e)
             a == Len(rp)
             b == Len(rq)
             c == Len(re)
             distance == IF Distant(e) THEN 1 ELSE 0
             depth == IF isRelation(e) THEN 1 ELSE 0
  <1>1. /\ m \in Nat /\ pe \in Seq(edges) /\ Len(pe) = m + 1 /\ pe[m + 1] = e
        /\ n \in Nat /\ qe \in Seq(edges) /\ Len(qe) = n + 1 /\ qe[n + 1] = e
    BY LenProperties, AppendProperties
  <1>2. (\A x \in 1..m : pe[x] = p[x]) /\ \A x \in 1..n : qe[x] = q[x]
    BY AppendProperties
  <1>3. /\ k \in Seq(Nat) /\ Shape(k, p) /\ ke \in Seq(Nat) /\ Shape(ke, pe)
        /\ l \in Seq(Nat) /\ Shape(l, q) /\ le \in Seq(Nat) /\ Shape(le, qe)
    BY <1>1, KeyShape
  <1>4. /\ rp \in Seq(Nat) /\ Len(rp) \in Nat /\ Len(rp) = 2 * graphDepth(p)
        /\ rq \in Seq(Nat) /\ Len(rq) \in Nat /\ Len(rq) = 2 * graphDepth(q)
        /\ graphDepth(p) \in Nat /\ dependencyDistance(p) \in Nat
        /\ graphDepth(q) \in Nat /\ dependencyDistance(q) \in Nat
    BY RelationIDsType, LenProperties
  <1>5. re \in Seq(Nat) /\ Len(re) \in Nat
        /\ RelationIDs(pe) = rp \o re /\ RelationIDs(qe) = rq \o re
    BY RelationIDsAppend, LenProperties
  <1>6. /\ Len(RelationIDs(pe)) = Len(rp) + Len(re)
        /\ \A x \in 1..(Len(rp) + Len(re)) :
             RelationIDs(pe)[x] = IF x <= Len(rp) THEN rp[x] ELSE re[x - Len(rp)]
    <2> HIDE DEF rp, re, pe
    <2>1. /\ Len(rp \o re) = Len(rp) + Len(re)
          /\ \A x \in 1..(Len(rp) + Len(re)) :
               (rp \o re)[x] = IF x <= Len(rp) THEN rp[x] ELSE re[x - Len(rp)]
      BY <1>4, <1>5, ConcatProperties
    <2> QED
      BY <1>5, <2>1
  <1>7. /\ Len(RelationIDs(qe)) = Len(rq) + Len(re)
        /\ \A x \in 1..(Len(rq) + Len(re)) :
             RelationIDs(qe)[x] = IF x <= Len(rq) THEN rq[x] ELSE re[x - Len(rq)]
    <2> HIDE DEF rq, re, qe
    <2>1. /\ Len(rq \o re) = Len(rq) + Len(re)
          /\ \A x \in 1..(Len(rq) + Len(re)) :
               (rq \o re)[x] = IF x <= Len(rq) THEN rq[x] ELSE re[x - Len(rq)]
      BY <1>4, <1>5, ConcatProperties
    <2> QED
      BY <1>5, <2>1
  <1>8. /\ dependencyDistance(pe) = dependencyDistance(p) + distance
        /\ dependencyDistance(qe) = dependencyDistance(q) + distance
        /\ graphDepth(pe) = graphDepth(p) + depth /\ graphDepth(qe) = graphDepth(q) + depth
    BY CountsAppend
  <1>9. distance \in Nat /\ depth \in Nat
    OBVIOUS
  <1>10. \A d \in edges : d.to \in Nat \ {0}
    BY EdgeEnds
  <1>11. Before(ke, le)
    BY DEF lessPath
  <1> SUFFICES Before(k, l)
    BY DEF lessPath
  <1> HIDE DEF pe, qe, k, l, ke, le, rp, rq, re, distance, depth, m, n, a, b, c
  <1>0. /\ m \in Nat /\ n \in Nat /\ a \in Nat /\ b \in Nat /\ c \in Nat
        /\ Len(pe) = m + 1 /\ Len(qe) = n + 1
        /\ Len(RelationIDs(pe)) = a + c /\ Len(RelationIDs(qe)) = b + c
    BY <1>1, <1>4, <1>5, <1>6, <1>7 DEF a, b, c
  <1>a. ASSUME NEW x \in 1..(a + c)
        PROVE  RelationIDs(pe)[x] = IF x <= a THEN rp[x] ELSE re[x - a]
    BY <1>6 DEF a, c
  <1>b. ASSUME NEW x \in 1..(b + c)
        PROVE  RelationIDs(qe)[x] = IF x <= b THEN rq[x] ELSE re[x - b]
    BY <1>7 DEF b, c
  <1>12. /\ DOMAIN k = 1..(m + 3 + a) /\ DOMAIN l = 1..(n + 3 + b)
    BY <1>3, NumbersAt DEF Shape, m, n, rp, rq, a, b
  <1>13. /\ DOMAIN ke = 1..(m + 4 + a + c)
         /\ DOMAIN le = 1..(n + 4 + b + c)
    <2>1. DOMAIN ke = 1..Len(ke) /\ DOMAIN le = 1..Len(le)
      BY <1>3, NumbersAt
    <2>2. Len(ke) = Len(pe) + 3 + Len(RelationIDs(pe))
          /\ Len(le) = Len(qe) + 3 + Len(RelationIDs(qe))
      BY <1>3 DEF Shape
    <2>3. Len(ke) = m + 4 + a + c /\ Len(le) = n + 4 + b + c
      BY <1>0, <2>2
    <2> QED
      BY <2>1, <2>3
  <1>14. /\ k[1] = dependencyDistance(p) /\ k[2] = graphDepth(p)
         /\ l[1] = dependencyDistance(q) /\ l[2] = graphDepth(q)
         /\ ke[1] = k[1] + distance /\ ke[2] = k[2] + depth
         /\ le[1] = l[1] + distance /\ le[2] = l[2] + depth
    BY <1>3, <1>8 DEF Shape
  <1>15. ASSUME NEW x \in 1..m PROVE k[2 + x] = p[x].to /\ ke[2 + x] = p[x].to
    <2>1. x \in 1..Len(pe) /\ pe[x] = p[x]
      BY <1>1, <1>2
    <2> QED
      BY <1>3, <2>1 DEF Shape, m
  <1>16. ASSUME NEW x \in 1..n PROVE l[2 + x] = q[x].to /\ le[2 + x] = q[x].to
    <2>1. x \in 1..Len(qe) /\ qe[x] = q[x]
      BY <1>1, <1>2
    <2> QED
      BY <1>3, <2>1 DEF Shape, n
  <1>17. k[m + 3] = 0 /\ l[n + 3] = 0
    BY <1>3 DEF Shape, m, n
  <1>18. ke[m + 3] = e.to /\ le[n + 3] = e.to /\ ke[m + 4] = 0 /\ le[n + 4] = 0
    <2>1. m + 1 \in 1..Len(pe) /\ 2 + (m + 1) = m + 3 /\ Len(pe) + 3 = m + 4
      BY <1>1
    <2>2. n + 1 \in 1..Len(qe) /\ 2 + (n + 1) = n + 3 /\ Len(qe) + 3 = n + 4
      BY <1>1
    <2>3. ke[m + 3] = e.to /\ ke[m + 4] = 0
      BY <1>1, <1>3, <2>1 DEF Shape
    <2>4. le[n + 3] = e.to /\ le[n + 4] = 0
      BY <1>1, <1>3, <2>2 DEF Shape
    <2> QED
      BY <2>3, <2>4
  <1>19. ASSUME NEW x \in 1..a PROVE k[m + 3 + x] = rp[x] /\ ke[m + 4 + x] = rp[x]
    <2>1. k[m + 3 + x] = rp[x]
      BY <1>3 DEF Shape, m, rp, a
    <2>2. /\ x \in 1..Len(RelationIDs(pe)) /\ Len(pe) + 3 + x = m + 4 + x
          /\ RelationIDs(pe)[x] = rp[x]
      BY <1>0, <1>a
    <2> QED
      BY <1>3, <2>1, <2>2 DEF Shape
  <1>20. ASSUME NEW x \in 1..b PROVE l[n + 3 + x] = rq[x] /\ le[n + 4 + x] = rq[x]
    <2>1. l[n + 3 + x] = rq[x]
      BY <1>3 DEF Shape, n, rq, b
    <2>2. /\ x \in 1..Len(RelationIDs(qe)) /\ Len(qe) + 3 + x = n + 4 + x
          /\ RelationIDs(qe)[x] = rq[x]
      BY <1>0, <1>b
    <2> QED
      BY <1>3, <2>1, <2>2 DEF Shape
  <1>21. ASSUME NEW x \in (a + 1)..(a + c)
         PROVE  ke[m + 4 + x] = re[x - a]
    <2>1. /\ x \in 1..Len(RelationIDs(pe)) /\ Len(pe) + 3 + x = m + 4 + x
          /\ RelationIDs(pe)[x] = re[x - a]
      BY <1>0, <1>a
    <2> QED
      BY <1>3, <2>1 DEF Shape
  <1>22. ASSUME NEW x \in (b + 1)..(b + c)
         PROVE  le[n + 4 + x] = re[x - b]
    <2>1. /\ x \in 1..Len(RelationIDs(qe)) /\ Len(qe) + 3 + x = n + 4 + x
          /\ RelationIDs(qe)[x] = re[x - b]
      BY <1>0, <1>b
    <2> QED
      BY <1>3, <2>1 DEF Shape
  <1>23. PICK i \in DOMAIN le : /\ \A j \in 1..(i - 1) : j \in DOMAIN ke /\ ke[j] = le[j]
                                /\ i \in DOMAIN ke => ke[i] < le[i]
    BY <1>11 DEF Before
  <1>24. i \in Nat /\ i >= 1 /\ i <= n + 4 + b + c
    BY <1>0, <1>13, <1>23
  <1>25. 1 \in DOMAIN k /\ 2 \in DOMAIN k /\ 1 \in DOMAIN l /\ 2 \in DOMAIN l
         /\ 1 \in DOMAIN ke /\ 2 \in DOMAIN ke
    BY <1>0, <1>12, <1>13
  <1>26. CASE i = 1
    <2>1. k[1] < l[1]
      BY <1>4, <1>9, <1>14, <1>23, <1>25, <1>26
    <2> QED
      BY <1>25, <2>1 DEF Before
  <1>27. CASE i = 2
    <2>0. ke[1] = le[1] /\ ke[2] < le[2]
      BY <1>23, <1>25, <1>27
    <2>1. k[1] = l[1] /\ k[2] < l[2]
      BY <1>4, <1>9, <1>14, <2>0
    <2>2. \A j \in 1..(2 - 1) : j \in DOMAIN k /\ k[j] = l[j]
      BY <1>25, <2>1
    <2> QED
      BY <1>25, <2>1, <2>2 DEF Before
  <1>28. CASE i > 2
    <2>1. ke[1] = le[1] /\ ke[2] = le[2]
      BY <1>23, <1>24, <1>28
    <2>2. k[1] = l[1] /\ k[2] = l[2] /\ a = b
      BY <1>4, <1>9, <1>14, <2>1 DEF a, b
    <2>3. ASSUME NEW j \in 1..(i - 1), j <= m + 2, j <= n + 2
          PROVE  j \in DOMAIN k /\ k[j] = l[j]
      <3>1. j \in DOMAIN k
        BY <1>0, <1>12, <1>24, <2>3
      <3>2. CASE j \in 1..2
        BY <2>2, <3>1, <3>2
      <3>3. CASE j \notin 1..2
        <4>1. j - 2 \in 1..m /\ j - 2 \in 1..n /\ 2 + (j - 2) = j
          BY <1>0, <1>24, <2>3, <3>3
        <4>2. k[j] = ke[j] /\ l[j] = le[j]
          BY <1>15, <1>16, <4>1
        <4> QED
          BY <1>23, <3>1, <4>2
      <3> QED
        BY <3>2, <3>3
    <2>4. CASE i <= m + 2 /\ i <= n + 2
      <3>1. i - 2 \in 1..m /\ i - 2 \in 1..n /\ 2 + (i - 2) = i
        BY <1>0, <1>24, <1>28, <2>4
      <3>2. k[i] = ke[i] /\ l[i] = le[i]
        BY <1>15, <1>16, <3>1
      <3>3. i \in DOMAIN ke /\ i \in DOMAIN l
        BY <1>0, <1>12, <1>13, <1>24, <2>4
      <3>4. \A j \in 1..(i - 1) : j <= m + 2 /\ j <= n + 2
        BY <1>0, <1>24, <2>4
      <3> QED
        BY <1>23, <2>3, <3>2, <3>3, <3>4 DEF Before
    <2>5. CASE m < n /\ i > m + 2
      <3>1. m + 3 \in DOMAIN l
        BY <1>0, <1>12, <2>5
      <3>2. \A j \in 1..((m + 3) - 1) : j \in 1..(i - 1) /\ j <= m + 2 /\ j <= n + 2
        BY <1>0, <1>24, <2>5
      <3>3. k[m + 3] < l[m + 3]
        <4>1. m + 1 \in 1..n /\ 2 + (m + 1) = m + 3
          BY <1>0, <2>5
        <4>2. q[m + 1] \in edges
          BY <4>1, ElementOfSeq DEF n
        <4>3. l[m + 3] = q[m + 1].to
          BY <1>16, <4>1
        <4> QED
          BY <1>10, <1>17, <4>2, <4>3
      <3> QED
        BY <2>3, <3>1, <3>2, <3>3 DEF Before
    <2>6. CASE n < m /\ i > n + 2
      <3>1. m \in DOMAIN p /\ p # <<>> /\ End(p) = p[m].to
        BY <1>0, <2>6, LenProperties, EmptySeq DEF End, Last, m
      <3>2. p[m].to # target /\ \A j \in 1..(m - 1) : p[j].to # p[m].to
        BY <3>1 DEF IsPath
      <3>3. CASE n = 0
        <4>1. End(q) = target
          BY <3>3, EmptySeq DEF End, n
        <4> QED
          BY <3>1, <3>2, <4>1
      <3>4. CASE n # 0
        <4>1. q # <<>> /\ End(q) = q[n].to
          BY <1>0, <3>4, EmptySeq DEF End, Last, n
        <4>2. /\ n \in 1..m /\ n \in 1..n /\ n \in 1..(m - 1)
              /\ 2 + n \in 1..(i - 1) /\ 2 + n <= m + 2 /\ 2 + n <= n + 2
          BY <1>0, <1>24, <2>6, <3>4
        <4>3. p[n].to = q[n].to
          BY <1>15, <1>16, <2>3, <4>2
        <4> QED
          BY <3>1, <3>2, <4>1, <4>2, <4>3
      <3> QED
        BY <3>3, <3>4
    <2>7. CASE m = n /\ i > m + 2
      <3>1. DOMAIN ke = DOMAIN le
        BY <1>13, <2>2, <2>7
      <3>2. ke[i] < le[i]
        BY <1>23, <3>1
      <3>3. i # m + 3 /\ i # m + 4
        BY <1>10, <1>18, <2>7, <3>2
      <3> DEFINE x == i - (m + 4)
      <3>4. x \in 1..(a + c) /\ m + 4 + x = i
        BY <1>0, <1>24, <2>2, <2>7, <3>3
      <3>5. CASE x > a
        <4>1. x \in (a + 1)..(a + c)
          BY <1>0, <3>4, <3>5
        <4>2. ke[i] = re[x - a] /\ le[i] = re[x - a]
          BY <1>21, <1>22, <2>2, <2>7, <3>4, <4>1
        <4>3. x - a \in 1..c
          BY <1>0, <4>1
        <4>4. re[x - a] \in Nat
          BY <1>5, <4>3, NumbersAt DEF c
        <4> QED
          BY <3>2, <4>2, <4>4
      <3>6. CASE x <= a
        <4>1. x \in 1..a /\ m + 3 + x = i - 1
          BY <1>0, <3>4, <3>6
        <4>2. k[i - 1] = ke[i] /\ l[i - 1] = le[i]
          <5> HIDE DEF x
          <5>1. k[m + 3 + x] = ke[m + 4 + x]
            BY <1>19, <4>1
          <5>2. l[n + 3 + x] = le[n + 4 + x]
            BY <1>20, <2>2, <4>1
          <5> QED
            BY <2>7, <3>4, <4>1, <5>1, <5>2
        <4>3. i - 1 \in DOMAIN l
          BY <1>0, <1>12, <1>24, <2>2, <2>7, <3>4, <3>6
        <4>4. ASSUME NEW j \in 1..((i - 1) - 1) PROVE j \in DOMAIN k /\ k[j] = l[j]
          <5>0. j \in 1..(i - 1) /\ j + 1 \in 1..(i - 1)
            BY <1>24
          <5>1. CASE j <= m + 2
            BY <2>3, <2>7, <5>0, <5>1
          <5>2. CASE j = m + 3
            <6>1. j \in DOMAIN k
              BY <1>0, <1>12, <5>2
            <6> QED
              BY <1>17, <2>7, <5>2, <6>1
          <5>3. CASE j > m + 3
            <6> DEFINE y == j - (m + 3)
            <6>1. y \in 1..a /\ m + 3 + y = j /\ m + 4 + y = j + 1
              BY <1>0, <1>24, <3>4, <3>6, <5>3
            <6> HIDE DEF y
            <6>2. k[j] = ke[j + 1] /\ l[j] = le[j + 1]
              <7>1. k[m + 3 + y] = ke[m + 4 + y]
                BY <1>19, <6>1
              <7>2. l[n + 3 + y] = le[n + 4 + y]
                BY <1>20, <2>2, <6>1
              <7> QED
                BY <2>7, <6>1, <7>1, <7>2
            <6>3. j \in DOMAIN k
              BY <1>0, <1>12, <6>1
            <6> QED
              BY <1>23, <5>0, <6>2, <6>3
          <5> QED
            BY <1>0, <5>1, <5>2, <5>3
        <4> QED
          BY <3>2, <4>2, <4>3, <4>4 DEF Before
      <3> QED
        BY <1>0, <3>4, <3>5, <3>6
    <2> QED
      BY <1>0, <1>24, <2>4, <2>5, <2>6, <2>7
  <1> QED
    BY <1>24, <1>26, <1>27, <1>28

(* LeastPath picks a path that no other is before. *)
LEMMA LeastPathIsLeast ==
  ASSUME Graph, NEW S \in SUBSET Seq(edges), IsFiniteSet(S), S # {}
  PROVE  LeastPath(S) \in S /\ \A q \in S : ~lessPath(q, LeastPath(S))
  <1> DEFINE keys == {PathKey(p) : p \in S}
             key == [p \in S |-> PathKey(p)]
             keyed == {[key |-> PathKey(p), path |-> p] : p \in S}
             First(k) == \A j \in keyed : ~Before(j.key, k.key)
             least == CHOOSE k \in keyed : First(k)
  <1>1. key \in Surjection(S, keys)
    BY DEF Surjection
  <1>2. IsFiniteSet(keys)
    <2> HIDE DEF keys, key
    <2> QED
      BY <1>1, FS_Surjection
  <1>3. keys \in SUBSET Seq(Nat) /\ keys # {}
    BY KeyShape
  <1>4. PICK m \in keys : \A k \in keys : ~Before(k, m)
    <2> HIDE DEF keys
    <2> QED
      BY <1>2, <1>3, FirstExists
  <1>5. \E k \in keyed : First(k)
    <2>1. PICK p \in S : m = PathKey(p)
      OBVIOUS
    <2>2. \A j \in keyed : j.key \in keys
      OBVIOUS
    <2> DEFINE r == [key |-> PathKey(p), path |-> p]
    <2>3. r \in keyed /\ r.key = m
      BY <2>1
    <2> HIDE DEF keyed, keys
    <2> QED
      BY <1>4, <2>2, <2>3
  <1>6. least \in keyed /\ First(least)
    <2> HIDE DEF keyed, First
    <2> QED
      BY <1>5
  <1>7. PICK p \in S : least = [key |-> PathKey(p), path |-> p]
    <2> HIDE DEF First, least
    <2> QED
      BY <1>6
  <1>8. LeastPath(S) = p
    <2>1. LeastPath(S) = least.path
      BY Zenon DEF LeastPath
    <2> HIDE DEF least
    <2> QED
      BY <1>7, <2>1
  <1>9. ASSUME NEW q \in S PROVE ~lessPath(q, p)
    <2> DEFINE r == [key |-> PathKey(q), path |-> q]
    <2>1. r \in keyed /\ r.key = PathKey(q)
      OBVIOUS
    <2>2. ~Before(r.key, least.key)
      <3> HIDE DEF keyed, least, r
      <3> QED
        BY <1>6, <2>1
    <2>3. least.key = PathKey(p)
      <3> HIDE DEF least
      <3> QED
        BY <1>7
    <2> HIDE DEF least
    <2> QED
      BY <2>1, <2>2, <2>3 DEF lessPath
  <1> HIDE DEF least
  <1> QED
    BY <1>8, <1>9

(* The order of paths, as the order of their keys. *)
LEMMA PathOrder ==
  ASSUME Graph
  PROVE  /\ \A p \in Seq(edges) : ~lessPath(p, p)
         /\ \A p, q \in Seq(edges) : lessPath(p, q) => ~lessPath(q, p)
         /\ \A p, q, r \in Seq(edges) : ~lessPath(q, p) /\ ~lessPath(r, q) => ~lessPath(r, p)
         /\ \A p, q, r \in Seq(edges) : lessPath(p, q) /\ ~lessPath(r, q) => lessPath(p, r)
  <1>1. \A p \in Seq(edges) : PathKey(p) \in Seq(Nat)
    BY KeyShape
  <1>2. ASSUME NEW p \in Seq(edges) PROVE ~lessPath(p, p)
    BY <1>1, BeforeIrreflexive DEF lessPath
  <1>3. ASSUME NEW p \in Seq(edges), NEW q \in Seq(edges), lessPath(p, q) PROVE ~lessPath(q, p)
    BY <1>1, <1>3, BeforeAsymmetric DEF lessPath
  <1>4. ASSUME NEW p \in Seq(edges), NEW q \in Seq(edges), NEW r \in Seq(edges),
               ~lessPath(q, p), ~lessPath(r, q)
        PROVE  ~lessPath(r, p)
    BY <1>1, <1>4, AtMostTransitive DEF lessPath
  <1>5. ASSUME NEW p \in Seq(edges), NEW q \in Seq(edges), NEW r \in Seq(edges),
               lessPath(p, q), ~lessPath(r, q)
        PROVE  lessPath(p, r)
    BY <1>1, <1>5, BeforeTotal, BeforeTransitive DEF lessPath
  <1> QED
    BY <1>2, <1>3, <1>4, <1>5

--------------------------------------------------------------------------------
(* Paths that meet no node twice. *)

Tip(p, m) == IF p = <<>> THEN m ELSE Last(p).to
Met(p, m) == {m} \cup {p[i].to : i \in DOMAIN p}

(* The empty path stays where it is. *)
LEMMA PathEmpty ==
  ASSUME NEW m, NEW E
  PROVE  IsPath(<<>>, m, E) /\ Tip(<<>>, m) = m
  BY DEF IsPath, Tip

(* A path leads where its last edge does. *)
LEMMA PathTip ==
  ASSUME NEW m, NEW E, NEW p \in Seq(E), NEW e \in E
  PROVE  Tip(Append(p, e), m) = e.to
  BY AppendProperties, LenProperties DEF Tip, Last

(* The beginning of a path is a path. *)
LEMMA PathPrefix ==
  ASSUME NEW m, NEW E, NEW p, IsPath(p, m, E), NEW k \in 0..Len(p)
  PROVE  /\ IsPath(Prefix(p, k), m, E)
         /\ Len(Prefix(p, k)) = k
         /\ Tip(Prefix(p, k), m) = IF k = 0 THEN m ELSE p[k].to
  <1> DEFINE r == Prefix(p, k)
  <1>1. p \in Seq(E) /\ Len(p) \in Nat /\ DOMAIN p = 1..Len(p) /\ \A i \in 1..Len(p) : p[i] \in E
    BY LenProperties, ElementOfSeq DEF IsPath
  <1>2. 1 \in Int /\ k \in Nat /\ \A i \in 1..k : p[i] \in E
    BY <1>1
  <1>3. /\ SubSeq(p, 1, k) \in Seq(E)
        /\ Len(SubSeq(p, 1, k)) = IF 1 <= k THEN k - 1 + 1 ELSE 0
        /\ \A i \in 1..(k - 1 + 1) : SubSeq(p, 1, k)[i] = p[1 + i - 1]
    BY <1>2, SubSeqProperties
  <1>4. r \in Seq(E) /\ Len(r) = k /\ \A i \in 1..k : r[i] = p[i]
    BY <1>2, <1>3 DEF Prefix
  <1>5. DOMAIN r = 1..k /\ 1..k \subseteq DOMAIN p
    BY <1>1, <1>4, LenProperties
  <1> HIDE DEF r
  <1>6. ASSUME NEW i \in 1..k
        PROVE  /\ r[i].from = IF i = 1 THEN m ELSE r[i - 1].to
               /\ r[i].to # m
               /\ \A j \in 1..(i - 1) : r[j].to # r[i].to
    <2>1. r[i] = p[i] /\ (i # 1 => r[i - 1] = p[i - 1]) /\ \A j \in 1..(i - 1) : r[j] = p[j]
      BY <1>2, <1>4
    <2>2. /\ p[i].from = IF i = 1 THEN m ELSE p[i - 1].to
          /\ p[i].to # m
          /\ \A j \in 1..(i - 1) : p[j].to # p[i].to
      BY <1>5 DEF IsPath
    <2> QED
      BY <2>1, <2>2
  <1>7. IsPath(r, m, E)
    BY <1>4, <1>5, <1>6 DEF IsPath
  <1>8. Tip(r, m) = IF k = 0 THEN m ELSE p[k].to
    <2>1. CASE k = 0
      <3>1. r = <<>>
        BY <1>4, <2>1, EmptySeq
      <3> QED
        BY <2>1, <3>1 DEF Tip
    <2>2. CASE k # 0
      <3>1. r # <<>> /\ r[Len(r)] = p[k]
        BY <1>2, <1>4, <2>2
      <3> QED
        BY <2>2, <3>1 DEF Tip, Last
    <2> QED
      BY <2>1, <2>2
  <1> QED
    BY <1>4, <1>7, <1>8 DEF r

(* A path goes on by an edge to a node that it has not met. *)
LEMMA PathAppend ==
  ASSUME NEW m, NEW E, NEW p \in Seq(E), NEW e \in E
  PROVE  IsPath(Append(p, e), m, E)
           <=> IsPath(p, m, E) /\ e.from = Tip(p, m) /\ e.to \notin Met(p, m)
  <1> DEFINE n == Len(p)
             q == Append(p, e)
  <1>1. n \in Nat /\ DOMAIN p = 1..n /\ q \in Seq(E) /\ Len(q) = n + 1 /\ q[n + 1] = e
    BY LenProperties, AppendProperties
  <1>2. DOMAIN q = 1..(n + 1) /\ \A i \in 1..n : q[i] = p[i]
    BY <1>1, LenProperties, AppendProperties
  <1>3. Tip(p, m) = IF n = 0 THEN m ELSE p[n].to
    BY EmptySeq DEF Tip, Last
  <1> HIDE DEF q, n
  <1> DEFINE Fine(r, i) == /\ r[i].from = IF i = 1 THEN m ELSE r[i - 1].to
                           /\ r[i].to # m
                           /\ \A j \in 1..(i - 1) : r[j].to # r[i].to
  <1>4. ASSUME NEW i \in 1..n PROVE Fine(p, i) <=> Fine(q, i)
    <2>1. q[i] = p[i] /\ (i # 1 => q[i - 1] = p[i - 1]) /\ \A j \in 1..(i - 1) : q[j] = p[j]
      BY <1>1, <1>2
    <2> QED
      BY <2>1
  <1>5. Fine(q, n + 1) <=> e.from = Tip(p, m) /\ e.to \notin Met(p, m)
    <2>1. (n + 1 = 1) = (n = 0) /\ (n + 1) - 1 = n /\ (n # 0 => q[n] = p[n])
      BY <1>1, <1>2
    <2>2. \A j \in 1..n : q[j].to = p[j].to
      BY <1>2
    <2>3. e.to \notin Met(p, m) <=> e.to # m /\ \A j \in 1..n : q[j].to # e.to
      BY <1>1, <2>2 DEF Met
    <2>4. e.from = Tip(p, m) <=> e.from = IF n + 1 = 1 THEN m ELSE q[(n + 1) - 1].to
      BY <1>3, <2>1
    <2> QED
      BY <1>1, <2>1, <2>3, <2>4
  <1>6. IsPath(p, m, E) <=> \A i \in 1..n : Fine(p, i)
    BY <1>1 DEF IsPath
  <1>7. IsPath(q, m, E) <=> \A i \in 1..(n + 1) : Fine(q, i)
    BY <1>1, <1>2 DEF IsPath
  <1>8. 1..(n + 1) = 1..n \cup {n + 1}
    BY <1>1
  <1> HIDE DEF Fine
  <1> QED
    BY <1>4, <1>5, <1>6, <1>7, <1>8 DEF q

(* The nodes a path has met are the ends of its parts. *)
LEMMA MetIsTip ==
  ASSUME NEW m, NEW E, NEW p, IsPath(p, m, E), NEW x \in Met(p, m)
  PROVE  \E k \in 0..Len(p) : Tip(Prefix(p, k), m) = x
  <1>1. Len(p) \in Nat /\ DOMAIN p = 1..Len(p)
    BY LenProperties DEF IsPath
  <1>2. CASE x = m
    <2>1. 0 \in 0..Len(p)
      BY <1>1
    <2> QED
      BY <1>2, <2>1, PathPrefix
  <1>3. CASE x # m
    <2>1. PICK i \in 1..Len(p) : x = p[i].to
      BY <1>1, <1>3 DEF Met
    <2>2. i \in 0..Len(p) /\ i # 0
      BY <1>1
    <2> QED
      BY <2>1, <2>2, PathPrefix
  <1> QED
    BY <1>2, <1>3

(* A path is shorter than the nodes are many. *)
LEMMA PathLength ==
  ASSUME Graph, NEW m \in nodes, NEW E \in SUBSET edges, NEW p, IsPath(p, m, E)
  PROVE  Len(p) \in Nat /\ Cardinality(nodes) \in Nat /\ Len(p) <= Cardinality(nodes) - 1
  <1> DEFINE n == Len(p)
             f == [i \in 0..n |-> IF i = 0 THEN m ELSE p[i].to]
  <1>1. n \in Nat /\ DOMAIN p = 1..n /\ \A i \in 1..n : p[i] \in edges
    BY LenProperties, ElementOfSeq DEF IsPath
  <1>2. f \in [0..n -> nodes]
    BY <1>1, EdgeEnds
  <1>3. ASSUME NEW i \in 0..n, NEW j \in 0..n, i < j PROVE f[i] # f[j]
    <2>1. j \in 1..n /\ j # 0 /\ (i # 0 => i \in 1..(j - 1))
      BY <1>1, <1>3
    <2>2. p[j].to # m /\ \A x \in 1..(j - 1) : p[x].to # p[j].to
      BY <1>1, <2>1 DEF IsPath
    <2> QED
      BY <2>1, <2>2
  <1>4. f \in Injection(0..n, nodes)
    <2>1. ASSUME NEW i \in 0..n, NEW j \in 0..n, f[i] = f[j] PROVE i = j
      <3>1. ~(i < j) /\ ~(j < i)
        BY <1>3, <2>1
      <3> QED
        BY <1>1, <3>1
    <2> HIDE DEF f
    <2> QED
      BY <1>2, <2>1 DEF Injection, IsInjective
  <1>5. Cardinality(nodes) \in Nat /\ Cardinality(0..n) <= Cardinality(nodes)
    <2> HIDE DEF f
    <2> QED
      BY <1>4, EdgeEnds, FS_Injection, FS_CardinalityType
  <1>6. Cardinality(0..n) = n + 1
    BY <1>1, FS_Interval
  <1> QED
    BY <1>1, <1>5, <1>6

(* SimplePathsFrom has exactly these paths, and they are finitely many. *)
PathsFrom(m, E) == {p \in Seq(E) : IsPath(p, m, E)}
Shorter(m, E, k) == {p \in Seq(E) : IsPath(p, m, E) /\ Len(p) <= k}
Longer(p, m, E) == {Append(p, e) : e \in {f \in E : f.from = Tip(p, m) /\ f.to \notin Met(p, m)}}

(* The paths of at most k + 1 edges are those of at most k and what goes on from them. *)
LEMMA OneLonger ==
  ASSUME NEW m, NEW E, NEW k \in Nat
  PROVE  Shorter(m, E, k + 1)
           = Shorter(m, E, k) \cup UNION {Longer(p, m, E) : p \in Shorter(m, E, k)}
  <1>1. ASSUME NEW q \in Shorter(m, E, k + 1), Len(q) > k
        PROVE  \E p \in Shorter(m, E, k) : q \in Longer(p, m, E)
    <2>1. q \in Seq(E) /\ IsPath(q, m, E) /\ Len(q) = k + 1 /\ q # <<>>
      BY <1>1, LenProperties, EmptySeq DEF Shorter
    <2>2. PICK p \in Seq(E), e \in E : q = Append(p, e)
      BY <2>1, SequenceEmptyOrAppend
    <2>3. Len(p) = k
      BY <2>1, <2>2, LenProperties, AppendProperties
    <2>4. IsPath(p, m, E) /\ e.from = Tip(p, m) /\ e.to \notin Met(p, m)
      BY <2>1, <2>2, PathAppend
    <2>5. p \in Shorter(m, E, k) /\ q \in Longer(p, m, E)
      BY <2>2, <2>3, <2>4 DEF Shorter, Longer
    <2> QED
      BY <2>5
  <1>2. ASSUME NEW p \in Shorter(m, E, k), NEW q \in Longer(p, m, E)
        PROVE  q \in Shorter(m, E, k + 1)
    <2>1. PICK e \in E : q = Append(p, e) /\ e.from = Tip(p, m) /\ e.to \notin Met(p, m)
      BY DEF Longer
    <2>2. p \in Seq(E) /\ IsPath(p, m, E) /\ Len(p) <= k
      BY DEF Shorter
    <2>3. q \in Seq(E) /\ Len(q) = Len(p) + 1 /\ Len(p) \in Nat /\ IsPath(q, m, E)
      BY <2>1, <2>2, PathAppend, AppendProperties, LenProperties
    <2> QED
      BY <2>2, <2>3 DEF Shorter
  <1>3. Shorter(m, E, k) \subseteq Shorter(m, E, k + 1)
    BY LenProperties DEF Shorter
  <1>4. ASSUME NEW q \in Shorter(m, E, k + 1), ~(Len(q) > k) PROVE q \in Shorter(m, E, k)
    BY <1>4, LenProperties DEF Shorter
  <1> QED
    BY <1>1, <1>2, <1>3, <1>4

(* SimplePathsFrom, which adds an edge at a time, finds exactly the paths. *)
LEMMA SimplePathsAre ==
  ASSUME Graph, NEW m \in nodes, NEW E \in SUBSET edges
  PROVE  SimplePathsFrom(m, E) = PathsFrom(m, E)
  <1> DEFINE C == Cardinality(nodes)
             last(p) == IF p = <<>> THEN m ELSE Last(p).to
             met(p) == {m} \cup {p[i].to : i \in DOMAIN p}
             longer(p) == {Append(p, e) : e \in {f \in E : f.from = last(p) /\ f.to \notin met(p)}}
             Value(g, k) == IF k = 0 THEN {<<>>}
                            ELSE g[k - 1] \cup UNION {longer(p) : p \in g[k - 1]}
             Is(g) == g = [k \in 0..C |-> Value(g, k)]
             P == CHOOSE g : Is(g)
             f == [k \in 0..C |-> Shorter(m, E, k)]
  <1>1. C \in Nat /\ C >= 1
    BY EdgeEnds, FS_CardinalityType, FS_EmptySet
  <1>2. \A p : longer(p) = Longer(p, m, E)
    BY DEF Longer, Tip, Met
  <1> HIDE DEF longer, C
  <1>3. Shorter(m, E, 0) = {<<>>}
    <2>1. \A p \in Seq(E) : Len(p) <= 0 => p = <<>>
      BY EmptySeq
    <2>2. <<>> \in Seq(E) /\ Len(<<>>) <= 0
      OBVIOUS
    <2> QED
      BY <2>1, <2>2, PathEmpty DEF Shorter
  <1>4. ASSUME NEW k \in 0..C, k # 0 PROVE k - 1 \in 0..C /\ k - 1 \in Nat /\ (k - 1) + 1 = k
    BY <1>1, <1>4
  <1>5. ASSUME NEW k \in 0..C PROVE f[k] = Value(f, k)
    <2>1. f[k] = Shorter(m, E, k)
      OBVIOUS
    <2>2. CASE k = 0
      BY <1>3, <2>1, <2>2
    <2>3. CASE k # 0
      <3>1. f[k - 1] = Shorter(m, E, k - 1)
        BY <1>4, <2>3
      <3> HIDE DEF f
      <3>2. Shorter(m, E, (k - 1) + 1)
              = Shorter(m, E, k - 1) \cup UNION {Longer(p, m, E) : p \in Shorter(m, E, k - 1)}
        BY <1>4, <2>3, OneLonger
      <3>3. UNION {longer(p) : p \in f[k - 1]} = UNION {Longer(p, m, E) : p \in f[k - 1]}
        BY <1>2
      <3> QED
        BY <1>4, <2>1, <2>3, <3>1, <3>2, <3>3
    <2> QED
      BY <2>2, <2>3
  <1>6. Is(f)
    <2> HIDE DEF Value
    <2>1. [k \in 0..C |-> f[k]] = [k \in 0..C |-> Value(f, k)]
      BY <1>5
    <2>2. f = [k \in 0..C |-> f[k]]
      OBVIOUS
    <2> HIDE DEF f
    <2> QED
      BY <2>1, <2>2
  <1>7. Is(P)
    <2> HIDE DEF Is
    <2> QED
      BY <1>6
  <1>8. \A k \in 0..C : P[k] = Value(P, k)
    <2> HIDE DEF P, Value
    <2> QED
      BY <1>7
  <1> DEFINE K == {k \in Nat : k \in 0..C => P[k] = Shorter(m, E, k)}
  <1>9. 0 \in K
    <2> HIDE DEF P
    <2> QED
      BY <1>1, <1>3, <1>8
  <1>10. ASSUME NEW k \in Nat, k \in K PROVE k + 1 \in K
    <2> DEFINE j == k + 1
    <2> HIDE DEF P
    <2> SUFFICES ASSUME j \in 0..C PROVE P[j] = Shorter(m, E, j)
      OBVIOUS
    <2>1. k \in 0..C /\ j - 1 = k /\ j # 0
      BY <1>1
    <2>2. P[k] = Shorter(m, E, k)
      BY <1>10, <2>1
    <2>3. Shorter(m, E, j)
            = Shorter(m, E, k) \cup UNION {Longer(p, m, E) : p \in Shorter(m, E, k)}
      BY OneLonger
    <2> HIDE DEF j
    <2>4. P[j] = P[k] \cup UNION {longer(p) : p \in P[k]}
      BY <1>8, <2>1
    <2>5. UNION {longer(p) : p \in P[k]} = UNION {Longer(p, m, E) : p \in P[k]}
      BY <1>2
    <2> QED
      BY <2>2, <2>3, <2>4, <2>5
  <1>11. C - 1 \in K
    <2>1. C - 1 \in Nat
      BY <1>1
    <2> HIDE DEF K
    <2> QED
      BY <1>9, <1>10, <2>1, SetInduction
  <1>12. SimplePathsFrom(m, E) = P[C - 1]
    BY Zenon DEF SimplePathsFrom, C, longer
  <1> HIDE DEF P
  <1>13. P[C - 1] = Shorter(m, E, C - 1)
    BY <1>1, <1>11
  <1>14. Shorter(m, E, C - 1) = PathsFrom(m, E)
    BY PathLength DEF Shorter, PathsFrom, C
  <1> QED
    BY <1>12, <1>13, <1>14

(* There are finitely many paths. *)
LEMMA PathsFinite ==
  ASSUME Graph, NEW m \in nodes, NEW E \in SUBSET edges
  PROVE  IsFiniteSet(PathsFrom(m, E))
  <1>1. IsFiniteSet(E)
    BY EdgesFinite, FS_Subset
  <1>2. ASSUME NEW p PROVE IsFiniteSet(Longer(p, m, E))
    <2> DEFINE T == {f \in E : f.from = Tip(p, m) /\ f.to \notin Met(p, m)}
               g == [e \in T |-> Append(p, e)]
    <2>1. IsFiniteSet(T)
      BY <1>1, FS_Subset
    <2>2. g \in Surjection(T, Longer(p, m, E))
      BY DEF Surjection, Longer
    <2> HIDE DEF T, g
    <2> QED
      BY <2>1, <2>2, FS_Surjection
  <1> DEFINE K == {k \in Nat : IsFiniteSet(Shorter(m, E, k))}
  <1>3. 0 \in K
    <2>1. \A p \in Seq(E) : Len(p) <= 0 => p = <<>>
      BY EmptySeq
    <2>2. Shorter(m, E, 0) \subseteq {<<>>}
      BY <2>1 DEF Shorter
    <2>3. IsFiniteSet({<<>>})
      BY FS_Singleton
    <2> QED
      BY <2>2, <2>3, FS_Subset
  <1>4. ASSUME NEW k \in Nat, k \in K PROVE k + 1 \in K
    <2> DEFINE S == Shorter(m, E, k)
               U == {Longer(p, m, E) : p \in S}
               g == [p \in S |-> Longer(p, m, E)]
    <2>1. IsFiniteSet(S)
      BY <1>4
    <2>2. g \in Surjection(S, U)
      BY DEF Surjection
    <2>3. \A T \in U : IsFiniteSet(T)
      BY <1>2
    <2>4. Shorter(m, E, k + 1) = S \cup UNION U
      BY OneLonger
    <2> HIDE DEF S, U, g
    <2>5. IsFiniteSet(U)
      BY <2>1, <2>2, FS_Surjection
    <2>6. IsFiniteSet(UNION U)
      BY <2>3, <2>5, FS_UNION
    <2>7. IsFiniteSet(Shorter(m, E, k + 1))
      BY <2>1, <2>4, <2>6, FS_Union
    <2> QED
      BY <2>7
  <1>5. Cardinality(nodes) \in K
    <2> HIDE DEF K
    <2> QED
      BY <1>3, <1>4, SetInduction, EdgeEnds, FS_CardinalityType
  <1>6. PathsFrom(m, E) \subseteq Shorter(m, E, Cardinality(nodes))
    BY PathLength DEF Shorter, PathsFrom
  <1> QED
    BY <1>5, <1>6, FS_Subset

--------------------------------------------------------------------------------
(* What can be reached is where these paths end. *)

Ends(m, E) == {Tip(p, m) : p \in PathsFrom(m, E)}

(* What an edge leads to from the end of a path is the end of a path. *)
LEMMA EndsClosed ==
  ASSUME Graph, NEW m \in nodes, NEW E \in SUBSET edges
  PROVE  /\ m \in Ends(m, E)
         /\ \A e \in E : e.from \in Ends(m, E) => e.to \in Ends(m, E)
  <1>1. <<>> \in PathsFrom(m, E)
    BY PathEmpty DEF PathsFrom
  <1>2. m \in Ends(m, E)
    BY <1>1, PathEmpty DEF Ends
  <1>3. ASSUME NEW e \in E, e.from \in Ends(m, E) PROVE e.to \in Ends(m, E)
    <2>1. PICK p \in Seq(E) : IsPath(p, m, E) /\ e.from = Tip(p, m)
      BY <1>3 DEF Ends, PathsFrom
    <2>2. CASE e.to \notin Met(p, m)
      <3>1. Append(p, e) \in PathsFrom(m, E)
        BY <2>1, <2>2, PathAppend, AppendProperties DEF PathsFrom
      <3> QED
        BY <2>1, <3>1, PathTip DEF Ends
    <2>3. CASE e.to \in Met(p, m)
      <3>1. PICK k \in 0..Len(p) : Tip(Prefix(p, k), m) = e.to
        BY <2>1, <2>3, MetIsTip
      <3>2. Prefix(p, k) \in PathsFrom(m, E)
        <4>1. IsPath(Prefix(p, k), m, E)
          BY <2>1, PathPrefix
        <4>2. Prefix(p, k) \in Seq(E)
          BY <4>1 DEF IsPath
        <4> QED
          BY <4>1, <4>2 DEF PathsFrom
      <3> QED
        BY <3>1, <3>2 DEF Ends
    <2> QED
      BY <2>2, <2>3
  <1> QED
    BY <1>2, <1>3

(* No path leaves a set of nodes that no edge leaves. *)
LEMMA EndsLeast ==
  ASSUME NEW m, NEW E, NEW Z, m \in Z, \A e \in E : e.from \in Z => e.to \in Z
  PROVE  Ends(m, E) \subseteq Z
  <1> DEFINE K == {k \in Nat : \A p \in Seq(E) : IsPath(p, m, E) /\ Len(p) = k => Tip(p, m) \in Z}
  <1>1. 0 \in K
    <2> SUFFICES ASSUME NEW p \in Seq(E), Len(p) = 0 PROVE Tip(p, m) \in Z
      OBVIOUS
    <2>1. p = <<>>
      BY EmptySeq
    <2> QED
      BY <2>1 DEF Tip
  <1>2. ASSUME NEW k \in Nat, k \in K PROVE k + 1 \in K
    <2> SUFFICES ASSUME NEW q \in Seq(E), IsPath(q, m, E), Len(q) = k + 1 PROVE Tip(q, m) \in Z
      OBVIOUS
    <2>1. q # <<>>
      OBVIOUS
    <2>2. PICK p \in Seq(E), e \in E : q = Append(p, e)
      BY <2>1, SequenceEmptyOrAppend
    <2>3. Len(p) = k
      BY <2>2, LenProperties, AppendProperties
    <2>4. IsPath(p, m, E) /\ e.from = Tip(p, m)
      BY <2>2, PathAppend
    <2>5. Tip(p, m) \in Z
      BY <1>2, <2>3, <2>4
    <2> QED
      BY <2>2, <2>4, <2>5, PathTip
  <1>3. \A k \in Nat : k \in K
    <2> HIDE DEF K
    <2> QED
      BY <1>1, <1>2, SetInduction
  <1>4. ASSUME NEW p \in Seq(E), IsPath(p, m, E) PROVE Tip(p, m) \in Z
    <2>1. Len(p) \in Nat
      BY LenProperties
    <2> QED
      BY <1>3, <1>4, <2>1
  <1> QED
    BY <1>4 DEF Ends, PathsFrom

(* Reached, which goes on by all edges at a time, finds exactly the ends of paths. *)
LEMMA ReachedAre ==
  ASSUME Graph, NEW m \in nodes, NEW E \in SUBSET edges
  PROVE  Reached(E, m) = Ends(m, E)
  <1> DEFINE C == Cardinality(nodes)
             Near(Q) == Q \cup {e.to : e \in {f \in E : f.from \in Q}}
             Value(g, k) == IF k = 0 THEN {m} ELSE Near(g[k - 1])
             Is(g) == g = [k \in 0..C |-> Value(g, k)]
             R == CHOOSE g : Is(g)
             X == SUBSET nodes
             step == [k \in 1..C |-> [Q \in X |-> Near(Q)]]
             first == {m}
  <1>1. C \in Nat /\ C >= 1
    BY EdgeEnds, FS_CardinalityType, FS_EmptySet
  <1>2. \A Q \in X : Near(Q) \in X
    BY EdgeEnds
  <1>3. PICK f \in [0..C -> X] : Follows(f, C, first, step)
    <2>1. first \in X /\ step \in [1..C -> [X -> X]]
      BY <1>2
    <2> HIDE DEF C, X, step, first
    <2> QED
      BY <1>1, <2>1, Recursion
  <1>4. ASSUME NEW k \in 0..C, k # 0 PROVE k - 1 \in 0..C /\ k \in 1..C
    <2> HIDE DEF C
    <2> QED
      BY <1>1, <1>4
  <1>5. ASSUME NEW k \in 0..C PROVE f[k] = Value(f, k)
    <2>1. CASE k = 0
      BY <1>3, <2>1 DEF Follows
    <2>2. CASE k # 0
      <3>1. f[k] = step[k][f[k - 1]]
        <4> HIDE DEF step
        <4> QED
          BY <1>3, <1>4, <2>2 DEF Follows
      <3>2. f[k - 1] \in X
        <4> HIDE DEF X
        <4> QED
          BY <1>3, <1>4, <2>2
      <3>3. step[k][f[k - 1]] = Near(f[k - 1])
        <4> HIDE DEF Near, X
        <4> QED
          BY <1>4, <2>2, <3>2
      <3> QED
        BY <2>2, <3>1, <3>3
    <2> QED
      BY <2>1, <2>2
  <1> HIDE DEF step
  <1>6. Is(f)
    <2> HIDE DEF Value, C
    <2>1. [k \in 0..C |-> f[k]] = [k \in 0..C |-> Value(f, k)]
      BY <1>5
    <2>2. f = [k \in 0..C |-> f[k]]
      BY <1>3
    <2> QED
      BY <2>1, <2>2
  <1>7. Is(R)
    <2> HIDE DEF Is
    <2> QED
      BY <1>6
  <1>8. \A k \in 0..C : R[k] = Value(R, k)
    <2> HIDE DEF R, Value
    <2> QED
      BY <1>7
  <1>9. Reached(E, m) = R[C]
    BY Zenon DEF Reached
  <1> HIDE DEF R, Is, C
  <1>10. 0 \in 0..C /\ R[0] = {m}
    <2>1. 0 \in 0..C
      BY <1>1
    <2> QED
      BY <1>8, <2>1
  <1>11. ASSUME NEW k \in Nat, k + 1 \in 0..C PROVE k \in 0..C /\ R[k + 1] = Near(R[k])
    <2> DEFINE j == k + 1
    <2>1. k \in 0..C /\ j # 0 /\ j - 1 = k
      BY <1>1, <1>11
    <2>2. R[j] = Value(R, j)
      BY <1>8, <1>11
    <2> HIDE DEF j, Near
    <2>3. R[j] = Near(R[k])
      BY <2>1, <2>2
    <2> QED
      BY <2>1, <2>3 DEF j
  <1>12. R[C] \subseteq Ends(m, E)
    <2> DEFINE K == {k \in Nat : k \in 0..C => R[k] \subseteq Ends(m, E)}
    <2>1. 0 \in K
      BY <1>10, EndsClosed
    <2>2. ASSUME NEW k \in Nat, k \in K PROVE k + 1 \in K
      BY <1>11, <2>2, EndsClosed
    <2>3. C \in K
      <3> HIDE DEF K
      <3> QED
        BY <1>1, <2>1, <2>2, SetInduction
    <2> QED
      BY <1>1, <2>3
  <1>13. Ends(m, E) \subseteq R[C]
    <2> DEFINE Holds(k) == \A p \in Seq(E) : IsPath(p, m, E) /\ Len(p) <= k => Tip(p, m) \in R[k]
               K == {k \in Nat : k \in 0..C => Holds(k)}
    <2>1. 0 \in K
      <3> SUFFICES ASSUME NEW p \in Seq(E), Len(p) <= 0 PROVE Tip(p, m) \in R[0]
        OBVIOUS
      <3>1. p = <<>>
        BY EmptySeq
      <3> QED
        BY <1>10, <3>1, PathEmpty
    <2>2. ASSUME NEW k \in Nat, k \in K PROVE k + 1 \in K
      <3> SUFFICES ASSUME k + 1 \in 0..C, NEW q \in Seq(E), IsPath(q, m, E), Len(q) <= k + 1
                   PROVE  Tip(q, m) \in R[k + 1]
        OBVIOUS
      <3>1. k \in 0..C /\ R[k + 1] = Near(R[k])
        BY <1>11
      <3>2. Holds(k)
        BY <2>2, <3>1
      <3>3. CASE Len(q) <= k
        BY <3>1, <3>2, <3>3
      <3>4. CASE ~(Len(q) <= k)
        <4>1. q # <<>> /\ Len(q) = k + 1
          BY <3>4, LenProperties
        <4>2. PICK p \in Seq(E), e \in E : q = Append(p, e)
          BY <4>1, SequenceEmptyOrAppend
        <4>3. Len(p) <= k
          BY <4>1, <4>2, LenProperties, AppendProperties
        <4>4. IsPath(p, m, E) /\ e.from = Tip(p, m) /\ Tip(q, m) = e.to
          BY <4>2, PathAppend, PathTip
        <4>5. Tip(p, m) \in R[k]
          BY <3>2, <4>3, <4>4
        <4> QED
          BY <3>1, <4>4, <4>5
      <3> QED
        BY <3>3, <3>4
    <2>3. C \in K
      <3> HIDE DEF K
      <3> QED
        BY <1>1, <2>1, <2>2, SetInduction
    <2>4. Holds(C)
      <3> HIDE DEF Holds
      <3> QED
        BY <1>1, <2>3
    <2>5. \A p \in Seq(E) : IsPath(p, m, E) => Len(p) <= C
      <3> SUFFICES ASSUME NEW p \in Seq(E), IsPath(p, m, E) PROVE Len(p) <= C
        OBVIOUS
      <3>1. Len(p) \in Nat /\ C \in Nat /\ Len(p) <= C - 1
        BY PathLength DEF C
      <3> QED
        BY <3>1
    <2> QED
      BY <2>4, <2>5 DEF Ends, PathsFrom
  <1> QED
    BY <1>9, <1>12, <1>13

(* What can be reached from a node that can be reached can be reached. *)
LEMMA ReachedOnwards ==
  ASSUME Graph, NEW l \in nodes, NEW m \in nodes, m \in Reached(edges, l)
  PROVE  Reached(edges, m) \subseteq Reached(edges, l)
  <1>1. Reached(edges, l) = Ends(l, edges) /\ Reached(edges, m) = Ends(m, edges)
    BY ReachedAre
  <1>2. \A e \in edges : e.from \in Ends(l, edges) => e.to \in Ends(l, edges)
    BY EndsClosed
  <1>3. m \in Ends(l, edges)
    BY <1>1
  <1> QED
    BY <1>1, <1>2, <1>3, EndsLeast

--------------------------------------------------------------------------------
(* The searches. *)

(* What is reached, with the nodes as a parameter. *)
ReachedAmong(N, E, n) ==
  LET R[k \in 0..Cardinality(N)] ==
        IF k = 0 THEN {n}
        ELSE LET near == R[k - 1] IN near \cup {e.to : e \in {f \in E : f.from \in near}}
  IN  R[Cardinality(N)]

(* As long as the graph stays, so does all that is said of it. *)
LEMMA GraphStays ==
  ASSUME UNCHANGED graph
  PROVE  /\ Graph => Graph'
         /\ \A p : End(p)' = End(p)
         /\ \A p, q : lessPath(p, q)' <=> lessPath(p, q)
         /\ \A s : Taken(s)' = Taken(s) /\ Excluded(s)' = Excluded(s) /\ Ways(s)' = Ways(s)
         /\ \A n : Out(n)' = Out(n)
         /\ \A c : Within(c)' = Within(c)
         /\ target' = target /\ nodes' = nodes /\ edges' = edges /\ type' = type
         /\ owners' = owners /\ cycles' = cycles
  <1>1. target' = target /\ nodes' = nodes /\ edges' = edges /\ type' = type
        /\ owners' = owners /\ cycles' = cycles
    BY DEF graph
  <1>2. Graph => Graph'
    <2> DEFINE scopes == {f \in edges : ~isRelation(f)}
    <2>1. \A n : Reached(edges, n)' = Reached(edges, n)
      <3>1. \A n : Reached(edges, n) = ReachedAmong(nodes, edges, n)
        BY Zenon DEF Reached, ReachedAmong
      <3>2. \A n : Reached(edges, n)' = ReachedAmong(nodes', edges', n)
        BY Zenon DEF Reached, ReachedAmong
      <3> QED
        BY <1>1, <3>1, <3>2, Zenon
    <2>2. \A n : Reached(scopes, n)' = Reached(scopes, n)
      <3>1. \A n : Reached(scopes, n) = ReachedAmong(nodes, scopes, n)
        BY Zenon DEF Reached, ReachedAmong
      <3>2. \A n : Reached(scopes, n)' = ReachedAmong(nodes', scopes', n)
        BY Zenon DEF Reached, ReachedAmong
      <3>3. scopes' = scopes
        BY <1>1 DEF isRelation
      <3> HIDE DEF scopes
      <3> QED
        BY <1>1, <3>1, <3>2, <3>3, Zenon
    <2>3. Components' = Components
      BY <1>1, <2>1 DEF Components
    <2>4. Reached(edges, target)' = Reached(edges, target)
      <3>1. Reached(edges, target) = ReachedAmong(nodes, edges, target)
        BY Zenon DEF Reached, ReachedAmong
      <3>2. Reached(edges, target)' = ReachedAmong(nodes', edges', target')
        BY Zenon DEF Reached, ReachedAmong
      <3> QED
        BY <1>1, <3>1, <3>2, Zenon
    <2> DEFINE Forest == \A e \in edges : ~isRelation(e) =>
                 /\ type[e.from] = "job_network"
                 /\ type[e.to] \in {"job", "job_network"}
                 /\ e.from \notin Reached({f \in edges : ~isRelation(f)}, e.to)
                 /\ \A f \in In(e.to) : ~isRelation(f) => f = e
    <2>5. Forest => Forest'
      <3> SUFFICES ASSUME Forest, NEW e \in edges, ~isRelation(e)
                   PROVE  /\ type'[e.from] = "job_network"
                          /\ type'[e.to] \in {"job", "job_network"}
                          /\ e.from \notin Reached({f \in edges : ~isRelation(f)}, e.to)'
                          /\ (\A f \in In(e.to) : ~isRelation(f) => f = e)'
        BY <1>1 DEF isRelation
      <3>1. Reached(scopes, e.to)' = Reached(scopes, e.to)
        BY <2>2
      <3> QED
        BY <1>1, <3>1 DEF In, isRelation
    <2>6. Graph = (Graph /\ Forest)
      BY Zenon DEF Graph
    <2> QED
      BY <1>1, <2>3, <2>4, <2>5, <2>6 DEF Graph
  <1>3. \A p : End(p)' = End(p)
    BY <1>1 DEF End
  <1>4. ASSUME NEW p PROVE PathKey(p)' = PathKey(p)
    <2>1. dependencyDistance(p)' = dependencyDistance(p)
      BY <1>1 DEF dependencyDistance, isRelation
    <2> QED
      BY <2>1 DEF PathKey
  <1>5. \A p, q : lessPath(p, q)' <=> lessPath(p, q)
    BY <1>4 DEF lessPath
  <1>6. \A s : Excluded(s)' = Excluded(s)
    BY <1>1 DEF Excluded
  <1>7. \A s : Taken(s)' = Taken(s)
    BY <1>1, <1>6 DEF Taken
  <1>8. \A s : Ways(s)' = Ways(s)
    BY <1>1, <1>6, <1>7 DEF Ways
  <1>9. \A n : Out(n)' = Out(n)
    BY <1>1 DEF Out
  <1>10. \A c : Within(c)' = Within(c)
    BY <1>1 DEF Within
  <1> QED
    BY <1>1, <1>2, <1>3, <1>5, <1>6, <1>7, <1>8, <1>9, <1>10

(* A path from the target ends in a node, and an edge takes it on. *)
LEMMA EndIsTip ==
  ASSUME Graph, NEW p \in Seq(edges)
  PROVE  /\ End(p) = Tip(p, target) /\ End(p) \in nodes
         /\ \A e \in edges : Append(p, e) \in Seq(edges) /\ End(Append(p, e)) = e.to
  <1>1. End(p) = Tip(p, target)
    BY DEF End, Tip
  <1>2. End(p) \in nodes
    <2>1. CASE p = <<>>
      BY <2>1, EdgeEnds DEF End
    <2>2. CASE p # <<>>
      <3>1. Len(p) \in 1..Len(p)
        BY <2>2, LenProperties, EmptySeq
      <3>2. p[Len(p)] \in edges
        BY <3>1, ElementOfSeq
      <3> QED
        BY <2>2, <3>2, EdgeEnds DEF End, Last
    <2> QED
      BY <2>1, <2>2
  <1>3. ASSUME NEW e \in edges PROVE Append(p, e) \in Seq(edges) /\ End(Append(p, e)) = e.to
    BY AppendProperties, LenProperties DEF End, Last
  <1> QED
    BY <1>1, <1>2, <1>3

(* What waits in the queue is a path from the target. *)
LEMMA CandidateIsPath ==
  ASSUME NEW p, Candidate(p)
  PROVE  p \in Seq(edges) /\ p \in Seq(Taken(pc)) /\ IsPath(p, target, Taken(pc))
  <1>1. Taken(pc) \subseteq edges
    BY DEF Taken
  <1>2. p \in Seq(Taken(pc)) /\ IsPath(p, target, Taken(pc))
    BY DEF Candidate, IsPath
  <1> QED
    BY <1>1, <1>2, SeqMonotonic

(* An edge at the end leaves the beginning of a path as it was. *)
LEMMA PrefixOfAppend ==
  ASSUME NEW E, NEW p \in Seq(E), NEW e \in E, NEW k \in 0..Len(p)
  PROVE  Prefix(Append(p, e), k) = Prefix(p, k)
  <1>1. Len(p) \in Nat /\ Append(p, e) \in Seq(E) /\ \A i \in 1..Len(p) : Append(p, e)[i] = p[i]
    BY LenProperties, AppendProperties
  <1>2. k \in Nat /\ 1 \in Int /\ k \in Int /\ k - 1 + 1 = k /\ \A i \in 1..k : i \in 1..Len(p)
    BY <1>1
  <1>3. \A i \in 1..k : p[i] \in E /\ Append(p, e)[i] \in E
    BY <1>1, <1>2, ElementOfSeq
  <1> DEFINE r == Prefix(p, k)
             s == Prefix(Append(p, e), k)
  <1>4. r \in Seq(E) /\ Len(r) = (IF 1 <= k THEN k ELSE 0) /\ \A i \in 1..k : r[i] = p[1 + i - 1]
    BY <1>2, <1>3, SubSeqProperties DEF Prefix
  <1>5. s \in Seq(E) /\ Len(s) = (IF 1 <= k THEN k ELSE 0)
        /\ \A i \in 1..k : s[i] = Append(p, e)[1 + i - 1]
    BY <1>2, <1>3, SubSeqProperties DEF Prefix
  <1> HIDE DEF r, s
  <1>6. \A i \in 1..Len(r) : r[i] = s[i]
    BY <1>1, <1>2, <1>4, <1>5
  <1>7. r = s
    BY <1>4, <1>5, <1>6, SeqEqual
  <1> QED
    BY <1>7 DEF r, s

(* The longest beginning of a path is the path. *)
LEMMA PrefixWhole ==
  ASSUME NEW E, NEW p \in Seq(E)
  PROVE  Prefix(p, Len(p)) = p
  BY SubSeqFull DEF Prefix

(* A proper part of a path is before it. *)
LEMMA PrefixIsBefore ==
  ASSUME Graph, NEW p \in Seq(edges), NEW k \in 0..Len(p)
  PROVE  Prefix(p, k) \in Seq(edges) /\ ~lessPath(p, Prefix(p, k))
  <1> DEFINE K == {n \in Nat : \A q \in Seq(edges) : Len(q) = n =>
                     \A j \in 0..n : Prefix(q, j) \in Seq(edges) /\ ~lessPath(q, Prefix(q, j))}
  <1>1. ASSUME NEW q \in Seq(edges)
        PROVE  Prefix(q, Len(q)) \in Seq(edges) /\ ~lessPath(q, Prefix(q, Len(q)))
    BY PrefixWhole, PathOrder
  <1>2. 0 \in K
    BY <1>1
  <1>3. ASSUME NEW n \in Nat, n \in K PROVE n + 1 \in K
    <2> SUFFICES ASSUME NEW q \in Seq(edges), Len(q) = n + 1, NEW j \in 0..(n + 1)
                 PROVE  Prefix(q, j) \in Seq(edges) /\ ~lessPath(q, Prefix(q, j))
      OBVIOUS
    <2>1. CASE j = n + 1
      BY <1>1, <2>1
    <2>2. CASE j \in 0..n
      <3>1. q # <<>>
        OBVIOUS
      <3>2. PICK r \in Seq(edges), e \in edges : q = Append(r, e)
        BY <3>1, SequenceEmptyOrAppend
      <3>3. Len(r) = n
        BY <3>2, LenProperties, AppendProperties
      <3>4. Prefix(r, j) \in Seq(edges) /\ ~lessPath(r, Prefix(r, j))
        BY <1>3, <2>2, <3>3
      <3>5. Prefix(q, j) = Prefix(r, j)
        BY <2>2, <3>2, <3>3, PrefixOfAppend
      <3>6. ~lessPath(q, r)
        BY <3>2, LongerIsLater, PathOrder
      <3> QED
        BY <3>4, <3>5, <3>6, PathOrder
    <2> QED
      BY <2>1, <2>2
  <1>4. Len(p) \in K
    <2> HIDE DEF K
    <2> QED
      BY <1>2, <1>3, SetInduction, LenProperties
  <1> QED
    BY <1>4

(* A search begins with the empty path, or with nothing. *)
LEMMA SearchBegins ==
  ASSUME Graph, pc \in Searches, best = FirstBest(pc), queue = FirstQueue(pc)
  PROVE  SearchRuns
  <1>1. target \in nodes /\ None \notin Seq(edges) /\ <<>> \in Seq(edges) /\ <<>> # None
    <2>1. <<>> \in Seq(edges)
      OBVIOUS
    <2> QED
      BY <2>1, EdgeEnds
  <1>2. best \in [nodes -> Seq(edges) \cup {None}]
    BY <1>1 DEF FirstBest
  <1>3. IsFiniteSet(queue)
    BY FS_Singleton, FS_EmptySet DEF FirstQueue
  <1>4. CASE target \in Excluded(pc)
    <2>1. queue = {} /\ \A n \in nodes : best[n] = None
      BY <1>4 DEF FirstQueue, FirstBest
    <2> QED
      BY <1>2, <1>3, <1>4, <2>1 DEF SearchRuns
  <1>5. CASE target \notin Excluded(pc)
    <2>1. queue = {<<>>} /\ best[target] = <<>> /\ \A n \in nodes : n # target => best[n] = None
      BY <1>1, <1>5 DEF FirstQueue, FirstBest
    <2>2. End(<<>>) = target
      BY DEF End
    <2>3. Beaten(<<>>)
      BY <1>1, <2>1, <2>2, PathOrder DEF Beaten
    <2>4. \A k \in 0..Len(<<>>) : Prefix(<<>>, k) = <<>>
      <3>1. \A k \in 0..Len(<<>>) : k = Len(<<>>)
        OBVIOUS
      <3> QED
        BY <1>1, <3>1, PrefixWhole
    <2>5. Candidate(<<>>)
      BY <2>3, <2>4, PathEmpty DEF Candidate
    <2>6. ASSUME NEW n \in nodes, NEW b \in {best[n]}, b # None
          PROVE  Candidate(b) /\ End(b) = n /\ b \in queue
      <3>1. n = target /\ b = <<>>
        BY <2>1, <2>6
      <3> QED
        BY <2>1, <2>2, <2>5, <3>1
    <2> QED
      BY <1>2, <1>3, <1>5, <2>1, <2>5, <2>6 DEF SearchRuns
  <1> QED
    BY <1>4, <1>5

(* One path of the queue is taken and extended. *)
LEMMA PopKeeps ==
  ASSUME Graph, SearchRuns, Pop
  PROVE  SearchRuns'
  <1> DEFINE T == Taken(pc)
             p == LeastPath(queue)
             better == IF best[End(p)] = p
                         THEN {c \in {Append(p, e) : e \in Taken(pc) \cap Out(End(p))} : Improves(c)}
                         ELSE {}
             to(n) == {c \in better : End(c) = n}
  <1>1. /\ pc \in Searches /\ pc' = pc /\ queue # {}
        /\ best' = [n \in nodes |-> IF to(n) = {} THEN best[n] ELSE LeastPath(to(n))]
        /\ queue' = (queue \ {p}) \cup better
        /\ UNCHANGED graph
    BY DEF Pop
  <1>2. /\ best \in [nodes -> Seq(edges) \cup {None}]
        /\ IsFiniteSet(queue)
        /\ \A q \in queue : Candidate(q)
        /\ \A n \in nodes : \A b \in {best[n]} : b # None =>
             Candidate(b) /\ End(b) = n /\ (b \in queue \/ Extended(n, b))
        /\ IF target \in Excluded(pc) THEN \A n \in nodes : best[n] = None ELSE best[target] = <<>>
    BY <1>1 DEF SearchRuns
  <1>3. T \subseteq edges /\ None \notin Seq(edges) /\ IsFiniteSet(T) /\ target \in nodes
    <2>1. T \subseteq edges
      BY DEF Taken
    <2> QED
      BY <2>1, EdgeEnds, EdgesFinite, FS_Subset
  <1>4. queue \subseteq Seq(edges) /\ p \in queue /\ p \in Seq(edges)
    <2>1. queue \subseteq Seq(edges)
      BY <1>2, CandidateIsPath
    <2> QED
      BY <1>1, <1>2, <2>1, LeastPathIsLeast
  <1>5. IsPath(p, target, T) /\ p \in Seq(T) /\ Candidate(p)
    BY <1>2, <1>4, CandidateIsPath
  <1> HIDE DEF p
  <1>6. ASSUME NEW c \in better
        PROVE  \E e \in T : /\ e.from = End(p) /\ c = Append(p, e) /\ c \in Seq(edges)
                            /\ End(c) = e.to /\ Improves(c)
    <2>1. PICK e \in T \cap Out(End(p)) : c = Append(p, e) /\ Improves(c)
      BY <1>6
    <2> QED
      BY <1>3, <1>4, <2>1, EndIsTip DEF Out
  <1>7. better \subseteq Seq(edges) /\ IsFiniteSet(better)
    <2>1. better \subseteq Seq(edges)
      BY <1>6
    <2> DEFINE U == {Append(p, e) : e \in T}
               g == [e \in T |-> Append(p, e)]
    <2>2. g \in Surjection(T, U)
      BY DEF Surjection
    <2>3. better \subseteq U
      BY <1>6
    <2> HIDE DEF U, g, T, better
    <2>4. IsFiniteSet(U)
      BY <1>3, <2>2, FS_Surjection
    <2> QED
      BY <2>1, <2>3, <2>4, FS_Subset
  <1>8. ASSUME NEW n \in nodes, to(n) # {}
        PROVE  LeastPath(to(n)) \in to(n) /\ \A c \in to(n) : ~lessPath(c, LeastPath(to(n)))
    <2> DEFINE S == to(n)
    <2>1. S \subseteq better
      OBVIOUS
    <2> HIDE DEF better
    <2>2. S \in SUBSET Seq(edges) /\ IsFiniteSet(S) /\ S # {}
      BY <1>7, <1>8, <2>1, FS_Subset
    <2> HIDE DEF S
    <2>3. LeastPath(S) \in S /\ \A c \in S : ~lessPath(c, LeastPath(S))
      BY <2>2, LeastPathIsLeast
    <2> QED
      BY <2>3 DEF S
  <1> HIDE DEF better, T
  \* What the best paths become.
  <1>9. ASSUME NEW n \in nodes, NEW d \in {best'[n]}
        PROVE  IF to(n) = {} THEN d = best[n]
               ELSE d \in better /\ End(d) = n /\ \A c \in to(n) : ~lessPath(c, d)
    <2>1. d = IF to(n) = {} THEN best[n] ELSE LeastPath(to(n))
      BY <1>1
    <2> QED
      BY <1>8, <2>1
  <1>10. ASSUME NEW n \in nodes, NEW b \in {best[n]}, NEW d \in {best'[n]}, b # None
         PROVE  d # None /\ ~lessPath(b, d)
    <2>1. b \in Seq(edges)
      BY <1>2, <1>10
    <2>2. CASE to(n) = {}
      BY <1>9, <1>10, <2>1, <2>2, PathOrder
    <2>3. CASE to(n) # {}
      <3>1. d \in better /\ End(d) = n
        BY <1>9, <2>3
      <3>2. Improves(d) /\ d \in Seq(edges)
        BY <1>6, <3>1
      <3>3. lessPath(d, b)
        BY <1>10, <3>1, <3>2 DEF Improves
      <3> QED
        BY <1>3, <2>1, <3>2, <3>3, PathOrder
    <2> QED
      BY <2>2, <2>3
  <1>11. ASSUME NEW q \in Seq(edges), Beaten(q) PROVE Beaten(q)'
    <2>1. PICK b \in {best[End(q)]} : b # None /\ ~lessPath(q, b)
      BY <1>11 DEF Beaten
    <2>2. PICK d \in {best'[End(q)]} : TRUE
      OBVIOUS
    <2>3. End(q) \in nodes
      BY EndIsTip
    <2>4. d # None /\ ~lessPath(b, d)
      BY <1>10, <2>1, <2>2, <2>3
    <2>5. b \in Seq(edges)
      BY <1>2, <2>1, <2>3
    <2>6. d \in Seq(edges)
      <3>1. CASE to(End(q)) = {}
        BY <1>9, <2>1, <2>2, <2>3, <2>5, <3>1
      <3>2. CASE to(End(q)) # {}
        BY <1>7, <1>9, <2>2, <2>3, <3>2
      <3> QED
        BY <3>1, <3>2
    <2>7. ~lessPath(q, d)
      BY <2>1, <2>4, <2>5, <2>6, PathOrder
    <2>8. End(q)' = End(q) /\ (lessPath(q, d)' <=> lessPath(q, d))
      BY <1>1, GraphStays
    <2> QED
      BY <2>2, <2>4, <2>7, <2>8 DEF Beaten
  <1>12. ASSUME NEW c \in better PROVE Beaten(c)'
    <2>1. c \in Seq(edges) /\ End(c) \in nodes
      BY <1>7, EndIsTip
    <2>2. PICK d \in {best'[End(c)]} : TRUE
      OBVIOUS
    <2>3. c \in to(End(c))
      OBVIOUS
    <2>4. d \in better /\ ~lessPath(c, d)
      BY <1>9, <2>1, <2>2, <2>3
    <2>5. d # None
      BY <1>3, <1>7, <2>4
    <2>6. End(c)' = End(c) /\ (lessPath(c, d)' <=> lessPath(c, d))
      BY <1>1, GraphStays
    <2> QED
      BY <2>2, <2>4, <2>5, <2>6 DEF Beaten
  <1>13. /\ T' = T /\ target' = target /\ nodes' = nodes /\ edges' = edges
         /\ Excluded(pc)' = Excluded(pc) /\ \A n : Out(n)' = Out(n)
    <2>1. /\ target' = target /\ nodes' = nodes /\ edges' = edges /\ owners' = owners
          /\ \A n : Out(n)' = Out(n)
      BY <1>1, GraphStays
    <2>2. Excluded(pc)' = Excluded(pc)
      BY <1>1, <2>1 DEF Excluded
    <2>3. T' = T
      BY <1>1, <2>1, <2>2 DEF T, Taken
    <2> QED
      BY <2>1, <2>2, <2>3
  <1>14. ASSUME NEW q, Candidate(q) PROVE Candidate(q)'
    <2>1. IsPath(q, target, T) /\ \A k \in 0..Len(q) : Beaten(Prefix(q, k))
      BY <1>14 DEF Candidate, T
    <2>2. q \in Seq(edges)
      BY <1>14, CandidateIsPath
    <2>3. \A k \in 0..Len(q) : Beaten(Prefix(q, k))'
      BY <1>11, <2>1, <2>2, PrefixIsBefore
    <2> QED
      BY <1>13, <2>1, <2>3 DEF Candidate, T
  \* A better path meets no node twice: on its way it would have met a path no worse.
  <1>15. ASSUME NEW c \in better PROVE Candidate(c)'
    <2>1. PICK e \in T : /\ e.from = End(p) /\ c = Append(p, e) /\ c \in Seq(edges)
                         /\ End(c) = e.to /\ Improves(c)
      BY <1>6
    <2>2. \A k \in 0..Len(p) : Beaten(Prefix(p, k))
      BY <1>5 DEF Candidate
    <2>3. Len(p) \in Nat /\ Len(c) = Len(p) + 1
      BY <1>5, <2>1, LenProperties, AppendProperties
    <2>4. \A k \in 0..Len(p) : Prefix(c, k) = Prefix(p, k)
      BY <1>5, <2>1, PrefixOfAppend
    <2>5. e.to \notin Met(p, target)
      <3> SUFFICES ASSUME e.to \in Met(p, target) PROVE FALSE
        OBVIOUS
      <3>1. PICK k \in 0..Len(p) : Tip(Prefix(p, k), target) = e.to
        BY <1>5, MetIsTip
      <3> DEFINE r == Prefix(p, k)
      <3>2. r \in Seq(edges)
        BY <1>4, PrefixIsBefore
      <3>3. End(r) = e.to
        BY <3>1, <3>2, EndIsTip
      <3>4. ~lessPath(c, r)
        <4>1. k \in 0..Len(c)
          BY <2>3
        <4> QED
          BY <2>1, <2>4, <4>1, PrefixIsBefore
      <3>5. Beaten(r)
        BY <2>2
      <3> HIDE DEF r
      <3>6. PICK b \in {best[e.to]} : b # None /\ ~lessPath(r, b)
        BY <3>3, <3>5 DEF Beaten
      <3>7. b \in Seq(edges)
        BY <1>2, <1>3, <3>6, EdgeEnds
      <3>8. ~lessPath(c, b)
        BY <2>1, <3>2, <3>4, <3>6, <3>7, PathOrder
      <3> QED
        BY <2>1, <3>6, <3>8 DEF Improves
    <2>6. IsPath(c, target, T)
      BY <1>4, <1>5, <2>1, <2>5, PathAppend, EndIsTip
    <2>7. ASSUME NEW k \in 0..Len(c) PROVE Beaten(Prefix(c, k))'
      <3>1. CASE k \in 0..Len(p)
        <4>1. Prefix(c, k) = Prefix(p, k) /\ Prefix(p, k) \in Seq(edges)
          BY <1>4, <2>4, <3>1, PrefixIsBefore
        <4> QED
          BY <1>11, <2>2, <3>1, <4>1
      <3>2. CASE k = Len(c)
        <4>1. Prefix(c, k) = c
          BY <2>1, <3>2, PrefixWhole
        <4> QED
          BY <1>12, <4>1
      <3> QED
        BY <2>3, <3>1, <3>2
    <2> QED
      BY <1>13, <2>6, <2>7 DEF Candidate, T
  <1>16. ASSUME NEW n \in nodes, NEW d \in {best'[n]}, d # None
         PROVE  /\ Candidate(d)' /\ End(d)' = n
                /\ d \in queue' \/ Extended(n, d)'
    <2>1. End(d)' = End(d)
      BY <1>1, GraphStays
    <2>2. CASE to(n) # {}
      <3>1. d \in better /\ End(d) = n
        BY <1>9, <2>2
      <3> QED
        BY <1>1, <1>15, <2>1, <3>1
    <2>3. CASE to(n) = {}
      <3>1. d = best[n]
        BY <1>9, <2>3
      <3>2. Candidate(d) /\ End(d) = n /\ (d \in queue \/ Extended(n, d))
        BY <1>2, <1>16, <3>1
      <3>3. Candidate(d)' /\ End(d)' = n
        BY <1>14, <2>1, <3>2
      <3>4. d \in Seq(edges)
        BY <3>2, CandidateIsPath
      <3>5. CASE d \in queue /\ d # p
        BY <1>1, <3>3, <3>5
      <3>6. CASE d = p
        <4>1. ASSUME NEW e \in T \cap Out(n) PROVE Beaten(Append(d, e))'
          <5>1. e \in edges /\ Append(d, e) \in Seq(edges) /\ End(Append(d, e)) = e.to
            BY <1>3, <3>4, EndIsTip
          <5>2. CASE Improves(Append(d, e))
            <6>1. Append(d, e) \in better
              BY <3>1, <3>2, <3>6, <5>2 DEF better, T
            <6> QED
              BY <1>12, <6>1
          <5>3. CASE ~Improves(Append(d, e))
            <6>1. Beaten(Append(d, e))
              BY <5>3 DEF Improves, Beaten
            <6> QED
              BY <1>11, <5>1, <6>1
          <5> QED
            BY <5>2, <5>3
        <4>2. Extended(n, d)'
          BY <1>13, <4>1 DEF Extended, T
        <4> QED
          BY <3>3, <4>2
      <3>7. CASE Extended(n, d)
        <4>1. ASSUME NEW e \in T \cap Out(n) PROVE Beaten(Append(d, e))'
          <5>1. Append(d, e) \in Seq(edges)
            BY <1>3, <3>4, EndIsTip
          <5>2. Beaten(Append(d, e))
            BY <3>7 DEF Extended, T
          <5> QED
            BY <1>11, <5>1, <5>2
        <4>2. Extended(n, d)'
          BY <1>13, <4>1 DEF Extended, T
        <4> QED
          BY <3>3, <4>2
      <3> QED
        BY <3>2, <3>5, <3>6, <3>7
    <2> QED
      BY <2>2, <2>3
  <1>17. best' \in [nodes' -> Seq(edges') \cup {None}]
    <2>1. \A n \in nodes : (IF to(n) = {} THEN best[n] ELSE LeastPath(to(n))) \in Seq(edges) \cup {None}
      BY <1>2, <1>7, <1>8
    <2> QED
      BY <1>1, <1>13, <2>1
  <1>18. IsFiniteSet(queue')
    <2>1. IsFiniteSet(queue \ {p})
      BY <1>2, FS_RemoveElement
    <2> QED
      BY <1>1, <1>7, <2>1, FS_Union
  <1>19. \A q \in queue' : Candidate(q)'
    BY <1>1, <1>2, <1>14, <1>15
  <1>20. target \notin Excluded(pc)
    <2>1. 0 \in 0..Len(p)
      BY <1>5, LenProperties
    <2>2. Prefix(p, 0) \in Seq(edges) /\ Beaten(Prefix(p, 0))
      BY <1>4, <1>5, <2>1, PrefixIsBefore DEF Candidate
    <2>3. \E n \in nodes : best[n] # None
      BY <2>2, EndIsTip DEF Beaten
    <2> QED
      BY <1>2, <2>3
  <1>21. best'[target] = <<>>
    <2>1. ASSUME to(target) # {} PROVE FALSE
      <3>1. PICK c \in better : End(c) = target
        BY <2>1
      <3>2. PICK e \in T : c = Append(p, e) /\ End(c) = e.to
        BY <1>6
      <3>3. IsPath(c, target, T)
        BY <1>13, <1>15 DEF Candidate, T
      <3>4. e.to # target
        BY <1>5, <3>2, <3>3, PathAppend DEF Met
      <3> QED
        BY <3>1, <3>2, <3>4
    <2> QED
      BY <1>2, <1>3, <1>9, <1>20, <2>1
  <1> QED
    BY <1>1, <1>13, <1>16, <1>17, <1>18, <1>19, <1>20, <1>21 DEF SearchRuns

(* With nothing left to take, each path is beaten: what is beaten up to a node was
   extended from there by the path that beats it. *)
LEMMA SearchFinds ==
  ASSUME Graph, SearchRuns, pc \in Searches, queue = {}
  PROVE  \A s \in {pc} : \A found \in {best} : Least(s, found)
  <1> DEFINE T == Taken(pc)
  <1>1. /\ best \in [nodes -> Seq(edges) \cup {None}]
        /\ \A n \in nodes : \A b \in {best[n]} : b # None =>
             Candidate(b) /\ End(b) = n /\ Extended(n, b)
        /\ IF target \in Excluded(pc) THEN \A n \in nodes : best[n] = None ELSE best[target] = <<>>
    BY DEF SearchRuns
  <1>2. T \subseteq edges /\ None \notin Seq(edges) /\ target \in nodes /\ <<>> \in Seq(edges)
    <2>1. T \subseteq edges
      BY DEF Taken
    <2>2. <<>> \in Seq(edges)
      OBVIOUS
    <2> QED
      BY <2>1, <2>2, EdgeEnds
  <1>3. \A q \in Seq(T) : q \in Seq(edges)
    BY <1>2, SeqMonotonic
  <1> DEFINE K == {k \in Nat : \A q \in Seq(T) : IsPath(q, target, T) /\ Len(q) = k => Beaten(q)}
  <1>4. ASSUME target \notin Excluded(pc) PROVE 0 \in K
    <2> HIDE DEF T
    <2> SUFFICES ASSUME NEW q \in Seq(T), Len(q) = 0 PROVE Beaten(q)
      OBVIOUS
    <2>1. q = <<>>
      BY EmptySeq
    <2>2. End(q) = target
      BY <2>1 DEF End
    <2>3. best[target] = q /\ q # None /\ ~lessPath(q, q)
      BY <1>1, <1>2, <1>4, <2>1, PathOrder
    <2> QED
      BY <2>2, <2>3 DEF Beaten
  <1>5. ASSUME NEW k \in Nat, k \in K PROVE k + 1 \in K
    <2> HIDE DEF T
    <2> SUFFICES ASSUME NEW q \in Seq(T), IsPath(q, target, T), Len(q) = k + 1 PROVE Beaten(q)
      OBVIOUS
    <2>1. q # <<>>
      OBVIOUS
    <2>2. PICK r \in Seq(T), e \in T : q = Append(r, e)
      BY <2>1, SequenceEmptyOrAppend
    <2>3. Len(r) = k
      BY <2>2, LenProperties, AppendProperties
    <2>4. IsPath(r, target, T) /\ e.from = Tip(r, target)
      BY <2>2, PathAppend
    <2>5. r \in Seq(edges) /\ e \in edges /\ End(r) = e.from /\ End(r) \in nodes
      BY <1>2, <1>3, <2>4, EndIsTip
    <2>6. Beaten(r)
      BY <1>5, <2>3, <2>4
    <2>7. PICK b \in {best[End(r)]} : b # None /\ ~lessPath(r, b)
      BY <2>6 DEF Beaten
    <2>8. Candidate(b) /\ End(b) = End(r) /\ Extended(End(r), b)
      BY <1>1, <2>5, <2>7
    <2>9. b \in Seq(edges)
      BY <2>8, CandidateIsPath
    <2>10. e \in T \cap Out(End(r))
      BY <2>5 DEF Out
    <2>11. Beaten(Append(b, e))
      BY <2>8, <2>10 DEF Extended, T
    <2>12. /\ Append(b, e) \in Seq(edges) /\ End(Append(b, e)) = e.to
           /\ q \in Seq(edges) /\ End(q) = e.to
      BY <2>2, <2>5, <2>9, EndIsTip
    <2>13. PICK d \in {best[e.to]} : d # None /\ ~lessPath(Append(b, e), d)
      BY <2>11, <2>12 DEF Beaten
    <2>14. d \in Seq(edges)
      BY <1>1, <2>5, <2>13, EdgeEnds
    <2>15. ~lessPath(q, Append(b, e))
      BY <2>2, <2>4, <2>5, <2>7, <2>8, <2>9, ExtensionKeepsOrder
    <2>16. ~lessPath(q, d)
      BY <2>12, <2>13, <2>14, <2>15, PathOrder
    <2> QED
      BY <2>12, <2>13, <2>16 DEF Beaten
  <1>6. ASSUME target \notin Excluded(pc), NEW q \in Seq(T), IsPath(q, target, T) PROVE Beaten(q)
    <2>1. Nat \subseteq K
      <3> HIDE DEF K
      <3> QED
        BY <1>4, <1>5, <1>6, SetInduction
    <2>2. Len(q) \in Nat
      BY LenProperties
    <2> QED
      BY <1>6, <2>1, <2>2
  <1> SUFFICES ASSUME NEW s \in {pc}, NEW found \in {best}, NEW n \in nodes, NEW b \in {found[n]}
               PROVE  LET S == {p \in Ways(s) : End(p) = n}
                      IN  IF S = {} THEN b = None ELSE b \in S /\ \A q \in S : ~lessPath(q, b)
    BY DEF Least
  <1> DEFINE S == {p \in Ways(s) : End(p) = n}
  <1>7. Ways(s) = IF target \in Excluded(pc) THEN {} ELSE {p \in Seq(T) : IsPath(p, target, T)}
    BY DEF Ways
  <1>8. b = best[n]
    OBVIOUS
  <1>9. ASSUME b # None PROVE b \in S
    <2>1. target \notin Excluded(pc)
      BY <1>1, <1>8, <1>9
    <2>2. Candidate(b) /\ End(b) = n
      BY <1>1, <1>8, <1>9
    <2> QED
      BY <1>7, <2>1, <2>2, CandidateIsPath
  <1>10. ASSUME NEW q \in S PROVE b # None /\ ~lessPath(q, b)
    <2>1. target \notin Excluded(pc) /\ q \in Seq(T) /\ IsPath(q, target, T) /\ End(q) = n
      BY <1>7
    <2>2. Beaten(q)
      BY <1>6, <2>1
    <2> QED
      BY <1>8, <2>1, <2>2 DEF Beaten
  <1> HIDE DEF S, T
  <1>11. IF S = {} THEN b = None ELSE b \in S /\ \A q \in S : ~lessPath(q, b)
    BY <1>9, <1>10
  <1> QED
    BY <1>11 DEF S

(* Paths stay the least as long as the graph stays. *)
LEMMA LeastStays ==
  ASSUME UNCHANGED graph, NEW s, NEW found, Least(s, found)
  PROVE  Least(s, found)'
  <1>1. /\ nodes' = nodes /\ Ways(s)' = Ways(s)
        /\ \A p : End(p)' = End(p)
        /\ \A p, q : lessPath(p, q)' <=> lessPath(p, q)
    BY GraphStays
  <1> QED
    BY <1>1 DEF Least

(* What the searches found stays found. *)
LEMMA PathsStay ==
  ASSUME PathsFound, UNCHANGED <<graph, paths>>, SearchesOver' \subseteq SearchesOver
  PROVE  PathsFound'
  <1> SUFFICES ASSUME NEW s \in SearchesOver', NEW found \in {paths'[s]} PROVE Least(s, found)'
    BY DEF PathsFound
  <1>1. found \in {paths[s]} /\ s \in SearchesOver
    OBVIOUS
  <1>2. Least(s, found)
    BY <1>1 DEF PathsFound
  <1> QED
    BY <1>2, LeastStays

(* The end of a search keeps the invariant: what it found is the least. *)
LEMMA SearchDoneKeeps ==
  ASSUME Typed, SearchRuns, PathsFound, SearchDone
  PROVE  Typed' /\ SearchRuns' /\ PathsFound' /\ pc' \in {"confirmed", "limitFree", "cycles"}
  <1> DEFINE skip == pc = "all" /\ \A e \in edges : confirmed(e)
             next == CASE pc = "limitFree" -> "cycles"
                       [] pc = "all" /\ ~skip -> "confirmed"
                       [] OTHER -> "limitFree"
  <1>1. /\ pc \in Searches /\ queue = {} /\ pc' = next
        /\ paths' = [s \in Searches |->
                       IF s = pc \/ (skip /\ s = "confirmed") THEN best ELSE paths[s]]
        /\ best' = FirstBest(next)
        /\ queue' = IF next \in Searches THEN FirstQueue(next) ELSE {}
        /\ UNCHANGED graph
    BY DEF SearchDone
  <1>2. Graph /\ Graph'
    BY <1>1, GraphStays DEF Typed
  <1>3. next \in {"confirmed", "limitFree", "cycles"} /\ skip \in BOOLEAN
    BY DEF Searches
  <1>4. Typed'
    BY <1>1, <1>2, <1>3 DEF Typed, Searches
  <1>5. SearchRuns'
    <2>1. CASE next \notin Searches
      BY <1>1, <2>1 DEF SearchRuns
    <2>2. CASE next \in Searches
      <3>1. pc' \in Searches
        BY <1>1, <2>2
      <3>2. best' = FirstBest(pc)'
        BY <1>1 DEF FirstBest, Excluded, graph
      <3>3. queue' = FirstQueue(pc)'
        BY <1>1, <2>2 DEF FirstQueue, Excluded, graph
      <3>4. (Graph /\ pc \in Searches /\ best = FirstBest(pc) /\ queue = FirstQueue(pc)
              => SearchRuns)'
        BY SearchBegins, PTL
      <3> QED
        BY <1>2, <3>1, <3>2, <3>3, <3>4
    <2> QED
      BY <2>1, <2>2
  <1>6. \A found \in {best} : \A s \in {pc} : Least(s, found)
    BY <1>1, <1>2, SearchFinds
  <1>7. ASSUME skip, NEW found, Least("all", found) PROVE Least("confirmed", found)
    <2>1. Taken("confirmed") = Taken("all") /\ Excluded("confirmed") = Excluded("all")
      BY <1>7 DEF Taken, Excluded
    <2>2. Ways("confirmed") = Ways("all")
      BY <2>1 DEF Ways
    <2> QED
      BY <1>7, <2>2 DEF Least
  <1>8. ASSUME NEW s \in SearchesOver', NEW found \in {paths'[s]} PROVE Least(s, found)
    <2>1. s \in Searches
      BY <1>8 DEF SearchesOver, Searches
    <2>2. found = IF s = pc \/ (skip /\ s = "confirmed") THEN best ELSE paths[s]
      BY <1>1, <2>1
    <2>3. CASE s = pc
      BY <1>6, <2>2, <2>3
    <2>4. CASE skip /\ s = "confirmed"
      <3>1. found \in {best} /\ "all" \in {pc}
        BY <2>2, <2>4
      <3>2. Least("all", found)
        BY <1>6, <3>1
      <3> QED
        BY <1>7, <2>4, <3>2
    <2>5. CASE s # pc /\ ~(skip /\ s = "confirmed")
      <3>1. found \in {paths[s]}
        BY <2>2, <2>5
      <3>2. s \in SearchesOver
        <4>1. CASE pc = "limitFree"
          BY <2>1, <2>5, <4>1 DEF SearchesOver, Searches
        <4>2. CASE pc = "confirmed"
          <5>1. pc' = "limitFree"
            BY <1>1, <4>2
          <5>2. s = "all"
            BY <1>8, <2>5, <4>2, <5>1 DEF SearchesOver
          <5> QED
            BY <4>2, <5>2 DEF SearchesOver
        <4>3. CASE pc = "all" /\ skip
          <5>1. pc' = "limitFree"
            BY <1>1, <4>3
          <5> QED
            BY <1>8, <2>5, <4>3, <5>1 DEF SearchesOver
        <4>4. CASE pc = "all" /\ ~skip
          <5>1. pc' = "confirmed"
            BY <1>1, <4>4
          <5> QED
            BY <1>8, <2>5, <4>4, <5>1 DEF SearchesOver
        <4> QED
          BY <1>1, <4>1, <4>2, <4>3, <4>4 DEF Searches
      <3> QED
        BY <3>1, <3>2 DEF PathsFound
    <2> QED
      BY <2>3, <2>4, <2>5
  <1>9. PathsFound'
    BY <1>1, <1>8, LeastStays DEF PathsFound
  <1> QED
    BY <1>1, <1>3, <1>4, <1>5, <1>9

--------------------------------------------------------------------------------
(* The ways round the cycles. *)

(* A cycle is a set of nodes that reach each other, and no node outside does. *)
LEMMA CycleNodes ==
  ASSUME Graph, NEW c \in cycles
  PROVE  /\ c \subseteq nodes /\ c \subseteq Nat \ {0} /\ IsFiniteSet(c) /\ c # {}
         /\ Start(c) \in c
         /\ \A x, y \in c : y \in Reached(edges, x)
         /\ \A x \in c, y \in nodes : y \in Reached(edges, x) /\ x \in Reached(edges, y) => y \in c
         /\ Cardinality(c) = 1 => \E e \in edges : e.from \in c /\ e.to \in c
  <1>1. c \in Components /\ (Cardinality(c) = 1 => \E e \in edges : e.from \in c /\ e.to \in c)
    BY DEF Graph
  <1>2. PICK m \in nodes : c = {n \in nodes : n \in Reached(edges, m) /\ m \in Reached(edges, n)}
    BY <1>1 DEF Components
  <1>3. m \in c
    BY <1>2, ReachedAre, EndsClosed
  <1>4. c \subseteq nodes /\ c # {} /\ IsFiniteSet(c) /\ c \subseteq Nat \ {0}
    <2>1. c \subseteq nodes
      BY <1>2
    <2> QED
      BY <1>3, <2>1, EdgeEnds, FS_Subset
  <1>5. Start(c) \in c
    BY <1>4, MinIsLeast DEF Start
  <1>6. ASSUME NEW x \in c, NEW y \in c PROVE y \in Reached(edges, x)
    <2>1. y \in Reached(edges, m) /\ m \in Reached(edges, x) /\ x \in nodes
      BY <1>2
    <2> QED
      BY <2>1, ReachedOnwards
  <1>7. ASSUME NEW x \in c, NEW y \in nodes, y \in Reached(edges, x), x \in Reached(edges, y)
        PROVE  y \in c
    <2>1. x \in Reached(edges, m) /\ m \in Reached(edges, x) /\ x \in nodes
      BY <1>2
    <2>2. y \in Reached(edges, m)
      BY <1>7, <2>1, ReachedOnwards
    <2>3. m \in Reached(edges, y)
      BY <1>7, <2>1, ReachedOnwards
    <2> QED
      BY <1>2, <2>2, <2>3
  <1> QED
    BY <1>1, <1>4, <1>5, <1>6, <1>7

(* A path between two nodes of a cycle does not leave it. *)
LEMMA PathStaysWithin ==
  ASSUME Graph, NEW c \in cycles, NEW x \in c, NEW y \in c,
         NEW p, IsPath(p, x, edges), Tip(p, x) = y
  PROVE  IsPath(p, x, Within(c))
  <1> DEFINE n == Len(p)
             at(i) == IF i = 0 THEN x ELSE p[i].to
  <1>1. p \in Seq(edges) /\ n \in Nat /\ DOMAIN p = 1..n /\ \A i \in 1..n : p[i] \in edges
    BY LenProperties, ElementOfSeq DEF IsPath
  <1>2. x \in nodes /\ \A i \in 0..n : at(i) \in nodes
    BY <1>1, CycleNodes, EdgeEnds
  <1>3. ASSUME NEW i \in 1..n PROVE p[i].from = at(i - 1) /\ at(i) = p[i].to
    <2>1. i # 0 /\ (i - 1 = 0) = (i = 1)
      BY <1>1
    <2> QED
      BY <1>1, <2>1 DEF IsPath
  <1>4. at(n) = y
    BY EmptySeq DEF Tip, Last
  <1>5. ASSUME NEW i \in 0..n PROVE at(i) \in Reached(edges, x)
    <2> DEFINE q == Prefix(p, i)
    <2>1. IsPath(q, x, edges) /\ Tip(q, x) = at(i)
      <3>1. i \in 0..Len(p)
        OBVIOUS
      <3> QED
        BY <3>1, PathPrefix
    <2> HIDE DEF q, at
    <2>2. q \in PathsFrom(x, edges)
      BY <2>1 DEF PathsFrom, IsPath
    <2>3. at(i) \in Ends(x, edges)
      BY <2>1, <2>2 DEF Ends
    <2> QED
      BY <1>2, <2>3, ReachedAre
  <1> DEFINE K == {k \in Nat : k \in 0..n => y \in Reached(edges, at(n - k))}
  <1>6. 0 \in K
    <2>1. y \in Reached(edges, y)
      BY CycleNodes
    <2> QED
      BY <1>1, <1>4, <2>1
  <1>7. ASSUME NEW k \in Nat, k \in K PROVE k + 1 \in K
    <2> DEFINE i == n - k
    <2> SUFFICES ASSUME k + 1 \in 0..n PROVE y \in Reached(edges, at(n - (k + 1)))
      OBVIOUS
    <2>1. i \in 1..n /\ i - 1 = n - (k + 1) /\ k \in 0..n /\ i \in 0..n /\ i - 1 \in 0..n
      BY <1>1
    <2>2. y \in Reached(edges, at(i))
      BY <1>7, <2>1
    <2> HIDE DEF i, at
    <2>3. p[i] \in edges /\ p[i].from = at(i - 1) /\ p[i].to = at(i)
      BY <1>1, <1>3, <2>1
    <2>4. at(i) \in Reached(edges, at(i - 1))
      <3>1. at(i - 1) \in Ends(at(i - 1), edges)
        BY <1>2, <2>1, EndsClosed
      <3>2. at(i) \in Ends(at(i - 1), edges)
        BY <1>2, <2>1, <2>3, <3>1, EndsClosed
      <3> QED
        BY <1>2, <2>1, <3>2, ReachedAre
    <2>5. y \in Reached(edges, at(i - 1))
      BY <1>2, <2>1, <2>2, <2>4, ReachedOnwards
    <2> QED
      BY <2>1, <2>5
  <1>8. ASSUME NEW i \in 0..n PROVE at(i) \in c
    <2>1. n - i \in Nat /\ n - i \in 0..n /\ n - (n - i) = i
      BY <1>1
    <2>2. n - i \in K
      <3> HIDE DEF K
      <3> QED
        BY <1>6, <1>7, <2>1, SetInduction
    <2>3. y \in Reached(edges, at(n - (n - i)))
      BY <2>1, <2>2
    <2> HIDE DEF at, K, n
    <2>4. y \in Reached(edges, at(i))
      BY <2>1, <2>3
    <2>5. x \in Reached(edges, at(i))
      <3>1. x \in Reached(edges, y) /\ y \in nodes
        BY CycleNodes
      <3> QED
        BY <1>2, <2>4, <3>1, ReachedOnwards
    <2> QED
      BY <1>2, <1>5, <2>5, CycleNodes
  <1>9. \A i \in 1..n : p[i] \in Within(c)
    <2> SUFFICES ASSUME NEW i \in 1..n PROVE p[i] \in Within(c)
      OBVIOUS
    <2>1. i \in 0..n /\ i - 1 \in 0..n
      BY <1>1
    <2> HIDE DEF at
    <2> QED
      BY <1>1, <1>3, <1>8, <2>1 DEF Within
  <1>10. p \in Seq(Within(c))
    <2>1. p \in [1..n -> Within(c)]
      BY <1>1, <1>9, LenProperties
    <2> QED
      BY <1>1, <2>1
  <1> QED
    BY <1>10 DEF IsPath

(* shortestHopPath picks one of the paths. *)
LEMMA LeastHopPathExists ==
  ASSUME Graph, NEW S \in SUBSET Seq(edges), IsFiniteSet(S), S # {}
  PROVE  LeastHopPath(S) \in S
  <1> DEFINE keys == {HopKey(p) : p \in S}
             key == [p \in S |-> HopKey(p)]
  <1>1. \A p \in S : HopKey(p) \in Seq(Nat)
    <2> SUFFICES ASSUME NEW p \in S PROVE HopKey(p) \in Seq(Nat)
      OBVIOUS
    <2> DEFINE a == <<Len(p)>>
               b == NodeIDs(p)
               c == <<0>>
               d == RelationIDs(p)
    <2>1. a \in Seq(Nat) /\ c \in Seq(Nat)
      BY LenProperties
    <2>2. b \in Seq(Nat)
      BY EdgeEnds DEF NodeIDs
    <2>3. d \in Seq(Nat)
      BY RelationIDsType
    <2>4. HopKey(p) = ((a \o b) \o c) \o d
      BY DEF HopKey
    <2> HIDE DEF a, b, c, d
    <2> QED
      BY <2>1, <2>2, <2>3, <2>4, ConcatProperties
  <1>2. key \in Surjection(S, keys)
    BY DEF Surjection
  <1>3. keys \in SUBSET Seq(Nat) /\ keys # {}
    BY <1>1
  <1>4. IsFiniteSet(keys)
    <2> HIDE DEF keys, key
    <2> QED
      BY <1>2, FS_Surjection
  <1>5. PICK m \in keys : \A k \in keys : ~Before(k, m)
    <2> HIDE DEF keys
    <2> QED
      BY <1>3, <1>4, FirstExists
  <1>6. \E p \in S : \A q \in S : ~Before(HopKey(q), HopKey(p))
    BY <1>5
  <1> QED
    BY <1>6 DEF LeastHopPath

(* Where the best paths found so far lead, and that they go through such nodes only. *)
Found(f, m, E) ==
  /\ m \in DOMAIN f
  /\ \A n \in DOMAIN f : /\ f[n] \in Seq(E)
                         /\ IsPath(f[n], m, E)
                         /\ Tip(f[n], m) = n
                         /\ Met(f[n], m) \subseteq DOMAIN f
FoundPaths(m, E) == {f \in UNION {[D -> Seq(E)] : D \in SUBSET nodes} : Found(f, m, E)}

(* The next hop comes to all that an edge leads to. *)
LEMMA FartherGoes ==
  ASSUME Graph, NEW E \in SUBSET edges, NEW m, NEW f \in FoundPaths(m, E)
  PROVE  /\ Farther(f, E) \in FoundPaths(m, E)
         /\ DOMAIN f \subseteq DOMAIN Farther(f, E)
         /\ \A e \in E : e.from \in DOMAIN f => e.to \in DOMAIN Farther(f, E)
  <1> DEFINE D == DOMAIN f
             on == {e \in E : e.from \in D /\ e.to \notin D}
             new == {e.to : e \in on}
             S(n) == {Append(f[e.from], e) : e \in {d \in on : d.to = n}}
             g == Farther(f, E)
  <1>1. /\ Found(f, m, E) /\ D \subseteq nodes /\ f \in [D -> Seq(E)]
        /\ Seq(E) \subseteq Seq(edges)
    BY SeqMonotonic DEF FoundPaths
  <1>2. g = [n \in D \cup new |-> IF n \in D THEN f[n] ELSE LeastHopPath(S(n))]
    BY DEF Farther
  <1>3. new \subseteq nodes
    BY EdgeEnds
  <1>4. ASSUME NEW n \in new
        PROVE  \E e \in E : /\ e.from \in D /\ e.to = n /\ n \notin D
                            /\ LeastHopPath(S(n)) = Append(f[e.from], e)
    <2> DEFINE into == {d \in on : d.to = n}
               h == [e \in into |-> Append(f[e.from], e)]
    <2>1. S(n) # {}
      OBVIOUS
    <2>2. S(n) \in SUBSET Seq(edges)
      <3> SUFFICES ASSUME NEW e \in into PROVE Append(f[e.from], e) \in Seq(edges)
        OBVIOUS
      <3>1. f[e.from] \in Seq(edges) /\ e \in edges
        BY <1>1
      <3> QED
        BY <3>1, AppendProperties
    <2>3. IsFiniteSet(S(n))
      <3>1. h \in Surjection(into, S(n))
        BY DEF Surjection
      <3>2. IsFiniteSet(into)
        <4>1. into \subseteq edges
          OBVIOUS
        <4> HIDE DEF into
        <4> QED
          BY <4>1, EdgesFinite, FS_Subset
      <3> HIDE DEF h, into, S
      <3> QED
        BY <3>1, <3>2, FS_Surjection
    <2> DEFINE T == S(n)
    <2>4. LeastHopPath(T) \in T
      <3> HIDE DEF T
      <3> QED
        BY <2>1, <2>2, <2>3, LeastHopPathExists DEF T
    <2> QED
      BY <2>4
  <1> DEFINE Fits(p, n) == /\ p \in Seq(E)
                           /\ IsPath(p, m, E)
                           /\ Tip(p, m) = n
                           /\ Met(p, m) \subseteq D \cup new
  <1>5. ASSUME NEW n \in D PROVE Fits(f[n], n)
    BY <1>1 DEF Found
  <1>6. ASSUME NEW n \in new PROVE Fits(LeastHopPath(S(n)), n)
    <2>1. PICK e \in E : /\ e.from \in D /\ e.to = n /\ n \notin D
                         /\ LeastHopPath(S(n)) = Append(f[e.from], e)
      BY <1>4
    <2> DEFINE p == f[e.from]
               q == Append(p, e)
    <2>2. /\ p \in Seq(E) /\ IsPath(p, m, E) /\ Tip(p, m) = e.from /\ Met(p, m) \subseteq D
      BY <1>1, <2>1 DEF Found
    <2> HIDE DEF p
    <2>3. q \in Seq(E) /\ IsPath(q, m, E)
      BY <2>1, <2>2, PathAppend, AppendProperties
    <2>4. Tip(q, m) = n
      BY <2>1, <2>2, PathTip
    <2>5. Met(q, m) = Met(p, m) \cup {n}
      <3>1. /\ DOMAIN p = 1..Len(p) /\ Len(p) \in Nat /\ DOMAIN q = 1..(Len(p) + 1)
            /\ \A i \in 1..Len(p) : q[i] = p[i]
            /\ q[Len(p) + 1] = e
        BY <2>2, LenProperties, AppendProperties
      <3>2. DOMAIN q = DOMAIN p \cup {Len(p) + 1}
        BY <3>1
      <3> HIDE DEF q
      <3> QED
        BY <2>1, <3>1, <3>2 DEF Met
    <2> HIDE DEF D, new, S
    <2> QED
      BY <2>1, <2>2, <2>3, <2>4, <2>5 DEF p
  <1>7. DOMAIN g = D \cup new /\ \A n \in D \cup new : Fits(g[n], n)
    <2> HIDE DEF Fits, S, new, D, g
    <2> QED
      BY <1>2, <1>5, <1>6
  <1>8. Found(g, m, E)
    <2>1. m \in D
      BY <1>1 DEF Found
    <2> HIDE DEF new, g
    <2> QED
      BY <1>7, <2>1 DEF Found
  <1>9. g \in [D \cup new -> Seq(E)] /\ D \cup new \in SUBSET nodes
    <2>1. g = [n \in D \cup new |-> g[n]]
      <3> HIDE DEF S, new, D, g
      <3> QED
        BY <1>2
    <2> HIDE DEF new, g
    <2> QED
      BY <1>1, <1>3, <1>7, <2>1
  <1>10. g \in FoundPaths(m, E)
    <2> HIDE DEF new, g, D
    <2> QED
      BY <1>8, <1>9 DEF FoundPaths
  <1>11. \A e \in E : e.from \in D => e.to \in D \cup new
    OBVIOUS
  <1> HIDE DEF S, new, Fits
  <1> QED
    BY <1>7, <1>10, <1>11

(* In the end there is a path to each node of the cycle. *)
LEMMA BestPathsGo ==
  ASSUME Graph, NEW c \in cycles, At(c) \in c, NEW n \in c
  PROVE  IsPath(BestPaths(c)[n], At(c), Within(c)) /\ Tip(BestPaths(c)[n], At(c)) = n
  <1> DEFINE C == Cardinality(nodes)
             m == At(c)
             E == Within(c)
             X == FoundPaths(m, E)
             a == [x \in {m} |-> <<>>]
             step == [k \in 1..C |-> [f \in X |-> Farther(f, E)]]
             Is(g) == g = [k \in 0..C |-> IF k = 0 THEN a ELSE Farther(g[k - 1], E)]
             B == CHOOSE g : Is(g)
  <1>1. C \in Nat /\ m \in nodes /\ m \in c /\ c \subseteq nodes /\ E \in SUBSET edges
    BY CycleNodes, EdgeEnds, FS_CardinalityType DEF Within
  <1>2. BestPaths(c) = B[C]
    BY DEF BestPaths
  <1> HIDE DEF C, m, E
  <1>3. a \in X
    <2>1. DOMAIN a = {m} /\ a[m] = <<>> /\ a \in [{m} -> Seq(E)] /\ {m} \in SUBSET nodes
      BY <1>1
    <2>2. Met(<<>>, m) = {m}
      BY DEF Met
    <2>3. Found(a, m, E)
      BY <2>1, <2>2, PathEmpty DEF Found
    <2> HIDE DEF a
    <2> QED
      BY <2>1, <2>3 DEF FoundPaths
  <1>4. step \in [1..C -> [X -> X]]
    <2>1. \A f \in X : Farther(f, E) \in X
      BY <1>1, FartherGoes
    <2> HIDE DEF X
    <2> QED
      BY <2>1
  <1>5. PICK f \in [0..C -> X] : Follows(f, C, a, step)
    <2> HIDE DEF X, a, step
    <2> QED
      BY <1>1, <1>3, <1>4, Recursion
  <1>6. Is(f)
    <2>1. \A k \in 1..C : f[k] = Farther(f[k - 1], E)
      <3> SUFFICES ASSUME NEW k \in 1..C PROVE f[k] = Farther(f[k - 1], E)
        OBVIOUS
      <3>1. k - 1 \in 0..C
        BY <1>1
      <3>2. f[k - 1] \in X
        BY <3>1
      <3> HIDE DEF X, a
      <3> QED
        BY <1>5, <3>2 DEF Follows
    <2>2. \A k \in 0..C : k # 0 => k \in 1..C
      BY <1>1
    <2> HIDE DEF X, a, step
    <2> QED
      BY <1>5, <2>1, <2>2 DEF Follows
  <1>7. Is(B)
    <2> HIDE DEF Is
    <2> QED
      BY <1>6
  <1> HIDE DEF B
  <1> HIDE DEF a
  <1>8. B[0] = a /\ \A k \in 1..C : B[k] = Farther(B[k - 1], E)
    <2>1. \A k \in 1..C : k \in 0..C /\ k # 0
      BY <1>1
    <2> QED
      BY <1>1, <1>7, <2>1
  <1> DEFINE Reaches(k) == /\ B[k] \in X
                           /\ \A p : IsPath(p, m, E) /\ Len(p) <= k => Tip(p, m) \in DOMAIN B[k]
             K == {k \in Nat : k <= C => Reaches(k)}
  <1> HIDE DEF X
  <1>9. 0 \in K
    <2>1. ASSUME NEW p, IsPath(p, m, E), Len(p) <= 0 PROVE Tip(p, m) = m
      BY <2>1, EmptySeq DEF IsPath, Tip
    <2>2. m \in DOMAIN B[0]
      BY <1>8 DEF a
    <2> QED
      BY <1>3, <1>8, <2>1, <2>2
  <1>10. ASSUME NEW k \in Nat, k \in K PROVE k + 1 \in K
    <2> DEFINE j == k + 1
    <2> SUFFICES ASSUME j <= C PROVE Reaches(j)
      OBVIOUS
    <2>1. j \in 1..C /\ j - 1 = k /\ k <= C
      BY <1>1
    <2>2. Reaches(k)
      BY <1>10, <2>1
    <2>3. B[j] = Farther(B[k], E)
      BY <1>8, <2>1
    <2>4. /\ B[j] \in X
          /\ DOMAIN B[k] \subseteq DOMAIN B[j]
          /\ \A e \in E : e.from \in DOMAIN B[k] => e.to \in DOMAIN B[j]
      BY <1>1, <2>2, <2>3, FartherGoes DEF X
    <2>5. ASSUME NEW p, IsPath(p, m, E), Len(p) <= j PROVE Tip(p, m) \in DOMAIN B[j]
      <3>1. p \in Seq(E) /\ Len(p) \in Nat
        BY <2>5, LenProperties DEF IsPath
      <3>2. CASE Len(p) <= k
        BY <2>2, <2>4, <2>5, <3>2
      <3>3. CASE ~(Len(p) <= k)
        <4>1. Len(p) = j /\ p # <<>>
          BY <2>5, <3>1, <3>3, EmptySeq
        <4>2. PICK q \in Seq(E), e \in E : p = Append(q, e)
          BY <3>1, <4>1, SequenceEmptyOrAppend
        <4>3. Len(q) = k
          BY <4>1, <4>2, LenProperties, AppendProperties
        <4>4. IsPath(q, m, E) /\ e.from = Tip(q, m)
          BY <2>5, <4>2, PathAppend
        <4>5. e.from \in DOMAIN B[k]
          BY <2>2, <4>3, <4>4
        <4>6. Tip(p, m) = e.to
          BY <4>2, PathTip
        <4> QED
          BY <2>4, <4>5, <4>6
      <3> QED
        BY <3>2, <3>3
    <2> QED
      BY <2>4, <2>5
  <1>11. Reaches(C)
    <2>1. C \in K
      <3> HIDE DEF K
      <3> QED
        BY <1>1, <1>9, <1>10, SetInduction
    <2> HIDE DEF Reaches
    <2> QED
      BY <1>1, <2>1
  <1>12. n \in DOMAIN B[C]
    <2>1. n \in Ends(m, edges)
      <3>1. n \in Reached(edges, m)
        BY <1>1, CycleNodes
      <3> QED
        BY <1>1, <3>1, ReachedAre
    <2>2. PICK p \in Seq(edges) : IsPath(p, m, edges) /\ Tip(p, m) = n
      BY <2>1 DEF Ends, PathsFrom
    <2>3. IsPath(p, m, E)
      BY <1>1, <2>2, PathStaysWithin DEF E
    <2>4. Len(p) \in Nat /\ Len(p) <= C
      BY <1>1, <2>3, PathLength DEF C
    <2> QED
      BY <1>11, <2>2, <2>3, <2>4
  <1>13. Found(B[C], m, E)
    BY <1>11 DEF X, FoundPaths
  <1> QED
    BY <1>2, <1>12, <1>13 DEF Found, m, E

(* A segment leads from where the way has come to its goal. *)
LEMMA SegmentGoes ==
  ASSUME Graph, NEW c \in cycles, route[c] \in Seq(Within(c)), ~IsClosed(c)
  PROVE  /\ Segment(c) \in Seq(Within(c)) /\ Segment(c) # <<>>
         /\ \A i \in DOMAIN Segment(c) :
              Segment(c)[i].from = IF i = 1 THEN At(c) ELSE Segment(c)[i - 1].to
         /\ Last(Segment(c)).to = Goal(c)
         /\ Start(c) \in Walked(c) /\ Walked(c) \subseteq c
         /\ Walked(c) # c => Goal(c) \notin Walked(c)
         /\ Walked(c) = c => Goal(c) = Start(c)
  <1>1. /\ c \subseteq nodes /\ c \subseteq Nat \ {0} /\ IsFiniteSet(c) /\ Start(c) \in c
        /\ Cardinality(c) = 1 => \E e \in edges : e.from \in c /\ e.to \in c
        /\ \A x, y \in c : y \in Reached(edges, x)
    BY CycleNodes
  <1>2. Within(c) \subseteq edges /\ \A e \in Within(c) : e.from \in c /\ e.to \in c
    BY DEF Within
  <1>3. \A i \in DOMAIN route[c] : route[c][i] \in Within(c)
    BY LenProperties, ElementOfSeq
  <1>4. Start(c) \in Walked(c) /\ Walked(c) \subseteq c
    BY <1>1, <1>2, <1>3 DEF Walked
  <1>5. At(c) \in Walked(c)
    <2>1. CASE route[c] = <<>>
      BY <2>1 DEF At, Walked
    <2>2. CASE route[c] # <<>>
      <3>1. Len(route[c]) \in DOMAIN route[c]
        BY <2>2, LenProperties, EmptySeq
      <3> QED
        BY <2>2, <3>1 DEF At, Walked, Last
    <2> QED
      BY <2>1, <2>2
  <1>6. ASSUME Walked(c) # c PROVE Goal(c) \in c /\ Goal(c) \notin Walked(c)
    <2>1. c \ Walked(c) # {} /\ c \ Walked(c) \in SUBSET Nat
      BY <1>1, <1>4, <1>6
    <2>2. Min(c \ Walked(c)) \in c \ Walked(c)
      BY <2>1, MinIsLeast
    <2> QED
      BY <1>6, <2>2 DEF Goal
  <1>7. Walked(c) = c => Goal(c) = Start(c)
    BY DEF Goal
  <1>8. CASE Cardinality(c) = 1
    <2>1. c = {Start(c)}
      <3>1. PICK x : c = {x}
        BY <1>1, <1>8, FS_Singleton
      <3> QED
        BY <1>1, <3>1
    <2>2. Walked(c) = c /\ At(c) = Start(c) /\ Goal(c) = Start(c)
      BY <1>4, <1>5, <1>7, <2>1
    <2> DEFINE S == {<<e>> : e \in Within(c)}
               g == [e \in Within(c) |-> <<e>>]
    <2>3. S \in SUBSET Seq(edges) /\ S # {}
      <3>1. PICK e \in edges : e.from \in c /\ e.to \in c
        BY <1>1, <1>8
      <3>2. e \in Within(c)
        BY <3>1 DEF Within
      <3>3. \A f \in Within(c) : <<f>> \in Seq(edges)
        BY <1>2
      <3> QED
        BY <3>2, <3>3
    <2>4. IsFiniteSet(S)
      <3>1. g \in Surjection(Within(c), S)
        BY DEF Surjection
      <3>2. IsFiniteSet(Within(c))
        BY <1>2, EdgesFinite, FS_Subset
      <3> HIDE DEF g, S
      <3> QED
        BY <3>1, <3>2, FS_Surjection
    <2>5. Segment(c) = LeastHopPath(S)
      BY <1>8 DEF Segment
    <2>6. Segment(c) \in S
      <3> HIDE DEF S
      <3> QED
        BY <2>3, <2>4, <2>5, LeastHopPathExists
    <2>7. PICK e \in Within(c) : Segment(c) = <<e>>
      BY <2>6
    <2>8. e.from = Start(c) /\ e.to = Start(c)
      BY <1>2, <2>1
    <2>9. /\ <<e>> \in Seq(Within(c)) /\ <<e>> # <<>> /\ Len(<<e>>) = 1 /\ <<e>>[1] = e
          /\ DOMAIN <<e>> = {1}
      OBVIOUS
    <2> QED
      BY <1>4, <2>2, <2>7, <2>8, <2>9 DEF Last
  <1>9. CASE Cardinality(c) # 1
    <2>1. Goal(c) \in c /\ Goal(c) # At(c)
      <3>1. CASE Walked(c) # c
        BY <1>5, <1>6, <3>1
      <3>2. CASE Walked(c) = c
        <4>1. route[c] # <<>>
          <5> SUFFICES ASSUME route[c] = <<>> PROVE FALSE
            OBVIOUS
          <5>1. Walked(c) = {Start(c)}
            BY DEF Walked
          <5> QED
            BY <1>9, <3>2, <5>1, FS_Singleton
        <4> QED
          BY <1>1, <1>7, <3>2, <4>1 DEF IsClosed
      <3> QED
        BY <3>1, <3>2
    <2>2. At(c) \in c
      BY <1>4, <1>5
    <2>3. Segment(c) = BestPaths(c)[Goal(c)]
      BY <1>9 DEF Segment
    <2>4. IsPath(Segment(c), At(c), Within(c)) /\ Tip(Segment(c), At(c)) = Goal(c)
      BY <2>1, <2>2, <2>3, BestPathsGo
    <2>5. Segment(c) # <<>> /\ Last(Segment(c)).to = Goal(c)
      BY <2>1, <2>4 DEF Tip
    <2> QED
      BY <1>4, <1>6, <1>7, <2>4, <2>5 DEF IsPath
  <1> QED
    BY <1>8, <1>9


(* The ways round stay what they are as long as they stay. *)
LEMMA RoutesStay ==
  ASSUME RoutesWalk, UNCHANGED <<graph, route>>,
         pc' \in {"counts", "done"} =>
           pc \in {"counts", "done"} \/ \A c \in cycles : IsClosed(c)
  PROVE  RoutesWalk'
  <1>1. cycles' = cycles /\ \A c : Within(c)' = Within(c)
    BY GraphStays
  <1>2. \A c : (IsClosed(c)' <=> IsClosed(c)) /\ Walked(c)' = Walked(c)
    BY DEF IsClosed, At, Walked
  <1> QED
    BY <1>1, <1>2 DEF RoutesWalk

(* A segment goes on where the way has come to.  It brings the way back to its start
   only when the way has met all the nodes. *)
LEMMA RouteLengthens ==
  ASSUME Graph, RoutesWalk, LengthenRoute
  PROVE  RoutesWalk'
  <1>1. PICK c \in cycles : ~IsClosed(c) /\ route' = [route EXCEPT ![c] = route[c] \o Segment(c)]
    BY DEF LengthenRoute
  <1>2. pc = "cycles" /\ pc' = pc /\ UNCHANGED graph
    BY DEF LengthenRoute
  <1>3. DOMAIN route = cycles /\ route[c] \in Seq(Within(c))
        /\ \A i \in DOMAIN route[c] :
             route[c][i].from = IF i = 1 THEN Start(c) ELSE route[c][i - 1].to
    BY DEF RoutesWalk
  <1> DEFINE r == route[c]
             s == Segment(c)
             W == Within(c)
             q == r \o s
             n == Len(r)
             k == Len(s)
  <1>4. /\ s \in Seq(W) /\ s # <<>>
        /\ \A i \in DOMAIN s : s[i].from = IF i = 1 THEN At(c) ELSE s[i - 1].to
        /\ Last(s).to = Goal(c)
        /\ Start(c) \in Walked(c) /\ Walked(c) \subseteq c
        /\ Walked(c) # c => Goal(c) \notin Walked(c)
    BY <1>1, <1>3, SegmentGoes
  <1>5. /\ n \in Nat /\ k \in Nat \ {0} /\ DOMAIN r = 1..n /\ DOMAIN s = 1..k
        /\ r \in Seq(W)
    <2> HIDE DEF r, s, W
    <2>1. r \in Seq(W) /\ s \in Seq(W) /\ s # <<>>
      BY <1>3, <1>4 DEF r, W
    <2> QED
      BY <2>1, LenProperties, EmptySeq
  <1>6. At(c) = IF n = 0 THEN Start(c) ELSE r[n].to
    BY <1>5, EmptySeq DEF At, Last
  <1>7. Walked(c) = {Start(c)} \cup {r[i].to : i \in 1..n}
    BY <1>5 DEF Walked
  <1>8. Last(s) = s[k]
    BY DEF Last
  <1>9. /\ q \in Seq(W) /\ Len(q) = n + k /\ DOMAIN q = 1..(n + k)
        /\ \A i \in 1..n : q[i] = r[i]
        /\ \A i \in 1..k : q[n + i] = s[i]
    <2> HIDE DEF r, s, W
    <2>1. r \in Seq(W) /\ s \in Seq(W)
      BY <1>4, <1>5
    <2>2. /\ q \in Seq(W) /\ Len(q) = n + k
          /\ \A i \in 1..Len(r) + Len(s) : q[i] = IF i <= Len(r) THEN r[i] ELSE s[i - Len(r)]
      BY <2>1, ConcatProperties
    <2>3. DOMAIN q = 1..Len(q)
      BY <2>2, LenProperties
    <2> HIDE DEF q
    <2>4. ASSUME NEW i \in 1..n PROVE q[i] = r[i]
      BY <1>5, <2>2
    <2>5. ASSUME NEW i \in 1..k PROVE q[n + i] = s[i]
      <3>1. n + i \in 1..n + k /\ ~(n + i <= n) /\ n + i - n = i
        BY <1>5
      <3> QED
        BY <2>2, <3>1
    <2> QED
      BY <2>2, <2>3, <2>4, <2>5
  <1> HIDE DEF q, r, s, n, k, W
  <1>10. ASSUME NEW i \in 1..(n + k)
         PROVE  q[i].from = IF i = 1 THEN Start(c) ELSE q[i - 1].to
    <2>1. CASE i <= n
      <3>1. i \in 1..n /\ (i # 1 => i - 1 \in 1..n)
        BY <1>5, <2>1
      <3> QED
        BY <1>3, <1>5, <1>9, <3>1 DEF r
    <2>2. CASE i = n + 1
      <3>1. 1 \in 1..k
        BY <1>5
      <3>2. q[i] = s[1] /\ s[1].from = At(c)
        BY <1>4, <1>5, <1>9, <2>2, <3>1
      <3>3. n # 0 => n \in 1..n /\ i # 1 /\ i - 1 = n
        BY <1>5, <2>2
      <3>4. n = 0 => i = 1
        BY <2>2
      <3> QED
        BY <1>6, <1>9, <3>2, <3>3, <3>4
    <2>3. CASE i > n + 1
      <3> DEFINE j == i - n
      <3>1. j \in 1..k /\ j # 1 /\ j - 1 \in 1..k /\ i = n + j /\ i - 1 = n + (j - 1) /\ i # 1
        BY <1>5, <2>3
      <3> HIDE DEF j
      <3>2. q[i] = s[j] /\ q[i - 1] = s[j - 1] /\ s[j].from = s[j - 1].to
        BY <1>4, <1>5, <1>9, <3>1
      <3> QED
        BY <3>1, <3>2
    <2> QED
      BY <1>5, <2>1, <2>2, <2>3
  <1>11. q # <<>> /\ Last(q).to = Goal(c)
    <2>1. n + k # 0 /\ k \in 1..k
      BY <1>5
    <2>2. q # <<>>
      BY <1>9, <2>1, EmptySeq
    <2> QED
      BY <1>4, <1>8, <1>9, <2>1, <2>2 DEF Last
  <1> DEFINE M == {Start(c)} \cup {q[i].to : i \in DOMAIN q}
  <1>12. Walked(c) \subseteq M
    <2>1. \A i \in 1..n : i \in 1..(n + k)
      BY <1>5
    <2> QED
      BY <1>7, <1>9, <2>1
  <1>13. M \subseteq c
    <2>1. \A i \in DOMAIN q : q[i] \in W
      BY <1>9, ElementOfSeq
    <2> QED
      BY <1>4, <2>1 DEF W, Within
  <1>14. Last(q).to = Start(c) => M = c
    BY <1>4, <1>11, <1>12, <1>13
  <1>15. /\ cycles' = cycles /\ \A d : Within(d)' = Within(d)
         /\ route'[c] = q
         /\ \A d \in cycles : d # c => route'[d] = route[d]
    BY <1>1, <1>2, <1>3, GraphStays DEF q, r, s
  <1>16. /\ IsClosed(c)' => Last(q).to = Start(c)
         /\ Walked(c)' = M
    BY <1>11, <1>15 DEF IsClosed, At, Walked
  <1>17. \A d \in cycles : d # c =>
           (IsClosed(d)' <=> IsClosed(d)) /\ Walked(d)' = Walked(d)
    BY <1>15 DEF IsClosed, At, Walked
  <1>18. DOMAIN route' = cycles'
    BY <1>1, <1>3, <1>15
  <1> DEFINE Goes(d) ==
        /\ route[d] \in Seq(Within(d))
        /\ \A i \in DOMAIN route[d] :
             route[d][i].from = IF i = 1 THEN Start(d) ELSE route[d][i - 1].to
        /\ IsClosed(d) => Walked(d) = d
  <1>19. Goes(c)'
    BY <1>9, <1>10, <1>14, <1>15, <1>16 DEF W
  <1>20. ASSUME NEW d \in cycles, d # c PROVE Goes(d)'
    <2>1. Goes(d)
      BY DEF RoutesWalk
    <2> QED
      BY <1>15, <1>17, <1>20, <2>1
  <1>21. \A d \in cycles' : Goes(d)'
    BY <1>15, <1>19, <1>20
  <1>22. pc' \notin {"counts", "done"}
    BY <1>2
  <1> HIDE DEF M
  <1> QED
    BY <1>18, <1>21, <1>22 DEF RoutesWalk

--------------------------------------------------------------------------------
(* The invariant. *)

(* A search stays sound when nothing of it changes. *)
LEMMA SearchStays ==
  ASSUME SearchRuns, UNCHANGED <<graph, pc, best, queue>>
  PROVE  SearchRuns'
  <1>1. /\ target' = target /\ nodes' = nodes /\ edges' = edges
        /\ \A p : End(p)' = End(p)
        /\ \A p, q : lessPath(p, q)' <=> lessPath(p, q)
        /\ \A s : Taken(s)' = Taken(s) /\ Excluded(s)' = Excluded(s)
        /\ \A n : Out(n)' = Out(n)
    BY GraphStays
  <1>2. \A p : Beaten(p)' <=> Beaten(p)
    BY <1>1 DEF Beaten
  <1>3. \A p : Candidate(p)' <=> Candidate(p)
    BY <1>1, <1>2 DEF Candidate
  <1>4. \A n, b : Extended(n, b)' <=> Extended(n, b)
    BY <1>1, <1>2 DEF Extended
  <1> QED
    BY <1>1, <1>3, <1>4 DEF SearchRuns

(* The boundaries stay found. *)
LEMMA BoundariesStay ==
  ASSUME BoundariesFound, UNCHANGED <<graph, pc, paths, uncovered>>
  PROVE  BoundariesFound'
  <1>1. /\ nodes' = nodes /\ type' = type /\ owners' = owners /\ cycles' = cycles
        /\ \A n : Out(n)' = Out(n)
    BY GraphStays
  <1>2. \A n : PastLimits(n)' <=> PastLimits(n)
    BY DEF PastLimits
  <1> QED
    BY <1>1, <1>2 DEF BoundariesFound

(* The invariant holds where prepare begins. *)
LEMMA InitInvariant ==
  ASSUME Init
  PROVE  IInv
  <1>1. pc = "all" /\ Graph /\ route = [c \in cycles |-> <<>>]
        /\ best = FirstBest(pc) /\ queue = FirstQueue(pc) /\ DOMAIN paths = Searches
    BY DEF Init
  <1>2. Typed
    BY <1>1 DEF Typed, Searches
  <1>3. SearchRuns
    BY <1>1, SearchBegins DEF Searches
  <1>4. PathsFound
    BY <1>1 DEF PathsFound, SearchesOver
  <1>5. RoutesWalk
    <2>1. \A c \in cycles : route[c] = <<>>
      BY <1>1
    <2>2. \A W : <<>> \in Seq(W) /\ DOMAIN <<>> = {}
      OBVIOUS
    <2>3. \A c \in cycles : route[c] \in Seq(Within(c)) /\ DOMAIN route[c] = {}
      BY <2>1, <2>2, Zenon
    <2> QED
      BY <1>1, <2>1, <2>3 DEF RoutesWalk, IsClosed
  <1>6. BoundariesFound
    BY <1>1 DEF BoundariesFound
  <1> QED
    BY <1>2, <1>3, <1>4, <1>5, <1>6 DEF IInv

(* Every step of prepare keeps the invariant. *)
LEMMA StepInvariant ==
  ASSUME IInv, [Next]_vars
  PROVE  IInv'
  <1>1. Typed /\ Graph /\ SearchRuns /\ PathsFound /\ RoutesWalk /\ BoundariesFound
    BY DEF IInv, Typed
  <1>2. CASE Pop
    <2>1. pc \in Searches /\ UNCHANGED <<graph, pc, paths, route, uncovered>>
      BY <1>2 DEF Pop
    <2>2. Typed'
      BY <1>1, <2>1, GraphStays DEF Typed
    <2>3. SearchRuns'
      BY <1>1, <1>2, PopKeeps
    <2>4. PathsFound'
      BY <1>1, <2>1, PathsStay DEF SearchesOver
    <2>5. RoutesWalk'
      BY <1>1, <2>1, RoutesStay
    <2>6. BoundariesFound'
      BY <2>1 DEF BoundariesFound, Searches
    <2> QED
      BY <2>2, <2>3, <2>4, <2>5, <2>6 DEF IInv
  <1>3. CASE SearchDone
    <2>1. Typed' /\ SearchRuns' /\ PathsFound' /\ pc' \in {"confirmed", "limitFree", "cycles"}
      BY <1>1, <1>3, SearchDoneKeeps
    <2>2. UNCHANGED <<graph, route>>
      BY <1>3 DEF SearchDone
    <2>3. RoutesWalk'
      BY <1>1, <2>1, <2>2, RoutesStay
    <2>4. BoundariesFound'
      BY <2>1 DEF BoundariesFound
    <2> QED
      BY <2>1, <2>3, <2>4 DEF IInv
  <1>4. CASE LengthenRoute
    <2>1. pc = "cycles" /\ UNCHANGED <<graph, pc, paths>>
      BY <1>4 DEF LengthenRoute, search
    <2>2. Typed'
      BY <1>1, <2>1, GraphStays DEF Typed
    <2>3. SearchRuns'
      BY <2>1 DEF SearchRuns, Searches
    <2>4. PathsFound'
      BY <1>1, <2>1, PathsStay DEF SearchesOver
    <2>5. RoutesWalk'
      BY <1>1, <1>4, RouteLengthens
    <2>6. BoundariesFound'
      BY <2>1 DEF BoundariesFound
    <2> QED
      BY <2>2, <2>3, <2>4, <2>5, <2>6 DEF IInv
  <1>5. CASE CyclesDone
    <2>1. /\ pc = "cycles" /\ pc' = "counts" /\ UNCHANGED <<graph, paths, route>>
          /\ \A c \in cycles : IsClosed(c)
      BY <1>5 DEF CyclesDone, search
    <2>2. Typed'
      BY <1>1, <2>1, GraphStays DEF Typed
    <2>3. SearchRuns'
      BY <2>1 DEF SearchRuns, Searches
    <2>4. PathsFound'
      <3>1. SearchesOver' = SearchesOver
        BY <2>1 DEF SearchesOver, Searches
      <3> QED
        BY <1>1, <2>1, <3>1, PathsStay
    <2>5. RoutesWalk'
      BY <1>1, <2>1, RoutesStay
    <2>6. BoundariesFound'
      BY <2>1 DEF BoundariesFound
    <2> QED
      BY <2>2, <2>3, <2>4, <2>5, <2>6 DEF IInv
  <1>6. CASE CountComponent
    <2>1. pc = "counts" /\ UNCHANGED <<graph, pc, paths, route>>
      BY <1>6 DEF CountComponent, search
    <2>2. Typed'
      BY <1>1, <2>1, GraphStays DEF Typed
    <2>3. SearchRuns'
      BY <2>1 DEF SearchRuns, Searches
    <2>4. PathsFound'
      BY <1>1, <2>1, PathsStay DEF SearchesOver
    <2>5. RoutesWalk'
      BY <1>1, <2>1, RoutesStay
    <2>6. BoundariesFound'
      BY <2>1 DEF BoundariesFound
    <2> QED
      BY <2>2, <2>3, <2>4, <2>5, <2>6 DEF IInv
  <1>7. CASE FindUncovered
    <2>1. pc = "counts" /\ pc' = "done" /\ UNCHANGED <<graph, paths, route>>
      BY <1>7 DEF FindUncovered, search
    <2>2. Typed'
      BY <1>1, <2>1, GraphStays DEF Typed
    <2>3. SearchRuns'
      BY <2>1 DEF SearchRuns, Searches
    <2>4. PathsFound'
      <3>1. SearchesOver' = SearchesOver
        BY <2>1 DEF SearchesOver, Searches
      <3> QED
        BY <1>1, <2>1, <3>1, PathsStay
    <2>5. RoutesWalk'
      BY <1>1, <2>1, RoutesStay
    <2>6. BoundariesFound'
      <3>1. /\ nodes' = nodes /\ type' = type /\ owners' = owners /\ cycles' = cycles
            /\ \A n : Out(n)' = Out(n)
        BY <2>1, GraphStays
      <3>2. \A n : PastLimits(n)' <=> PastLimits(n)
        BY <2>1 DEF PastLimits
      <3> QED
        BY <1>7, <3>1, <3>2 DEF FindUncovered, BoundariesFound
    <2> QED
      BY <2>2, <2>3, <2>4, <2>5, <2>6 DEF IInv
  <1>8. CASE Fail
    <2>1. /\ pc' = "failed" /\ UNCHANGED graph
          /\ route' = [c \in cycles |-> <<>>]
          /\ paths' = [s \in Searches |-> [n \in nodes |-> None]]
      BY <1>8 DEF Fail
    <2>2. Typed'
      BY <1>1, <2>1, GraphStays DEF Typed
    <2>3. SearchRuns'
      BY <2>1 DEF SearchRuns, Searches
    <2>4. PathsFound'
      BY <2>1 DEF PathsFound, SearchesOver, Searches
    <2>5. RoutesWalk'
      <3>1. cycles' = cycles
        BY <2>1, GraphStays
      <3>2. \A c \in cycles : route'[c] = <<>>
        BY <2>1
      <3>3. \A W : <<>> \in Seq(W) /\ DOMAIN <<>> = {}
        OBVIOUS
      <3>4. \A c \in cycles : route'[c] \in Seq(Within(c)') /\ DOMAIN route'[c] = {}
        BY <3>2, <3>3, Zenon
      <3> QED
        BY <2>1, <3>1, <3>2, <3>4 DEF RoutesWalk, IsClosed
    <2>6. BoundariesFound'
      BY <2>1 DEF BoundariesFound
    <2> QED
      BY <2>2, <2>3, <2>4, <2>5, <2>6 DEF IInv
  <1>9. CASE UNCHANGED vars
    <2>1. UNCHANGED <<graph, pc, best, queue, paths, route, uncovered>>
      BY <1>9 DEF vars, search
    <2>2. Typed'
      BY <1>1, <2>1, GraphStays DEF Typed
    <2>3. SearchRuns'
      BY <1>1, <2>1, SearchStays
    <2>4. PathsFound'
      BY <1>1, <2>1, PathsStay DEF SearchesOver
    <2>5. RoutesWalk'
      BY <1>1, <2>1, RoutesStay
    <2>6. BoundariesFound'
      BY <1>1, <2>1, BoundariesStay
    <2> QED
      BY <2>2, <2>3, <2>4, <2>5, <2>6 DEF IInv
  <1> QED
    BY <1>2, <1>3, <1>4, <1>5, <1>6, <1>7, <1>8, <1>9 DEF Next

(* What waits in the queue and what was found so far bear out the searches, the ways
   round and the boundaries, in every state of prepare. *)
THEOREM Invariance == Spec => []IInv
  <1>1. Init => IInv
    BY InitInvariant
  <1>2. IInv /\ [Next]_vars => IInv'
    BY StepInvariant
  <1> QED
    BY <1>1, <1>2, PTL DEF Spec

(* The paths found are the least of those that PathsTo enumerates. *)
LEMMA FoundAreLeast ==
  ASSUME IInv
  PROVE  PathsAreLeast
  <1>1. Graph /\ PathsFound
    BY DEF IInv, Typed
  <1> SUFFICES ASSUME pc = "done", NEW s \in Searches, NEW n \in nodes
               PROVE  LET S == IF target \in Excluded(s) THEN {} ELSE PathsTo(n, Taken(s))
                      IN  IF S = {} THEN paths[s][n] = None
                          ELSE paths[s][n] \in S /\ \A q \in S : ~lessPath(q, paths[s][n])
    BY Zenon DEF PathsAreLeast
  <1> DEFINE S == IF target \in Excluded(s) THEN {} ELSE PathsTo(n, Taken(s))
  <1>2. SimplePathsFrom(target, Taken(s)) = PathsFrom(target, Taken(s))
    BY <1>1, SimplePathsAre, EdgeEnds DEF Taken
  <1>3. S = {p \in Ways(s) : End(p) = n}
    BY <1>2 DEF Ways, PathsTo, PathsFrom
  <1>4. Least(s, paths[s])
    BY <1>1 DEF PathsFound, SearchesOver, Searches
  <1> HIDE DEF S
  <1>5. IF S = {} THEN paths[s][n] = None
        ELSE paths[s][n] \in S /\ \A q \in S : ~lessPath(q, paths[s][n])
    BY <1>3, <1>4 DEF Least
  <1> QED
    BY <1>5 DEF S

(* A way that is back at its start goes round. *)
LEMMA ClosedGoRound ==
  ASSUME IInv
  PROVE  RoutesGoRound
  <1> SUFFICES ASSUME pc \in {"counts", "done"}, NEW c \in cycles
               PROVE  LET r == route[c]
                      IN  /\ r # <<>>
                          /\ r[1].from = Start(c) /\ Last(r).to = Start(c)
                          /\ \A i \in 1..(Len(r) - 1) : r[i].to = r[i + 1].from
                          /\ {r[i].to : i \in DOMAIN r} = c
    BY DEF RoutesGoRound
  <1> DEFINE r == route[c]
             n == Len(r)
  <1>1. /\ r \in Seq(Within(c)) /\ r # <<>> /\ At(c) = Start(c) /\ Walked(c) = c
        /\ \A i \in DOMAIN r : r[i].from = IF i = 1 THEN Start(c) ELSE r[i - 1].to
    BY DEF IInv, RoutesWalk, IsClosed
  <1>2. At(c) = r[n].to /\ Walked(c) = {Start(c)} \cup {r[i].to : i \in DOMAIN r}
        /\ Last(r) = r[n]
    BY <1>1 DEF At, Walked, Last
  <1> HIDE DEF r
  <1>3. n \in Nat \ {0} /\ DOMAIN r = 1..n
    BY <1>1, LenProperties, EmptySeq
  <1> HIDE DEF n
  <1>4. 1 \in DOMAIN r /\ n \in DOMAIN r
    BY <1>3
  <1>5. {r[i].to : i \in DOMAIN r} = c
    BY <1>1, <1>2, <1>4
  <1>6. ASSUME NEW i \in 1..(n - 1) PROVE r[i].to = r[i + 1].from
    <2>1. i + 1 \in DOMAIN r /\ i + 1 # 1 /\ i + 1 - 1 = i
      BY <1>3
    <2> QED
      BY <1>1, <2>1
  <1> QED
    BY <1>1, <1>2, <1>4, <1>5, <1>6 DEF n, r

(* A node has a path past the limits exactly if it can be reached so. *)
LEMMA PastIsReached ==
  ASSUME IInv, pc = "done", NEW n \in nodes
  PROVE  PastLimits(n)
           <=> target \notin owners /\ n \in Reached({e \in edges : e.to \notin owners}, target)
  <1>1. Graph /\ PathsFound
    BY DEF IInv, Typed
  <1> DEFINE s == "limitFree"
             E == {e \in edges : e.to \notin owners}
             S == {p \in Ways(s) : End(p) = n}
  <1>2. Taken(s) = E /\ Excluded(s) = owners /\ E \subseteq edges
    BY DEF Taken, Excluded
  <1>3. None \notin Seq(edges) /\ target \in nodes
    BY <1>1, EdgeEnds
  <1>4. Least(s, paths[s])
    BY <1>1 DEF PathsFound, SearchesOver, Searches
  <1>5. IF S = {} THEN paths[s][n] = None ELSE paths[s][n] \in S
    BY <1>4, Zenon DEF Least
  <1> HIDE DEF E
  <1>6. Ways(s) = IF target \in owners THEN {} ELSE PathsFrom(target, E)
    BY <1>2 DEF Ways, PathsFrom
  <1>7. Ways(s) \subseteq Seq(edges)
    <2>1. Seq(E) \subseteq Seq(edges)
      BY <1>2, SeqMonotonic
    <2> QED
      BY <1>6, <2>1 DEF PathsFrom
  <1>8. PastLimits(n) <=> S # {}
    BY <1>3, <1>5, <1>7 DEF PastLimits
  <1>9. \A p \in Ways(s) : End(p) = Tip(p, target)
    BY <1>1, <1>7, EndIsTip
  <1>10. Reached(E, target) = Ends(target, E)
    BY <1>1, <1>2, <1>3, ReachedAre
  <1>11. S # {} <=> target \notin owners /\ n \in Ends(target, E)
    BY <1>6, <1>9 DEF Ends
  <1> QED
    BY <1>8, <1>10, <1>11 DEF E

(* The boundaries found are those that can be reached past the limits. *)
LEMMA BoundariesAreExact ==
  ASSUME IInv
  PROVE  UncoveredExact
  <1>1. Graph /\ BoundariesFound
    BY DEF IInv, Typed
  <1> SUFFICES ASSUME pc = "done" PROVE UncoveredExact
    BY DEF UncoveredExact
  <1> DEFINE past == IF target \in owners THEN {}
                     ELSE Reached({e \in edges : e.to \notin owners}, target)
             at(n) == {u \in uncovered : u.boundary = n /\ u.reason # "cycle"}
             of(c) == {u \in uncovered : u.cycle = c}
             first(c) == Min({n \in c : PastLimits(n)})
             Open(c) == c \cap owners = {} /\ \E n \in c : PastLimits(n)
  <1>2. \A n \in nodes : PastLimits(n) <=> n \in past
    BY PastIsReached
  <1>3. \A n \in nodes : type[n] = "management_unit" => Out(n) = {}
    BY <1>1 DEF Graph, Out
  <1>4. \A c \in cycles : c \subseteq nodes /\ c # {}
    BY <1>1, CycleNodes
  <1>5. \A c \in cycles : {n \in c : PastLimits(n)} = c \cap past
    BY <1>2, <1>4
  <1> HIDE DEF past
  <1>6. \A u : u \in uncovered <=>
          \/ \E n \in nodes : /\ u = Boundary(n, "terminal", {})
                              /\ type[n] # "management_unit" /\ Out(n) = {} /\ PastLimits(n)
          \/ \E n \in nodes : /\ u = Boundary(n, "endpoint", {})
                              /\ type[n] = "management_unit" /\ PastLimits(n)
          \/ \E c \in cycles : u = Boundary(first(c), "cycle", c) /\ Open(c)
    BY <1>1 DEF BoundariesFound
  <1> HIDE DEF first, Open
  <1>7. ASSUME NEW n \in nodes PROVE at(n) # {} <=> n \in past /\ Out(n) = {}
    <2>1. ASSUME NEW u \in at(n) PROVE n \in past /\ Out(n) = {}
      <3>1. u \in uncovered /\ u.boundary = n /\ u.reason # "cycle"
        OBVIOUS
      <3>2. PastLimits(n) /\ Out(n) = {}
        BY <1>3, <1>6, <3>1 DEF Boundary
      <3> QED
        BY <1>2, <3>2
    <2>2. ASSUME n \in past, Out(n) = {} PROVE at(n) # {}
      <3>1. PastLimits(n)
        BY <1>2, <2>2
      <3>2. CASE type[n] = "management_unit"
        <4>1. Boundary(n, "endpoint", {}) \in uncovered
          BY <1>6, <3>1, <3>2
        <4> QED
          BY <4>1 DEF Boundary
      <3>3. CASE type[n] # "management_unit"
        <4>1. Boundary(n, "terminal", {}) \in uncovered
          BY <1>6, <2>2, <3>1, <3>3
        <4> QED
          BY <4>1 DEF Boundary
      <3> QED
        BY <3>2, <3>3
    <2> QED
      BY <2>1, <2>2
  <1>8. ASSUME NEW c \in cycles, NEW u \in of(c) PROVE Open(c) /\ u.boundary = first(c)
    <2>1. u \in uncovered /\ u.cycle = c /\ c # {}
      BY <1>4
    <2> QED
      BY <1>6, <2>1 DEF Boundary
  <1>9. ASSUME NEW c \in cycles, Open(c) PROVE of(c) # {}
    <2>1. Boundary(first(c), "cycle", c) \in uncovered
      BY <1>6, <1>9
    <2> QED
      BY <2>1 DEF Boundary
  <1>10. \A c \in cycles : Open(c) <=> c \cap owners = {} /\ c \cap past # {}
    BY <1>2, <1>4 DEF Open
  <1>11. \A c \in cycles : first(c) = Min(c \cap past)
    BY <1>5 DEF first
  <1>12. /\ \A n \in nodes : at(n) # {} <=> n \in past /\ Out(n) = {}
         /\ \A c \in cycles : of(c) # {} <=> c \cap owners = {} /\ c \cap past # {}
         /\ \A c \in cycles : \A u \in of(c) : u.boundary = Min(c \cap past)
    <2> HIDE DEF at, of
    <2> QED
      BY <1>7, <1>8, <1>9, <1>10, <1>11
  <1> QED
    BY <1>12, Zenon DEF UncoveredExact, past

(* "Paths that declared or confirmed relations explain are preferred; then the
   path of fewer jobs and job networks, then of fewer connections with
   relations, at last by node and relation IDs" (dependency-analysis.md:187):
   shortestPaths ends with the least of all the paths to every node. *)
THEOREM LeastPathsFound == Spec => []PathsAreLeast
  <1>1. IInv => PathsAreLeast
    BY FoundAreLeast
  <1> QED
    BY <1>1, Invariance, PTL

(* "One display route of the cycle" (dependency-analysis.md:290): oneCycle returns a
   way along the edges of the cycle through every node of it and back. *)
THEOREM RoutesClosed == Spec => []RoutesGoRound
  <1>1. IInv => RoutesGoRound
    BY ClosedGoRound
  <1> QED
    BY <1>1, Invariance, PTL

(* "Boundaries for which there is a path that meets no owner of a limit, itself
   included" (dependency-analysis.md:261): findUncoveredRoutes reports those that
   can be reached so, and no others. *)
THEOREM BoundariesExact == Spec => []UncoveredExact
  <1>1. IInv => UncoveredExact
    BY BoundariesAreExact
  <1> QED
    BY <1>1, Invariance, PTL

--------------------------------------------------------------------------------
(* The invariant of the tree. *)

(* Part of Build after the paths, after the references, after compression began. *)
HasPaths == pc \in {"selected", "uncovered", "edges", "compress", "done", "removed"}
HasTargets == pc \in {"edges", "compress", "done", "removed"}
HasShown == pc \in {"compress", "done", "removed"}

IsWay(p, n) == IsPath(p, target, edges) /\ End(p) = n

(* Each node has a path.  Where the only edge to a node is confirmed, the path goes
   on from the path of the node before: the two are of the same search. *)
PathsChosen ==
  HasPaths =>
    /\ DOMAIN selected = nodes
    /\ \A n \in nodes : IsWay(selected[n], n)
    /\ \A n \in Boundaries : n \in nodes /\ IsWay(limitFree[n], n)
    /\ \A n \in nodes \ {target} : \A e \in edges :
         In(n) = {e} /\ confirmed(e) => selected[n] = Append(selected[e.from], e)

(* The tree of the inserted paths: whole paths, and all they pass. *)
OccurrencesWhole ==
  /\ DOMAIN occurrences = nodes
  /\ \A n \in nodes :
       /\ occurrences[n] \in Seq(Seq(edges))
       /\ \A i \in DOMAIN occurrences[n] : IsWay(occurrences[n][i], n)
  /\ <<>> \in Occurrences
  /\ \A p \in Occurrences : \A k \in 0..Len(p) : Prefix(p, k) \in Occurrences

PathsInserted ==
  /\ todo \subseteq nodes
  /\ HasPaths => \A n \in nodes : (n \in todo /\ pc = "selected") \/ selected[n] \in Occurrences
  /\ HasPaths /\ pc # "selected" =>
       /\ pc = "uncovered" => todo \subseteq Boundaries
       /\ \A n \in Boundaries : (n \in todo /\ pc = "uncovered") \/ limitFree[n] \in Occurrences

Leaf(p) == \A q \in Occurrences : q # <<>> => Front(q) # p

(* Where references lead, and which tree nodes are references. *)
TargetsChosen ==
  /\ pc \in {"selected", "uncovered"} => referenceTargets = selected
  /\ pc \in {"prepare", "selected", "uncovered"} => reference = <<>>
  /\ HasTargets => \A n \in nodes : \A t \in {referenceTargets[n]} :
       /\ t \in Range(occurrences[n])
       /\ Leaf(selected[n]) \/ t = selected[n]

ReferencesEnd ==
  HasTargets =>
    /\ \A q \in DOMAIN reference : q \in Occurrences =>
         q # referenceTargets[End(q)] /\ Leaf(q)
    /\ \A q \in DOMAIN reference : q \notin Occurrences =>
         HasShown /\ \E e \in edges : q = Append(referenceTargets[e.from], e)
    /\ \A q \in DOMAIN reference : pc # "removed" => reference[q].to = referenceTargets[End(q)]
    /\ HasShown => \A e \in edges : Append(referenceTargets[e.from], e) \in Tree

(* What a shown node tells of the section above it. *)
Section(p) ==
  LET s == shown[p]
  IN  /\ s.via \in Seq(edges) /\ s.via # <<>>
      /\ p = Parent(p) \o s.via
      /\ s.hiddenNodeIDs = Take(Inner(s.via), MaxHidden)
      /\ s.hiddenNodes = Len(s.via) - 1
      /\ s.truncated <=> Len(s.via) - 1 > MaxHidden
      /\ s.hiddenJobs = Cardinality({i \in DOMAIN Inner(s.via) : type[Inner(s.via)[i]] = "job"})

(* Nodes are compressed away from below, and below each of them one is shown. *)
SectionsWhole ==
  HasShown =>
    /\ DOMAIN shown \subseteq Tree
    /\ <<>> \in DOMAIN shown
    /\ \A p \in DOMAIN shown \ {<<>>} : Section(p)
    /\ edges = UNION {Range(shown[p].via) : p \in DOMAIN shown}
    /\ \A h \in Tree \ DOMAIN shown :
         /\ canHide(h)
         /\ \E q \in DOMAIN shown : IsStrictPrefix(h, q)
         /\ \A p \in Hideable : Len(p) <= Len(h)

TreeIInv ==
  /\ Graph
  /\ pc \in {"prepare", "selected", "uncovered", "edges", "compress", "done", "removed", "failed"}
  /\ PathsChosen
  /\ OccurrencesWhole
  /\ PathsInserted
  /\ TargetsChosen
  /\ ReferencesEnd
  /\ SectionsWhole
  /\ pc # "removed"

--------------------------------------------------------------------------------
(* Prefixes. *)

LEMMA PrefixIs ==
  ASSUME NEW X, NEW p \in Seq(X), NEW k \in 0..Len(p)
  PROVE  /\ Prefix(p, k) \in Seq(X) /\ Len(Prefix(p, k)) = k
         /\ \A i \in 1..k : Prefix(p, k)[i] = p[i]
         /\ \A j \in 0..k : Prefix(Prefix(p, k), j) = Prefix(p, j)
  <1>0. Len(p) \in Nat
    OBVIOUS
  <1>1. /\ Prefix(p, k) \in Seq(X) /\ Len(Prefix(p, k)) = k
        /\ \A i \in 1..k : Prefix(p, k)[i] = p[i]
    BY <1>0 DEF Prefix
  <1>2. ASSUME NEW j \in 0..k PROVE Prefix(Prefix(p, k), j) = Prefix(p, j)
    <2>1. j \in 0..Len(p)
      BY <1>0
    <2>2. /\ Prefix(p, j) \in Seq(X) /\ Len(Prefix(p, j)) = j
          /\ \A i \in 1..j : Prefix(p, j)[i] = p[i]
      BY <1>0, <2>1 DEF Prefix
    <2> DEFINE r == Prefix(p, k)
    <2>3. r \in Seq(X) /\ Len(r) = k
      BY <1>1
    <2> HIDE DEF r
    <2>4. /\ Prefix(r, j) \in Seq(X) /\ Len(Prefix(r, j)) = j
          /\ \A i \in 1..j : Prefix(r, j)[i] = r[i]
      BY <2>3 DEF Prefix
    <2>5. \A i \in 1..j : Prefix(r, j)[i] = Prefix(p, j)[i]
      BY <1>1, <2>2, <2>4 DEF r
    <2>6. Prefix(r, j) = Prefix(p, j)
      BY <2>2, <2>4, <2>5, SeqEqual
    <2> QED
      BY <2>6 DEF r
  <1> QED
    BY <1>1, <1>2

LEMMA StrictPrefixIs ==
  ASSUME NEW X, NEW p \in Seq(X), NEW q \in Seq(X)
  PROVE  IsStrictPrefix(q, p) <=> Len(q) < Len(p) /\ q = Prefix(p, Len(q))
  <1>1. Len(p) \in Nat /\ Len(q) \in Nat /\ SubSeq(q, 1, Len(q)) = q /\ SubSeq(p, 1, Len(p)) = p
    OBVIOUS
  <1> QED
    BY <1>1 DEF IsStrictPrefix, IsPrefix, Prefix

LEMMA StrictPrefixTransitive ==
  ASSUME NEW X, NEW p \in Seq(X), NEW q \in Seq(X), NEW r \in Seq(X),
         IsStrictPrefix(p, q), IsStrictPrefix(q, r)
  PROVE  IsStrictPrefix(p, r)
  <1>1. Len(p) < Len(q) /\ p = Prefix(q, Len(p)) /\ Len(q) < Len(r) /\ q = Prefix(r, Len(q))
    BY StrictPrefixIs
  <1>2. Len(p) \in Nat /\ Len(q) \in Nat /\ Len(r) \in Nat
    OBVIOUS
  <1>3. Len(q) \in 0..Len(r) /\ Len(p) \in 0..Len(q) /\ Len(p) < Len(r)
    BY <1>1, <1>2
  <1>4. Prefix(Prefix(r, Len(q)), Len(p)) = Prefix(r, Len(p))
    BY <1>3, PrefixIs
  <1> QED
    BY <1>1, <1>3, <1>4, StrictPrefixIs

(* Of two prefixes of a path the shorter is one of the longer. *)
LEMMA PrefixesAreOrdered ==
  ASSUME NEW X, NEW p \in Seq(X), NEW q \in Seq(X), NEW r \in Seq(X),
         IsStrictPrefix(p, r), IsStrictPrefix(q, r) \/ q = r, Len(p) < Len(q)
  PROVE  IsStrictPrefix(p, q)
  <1>1. Len(p) < Len(r) /\ p = Prefix(r, Len(p)) /\ Len(q) <= Len(r) /\ q = Prefix(r, Len(q))
    <2>1. r = Prefix(r, Len(r))
      BY DEF Prefix
    <2> QED
      BY <2>1, StrictPrefixIs
  <1>2. Len(p) \in Nat /\ Len(q) \in Nat /\ Len(r) \in Nat
    OBVIOUS
  <1>3. Len(q) \in 0..Len(r) /\ Len(p) \in 0..Len(q)
    BY <1>1, <1>2
  <1>4. Prefix(Prefix(r, Len(q)), Len(p)) = Prefix(r, Len(p))
    BY <1>3, PrefixIs
  <1> QED
    BY <1>1, <1>4, StrictPrefixIs

LEMMA FrontIs ==
  ASSUME NEW X, NEW p \in Seq(X), p # <<>>
  PROVE  /\ Front(p) \in Seq(X) /\ Len(Front(p)) = Len(p) - 1 /\ Len(p) \in Nat \ {0}
         /\ Front(p) = Prefix(p, Len(p) - 1) /\ p = Append(Front(p), Last(p))
         /\ Last(p) = p[Len(p)] /\ Last(p) \in X
         /\ IsStrictPrefix(Front(p), p)
  <1>1. Len(p) \in Nat /\ Len(p) # 0
    OBVIOUS
  <1>2. Len(p) - 1 \in 0..Len(p) /\ Len(p) - 1 \in Nat
    BY <1>1
  <1>3. Front(p) = Prefix(p, Len(p) - 1)
    BY DEF Front, Prefix
  <1>4. /\ Front(p) \in Seq(X) /\ Len(Front(p)) = Len(p) - 1
        /\ \A i \in 1..(Len(p) - 1) : Front(p)[i] = p[i]
    BY <1>2, <1>3, PrefixIs
  <1>5. Last(p) = p[Len(p)] /\ Last(p) \in X
    BY <1>1 DEF Last
  <1>6. p = Append(Front(p), Last(p))
    <2> DEFINE f == Front(p)
               l == Last(p)
    <2> HIDE DEF f, l
    <2>1. f \in Seq(X) /\ l \in X /\ Len(f) = Len(p) - 1
      BY <1>4, <1>5 DEF f, l
    <2>2. Append(f, l) \in Seq(X) /\ Len(Append(f, l)) = Len(p)
      BY <1>1, <2>1
    <2>3. ASSUME NEW i \in 1..Len(p) PROVE p[i] = Append(f, l)[i]
      BY <1>1, <1>4, <1>5, <2>1 DEF f, l
    <2>4. p = Append(f, l)
      BY <2>2, <2>3, SeqEqual
    <2> QED
      BY <2>4 DEF f, l
  <1>7. IsStrictPrefix(Front(p), p)
    BY <1>1, <1>3, <1>4, StrictPrefixIs
  <1> QED
    BY <1>1, <1>3, <1>4, <1>5, <1>6, <1>7

LEMMA FrontOfAppend ==
  ASSUME NEW X, NEW p \in Seq(X), NEW e \in X
  PROVE  /\ Append(p, e) \in Seq(X) /\ Append(p, e) # <<>> /\ Len(Append(p, e)) = Len(p) + 1
         /\ Front(Append(p, e)) = p /\ Last(Append(p, e)) = e
  <1> DEFINE r == Append(p, e)
  <1>1. r \in Seq(X) /\ r # <<>> /\ Len(r) = Len(p) + 1 /\ Len(p) \in Nat
        /\ r[Len(p) + 1] = e /\ \A i \in 1..Len(p) : r[i] = p[i]
    OBVIOUS
  <1> HIDE DEF r
  <1>2. Front(r) \in Seq(X) /\ Len(Front(r)) = Len(p) /\ Last(r) = e
    <2>1. (Len(p) + 1) - 1 = Len(p)
      BY <1>1
    <2> QED
      BY <1>1, <2>1, FrontIs
  <1>3. \A i \in 1..Len(p) : Front(r)[i] = p[i]
    <2>1. Front(r) = Prefix(r, Len(p)) /\ Len(p) \in 0..Len(r)
      BY <1>1, FrontIs
    <2> QED
      BY <1>1, <2>1, PrefixIs
  <1>4. Front(r) = p
    BY <1>2, <1>3, SeqEqual
  <1> QED
    BY <1>1, <1>2, <1>4 DEF r

--------------------------------------------------------------------------------
(* Paths from the target. *)

LEMMA WayIs ==
  ASSUME Graph, NEW p, NEW n, IsWay(p, n)
  PROVE  /\ p \in Seq(edges) /\ Len(p) \in Nat /\ End(p) = n /\ n \in nodes
         /\ \A k \in 0..Len(p) : IsWay(Prefix(p, k), IF k = 0 THEN target ELSE p[k].to)
         /\ \A k \in 1..Len(p) : p[k] \in edges /\ p[k].from = End(Prefix(p, k - 1))
         /\ \A j, k \in 0..Len(p) : End(Prefix(p, j)) = End(Prefix(p, k)) => j = k
  <1>1. IsPath(p, target, edges) /\ p \in Seq(edges) /\ Len(p) \in Nat /\ DOMAIN p = 1..Len(p)
        /\ End(p) = n
    BY DEF IsWay, IsPath
  <1>2. n \in nodes
    BY <1>1, EndIsTip
  <1>3. ASSUME NEW k \in 0..Len(p)
        PROVE  /\ IsWay(Prefix(p, k), IF k = 0 THEN target ELSE p[k].to)
               /\ End(Prefix(p, k)) = IF k = 0 THEN target ELSE p[k].to
    <2>1. /\ IsPath(Prefix(p, k), target, edges)
          /\ Tip(Prefix(p, k), target) = IF k = 0 THEN target ELSE p[k].to
      BY <1>1, PathPrefix
    <2>2. Prefix(p, k) \in Seq(edges)
      BY <2>1 DEF IsPath
    <2>3. End(Prefix(p, k)) = Tip(Prefix(p, k), target)
      BY <2>2, EndIsTip
    <2> QED
      BY <2>1, <2>3 DEF IsWay
  <1>4. ASSUME NEW k \in 1..Len(p) PROVE p[k] \in edges /\ p[k].from = End(Prefix(p, k - 1))
    <2>1. k - 1 \in 0..Len(p) /\ (k - 1 = 0 <=> k = 1)
      BY <1>1
    <2>2. p[k].from = IF k = 1 THEN target ELSE p[k - 1].to
      BY <1>1 DEF IsPath
    <2>3. End(Prefix(p, k - 1)) = IF k - 1 = 0 THEN target ELSE p[k - 1].to
      BY <1>3, <2>1
    <2> QED
      BY <1>1, <2>1, <2>2, <2>3
  <1>5. ASSUME NEW j \in 0..Len(p), NEW k \in 0..Len(p), j < k
        PROVE  End(Prefix(p, j)) # End(Prefix(p, k))
    <2>1. k \in DOMAIN p /\ k # 0 /\ (j # 0 => j \in 1..(k - 1))
      BY <1>1, <1>5
    <2>2. p[k].to # target /\ (j # 0 => p[j].to # p[k].to)
      BY <1>1, <2>1 DEF IsPath
    <2> QED
      BY <1>3, <2>1, <2>2
  <1>6. ASSUME NEW j \in 0..Len(p), NEW k \in 0..Len(p), End(Prefix(p, j)) = End(Prefix(p, k))
        PROVE  j = k
    <2>1. j \in Nat /\ k \in Nat
      OBVIOUS
    <2>2. ~(j < k) /\ ~(k < j)
      BY <1>5, <1>6
    <2> QED
      BY <2>1, <2>2
  <1> QED
    BY <1>1, <1>2, <1>3, <1>4, <1>6

(* The end of a path that is not empty. *)
LEMMA WayEnds ==
  ASSUME Graph, NEW p, NEW n, IsWay(p, n)
  PROVE  /\ p = <<>> <=> n = target
         /\ p # <<>> => /\ Last(p) \in edges /\ Last(p).to = n /\ Last(p).from = End(Front(p))
                        /\ IsWay(Front(p), Last(p).from)
                        /\ p = Append(Front(p), Last(p))
  <1>1. p \in Seq(edges) /\ Len(p) \in Nat /\ End(p) = n
    BY WayIs
  <1>2. End(<<>>) = target
    BY DEF End
  <1>3. ASSUME p # <<>>
        PROVE  /\ n # target /\ Last(p) \in edges /\ Last(p).to = n /\ Last(p).from = End(Front(p))
               /\ IsWay(Front(p), Last(p).from) /\ p = Append(Front(p), Last(p))
    <2>1. /\ Front(p) = Prefix(p, Len(p) - 1) /\ p = Append(Front(p), Last(p))
          /\ Last(p) = p[Len(p)] /\ Last(p) \in edges /\ Len(p) \in Nat \ {0}
      BY <1>1, <1>3, FrontIs
    <2>2. Last(p).to = n
      BY <1>1, <1>3 DEF End
    <2>3. Len(p) \in 1..Len(p) /\ Len(p) \in 0..Len(p) /\ 0 \in 0..Len(p) /\ Len(p) - 1 \in 0..Len(p)
      BY <2>1
    <2>4. Last(p).from = End(Front(p))
      BY <2>1, <2>3, WayIs
    <2>5. IsWay(Front(p), End(Front(p)))
      BY <2>1, <2>3, WayIs DEF IsWay
    <2>6. n # target
      <3>1. Prefix(p, 0) = <<>> /\ Prefix(p, Len(p)) = p
        BY <1>1 DEF Prefix
      <3>2. End(Prefix(p, 0)) # End(Prefix(p, Len(p)))
        BY <2>1, <2>3, WayIs
      <3> QED
        BY <1>1, <1>2, <3>1, <3>2
    <2> QED
      BY <2>1, <2>2, <2>4, <2>5, <2>6
  <1> QED
    BY <1>1, <1>2, <1>3

(* Every node but the target is reached by an edge, over all that E has. *)
LEMMA WaysIn ==
  ASSUME Graph, NEW E \in SUBSET edges, NEW p, IsPath(p, target, E)
  PROVE  /\ IsWay(p, End(p)) /\ p \in Seq(E)
         /\ p # <<>> => Last(p) \in E /\ IsPath(Front(p), target, E)
  <1>1. p \in Seq(E) /\ p \in Seq(edges) /\ Len(p) \in Nat
    <2>1. p \in Seq(E)
      BY DEF IsPath
    <2> QED
      BY <2>1
  <1>2. IsWay(p, End(p))
    BY <1>1 DEF IsWay, IsPath
  <1>3. ASSUME p # <<>> PROVE Last(p) \in E /\ IsPath(Front(p), target, E)
    <2>1. Last(p) \in E /\ Front(p) = Prefix(p, Len(p) - 1) /\ Len(p) \in Nat \ {0}
      BY <1>1, <1>3, FrontIs
    <2>2. Len(p) - 1 \in 0..Len(p)
      BY <2>1
    <2> QED
      BY <2>1, <2>2, PathPrefix
  <1> QED
    BY <1>1, <1>2, <1>3

--------------------------------------------------------------------------------
(* The key of a path determines the path. *)

Starts(p) == {RelationIDs(p)[2 * j - 1] : j \in 1..graphDepth(p)}
StartsOnIt(p) == {p[i].from : i \in {j \in 1..Len(p) : isRelation(p[j])}}

(* The relation IDs tell where the relations on a path start. *)
LEMMA RelationStarts ==
  ASSUME Graph, NEW p \in Seq(edges)
  PROVE  Starts(p) = StartsOnIt(p)
  <1> DEFINE K == {k \in Nat : \A q \in Seq(edges) : Len(q) = k => Starts(q) = StartsOnIt(q)}
  <1>1. 0 \in K
    <2> SUFFICES ASSUME NEW q \in Seq(edges), Len(q) = 0 PROVE Starts(q) = StartsOnIt(q)
      OBVIOUS
    <2>1. q = <<>>
      BY EmptySeq
    <2>2. graphDepth(q) = 0
      BY <2>1, CountsEmpty
    <2>3. 1..0 = {}
      OBVIOUS
    <2> QED
      BY <2>2, <2>3 DEF Starts, StartsOnIt
  <1>2. ASSUME NEW k \in Nat, k \in K PROVE k + 1 \in K
    <2> SUFFICES ASSUME NEW q \in Seq(edges), Len(q) = k + 1 PROVE Starts(q) = StartsOnIt(q)
      OBVIOUS
    <2>1. q # <<>>
      OBVIOUS
    <2>2. PICK r \in Seq(edges), e \in edges : q = Append(r, e)
      BY <2>1, SequenceEmptyOrAppend
    <2>3. Len(r) = k /\ q[k + 1] = e /\ \A i \in 1..k : q[i] = r[i]
      BY <2>2, AppendProperties, LenProperties
    <2>4. Starts(r) = StartsOnIt(r)
      BY <1>2, <2>3
    <2>5. StartsOnIt(q) = StartsOnIt(r) \cup (IF isRelation(e) THEN {e.from} ELSE {})
      <3>1. 1..(k + 1) = (1..k) \cup {k + 1} /\ k + 1 \notin 1..k
        OBVIOUS
      <3>2. {j \in 1..(k + 1) : isRelation(q[j])}
              = {j \in 1..k : isRelation(r[j])} \cup (IF isRelation(e) THEN {k + 1} ELSE {})
        BY <2>3, <3>1
      <3> DEFINE P == {j \in 1..k : isRelation(r[j])}
                 Q == {j \in 1..(k + 1) : isRelation(q[j])}
      <3>3. P \subseteq 1..k /\ Q = P \cup (IF isRelation(e) THEN {k + 1} ELSE {})
        BY <3>2
      <3>4. StartsOnIt(r) = {r[i].from : i \in P} /\ StartsOnIt(q) = {q[i].from : i \in Q}
        BY <2>3 DEF StartsOnIt
      <3> HIDE DEF P, Q
      <3>5. CASE isRelation(e)
        <4>1. Q = P \cup {k + 1}
          BY <3>3, <3>5
        <4>2. {q[i].from : i \in Q} = {r[i].from : i \in P} \cup {e.from}
          BY <2>3, <3>3, <4>1
        <4> QED
          BY <3>4, <3>5, <4>2
      <3>6. CASE ~isRelation(e)
        <4>1. Q = P
          BY <3>3, <3>6
        <4>2. {q[i].from : i \in Q} = {r[i].from : i \in P}
          BY <2>3, <3>3, <4>1
        <4> QED
          BY <3>4, <3>6, <4>2
      <3> QED
        BY <3>5, <3>6
    <2> DEFINE d == graphDepth(r)
               R == RelationIDs(r)
               S == RelationIDs(q)
    <2>6. R \in Seq(Nat) /\ Len(R) = 2 * d /\ d \in Nat
      BY RelationIDsType
    <2>7. S = R \o IDs(e) /\ IDs(e) \in Seq(Nat)
      BY <2>2, RelationIDsAppend
    <2>8. graphDepth(q) = d + IF isRelation(e) THEN 1 ELSE 0
      BY <2>2, CountsAppend
    <2>9. Starts(r) = {R[2 * j - 1] : j \in 1..d} /\ Starts(q) = {S[2 * j - 1] : j \in 1..graphDepth(q)}
      BY DEF Starts
    <2> HIDE DEF d, R, S
    <2>10. CASE isRelation(e)
      <3>1. IDs(e) = <<e.from, e.to>>
        BY <2>10 DEF IDs
      <3> DEFINE t == IDs(e)
      <3>2. t \in Seq(Nat) /\ Len(t) = 2 /\ t[1] = e.from
        BY <2>7, <3>1
      <3> HIDE DEF t
      <3>3. /\ \A i \in 1..(2 * d) : S[i] = R[i]
            /\ S[2 * d + 1] = t[1]
        <4>1. S = R \o t /\ Len(R) = 2 * d /\ 2 * d \in Nat
          BY <2>6, <2>7 DEF t
        <4>2. \A i \in 1..Len(R) + Len(t) : S[i] = IF i <= Len(R) THEN R[i] ELSE t[i - Len(R)]
          BY <2>6, <3>2, <4>1, ConcatProperties
        <4> DEFINE w == 2 * d
        <4> HIDE DEF w
        <4>3. /\ \A i \in 1..w + 2 : S[i] = IF i <= w THEN R[i] ELSE t[i - w]
              /\ w \in Nat
          BY <3>2, <4>1, <4>2 DEF w
        <4>4. (w + 1) - w = 1 /\ w + 1 \in 1..w + 2 /\ ~(w + 1 <= w) /\ 1..w \subseteq 1..w + 2
          BY <4>3
        <4>5. /\ \A i \in 1..w : S[i] = R[i]
              /\ S[w + 1] = t[1]
          BY <4>3, <4>4
        <4> QED
          BY <4>5 DEF w
      <3>4. \A j \in 1..d : 2 * j - 1 \in 1..(2 * d) /\ S[2 * j - 1] = R[2 * j - 1]
        BY <2>6, <3>3
      <3>5. graphDepth(q) = d + 1 /\ 2 * (d + 1) - 1 = 2 * d + 1 /\ 1..(d + 1) = (1..d) \cup {d + 1}
        BY <2>6, <2>8, <2>10
      <3>6. S[2 * (d + 1) - 1] = e.from
        BY <3>2, <3>3, <3>5
      <3>7. {S[2 * j - 1] : j \in (1..d) \cup {d + 1}} = {S[2 * j - 1] : j \in 1..d} \cup {S[2 * (d + 1) - 1]}
        OBVIOUS
      <3>8. {S[2 * j - 1] : j \in 1..d} = {R[2 * j - 1] : j \in 1..d}
        BY <3>4
      <3> QED
        BY <2>4, <2>5, <2>9, <2>10, <3>5, <3>6, <3>7, <3>8
    <2>11. CASE ~isRelation(e)
      <3>1. IDs(e) = <<>>
        BY <2>11 DEF IDs
      <3>2. S = R
        BY <2>6, <2>7, <3>1
      <3>3. graphDepth(q) = d
        BY <2>6, <2>8, <2>11
      <3> QED
        BY <2>4, <2>5, <2>9, <2>11, <3>2, <3>3
    <2> QED
      BY <2>10, <2>11
  <1>3. Len(p) \in K
    <2> HIDE DEF K
    <2> QED
      BY <1>1, <1>2, SetInduction, LenProperties
  <1> QED
    BY <1>3

(* Two paths from the target with the same key are one. *)
LEMMA KeyTellsPath ==
  ASSUME Graph, NEW p, NEW q, NEW m, NEW n, IsWay(p, m), IsWay(q, n), PathKey(p) = PathKey(q)
  PROVE  p = q
  <1>1. /\ p \in Seq(edges) /\ q \in Seq(edges) /\ Len(p) \in Nat /\ Len(q) \in Nat
        /\ IsPath(p, target, edges) /\ IsPath(q, target, edges)
    BY WayIs DEF IsWay
  <1> DEFINE k == PathKey(p)
             R == RelationIDs(p)
             S == RelationIDs(q)
  <1>2. Shape(k, p) /\ Shape(k, q)
    BY <1>1, KeyShape
  <1>3. /\ R \in Seq(Nat) /\ Len(R) = 2 * graphDepth(p) /\ graphDepth(p) \in Nat
        /\ S \in Seq(Nat) /\ Len(S) = 2 * graphDepth(q) /\ graphDepth(q) \in Nat
    BY <1>1, RelationIDsType
  <1>4. \A i \in 1..Len(p) : p[i] \in edges /\ p[i].to \in Nat \ {0} /\ p[i].from \in Nat
    BY <1>1, EdgeEnds
  <1>5. \A i \in 1..Len(q) : q[i] \in edges /\ q[i].to \in Nat \ {0} /\ q[i].from \in Nat
    BY <1>1, EdgeEnds
  <1> HIDE DEF k, R, S
  <1>6. graphDepth(p) = graphDepth(q)
    BY <1>2 DEF Shape
  <1>7. \A i \in 1..Len(p) : k[2 + i] = p[i].to
    BY <1>2 DEF Shape
  <1>8. \A i \in 1..Len(q) : k[2 + i] = q[i].to
    BY <1>2 DEF Shape
  <1>9. k[Len(p) + 3] = 0 /\ k[Len(q) + 3] = 0
    BY <1>2 DEF Shape
  <1>10. ~(Len(p) < Len(q))
    <2> SUFFICES ASSUME Len(p) < Len(q) PROVE FALSE
      OBVIOUS
    <2>1. Len(p) + 1 \in 1..Len(q) /\ 2 + (Len(p) + 1) = Len(p) + 3
      BY <1>1
    <2> QED
      BY <1>5, <1>8, <1>9, <2>1
  <1>11. ~(Len(q) < Len(p))
    <2> SUFFICES ASSUME Len(q) < Len(p) PROVE FALSE
      OBVIOUS
    <2>1. Len(q) + 1 \in 1..Len(p) /\ 2 + (Len(q) + 1) = Len(q) + 3
      BY <1>1
    <2> QED
      BY <1>4, <1>7, <1>9, <2>1
  <1>12. Len(p) = Len(q)
    BY <1>1, <1>10, <1>11
  <1>13. \A i \in 1..Len(p) : p[i].to = q[i].to
    BY <1>7, <1>8, <1>12
  <1>14. ASSUME NEW i \in 1..Len(p)
         PROVE  /\ p[i].from = IF i = 1 THEN target ELSE p[i - 1].to
                /\ q[i].from = IF i = 1 THEN target ELSE q[i - 1].to
                /\ p[i].from = q[i].from
    <2>1. i # 1 => i - 1 \in 1..Len(p)
      BY <1>1
    <2>2. i \in DOMAIN p /\ i \in DOMAIN q
      BY <1>1, <1>12
    <2>3. /\ p[i].from = IF i = 1 THEN target ELSE p[i - 1].to
          /\ q[i].from = IF i = 1 THEN target ELSE q[i - 1].to
      BY <1>1, <2>2 DEF IsPath
    <2> QED
      BY <1>13, <2>1, <2>3
  <1>15. ASSUME NEW i \in 1..Len(p), NEW j \in 1..Len(p), p[i].from = p[j].from PROVE i = j
    <2>1. i - 1 \in 0..Len(p) /\ j - 1 \in 0..Len(p) /\ i \in Nat /\ j \in Nat
      BY <1>1
    <2>2. End(Prefix(p, i - 1)) = End(Prefix(p, j - 1))
      BY <1>15, WayIs
    <2>3. i - 1 = j - 1
      BY <2>1, <2>2, WayIs
    <2> QED
      BY <2>1, <2>3
  <1>16. StartsOnIt(p) = StartsOnIt(q)
    <2>1. Len(R) = Len(S)
      BY <1>3, <1>6
    <2>2. /\ \A j \in 1..Len(R) : k[Len(p) + 3 + j] = R[j]
          /\ \A j \in 1..Len(S) : k[Len(q) + 3 + j] = S[j]
      BY <1>2 DEF Shape, R, S
    <2>3. \A j \in 1..Len(R) : R[j] = S[j]
      BY <1>12, <2>1, <2>2
    <2>4. R = S
      BY <1>3, <2>1, <2>3, SeqEqual
    <2>5. Starts(p) = Starts(q)
      BY <1>6, <2>4 DEF Starts, R, S
    <2> QED
      BY <1>1, <2>5, RelationStarts
  <1>17. ASSUME NEW i \in 1..Len(p) PROVE isRelation(p[i]) <=> isRelation(q[i])
    <2>1. isRelation(p[i]) <=> p[i].from \in StartsOnIt(p)
      BY <1>15 DEF StartsOnIt
    <2>2. isRelation(q[i]) <=> p[i].from \in StartsOnIt(q)
      <3>1. isRelation(q[i]) => q[i].from \in StartsOnIt(q)
        BY <1>12 DEF StartsOnIt
      <3>2. ASSUME p[i].from \in StartsOnIt(q) PROVE isRelation(q[i])
        <4>1. PICK j \in 1..Len(q) : isRelation(q[j]) /\ q[j].from = p[i].from
          BY <3>2 DEF StartsOnIt
        <4>2. p[j].from = p[i].from /\ j \in 1..Len(p)
          BY <1>12, <1>14, <4>1
        <4>3. i = j
          BY <1>15, <4>2
        <4> QED
          BY <4>1, <4>3
      <3> QED
        BY <1>14, <3>1, <3>2
    <2> QED
      BY <1>16, <2>1, <2>2
  <1>18. ASSUME NEW i \in 1..Len(p) PROVE p[i] = q[i]
    <2>1. p[i] \in edges /\ q[i] \in edges /\ p[i].from = q[i].from /\ p[i].to = q[i].to
      BY <1>4, <1>5, <1>12, <1>13, <1>14
    <2>2. \A e \in edges : e.kind \in {"relation", "scope"}
      BY EdgeEnds DEF Connections, ScopeEdges
    <2>3. p[i].kind = q[i].kind
      BY <1>17, <2>1, <2>2 DEF isRelation
    <2>4. \A d, e \in edges : d.from = e.from /\ d.to = e.to /\ d.kind = e.kind => d = e
      BY DEF Graph
    <2> QED
      BY <2>1, <2>3, <2>4
  <1> QED
    BY <1>1, <1>12, <1>18, SeqEqual

--------------------------------------------------------------------------------
(* The chosen paths. *)

(* b is the least path over E to n, or None where there is no path. *)
LeastOf(b, n, E) ==
  LET S == {p \in PathsFrom(target, E) : End(p) = n}
  IN  IF S = {} THEN b = None ELSE b \in S /\ \A q \in S : ~lessPath(q, b)

LEMMA LeastPathsAre ==
  ASSUME Graph, NEW E \in SUBSET edges
  PROVE  /\ DOMAIN LeastPaths(E) = nodes
         /\ \A n \in nodes : LeastOf(LeastPaths(E)[n], n, E)
  <1> DEFINE S(n) == {p \in PathsFrom(target, E) : End(p) = n}
  <1>1. target \in nodes
    BY EdgeEnds
  <1>2. SimplePathsFrom(target, E) = PathsFrom(target, E) /\ IsFiniteSet(PathsFrom(target, E))
    BY <1>1, SimplePathsAre, PathsFinite
  <1>3. LeastPaths(E) = [n \in nodes |-> IF S(n) = {} THEN None ELSE LeastPath(S(n))]
    BY <1>2, Zenon DEF LeastPaths
  <1>4. ASSUME NEW n \in nodes, S(n) # {}
        PROVE  LeastPath(S(n)) \in S(n) /\ \A q \in S(n) : ~lessPath(q, LeastPath(S(n)))
    <2>1. IsFiniteSet(S(n))
      <3>1. S(n) \subseteq PathsFrom(target, E)
        OBVIOUS
      <3> HIDE DEF S
      <3> QED
        BY <1>2, <3>1, FS_Subset
    <2>2. S(n) \in SUBSET Seq(edges)
      <3>1. \A p \in PathsFrom(target, E) : p \in Seq(edges)
        BY DEF PathsFrom
      <3> QED
        BY <3>1
    <2> HIDE DEF S
    <2> QED
      BY <1>4, <2>1, <2>2, LeastPathIsLeast
  <1>5. ASSUME NEW n \in nodes PROVE LeastOf(LeastPaths(E)[n], n, E)
    <2> DEFINE b == LeastPaths(E)[n]
    <2>1. b = IF S(n) = {} THEN None ELSE LeastPath(S(n))
      BY <1>3
    <2>2. IF S(n) = {} THEN b = None ELSE b \in S(n) /\ \A q \in S(n) : ~lessPath(q, b)
      <3> HIDE DEF b, S
      <3> QED
        BY <1>4, <2>1
    <2>3. LeastOf(b, n, E) = IF S(n) = {} THEN b = None ELSE b \in S(n) /\ \A q \in S(n) : ~lessPath(q, b)
      BY Zenon DEF LeastOf
    <2> HIDE DEF b, S
    <2>4. LeastOf(b, n, E)
      BY <2>2, <2>3
    <2> QED
      BY <2>4 DEF b
  <1> QED
    BY <1>3, <1>5

(* A node has one edge into it, from m: the paths to it are those to m, and on. *)
LEMMA OnlyWayIn ==
  ASSUME Graph, NEW E \in SUBSET edges, NEW e \in E, NEW n \in nodes \ {target}, In(n) = {e}
  PROVE  /\ \A p \in PathsFrom(target, E) : End(p) = e.from =>
              Append(p, e) \in PathsFrom(target, E) /\ End(Append(p, e)) = n
         /\ \A p \in PathsFrom(target, E) : End(p) = n =>
              /\ p # <<>> /\ p = Append(Front(p), e)
              /\ Front(p) \in PathsFrom(target, E) /\ End(Front(p)) = e.from
  <1>1. e \in edges /\ e.to = n /\ \A f \in edges : f.to = n => f = e
    BY DEF In
  <1>2. ASSUME NEW p \in PathsFrom(target, E), End(p) = e.from
        PROVE  Append(p, e) \in PathsFrom(target, E) /\ End(Append(p, e)) = n
    <2>1. IsPath(p, target, E) /\ p \in Seq(E)
      BY DEF PathsFrom
    <2>2. IsWay(p, e.from)
      BY <1>2, <2>1, WaysIn
    <2>3. p \in Seq(edges) /\ Len(p) \in Nat /\ DOMAIN p = 1..Len(p)
      BY <2>2, WayIs
    <2>4. n \notin Met(p, target)
      <3>1. ASSUME NEW i \in 1..Len(p), p[i].to = n PROVE FALSE
        <4>1. p[i] = e
          <5>1. p[i] \in edges
            BY <2>2, WayIs
          <5> QED
            BY <1>1, <3>1, <5>1
        <4>2. End(Prefix(p, i - 1)) = e.from
          BY <2>2, <4>1, WayIs
        <4>3. Prefix(p, Len(p)) = p
          BY <2>3 DEF Prefix
        <4>4. i - 1 \in 0..Len(p) /\ Len(p) \in 0..Len(p) /\ i - 1 # Len(p)
          BY <2>3
        <4>5. i - 1 = Len(p)
          BY <1>2, <2>2, <4>2, <4>3, <4>4, WayIs
        <4> QED
          BY <4>4, <4>5
      <3> QED
        BY <2>3, <3>1 DEF Met
    <2>5. e.from = Tip(p, target)
      BY <1>2, <2>3, EndIsTip
    <2>6. IsPath(Append(p, e), target, E)
      BY <1>1, <2>1, <2>4, <2>5, PathAppend
    <2>7. Append(p, e) \in Seq(E)
      BY <2>1
    <2>8. End(Append(p, e)) = n
      BY <1>1, <2>3, EndIsTip
    <2> QED
      BY <2>6, <2>7, <2>8 DEF PathsFrom
  <1>3. ASSUME NEW p \in PathsFrom(target, E), End(p) = n
        PROVE  /\ p # <<>> /\ p = Append(Front(p), e)
               /\ Front(p) \in PathsFrom(target, E) /\ End(Front(p)) = e.from
    <2>1. IsPath(p, target, E)
      BY DEF PathsFrom
    <2>2. IsWay(p, n)
      BY <1>3, <2>1, WaysIn
    <2>3. p # <<>> /\ Last(p) \in edges /\ Last(p).to = n /\ Last(p).from = End(Front(p))
          /\ p = Append(Front(p), Last(p))
      BY <2>2, WayEnds
    <2>4. Last(p) = e
      BY <1>1, <2>3
    <2>5. IsPath(Front(p), target, E)
      BY <2>1, <2>3, WaysIn
    <2>6. Front(p) \in Seq(E)
      BY <2>5 DEF IsPath
    <2> QED
      BY <2>3, <2>4, <2>5, <2>6 DEF PathsFrom
  <1> QED
    BY <1>2, <1>3

(* So the least path to it goes on from the least one to m. *)
LEMMA LeastGoesOn ==
  ASSUME Graph, NEW E \in SUBSET edges, NEW e \in E, NEW n \in nodes \ {target}, In(n) = {e},
         NEW b, LeastOf(b, e.from, E), NEW c, LeastOf(c, n, E)
  PROVE  IF b = None THEN c = None ELSE c = Append(b, e)
  <1> DEFINE S(l) == {p \in PathsFrom(target, E) : End(p) = l}
             m == e.from
  <1>0. None \notin Seq(edges) /\ \A p \in PathsFrom(target, E) : p \in Seq(edges) /\ p # None
    <2>1. None \notin Seq(edges)
      BY EdgeEnds
    <2> QED
      BY <2>1 DEF PathsFrom
  <1>1. IF S(m) = {} THEN b = None ELSE b \in S(m) /\ \A q \in S(m) : ~lessPath(q, b)
    BY Zenon DEF LeastOf
  <1>2. IF S(n) = {} THEN c = None ELSE c \in S(n) /\ \A q \in S(n) : ~lessPath(q, c)
    BY Zenon DEF LeastOf
  <1>3. \A p \in S(m) : Append(p, e) \in S(n)
    BY OnlyWayIn
  <1>4. \A p \in S(n) : p = Append(Front(p), e) /\ Front(p) \in S(m)
    BY OnlyWayIn
  <1>5. \A l : \A p \in S(l) : IsWay(p, l) /\ p \in Seq(edges) /\ p # None
               /\ IsPath(p, target, E) /\ End(p) = l
    BY <1>0, WaysIn DEF PathsFrom
  <1> HIDE DEF S
  <1>6. CASE S(m) = {}
    <2>1. S(n) = {}
      BY <1>4, <1>6
    <2> QED
      BY <1>1, <1>2, <1>6, <2>1
  <1>7. CASE S(m) # {}
    <2>1. b \in S(m) /\ \A q \in S(m) : ~lessPath(q, b)
      BY <1>1, <1>7
    <2>2. c \in S(n) /\ \A q \in S(n) : ~lessPath(q, c)
      BY <1>2, <1>3, <2>1
    <2> DEFINE f == Front(c)
               be == Append(b, e)
    <2>3. c = Append(f, e) /\ f \in S(m)
      BY <1>4, <2>2
    <2>4. be \in S(n)
      BY <1>3, <2>1
    <2> HIDE DEF be
    <2>5. ~lessPath(be, c)
      BY <2>2, <2>4
    <2>6. ~lessPath(c, be)
      <3> SUFFICES ASSUME lessPath(c, be) PROVE FALSE
        OBVIOUS
      <3>1. lessPath(Append(f, e), Append(b, e))
        BY <2>3 DEF be
      <3>2. f \in Seq(edges) /\ b \in Seq(edges) /\ IsPath(f, target, E) /\ End(f) = End(b)
        BY <1>5, <2>1, <2>3
      <3> HIDE DEF f
      <3>3. lessPath(f, b)
        BY <3>1, <3>2, ExtensionKeepsOrder
      <3> QED
        BY <2>1, <2>3, <3>3
    <2>7. PathKey(be) \in Seq(Nat) /\ PathKey(c) \in Seq(Nat)
      BY <1>5, <2>2, <2>4, KeyShape
    <2>8. PathKey(be) = PathKey(c)
      BY <2>5, <2>6, <2>7, BeforeTotal DEF lessPath
    <2>9. be = c
      BY <1>5, <2>2, <2>4, <2>8, KeyTellsPath
    <2> QED
      BY <1>5, <2>1, <2>9 DEF be
  <1> QED
    BY <1>6, <1>7

(* Prepare gives each node a path, and follows an only edge that is confirmed. *)
LEMMA SelectedAre ==
  ASSUME Graph
  PROVE  /\ DOMAIN SelectedPaths = nodes
         /\ \A n \in nodes : IsWay(SelectedPaths[n], n)
         /\ \A n \in nodes \ {target} : \A e \in edges :
              In(n) = {e} /\ confirmed(e) => SelectedPaths[n] = Append(SelectedPaths[e.from], e)
  <1> DEFINE Sure == {e \in edges : confirmed(e)}
             sure == LeastPaths(Sure)
             all == LeastPaths(edges)
  <1>1. SelectedPaths = [n \in nodes |-> IF sure[n] # None THEN sure[n] ELSE all[n]]
    BY Zenon DEF SelectedPaths
  <1>2. Sure \in SUBSET edges /\ \A n \in nodes : LeastOf(sure[n], n, Sure) /\ LeastOf(all[n], n, edges)
    BY LeastPathsAre
  <1>3. target \in nodes /\ None \notin Seq(edges) /\ \A e \in edges : e.from \in nodes
    BY EdgeEnds
  <1>4. ASSUME NEW n \in nodes PROVE \E p \in PathsFrom(target, edges) : End(p) = n
    <2>1. n \in Ends(target, edges)
      <3>1. Reached(edges, target) = nodes
        BY DEF Graph
      <3> QED
        BY <1>3, <3>1, ReachedAre
    <2>2. PICK p \in PathsFrom(target, edges) : n = Tip(p, target)
      BY <2>1 DEF Ends
    <2>3. p \in Seq(edges)
      BY DEF PathsFrom
    <2> QED
      BY <2>2, <2>3, EndIsTip
  <1> HIDE DEF sure, all
  <1>5. ASSUME NEW n \in nodes PROVE IsWay(all[n], n)
    <2>1. all[n] \in PathsFrom(target, edges) /\ End(all[n]) = n
      BY <1>2, <1>4 DEF LeastOf
    <2> QED
      BY <2>1 DEF PathsFrom, IsWay
  <1>6. ASSUME NEW n \in nodes, sure[n] # None PROVE IsWay(sure[n], n)
    <2>1. sure[n] \in PathsFrom(target, Sure) /\ End(sure[n]) = n
      BY <1>2, <1>6 DEF LeastOf
    <2> HIDE DEF Sure
    <2> QED
      BY <1>2, <2>1, WaysIn DEF PathsFrom
  <1>7. ASSUME NEW n \in nodes \ {target}, NEW e \in edges, In(n) = {e}, confirmed(e)
        PROVE  SelectedPaths[n] = Append(SelectedPaths[e.from], e)
    <2> DEFINE m == e.from
    <2>1. m \in nodes /\ e \in Sure /\ n \in nodes
      BY <1>3, <1>7
    <2>2. LeastOf(sure[n], n, Sure) /\ LeastOf(sure[m], m, Sure)
          /\ LeastOf(all[n], n, edges) /\ LeastOf(all[m], m, edges)
      BY <1>2, <2>1
    <2> HIDE DEF Sure
    <2>6. ASSUME NEW E \in SUBSET edges, e \in E,
                 NEW b, NEW c, LeastOf(b, e.from, E), LeastOf(c, n, E)
          PROVE  IF b = None THEN c = None ELSE c = Append(b, e)
      BY <1>7, <2>6, LeastGoesOn
    <2>3. IF sure[m] = None THEN sure[n] = None ELSE sure[n] = Append(sure[m], e)
      BY <1>2, <2>1, <2>2, <2>6
    <2>4. IF all[m] = None THEN all[n] = None ELSE all[n] = Append(all[m], e)
      BY <2>2, <2>6
    <2>5. ASSUME NEW x, NEW y, NEW u, NEW v, None \notin Seq(edges),
                 u \in Seq(edges), x # None => x \in Seq(edges),
                 IF x = None THEN y = None ELSE y = Append(x, e),
                 IF u = None THEN v = None ELSE v = Append(u, e)
          PROVE  (IF y # None THEN y ELSE v) = Append(IF x # None THEN x ELSE u, e)
      <3>1. CASE x = None
        <4>1. u # None
          BY <2>5
        <4> QED
          BY <2>5, <3>1, <4>1
      <3>2. CASE x # None
        <4>1. x \in Seq(edges) /\ y = Append(x, e)
          BY <2>5, <3>2
        <4>2. y \in Seq(edges)
          BY <4>1
        <4> QED
          BY <2>5, <3>2, <4>1, <4>2
      <3> QED
        BY <3>1, <3>2
    <2>7. /\ SelectedPaths[n] = IF sure[n] # None THEN sure[n] ELSE all[n]
          /\ SelectedPaths[m] = IF sure[m] # None THEN sure[m] ELSE all[m]
      BY <1>1, <2>1
    <2>8. all[m] \in Seq(edges) /\ (sure[m] # None => sure[m] \in Seq(edges))
      BY <1>5, <1>6, <2>1, WayIs
    <2>9. (IF sure[n] # None THEN sure[n] ELSE all[n])
            = Append(IF sure[m] # None THEN sure[m] ELSE all[m], e)
      <3> HIDE DEF m
      <3> QED
        BY <1>3, <2>3, <2>4, <2>5, <2>8
    <2> QED
      BY <2>7, <2>9
  <1>8. DOMAIN SelectedPaths = nodes
    BY <1>1
  <1>9. \A n \in nodes : IsWay(SelectedPaths[n], n)
    BY <1>1, <1>5, <1>6
  <1> QED
    BY <1>7, <1>8, <1>9

(* What is reached past all limits has a path there. *)
LEMMA LimitFreeAre ==
  ASSUME Graph
  PROVE  /\ DOMAIN LimitFreePaths = nodes
         /\ \A n \in nodes : LimitFreePaths[n] # None => IsWay(LimitFreePaths[n], n)
  <1> DEFINE E == {e \in edges : e.to \notin owners}
  <1>1. CASE target \in owners
    <2>1. LimitFreePaths = [n \in nodes |-> None]
      BY <1>1 DEF LimitFreePaths
    <2> QED
      BY <2>1
  <1>2. CASE target \notin owners
    <2>1. LimitFreePaths = LeastPaths(E) /\ E \in SUBSET edges
      BY <1>2 DEF LimitFreePaths
    <2> HIDE DEF E
    <2>2. DOMAIN LimitFreePaths = nodes /\ \A n \in nodes : LeastOf(LimitFreePaths[n], n, E)
      BY <2>1, LeastPathsAre
    <2>3. ASSUME NEW n \in nodes, NEW b, b # None, LeastOf(b, n, E) PROVE IsWay(b, n)
      <3>1. b \in PathsFrom(target, E) /\ End(b) = n
        BY <2>3 DEF LeastOf
      <3> QED
        BY <2>1, <3>1, WaysIn DEF PathsFrom
    <2> QED
      BY <2>2, <2>3
  <1> QED
    BY <1>1, <1>2

BoundariesReached ==
  \A n \in Boundaries : n \in nodes /\ limitFree[n] # None /\ (Out(n) = {} \/ InCycle(n))

LEMMA BoundaryIs == Graph => BoundariesReached
  <1> SUFFICES ASSUME Graph, NEW n \in Boundaries
               PROVE  n \in nodes /\ limitFree[n] # None /\ (Out(n) = {} \/ InCycle(n))
    BY DEF BoundariesReached
  <1> DEFINE past == {m \in nodes : limitFree[m] # None}
  <1>1. CASE n \in {m \in past : Out(m) = {}}
    BY <1>1
  <1>2. ASSUME NEW c \in cycles, c \cap past # {}, n = Min(c \cap past)
        PROVE  n \in nodes /\ limitFree[n] # None /\ InCycle(n)
    <2>1. c \subseteq nodes /\ c \subseteq Nat
      BY CycleNodes
    <2>2. n \in c \cap past
      <3> HIDE DEF past
      <3>1. c \cap past \in SUBSET Nat
        BY <2>1
      <3> QED
        BY <1>2, <3>1, MinIsLeast
    <2> QED
      BY <2>2 DEF InCycle
  <1>3. n \in {m \in past : Out(m) = {}}
        \/ \E c \in cycles : c \cap past # {} /\ n = Min(c \cap past)
    BY DEF Boundaries
  <1> QED
    BY <1>1, <1>2, <1>3

--------------------------------------------------------------------------------
(* The inserted paths. *)

LEMMA OccurrenceIs ==
  ASSUME Graph, OccurrencesWhole, NEW p \in Occurrences
  PROVE  /\ IsWay(p, End(p)) /\ p \in Seq(edges) /\ End(p) \in nodes
         /\ p \in Range(occurrences[End(p)])
         /\ p # <<>> => Front(p) \in Occurrences
  <1>1. PICK n \in nodes : p \in Range(occurrences[n])
    BY DEF Occurrences
  <1>2. IsWay(p, n)
    BY <1>1 DEF OccurrencesWhole, Range
  <1>3. End(p) = n /\ p \in Seq(edges) /\ Len(p) \in Nat
    BY <1>2, WayIs
  <1>4. p # <<>> => Front(p) \in Occurrences
    <2> SUFFICES ASSUME p # <<>> PROVE Front(p) \in Occurrences
      OBVIOUS
    <2>1. Front(p) = Prefix(p, Len(p) - 1) /\ Len(p) \in Nat \ {0}
      BY <1>3, FrontIs
    <2>2. Len(p) - 1 \in 0..Len(p)
      BY <2>1
    <2> QED
      BY <2>1, <2>2 DEF OccurrencesWhole
  <1> QED
    BY <1>1, <1>2, <1>3, <1>4

LEMMA OccurrencesOf ==
  ASSUME Graph, OccurrencesWhole, NEW n \in nodes, NEW p \in Range(occurrences[n])
  PROVE  p \in Occurrences /\ End(p) = n /\ IsWay(p, n)
  BY DEF Occurrences, OccurrencesWhole, Range, IsWay

(* Below a leaf there is nothing. *)
LEMMA LeafEnds ==
  ASSUME Graph, OccurrencesWhole, NEW p \in Seq(edges), Leaf(p), NEW q \in Occurrences
  PROVE  ~IsStrictPrefix(p, q)
  <1> SUFFICES ASSUME IsStrictPrefix(p, q) PROVE FALSE
    OBVIOUS
  <1>1. q \in Seq(edges) /\ Len(q) \in Nat /\ Len(p) \in Nat
    BY OccurrenceIs
  <1>2. Len(p) < Len(q) /\ p = Prefix(q, Len(p))
    BY <1>1, StrictPrefixIs
  <1> DEFINE k == Len(p) + 1
             r == Prefix(q, k)
  <1>3. k \in 0..Len(q) /\ k - 1 = Len(p) /\ Len(p) \in 0..k
    BY <1>1, <1>2
  <1>4. r \in Occurrences
    BY <1>3 DEF OccurrencesWhole
  <1>5. r \in Seq(edges) /\ Len(r) = k /\ Prefix(r, Len(p)) = p
    BY <1>1, <1>2, <1>3, PrefixIs
  <1>6. r # <<>> /\ Front(r) = p
    <2>1. r # <<>>
      BY <1>1, <1>5
    <2> HIDE DEF r, k
    <2> QED
      BY <1>3, <1>5, <2>1, FrontIs
  <1> QED
    BY <1>4, <1>6 DEF Leaf

(* A child of an occurrence shows that it is no leaf, and the other way round. *)
LEMMA ChildIs ==
  ASSUME Graph, OccurrencesWhole, NEW p \in Seq(edges), reference = <<>>
  PROVE  Tree = Occurrences /\ (Children(p) = {} <=> Leaf(p))
  <1>1. DOMAIN reference = {}
    OBVIOUS
  <1>2. Tree = Occurrences
    BY <1>1 DEF Tree
  <1> QED
    BY <1>2 DEF Children, Leaf

LEMMA TreeStays ==
  ASSUME UNCHANGED <<graph, occurrences>>
  PROVE  /\ Graph => Graph'
         /\ \A p, n : IsWay(p, n)' <=> IsWay(p, n)
         /\ \A p : End(p)' = End(p)
         /\ Occurrences' = Occurrences
         /\ \A p : Leaf(p)' <=> Leaf(p)
         /\ OccurrencesWhole => OccurrencesWhole'
  <1>1. /\ Graph => Graph'
        /\ \A p : End(p)' = End(p)
        /\ target' = target /\ nodes' = nodes /\ edges' = edges
    BY GraphStays
  <1>2. \A p, n : IsWay(p, n)' <=> IsWay(p, n)
    BY <1>1 DEF IsWay, IsPath
  <1>3. Occurrences' = Occurrences
    BY <1>1 DEF Occurrences, Range
  <1>4. \A p : Leaf(p)' <=> Leaf(p)
    BY <1>3 DEF Leaf
  <1>5. OccurrencesWhole => OccurrencesWhole'
    BY <1>1, <1>2, <1>3 DEF OccurrencesWhole
  <1> QED
    BY <1>1, <1>2, <1>3, <1>4, <1>5

(* insertPath adds what is new of a path. *)
LEMMA InsertKeeps ==
  ASSUME Graph, OccurrencesWhole, NEW p, NEW m, IsWay(p, m),
         UNCHANGED graph, occurrences' = Inserted(p)
  PROVE  /\ OccurrencesWhole'
         /\ Occurrences \subseteq Occurrences' /\ p \in Occurrences'
  <1> DEFINE fresh(n) == {q \in {SubSeq(p, 1, k) : k \in DOMAIN p} \ Occurrences : End(q) = n}
             more(n) == occurrences'[n]
  <1>1. /\ Graph' /\ nodes' = nodes /\ edges' = edges /\ target' = target
        /\ \A q : End(q)' = End(q)
        /\ \A q, n : IsWay(q, n)' <=> IsWay(q, n)
    <2>1. /\ Graph' /\ nodes' = nodes /\ edges' = edges /\ target' = target
          /\ \A q : End(q)' = End(q)
      BY GraphStays
    <2> QED
      BY <2>1 DEF IsWay, IsPath
  <1>2. p \in Seq(edges) /\ Len(p) \in Nat /\ DOMAIN p = 1..Len(p)
    BY WayIs
  <1>3. \A n : fresh(n) = {q \in {Prefix(p, k) : k \in 1..Len(p)} : q \notin Occurrences /\ End(q) = n}
    BY <1>2 DEF Prefix
  <1>4. /\ DOMAIN occurrences' = nodes
        /\ \A n \in nodes :
             more(n) = IF fresh(n) = {} THEN occurrences[n]
                       ELSE Append(occurrences[n], CHOOSE q \in fresh(n) : TRUE)
    BY DEF Inserted
  <1> HIDE DEF fresh
  <1>5. \A n : \A q \in fresh(n) : q \in Seq(edges) /\ IsWay(q, n) /\ End(q) = n
    <2> SUFFICES ASSUME NEW n, NEW k \in 1..Len(p), End(Prefix(p, k)) = n
                 PROVE  Prefix(p, k) \in Seq(edges) /\ IsWay(Prefix(p, k), n)
      BY <1>3
    <2>1. k \in 0..Len(p)
      BY <1>2
    <2>2. IsWay(Prefix(p, k), End(Prefix(p, k)))
      BY <2>1, WayIs DEF IsWay
    <2> QED
      BY <2>2, WayIs
  <1>6. ASSUME NEW n, NEW q \in fresh(n), NEW r \in fresh(n) PROVE q = r
    <2>1. PICK j \in 1..Len(p) : q = Prefix(p, j)
      BY <1>3
    <2>2. PICK k \in 1..Len(p) : r = Prefix(p, k)
      BY <1>3
    <2>3. End(q) = End(r) /\ j \in 0..Len(p) /\ k \in 0..Len(p)
      BY <1>2, <1>3
    <2> QED
      BY <2>1, <2>2, <2>3, WayIs
  <1>7. ASSUME NEW n \in nodes
        PROVE  /\ more(n) \in Seq(Seq(edges))
               /\ Range(more(n)) = Range(occurrences[n]) \cup fresh(n)
    <2> DEFINE o == occurrences[n]
    <2>1. o \in Seq(Seq(edges))
      BY DEF OccurrencesWhole
    <2> HIDE DEF o
    <2>2. CASE fresh(n) = {}
      BY <1>4, <2>1, <2>2 DEF o
    <2>3. CASE fresh(n) # {}
      <3> DEFINE q == CHOOSE q \in fresh(n) : TRUE
      <3>1. q \in fresh(n) /\ fresh(n) = {q}
        BY <1>6, <2>3
      <3>2. q \in Seq(edges)
        BY <1>5, <3>1
      <3>3. more(n) = Append(o, q)
        BY <1>4, <2>3 DEF o
      <3> HIDE DEF q
      <3>4. Append(o, q) \in Seq(Seq(edges)) /\ Range(Append(o, q)) = Range(o) \cup {q}
        <4> DEFINE l == Len(o)
        <4>1. l \in Nat /\ DOMAIN o = 1..l /\ DOMAIN Append(o, q) = 1..(l + 1)
              /\ Append(o, q)[l + 1] = q /\ \A i \in 1..l : Append(o, q)[i] = o[i]
          BY <2>1, <3>2
        <4>2. 1..(l + 1) = (1..l) \cup {l + 1}
          BY <4>1
        <4>3. Append(o, q) \in Seq(Seq(edges))
          BY <2>1, <3>2
        <4> HIDE DEF l
        <4> QED
          BY <4>1, <4>2, <4>3 DEF Range
      <3> HIDE DEF more
      <3> QED
        BY <3>1, <3>3, <3>4 DEF o
    <2> QED
      BY <2>2, <2>3
  <1> HIDE DEF more
  <1>8. Occurrences' = UNION {Range(more(n)) : n \in nodes}
    BY <1>1 DEF Occurrences, Range, more
  <1>9. Occurrences \subseteq Occurrences'
    BY <1>7, <1>8 DEF Occurrences
  <1>10. ASSUME NEW k \in 0..Len(p) PROVE Prefix(p, k) \in Occurrences'
    <2>1. CASE k = 0
      <3>1. Prefix(p, 0) = <<>>
        BY <1>2 DEF Prefix
      <3> QED
        BY <1>9, <2>1, <3>1 DEF OccurrencesWhole
    <2>2. CASE k # 0 /\ Prefix(p, k) \notin Occurrences
      <3> DEFINE n == End(Prefix(p, k))
      <3>1. k \in 1..Len(p)
        BY <1>2, <2>2
      <3>2. Prefix(p, k) \in fresh(n)
        BY <1>3, <2>2, <3>1
      <3>3. n \in nodes
        BY <1>5, <3>2, WayIs
      <3> HIDE DEF n
      <3> QED
        BY <1>7, <1>8, <3>2, <3>3
    <2> QED
      BY <1>9, <2>1, <2>2
  <1>11. p \in Occurrences'
    <2>1. Prefix(p, Len(p)) = p /\ Len(p) \in 0..Len(p)
      BY <1>2 DEF Prefix
    <2> QED
      BY <1>10, <2>1
  <1>12. ASSUME NEW q \in Occurrences' PROVE \A k \in 0..Len(q) : Prefix(q, k) \in Occurrences'
    <2>1. CASE q \in Occurrences
      BY <1>9, <2>1 DEF OccurrencesWhole
    <2>2. CASE q \notin Occurrences
      <3>1. PICK n \in nodes : q \in fresh(n)
        BY <1>7, <1>8, <2>2 DEF Occurrences
      <3>2. PICK j \in 1..Len(p) : q = Prefix(p, j)
        BY <1>3, <3>1
      <3>3. j \in 0..Len(p)
        BY <1>2
      <3>4. Len(q) = j /\ \A k \in 0..j : Prefix(q, k) = Prefix(p, k) /\ k \in 0..Len(p)
        BY <1>2, <3>2, <3>3, PrefixIs
      <3> QED
        BY <1>10, <3>4
    <2> QED
      BY <2>1, <2>2
  <1>13. ASSUME NEW n \in nodes, NEW q \in Range(more(n)) PROVE IsWay(q, n)
    BY <1>5, <1>7, <1>13, OccurrencesOf
  <1>14. OccurrencesWhole'
    <2>1. \A n \in nodes : \A i \in DOMAIN more(n) : IsWay(more(n)[i], n)
      BY <1>13 DEF Range
    <2>2. <<>> \in Occurrences'
      BY <1>9 DEF OccurrencesWhole
    <2> QED
      BY <1>1, <1>4, <1>7, <1>12, <2>1, <2>2 DEF OccurrencesWhole, more
  <1> QED
    BY <1>9, <1>11, <1>14

--------------------------------------------------------------------------------
(* The steps that build the tree. *)

LEMMA ChosenStay ==
  ASSUME PathsChosen, UNCHANGED inputs, HasPaths' => HasPaths
  PROVE  PathsChosen' /\ Boundaries' = Boundaries
  <1>1. /\ UNCHANGED graph /\ selected' = selected /\ limitFree' = limitFree
        /\ target' = target /\ nodes' = nodes /\ edges' = edges /\ owners' = owners /\ cycles' = cycles
    BY DEF inputs, graph
  <1>2. \A p : End(p)' = End(p)
    BY <1>1, GraphStays
  <1>3. \A p, n : IsWay(p, n)' <=> IsWay(p, n)
    BY <1>1, <1>2 DEF IsWay, IsPath
  <1>4. \A n : Out(n)' = Out(n) /\ In(n)' = In(n)
    BY <1>1 DEF Out, In
  <1>5. Boundaries' = Boundaries
    BY <1>1, <1>4 DEF Boundaries
  <1> QED
    BY <1>1, <1>3, <1>4, <1>5 DEF PathsChosen, confirmed

LEMMA FirstOfTodo ==
  ASSUME Graph, todo \subseteq nodes, todo # {}
  PROVE  Min(todo) \in todo /\ Min(todo) \in nodes
  <1>1. todo \in SUBSET Nat
    BY EdgeEnds
  <1> QED
    BY <1>1, MinIsLeast

LEMMA TreeBegins ==
  ASSUME TreeInit
  PROVE  TreeIInv
  <1>1. Graph /\ pc = "prepare" /\ todo = {} /\ reference = <<>>
        /\ occurrences = [n \in nodes |-> IF n = target THEN <<<<>>>> ELSE <<>>]
    BY DEF TreeInit
  <1>2. target \in nodes
    BY <1>1, EdgeEnds
  <1>3. IsWay(<<>>, target)
    BY DEF IsWay, IsPath, End
  <1>4. ASSUME NEW n \in nodes
        PROVE  /\ occurrences[n] \in Seq(Seq(edges))
               /\ Range(occurrences[n]) = IF n = target THEN {<<>>} ELSE {}
               /\ \A i \in DOMAIN occurrences[n] : IsWay(occurrences[n][i], n)
    <2>1. CASE n = target
      <3>1. occurrences[n] = <<<<>>>>
        BY <1>1, <2>1
      <3>2. <<>> \in Seq(edges) /\ DOMAIN <<<<>>>> = {1} /\ <<<<>>>>[1] = <<>>
        OBVIOUS
      <3> QED
        BY <1>3, <2>1, <3>1, <3>2 DEF Range
    <2>2. CASE n # target
      <3>1. occurrences[n] = <<>>
        BY <1>1, <2>2
      <3> QED
        BY <2>2, <3>1 DEF Range
    <2> QED
      BY <2>1, <2>2
  <1>5. Occurrences = {<<>>}
    BY <1>2, <1>4 DEF Occurrences
  <1>6. \A k \in 0..Len(<<>>) : Prefix(<<>>, k) = <<>>
    BY DEF Prefix
  <1>7. OccurrencesWhole
    <2>1. DOMAIN occurrences = nodes
      BY <1>1
    <2>2. \A p \in Occurrences : \A k \in 0..Len(p) : Prefix(p, k) \in Occurrences
      BY <1>5, <1>6
    <2> QED
      BY <1>4, <1>5, <2>1, <2>2 DEF OccurrencesWhole
  <1> QED
    BY <1>1, <1>7 DEF TreeIInv, PathsChosen, PathsInserted, TargetsChosen, ReferencesEnd, SectionsWhole,
                      HasPaths, HasTargets, HasShown

LEMMA PrepareKeeps ==
  ASSUME TreeIInv, Prepare
  PROVE  TreeIInv'
  <1>1. /\ Graph /\ OccurrencesWhole /\ pc = "prepare" /\ reference = <<>>
        /\ selected' = SelectedPaths /\ limitFree' = LimitFreePaths
        /\ referenceTargets' = selected' /\ todo' = nodes /\ pc' = "selected"
        /\ UNCHANGED graph /\ UNCHANGED <<occurrences, reference, shown>>
    BY DEF TreeIInv, TargetsChosen, Prepare
  <1>2. /\ Graph' /\ OccurrencesWhole'
        /\ \A p, n : IsWay(p, n)' <=> IsWay(p, n)
    BY <1>1, TreeStays
  <1>3. nodes' = nodes /\ edges' = edges /\ target' = target
    BY <1>1 DEF graph
  <1>4. \A n \in Boundaries' : n \in nodes' /\ limitFree'[n] # None
    <2>1. (Graph => BoundariesReached)'
      BY BoundaryIs, PTL
    <2> QED
      BY <1>2, <2>1 DEF BoundariesReached
  <1>5. PathsChosen'
    <2>1. DOMAIN selected' = nodes' /\ (\A n \in nodes : IsWay(selected[n], n))'
      BY <1>1, <1>2, <1>3, SelectedAre
    <2>2. (\A n \in Boundaries : n \in nodes /\ IsWay(limitFree[n], n))'
      BY <1>1, <1>2, <1>3, <1>4, LimitFreeAre
    <2>3. \A n \in nodes' \ {target'} : \A e \in edges' :
            In(n)' = {e} /\ confirmed(e)' => selected'[n] = Append(selected'[e.from], e)
      BY <1>1, <1>3, SelectedAre DEF In
    <2> QED
      BY <2>1, <2>2, <2>3 DEF PathsChosen
  <1>6. PathsInserted' /\ TargetsChosen'
    BY <1>1, <1>3 DEF PathsInserted, TargetsChosen, HasPaths, HasTargets
  <1> QED
    BY <1>1, <1>2, <1>5, <1>6 DEF TreeIInv, ReferencesEnd, SectionsWhole, HasTargets, HasShown

LEMMA InsertSelectedKeeps ==
  ASSUME TreeIInv, InsertSelected
  PROVE  TreeIInv'
  <1> DEFINE m == Min(todo)
  <1>1. /\ Graph /\ OccurrencesWhole /\ PathsChosen /\ PathsInserted /\ TargetsChosen
        /\ pc = "selected" /\ todo # {} /\ occurrences' = Inserted(selected[m]) /\ todo' = todo \ {m}
        /\ UNCHANGED <<inputs, pc, referenceTargets, reference, shown>>
    BY DEF TreeIInv, InsertSelected
  <1>2. m \in todo /\ m \in nodes /\ todo \subseteq nodes
    <2>1. todo \subseteq nodes
      BY <1>1 DEF PathsInserted
    <2> QED
      BY <1>1, <2>1, FirstOfTodo
  <1> HIDE DEF m
  <1>3. UNCHANGED graph /\ nodes' = nodes /\ selected' = selected
    BY <1>1 DEF inputs, graph
  <1>4. IsWay(selected[m], m)
    BY <1>1, <1>2 DEF PathsChosen, HasPaths
  <1>5. OccurrencesWhole' /\ Occurrences \subseteq Occurrences' /\ selected[m] \in Occurrences'
    BY <1>1, <1>3, <1>4, InsertKeeps
  <1>6. Graph'
    BY <1>1, <1>3, GraphStays
  <1>7. PathsChosen'
    BY <1>1, ChosenStay DEF HasPaths
  <1>8. PathsInserted'
    BY <1>1, <1>2, <1>3, <1>5 DEF PathsInserted, HasPaths
  <1>9. TargetsChosen'
    BY <1>1, <1>3 DEF TargetsChosen, HasTargets
  <1> QED
    BY <1>1, <1>5, <1>6, <1>7, <1>8, <1>9 DEF TreeIInv, ReferencesEnd, SectionsWhole, HasTargets, HasShown

LEMMA SelectedDoneKeeps ==
  ASSUME TreeIInv, SelectedDone
  PROVE  TreeIInv'
  <1>1. /\ Graph /\ OccurrencesWhole /\ PathsChosen /\ PathsInserted /\ TargetsChosen
        /\ pc = "selected" /\ todo = {} /\ pc' = "uncovered" /\ todo' = Boundaries
        /\ UNCHANGED <<inputs, occurrences, referenceTargets, reference, shown>>
    BY DEF TreeIInv, SelectedDone
  <1>2. UNCHANGED <<graph, occurrences>> /\ nodes' = nodes /\ selected' = selected
    BY <1>1 DEF inputs, graph
  <1>3. Graph' /\ OccurrencesWhole' /\ Occurrences' = Occurrences
    BY <1>1, <1>2, TreeStays
  <1>4. PathsChosen' /\ Boundaries' = Boundaries
    BY <1>1, ChosenStay DEF HasPaths
  <1>5. Boundaries \subseteq nodes
    BY <1>1 DEF PathsChosen, HasPaths
  <1>6. PathsInserted'
    BY <1>1, <1>2, <1>3, <1>4, <1>5 DEF PathsInserted, HasPaths
  <1>7. TargetsChosen'
    BY <1>1, <1>2 DEF TargetsChosen, HasTargets
  <1> QED
    BY <1>1, <1>3, <1>4, <1>6, <1>7 DEF TreeIInv, ReferencesEnd, SectionsWhole, HasTargets, HasShown

LEMMA InsertUncoveredKeeps ==
  ASSUME TreeIInv, InsertUncovered
  PROVE  TreeIInv'
  <1> DEFINE m == Min(todo)
  <1>1. /\ Graph /\ OccurrencesWhole /\ PathsChosen /\ PathsInserted /\ TargetsChosen
        /\ pc = "uncovered" /\ todo # {} /\ occurrences' = Inserted(limitFree[m]) /\ todo' = todo \ {m}
        /\ UNCHANGED <<inputs, pc, referenceTargets, reference, shown>>
    BY DEF TreeIInv, InsertUncovered
  <1>2. m \in todo /\ m \in nodes /\ todo \subseteq nodes
    <2>1. todo \subseteq nodes
      BY <1>1 DEF PathsInserted
    <2> QED
      BY <1>1, <2>1, FirstOfTodo
  <1> HIDE DEF m
  <1>3. UNCHANGED graph /\ nodes' = nodes /\ selected' = selected /\ limitFree' = limitFree
    BY <1>1 DEF inputs, graph
  <1>4. m \in Boundaries /\ IsWay(limitFree[m], m)
    BY <1>1, <1>2 DEF PathsChosen, PathsInserted, HasPaths
  <1>5. OccurrencesWhole' /\ Occurrences \subseteq Occurrences' /\ limitFree[m] \in Occurrences'
    BY <1>1, <1>3, <1>4, InsertKeeps
  <1>6. Graph'
    BY <1>1, <1>3, GraphStays
  <1>7. PathsChosen' /\ Boundaries' = Boundaries
    BY <1>1, ChosenStay DEF HasPaths
  <1>8. PathsInserted'
    BY <1>1, <1>2, <1>3, <1>5, <1>7 DEF PathsInserted, HasPaths
  <1>9. TargetsChosen'
    BY <1>1, <1>3 DEF TargetsChosen, HasTargets
  <1> QED
    BY <1>1, <1>5, <1>6, <1>7, <1>8, <1>9 DEF TreeIInv, ReferencesEnd, SectionsWhole, HasTargets, HasShown

LEMMA MarkReferencesKeeps ==
  ASSUME TreeIInv, MarkReferences
  PROVE  TreeIInv'
  <1>1. /\ Graph /\ OccurrencesWhole /\ PathsChosen /\ PathsInserted
        /\ pc = "uncovered" /\ todo = {} /\ pc' = "edges" /\ reference = <<>> /\ referenceTargets = selected
        /\ referenceTargets' = [n \in nodes |-> ChosenTarget(n)]
        /\ reference' = [p \in {q \in Occurrences : BecomesReference(q)} |-> ReferenceTo(p, "shared")]
        /\ UNCHANGED <<inputs, todo, occurrences, shown>>
    BY DEF TreeIInv, TargetsChosen, MarkReferences
  <1>2. UNCHANGED <<graph, occurrences>> /\ nodes' = nodes /\ selected' = selected
        /\ limitFree' = limitFree
    BY <1>1 DEF inputs, graph
  <1>3. /\ Graph' /\ OccurrencesWhole' /\ Occurrences' = Occurrences
        /\ \A p : End(p)' = End(p)
        /\ \A p : Leaf(p)' <=> Leaf(p)
    BY <1>1, <1>2, TreeStays
  <1>4. PathsChosen' /\ Boundaries' = Boundaries
    BY <1>1, ChosenStay DEF HasPaths
  <1>5. PathsInserted'
    BY <1>1, <1>2, <1>3, <1>4 DEF PathsInserted, HasPaths
  <1>6. \A p \in Occurrences : Children(p) = {} <=> Leaf(p)
    BY <1>1, ChildIs, OccurrenceIs
  <1>7. ASSUME NEW n \in nodes
        PROVE  /\ ChosenTarget(n) \in Range(occurrences[n])
               /\ Leaf(selected[n]) \/ ChosenTarget(n) = selected[n]
    <2> DEFINE inner == {i \in DOMAIN occurrences[n] : Children(occurrences[n][i]) # {}}
    <2>1. ChosenTarget(n) = IF Children(selected[n]) = {} /\ inner # {}
                              THEN occurrences[n][Min(inner)] ELSE selected[n]
      BY <1>1 DEF ChosenTarget
    <2>2. selected[n] \in Occurrences /\ End(selected[n]) = n
      BY <1>1 DEF PathsInserted, PathsChosen, HasPaths, IsWay
    <2>3. selected[n] \in Range(occurrences[n])
      BY <1>1, <2>2, OccurrenceIs
    <2>4. inner # {} => occurrences[n][Min(inner)] \in Range(occurrences[n])
      <3>1. inner \in SUBSET Nat
        <4>1. occurrences[n] \in Seq(Seq(edges))
          BY <1>1 DEF OccurrencesWhole
        <4>2. DOMAIN occurrences[n] \subseteq Nat
          BY <4>1
        <4> QED
          BY <4>2
      <3>2. inner \subseteq DOMAIN occurrences[n]
        OBVIOUS
      <3> HIDE DEF inner
      <3>3. inner # {} => Min(inner) \in DOMAIN occurrences[n]
        BY <3>1, <3>2, MinIsLeast
      <3> QED
        BY <3>3 DEF Range
    <2> HIDE DEF inner
    <2> QED
      BY <1>6, <2>1, <2>2, <2>3, <2>4
  <1>8. TargetsChosen'
    BY <1>1, <1>2, <1>3, <1>7 DEF TargetsChosen, HasTargets, Range
  <1>9. ASSUME NEW q \in DOMAIN reference'
        PROVE  /\ q \in Occurrences /\ q # referenceTargets'[End(q)] /\ Leaf(q)
               /\ reference'[q].to = referenceTargets'[End(q)]
    <2>1. q \in Occurrences /\ BecomesReference(q) /\ reference'[q] = ReferenceTo(q, "shared")
      BY <1>1
    <2> QED
      BY <1>6, <2>1 DEF BecomesReference, ReferenceTo
  <1>10. ReferencesEnd'
    BY <1>1, <1>3, <1>9 DEF ReferencesEnd, HasTargets, HasShown
  <1> QED
    BY <1>1, <1>3, <1>4, <1>5, <1>8, <1>10 DEF TreeIInv, SectionsWhole, HasShown

--------------------------------------------------------------------------------
(* The shown nodes. *)

ShownAreWays == DOMAIN shown \subseteq Seq(edges) /\ <<>> \in DOMAIN shown

ParentsAreNext ==
  \A p \in Seq(edges) \ {<<>>} :
    /\ Parent(p) \in DOMAIN shown /\ IsStrictPrefix(Parent(p), p)
    /\ \A r \in DOMAIN shown : IsStrictPrefix(r, p) =>
         Len(r) <= Len(Parent(p)) /\ (Len(r) = Len(Parent(p)) => r = Parent(p))

(* The node above is the longest shown prefix. *)
LEMMA ParentIs == ShownAreWays => ParentsAreNext
  <1> SUFFICES ASSUME ShownAreWays, NEW p \in Seq(edges) \ {<<>>}
      PROVE  /\ Parent(p) \in DOMAIN shown /\ IsStrictPrefix(Parent(p), p)
             /\ \A r \in DOMAIN shown : IsStrictPrefix(r, p) =>
                  Len(r) <= Len(Parent(p)) /\ (Len(r) = Len(Parent(p)) => r = Parent(p))
    BY DEF ParentsAreNext
  <1>1. DOMAIN shown \subseteq Seq(edges) /\ <<>> \in DOMAIN shown
    BY DEF ShownAreWays
  <1>2. \A r \in Above(p) : r \in DOMAIN shown /\ r \in Seq(edges) /\ IsStrictPrefix(r, p)
    BY <1>1 DEF Above
  <1>3. \A r \in Above(p) : Len(r) \in Nat /\ Len(r) < Len(p) /\ r = Prefix(p, Len(r))
    BY <1>2, StrictPrefixIs
  <1>4. <<>> \in Above(p)
    <2>1. Prefix(p, 0) = <<>> /\ Len(p) > 0 /\ Len(<<>>) = 0 /\ <<>> \in Seq(edges)
      BY DEF Prefix
    <2>2. IsStrictPrefix(<<>>, p)
      BY <2>1, StrictPrefixIs
    <2> QED
      BY <1>1, <2>2 DEF Above
  <1> DEFINE T == {Len(p) - Len(r) : r \in Above(p)}
  <1>5. T \in SUBSET Nat /\ T # {}
    <2>1. Len(p) \in Nat
      OBVIOUS
    <2>2. \A r \in Above(p) : Len(p) - Len(r) \in Nat
      BY <1>3, <2>1
    <2> QED
      BY <1>4, <2>2
  <1>6. PICK d \in T : \A k \in T : d <= k
    <2> HIDE DEF T
    <2> QED
      BY <1>5, LeastExists
  <1>7. PICK x \in Above(p) : d = Len(p) - Len(x)
    OBVIOUS
  <1>8. \A r \in Above(p) : Len(r) <= Len(x)
    <2> SUFFICES ASSUME NEW r \in Above(p) PROVE Len(r) <= Len(x)
      OBVIOUS
    <2>1. Len(p) - Len(x) <= Len(p) - Len(r)
      BY <1>6, <1>7
    <2>2. Len(p) \in Nat /\ Len(x) \in Nat /\ Len(r) \in Nat
      BY <1>3
    <2> QED
      BY <2>1, <2>2
  <1>9. Parent(p) \in Above(p) /\ \A r \in Above(p) : Len(r) <= Len(Parent(p))
    BY <1>8 DEF Parent
  <1> QED
    BY <1>2, <1>3, <1>9 DEF Above

LEMMA TakeShort ==
  ASSUME NEW s, s = <<>>, NEW k \in Nat
  PROVE  Take(s, k) = <<>>
  <1>1. Len(s) = 0 /\ {0, k} \in SUBSET Nat
    OBVIOUS
  <1>2. Min({0, k}) = 0
    BY <1>1, MinIsLeast
  <1> QED
    BY <1>1, <1>2 DEF Take

LEMMA CloseEdgesKeeps ==
  ASSUME TreeIInv, CloseEdges
  PROVE  TreeIInv'
  <1>1. /\ Graph /\ OccurrencesWhole /\ PathsChosen /\ PathsInserted /\ TargetsChosen /\ ReferencesEnd
        /\ pc = "edges" /\ pc' = "compress"
        /\ UNCHANGED <<inputs, todo, occurrences, referenceTargets>>
        /\ reference' =
             [p \in DOMAIN reference \cup Unused |->
                IF p \in DOMAIN reference THEN reference[p]
                ELSE ReferenceTo(p, IF sameCycle(Last(p).from, Last(p).to) THEN "cycle" ELSE "shared")]
        /\ shown' =
             [p \in Tree \cup Unused |->
                [via |-> IF p = <<>> THEN <<>> ELSE <<Last(p)>>,
                 hiddenNodeIDs |-> <<>>, hiddenJobs |-> 0, hiddenNodes |-> 0, truncated |-> FALSE]]
    BY DEF TreeIInv, CloseEdges
  <1>2. UNCHANGED <<graph, occurrences>> /\ nodes' = nodes /\ edges' = edges /\ selected' = selected
        /\ limitFree' = limitFree /\ type' = type
    BY <1>1 DEF inputs, graph
  <1>3. /\ Graph' /\ OccurrencesWhole' /\ Occurrences' = Occurrences
        /\ \A p : End(p)' = End(p)
        /\ \A p : Leaf(p)' <=> Leaf(p)
    BY <1>1, <1>2, TreeStays
  <1>4. PathsChosen' /\ Boundaries' = Boundaries
    BY <1>1, ChosenStay DEF HasPaths
  <1>5. PathsInserted'
    BY <1>1, <1>2, <1>3, <1>4 DEF PathsInserted, HasPaths
  <1>6. TargetsChosen'
    BY <1>1, <1>2, <1>3 DEF TargetsChosen, HasTargets, Range
  <1>7. DOMAIN reference \subseteq Occurrences /\ Tree = Occurrences
    <2>1. DOMAIN reference \subseteq Occurrences
      BY <1>1 DEF ReferencesEnd, HasTargets, HasShown
    <2> QED
      BY <2>1 DEF Tree
  <1>8. \A e \in edges : /\ e.from \in nodes /\ referenceTargets[e.from] \in Occurrences
                         /\ End(referenceTargets[e.from]) = e.from
                         /\ referenceTargets[e.from] \in Seq(edges)
    <2>1. \A e \in edges : e.from \in nodes /\ referenceTargets[e.from] \in Range(occurrences[e.from])
      BY <1>1, EdgeEnds DEF TargetsChosen, HasTargets
    <2> QED
      BY <1>1, <2>1, OccurrencesOf, OccurrenceIs
  <1>9. /\ \A p \in Unused : p \notin Occurrences /\ \E e \in edges : p = Append(referenceTargets[e.from], e)
        /\ \A e \in edges : Append(referenceTargets[e.from], e) \in Occurrences \cup Unused
    BY <1>7 DEF Unused
  <1>10. /\ DOMAIN reference' = DOMAIN reference \cup Unused
         /\ Tree' = Occurrences \cup Unused /\ DOMAIN shown' = Tree'
    <2>1. DOMAIN reference' = DOMAIN reference \cup Unused
      BY <1>1
    <2>2. DOMAIN shown' = Tree \cup Unused
      BY <1>1
    <2> QED
      BY <1>3, <1>7, <2>1, <2>2 DEF Tree
  <1>11. ASSUME NEW q \in DOMAIN reference' PROVE reference'[q].to = referenceTargets'[End(q)]
    <2>1. CASE q \in DOMAIN reference
      <3>1. reference'[q] = reference[q]
        BY <1>1, <2>1
      <3>2. reference[q].to = referenceTargets[End(q)]
        BY <1>1, <2>1 DEF ReferencesEnd, HasTargets
      <3> QED
        BY <1>1, <3>1, <3>2
    <2>2. CASE q \notin DOMAIN reference
      <3>1. \E kind : reference'[q] = ReferenceTo(q, kind)
        BY <1>1, <2>2
      <3> QED
        BY <3>1 DEF ReferenceTo
    <2> QED
      BY <2>1, <2>2
  <1>12. ReferencesEnd'
    <2>1. \A q \in DOMAIN reference' : q \in Occurrences =>
            q # referenceTargets[End(q)] /\ Leaf(q)
      BY <1>1, <1>9, <1>10 DEF ReferencesEnd, HasTargets
    <2>2. \A q \in DOMAIN reference' : q \notin Occurrences =>
            \E e \in edges : q = Append(referenceTargets[e.from], e)
      BY <1>7, <1>9, <1>10
    <2>3. \A e \in edges : Append(referenceTargets[e.from], e) \in Tree'
      BY <1>9, <1>10
    <2> QED
      BY <1>1, <1>2, <1>3, <1>11, <2>1, <2>2, <2>3 DEF ReferencesEnd, HasTargets, HasShown
  <1>13. ASSUME NEW p \in Tree', p # <<>>
         PROVE  p \in Seq(edges) /\ Front(p) \in Tree'
    <2>1. CASE p \in Occurrences
      BY <1>1, <1>10, <1>13, <2>1, OccurrenceIs
    <2>2. CASE p \in Unused
      <3>1. PICK e \in edges : p = Append(referenceTargets[e.from], e)
        BY <1>9, <2>2
      <3>2. p \in Seq(edges) /\ Front(p) = referenceTargets[e.from]
        BY <1>8, <3>1, FrontOfAppend
      <3> QED
        BY <1>8, <1>10, <3>2
    <2> QED
      BY <1>10, <2>1, <2>2
  <1>14. <<>> \in Tree'
    BY <1>1, <1>10 DEF OccurrencesWhole
  <1>15. ParentsAreNext'
    <2>1. ShownAreWays'
      <3>1. <<>> \in Seq(edges)
        OBVIOUS
      <3> QED
        BY <1>2, <1>10, <1>13, <1>14, <3>1 DEF ShownAreWays
    <2>2. (ShownAreWays => ParentsAreNext)'
      BY ParentIs, PTL
    <2> QED
      BY <2>1, <2>2
  <1>16. ASSUME NEW p \in Tree', p # <<>> PROVE Parent(p)' = Front(p)
    <2> DEFINE q == Parent(p)'
               f == Front(p)
    <2>1. p \in Seq(edges) /\ f \in Tree'
      BY <1>13, <1>16
    <2>2. f \in Seq(edges) /\ Len(f) = Len(p) - 1 /\ IsStrictPrefix(f, p) /\ Len(p) \in Nat
      BY <1>16, <2>1, FrontIs
    <2>3. /\ q \in DOMAIN shown' /\ IsStrictPrefix(q, p)
          /\ Len(f) <= Len(q) /\ (Len(f) = Len(q) => f = q)
      BY <1>2, <1>10, <1>15, <1>16, <2>1, <2>2 DEF ParentsAreNext
    <2>4. q \in Seq(edges) /\ Len(q) \in Nat
      <3> HIDE DEF q
      <3>1. q = <<>> => q \in Seq(edges)
        OBVIOUS
      <3>2. q \in Seq(edges)
        BY <1>10, <1>13, <2>3, <3>1
      <3> QED
        BY <3>2
    <2> HIDE DEF q, f
    <2>5. Len(q) < Len(p)
      BY <2>1, <2>3, <2>4, StrictPrefixIs
    <2>6. Len(f) = Len(q)
      BY <2>2, <2>3, <2>4, <2>5
    <2>7. q = f
      BY <2>3, <2>6
    <2> QED
      BY <2>7 DEF q, f
  <1>17. ASSUME NEW p \in DOMAIN shown' \ {<<>>} PROVE Section(p)'
    <2> DEFINE s == shown'[p]
    <2>1. p \in Tree' /\ p # <<>>
      BY <1>10
    <2>2. s = [via |-> <<Last(p)>>, hiddenNodeIDs |-> <<>>, hiddenJobs |-> 0, hiddenNodes |-> 0,
               truncated |-> FALSE]
      BY <1>1, <1>7, <1>10
    <2>3. p \in Seq(edges) /\ Front(p) \in Seq(edges) /\ Last(p) \in edges /\ p = Append(Front(p), Last(p))
      BY <1>13, <2>1, FrontIs
    <2> DEFINE l == Last(p)
    <2>4. s.via = <<l>> /\ <<l>> \in Seq(edges) /\ Len(<<l>>) = 1 /\ <<l>> # <<>>
      BY <2>2, <2>3
    <2>5. Inner(<<l>>) = <<>>
      <3>1. 1..(Len(<<l>>) - 1) = {}
        OBVIOUS
      <3> QED
        BY <3>1 DEF Inner
    <2>6. Take(Inner(<<l>>), MaxHidden) = <<>>
      BY <2>5, TakeShort, MaxHiddenAssumption
    <2>7. p = Parent(p)' \o <<l>>
      <3> DEFINE f == Front(p)
      <3>1. f \in Seq(edges) /\ l \in edges /\ p = Append(f, l) /\ Parent(p)' = f
        BY <1>16, <2>1, <2>3
      <3> HIDE DEF f, l
      <3>2. Append(f, l) = f \o <<l>>
        BY <3>1
      <3> QED
        BY <3>1, <3>2
    <2>8. Cardinality({i \in DOMAIN Inner(<<l>>) : type'[Inner(<<l>>)[i]] = "job"}) = 0
      <3>1. {i \in DOMAIN Inner(<<l>>) : type'[Inner(<<l>>)[i]] = "job"} = {}
        BY <2>5
      <3> QED
        BY <3>1, FS_EmptySet
    <2>9. ~(Len(<<l>>) - 1 > MaxHidden) /\ Len(<<l>>) - 1 = 0
      BY <2>4, MaxHiddenAssumption
    <2> HIDE DEF l
    <2>10. /\ s.hiddenNodeIDs = <<>> /\ s.hiddenJobs = 0 /\ s.hiddenNodes = 0 /\ s.truncated = FALSE
      BY <2>2
    <2> HIDE DEF s
    <2>11. /\ s.via \in Seq(edges') /\ s.via # <<>>
           /\ p = Parent(p)' \o s.via
           /\ s.hiddenNodeIDs = Take(Inner(s.via), MaxHidden)
           /\ s.hiddenNodes = Len(s.via) - 1
           /\ s.truncated <=> Len(s.via) - 1 > MaxHidden
           /\ s.hiddenJobs = Cardinality({i \in DOMAIN Inner(s.via) : type'[Inner(s.via)[i]] = "job"})
      BY <1>2, <2>4, <2>6, <2>7, <2>8, <2>9, <2>10
    <2> QED
      BY <2>11 DEF Section, s, Inner, Take
  <1>18. edges' = UNION {Range(shown'[p].via) : p \in DOMAIN shown'}
    <2>1. \A p \in DOMAIN shown' : shown'[p].via = IF p = <<>> THEN <<>> ELSE <<Last(p)>>
      BY <1>1, <1>7, <1>10
    <2>2. \A x : Range(<<x>>) = {x}
      BY DEF Range
    <2>3. Range(<<>>) = {}
      BY DEF Range
    <2>4. \A p \in DOMAIN shown' : Range(shown'[p].via) = IF p = <<>> THEN {} ELSE {Last(p)}
      BY <2>1, <2>2, <2>3
    <2>5. \A p \in DOMAIN shown' : p # <<>> => Last(p) \in edges
      BY <1>10, <1>13, FrontIs
    <2>6. \A e \in edges : \E p \in DOMAIN shown' : p # <<>> /\ Last(p) = e
      <3> SUFFICES ASSUME NEW e \in edges PROVE \E p \in DOMAIN shown' : p # <<>> /\ Last(p) = e
        OBVIOUS
      <3>1. Append(referenceTargets[e.from], e) \in DOMAIN shown'
        BY <1>9, <1>10
      <3> QED
        BY <1>8, <3>1, FrontOfAppend
    <2> DEFINE D == DOMAIN shown'
               R(p) == Range(shown'[p].via)
    <2>7. /\ \A p \in D : R(p) = IF p = <<>> THEN {} ELSE {Last(p)}
          /\ \A p \in D : p # <<>> => Last(p) \in edges
          /\ \A e \in edges : \E p \in D : p # <<>> /\ Last(p) = e
      BY <2>4, <2>5, <2>6
    <2> HIDE DEF D, R
    <2>8. edges = UNION {R(p) : p \in D}
      <3>1. ASSUME NEW e \in edges PROVE e \in UNION {R(p) : p \in D}
        BY <2>7
      <3>2. ASSUME NEW p \in D, NEW e \in R(p) PROVE e \in edges
        BY <2>7, <3>2
      <3> QED
        BY <3>1, <3>2
    <2> QED
      BY <1>2, <2>8 DEF D, R
  <1>19. SectionsWhole'
    BY <1>10, <1>14, <1>17, <1>18 DEF SectionsWhole
  <1> QED
    BY <1>1, <1>3, <1>4, <1>5, <1>6, <1>12, <1>19 DEF TreeIInv

--------------------------------------------------------------------------------
(* The tree with its references. *)

LEMMA TargetIs ==
  ASSUME Graph, OccurrencesWhole, TargetsChosen, HasTargets, NEW n \in nodes
  PROVE  /\ referenceTargets[n] \in Occurrences /\ referenceTargets[n] \in Seq(edges)
         /\ End(referenceTargets[n]) = n /\ IsWay(referenceTargets[n], n)
         /\ referenceTargets[n] \in Range(occurrences[n])
  <1>1. referenceTargets[n] \in Range(occurrences[n])
    BY DEF TargetsChosen
  <1> QED
    BY <1>1, OccurrencesOf, OccurrenceIs

LEMMA TreeIs ==
  ASSUME Graph, OccurrencesWhole, TargetsChosen, ReferencesEnd, HasTargets, NEW p \in Tree
  PROVE  /\ p \in Seq(edges) /\ Len(p) \in Nat
         /\ p # <<>> => Front(p) \in Occurrences
         /\ \A k \in 1..Len(p) : p[k].from = End(Prefix(p, k - 1))
         /\ \A k \in 0..Len(p) : k < Len(p) => Prefix(p, k) \in Occurrences
         /\ End(p) \in nodes
  <1>1. CASE p \in Occurrences
    <2>1. IsWay(p, End(p)) /\ p \in Seq(edges) /\ End(p) \in nodes /\ (p # <<>> => Front(p) \in Occurrences)
      BY <1>1, OccurrenceIs
    <2>2. \A k \in 0..Len(p) : Prefix(p, k) \in Occurrences
      BY <1>1 DEF OccurrencesWhole
    <2> QED
      BY <2>1, <2>2, WayIs
  <1>2. CASE p \notin Occurrences
    <2>1. PICK e \in edges : p = Append(referenceTargets[e.from], e)
      BY <1>2 DEF ReferencesEnd, Tree
    <2> DEFINE t == referenceTargets[e.from]
    <2>2. e.from \in nodes /\ e.to \in nodes
      BY EdgeEnds
    <2>3. t \in Occurrences /\ t \in Seq(edges) /\ End(t) = e.from /\ IsWay(t, e.from) /\ Len(t) \in Nat
      BY <2>2, TargetIs, WayIs
    <2> HIDE DEF t
    <2>4. p = Append(t, e)
      BY <2>1 DEF t
    <2>5. p \in Seq(edges) /\ p # <<>> /\ Len(p) = Len(t) + 1 /\ Front(p) = t /\ Last(p) = e
      BY <2>3, <2>4, FrontOfAppend
    <2>6. End(p) = e.to
      BY <2>5 DEF End
    <2>7. Front(p) = Prefix(p, Len(p) - 1) /\ Last(p) = p[Len(p)]
      BY <2>5, FrontIs
    <2>8. t = Prefix(p, Len(t)) /\ Len(t) \in 0..Len(p) /\ p[Len(t) + 1] = e
      <3>1. Len(p) - 1 = Len(t) /\ Len(t) + 1 = Len(p) /\ Len(t) \in 0..Len(p)
        BY <2>3, <2>5
      <3> QED
        BY <2>5, <2>7, <3>1
    <2>9. ASSUME NEW k \in 0..Len(t)
          PROVE  Prefix(t, k) = Prefix(p, k) /\ Prefix(p, k) \in Occurrences
      <3>1. Prefix(Prefix(p, Len(t)), k) = Prefix(p, k)
        BY <2>5, <2>8, PrefixIs
      <3>2. Prefix(t, k) \in Occurrences
        BY <2>3 DEF OccurrencesWhole
      <3> QED
        BY <2>8, <3>1, <3>2
    <2>10. ASSUME NEW k \in 1..Len(p) PROVE p[k].from = End(Prefix(p, k - 1))
      <3>1. CASE k = Len(t) + 1
        <4>1. k - 1 = Len(t)
          BY <2>3, <3>1
        <4> QED
          BY <2>3, <2>8, <3>1, <4>1
      <3>2. CASE k # Len(t) + 1
        <4>1. k \in 1..Len(t) /\ k - 1 \in 0..Len(t)
          BY <2>3, <2>5, <3>2
        <4>2. t[k] = p[k]
          <5>1. \A i \in 1..Len(t) : Prefix(p, Len(t))[i] = p[i]
            BY <2>5, <2>8, PrefixIs
          <5> QED
            BY <2>8, <4>1, <5>1
        <4>3. t[k].from = End(Prefix(t, k - 1))
          BY <2>3, <4>1, WayIs
        <4> QED
          BY <2>9, <4>1, <4>2, <4>3
      <3> QED
        BY <3>1, <3>2
    <2>11. \A k \in 0..Len(p) : k < Len(p) => k \in 0..Len(t)
      BY <2>3, <2>5
    <2> QED
      BY <2>2, <2>3, <2>5, <2>6, <2>9, <2>10, <2>11
  <1> QED
    BY <1>1, <1>2

LEMMA TreeFinite ==
  ASSUME Graph, OccurrencesWhole, TargetsChosen, ReferencesEnd, HasTargets
  PROVE  IsFiniteSet(Tree)
  <1>1. IsFiniteSet(Occurrences)
    <2>1. Occurrences \subseteq PathsFrom(target, edges)
      <3>1. \A p \in Occurrences : IsWay(p, End(p)) /\ p \in Seq(edges)
        BY OccurrenceIs
      <3> QED
        BY <3>1 DEF IsWay, PathsFrom
    <2>2. IsFiniteSet(PathsFrom(target, edges))
      BY EdgeEnds, PathsFinite
    <2> QED
      BY <2>1, <2>2, FS_Subset
  <1> DEFINE on == [e \in edges |-> Append(referenceTargets[e.from], e)]
             more == {Append(referenceTargets[e.from], e) : e \in edges}
  <1>2. on \in Surjection(edges, more)
    BY DEF Surjection
  <1>3. IsFiniteSet(edges)
    BY EdgesFinite
  <1>4. IsFiniteSet(more)
    <2> HIDE DEF on, more
    <2> QED
      BY <1>2, <1>3, FS_Surjection
  <1>5. Tree \subseteq Occurrences \cup more
    BY DEF Tree, ReferencesEnd
  <1> HIDE DEF more
  <1>6. IsFiniteSet(Occurrences \cup more)
    BY <1>1, <1>4, FS_Union
  <1> QED
    BY <1>5, <1>6, FS_Subset

(* A reference has nothing below it. *)
LEMMA ReferenceEnds ==
  ASSUME Graph, OccurrencesWhole, TargetsChosen, ReferencesEnd, HasTargets,
         NEW q \in DOMAIN reference, NEW p \in Tree
  PROVE  ~IsStrictPrefix(q, p)
  <1>1. q \in Tree /\ q \in Seq(edges) /\ p \in Seq(edges) /\ Len(q) \in Nat /\ Len(p) \in Nat
    <2>1. q \in Tree
      BY DEF Tree
    <2> QED
      BY <2>1, TreeIs
  <1>2. CASE q \in Occurrences /\ p \in Occurrences
    <2>1. Leaf(q)
      BY <1>2 DEF ReferencesEnd
    <2> QED
      BY <1>1, <1>2, <2>1, LeafEnds
  <1>3. CASE q \notin Occurrences
    <2> SUFFICES ASSUME IsStrictPrefix(q, p) PROVE FALSE
      OBVIOUS
    <2>1. Len(q) < Len(p) /\ q = Prefix(p, Len(q)) /\ Len(q) \in 0..Len(p)
      BY <1>1, StrictPrefixIs
    <2>2. q \in Occurrences
      BY <2>1, TreeIs
    <2> QED
      BY <1>3, <2>2
  <1>4. CASE q \in Occurrences /\ p \notin Occurrences
    <2> SUFFICES ASSUME IsStrictPrefix(q, p) PROVE FALSE
      OBVIOUS
    <2>1. p \in DOMAIN reference
      BY <1>4 DEF Tree
    <2>2. PICK e \in edges : p = Append(referenceTargets[e.from], e)
      BY <1>4, <2>1 DEF ReferencesEnd
    <2> DEFINE t == referenceTargets[e.from]
    <2>3. e.from \in nodes
      BY EdgeEnds
    <2>4. t \in Occurrences /\ t \in Seq(edges) /\ End(t) = e.from /\ Len(t) \in Nat
      BY <2>3, TargetIs
    <2>5. q # referenceTargets[End(q)] /\ Leaf(q)
      BY <1>4 DEF ReferencesEnd
    <2> HIDE DEF t
    <2>6. p = Append(t, e) /\ Len(p) = Len(t) + 1 /\ p # <<>> /\ Front(p) = t
      <3>1. p = Append(t, e)
        BY <2>2 DEF t
      <3> QED
        BY <2>4, <3>1, FrontOfAppend
    <2>7. IsStrictPrefix(t, p)
      BY <1>1, <2>6, FrontIs
    <2>8. CASE Len(q) < Len(t)
      <3>1. IsStrictPrefix(q, t)
        BY <1>1, <2>4, <2>7, <2>8, PrefixesAreOrdered
      <3> QED
        BY <1>1, <2>4, <2>5, <3>1, LeafEnds
    <2>9. CASE ~(Len(q) < Len(t))
      <3>1. Len(q) < Len(p) /\ q = Prefix(p, Len(q)) /\ t = Prefix(p, Len(t))
        BY <1>1, <2>4, <2>7, StrictPrefixIs
      <3>2. Len(q) = Len(t)
        BY <1>1, <2>4, <2>6, <2>9, <3>1
      <3>3. q = t
        BY <3>1, <3>2
      <3> QED
        BY <2>4, <2>5, <3>3 DEF t
    <2> QED
      BY <2>8, <2>9
  <1> QED
    BY <1>2, <1>3, <1>4

--------------------------------------------------------------------------------
(* What a section tells when one more node joins it. *)

LEMMA TakeIs ==
  ASSUME NEW X, NEW s \in Seq(X), NEW k \in Nat
  PROVE  /\ Take(s, k) \in Seq(X) /\ Len(Take(s, k)) \in Nat
         /\ Len(Take(s, k)) = IF Len(s) <= k THEN Len(s) ELSE k
         /\ \A i \in 1..Len(Take(s, k)) : Take(s, k)[i] = s[i]
  <1> DEFINE m == Min({Len(s), k})
  <1>1. Len(s) \in Nat /\ {Len(s), k} \in SUBSET Nat /\ {Len(s), k} # {}
    OBVIOUS
  <1>2. m = IF Len(s) <= k THEN Len(s) ELSE k
    <2>1. m \in {Len(s), k} /\ \A j \in {Len(s), k} : m <= j
      BY <1>1, MinIsLeast
    <2> HIDE DEF m
    <2> QED
      BY <1>1, <2>1
  <1>3. Take(s, k) = SubSeq(s, 1, m)
    BY DEF Take
  <1> HIDE DEF m
  <1>4. m \in 0..Len(s) /\ m \in Nat
    BY <1>1, <1>2
  <1>5. /\ SubSeq(s, 1, m) \in Seq(X) /\ Len(SubSeq(s, 1, m)) = m
        /\ \A i \in 1..m : SubSeq(s, 1, m)[i] = s[i]
    BY <1>1, <1>4
  <1> QED
    BY <1>2, <1>3, <1>4, <1>5

LEMMA OneBefore ==
  ASSUME NEW X, NEW s \in Seq(X), NEW x \in X
  PROVE  /\ <<x>> \o s \in Seq(X) /\ Len(s) \in Nat /\ Len(<<x>> \o s) = Len(s) + 1
         /\ \A i \in 1..(Len(s) + 1) : (<<x>> \o s)[i] = IF i = 1 THEN x ELSE s[i - 1]
  <1> DEFINE h == <<x>>
  <1>1. h \in Seq(X) /\ Len(h) = 1 /\ h[1] = x /\ Len(s) \in Nat
    OBVIOUS
  <1> HIDE DEF h
  <1>2. /\ h \o s \in Seq(X) /\ Len(h \o s) = 1 + Len(s)
        /\ \A i \in 1..(1 + Len(s)) : (h \o s)[i] = IF i <= 1 THEN h[i] ELSE s[i - 1]
    <2>1. h \o s \in Seq(X) /\ Len(h \o s) = Len(h) + Len(s)
          /\ \A i \in 1..(Len(h) + Len(s)) :
               (h \o s)[i] = IF i <= Len(h) THEN h[i] ELSE s[i - Len(h)]
      BY <1>1, ConcatProperties
    <2> QED
      BY ONLY <1>1, <2>1
  <1> DEFINE c == h \o s
  <1>3. /\ c \in Seq(X) /\ Len(c) = 1 + Len(s)
        /\ \A i \in 1..(1 + Len(s)) : c[i] = IF i <= 1 THEN h[i] ELSE s[i - 1]
    BY <1>2
  <1> HIDE DEF c
  <1>4. c \in Seq(X) /\ Len(c) = Len(s) + 1
        /\ \A i \in 1..(Len(s) + 1) : c[i] = IF i = 1 THEN x ELSE s[i - 1]
    BY <1>1, <1>3
  <1> QED
    BY <1>1, <1>4 DEF c, h

LEMMA AppendJoins ==
  ASSUME NEW X, NEW s \in Seq(X), NEW x \in X
  PROVE  Append(s, x) = s \o <<x>> /\ <<x>> \in Seq(X)
  OBVIOUS

(* What was cut off stays cut off. *)
LEMMA TakeAgain ==
  ASSUME NEW X, NEW s \in Seq(X), NEW x \in X, NEW k \in Nat
  PROVE  Take(<<x>> \o Take(s, k), k) = Take(<<x>> \o s, k)
  <1> DEFINE t == Take(s, k)
             a == <<x>> \o t
             b == <<x>> \o s
             A == Take(a, k)
             B == Take(b, k)
  <1>1. /\ t \in Seq(X) /\ Len(t) \in Nat /\ Len(t) = IF Len(s) <= k THEN Len(s) ELSE k
        /\ \A i \in 1..Len(t) : t[i] = s[i]
    BY TakeIs
  <1> HIDE DEF t
  <1>2. /\ a \in Seq(X) /\ Len(a) = Len(t) + 1
        /\ \A i \in 1..(Len(t) + 1) : a[i] = IF i = 1 THEN x ELSE t[i - 1]
    BY <1>1, OneBefore
  <1>3. /\ b \in Seq(X) /\ Len(b) = Len(s) + 1 /\ Len(s) \in Nat
        /\ \A i \in 1..(Len(s) + 1) : b[i] = IF i = 1 THEN x ELSE s[i - 1]
    BY OneBefore
  <1> HIDE DEF a, b
  <1>4. /\ A \in Seq(X) /\ Len(A) = IF Len(a) <= k THEN Len(a) ELSE k
        /\ \A i \in 1..Len(A) : A[i] = a[i]
    BY <1>2, TakeIs
  <1>5. /\ B \in Seq(X) /\ Len(B) = IF Len(b) <= k THEN Len(b) ELSE k
        /\ \A i \in 1..Len(B) : B[i] = b[i]
    BY <1>3, TakeIs
  <1> HIDE DEF A, B
  <1>6. Len(A) = Len(B)
    BY <1>1, <1>2, <1>3, <1>4, <1>5
  <1>7. ASSUME NEW i \in 1..Len(A) PROVE A[i] = B[i]
    <2>1. i \in 1..(Len(t) + 1) /\ i \in 1..(Len(s) + 1)
      BY <1>1, <1>2, <1>3, <1>4, <1>5, <1>6
    <2>2. A[i] = (IF i = 1 THEN x ELSE t[i - 1]) /\ B[i] = IF i = 1 THEN x ELSE s[i - 1]
      BY <1>2, <1>3, <1>4, <1>5, <1>6, <2>1
    <2>3. i # 1 => i - 1 \in 1..Len(t)
      BY <1>1, <2>1
    <2> QED
      BY <1>1, <2>2, <2>3
  <1>8. A = B
    BY <1>4, <1>5, <1>6, <1>7, SeqEqual
  <1> QED
    BY <1>8 DEF A, B, a, b, t

LEMMA InnerIs ==
  ASSUME NEW E, NEW N, \A e \in E : e.to \in N, NEW v \in Seq(E), v # <<>>
  PROVE  /\ Inner(v) \in Seq(N) /\ Len(Inner(v)) = Len(v) - 1 /\ Len(v) - 1 \in Nat
         /\ DOMAIN Inner(v) = 1..(Len(v) - 1)
         /\ \A i \in 1..(Len(v) - 1) : Inner(v)[i] = v[i].to
         /\ \A l \in E : Inner(<<l>> \o v) = <<l.to>> \o Inner(v)
  <1>1. Len(v) \in Nat /\ Len(v) - 1 \in Nat /\ \A i \in 1..(Len(v) - 1) : v[i] \in E
    OBVIOUS
  <1>2. /\ Inner(v) \in Seq(N) /\ Len(Inner(v)) = Len(v) - 1
        /\ DOMAIN Inner(v) = 1..(Len(v) - 1)
        /\ \A i \in 1..(Len(v) - 1) : Inner(v)[i] = v[i].to
    <2>1. \A i \in 1..(Len(v) - 1) : v[i].to \in N
      BY <1>1
    <2> QED
      BY <1>1, <2>1 DEF Inner
  <1>3. ASSUME NEW l \in E PROVE Inner(<<l>> \o v) = <<l.to>> \o Inner(v)
    <2> DEFINE w == <<l>> \o v
               a == Inner(w)
               s == Inner(v)
               b == <<l.to>> \o s
    <2>1. /\ w \in Seq(E) /\ Len(w) = Len(v) + 1
          /\ \A i \in 1..(Len(v) + 1) : w[i] = IF i = 1 THEN l ELSE v[i - 1]
      BY OneBefore
    <2>2. s \in Seq(N) /\ Len(s) = Len(v) - 1 /\ \A i \in 1..(Len(v) - 1) : s[i] = v[i].to
      BY <1>2
    <2> HIDE DEF w, s
    <2>3. /\ b \in Seq(N) /\ Len(b) = Len(s) + 1
          /\ \A i \in 1..(Len(s) + 1) : b[i] = IF i = 1 THEN l.to ELSE s[i - 1]
      BY <2>2, OneBefore
    <2>4. Len(w) - 1 = Len(v) /\ \A i \in 1..Len(v) : w[i] \in E /\ w[i].to \in N
      BY <1>1, <2>1
    <2>5. a = [i \in 1..Len(v) |-> w[i].to]
      BY <2>4 DEF Inner
    <2> HIDE DEF b
    <2>6. a \in Seq(N) /\ Len(a) = Len(v) /\ \A i \in 1..Len(v) : a[i] = w[i].to
      BY <1>1, <2>4, <2>5
    <2> HIDE DEF a
    <2>7. Len(a) = Len(b)
      BY <1>1, <2>2, <2>3, <2>6
    <2>8. ASSUME NEW i \in 1..Len(a) PROVE a[i] = b[i]
      <3>1. i \in 1..(Len(v) + 1) /\ i \in 1..(Len(s) + 1)
        BY <1>1, <2>2, <2>6
      <3>2. i # 1 => i - 1 \in 1..(Len(v) - 1)
        BY <1>1, <2>6
      <3>3. CASE i = 1
        BY <2>1, <2>3, <2>6, <3>1, <3>3
      <3>4. CASE i # 1
        <4>1. a[i] = v[i - 1].to
          BY <2>1, <2>6, <3>1, <3>4
        <4>2. b[i] = s[i - 1]
          BY <2>3, <3>1, <3>4
        <4> QED
          BY <2>2, <3>2, <3>4, <4>1, <4>2
      <3> QED
        BY <3>3, <3>4
    <2>9. a = b
      BY <2>3, <2>6, <2>7, <2>8, SeqEqual
    <2> QED
      BY <2>9 DEF a, b, s, w
  <1> QED
    BY <1>1, <1>2, <1>3

(* The jobs are counted with the node in front. *)
JobPlaces(s, T) == {i \in DOMAIN s : T[s[i]] = "job"}

LEMMA JobsShift ==
  ASSUME NEW X, NEW s \in Seq(X), NEW x \in X, NEW T
  PROVE  /\ Cardinality(JobPlaces(s, T)) \in Nat
         /\ Cardinality(JobPlaces(<<x>> \o s, T))
              = Cardinality(JobPlaces(s, T)) + IF T[x] = "job" THEN 1 ELSE 0
  <1> DEFINE w == <<x>> \o s
             P == {i \in DOMAIN s : T[s[i]] = "job"}
             Q == {i \in DOMAIN w : T[w[i]] = "job"}
             R == {j \in 2..(Len(s) + 1) : T[s[j - 1]] = "job"}
             f == [i \in P |-> i + 1]
  <1>1. /\ Len(s) \in Nat /\ DOMAIN s = 1..Len(s) /\ w \in Seq(X) /\ DOMAIN w = 1..(Len(s) + 1)
        /\ \A i \in 1..(Len(s) + 1) : w[i] = IF i = 1 THEN x ELSE s[i - 1]
    <2>1. /\ w \in Seq(X) /\ Len(s) \in Nat /\ Len(w) = Len(s) + 1
          /\ \A i \in 1..(Len(s) + 1) : w[i] = IF i = 1 THEN x ELSE s[i - 1]
      BY OneBefore
    <2> HIDE DEF w
    <2> QED
      BY <2>1
  <1> HIDE DEF w
  <1>2. IsFiniteSet(P) /\ Cardinality(P) \in Nat
    <2>1. P \subseteq 1..Len(s)
      BY <1>1
    <2>2. IsFiniteSet(1..Len(s))
      BY <1>1, FS_Interval
    <2> HIDE DEF P
    <2> QED
      BY <2>1, <2>2, FS_Subset, FS_CardinalityType
  <1>3. f \in Bijection(P, R)
    <2>1. \A i \in P : i \in 1..Len(s) /\ i + 1 \in 2..(Len(s) + 1) /\ (i + 1) - 1 = i
      BY <1>1
    <2>2. \A i \in P : i + 1 \in R
      BY <2>1
    <2>3. \A j \in R : j - 1 \in P /\ (j - 1) + 1 = j
      BY <1>1
    <2>4. \A i, j \in P : i + 1 = j + 1 => i = j
      BY <2>1
    <2> HIDE DEF P, R
    <2>5. f \in [P -> R]
      BY <2>2
    <2> QED
      BY <2>3, <2>4, <2>5 DEF Bijection, Injection, Surjection, IsInjective
  <1>4. IsFiniteSet(R) /\ Cardinality(R) = Cardinality(P)
    <2>1. ExistsBijection(P, R)
      BY <1>3 DEF ExistsBijection
    <2> HIDE DEF P, R
    <2> QED
      BY <1>2, <2>1, FS_Bijection
  <1>5. Q = IF T[x] = "job" THEN R \cup {1} ELSE R
    <2>1. \A i \in 1..(Len(s) + 1) : i # 1 <=> i \in 2..(Len(s) + 1)
      BY <1>1
    <2>2. \A i : i \in Q <=> i \in 1..(Len(s) + 1) /\ T[IF i = 1 THEN x ELSE s[i - 1]] = "job"
      BY <1>1
    <2>4. \A j : j \in R <=> j \in 2..(Len(s) + 1) /\ T[s[j - 1]] = "job"
      OBVIOUS
    <2>3. 1 \in 1..(Len(s) + 1) /\ 2..(Len(s) + 1) \subseteq 1..(Len(s) + 1)
      BY <1>1
    <2> HIDE DEF Q, R
    <2>5. \A i \in Q : (i = 1 /\ T[x] = "job") \/ i \in R
      BY <2>1, <2>2, <2>4
    <2>6. \A i \in R : i \in Q
      BY <2>1, <2>2, <2>3, <2>4
    <2>7. 1 \in Q <=> T[x] = "job"
      BY <2>2, <2>3
    <2>8. 1 \notin R
      BY <2>1, <2>3, <2>4
    <2> QED
      BY <2>5, <2>6, <2>7, <2>8
  <1>6. 1 \notin R
    BY <1>1
  <1>7. Cardinality(Q) = Cardinality(P) + IF T[x] = "job" THEN 1 ELSE 0
    <2> HIDE DEF P, Q, R, f
    <2>1. Cardinality(R \cup {1}) = Cardinality(R) + 1
      BY <1>4, <1>6, FS_AddElement
    <2> QED
      BY <1>2, <1>4, <1>5, <2>1
  <1> QED
    BY <1>2, <1>7 DEF w, JobPlaces

--------------------------------------------------------------------------------
(* Compression. *)

LEMMA ShownIs ==
  ASSUME Graph, OccurrencesWhole, TargetsChosen, ReferencesEnd, SectionsWhole, HasShown
  PROVE  /\ HasTargets /\ ShownAreWays /\ ParentsAreNext
         /\ DOMAIN shown \subseteq Tree /\ DOMAIN shown \subseteq Seq(edges)
         /\ IsFiniteSet(DOMAIN shown)
  <1>1. HasTargets /\ DOMAIN shown \subseteq Tree /\ <<>> \in DOMAIN shown
    BY DEF HasTargets, HasShown, SectionsWhole
  <1>2. DOMAIN shown \subseteq Seq(edges) /\ ShownAreWays
    BY <1>1, TreeIs DEF ShownAreWays
  <1>3. IsFiniteSet(DOMAIN shown)
    BY <1>1, TreeFinite, FS_Subset
  <1> QED
    BY <1>1, <1>2, <1>3, ParentIs

LEMMA CanHideStays ==
  ASSUME UNCHANGED <<graph, occurrences>>, DOMAIN reference' = DOMAIN reference, NEW p
  PROVE  canHide(p)' <=> canHide(p)
  <1>1. /\ target' = target /\ nodes' = nodes /\ edges' = edges /\ type' = type
        /\ owners' = owners /\ cycles' = cycles
    BY DEF graph
  <1>2. End(p)' = End(p) /\ \A n : In(n)' = In(n) /\ Out(n)' = Out(n)
    BY <1>1 DEF End, In, Out
  <1>3. \A n : (InCycle(n)' <=> InCycle(n)) /\ (MeetsOnce(n)' <=> MeetsOnce(n))
    BY <1>1, <1>2 DEF InCycle, MeetsOnce
  <1> QED
    BY <1>1, <1>2, <1>3 DEF canHide

(* A node is compressed while the node above it is still shown: it has no section
   of its own. *)
LEMMA LoneSection ==
  ASSUME Graph, OccurrencesWhole, TargetsChosen, ReferencesEnd, SectionsWhole, HasShown,
         NEW p \in Hideable
  PROVE  /\ p \in DOMAIN shown /\ p # <<>> /\ p \in Seq(edges) /\ Last(p) \in edges
         /\ Parent(p) = Front(p) /\ Front(p) \in DOMAIN shown
         /\ shown[p].via = <<Last(p)>> /\ End(p) = Last(p).to
         /\ shown[p].hiddenNodeIDs = <<>> /\ shown[p].hiddenJobs = 0
         /\ shown[p].hiddenNodes = 0 /\ ~shown[p].truncated
         /\ \E q : ShownChildren(p) = {q}
  <1>1. p \in DOMAIN shown /\ canHide(p) /\ p # <<>> /\ Cardinality(ShownChildren(p)) = 1
    BY DEF Hideable, canHide
  <1>2. p \in Tree /\ p \in Seq(edges)
    BY <1>1, ShownIs
  <1>3. /\ Front(p) \in Seq(edges) /\ Len(Front(p)) = Len(p) - 1 /\ Len(p) \in Nat \ {0}
        /\ p = Append(Front(p), Last(p)) /\ Last(p) \in edges /\ IsStrictPrefix(Front(p), p)
        /\ Last(p) = p[Len(p)]
    BY <1>1, <1>2, FrontIs
  <1>4. Front(p) \in DOMAIN shown
    <2>1. Front(p) \in Tree
      BY <1>1, <1>2, ShownIs, TreeIs DEF Tree
    <2>2. Front(p) \notin DOMAIN shown => Len(p) <= Len(Front(p))
      BY <2>1 DEF SectionsWhole
    <2> QED
      BY <1>3, <2>2
  <1>5. Parent(p) = Front(p)
    <2> DEFINE q == Parent(p)
               f == Front(p)
    <2>1. /\ q \in DOMAIN shown /\ IsStrictPrefix(q, p)
          /\ Len(f) <= Len(q) /\ (Len(f) = Len(q) => f = q)
      BY <1>1, <1>2, <1>3, <1>4, ShownIs DEF ParentsAreNext
    <2>2. q \in Seq(edges) /\ Len(q) \in Nat
      <3>1. q \in Seq(edges)
        BY <2>1, ShownIs
      <3> QED
        BY <3>1
    <2> HIDE DEF q
    <2>3. Len(q) < Len(p) /\ Len(f) = Len(p) - 1
      BY <1>2, <1>3, <2>1, <2>2, StrictPrefixIs
    <2> HIDE DEF f
    <2>4. Len(f) = Len(q)
      BY <1>3, <2>1, <2>2, <2>3
    <2> QED
      BY <2>1, <2>4 DEF q, f
  <1>6. Section(p)
    BY <1>1 DEF SectionsWhole
  <1>7. shown[p].via = <<Last(p)>>
    <2> DEFINE f == Front(p)
               l == Last(p)
               v == shown[p].via
    <2>1. v \in Seq(edges) /\ p = f \o v
      BY <1>5, <1>6 DEF Section
    <2>2. f \in Seq(edges) /\ l \in edges /\ p = Append(f, l)
      BY <1>3
    <2> HIDE DEF f, l, v
    <2>3. Append(f, l) = f \o <<l>> /\ <<l>> \in Seq(edges)
      BY <2>2
    <2>4. f \o v = f \o <<l>>
      BY <2>1, <2>2, <2>3
    <2>5. v = <<l>>
      BY <2>1, <2>2, <2>3, <2>4, ConcatSimplifications
    <2> QED
      BY <2>5 DEF l, v
  <1>8. /\ shown[p].hiddenNodeIDs = <<>> /\ shown[p].hiddenJobs = 0
        /\ shown[p].hiddenNodes = 0 /\ ~shown[p].truncated
    <2> DEFINE l == Last(p)
               s == shown[p]
    <2>1. Inner(<<l>>) = <<>>
      <3>1. 1..(Len(<<l>>) - 1) = {}
        OBVIOUS
      <3> QED
        BY <3>1 DEF Inner
    <2>2. Take(Inner(<<l>>), MaxHidden) = <<>>
      BY <2>1, TakeShort, MaxHiddenAssumption
    <2>3. Cardinality({i \in DOMAIN Inner(<<l>>) : type[Inner(<<l>>)[i]] = "job"}) = 0
      <3>1. {i \in DOMAIN Inner(<<l>>) : type[Inner(<<l>>)[i]] = "job"} = {}
        BY <2>1
      <3> QED
        BY <3>1, FS_EmptySet
    <2>4. Len(<<l>>) - 1 = 0 /\ ~(Len(<<l>>) - 1 > MaxHidden)
      BY MaxHiddenAssumption
    <2>5. /\ s.hiddenNodeIDs = Take(Inner(<<l>>), MaxHidden)
          /\ s.hiddenNodes = Len(<<l>>) - 1
          /\ s.truncated <=> Len(<<l>>) - 1 > MaxHidden
          /\ s.hiddenJobs = Cardinality({i \in DOMAIN Inner(<<l>>) : type[Inner(<<l>>)[i]] = "job"})
      BY <1>6, <1>7 DEF Section
    <2> QED
      BY <2>2, <2>3, <2>4, <2>5
  <1>9. \E q : ShownChildren(p) = {q}
    <2>1. ShownChildren(p) \subseteq DOMAIN shown
      BY DEF ShownChildren
    <2>2. IsFiniteSet(ShownChildren(p))
      BY <2>1, ShownIs, FS_Subset
    <2> QED
      BY <1>1, <2>2, FS_Singleton
  <1>10. End(p) = Last(p).to
    BY <1>1 DEF End
  <1> QED
    BY <1>1, <1>2, <1>3, <1>4, <1>5, <1>7, <1>8, <1>9, <1>10

(* The node below the compressed one moves up, and no other. *)
LEMMA ParentsAfter ==
  ASSUME UNCHANGED <<edges>>, ShownAreWays, NEW p, NEW q, p # <<>>, p \in DOMAIN shown,
         ShownChildren(p) = {q}, DOMAIN shown' = DOMAIN shown \ {p}
  PROVE  /\ ShownAreWays' /\ q \in DOMAIN shown' /\ q # p /\ q # <<>>
         /\ Parent(q) = p /\ Parent(p) # p /\ IsStrictPrefix(p, q)
         /\ \A r \in DOMAIN shown' \ {<<>>} : Parent(r)' = IF r = q THEN Parent(p) ELSE Parent(r)
  <1>1. DOMAIN shown \subseteq Seq(edges) /\ <<>> \in DOMAIN shown /\ ParentsAreNext
    BY ParentIs DEF ShownAreWays
  <1>2. q \in DOMAIN shown /\ q # <<>> /\ Parent(q) = p
    BY DEF ShownChildren
  <1>3. p \in Seq(edges) /\ q \in Seq(edges)
    BY <1>1, <1>2
  <1>4. IsStrictPrefix(p, q)
    BY <1>1, <1>2, <1>3 DEF ParentsAreNext
  <1>5. q # p
    <2>1. Len(p) < Len(q) /\ Len(p) \in Nat
      BY <1>3, <1>4, StrictPrefixIs
    <2> QED
      BY <2>1
  <1>6. Parent(p) \in DOMAIN shown /\ IsStrictPrefix(Parent(p), p)
        /\ Parent(p) \in Seq(edges) /\ Parent(p) # p
    <2>1. Parent(p) \in DOMAIN shown /\ IsStrictPrefix(Parent(p), p)
      BY <1>1, <1>3 DEF ParentsAreNext
    <2>2. Parent(p) \in Seq(edges)
      BY <1>1, <2>1
    <2>3. Len(Parent(p)) < Len(p) /\ Len(p) \in Nat
      BY <1>3, <2>1, <2>2, StrictPrefixIs
    <2>4. Parent(p) # p
      BY <2>3
    <2> QED
      BY <2>1, <2>2, <2>4
  <1>7. ShownAreWays'
    BY <1>1 DEF ShownAreWays
  <1>8. ParentsAreNext'
    <2>1. (ShownAreWays => ParentsAreNext)'
      BY ParentIs, PTL
    <2> QED
      BY <1>7, <2>1
  <1>9. ASSUME NEW r \in DOMAIN shown' \ {<<>>}
        PROVE  /\ Parent(r)' \in DOMAIN shown' /\ IsStrictPrefix(Parent(r)', r)
               /\ \A x \in DOMAIN shown' : IsStrictPrefix(x, r) =>
                    Len(x) <= Len(Parent(r)') /\ (Len(x) = Len(Parent(r)') => x = Parent(r)')
    <2>1. r \in Seq(edges') \ {<<>>}
      BY <1>1
    <2> QED
      BY <1>8, <2>1 DEF ParentsAreNext
  <1>10. ASSUME NEW r \in DOMAIN shown' \ {<<>>}, r # q PROVE Parent(r)' = Parent(r)
    <2>1. r \in DOMAIN shown /\ r # <<>> /\ r \in Seq(edges)
      BY <1>1
    <2>2. Parent(r) # p
      BY <1>10, <2>1 DEF ShownChildren
    <2>3. /\ Parent(r) \in DOMAIN shown' /\ IsStrictPrefix(Parent(r), r)
          /\ \A x \in DOMAIN shown : IsStrictPrefix(x, r) =>
               Len(x) <= Len(Parent(r)) /\ (Len(x) = Len(Parent(r)) => x = Parent(r))
      BY <1>1, <2>1, <2>2 DEF ParentsAreNext
    <2> DEFINE x == Parent(r)
               y == Parent(r)'
    <2>4. /\ y \in DOMAIN shown /\ x \in Seq(edges) /\ y \in Seq(edges)
          /\ Len(y) <= Len(x) /\ (Len(y) = Len(x) => y = x)
          /\ Len(x) <= Len(y)
      BY <1>1, <1>9, <2>3
    <2> HIDE DEF x, y
    <2>5. Len(x) \in Nat /\ Len(y) \in Nat
      BY <2>4
    <2>6. y = x
      BY <2>4, <2>5
    <2> QED
      BY <2>6 DEF x, y
  <1>11. Parent(q)' = Parent(p)
    <2> DEFINE x == Parent(p)
               y == Parent(q)'
    <2>1. q \in DOMAIN shown' \ {<<>>}
      BY <1>2, <1>5
    <2>2. x \in DOMAIN shown' /\ x \in Seq(edges) /\ IsStrictPrefix(x, q)
      BY <1>3, <1>4, <1>6, StrictPrefixTransitive
    <2>3. /\ y \in DOMAIN shown' /\ IsStrictPrefix(y, q)
          /\ Len(x) <= Len(y) /\ (Len(x) = Len(y) => x = y)
      BY <1>9, <2>1, <2>2
    <2>4. y \in DOMAIN shown /\ y # p /\ y \in Seq(edges)
      BY <1>1, <2>3
    <2>5. Len(y) <= Len(p) /\ (Len(y) = Len(p) => y = p)
      BY <1>1, <1>2, <1>3, <2>3, <2>4 DEF ParentsAreNext
    <2> HIDE DEF y
    <2>6. Len(y) \in Nat /\ Len(p) \in Nat /\ Len(x) \in Nat
      BY <1>3, <2>2, <2>4
    <2>7. IsStrictPrefix(y, p)
      <3>1. Len(y) < Len(p)
        BY <2>4, <2>5, <2>6
      <3> QED
        BY <1>3, <1>4, <2>3, <2>4, <3>1, PrefixesAreOrdered
    <2>8. Len(y) <= Len(x)
      BY <1>1, <1>3, <2>4, <2>7 DEF ParentsAreNext
    <2> HIDE DEF x
    <2>9. x = y
      BY <2>3, <2>6, <2>8
    <2> QED
      BY <2>9 DEF x, y
  <1> QED
    BY <1>2, <1>4, <1>5, <1>6, <1>7, <1>10, <1>11

(* What q tells of its section once p has joined it. *)
Joined(s, p, q) ==
  /\ s.via \in Seq(edges) /\ s.via # <<>>
  /\ q = Parent(p) \o s.via
  /\ s.hiddenNodeIDs = Take(Inner(s.via), MaxHidden)
  /\ s.hiddenNodes = Len(s.via) - 1
  /\ s.truncated <=> Len(s.via) - 1 > MaxHidden
  /\ s.hiddenJobs = Cardinality(JobPlaces(Inner(s.via), type))
  /\ Range(s.via) = {Last(p)} \cup Range(shown[q].via)

LEMMA MergedTells ==
  ASSUME Graph, NEW p, NEW q, p # <<>>, p \in Seq(edges), q \in Seq(edges), Last(p) \in edges,
         Parent(p) = Front(p), Parent(q) = p, End(p) = Last(p).to,
         shown[p].via = <<Last(p)>>,
         shown[p].hiddenNodeIDs = <<>>, shown[p].hiddenJobs = 0,
         shown[p].hiddenNodes = 0, ~shown[p].truncated,
         Section(q)
  PROVE  Joined(Merged(p, q), p, q)
  <1> DEFINE l == Last(p)
             v == shown[q].via
             w == <<l>> \o v
             s == Merged(p, q)
             I == Inner(v)
  <1>1. /\ v \in Seq(edges) /\ v # <<>> /\ q = p \o v
        /\ shown[q].hiddenNodeIDs = Take(I, MaxHidden)
        /\ shown[q].hiddenNodes = Len(v) - 1
        /\ shown[q].truncated <=> Len(v) - 1 > MaxHidden
        /\ shown[q].hiddenJobs = Cardinality(JobPlaces(I, type))
    BY DEF Section, JobPlaces
  <1>2. l \in edges /\ l.to \in nodes /\ \A e \in edges : e.to \in nodes
    BY EdgeEnds
  <1>3. Front(p) \in Seq(edges) /\ p = Append(Front(p), l)
    BY FrontIs
  <1> HIDE DEF l, v
  <1>4. /\ w \in Seq(edges) /\ Len(v) \in Nat /\ Len(w) = Len(v) + 1
        /\ \A i \in 1..(Len(v) + 1) : w[i] = IF i = 1 THEN l ELSE v[i - 1]
    BY <1>1, <1>2, OneBefore
  <1>5. /\ I \in Seq(nodes) /\ Len(I) = Len(v) - 1 /\ Len(v) - 1 \in Nat
        /\ Inner(w) = <<l.to>> \o I
    BY <1>1, <1>2, InnerIs
  <1>6. s.via = w
    BY DEF Merged, l, v
  <1>7. s.hiddenNodeIDs = Take((<<l.to>> \o <<>>) \o Take(I, MaxHidden), MaxHidden)
    <2>1. s.hiddenNodeIDs
            = Take(<<End(p)>> \o shown[p].hiddenNodeIDs \o shown[q].hiddenNodeIDs, MaxHidden)
      BY DEF Merged
    <2> QED
      BY <1>1, <2>1 DEF l
  <1>8. s.hiddenNodeIDs = Take(Inner(w), MaxHidden)
    <2> DEFINE t == Take(I, MaxHidden)
    <2>1. <<l.to>> \in Seq(nodes) /\ t \in Seq(nodes)
      BY <1>2, <1>5, TakeIs, MaxHiddenAssumption
    <2>2. <<l.to>> \o <<>> = <<l.to>>
      BY <2>1, ConcatEmptySeq
    <2>3. Take(<<l.to>> \o t, MaxHidden) = Take(<<l.to>> \o I, MaxHidden)
      BY <1>2, <1>5, TakeAgain, MaxHiddenAssumption
    <2> HIDE DEF I, s
    <2> QED
      BY <1>5, <1>7, <2>2, <2>3
  <1>9. s.hiddenNodes = Len(w) - 1 /\ (s.truncated <=> Len(w) - 1 > MaxHidden)
    <2>1. /\ s.hiddenNodes = shown[q].hiddenNodes + shown[p].hiddenNodes + 1
          /\ s.truncated <=> shown[p].truncated \/ shown[q].truncated
               \/ shown[q].hiddenNodes + shown[p].hiddenNodes + 1 > MaxHidden
      BY DEF Merged
    <2>2. s.hiddenNodes = (Len(v) - 1) + 0 + 1
          /\ (s.truncated <=> Len(v) - 1 > MaxHidden \/ (Len(v) - 1) + 0 + 1 > MaxHidden)
      BY <1>1, <2>1
    <2> HIDE DEF s, w
    <2> QED
      BY <1>4, <2>2, MaxHiddenAssumption
  <1>10. s.hiddenJobs = Cardinality(JobPlaces(Inner(w), type))
    <2> DEFINE P == Cardinality(JobPlaces(I, type))
               J == <<l.to>> \o I
               Q == Cardinality(JobPlaces(J, type))
    <2>1. s.hiddenJobs = shown[q].hiddenJobs + shown[p].hiddenJobs + (IF type[End(p)] = "job" THEN 1 ELSE 0)
      BY DEF Merged
    <2>2. s.hiddenJobs = P + 0 + (IF type[l.to] = "job" THEN 1 ELSE 0)
      BY <1>1, <2>1 DEF l
    <2>3. P \in Nat /\ Q = P + IF type[l.to] = "job" THEN 1 ELSE 0
      <3>1. I \in Seq(nodes) /\ l.to \in nodes
        BY <1>2, <1>5
      <3> HIDE DEF I
      <3> QED
        BY <3>1, JobsShift
    <2>4. Q = Cardinality(JobPlaces(Inner(w), type))
      BY <1>5
    <2> HIDE DEF P, Q, s
    <2> QED
      BY <2>2, <2>3, <2>4
  <1>11. q = Parent(p) \o w
    <2> DEFINE f == Front(p)
    <2>1. p = Append(f, l) /\ f \in Seq(edges) /\ Parent(p) = f
      BY <1>3
    <2> HIDE DEF f
    <2>2. Append(f, l) = f \o <<l>> /\ <<l>> \in Seq(edges)
      <3>1. l \in edges
        BY <1>2
      <3> QED
        BY <2>1, <3>1, AppendJoins
    <2>3. (f \o <<l>>) \o v = f \o (<<l>> \o v)
      BY <1>1, <2>1, <2>2, ConcatAssociative
    <2> QED
      BY <1>1, <2>1, <2>2, <2>3
  <1>12. Range(w) = {l} \cup Range(v)
    <2> HIDE DEF w
    <2>1. DOMAIN w = 1..(Len(v) + 1) /\ DOMAIN v = 1..Len(v)
      BY <1>1, <1>4
    <2>2. ASSUME NEW e \in Range(w) PROVE e \in {l} \cup Range(v)
      <3>1. PICK i \in 1..(Len(v) + 1) : e = w[i]
        BY <2>1 DEF Range
      <3>2. i # 1 => i - 1 \in 1..Len(v)
        BY <1>4
      <3> QED
        BY <1>4, <2>1, <3>1, <3>2 DEF Range
    <2>3. l \in Range(w)
      BY <1>4, <2>1 DEF Range
    <2>4. ASSUME NEW e \in Range(v) PROVE e \in Range(w)
      <3>1. PICK i \in 1..Len(v) : e = v[i]
        BY <2>1 DEF Range
      <3>2. i + 1 \in 1..(Len(v) + 1) /\ i + 1 # 1 /\ (i + 1) - 1 = i
        BY <1>4
      <3>3. w[i + 1] = v[i]
        BY <1>4, <3>2
      <3> QED
        BY <2>1, <3>1, <3>2, <3>3 DEF Range
    <2> QED
      BY <2>2, <2>3, <2>4
  <1>13. w # <<>>
    <2> HIDE DEF w
    <2> QED
      BY <1>4
  <1> HIDE DEF s, w
  <1> QED
    BY <1>4, <1>6, <1>8, <1>9, <1>10, <1>11, <1>12, <1>13 DEF l, v, Joined, s

LEMMA CompressKeeps ==
  ASSUME TreeIInv, Compress
  PROVE  TreeIInv'
  <1>1. /\ Graph /\ OccurrencesWhole /\ PathsChosen /\ PathsInserted /\ TargetsChosen /\ ReferencesEnd
        /\ SectionsWhole /\ pc = "compress"
        /\ UNCHANGED <<inputs, pc, todo, occurrences, referenceTargets, reference>>
    BY DEF TreeIInv, Compress
  <1>2. UNCHANGED <<graph, occurrences>> /\ nodes' = nodes /\ edges' = edges /\ selected' = selected
        /\ limitFree' = limitFree /\ type' = type /\ reference' = reference /\ pc' = pc
    BY <1>1 DEF inputs, graph
  <1>3. /\ Graph' /\ OccurrencesWhole' /\ Occurrences' = Occurrences /\ Tree' = Tree
        /\ \A r : End(r)' = End(r)
        /\ \A r : Leaf(r)' <=> Leaf(r)
    BY <1>1, <1>2, TreeStays DEF Tree
  <1>4. PathsChosen' /\ Boundaries' = Boundaries
    BY <1>1, ChosenStay DEF HasPaths
  <1>5. PathsInserted'
    BY <1>1, <1>2, <1>3, <1>4 DEF PathsInserted, HasPaths
  <1>6. TargetsChosen'
    BY <1>1, <1>2, <1>3 DEF TargetsChosen, HasTargets, Range
  <1>7. ReferencesEnd'
    BY <1>1, <1>2, <1>3 DEF ReferencesEnd, HasTargets, HasShown
  <1>8. HasShown /\ HasTargets
    BY <1>1 DEF HasShown, HasTargets
  <1>9. /\ ShownAreWays /\ ParentsAreNext /\ DOMAIN shown \subseteq Tree
        /\ DOMAIN shown \subseteq Seq(edges) /\ IsFiniteSet(DOMAIN shown)
    BY <1>1, <1>8, ShownIs
  <1>10. PICK p \in Hideable :
           /\ \A r \in Hideable : Len(r) <= Len(p)
           /\ \E q \in ShownChildren(p) :
                shown' = [r \in DOMAIN shown \ {p} |-> IF r = q THEN Merged(p, q) ELSE shown[r]]
    BY DEF Compress
  <1>11. PICK q \in ShownChildren(p) :
           shown' = [r \in DOMAIN shown \ {p} |-> IF r = q THEN Merged(p, q) ELSE shown[r]]
    BY <1>10
  <1>12. /\ p \in DOMAIN shown /\ p # <<>> /\ p \in Seq(edges) /\ Last(p) \in edges
         /\ Parent(p) = Front(p) /\ Front(p) \in DOMAIN shown
         /\ shown[p].via = <<Last(p)>> /\ End(p) = Last(p).to
         /\ shown[p].hiddenNodeIDs = <<>> /\ shown[p].hiddenJobs = 0
         /\ shown[p].hiddenNodes = 0 /\ ~shown[p].truncated
         /\ ShownChildren(p) = {q} /\ canHide(p)
    <2>1. canHide(p)
      BY DEF Hideable
    <2> QED
      BY <1>1, <1>8, <1>11, <2>1, LoneSection
  <1>13. DOMAIN shown' = DOMAIN shown \ {p}
    BY <1>11
  <1>14. /\ q \in DOMAIN shown' /\ q # p /\ q # <<>> /\ q \in Seq(edges)
         /\ Parent(q) = p /\ Parent(p) # p /\ IsStrictPrefix(p, q)
         /\ \A r \in DOMAIN shown' \ {<<>>} : Parent(r)' = IF r = q THEN Parent(p) ELSE Parent(r)
    BY <1>2, <1>9, <1>12, <1>13, ParentsAfter
  <1>15. /\ \A r \in DOMAIN shown' : r # q => shown'[r] = shown[r]
         /\ shown'[q] = Merged(p, q)
    BY <1>11, <1>13, <1>14
  <1>16. Section(q)
    BY <1>1, <1>8, <1>13, <1>14 DEF SectionsWhole
  <1>17. Joined(shown'[q], p, q)
    <2>1. Graph /\ p # <<>> /\ p \in Seq(edges) /\ q \in Seq(edges) /\ Last(p) \in edges
      BY <1>1, <1>12, <1>14
    <2>2. /\ Parent(p) = Front(p) /\ Parent(q) = p /\ End(p) = Last(p).to
          /\ shown[p].via = <<Last(p)>>
          /\ shown[p].hiddenNodeIDs = <<>> /\ shown[p].hiddenJobs = 0
          /\ shown[p].hiddenNodes = 0 /\ ~shown[p].truncated
      BY <1>12, <1>14
    <2>3. Joined(Merged(p, q), p, q)
      BY <1>16, <2>1, <2>2, MergedTells
    <2> QED
      BY <1>15, <2>3
  <1>18. ASSUME NEW r \in DOMAIN shown' \ {<<>>} PROVE Section(r)'
    <2> DEFINE s == shown'[r]
               u == Parent(r)'
    <2>1. /\ s.via \in Seq(edges) /\ s.via # <<>>
          /\ r = u \o s.via
          /\ s.hiddenNodeIDs = Take(Inner(s.via), MaxHidden)
          /\ s.hiddenNodes = Len(s.via) - 1
          /\ s.truncated <=> Len(s.via) - 1 > MaxHidden
          /\ s.hiddenJobs = Cardinality(JobPlaces(Inner(s.via), type))
      <3>1. CASE r = q
        <4>1. u = Parent(p)
          BY <1>14, <3>1
        <4> HIDE DEF u
        <4> QED
          BY <1>17, <3>1, <4>1 DEF Joined
      <3>2. CASE r # q
        <4>1. u = Parent(r)
          BY <1>14, <3>2
        <4>2. s = shown[r]
          BY <1>15, <3>2
        <4>3. Section(r)
          BY <1>1, <1>8, <1>13 DEF SectionsWhole
        <4> HIDE DEF u, s
        <4> QED
          BY <4>1, <4>2, <4>3 DEF Section, JobPlaces
      <3> QED
        BY <3>1, <3>2
    <2> HIDE DEF s, u
    <2>2. /\ s.via \in Seq(edges') /\ s.via # <<>>
          /\ r = u \o s.via
          /\ s.hiddenNodeIDs = Take(Inner(s.via), MaxHidden)
          /\ s.hiddenNodes = Len(s.via) - 1
          /\ s.truncated <=> Len(s.via) - 1 > MaxHidden
          /\ s.hiddenJobs = Cardinality(JobPlaces(Inner(s.via), type'))
      BY <1>2, <2>1
    <2> QED
      BY <2>2 DEF Section, s, u, Inner, Take, JobPlaces
  <1>19. edges' = UNION {Range(shown'[r].via) : r \in DOMAIN shown'}
    <2> DEFINE D == DOMAIN shown
               E == DOMAIN shown'
               R(r) == Range(shown[r].via)
               S(r) == Range(shown'[r].via)
               l == Last(p)
    <2>1. edges = UNION {R(r) : r \in D}
      BY <1>1, <1>8 DEF SectionsWhole
    <2>2. /\ E = D \ {p} /\ q \in E /\ p \in D
          /\ \A r \in E : r # q => S(r) = R(r)
          /\ S(q) = {l} \cup R(q)
      BY <1>12, <1>13, <1>14, <1>15, <1>17 DEF Joined
    <2>3. R(p) = {l}
      <3>1. \A x : Range(<<x>>) = {x}
        BY DEF Range
      <3> QED
        BY <1>12, <3>1
    <2> HIDE DEF D, E, R, S, l
    <2>4. UNION {R(r) : r \in D} = UNION {S(r) : r \in E}
      <3>1. ASSUME NEW r \in D, NEW x \in R(r) PROVE \E t \in E : x \in S(t)
        <4>1. CASE r = p \/ r = q
          BY <2>2, <2>3, <3>1, <4>1
        <4>2. CASE r # p /\ r # q
          BY <2>2, <3>1, <4>2
        <4> QED
          BY <4>1, <4>2
      <3>2. ASSUME NEW r \in E, NEW x \in S(r) PROVE \E t \in D : x \in R(t)
        <4>1. CASE r = q
          BY <2>2, <2>3, <3>2, <4>1
        <4>2. CASE r # q
          BY <2>2, <3>2, <4>2
        <4> QED
          BY <4>1, <4>2
      <3> QED
        BY <3>1, <3>2
    <2> QED
      BY <1>2, <2>1, <2>4 DEF E, S
  <1>20. Hideable' \subseteq Hideable
    <2> SUFFICES ASSUME NEW r \in Hideable' PROVE r \in Hideable
      OBVIOUS
    <2>1. r \in DOMAIN shown' /\ canHide(r)' /\ Cardinality(ShownChildren(r)') = 1
      BY DEF Hideable
    <2>2. r \in DOMAIN shown /\ canHide(r)
      BY <1>2, <1>13, <2>1, CanHideStays
    <2> DEFINE C == ShownChildren(r)
               B == ShownChildren(r)'
    <2>3. \A t : t \in C <=> t \in DOMAIN shown /\ t # <<>> /\ Parent(t) = r
      BY DEF ShownChildren
    <2>4. \A t : t \in B <=> t \in DOMAIN shown' /\ t # <<>> /\ Parent(t)' = r
      BY DEF ShownChildren
    <2>5. IsFiniteSet(C) /\ IsFiniteSet(B)
      <3>1. C \subseteq DOMAIN shown /\ B \subseteq DOMAIN shown
        <4> HIDE DEF C, B
        <4> QED
          BY <1>13, <2>3, <2>4
      <3> HIDE DEF C, B
      <3> QED
        BY <1>9, <3>1, FS_Subset
    <2>6. \A t : t \in B <=> t \in DOMAIN shown /\ t # p /\ t # <<>>
                             /\ (IF t = q THEN Parent(p) ELSE Parent(t)) = r
      <3> HIDE DEF B
      <3> QED
        BY <1>13, <1>14, <2>4
    <2>7. r # p
      BY <1>13, <2>1
    <2>8. PICK x : B = {x}
      <3>1. Cardinality(B) = 1
        BY <2>1
      <3> HIDE DEF B
      <3> QED
        BY <2>5, <3>1, FS_Singleton
    <2> HIDE DEF B, C
    <2>9. \E y : C = {y}
      <3>1. CASE r = Parent(p)
        <4>1. q \in B
          BY <1>13, <1>14, <2>6, <3>1
        <4>2. q \notin C /\ p \in C
          BY <1>12, <1>14, <2>3, <2>7, <3>1
        <4>3. \A t \in C : t = p
          BY <2>3, <2>6, <2>8, <4>1, <4>2
        <4>4. C = {p}
          BY <4>2, <4>3
        <4> QED
          BY <4>4
      <3>2. CASE r # Parent(p)
        <4>1. \A t : t \in B <=> t \in C
          BY <1>14, <2>3, <2>6, <2>7, <3>2
        <4>2. C = {x}
          BY <2>8, <4>1
        <4> QED
          BY <4>2
      <3> QED
        BY <3>1, <3>2
    <2>10. Cardinality(C) = 1
      BY <2>5, <2>9, FS_Singleton
    <2> QED
      BY <2>2, <2>10 DEF Hideable, C
  <1>21. ASSUME NEW h \in Tree' \ DOMAIN shown'
         PROVE  /\ canHide(h)'
                /\ \E r \in DOMAIN shown' : IsStrictPrefix(h, r)
                /\ \A r \in Hideable' : Len(r) <= Len(h)
    <2>1. CASE h = p
      <3>1. canHide(h)'
        BY <1>2, <1>12, <2>1, CanHideStays
      <3> QED
        BY <1>10, <1>14, <1>20, <2>1, <3>1
    <2>2. CASE h # p
      <3>1. h \in Tree \ DOMAIN shown
        BY <1>3, <1>13, <2>2
      <3>2. /\ canHide(h) /\ \A r \in Hideable : Len(r) <= Len(h)
            /\ \E r \in DOMAIN shown : IsStrictPrefix(h, r)
        BY <1>1, <1>8, <3>1 DEF SectionsWhole
      <3>3. canHide(h)'
        BY <1>2, <3>2, CanHideStays
      <3>4. PICK r \in DOMAIN shown : IsStrictPrefix(h, r)
        BY <3>2
      <3>5. h \in Seq(edges) /\ r \in Seq(edges)
        BY <1>1, <1>8, <1>9, <3>1, TreeIs
      <3>6. \E t \in DOMAIN shown' : IsStrictPrefix(h, t)
        <4>1. CASE r = p
          BY <1>14, <3>4, <3>5, <4>1, StrictPrefixTransitive
        <4>2. CASE r # p
          BY <1>13, <3>4, <4>2
        <4> QED
          BY <4>1, <4>2
      <3> QED
        BY <1>20, <3>2, <3>3, <3>6
    <2> QED
      BY <2>1, <2>2
  <1>22. DOMAIN shown' \subseteq Tree' /\ <<>> \in DOMAIN shown'
    BY <1>3, <1>9, <1>12, <1>13 DEF ShownAreWays
  <1>23. SectionsWhole'
    BY <1>18, <1>19, <1>21, <1>22 DEF SectionsWhole
  <1> QED
    BY <1>1, <1>2, <1>3, <1>4, <1>5, <1>6, <1>7, <1>23 DEF TreeIInv

--------------------------------------------------------------------------------
(* The end. *)

(* A target is compressed away only if its node has one occurrence and one way in:
   then no reference leads to it. *)
LEMMA TargetsStay ==
  ASSUME TreeIInv, HasShown, NEW q \in DOMAIN reference
  PROVE  /\ End(q) \in nodes /\ reference[q].to = referenceTargets[End(q)]
         /\ referenceTargets[End(q)] \in DOMAIN shown
  <1> DEFINE n == End(q)
             t == referenceTargets[n]
  <1>1. /\ Graph /\ OccurrencesWhole /\ PathsChosen /\ PathsInserted /\ TargetsChosen /\ ReferencesEnd
        /\ SectionsWhole /\ HasTargets /\ HasPaths /\ pc # "selected" /\ pc # "removed"
    BY DEF TreeIInv, HasShown, HasTargets, HasPaths
  <1>2. q \in Tree /\ n \in nodes
    <2>1. q \in Tree
      BY DEF Tree
    <2> QED
      BY <1>1, <2>1, TreeIs
  <1>3. reference[q].to = t
    BY <1>1 DEF ReferencesEnd
  <1>4. t \in Tree /\ End(t) = n /\ IsWay(t, n) /\ t \in Range(occurrences[n])
    BY <1>1, <1>2, TargetIs DEF Tree
  <1>5. ASSUME t \notin DOMAIN shown PROVE FALSE
    <2>1. canHide(t)
      BY <1>1, <1>4, <1>5 DEF SectionsWhole
    <2> HIDE DEF t, n
    <2>2. /\ t # <<>> /\ Len(occurrences[n]) <= 1 /\ Cardinality(In(n)) = 1
          /\ \A e \in In(n) : isRelation(e) /\ ~hasUncertainRelation(e)
      BY <1>4, <2>1 DEF canHide, MeetsOnce
    <2>3. CASE q \in Occurrences
      <3>1. q # t
        BY <1>1, <2>3 DEF ReferencesEnd, t, n
      <3>2. q \in Range(occurrences[n])
        BY <1>1, <2>3, OccurrenceIs DEF n
      <3>3. occurrences[n] \in Seq(Seq(edges))
        BY <1>1, <1>2 DEF OccurrencesWhole, n
      <3> DEFINE o == occurrences[n]
      <3>4. PICK i, j \in DOMAIN o : q = o[i] /\ t = o[j]
        BY <1>4, <3>2 DEF Range
      <3>5. DOMAIN o = 1..Len(o) /\ Len(o) \in Nat /\ Len(o) <= 1
        BY <2>2, <3>3
      <3> HIDE DEF o
      <3>6. i = j
        BY <3>4, <3>5
      <3> QED
        BY <3>1, <3>4, <3>6
    <2>4. CASE q \notin Occurrences
      <3>1. PICK e \in edges : q = Append(referenceTargets[e.from], e)
        BY <1>1, <2>4 DEF ReferencesEnd
      <3> DEFINE m == e.from
                 u == referenceTargets[m]
      <3>2. m \in nodes /\ u \in Seq(edges)
        BY <1>1, EdgeEnds, TargetIs
      <3>3. e.to = n
        <4> HIDE DEF u
        <4>1. q = Append(u, e)
          BY <3>1 DEF u
        <4> QED
          BY <1>1, <3>2, <4>1, EndIsTip DEF n
      <3>4. In(n) = {e}
        <4>1. e \in In(n) /\ IsFiniteSet(In(n))
          <5>1. In(n) \subseteq edges
            BY DEF In
          <5> QED
            BY <1>1, <3>3, <5>1, EdgesFinite, FS_Subset DEF In
        <4> QED
          BY <2>2, <4>1, FS_Singleton
      <3>5. confirmed(e)
        <4>1. e \in Connections \cup ScopeEdges /\ ~hasUncertainRelation(e)
          BY <1>1, <2>2, <3>4, EdgeEnds
        <4>2. CASE e \in Connections
          <5>1. /\ e.certainty \subseteq {"sure", "unsure"} /\ e.certainty # {}
                /\ "unsure" \notin e.certainty
            <6>1. e.certainty \in (SUBSET {"sure", "unsure"}) \ {{}}
              BY <4>2 DEF Connections
            <6>2. "unsure" \notin e.certainty
              BY <4>1 DEF hasUncertainRelation
            <6> DEFINE c == e.certainty
            <6>3. c \in SUBSET {"sure", "unsure"} /\ c \notin {{}} /\ "unsure" \notin c
              BY <6>1, <6>2
            <6> HIDE DEF c
            <6>4. c \subseteq {"sure", "unsure"} /\ c # {} /\ "unsure" \notin c
              BY <6>3
            <6> QED
              BY <6>4 DEF c
          <5>2. "sure" \in e.certainty
            <6>1. PICK x \in e.certainty : TRUE
              BY <5>1
            <6>2. x \in {"sure", "unsure"}
              BY <5>1
            <6> QED
              BY <5>1, <6>2
          <5> QED
            BY <5>2 DEF confirmed
        <4>3. CASE e \in ScopeEdges
          BY <4>3 DEF confirmed, ScopeEdges
        <4> QED
          BY <4>1, <4>2, <4>3
      <3>6. n # target
        BY <1>1, <1>4, <2>2, WayEnds
      <3>7. selected[n] = Append(selected[m], e) /\ IsWay(selected[m], m)
        BY <1>1, <1>2, <3>2, <3>4, <3>5, <3>6 DEF PathsChosen, n
      <3>8. selected[n] \in Occurrences
        BY <1>1, <1>2 DEF PathsInserted, n
      <3>9. ~Leaf(selected[m])
        <4> DEFINE s == selected[m]
        <4>1. s \in Seq(edges)
          BY <1>1, <3>7, WayIs
        <4> HIDE DEF s
        <4>2. Append(s, e) # <<>> /\ Front(Append(s, e)) = s
          BY <4>1, FrontOfAppend
        <4> QED
          BY <3>7, <3>8, <4>2 DEF Leaf, s
      <3>10. u = selected[m]
        BY <1>1, <3>2, <3>9 DEF TargetsChosen
      <3>11. q = selected[n]
        BY <3>1, <3>7, <3>10
      <3> QED
        BY <2>4, <3>8, <3>11
    <2> QED
      BY <2>3, <2>4
  <1> QED
    BY <1>2, <1>3, <1>5

(* Owners of limits and boundaries are never compressed away. *)
LEMMA ReferredStay ==
  ASSUME TreeIInv, HasShown
  PROVE  Referred \subseteq DOMAIN shown
  <1>1. /\ Graph /\ OccurrencesWhole /\ PathsChosen /\ PathsInserted
        /\ SectionsWhole /\ HasPaths /\ pc \notin {"selected", "uncovered"}
    BY DEF TreeIInv, HasShown, HasPaths
  <1>2. ASSUME NEW p \in Tree, p \notin DOMAIN shown
        PROVE  End(p) \notin owners /\ ~InCycle(End(p)) /\ Out(End(p)) # {}
    <2>1. canHide(p)
      BY <1>1, <1>2 DEF SectionsWhole
    <2>2. End(p) \notin owners /\ ~InCycle(End(p)) /\ Cardinality(Out(End(p))) = 1
      BY <2>1 DEF canHide, MeetsOnce
    <2>3. Cardinality({}) = 0
      BY FS_EmptySet
    <2> QED
      BY <2>2, <2>3
  <1>3. ASSUME NEW n \in owners PROVE selected[n] \in DOMAIN shown
    <2>1. n \in nodes
      BY <1>1 DEF Graph
    <2>2. selected[n] \in Occurrences /\ End(selected[n]) = n
      BY <1>1, <2>1 DEF PathsInserted, PathsChosen, IsWay
    <2>3. selected[n] \in Tree
      BY <2>2 DEF Tree
    <2> QED
      BY <1>2, <2>2, <2>3
  <1>4. ASSUME NEW n \in Boundaries PROVE limitFree[n] \in DOMAIN shown
    <2>1. limitFree[n] \in Occurrences /\ End(limitFree[n]) = n
      BY <1>1 DEF PathsInserted, PathsChosen, IsWay
    <2>2. Out(n) = {} \/ InCycle(n)
      BY <1>1, BoundaryIs DEF BoundariesReached
    <2>3. limitFree[n] \in Tree
      BY <2>1 DEF Tree
    <2> QED
      BY <1>2, <2>1, <2>2, <2>3
  <1> QED
    BY <1>3, <1>4 DEF Referred

LEMMA TreeRests ==
  ASSUME TreeIInv, UNCHANGED <<inputs, todo, occurrences, referenceTargets, shown>>,
         DOMAIN reference' = DOMAIN reference,
         \A q \in DOMAIN reference : reference'[q].to = reference[q].to,
         (pc' = pc /\ reference' = reference) \/ (pc = "compress" /\ pc' = "done")
  PROVE  TreeIInv'
  <1>1. /\ Graph /\ OccurrencesWhole /\ PathsChosen /\ PathsInserted /\ TargetsChosen /\ ReferencesEnd
        /\ SectionsWhole /\ pc # "removed"
        /\ pc \in {"prepare", "selected", "uncovered", "edges", "compress", "done", "removed", "failed"}
    BY DEF TreeIInv
  <1>2. UNCHANGED <<graph, occurrences>> /\ nodes' = nodes /\ edges' = edges /\ selected' = selected
        /\ limitFree' = limitFree /\ type' = type /\ todo' = todo /\ shown' = shown
        /\ referenceTargets' = referenceTargets
    BY DEF inputs, graph
  <1>3. /\ HasPaths' <=> HasPaths
        /\ HasTargets' <=> HasTargets
        /\ HasShown' <=> HasShown
        /\ pc' # "removed"
        /\ pc' \in {"prepare", "selected", "uncovered"} => pc' = pc /\ reference' = reference
        /\ pc \in {"prepare", "selected", "uncovered"} => pc' = pc
        /\ pc' \in {"prepare", "selected", "uncovered", "edges", "compress", "done", "removed", "failed"}
    BY <1>1 DEF HasPaths, HasTargets, HasShown
  <1>4. /\ Graph' /\ OccurrencesWhole' /\ Occurrences' = Occurrences /\ Tree' = Tree
        /\ \A r : End(r)' = End(r)
        /\ \A r : Leaf(r)' <=> Leaf(r)
    BY <1>1, <1>2, TreeStays DEF Tree
  <1>5. PathsChosen' /\ Boundaries' = Boundaries
    BY <1>1, <1>3, ChosenStay
  <1>6. PathsInserted'
    <2>1. todo' \subseteq nodes'
      BY <1>1, <1>2 DEF PathsInserted
    <2>2. HasPaths' => \A n \in nodes' : (n \in todo' /\ pc' = "selected") \/ selected'[n] \in Occurrences'
      BY <1>1, <1>2, <1>3, <1>4 DEF PathsInserted
    <2>3. HasPaths' /\ pc' # "selected" =>
             /\ pc' = "uncovered" => todo' \subseteq Boundaries'
             /\ \A n \in Boundaries' : (n \in todo' /\ pc' = "uncovered") \/ limitFree'[n] \in Occurrences'
      BY <1>1, <1>2, <1>3, <1>4, <1>5 DEF PathsInserted
    <2> QED
      BY <2>1, <2>2, <2>3 DEF PathsInserted
  <1>7. TargetsChosen'
    BY <1>1, <1>2, <1>3, <1>4 DEF TargetsChosen, Range
  <1>8. ReferencesEnd'
    BY <1>1, <1>2, <1>3, <1>4 DEF ReferencesEnd
  <1>9. SectionsWhole'
    <2> SUFFICES ASSUME HasShown PROVE SectionsWhole'
      BY <1>3 DEF SectionsWhole
    <2>1. \A p : Parent(p)' = Parent(p)
      BY <1>2 DEF Parent, Above
    <2>2. \A p : Section(p)' <=> Section(p)
      BY <1>2, <2>1 DEF Section, Take, Inner
    <2>3. \A p : ShownChildren(p)' = ShownChildren(p)
      BY <1>2, <2>1 DEF ShownChildren
    <2>4. \A p : canHide(p)' <=> canHide(p)
      BY <1>2, CanHideStays
    <2>5. Hideable' = Hideable
      BY <1>2, <2>3, <2>4 DEF Hideable
    <2>6. \A h \in Tree \ DOMAIN shown :
            /\ canHide(h)
            /\ \E q \in DOMAIN shown : IsStrictPrefix(h, q)
            /\ \A p \in Hideable : Len(p) <= Len(h)
      BY <1>1 DEF SectionsWhole
    <2>7. \A h \in Tree' \ DOMAIN shown' :
            /\ canHide(h)'
            /\ \E q \in DOMAIN shown' : IsStrictPrefix(h, q)
            /\ \A p \in Hideable' : Len(p) <= Len(h)
      BY <1>2, <1>4, <2>4, <2>5, <2>6
    <2>8. \A p \in DOMAIN shown' \ {<<>>} : Section(p)'
      BY <1>1, <1>2, <2>2 DEF SectionsWhole
    <2>9. /\ DOMAIN shown' \subseteq Tree' /\ <<>> \in DOMAIN shown'
          /\ edges' = UNION {Range(shown'[p].via) : p \in DOMAIN shown'}
      BY <1>1, <1>2, <1>4 DEF SectionsWhole
    <2> QED
      BY <2>7, <2>8, <2>9 DEF SectionsWhole
  <1> QED
    BY <1>3, <1>4, <1>5, <1>6, <1>7, <1>8, <1>9 DEF TreeIInv

LEMMA FinishKeeps ==
  ASSUME TreeIInv, Finish
  PROVE  TreeIInv'
  <1>1. /\ pc = "compress" /\ HasShown
        /\ pc' = IF Referred \subseteq DOMAIN shown THEN "done" ELSE "removed"
        /\ reference' =
             [p \in DOMAIN reference |->
                IF reference[p].to \in DOMAIN shown THEN reference[p]
                ELSE [reference[p] EXCEPT !.to = None]]
        /\ UNCHANGED <<inputs, todo, occurrences, referenceTargets, shown>>
    BY DEF Finish, HasShown
  <1>2. pc' = "done"
    BY <1>1, ReferredStay
  <1>3. \A q \in DOMAIN reference : reference[q].to \in DOMAIN shown
    BY <1>1, TargetsStay
  <1>4. /\ DOMAIN reference' = DOMAIN reference
        /\ \A q \in DOMAIN reference : reference'[q].to = reference[q].to
    BY <1>1, <1>3
  <1> QED
    BY <1>1, <1>2, <1>4, TreeRests

LEMMA TreeFailKeeps ==
  ASSUME TreeIInv, TreeFail
  PROVE  TreeIInv'
  <1>1. /\ Graph /\ OccurrencesWhole /\ todo \subseteq nodes /\ pc' = "failed"
        /\ UNCHANGED <<inputs, todo, occurrences, referenceTargets, reference, shown>>
    BY DEF TreeIInv, TreeFail, PathsInserted
  <1>2. UNCHANGED <<graph, occurrences>> /\ nodes' = nodes
    BY <1>1 DEF inputs, graph
  <1>3. Graph' /\ OccurrencesWhole'
    BY <1>1, <1>2, TreeStays
  <1>4. ~HasPaths' /\ ~HasTargets' /\ ~HasShown'
    BY <1>1 DEF HasPaths, HasTargets, HasShown
  <1>5. PathsInserted'
    BY <1>1, <1>2, <1>4 DEF PathsInserted
  <1>6. PathsChosen' /\ TargetsChosen' /\ ReferencesEnd' /\ SectionsWhole'
    BY <1>1, <1>4 DEF PathsChosen, TargetsChosen, ReferencesEnd, SectionsWhole
  <1> QED
    BY <1>1, <1>3, <1>5, <1>6 DEF TreeIInv

LEMMA TreeStep ==
  ASSUME TreeIInv, [TreeNext]_treeVars
  PROVE  TreeIInv'
  <1>1. CASE TreeNext
    BY <1>1, PrepareKeeps, InsertSelectedKeeps, SelectedDoneKeeps, InsertUncoveredKeeps,
       MarkReferencesKeeps, CloseEdgesKeeps, CompressKeeps, FinishKeeps, TreeFailKeeps DEF TreeNext
  <1>2. CASE UNCHANGED treeVars
    <2>1. /\ UNCHANGED <<inputs, todo, occurrences, referenceTargets, shown>>
          /\ pc' = pc /\ reference' = reference
      BY <1>2 DEF treeVars
    <2>2. /\ DOMAIN reference' = DOMAIN reference
          /\ \A q \in DOMAIN reference : reference'[q].to = reference[q].to
      BY <2>1
    <2>3. (pc' = pc /\ reference' = reference) \/ (pc = "compress" /\ pc' = "done")
      BY <2>1
    <2> QED
      BY <2>1, <2>2, <2>3, TreeRests
  <1> QED
    BY <1>1, <1>2

(* In every state the tree is made of whole paths from the target, each node has
   its path in it, references end where they stand and lead to a path of their
   node, and each shown node tells of the section above it: whatever the graph. *)
THEOREM TreeInvariance == TreeSpec => []TreeIInv
  <1>1. TreeInit => TreeIInv
    BY TreeBegins
  <1>2. TreeIInv /\ [TreeNext]_treeVars => TreeIInv'
    BY TreeStep
  <1> QED
    BY <1>1, <1>2, PTL DEF TreeSpec

(* A shown node is reached from the node above by the first of its connections. *)
LEMMA FirstOfVia ==
  ASSUME Graph, OccurrencesWhole, TargetsChosen, ReferencesEnd, SectionsWhole, HasShown,
         NEW t, NEW q \in ShownChildren(t)
  PROVE  /\ q \in Tree /\ q \in Seq(edges) /\ t \in Seq(edges) /\ IsStrictPrefix(t, q)
         /\ Len(t) \in Nat /\ Len(t) + 1 \in 1..Len(q)
         /\ Head(shown[q].via) = q[Len(t) + 1] /\ Head(shown[q].via) \in edges
  <1>1. q \in DOMAIN shown /\ q # <<>> /\ Parent(q) = t
    BY DEF ShownChildren
  <1>2. q \in Tree /\ q \in Seq(edges)
    BY <1>1, ShownIs
  <1>3. t \in DOMAIN shown /\ t \in Seq(edges) /\ IsStrictPrefix(t, q)
    BY <1>1, <1>2, ShownIs DEF ParentsAreNext
  <1> DEFINE v == shown[q].via
  <1>4. v \in Seq(edges) /\ v # <<>> /\ q = t \o v
    BY <1>1 DEF SectionsWhole, Section
  <1> HIDE DEF v
  <1>5. /\ Len(t) \in Nat /\ Len(v) \in Nat /\ Len(v) # 0 /\ Head(v) = v[1] /\ v[1] \in edges
        /\ Len(q) = Len(t) + Len(v)
        /\ \A i \in 1..(Len(t) + Len(v)) : q[i] = IF i <= Len(t) THEN t[i] ELSE v[i - Len(t)]
    BY <1>3, <1>4, ConcatProperties
  <1>6. Len(t) + 1 \in 1..(Len(t) + Len(v)) /\ ~(Len(t) + 1 <= Len(t)) /\ (Len(t) + 1) - Len(t) = 1
    BY <1>5
  <1>7. q[Len(t) + 1] = v[1]
    BY <1>5, <1>6
  <1> QED
    BY <1>2, <1>3, <1>5, <1>6, <1>7 DEF v

LEMMA ConnectionsFollow ==
  ASSUME TreeIInv
  PROVE  ConnectionsKept
  <1> SUFFICES ASSUME pc = "done"
      PROVE  /\ \A p \in DOMAIN shown \ {<<>>} :
                  LET s == shown[p]
                  IN  /\ p = Parent(p) \o s.via
                      /\ s.hiddenNodeIDs = Take(Inner(s.via), MaxHidden)
                      /\ s.truncated <=> Len(s.via) - 1 > MaxHidden
                      /\ s.hiddenJobs = Cardinality({i \in DOMAIN Inner(s.via) : type[Inner(s.via)[i]] = "job"})
             /\ edges = UNION {Range(shown[p].via) : p \in DOMAIN shown}
    BY DEF ConnectionsKept
  <1>1. SectionsWhole /\ HasShown
    BY DEF TreeIInv, HasShown
  <1> QED
    BY <1>1 DEF SectionsWhole, Section

LEMMA PathsFollow ==
  ASSUME TreeIInv
  PROVE  PathsUnbroken
  <1> SUFFICES ASSUME pc = "done",
                      NEW p \in Range(selected) \cup {limitFree[n] : n \in Boundaries},
                      NEW q \in DOMAIN reference
      PROVE  ~IsStrictPrefix(q, p)
    BY DEF PathsUnbroken
  <1>1. /\ Graph /\ OccurrencesWhole /\ PathsChosen /\ PathsInserted /\ TargetsChosen /\ ReferencesEnd
        /\ HasTargets /\ HasPaths
    BY DEF TreeIInv, HasTargets, HasPaths
  <1>2. p \in Occurrences
    <2>1. CASE p \in Range(selected)
      <3>1. PICK n \in nodes : p = selected[n]
        BY <1>1, <2>1 DEF PathsChosen, Range
      <3> QED
        BY <1>1, <3>1 DEF PathsInserted
    <2>2. CASE p \in {limitFree[n] : n \in Boundaries}
      BY <1>1, <2>2 DEF PathsInserted
    <2> QED
      BY <2>1, <2>2
  <1>3. p \in Tree
    BY <1>2 DEF Tree
  <1> QED
    BY <1>1, <1>3, ReferenceEnds

(* Each connection of a reference's node leads to a node shown below its target. *)
LEMMA ConnectionsBelow ==
  ASSUME TreeIInv, HasShown, NEW n \in nodes, NEW t, t = referenceTargets[n], t \in DOMAIN shown
  PROVE  {Head(shown[q].via) : q \in ShownChildren(t)} = Out(n)
  <1>1. /\ Graph /\ OccurrencesWhole /\ TargetsChosen /\ ReferencesEnd /\ SectionsWhole /\ HasTargets
    BY DEF TreeIInv, HasTargets, HasShown
  <1>2. t \in Occurrences /\ End(t) = n /\ t \in Seq(edges) /\ Len(t) \in Nat
    <2>1. t \in Occurrences /\ End(t) = n /\ t \in Seq(edges)
      BY <1>1, TargetIs
    <2> QED
      BY <2>1
  <1>3. ASSUME NEW q \in ShownChildren(t) PROVE Head(shown[q].via) \in Out(n)
    <2> DEFINE e == Head(shown[q].via)
    <2>1. /\ q \in Tree /\ q \in Seq(edges) /\ IsStrictPrefix(t, q)
          /\ Len(t) + 1 \in 1..Len(q) /\ e = q[Len(t) + 1] /\ e \in edges
      BY <1>1, FirstOfVia
    <2> HIDE DEF e
    <2>2. t = Prefix(q, Len(t))
      BY <1>2, <2>1, StrictPrefixIs
    <2>3. (Len(t) + 1) - 1 = Len(t)
      BY <1>2
    <2>4. \A k \in 1..Len(q) : q[k].from = End(Prefix(q, k - 1))
      BY <1>1, <2>1, TreeIs
    <2>5. e.from = n
      BY <1>2, <2>1, <2>2, <2>3, <2>4
    <2> QED
      BY <2>1, <2>5 DEF Out, e
  <1>4. ASSUME NEW e \in Out(n) PROVE \E q \in ShownChildren(t) : e = Head(shown[q].via)
    <2> DEFINE x == Append(t, e)
               S == {y \in DOMAIN shown : y = x \/ IsStrictPrefix(x, y)}
               L == {Len(y) : y \in S}
    <2>1. e \in edges /\ e.from = n
      BY DEF Out
    <2>2. x \in Tree
      BY <1>1, <2>1 DEF ReferencesEnd
    <2>3. x \in Seq(edges) /\ x # <<>> /\ Len(x) = Len(t) + 1 /\ Front(x) = t /\ IsStrictPrefix(t, x)
          /\ x[Len(t) + 1] = e
      <3>1. x \in Seq(edges) /\ x # <<>> /\ Len(x) = Len(t) + 1 /\ Front(x) = t
        BY <1>2, <2>1, FrontOfAppend
      <3>2. x[Len(t) + 1] = e
        BY <1>2, <2>1
      <3> HIDE DEF x
      <3> QED
        BY <3>1, <3>2, FrontIs
    <2> HIDE DEF x
    <2>4. S # {}
      BY <1>1, <2>2 DEF SectionsWhole
    <2>5. \A y \in DOMAIN shown : y \in Seq(edges) /\ Len(y) \in Nat
      <3>1. \A y \in DOMAIN shown : y \in Seq(edges)
        BY <1>1, ShownIs
      <3> QED
        BY <3>1
    <2>6. L \in SUBSET Nat /\ L # {}
      BY <2>4, <2>5
    <2>7. PICK m \in L : \A k \in L : m <= k
      <3> HIDE DEF L
      <3> QED
        BY <2>6, LeastExists
    <2>8. PICK y \in S : m = Len(y)
      OBVIOUS
    <2>9. \A z \in S : Len(y) <= Len(z)
      BY <2>7, <2>8
    <2>10. y \in DOMAIN shown /\ (y = x \/ IsStrictPrefix(x, y))
      OBVIOUS
    <2>11. \A z \in DOMAIN shown : z = x \/ IsStrictPrefix(x, z) => Len(y) <= Len(z)
      BY <2>9
    <2> HIDE DEF S, L
    <2>12. y \in Seq(edges) /\ Len(y) \in Nat /\ Len(x) \in Nat /\ Len(x) <= Len(y)
           /\ x = Prefix(y, Len(x)) /\ IsStrictPrefix(t, y) /\ y # <<>>
      <3>1. y \in Seq(edges) /\ Len(y) \in Nat /\ Len(x) \in Nat
        BY <2>3, <2>5, <2>10
      <3>2. CASE y = x
        <4>1. x = Prefix(x, Len(x))
          BY <2>3, PrefixWhole
        <4> QED
          BY <2>3, <3>1, <3>2, <4>1
      <3>3. CASE IsStrictPrefix(x, y)
        <4>1. Len(x) < Len(y) /\ x = Prefix(y, Len(x))
          BY <2>3, <3>1, <3>3, StrictPrefixIs
        <4>2. IsStrictPrefix(t, y)
          BY <1>2, <2>3, <3>1, <3>3, StrictPrefixTransitive
        <4>3. y # <<>>
          <5>1. Len(<<>>) = 0
            OBVIOUS
          <5> QED
            BY <3>1, <4>1, <5>1
        <4> QED
          BY <3>1, <4>1, <4>2, <4>3
      <3> QED
        BY <2>10, <3>2, <3>3
    <2> DEFINE u == Parent(y)
    <2>13. /\ u \in DOMAIN shown /\ IsStrictPrefix(u, y)
           /\ Len(t) <= Len(u) /\ (Len(t) = Len(u) => t = u)
      BY <1>1, <2>12, ShownIs DEF ParentsAreNext
    <2>14. u \in Seq(edges) /\ Len(u) \in Nat
      BY <2>5, <2>13
    <2> HIDE DEF u
    <2>15. Len(u) < Len(y) /\ u = Prefix(y, Len(u))
      BY <2>12, <2>13, <2>14, StrictPrefixIs
    <2>16. u = t
      <3> SUFFICES ASSUME Len(t) < Len(u) PROVE FALSE
        BY <1>2, <2>13, <2>14
      <3>1. CASE Len(x) = Len(u)
        <4>1. u = x
          BY <2>12, <2>15, <3>1
        <4> QED
          BY <2>11, <2>12, <2>13, <2>14, <2>15, <4>1
      <3>2. CASE Len(x) # Len(u)
        <4>1. Len(x) < Len(u)
          BY <1>2, <2>3, <2>14, <3>2
        <4>2. IsStrictPrefix(x, y)
          <5>1. Len(x) < Len(y)
            BY <2>12, <2>14, <2>15, <4>1
          <5> QED
            BY <2>3, <2>12, <5>1, StrictPrefixIs
        <4>3. IsStrictPrefix(x, u)
          BY <2>3, <2>12, <2>13, <2>14, <4>1, <4>2, PrefixesAreOrdered
        <4>4. Len(y) <= Len(u)
          BY <2>11, <2>13, <4>3
        <4> QED
          BY <2>12, <2>14, <2>15, <4>4
      <3> QED
        BY <3>1, <3>2
    <2>17. y \in ShownChildren(t)
      BY <2>10, <2>12, <2>16 DEF ShownChildren, u
    <2>18. Head(shown[y].via) = y[Len(t) + 1]
      BY <1>1, <2>17, FirstOfVia
    <2>19. y[Len(t) + 1] = x[Len(t) + 1]
      <3>1. Len(x) \in 0..Len(y) /\ Len(t) + 1 \in 1..Len(x)
        BY <1>2, <2>3, <2>12
      <3>2. \A i \in 1..Len(x) : Prefix(y, Len(x))[i] = y[i]
        BY <2>12, <3>1, PrefixIs
      <3> QED
        BY <2>12, <3>1, <3>2
    <2> QED
      BY <2>3, <2>17, <2>18, <2>19
  <1> QED
    BY <1>3, <1>4

LEMMA ReferencesFollow ==
  ASSUME TreeIInv
  PROVE  ReferencesResolve
  <1>1. pc # "removed"
    BY DEF TreeIInv
  <1>2. ASSUME pc = "done", NEW p \in DOMAIN shown \cap DOMAIN reference, NEW to, to = reference[p].to
        PROVE  /\ ShownChildren(p) = {}
               /\ to \in DOMAIN shown \ DOMAIN reference
               /\ End(to) = End(p)
               /\ {Head(shown[q].via) : q \in ShownChildren(to)} = Out(End(p))
    <2>1. /\ Graph /\ OccurrencesWhole /\ TargetsChosen /\ ReferencesEnd /\ SectionsWhole
          /\ HasTargets /\ HasShown
      BY <1>2 DEF TreeIInv, HasTargets, HasShown
    <2>2. End(p) \in nodes /\ to = referenceTargets[End(p)] /\ to \in DOMAIN shown
      BY <1>2, <2>1, TargetsStay
    <2>3. to \in Occurrences /\ End(to) = End(p)
      BY <2>1, <2>2, TargetIs
    <2>4. to \notin DOMAIN reference
      BY <2>1, <2>2, <2>3 DEF ReferencesEnd
    <2>5. ShownChildren(p) = {}
      <3> SUFFICES ASSUME NEW q \in ShownChildren(p) PROVE FALSE
        OBVIOUS
      <3>1. q \in Tree /\ IsStrictPrefix(p, q)
        BY <2>1, FirstOfVia
      <3> QED
        BY <2>1, <3>1, ReferenceEnds
    <2>6. {Head(shown[q].via) : q \in ShownChildren(to)} = Out(End(p))
      BY <2>1, <2>2, ConnectionsBelow
    <2> QED
      BY <2>2, <2>3, <2>4, <2>5, <2>6
  <1>3. pc = "done" =>
          \A p \in DOMAIN shown \cap DOMAIN reference : \A to \in {reference[p].to} :
            /\ ShownChildren(p) = {}
            /\ to \in DOMAIN shown \ DOMAIN reference
            /\ End(to) = End(p)
            /\ {Head(shown[q].via) : q \in ShownChildren(to)} = Out(End(p))
    BY <1>2
  <1> QED
    BY <1>1, <1>3, Zenon DEF ReferencesResolve

(* What compression leaves shown tells all that it hides: the connections read from
   the root give back every path of the tree, no connection is lost, and the counts,
   the IDs and the mark of truncation are those of what was hidden. *)
THEOREM ConnectionsAreKept == TreeSpec => []ConnectionsKept
  BY TreeInvariance, ConnectionsFollow, PTL

(* References lead to shown nodes of the same ID that are no references and have all
   its connections below them, and nothing that a limit owner or a boundary refers
   to is compressed away: Build never gets to the error that finish has for it. *)
THEOREM ReferencesAreResolved == TreeSpec => []ReferencesResolve
  BY TreeInvariance, ReferencesFollow, PTL

(* No reference stands within the path of a node or of an uncovered boundary. *)
THEOREM PathsAreUnbroken == TreeSpec => []PathsUnbroken
  BY TreeInvariance, PathsFollow, PTL


--------------------------------------------------------------------------------
(* The numbers of paths between components. *)

(* p goes along connections between components, on from any node of the one it is at. *)
IsCrossing(p) ==
  /\ p \in Seq(crossing)
  /\ \A i \in DOMAIN p : p[i].from \in componentFor(IF i = 1 THEN target ELSE p[i - 1].to)

(* The paths to c that come from a counted component. *)
Arrivals(c) ==
  {p \in Seq(crossing) :
     /\ IsCrossing(p)
     /\ componentFor(End(p)) = c
     /\ p = <<>> \/ componentFor(Last(p).from) \in counted}

Capped(k) == IF k <= MaxInt THEN k ELSE MaxInt

(* What is counted at a component are the paths that came from the components taken
   so far.  None of those comes last again: a path has no more edges than they are. *)
CountsSum ==
  /\ Graph
  /\ pc \in Searches \cup {"cycles", "counts", "done", "failed"}
  /\ pc # "failed" =>
       /\ counted \subseteq components
       /\ DOMAIN pathCount = components
       /\ \A c \in counted : \A d \in components \ counted : Crossing(d, c) = {}
       /\ \A c \in components :
            /\ IsFiniteSet(Arrivals(c))
            /\ pathCount[c] = Capped(Cardinality(Arrivals(c)))
            /\ \A p \in Arrivals(c) : Len(p) <= Cardinality(counted)
       /\ pc = "done" => counted = components

(* Components. *)

LEMMA ComponentIs ==
  ASSUME Graph, NEW n \in nodes
  PROVE  /\ n \in componentFor(n) /\ componentFor(n) \subseteq nodes
         /\ componentFor(n) \in components
         /\ \A x \in componentFor(n) : componentFor(x) = componentFor(n)
  <1>1. CASE InCycle(n)
    <2> DEFINE c == componentFor(n)
    <2>1. c \in cycles /\ n \in c
      <3>1. c = CHOOSE d \in cycles : n \in d
        BY <1>1 DEF componentFor
      <3> HIDE DEF c
      <3> QED
        BY <1>1, <3>1 DEF InCycle
    <2> HIDE DEF c
    <2>2. c \subseteq nodes
      BY <2>1, CycleNodes
    <2>3. ASSUME NEW x \in c PROVE componentFor(x) = c
      <3> DEFINE d == componentFor(x)
      <3>1. InCycle(x)
        BY <2>1 DEF InCycle
      <3>2. d \in cycles /\ x \in d
        <4>1. d = CHOOSE e \in cycles : x \in e
          BY <3>1 DEF componentFor
        <4> HIDE DEF d
        <4> QED
          BY <3>1, <4>1 DEF InCycle
      <3> HIDE DEF d
      <3>3. ASSUME NEW y \in c PROVE y \in d
        <4>1. y \in nodes /\ y \in Reached(edges, x) /\ x \in Reached(edges, y)
          BY <2>1, <2>2, CycleNodes
        <4> QED
          BY <3>2, <4>1, CycleNodes
      <3>4. ASSUME NEW y \in d PROVE y \in c
        <4>1. y \in nodes /\ y \in Reached(edges, x) /\ x \in Reached(edges, y)
          BY <3>2, CycleNodes
        <4> QED
          BY <2>1, <4>1, CycleNodes
      <3>5. d = c
        BY <3>3, <3>4
      <3> QED
        BY <3>5 DEF d
    <2>4. c \in components
      BY DEF components, c
    <2> QED
      BY <2>1, <2>2, <2>3, <2>4 DEF c
  <1>2. CASE ~InCycle(n)
    <2>1. componentFor(n) = {n}
      BY <1>2 DEF componentFor
    <2>2. componentFor(n) \in components
      BY DEF components
    <2> QED
      BY <2>1, <2>2
  <1> QED
    BY <1>1, <1>2

LEMMA NodesOfComponent ==
  ASSUME Graph, NEW c \in components
  PROVE  c \subseteq nodes /\ \A x \in c : componentFor(x) = c
  <1>1. PICK n \in nodes : c = componentFor(n)
    BY DEF components
  <1> QED
    BY <1>1, ComponentIs

LEMMA FewComponents ==
  ASSUME Graph
  PROVE  /\ IsFiniteSet(components) /\ Cardinality(nodes) \in Nat /\ Cardinality(components) \in Nat
         /\ Cardinality(components) <= Cardinality(nodes)
  <1> DEFINE f == [n \in nodes |-> componentFor(n)]
  <1>1. f \in Surjection(nodes, components)
    BY DEF Surjection, components
  <1>2. IsFiniteSet(nodes)
    BY EdgeEnds
  <1> HIDE DEF f
  <1>3. IsFiniteSet(components) /\ Cardinality(components) <= Cardinality(nodes)
    BY <1>1, <1>2, FS_Surjection
  <1> QED
    BY <1>2, <1>3, FS_CardinalityType

(* The edges between components are those that no cycle has both ends of. *)
LEMMA CrossingIs ==
  ASSUME Graph, NEW e \in edges
  PROVE  /\ e.from \in nodes /\ e.to \in nodes
         /\ e \in crossing <=> componentFor(e.from) # componentFor(e.to)
  <1>1. e.from \in nodes /\ e.to \in nodes
    BY EdgeEnds
  <1>2. ASSUME sameCycle(e.from, e.to) PROVE componentFor(e.from) = componentFor(e.to)
    <2>1. PICK c \in cycles : e.from \in c /\ e.to \in c
      BY <1>2 DEF sameCycle
    <2>2. InCycle(e.from) /\ InCycle(e.to)
      BY <2>1 DEF InCycle
    <2> DEFINE d == componentFor(e.from)
    <2>3. d \in cycles /\ e.from \in d
      <3>1. d = CHOOSE x \in cycles : e.from \in x
        BY <2>2 DEF componentFor
      <3> HIDE DEF d
      <3> QED
        BY <2>1, <3>1
    <2> HIDE DEF d
    <2>4. e.to \in d
      <3>1. e.to \in Reached(edges, e.from) /\ e.from \in Reached(edges, e.to)
        BY <2>1, CycleNodes
      <3> QED
        BY <1>1, <2>3, <3>1, CycleNodes
    <2> QED
      BY <1>1, <2>4, ComponentIs DEF d
  <1>3. ASSUME componentFor(e.from) = componentFor(e.to), ~sameCycle(e.from, e.to) PROVE FALSE
    <2> DEFINE m == e.from
               n == e.to
    <2>1. m \in componentFor(m) /\ n \in componentFor(m)
      BY <1>1, <1>3, ComponentIs
    <2>2. ~InCycle(m)
      <3> SUFFICES ASSUME InCycle(m) PROVE FALSE
        OBVIOUS
      <3> DEFINE c == componentFor(m)
      <3>1. c = CHOOSE x \in cycles : m \in x
        BY DEF componentFor
      <3> HIDE DEF c
      <3>2. c \in cycles
        BY <3>1 DEF InCycle
      <3> QED
        BY <1>3, <2>1, <3>2 DEF sameCycle, c
    <2>3. m = n
      BY <2>1, <2>2 DEF componentFor
    <2> DEFINE K == {x \in nodes : x \in Reached(edges, m) /\ m \in Reached(edges, x)}
    <2>4. m \in K
      BY <1>1, ReachedAre, EndsClosed
    <2>5. K \in Components
      BY <1>1 DEF Components
    <2>6. K \in cycles
      <3> HIDE DEF K
      <3> QED
        BY <2>3, <2>4, <2>5 DEF Graph
    <2> QED
      BY <2>2, <2>4, <2>6 DEF InCycle
  <1> QED
    BY <1>1, <1>2, <1>3 DEF crossing

(* Paths between components. *)

LEMMA CrossingAppend ==
  ASSUME NEW p \in Seq(crossing), NEW e \in crossing
  PROVE  /\ IsCrossing(Append(p, e)) <=> IsCrossing(p) /\ e.from \in componentFor(End(p))
         /\ End(Append(p, e)) = e.to
  <1> DEFINE n == Len(p)
             q == Append(p, e)
             at(s, i) == componentFor(IF i = 1 THEN target ELSE s[i - 1].to)
  <1>1. n \in Nat /\ DOMAIN p = 1..n /\ q \in Seq(crossing) /\ q # <<>> /\ Len(q) = n + 1
    BY LenProperties, AppendProperties
  <1>2. DOMAIN q = 1..(n + 1) /\ q[n + 1] = e /\ \A i \in 1..n : q[i] = p[i]
    BY <1>1, LenProperties, AppendProperties
  <1>3. End(q) = e.to
    BY <1>1, FrontOfAppend DEF End
  <1> HIDE DEF q
  <1>4. at(q, n + 1) = componentFor(End(p))
    <2>1. CASE n = 0
      <3>1. p = <<>>
        BY <2>1
      <3> QED
        BY <2>1, <3>1 DEF End
    <2>2. CASE n # 0
      <3>1. p # <<>> /\ n \in 1..n /\ n + 1 # 1 /\ (n + 1) - 1 = n
        BY <1>1, <2>2
      <3>2. Last(p) = p[n]
        BY <3>1 DEF Last
      <3> QED
        BY <1>2, <3>1, <3>2 DEF End
    <2> QED
      BY <2>1, <2>2
  <1>5. \A i \in 1..n : q[i] = p[i] /\ at(q, i) = at(p, i)
    <2>1. \A i \in 1..n : i # 1 => i - 1 \in 1..n
      BY <1>1
    <2> QED
      BY <1>2, <2>1
  <1>6. IsCrossing(q) <=> \A i \in 1..(n + 1) : q[i].from \in at(q, i)
    BY <1>1, <1>2 DEF IsCrossing
  <1>7. IsCrossing(p) <=> \A i \in 1..n : p[i].from \in at(p, i)
    BY <1>1 DEF IsCrossing
  <1> HIDE DEF at
  <1>8. \A i \in 1..(n + 1) : i = n + 1 \/ i \in 1..n
    BY <1>1
  <1>9. 1..n \subseteq 1..(n + 1) /\ n + 1 \in 1..(n + 1)
    BY <1>1
  <1>10. (\A i \in 1..(n + 1) : q[i].from \in at(q, i))
           <=> (\A i \in 1..n : p[i].from \in at(p, i)) /\ e.from \in componentFor(End(p))
    BY <1>2, <1>4, <1>5, <1>8, <1>9
  <1> QED
    BY <1>3, <1>6, <1>7, <1>10 DEF q

LEMMA CrossingEmpty ==
  IsCrossing(<<>>) /\ End(<<>>) = target
  BY DEF IsCrossing, End

LEMMA CrossingWhole ==
  ASSUME Graph, NEW p \in Seq(crossing), p # <<>>
  PROVE  /\ Front(p) \in Seq(crossing) /\ Last(p) \in crossing /\ Last(p) \in edges
         /\ p = Append(Front(p), Last(p)) /\ Len(p) = Len(Front(p)) + 1 /\ Len(Front(p)) \in Nat
         /\ End(p) = Last(p).to
         /\ IsCrossing(p) => /\ IsCrossing(Front(p))
                             /\ componentFor(Last(p).from) = componentFor(End(Front(p)))
  <1> DEFINE f == Front(p)
             l == Last(p)
  <1>1. f \in Seq(crossing) /\ Len(f) = Len(p) - 1 /\ p = Append(f, l) /\ l \in crossing
    BY FrontIs
  <1>2. Len(p) \in Nat /\ Len(f) \in Nat
    BY <1>1
  <1> HIDE DEF f
  <1>3. l \in edges
    BY <1>1 DEF crossing
  <1>4. End(f) \in nodes
    <2>1. f \in Seq(edges)
      <3>1. crossing \subseteq edges
        BY DEF crossing
      <3> QED
        BY <1>1, <3>1, SeqMonotonic
    <2> QED
      BY <2>1, EndIsTip
  <1>5. IsCrossing(p) => IsCrossing(f) /\ l.from \in componentFor(End(f))
    BY <1>1, CrossingAppend
  <1>6. IsCrossing(p) => componentFor(l.from) = componentFor(End(f))
    BY <1>4, <1>5, ComponentIs
  <1>7. End(p) = l.to
    BY DEF End
  <1>8. Len(p) = Len(f) + 1
    BY <1>1, <1>2
  <1> QED
    BY <1>1, <1>2, <1>3, <1>5, <1>6, <1>7, <1>8 DEF f

LongestCrossing(k) == {p \in Seq(crossing) : IsCrossing(p) /\ Len(p) <= k}
LongerCrossing(p) == {Append(p, e) : e \in {f \in crossing : f.from \in componentFor(End(p))}}

LEMMA OneCrossingLonger ==
  ASSUME Graph, NEW k \in Nat
  PROVE  LongestCrossing(k + 1)
           = LongestCrossing(k) \cup UNION {LongerCrossing(p) : p \in LongestCrossing(k)}
  <1>1. ASSUME NEW q \in LongestCrossing(k + 1), Len(q) > k
        PROVE  \E p \in LongestCrossing(k) : q \in LongerCrossing(p)
    <2>1. q \in Seq(crossing) /\ IsCrossing(q) /\ Len(q) = k + 1 /\ q # <<>>
      BY <1>1, LenProperties, EmptySeq DEF LongestCrossing
    <2>2. PICK p \in Seq(crossing), e \in crossing : q = Append(p, e)
      BY <2>1, SequenceEmptyOrAppend
    <2>3. Len(p) = k
      BY <2>1, <2>2, LenProperties, AppendProperties
    <2>4. IsCrossing(p) /\ e.from \in componentFor(End(p))
      BY <2>1, <2>2, CrossingAppend
    <2>5. p \in LongestCrossing(k) /\ q \in LongerCrossing(p)
      BY <2>2, <2>3, <2>4 DEF LongestCrossing, LongerCrossing
    <2> QED
      BY <2>5
  <1>2. ASSUME NEW p \in LongestCrossing(k), NEW q \in LongerCrossing(p)
        PROVE  q \in LongestCrossing(k + 1)
    <2>1. PICK e \in crossing : q = Append(p, e) /\ e.from \in componentFor(End(p))
      BY DEF LongerCrossing
    <2>2. p \in Seq(crossing) /\ IsCrossing(p) /\ Len(p) <= k
      BY DEF LongestCrossing
    <2>3. q \in Seq(crossing) /\ Len(q) = Len(p) + 1 /\ Len(p) \in Nat /\ IsCrossing(q)
      BY <2>1, <2>2, CrossingAppend, AppendProperties, LenProperties
    <2> QED
      BY <2>2, <2>3 DEF LongestCrossing
  <1>3. LongestCrossing(k) \subseteq LongestCrossing(k + 1)
    BY LenProperties DEF LongestCrossing
  <1>4. ASSUME NEW q \in LongestCrossing(k + 1), ~(Len(q) > k) PROVE q \in LongestCrossing(k)
    BY <1>4, LenProperties DEF LongestCrossing
  <1> QED
    BY <1>1, <1>2, <1>3, <1>4

(* CrossingPaths, which adds an edge at a time, has the paths up to its length. *)
LEMMA CrossingPathsAre ==
  ASSUME Graph
  PROVE  CrossingPaths = LongestCrossing(Cardinality(nodes))
  <1> DEFINE C == Cardinality(nodes)
             longer(p) == {Append(p, e) : e \in {f \in crossing : f.from \in componentFor(End(p))}}
             Value(g, k) == IF k = 0 THEN {<<>>}
                            ELSE g[k - 1] \cup UNION {longer(p) : p \in g[k - 1]}
             Is(g) == g = [k \in 0..C |-> Value(g, k)]
             P == CHOOSE g : Is(g)
             f == [k \in 0..C |-> LongestCrossing(k)]
  <1>1. C \in Nat
    BY EdgeEnds, FS_CardinalityType
  <1>2. \A p : longer(p) = LongerCrossing(p)
    BY DEF LongerCrossing
  <1> HIDE DEF longer, C
  <1>3. LongestCrossing(0) = {<<>>}
    <2>1. \A p \in Seq(crossing) : Len(p) <= 0 => p = <<>>
      BY EmptySeq
    <2>2. <<>> \in Seq(crossing) /\ Len(<<>>) <= 0
      OBVIOUS
    <2> QED
      BY <2>1, <2>2, CrossingEmpty DEF LongestCrossing
  <1>4. ASSUME NEW k \in 0..C, k # 0 PROVE k - 1 \in 0..C /\ k - 1 \in Nat /\ (k - 1) + 1 = k
    BY <1>1, <1>4
  <1>5. ASSUME NEW k \in 0..C PROVE f[k] = Value(f, k)
    <2>1. f[k] = LongestCrossing(k)
      OBVIOUS
    <2>2. CASE k = 0
      BY <1>3, <2>1, <2>2
    <2>3. CASE k # 0
      <3>1. f[k - 1] = LongestCrossing(k - 1)
        BY <1>4, <2>3
      <3> HIDE DEF f
      <3>2. LongestCrossing((k - 1) + 1)
              = LongestCrossing(k - 1) \cup UNION {LongerCrossing(p) : p \in LongestCrossing(k - 1)}
        BY <1>4, <2>3, OneCrossingLonger
      <3>3. UNION {longer(p) : p \in f[k - 1]} = UNION {LongerCrossing(p) : p \in f[k - 1]}
        BY <1>2
      <3> QED
        BY <1>4, <2>1, <2>3, <3>1, <3>2, <3>3
    <2> QED
      BY <2>2, <2>3
  <1>6. Is(f)
    <2> HIDE DEF Value
    <2>1. [k \in 0..C |-> f[k]] = [k \in 0..C |-> Value(f, k)]
      BY <1>5
    <2>2. f = [k \in 0..C |-> f[k]]
      OBVIOUS
    <2> HIDE DEF f
    <2> QED
      BY <2>1, <2>2
  <1>7. Is(P)
    <2> HIDE DEF Is
    <2> QED
      BY <1>6
  <1>8. \A k \in 0..C : P[k] = Value(P, k)
    <2> HIDE DEF P, Value
    <2> QED
      BY <1>7
  <1> DEFINE K == {k \in Nat : k \in 0..C => P[k] = LongestCrossing(k)}
  <1>9. 0 \in K
    <2> HIDE DEF P
    <2> QED
      BY <1>1, <1>3, <1>8
  <1>10. ASSUME NEW k \in Nat, k \in K PROVE k + 1 \in K
    <2> DEFINE j == k + 1
    <2> HIDE DEF P
    <2> SUFFICES ASSUME j \in 0..C PROVE P[j] = LongestCrossing(j)
      OBVIOUS
    <2>1. k \in 0..C /\ j - 1 = k /\ j # 0
      BY <1>1
    <2>2. P[k] = LongestCrossing(k)
      BY <1>10, <2>1
    <2>3. LongestCrossing(j)
            = LongestCrossing(k) \cup UNION {LongerCrossing(p) : p \in LongestCrossing(k)}
      BY OneCrossingLonger
    <2> HIDE DEF j
    <2>4. P[j] = P[k] \cup UNION {longer(p) : p \in P[k]}
      BY <1>8, <2>1
    <2>5. UNION {longer(p) : p \in P[k]} = UNION {LongerCrossing(p) : p \in P[k]}
      BY <1>2
    <2> QED
      BY <2>2, <2>3, <2>4, <2>5
  <1>11. C \in K
    <2> HIDE DEF K
    <2> QED
      BY <1>1, <1>9, <1>10, SetInduction
  <1>12. CrossingPaths = P[C]
    BY Zenon DEF CrossingPaths, C, longer
  <1> HIDE DEF P
  <1>13. P[C] = LongestCrossing(C)
    BY <1>1, <1>11
  <1> QED
    BY <1>12, <1>13 DEF C

(* Each component is come to. *)
LEMMA CrossingReaches ==
  ASSUME Graph, NEW n \in nodes
  PROVE  \E p \in Seq(crossing) : IsCrossing(p) /\ componentFor(End(p)) = componentFor(n)
  <1> DEFINE Z == {m \in nodes :
                     \E p \in Seq(crossing) : IsCrossing(p) /\ componentFor(End(p)) = componentFor(m)}
  <1>1. target \in Z
    <2>1. <<>> \in Seq(crossing)
      OBVIOUS
    <2> QED
      BY <2>1, CrossingEmpty, EdgeEnds
  <1>2. ASSUME NEW e \in edges, e.from \in Z PROVE e.to \in Z
    <2>1. e.from \in nodes /\ e.to \in nodes /\ (e \in crossing <=> componentFor(e.from) # componentFor(e.to))
      BY CrossingIs
    <2>2. PICK p \in Seq(crossing) : IsCrossing(p) /\ componentFor(End(p)) = componentFor(e.from)
      BY <1>2
    <2>3. CASE e \in crossing
      <3>1. e.from \in componentFor(End(p))
        BY <2>1, <2>2, ComponentIs
      <3>2. IsCrossing(Append(p, e)) /\ End(Append(p, e)) = e.to /\ Append(p, e) \in Seq(crossing)
        BY <2>2, <2>3, <3>1, CrossingAppend, AppendProperties
      <3> QED
        BY <2>1, <3>2
    <2>4. CASE e \notin crossing
      BY <2>1, <2>2, <2>4
    <2> QED
      BY <2>3, <2>4
  <1>3. n \in Ends(target, edges)
    <2>1. Reached(edges, target) = nodes
      BY DEF Graph
    <2>2. target \in nodes
      BY EdgeEnds
    <2> QED
      BY <2>1, <2>2, ReachedAre
  <1>4. n \in Z
    <2> HIDE DEF Z
    <2> QED
      BY <1>1, <1>2, <1>3, EndsLeast
  <1> QED
    BY <1>4


(* Sums that stop at the largest number. *)

LEMMA CappedSum ==
  ASSUME NEW a \in Nat, NEW b \in Nat, NEW k \in Nat
  PROVE  /\ Saturated(Capped(a) + k * Capped(b)) = Capped(a + k * b)
         /\ Capped(a) \in Nat /\ Capped(a) <= MaxInt
  <1>1. MaxInt \in Nat /\ MaxInt >= 1
    BY MaxIntAssumption
  <1>2. Capped(a) \in Nat /\ Capped(a) <= MaxInt
    BY <1>1 DEF Capped
  <1>3. CASE b <= MaxInt
    <2>1. Capped(b) = b
      BY <1>3 DEF Capped
    <2> DEFINE z == k * b
    <2>2. z \in Nat
      OBVIOUS
    <2> HIDE DEF z
    <2>3. Saturated(Capped(a) + z) = Capped(a + z)
      BY <1>1, <2>2 DEF Capped, Saturated
    <2> QED
      BY <1>2, <2>1, <2>3 DEF z
  <1>4. CASE b > MaxInt /\ k = 0
    <2>1. k * b = 0 /\ k * Capped(b) = 0
      BY <1>1, <1>4 DEF Capped
    <2> QED
      BY <1>1, <1>2, <2>1 DEF Capped, Saturated
  <1>5. CASE b > MaxInt /\ k # 0
    <2>1. Capped(b) = MaxInt
      BY <1>1, <1>5 DEF Capped
    <2>2. PICK j \in Nat : k = j + 1
      <3>1. k - 1 \in Nat /\ k = (k - 1) + 1
        BY <1>5
      <3> QED
        BY <3>1
    <2>3. k * b = j * b + b /\ k * MaxInt = j * MaxInt + MaxInt
      BY <1>1, <2>2
    <2> DEFINE y == j * b
               z == j * MaxInt
    <2>4. y \in Nat /\ z \in Nat
      BY <1>1
    <2> HIDE DEF y, z
    <2>5. Saturated(Capped(a) + (z + MaxInt)) = MaxInt
      BY <1>1, <1>2, <2>4 DEF Saturated
    <2>6. Capped(a + (y + b)) = MaxInt
      BY <1>1, <1>5, <2>4 DEF Capped
    <2> QED
      BY <1>2, <2>1, <2>3, <2>5, <2>6 DEF y, z
  <1> QED
    BY <1>1, <1>3, <1>4, <1>5

LEMMA AppendTells ==
  ASSUME NEW X, NEW p \in Seq(X), NEW d \in X, NEW q \in Seq(X), NEW e \in X,
         Append(p, d) = Append(q, e)
  PROVE  p = q /\ d = e
  <1>1. Front(Append(p, d)) = p /\ Last(Append(p, d)) = d
    BY FrontOfAppend
  <1>2. Front(Append(q, e)) = q /\ Last(Append(q, e)) = e
    BY FrontOfAppend
  <1> QED
    BY <1>1, <1>2, Zenon

(* Each path of B taken on by each edge of E. *)
Lengthened(B, E) == {Append(r[1], r[2]) : r \in B \X E}

LEMMA LengthenedCount ==
  ASSUME NEW X, NEW B \in SUBSET Seq(X), NEW E \in SUBSET X,
         IsFiniteSet(B), IsFiniteSet(E)
  PROVE  /\ IsFiniteSet(Lengthened(B, E))
         /\ Cardinality(Lengthened(B, E)) = Cardinality(E) * Cardinality(B)
  <1> DEFINE P == B \X E
             J == Lengthened(B, E)
             f == [r \in P |-> Append(r[1], r[2])]
  <1>1. IsFiniteSet(P) /\ Cardinality(P) = Cardinality(B) * Cardinality(E)
    BY FS_Product
  <1>2. \A r \in P : r[1] \in Seq(X) /\ r[2] \in X /\ r = <<r[1], r[2]>>
    OBVIOUS
  <1>3. ASSUME NEW r \in P, NEW s \in P, f[r] = f[s] PROVE r = s
    <2>1. Append(r[1], r[2]) = Append(s[1], s[2])
      BY <1>3
    <2>2. r[1] \in Seq(X) /\ r[2] \in X /\ s[1] \in Seq(X) /\ s[2] \in X
      BY <1>2
    <2>3. r[1] = s[1] /\ r[2] = s[2]
      BY <2>1, <2>2, AppendTells
    <2> QED
      BY <1>2, <2>3, Zenon
  <1>4. f \in [P -> J] /\ \A q \in J : \E r \in P : f[r] = q
    BY DEF Lengthened
  <1>5. f \in Bijection(P, J)
    <2> HIDE DEF f, P, J
    <2> QED
      BY <1>3, <1>4 DEF Bijection, Injection, IsInjective, Surjection
  <1>6. ExistsBijection(P, J)
    BY <1>5 DEF ExistsBijection
  <1>7. IsFiniteSet(J) /\ Cardinality(J) = Cardinality(P)
    <2> HIDE DEF P, J
    <2> QED
      BY <1>1, <1>6, FS_Bijection
  <1>8. Cardinality(B) \in Nat /\ Cardinality(E) \in Nat
    BY FS_CardinalityType
  <1>9. Cardinality(B) * Cardinality(E) = Cardinality(E) * Cardinality(B)
    BY <1>8
  <1> QED
    BY <1>1, <1>7, <1>9

LEMMA DisjointCount ==
  ASSUME NEW A, NEW B, IsFiniteSet(A), IsFiniteSet(B), A \cap B = {}
  PROVE  IsFiniteSet(A \cup B) /\ Cardinality(A \cup B) = Cardinality(A) + Cardinality(B)
  <1>1. IsFiniteSet(A \cup B)
        /\ Cardinality(A \cup B) = Cardinality(A) + Cardinality(B) - Cardinality(A \cap B)
    BY FS_Union
  <1>2. Cardinality(A \cap B) = 0
    BY FS_EmptySet
  <1>3. Cardinality(A) \in Nat /\ Cardinality(B) \in Nat
    BY FS_CardinalityType
  <1> QED
    BY <1>1, <1>2, <1>3

(* The components and the connections between them stay. *)
LEMMA ComponentsStay ==
  ASSUME UNCHANGED graph
  PROVE  /\ \A n : componentFor(n)' = componentFor(n)
         /\ components' = components /\ crossing' = crossing
         /\ \A c, d : Crossing(c, d)' = Crossing(c, d)
         /\ \A p : IsCrossing(p)' <=> IsCrossing(p)
         /\ \A p : End(p)' = End(p)
  <1>1. /\ target' = target /\ nodes' = nodes /\ edges' = edges /\ cycles' = cycles
        /\ \A p : End(p)' = End(p)
    BY GraphStays
  <1>2. \A n : componentFor(n)' = componentFor(n)
    BY <1>1 DEF componentFor, InCycle
  <1>3. components' = components
    BY <1>1, <1>2 DEF components
  <1>4. crossing' = crossing
    BY <1>1 DEF crossing, sameCycle
  <1>5. \A c, d : Crossing(c, d)' = Crossing(c, d)
    BY <1>1 DEF Crossing
  <1>6. \A p : IsCrossing(p)' <=> IsCrossing(p)
    BY <1>1, <1>2, <1>4 DEF IsCrossing
  <1> QED
    BY <1>1, <1>2, <1>3, <1>4, <1>5, <1>6

LEMMA ArrivalsStay ==
  ASSUME UNCHANGED <<graph, counted>>
  PROVE  \A c : Arrivals(c)' = Arrivals(c)
  BY ComponentsStay DEF Arrivals

(* When all that leads to c is counted, every path to c has come. *)
LEMMA ArrivedAre ==
  ASSUME Graph, NEW c \in components,
         \A d \in components \ (counted \cup {c}) : Crossing(d, c) = {}
  PROVE  Arrivals(c) = {p \in Seq(crossing) : IsCrossing(p) /\ componentFor(End(p)) = c}
  <1> SUFFICES ASSUME NEW p \in Seq(crossing), IsCrossing(p), componentFor(End(p)) = c, p # <<>>
               PROVE  componentFor(Last(p).from) \in counted
    BY Zenon DEF Arrivals
  <1> DEFINE e == Last(p)
             d == componentFor(e.from)
  <1>1. e \in crossing /\ e \in edges /\ componentFor(e.to) = c
    BY CrossingWhole
  <1>2. e.from \in nodes /\ e.to \in nodes /\ d # componentFor(e.to)
    BY <1>1, CrossingIs
  <1>3. d \in components /\ e.from \in d /\ e.to \in c
    BY <1>1, <1>2, ComponentIs
  <1> HIDE DEF d
  <1>4. e \in Crossing(d, c)
    BY <1>1, <1>3 DEF Crossing
  <1> QED
    BY <1>1, <1>2, <1>3, <1>4 DEF d

(* Where c is counted, the paths to c go on to the components after it. *)
LEMMA ArrivalsGrow ==
  ASSUME Graph, NEW c \in components, c \notin counted,
         \A d \in components \ (counted \cup {c}) : Crossing(d, c) = {},
         counted' = counted \cup {c}, UNCHANGED graph
  PROVE  /\ Arrivals(c)' = Arrivals(c)
         /\ \A d \in components : d # c =>
              /\ Arrivals(d)' = Arrivals(d) \cup Lengthened(Arrivals(c), Crossing(c, d))
              /\ Arrivals(d) \cap Lengthened(Arrivals(c), Crossing(c, d)) = {}
  <1>1. Arrivals(c) = {p \in Seq(crossing) : IsCrossing(p) /\ componentFor(End(p)) = c}
    BY ArrivedAre
  <1>2. \A d : Arrivals(d)' = {p \in Seq(crossing) :
                                 /\ IsCrossing(p)
                                 /\ componentFor(End(p)) = d
                                 /\ p = <<>> \/ componentFor(Last(p).from) \in counted \cup {c}}
    BY ComponentsStay DEF Arrivals
  <1>3. Arrivals(c)' = Arrivals(c)
    BY <1>1, <1>2 DEF Arrivals
  <1> SUFFICES ASSUME NEW d \in components, d # c
               PROVE  /\ Arrivals(d)' = Arrivals(d) \cup Lengthened(Arrivals(c), Crossing(c, d))
                      /\ Arrivals(d) \cap Lengthened(Arrivals(c), Crossing(c, d)) = {}
    BY <1>3
  <1> DEFINE comes(p) == p \in Seq(crossing) /\ IsCrossing(p) /\ componentFor(End(p)) = d
  <1>7. \A p : p \in Arrivals(d)' <=>
                 comes(p) /\ (p = <<>> \/ componentFor(Last(p).from) \in counted \/ componentFor(Last(p).from) = c)
    BY <1>2
  <1>8. \A p : p \in Arrivals(d) <=> comes(p) /\ (p = <<>> \/ componentFor(Last(p).from) \in counted)
    BY DEF Arrivals
  <1>4. ASSUME NEW p \in Arrivals(d)', p \notin Arrivals(d)
        PROVE  p \in Lengthened(Arrivals(c), Crossing(c, d))
    <2> DEFINE e == Last(p)
               q == Front(p)
    <2>1. /\ p \in Seq(crossing) /\ IsCrossing(p) /\ componentFor(End(p)) = d /\ p # <<>>
          /\ componentFor(e.from) = c
      BY <1>4, <1>7, <1>8
    <2>2. /\ q \in Seq(crossing) /\ e \in edges /\ p = Append(q, e) /\ componentFor(e.to) = d
          /\ IsCrossing(q) /\ componentFor(End(q)) = c
      BY <2>1, CrossingWhole
    <2>3. e.from \in nodes /\ e.to \in nodes
      BY <2>2, CrossingIs
    <2>4. e.from \in c /\ e.to \in d
      BY <2>1, <2>2, <2>3, ComponentIs
    <2>5. q \in Arrivals(c) /\ e \in Crossing(c, d)
      BY <1>1, <2>2, <2>4 DEF Crossing
    <2> DEFINE r == <<q, e>>
    <2>6. r \in Arrivals(c) \X Crossing(c, d) /\ r[1] = q /\ r[2] = e
      BY <2>5
    <2> HIDE DEF r, q, e
    <2> QED
      BY <2>2, <2>6 DEF Lengthened
  <1>5. ASSUME NEW p \in Lengthened(Arrivals(c), Crossing(c, d))
        PROVE  p \in Arrivals(d)' /\ p \notin Arrivals(d)
    <2>1. PICK q \in Arrivals(c), e \in Crossing(c, d) : p = Append(q, e)
      BY DEF Lengthened
    <2>2. e \in edges /\ e.from \in c /\ e.to \in d
      BY DEF Crossing
    <2>3. componentFor(e.from) = c /\ componentFor(e.to) = d
      BY <2>2, NodesOfComponent
    <2>4. e \in crossing
      BY <2>2, <2>3, CrossingIs
    <2>5. q \in Seq(crossing) /\ IsCrossing(q) /\ componentFor(End(q)) = c
      BY <1>1
    <2>6. IsCrossing(p) /\ End(p) = e.to
      BY <2>1, <2>2, <2>4, <2>5, CrossingAppend
    <2>7. p \in Seq(crossing) /\ p # <<>> /\ Last(p) = e
      BY <2>1, <2>4, <2>5, FrontOfAppend
    <2> QED
      BY <1>7, <1>8, <2>3, <2>6, <2>7
  <1>6. Arrivals(d) \subseteq Arrivals(d)'
    BY <1>7, <1>8
  <1> QED
    BY <1>4, <1>5, <1>6

(* No arrival has more edges than components are counted. *)
LEMMA LengthenedLengths ==
  ASSUME NEW X, NEW B \in SUBSET Seq(X), NEW E \in SUBSET X, NEW k \in Nat,
         \A q \in B : Len(q) <= k
  PROVE  \A p \in Lengthened(B, E) : Len(p) <= k + 1
  <1> SUFFICES ASSUME NEW q \in B, NEW e \in E PROVE Len(Append(q, e)) <= k + 1
    BY DEF Lengthened
  <1>1. q \in Seq(X) /\ e \in X /\ Len(q) \in Nat /\ Len(q) <= k
    OBVIOUS
  <1>2. Len(Append(q, e)) = Len(q) + 1
    BY <1>1, FrontOfAppend
  <1> QED
    BY <1>1, <1>2

LEMMA CountsBegin ==
  ASSUME Init
  PROVE  CountsSum
  <1>1. /\ Graph /\ pc = "all" /\ counted = {}
        /\ pathCount = [c \in components |-> IF target \in c THEN 1 ELSE 0]
    BY DEF Init
  <1>2. target \in nodes
    BY <1>1, EdgeEnds
  <1>3. ASSUME NEW c \in components
        PROVE  /\ IsFiniteSet(Arrivals(c)) /\ pathCount[c] = Capped(Cardinality(Arrivals(c)))
               /\ \A p \in Arrivals(c) : Len(p) <= Cardinality(counted)
    <2> DEFINE A == Arrivals(c)
    <2>1. \A p : p \in A <=> p = <<>> /\ componentFor(target) = c
      <3>1. <<>> \in Seq(crossing) /\ IsCrossing(<<>>) /\ End(<<>>) = target
        BY CrossingEmpty
      <3>2. \A p : p \in A => p = <<>> /\ componentFor(End(p)) = c
        BY <1>1 DEF Arrivals
      <3>3. componentFor(target) = c => <<>> \in A
        BY <3>1 DEF Arrivals
      <3> HIDE DEF A
      <3> QED
        BY <3>1, <3>2, <3>3
    <2>2. Cardinality(counted) = 0
      BY <1>1, FS_EmptySet
    <2>3. Len(<<>>) = 0
      OBVIOUS
    <2>4. target \in c <=> componentFor(target) = c
      BY <1>1, <1>2, NodesOfComponent, ComponentIs
    <2> HIDE DEF A
    <2>5. CASE componentFor(target) = c
      <3>1. A = {<<>>}
        BY <2>1, <2>5
      <3>2. IsFiniteSet(A) /\ Cardinality(A) = 1
        BY <3>1, FS_Singleton
      <3>3. pathCount[c] = 1
        BY <1>1, <2>4, <2>5
      <3>4. Capped(1) = 1
        BY MaxIntAssumption DEF Capped
      <3> QED
        BY <2>1, <2>2, <2>3, <3>2, <3>3, <3>4 DEF A
    <2>6. CASE componentFor(target) # c
      <3>1. A = {}
        BY <2>1, <2>6
      <3>2. IsFiniteSet(A) /\ Cardinality(A) = 0
        BY <3>1, FS_EmptySet
      <3>3. pathCount[c] = 0
        BY <1>1, <2>4, <2>6
      <3>4. Capped(0) = 0
        BY MaxIntAssumption DEF Capped
      <3> QED
        BY <3>1, <3>2, <3>3, <3>4 DEF A
    <2> QED
      BY <2>5, <2>6
  <1> QED
    BY <1>1, <1>3 DEF CountsSum, Searches

LEMMA CountsStay ==
  ASSUME CountsSum, pc # "failed", pc # "done", UNCHANGED <<graph, counting>>,
         pc' \in Searches \cup {"cycles", "counts", "done"},
         pc' = "done" => counted = components
  PROVE  CountsSum'
  <1>1. counted' = counted /\ pathCount' = pathCount
    BY DEF counting
  <1>2. components' = components /\ (\A c, d : Crossing(c, d)' = Crossing(c, d))
    BY ComponentsStay
  <1>3. \A c : Arrivals(c)' = Arrivals(c)
    BY <1>1, ArrivalsStay
  <1>4. Graph'
    BY GraphStays DEF CountsSum
  <1> QED
    BY <1>1, <1>2, <1>3, <1>4 DEF CountsSum, Capped

(* Counting a component adds, for each edge that leads on, the paths that came to it. *)
LEMMA CountComponentKeeps ==
  ASSUME CountsSum, CountComponent
  PROVE  CountsSum'
  <1> DEFINE Ready(c) == \A d \in components \ (counted \cup {c}) : Crossing(d, c) = {}
             Sums(c) == [d \in components |->
                           IF d = c THEN pathCount[d]
                           ELSE Saturated(pathCount[d] + Cardinality(Crossing(c, d)) * pathCount[c])]
  <1>1. PICK c \in components : /\ c \notin counted /\ Ready(c)
                                /\ counted' = counted \cup {c} /\ pathCount' = Sums(c)
    BY DEF CountComponent
  <1>2. pc = "counts" /\ pc' = pc /\ UNCHANGED graph
    BY DEF CountComponent
  <1>3. /\ Graph /\ counted \subseteq components /\ DOMAIN pathCount = components
        /\ \A b \in counted : \A d \in components \ counted : Crossing(d, b) = {}
        /\ \A d \in components :
             /\ IsFiniteSet(Arrivals(d))
             /\ pathCount[d] = Capped(Cardinality(Arrivals(d)))
             /\ \A p \in Arrivals(d) : Len(p) <= Cardinality(counted)
    BY <1>2 DEF CountsSum
  <1>4. /\ Cardinality(counted) \in Nat
        /\ Cardinality(counted \cup {c}) = Cardinality(counted) + 1
    <2>1. IsFiniteSet(counted)
      BY <1>3, FewComponents, FS_Subset
    <2> QED
      BY <1>1, <2>1, FS_AddElement, FS_CardinalityType
  <1>5. /\ components' = components /\ (\A b, d : Crossing(b, d)' = Crossing(b, d)) /\ Graph'
    BY <1>2, <1>3, ComponentsStay, GraphStays
  <1>6. /\ Arrivals(c)' = Arrivals(c)
        /\ \A d \in components : d # c =>
              /\ Arrivals(d)' = Arrivals(d) \cup Lengthened(Arrivals(c), Crossing(c, d))
              /\ Arrivals(d) \cap Lengthened(Arrivals(c), Crossing(c, d)) = {}
    BY <1>1, <1>2, <1>3, ArrivalsGrow
  <1>7. ASSUME NEW d \in components
        PROVE  /\ IsFiniteSet(Arrivals(d)')
               /\ pathCount'[d] = Capped(Cardinality(Arrivals(d)'))
               /\ \A p \in Arrivals(d)' : Len(p) <= Cardinality(counted) + 1
    <2>1. CASE d = c
      <3>1. pathCount'[d] = pathCount[d]
        BY <1>1, <2>1
      <3>2. \A p \in Arrivals(c) : Len(p) <= Cardinality(counted) + 1
        <4>1. \A p \in Arrivals(c) : Len(p) \in Nat
          BY DEF Arrivals
        <4> QED
          BY <1>3, <1>4, <4>1
      <3> QED
        BY <1>3, <1>6, <2>1, <3>1, <3>2
    <2>2. CASE d # c
      <3> DEFINE A == Arrivals(d)
                 B == Arrivals(c)
                 E == Crossing(c, d)
                 J == Lengthened(B, E)
      <3>1. A \in SUBSET Seq(edges) /\ B \in SUBSET Seq(edges)
        <4>1. A \subseteq Seq(crossing) /\ B \subseteq Seq(crossing)
          BY DEF Arrivals
        <4>2. crossing \subseteq edges
          BY DEF crossing
        <4>3. Seq(crossing) \subseteq Seq(edges)
          BY <4>2, SeqMonotonic
        <4> QED
          BY <4>1, <4>3
      <3>2. E \in SUBSET edges /\ IsFiniteSet(E)
        <4>1. E \in SUBSET edges
          BY DEF Crossing
        <4> QED
          BY <1>3, <4>1, EdgesFinite, FS_Subset
      <3>3. /\ IsFiniteSet(A) /\ IsFiniteSet(B)
            /\ pathCount[d] = Capped(Cardinality(A)) /\ pathCount[c] = Capped(Cardinality(B))
            /\ \A p \in A : Len(p) <= Cardinality(counted)
            /\ \A p \in B : Len(p) <= Cardinality(counted)
        BY <1>3
      <3>4. Arrivals(d)' = A \cup J /\ A \cap J = {}
        BY <1>6, <2>2
      <3>5. pathCount'[d] = Saturated(pathCount[d] + Cardinality(E) * pathCount[c])
        BY <1>1, <2>2
      <3> HIDE DEF A, B, E
      <3>6. IsFiniteSet(J) /\ Cardinality(J) = Cardinality(E) * Cardinality(B)
        BY <3>1, <3>2, <3>3, LengthenedCount
      <3>7. \A p \in J : Len(p) <= Cardinality(counted) + 1
        BY <1>4, <3>1, <3>2, <3>3, LengthenedLengths
      <3>8. \A p \in A : Len(p) <= Cardinality(counted) + 1
        <4>1. \A p \in A : Len(p) \in Nat
          BY <3>1
        <4> QED
          BY <1>4, <3>3, <4>1
      <3> HIDE DEF J
      <3>9. IsFiniteSet(A \cup J) /\ Cardinality(A \cup J) = Cardinality(A) + Cardinality(J)
        BY <3>3, <3>4, <3>6, DisjointCount
      <3>10. Cardinality(A) \in Nat /\ Cardinality(B) \in Nat /\ Cardinality(E) \in Nat
        BY <3>2, <3>3, FS_CardinalityType
      <3>11. pathCount'[d] = Capped(Cardinality(A) + Cardinality(E) * Cardinality(B))
        BY <3>3, <3>5, <3>10, CappedSum
      <3> QED
        BY <3>4, <3>6, <3>7, <3>8, <3>9, <3>11
    <2> QED
      BY <2>1, <2>2
  <1>8. \A b \in counted \cup {c} : \A d \in components \ (counted \cup {c}) : Crossing(d, b) = {}
    BY <1>1, <1>3
  <1>9. DOMAIN pathCount' = components /\ counted' \subseteq components
    BY <1>1, <1>3
  <1> HIDE DEF Ready, Sums
  <1>10. pc' # "done" /\ pc' \in Searches \cup {"cycles", "counts", "done", "failed"}
    BY <1>2
  <1> QED
    BY <1>1, <1>4, <1>5, <1>7, <1>8, <1>9, <1>10 DEF CountsSum, Capped

LEMMA CountsStep ==
  ASSUME CountsSum, [Next]_vars
  PROVE  CountsSum'
  <1>1. Graph /\ pc \in Searches \cup {"cycles", "counts", "done", "failed"}
    BY DEF CountsSum
  <1>2. CASE Pop
    <2>1. pc \in Searches /\ pc' = pc /\ UNCHANGED <<graph, counting>>
      BY <1>2 DEF Pop
    <2> QED
      BY <2>1, CountsStay DEF Searches
  <1>3. CASE SearchDone
    <2>1. pc \in Searches /\ pc' \in {"confirmed", "limitFree", "cycles"} /\ UNCHANGED <<graph, counting>>
      BY <1>3 DEF SearchDone
    <2> QED
      BY <2>1, CountsStay DEF Searches
  <1>4. CASE LengthenRoute
    <2>1. pc = "cycles" /\ pc' = pc /\ UNCHANGED <<graph, counting>>
      BY <1>4 DEF LengthenRoute
    <2> QED
      BY <2>1, CountsStay
  <1>5. CASE CyclesDone
    <2>1. pc = "cycles" /\ pc' = "counts" /\ UNCHANGED <<graph, counting>>
      BY <1>5 DEF CyclesDone
    <2> QED
      BY <2>1, CountsStay
  <1>6. CASE CountComponent
    BY <1>6, CountComponentKeeps
  <1>7. CASE FindUncovered
    <2>1. pc = "counts" /\ pc' = "done" /\ counted = components /\ UNCHANGED <<graph, counting>>
      BY <1>7 DEF FindUncovered
    <2> QED
      BY <2>1, CountsStay
  <1>8. CASE Fail
    <2>1. pc' = "failed" /\ UNCHANGED graph
      BY <1>8 DEF Fail
    <2>2. Graph'
      BY <1>1, <2>1, GraphStays
    <2> QED
      BY <2>1, <2>2 DEF CountsSum
  <1>9. CASE UNCHANGED vars
    <2>1. pc' = pc /\ UNCHANGED <<graph, counting>>
      BY <1>9 DEF vars
    <2>2. CASE pc = "failed"
      BY <1>1, <2>1, <2>2, GraphStays DEF CountsSum
    <2>3. CASE pc # "failed"
      <3>1. counted' = counted /\ pathCount' = pathCount
        BY <2>1 DEF counting
      <3>2. components' = components /\ (\A c, d : Crossing(c, d)' = Crossing(c, d)) /\ Graph'
        BY <1>1, <2>1, ComponentsStay, GraphStays
      <3>3. \A c : Arrivals(c)' = Arrivals(c)
        BY <2>1, <3>1, ArrivalsStay
      <3> QED
        BY <2>1, <2>3, <3>1, <3>2, <3>3 DEF CountsSum, Capped
    <2> QED
      BY <2>2, <2>3
  <1> QED
    BY <1>2, <1>3, <1>4, <1>5, <1>6, <1>7, <1>8, <1>9 DEF Next

(* When all components are counted, the paths that were summed are those that
   CrossingPaths enumerates, of which one at least comes to each component. *)
LEMMA SumsAreCounts ==
  ASSUME CountsSum
  PROVE  AlternativesCounted
  <1> SUFFICES ASSUME pc = "done", NEW n \in nodes
               PROVE  LET count == Cardinality({p \in CrossingPaths : componentFor(End(p)) = componentFor(n)})
                      IN  alternatePathCounts(n) = Min({count, MaxInt}) - 1
    BY DEF AlternativesCounted
  <1> DEFINE c == componentFor(n)
             S == {p \in CrossingPaths : componentFor(End(p)) = c}
             count == Cardinality(S)
  <1>1. /\ Graph /\ counted = components
        /\ \A d \in counted : \A b \in components \ counted : Crossing(b, d) = {}
        /\ \A d \in components :
             /\ IsFiniteSet(Arrivals(d))
             /\ pathCount[d] = Capped(Cardinality(Arrivals(d)))
             /\ \A p \in Arrivals(d) : Len(p) <= Cardinality(counted)
    BY DEF CountsSum
  <1>2. c \in components
    BY <1>1, ComponentIs
  <1>3. Arrivals(c) = {p \in Seq(crossing) : IsCrossing(p) /\ componentFor(End(p)) = c}
    <2> HIDE DEF c
    <2>1. components \ (counted \cup {c}) = {}
      BY <1>1
    <2> QED
      BY <1>1, <1>2, <2>1, ArrivedAre
  <1>4. S = {p \in Seq(crossing) : /\ IsCrossing(p) /\ Len(p) <= Cardinality(nodes)
                                   /\ componentFor(End(p)) = c}
    BY <1>1, CrossingPathsAre DEF LongestCrossing
  <1>5. \A p \in Arrivals(c) : Len(p) <= Cardinality(nodes)
    <2>1. \A p \in Arrivals(c) : Len(p) \in Nat /\ Len(p) <= Cardinality(components)
      <3>1. \A p \in Arrivals(c) : Len(p) \in Nat
        BY DEF Arrivals
      <3> QED
        BY <1>1, <1>2, <3>1
    <2>2. /\ Cardinality(nodes) \in Nat /\ Cardinality(components) \in Nat
          /\ Cardinality(components) <= Cardinality(nodes)
      BY <1>1, FewComponents
    <2> QED
      BY <2>1, <2>2
  <1>6. Arrivals(c) = S
    BY <1>3, <1>4, <1>5
  <1>7. S # {}
    BY <1>1, <1>3, <1>6, CrossingReaches
  <1>8. IsFiniteSet(S) /\ pathCount[c] = Capped(count)
    BY <1>1, <1>2, <1>6
  <1> HIDE DEF S, c
  <1>9. count \in Nat /\ count # 0
    BY <1>7, <1>8, FS_CardinalityType, FS_EmptySet
  <1>10. MaxInt \in Nat /\ MaxInt >= 1
    BY MaxIntAssumption
  <1> HIDE DEF count
  <1>11. Min({count, MaxInt}) = Capped(count)
    <2> DEFINE T == {count, MaxInt}
    <2>1. T \in SUBSET Nat /\ T # {} /\ count \in T /\ MaxInt \in T
      BY <1>9, <1>10
    <2>2. Min(T) \in T /\ Min(T) <= count /\ Min(T) <= MaxInt
      BY <2>1, MinIsLeast
    <2> DEFINE m == Min(T)
    <2>3. m = count \/ m = MaxInt
      BY <2>2
    <2>4. m <= count /\ m <= MaxInt
      BY <2>2
    <2> HIDE DEF m
    <2>5. m = Capped(count)
      BY <1>9, <1>10, <2>3, <2>4 DEF Capped
    <2> QED
      BY <2>5 DEF m, T
  <1>12. Capped(count) > 0
    BY <1>9, <1>10 DEF Capped
  <1>13. alternatePathCounts(n) = Capped(count) - 1
    BY <1>8, <1>12 DEF alternatePathCounts, c
  <1> QED
    BY <1>11, <1>13 DEF count, S, c

(* Whatever order the components are taken in, what stands at each is the number of
   paths that have come to it from those taken, kept at the largest number: each path
   is counted once, when the component it comes from is taken. *)
THEOREM CountsAdd == Spec => []CountsSum
  <1>1. Init => CountsSum
    BY CountsBegin
  <1>2. CountsSum /\ [Next]_vars => CountsSum'
    BY CountsStep
  <1> QED
    BY <1>1, <1>2, PTL DEF Spec

(* "The number of paths from the target in the acyclic graph that has one place per
   strongly connected component, less the representative one ... the upper limit is
   kept where the number exceeds it" (dependency-analysis.md:194):
   countAlternatePaths returns that number for every node. *)
THEOREM AlternativesAreCounted == Spec => []AlternativesCounted
  <1>1. CountsSum => AlternativesCounted
    BY SumsAreCounts
  <1> QED
    BY <1>1, CountsAdd, PTL
===============================================================================
