---------------------------- MODULE SnapshotProofs ----------------------------
(***************************************************************************)
(* What Validate accepts, Load stores: for all files, all numbers that     *)
(* limit them and however many lines there are.  The invariant follows the *)
(* phases: what nodeByID, limitIDs and seen hold of the lines read so far  *)
(* (NodesGathered, NoDuplicateMissed, RelationsGathered), which references *)
(* are checked, and that the settled part of the hierarchy is grounded.    *)
(* The rows of limit_fact are a concatenation over all lines; its lemmas   *)
(* are proved by induction over the lines, in the form SetInduction.  A    *)
(* further theorem begins with the upload: until its archive is extracted  *)
(* nothing is gathered (Fresh).                                            *)
(*                                                                         *)
(* Of the archive itself: what is extracted is whole, and what is reported *)
(* is the first of all faults.  The reader's state says how far the scan   *)
(* of an entry is (Scanned, SoFarSound), a fault is at a unit, and every   *)
(* fault of an upload is at or behind the unit that is read next           *)
(* (FaultsFrom, LineFaultsBehind, EndFaultsBehind).                        *)
(*                                                                         *)
(* The sizes that Validate returns are right: its visits, numbers and      *)
(* links are Tarjan's algorithm (TarjanIInv), on a graph whose components  *)
(* are those of the graph that the search expands (SameComponents), and a  *)
(* settled node's depth is its parent's and its own (DepthsSettled).       *)
(*                                                                         *)
(* And what is rejected is rejected for the first fault: the phases before *)
(* have none, nor have the lines before (FirstFollows); of the circles of  *)
(* parents the chain meets that of the first line first (ChainBegins).     *)
(***************************************************************************)
EXTENDS Snapshot, FiniteSetTheorems, SequenceTheorems, WellFoundedInduction, TLAPS

Gathering == {"manifest", "nodes", "references", "hierarchy", "relations", "components", "accepted", "loaded"}
NodesKnown == Gathering \ {"manifest", "nodes"}
ReferencesKnown == NodesKnown \ {"references"}
HierarchyKnown == ReferencesKnown \ {"hierarchy"}
RelationsKnown == HierarchyKnown \ {"relations"}
Pcs == Gathering \cup {"rejected", "failed"}

(* The lines that are read. *)
ReadLines ==
  IF pc = "nodes" THEN 1..line ELSE IF pc \in NodesKnown THEN DOMAIN nodeLines ELSE {}
ReadRelations ==
  IF pc = "relations" THEN 1..line ELSE IF pc \in RelationsKnown THEN DOMAIN relationLines ELSE {}

Typed ==
  /\ nodeLines \in Seq(NodeLines)
  /\ relationLines \in Seq(RelationLines)
  /\ pc \in Pcs
  /\ line \in Nat
  /\ pc = "nodes" => line <= Len(nodeLines)
  /\ pc = "relations" => line <= Len(relationLines)

(* A node is known by one of its lines, and the line is in order. *)
OfLine(node, i) ==
  /\ node.type = nodeLines[i].type
  /\ node.parent = nodeLines[i].parent
  /\ node.namespace = effectiveNodeNamespace(nodeLines[i])

NodesGathered ==
  pc \in Gathering =>
    /\ DOMAIN nodeByID = {nodeLines[i].id : i \in ReadLines}
    /\ orderedNodeIDs \in Seq(Node)
    /\ ToSet(orderedNodeIDs) = DOMAIN nodeByID
    /\ \A id \in DOMAIN nodeByID : \E i \in ReadLines : nodeLines[i].id = id /\ OfLine(nodeByID[id], i)
    /\ \A i \in ReadLines : LineProblem(nodeLines[i]) = None

(* As long as no duplicate is noted, no line repeats a node or a limit. *)
LinesDiffer(R) == \A i, j \in R : nodeLines[i].id = nodeLines[j].id => i = j
LimitsDiffer(R) ==
  /\ \A i \in R : IsInjective(nodeLines[i].limits)
  /\ \A i, j \in R : i # j => ToSet(nodeLines[i].limits) \cap ToSet(nodeLines[j].limits) = {}

NoDuplicateMissed ==
  pc \in Gathering /\ duplicateErr = None =>
    /\ LinesDiffer(ReadLines)
    /\ limitIDs = UNION {ToSet(nodeLines[i].limits) : i \in ReadLines}
    /\ LimitsDiffer(ReadLines)

CountsAgree ==
  /\ pc \in NodesKnown => manifest.nodeCount = Len(nodeLines)
  /\ pc \in RelationsKnown => manifest.relationCount = Len(relationLines)

ReferencesChecked ==
  /\ pc = "manifest" => duplicateErr = None
  /\ pc = "references" =>
       /\ line <= Len(orderedNodeIDs)
       /\ \A k \in 1..line : ParentProblem(nodeByID[orderedNodeIDs[k]]) = None
  /\ pc \in ReferencesKnown =>
       /\ duplicateErr = None
       /\ \A id \in DOMAIN nodeByID : ParentProblem(nodeByID[id]) = None

(* No set of settled nodes has the parents of all its members: from each of them
   the way up ends.  The chain that is followed leads from one node to the next. *)
Grounded(T) == \A S \in SUBSET T : S # {} => \E n \in S : nodeByID[n].parent \notin S

ChainsSettled ==
  /\ pc \in {"manifest", "nodes", "references"} => settled = {} /\ path = <<>> /\ current = None
  /\ pc \in ReferencesKnown =>
       /\ settled \subseteq DOMAIN nodeByID
       /\ \A id \in settled : nodeByID[id].parent \in settled \cup {None}
       /\ Grounded(settled)
       /\ path \in Seq(DOMAIN nodeByID)
       /\ current \in DOMAIN nodeByID \cup {None}
       /\ \A i \in DOMAIN path :
            nodeByID[path[i]].parent = IF i = Len(path) THEN current ELSE path[i + 1]
  /\ pc \in HierarchyKnown => settled = DOMAIN nodeByID

RelationsGathered ==
  pc \in Gathering =>
    /\ seen = {relationID(relationLines[i]) : i \in ReadRelations}
    /\ \A i, j \in ReadRelations : relationID(relationLines[i]) = relationID(relationLines[j]) => i = j
    /\ \A i \in ReadRelations : {relationLines[i].from, relationLines[i].to} \subseteq DOMAIN nodeByID

IInv ==
  /\ Typed
  /\ NodesGathered
  /\ NoDuplicateMissed
  /\ CountsAgree
  /\ ReferencesChecked
  /\ ChainsSettled
  /\ RelationsGathered
  /\ pc = "loaded" => tables = Rows

(* Before Validate begins nothing is gathered. *)
Fresh ==
  /\ nodeLines \in Seq(NodeLines)
  /\ relationLines \in Seq(RelationLines)
  /\ line = 0
  /\ <<nodeByID, orderedNodeIDs, limitIDs, duplicateErr>> = << <<>>, <<>>, {}, None >>
  /\ <<path, current, depthByID, seen>> = << <<>>, None, <<>>, {} >>

(* The archive is read before, and what cannot be read is not validated. *)
ReadingPcs == {"receive", "open", "header", "entry", "padding", "unreadable"}
SnapshotIInv == IInv \/ (pc \in ReadingPcs /\ Fresh)

USE DEF files, gathered, hierarchy, graph, tarjan

--------------------------------------------------------------------------------
(* Natural numbers and sequences. *)

(* Induction, with the property as a set. *)
LEMMA SetInduction ==
  ASSUME NEW S, 0 \in S, \A n \in Nat : n \in S => n + 1 \in S
  PROVE  Nat \subseteq S
  <1> DEFINE R == OpToRel(<, Nat)
             T == Nat \ S
  <1> SUFFICES ASSUME T # {} PROVE FALSE
    OBVIOUS
  <1>1. IsWellFoundedOn(R, Nat)
    BY NatLessThanWellFounded
  <1>2. PICK m \in T : \A k \in T : <<k, m>> \notin R
    <2>1. T \subseteq Nat
      OBVIOUS
    <2> HIDE DEF T, R
    <2> QED
      BY <1>1, <2>1, WFMin
  <1>3. m \in Nat /\ m # 0
    OBVIOUS
  <1>4. m - 1 \in Nat /\ m - 1 \in T
    BY <1>3
  <1>5. <<m - 1, m>> \in R
    BY <1>3, <1>4 DEF OpToRel
  <1> QED
    BY <1>2, <1>4, <1>5

(* A set of numbers with a member has a least one, and a bounded one a greatest. *)
LEMMA LeastExists ==
  ASSUME NEW T \in SUBSET Nat, T # {}
  PROVE  \E m \in T : \A k \in T : m <= k
  <1>1. IsWellFoundedOn(OpToRel(<, Nat), Nat)
    BY NatLessThanWellFounded
  <1>2. PICK m \in T : \A k \in T : <<k, m>> \notin OpToRel(<, Nat)
    BY <1>1, WFMin
  <1>3. ASSUME NEW k \in T PROVE m <= k
    <2> SUFFICES ASSUME k < m PROVE FALSE
      OBVIOUS
    <2>1. <<k, m>> \in OpToRel(<, Nat)
      BY DEF OpToRel
    <2> QED
      BY <1>2, <2>1
  <1> QED
    BY <1>3

LEMMA GreatestExists ==
  ASSUME NEW T \in SUBSET Nat, T # {}, NEW n \in Nat, \A k \in T : k <= n
  PROVE  \E m \in T : \A k \in T : k <= m
  <1> DEFINE U == {u \in Nat : \A k \in T : k <= u}
  <1>1. PICK m \in U : \A u \in U : m <= u
    <2>1. n \in U
      OBVIOUS
    <2> HIDE DEF U
    <2>2. U \in SUBSET Nat
      BY DEF U
    <2> QED
      BY <2>1, <2>2, LeastExists
  <1>2. m \in T
    <2> SUFFICES ASSUME m \notin T PROVE FALSE
      OBVIOUS
    <2>1. PICK k \in T : TRUE
      OBVIOUS
    <2>2. k <= m /\ k # m /\ k \in Nat /\ m \in Nat
      BY <2>1
    <2>3. m - 1 \in Nat
      BY <2>2
    <2>4. m - 1 \in U
      BY <2>3
    <2> QED
      BY <1>1, <2>2, <2>4
  <1> QED
    BY <1>1, <1>2

LEMMA MinIsLeast ==
  ASSUME NEW T \in SUBSET Nat, T # {}
  PROVE  Min(T) \in T /\ \A k \in T : Min(T) <= k
  BY LeastExists DEF Min

(* The value of a concatenation, piece by piece. *)
LEMMA FlattenSteps ==
  ASSUME NEW X, NEW seqs \in Seq(Seq(X)), seqs # <<>>
  PROVE  \E f \in [1..Len(seqs) -> Seq(X)] :
           /\ FlattenSeq(seqs) = f[Len(seqs)]
           /\ \A i \in 1..Len(seqs) : f[i] = IF i = 1 THEN seqs[i] ELSE f[i - 1] \o seqs[i]
  <1> DEFINE n == Len(seqs)
             Step(f, i) == f[i] = IF i = 1 THEN seqs[i] ELSE f[i - 1] \o seqs[i]
             Upto(k) == \E f \in [1..n -> Seq(X)] : \A i \in 1..k : Step(f, i)
             K == {k \in Nat : k <= n => Upto(k)}
             Is(g) == g = [i \in 1..n |-> IF i = 1 THEN seqs[i] ELSE g[i - 1] \o seqs[i]]
             flatten == CHOOSE g : Is(g)
  <1>1. n \in Nat \ {0} /\ \A i \in 1..n : seqs[i] \in Seq(X)
    OBVIOUS
  <1>2. 0 \in K
    BY <1>1
  <1>3. ASSUME NEW k \in Nat, k \in K PROVE k + 1 \in K
    <2>1. CASE ~(k + 1 <= n)
      BY <2>1
    <2>2. CASE k + 1 <= n
      <3>0. Upto(k)
        <4> HIDE DEF Upto
        <4> QED
          BY <1>1, <1>3, <2>2
      <3>1. PICK f \in [1..n -> Seq(X)] : \A i \in 1..k : Step(f, i)
        BY <3>0
      <3> DEFINE j == k + 1
                 v == IF j = 1 THEN seqs[j] ELSE f[k] \o seqs[j]
                 g == [i \in 1..n |-> IF i = j THEN v ELSE f[i]]
      <3>2. j \in 1..n /\ j - 1 = k /\ (j # 1 => k \in 1..n /\ k # j)
        BY <1>1, <2>2
      <3>3. 1..j = 1..k \cup {j}
        BY <2>2
      <3>4. \A i \in 1..k : i \in 1..n /\ i # j /\ (i # 1 => i - 1 \in 1..n /\ i - 1 # j)
        BY <1>1, <2>2
      <3> HIDE DEF j
      <3>5. v \in Seq(X)
        <4>1. CASE j = 1
          BY <1>1, <3>2, <4>1
        <4>2. CASE j # 1
          <5>1. f[k] \in Seq(X) /\ seqs[j] \in Seq(X)
            BY <1>1, <3>2, <4>2
          <5> QED
            BY <4>2, <5>1
        <4> QED
          BY <4>1, <4>2
      <3> HIDE DEF v
      <3>6. g \in [1..n -> Seq(X)]
        BY <3>5
      <3>7. Step(g, j)
        <4>1. g[j] = v /\ (j # 1 => g[k] = f[k])
          BY <3>2
        <4> HIDE DEF g
        <4> QED
          BY <3>2, <4>1 DEF v
      <3>8. ASSUME NEW i \in 1..k PROVE Step(g, i)
        <4>1. g[i] = f[i] /\ (i # 1 => g[i - 1] = f[i - 1])
          BY <3>4
        <4> HIDE DEF g
        <4> QED
          BY <3>1, <4>1
      <3>9. \A i \in 1..j : Step(g, i)
        <4> HIDE DEF g, Step
        <4> QED
          BY <3>3, <3>7, <3>8
      <3>10. Upto(j)
        <4> HIDE DEF g, Step
        <4> QED
          BY <3>6, <3>9
      <3> HIDE DEF Upto
      <3> QED
        BY <3>10 DEF j
    <2> QED
      BY <2>1, <2>2
  <1>4. Upto(n)
    <2> HIDE DEF K
    <2>1. Nat \subseteq K
      BY <1>2, <1>3, SetInduction
    <2> HIDE DEF Upto
    <2> QED
      BY <1>1, <2>1 DEF K
  <1>5. PICK f \in [1..n -> Seq(X)] : \A i \in 1..n : Step(f, i)
    BY <1>4
  <1>6. Is(f)
    BY <1>5
  <1>7. Is(flatten)
    <2> HIDE DEF Is
    <2> QED
      BY <1>6
  <1>8. FlattenSeq(seqs) = flatten[n]
    <2>1. Len(seqs) # 0
      BY <1>1
    <2> QED
      BY <2>1, Zenon DEF FlattenSeq
  <1>9. \A i \in 1..n : Step(flatten, i)
    BY <1>7
  <1>10. flatten \in [1..n -> Seq(X)]
    <2> DEFINE F == {k \in Nat : k + 1 <= n => flatten[k + 1] \in Seq(X)}
    <2>1. 0 \in F
      <3>1. 1 \in 1..n
        BY <1>1
      <3> HIDE DEF flatten
      <3>2. flatten[1] = seqs[1]
        BY <1>9, <3>1
      <3>3. flatten[1] \in Seq(X)
        BY <1>1, <3>1, <3>2
      <3> QED
        BY <3>3
    <2>2. ASSUME NEW k \in Nat, k \in F PROVE k + 1 \in F
      <3> DEFINE j == (k + 1) + 1
      <3>1. CASE ~(j <= n)
        BY <3>1
      <3>2. CASE j <= n
        <4>1. j \in 1..n /\ j # 1 /\ j - 1 = k + 1 /\ k + 1 <= n
          BY <1>1, <3>2
        <4>2. flatten[k + 1] \in Seq(X)
          BY <2>2, <4>1
        <4> HIDE DEF j
        <4>3. seqs[j] \in Seq(X)
          BY <1>1, <4>1
        <4>4. flatten[j] = flatten[k + 1] \o seqs[j]
          BY <1>9, <4>1
        <4> HIDE DEF flatten
        <4>5. flatten[j] \in Seq(X)
          BY <4>2, <4>3, <4>4
        <4> QED
          BY <4>5 DEF j
      <3> QED
        BY <3>1, <3>2
    <2>3. Nat \subseteq F
      <3> HIDE DEF F
      <3> QED
        BY <2>1, <2>2, SetInduction
    <2>4. ASSUME NEW i \in 1..n PROVE flatten[i] \in Seq(X)
      <3> DEFINE k == i - 1
      <3>1. k \in Nat /\ k + 1 = i /\ i <= n
        BY <1>1
      <3> HIDE DEF k
      <3>2. k \in F
        BY <2>3, <3>1
      <3> HIDE DEF flatten
      <3> QED
        BY <3>1, <3>2
    <2> QED
      BY <1>7, <2>4
  <1> HIDE DEF flatten
  <1> QED
    BY <1>8, <1>9, <1>10

LEMMA ConcatSet ==
  ASSUME NEW X, NEW s \in Seq(X), NEW t \in Seq(X)
  PROVE  ToSet(s \o t) = ToSet(s) \cup ToSet(t)
  <1> DEFINE c == s \o t
  <1>1. c \in Seq(X) /\ Len(c) = Len(s) + Len(t) /\ Len(s) \in Nat /\ Len(t) \in Nat
    OBVIOUS
  <1>2. DOMAIN s = 1..Len(s) /\ DOMAIN t = 1..Len(t) /\ DOMAIN c = 1..Len(c)
    BY <1>1
  <1>3. \A i \in 1..Len(s) : i \in 1..Len(c) /\ c[i] = s[i]
    BY <1>1
  <1>4. ASSUME NEW i \in 1..Len(t) PROVE i + Len(s) \in 1..Len(c) /\ c[i + Len(s)] = t[i]
    BY <1>1
  <1>5. ASSUME NEW i \in 1..Len(c), i \notin 1..Len(s) PROVE i - Len(s) \in 1..Len(t) /\ c[i] = t[i - Len(s)]
    BY <1>1, <1>5
  <1> HIDE DEF c
  <1>6. ToSet(c) \subseteq ToSet(s) \cup ToSet(t)
    BY <1>2, <1>3, <1>5 DEF ToSet
  <1>7. ToSet(s) \subseteq ToSet(c)
    BY <1>2, <1>3 DEF ToSet
  <1>8. ToSet(t) \subseteq ToSet(c)
    BY <1>2, <1>4 DEF ToSet
  <1> QED
    BY <1>6, <1>7, <1>8 DEF c

LEMMA ConcatInjective ==
  ASSUME NEW X, NEW s \in Seq(X), NEW t \in Seq(X), IsInjective(s), IsInjective(t),
         ToSet(s) \cap ToSet(t) = {}
  PROVE  IsInjective(s \o t)
  <1> DEFINE c == s \o t
  <1>1. c \in Seq(X) /\ Len(c) = Len(s) + Len(t) /\ Len(s) \in Nat /\ Len(t) \in Nat
    OBVIOUS
  <1>2. DOMAIN s = 1..Len(s) /\ DOMAIN t = 1..Len(t) /\ DOMAIN c = 1..Len(c)
    BY <1>1
  <1>3. \A i \in 1..Len(s) : c[i] = s[i] /\ s[i] \in ToSet(s)
    BY <1>1, <1>2 DEF ToSet
  <1>4. ASSUME NEW i \in 1..Len(c), i \notin 1..Len(s)
        PROVE  i - Len(s) \in 1..Len(t) /\ c[i] = t[i - Len(s)] /\ t[i - Len(s)] \in ToSet(t)
    BY <1>1, <1>2, <1>4 DEF ToSet
  <1>5. ASSUME NEW a \in 1..Len(c), NEW b \in 1..Len(c), c[a] = c[b] PROVE a = b
    <2> HIDE DEF c
    <2>1. CASE a \in 1..Len(s) /\ b \in 1..Len(s)
      BY <1>2, <1>3, <1>5, <2>1 DEF IsInjective
    <2>2. CASE a \notin 1..Len(s) /\ b \notin 1..Len(s)
      <3>1. a - Len(s) = b - Len(s)
        BY <1>2, <1>4, <1>5, <2>2 DEF IsInjective
      <3> QED
        BY <1>1, <3>1
    <2>3. CASE a \in 1..Len(s) /\ b \notin 1..Len(s)
      BY <1>3, <1>4, <1>5, <2>3
    <2>4. CASE a \notin 1..Len(s) /\ b \in 1..Len(s)
      BY <1>3, <1>4, <1>5, <2>4
    <2> QED
      BY <2>1, <2>2, <2>3, <2>4
  <1> HIDE DEF c
  <1> QED
    BY <1>2, <1>5 DEF IsInjective, c

(* Pieces that repeat nothing, in themselves and of each other, repeat nothing
   when they are put together. *)
LEMMA FlattenInjective ==
  ASSUME NEW X, NEW seqs \in Seq(Seq(X)),
         \A i \in DOMAIN seqs : IsInjective(seqs[i]),
         \A i, j \in DOMAIN seqs : i # j => ToSet(seqs[i]) \cap ToSet(seqs[j]) = {}
  PROVE  IsInjective(FlattenSeq(seqs))
  <1>1. CASE seqs = <<>>
    <2>1. FlattenSeq(seqs) = <<>>
      BY <1>1, Zenon DEF FlattenSeq
    <2> QED
      BY <2>1 DEF IsInjective
  <1>2. CASE seqs # <<>>
    <2> DEFINE n == Len(seqs)
    <2>1. PICK f \in [1..n -> Seq(X)] :
            /\ FlattenSeq(seqs) = f[n]
            /\ \A i \in 1..n : f[i] = IF i = 1 THEN seqs[i] ELSE f[i - 1] \o seqs[i]
      BY <1>2, FlattenSteps, SMTT(30)
    <2>2. n \in Nat \ {0} /\ DOMAIN seqs = 1..n /\ \A i \in 1..n : seqs[i] \in Seq(X)
      BY <1>2
    <2> HIDE DEF n
    <2> DEFINE Fine(k) == IsInjective(f[k]) /\ ToSet(f[k]) = UNION {ToSet(seqs[i]) : i \in 1..k}
               K == {k \in Nat : k + 1 <= n => Fine(k + 1)}
    <2>3. 0 \in K
      <3>1. 1 \in 1..n /\ 1..1 = {1}
        BY <2>2
      <3>2. f[1] = seqs[1]
        BY <2>1, <3>1
      <3>3. IsInjective(f[1])
        BY <2>2, <3>1, <3>2
      <3>4. ToSet(f[1]) = UNION {ToSet(seqs[i]) : i \in 1..1}
        BY <3>1, <3>2
      <3>5. Fine(1)
        BY <3>3, <3>4
      <3> HIDE DEF Fine
      <3> QED
        BY <3>5
    <2>4. ASSUME NEW k \in Nat, k \in K PROVE k + 1 \in K
      <3> DEFINE j == (k + 1) + 1
                 h == k + 1
      <3>1. CASE ~(j <= n)
        BY <3>1
      <3>2. CASE j <= n
        <4>1. j \in 1..n /\ h \in 1..n /\ j # 1 /\ j - 1 = h /\ 1..j = 1..h \cup {j} /\ j \notin 1..h
          BY <2>2, <3>2
        <4>2. Fine(h)
          <5> HIDE DEF Fine
          <5> QED
            BY <2>2, <2>4, <3>2
        <4> HIDE DEF j, h
        <4>3. f[j] = f[h] \o seqs[j] /\ f[h] \in Seq(X) /\ seqs[j] \in Seq(X)
          BY <2>1, <2>2, <4>1
        <4>4. \A i \in 1..h : i \in 1..n /\ i # j
          BY <2>2, <4>1
        <4>5. ToSet(f[h]) \cap ToSet(seqs[j]) = {}
          BY <2>2, <4>1, <4>2, <4>4
        <4>6. IsInjective(f[j])
          BY <2>2, <4>1, <4>2, <4>3, <4>5, ConcatInjective
        <4>7. ToSet(f[j]) = ToSet(f[h]) \cup ToSet(seqs[j])
          BY <4>3, ConcatSet
        <4>8. ToSet(f[j]) = UNION {ToSet(seqs[i]) : i \in 1..j}
          BY <4>1, <4>2, <4>7
        <4>9. Fine(j)
          BY <4>6, <4>8
        <4> HIDE DEF Fine
        <4> QED
          BY <4>9 DEF j
      <3> QED
        BY <3>1, <3>2
    <2>5. Nat \subseteq K
      <3> HIDE DEF K
      <3> QED
        BY <2>3, <2>4, SetInduction
    <2>6. n - 1 \in Nat /\ (n - 1) + 1 = n
      BY <2>2
    <2>7. Fine(n)
      <3> DEFINE k == n - 1
      <3>1. k \in Nat /\ k + 1 = n
        BY <2>6
      <3> HIDE DEF k, Fine
      <3>2. k \in K
        BY <2>5, <3>1
      <3> QED
        BY <2>2, <3>1, <3>2
    <2> QED
      BY <2>1, <2>7
  <1> QED
    BY <1>1, <1>2

--------------------------------------------------------------------------------
(* The beginning, and what steps leave alone. *)

LEMMA FreshIInv ==
  ASSUME Fresh, pc = "manifest"
  PROVE  IInv
  <1> USE DEF Fresh
  <1>1. ReadLines = {} /\ ReadRelations = {} /\ settled = {} /\ DOMAIN nodeByID = {}
    BY DEF ReadLines, ReadRelations, NodesKnown, RelationsKnown, HierarchyKnown, ReferencesKnown,
           Gathering, settled
  <1>2. Typed
    BY DEF Typed, Pcs, Gathering
  <1>3. NodesGathered
    BY <1>1 DEF ToSet, NodesGathered
  <1>4. NoDuplicateMissed
    BY <1>1 DEF NoDuplicateMissed, LinesDiffer, LimitsDiffer
  <1>5. CountsAgree
    BY DEF CountsAgree, NodesKnown, RelationsKnown, HierarchyKnown, ReferencesKnown, Gathering
  <1>6. ReferencesChecked
    BY DEF ReferencesChecked, NodesKnown, ReferencesKnown, Gathering
  <1>7. ChainsSettled
    BY <1>1 DEF ChainsSettled, NodesKnown, HierarchyKnown, ReferencesKnown, Gathering
  <1>8. RelationsGathered
    BY <1>1 DEF RelationsGathered
  <1> QED
    BY <1>2, <1>3, <1>4, <1>5, <1>6, <1>7, <1>8 DEF IInv

(* A step that changes nothing the invariant is about. *)
LEMMA SameKeeps ==
  ASSUME IInv, UNCHANGED <<files, pc, line, gathered, hierarchy, seen, tables>>
  PROVE  IInv'
  <1> USE DEF IInv
  <1>0. ReadLines' = ReadLines /\ ReadRelations' = ReadRelations /\ settled' = settled
    BY DEF ReadLines, ReadRelations, settled
  <1>1. Typed'
    BY DEF Typed
  <1>2. NodesGathered'
    BY <1>0 DEF NodesGathered, OfLine
  <1>3. NoDuplicateMissed'
    BY <1>0 DEF NoDuplicateMissed, LinesDiffer, LimitsDiffer
  <1>4. CountsAgree'
    BY DEF CountsAgree
  <1>5. ReferencesChecked'
    BY DEF ReferencesChecked, ParentProblem
  <1>6. ChainsSettled'
    BY <1>0 DEF ChainsSettled, Grounded
  <1>7. RelationsGathered'
    BY <1>0 DEF RelationsGathered
  <1>8. (pc = "loaded" => tables = Rows)'
    BY DEF Rows
  <1> QED
    BY <1>1, <1>2, <1>3, <1>4, <1>5, <1>6, <1>7, <1>8

(* Nothing is claimed of what is rejected or has failed but that it is typed. *)
LEMMA EndKeeps ==
  ASSUME IInv, UNCHANGED <<files, line>>, pc' \in {"rejected", "failed"}
  PROVE  IInv'
  <1>1. Typed'
    BY DEF Typed, Pcs, IInv
  <1>2. pc' \notin Gathering /\ pc' \notin {"manifest", "nodes", "references", "loaded"}
    BY DEF Gathering
  <1> QED
    BY <1>1, <1>2 DEF IInv, NodesGathered, NoDuplicateMissed, CountsAgree, ReferencesChecked,
      ChainsSettled, RelationsGathered, NodesKnown, ReferencesKnown, HierarchyKnown, RelationsKnown

(* What is gathered of the nodes, when no line of theirs is read. *)
LEMMA NodesStay ==
  ASSUME IInv, UNCHANGED <<files, gathered>>, pc \in Gathering, pc' \in Gathering, ReadLines' = ReadLines
  PROVE  NodesGathered' /\ NoDuplicateMissed'
  <1>1. NodesGathered'
    BY DEF IInv, NodesGathered, OfLine
  <1>2. NoDuplicateMissed'
    BY DEF IInv, NoDuplicateMissed, LinesDiffer, LimitsDiffer
  <1> QED
    BY <1>1, <1>2

LEMMA RelationsStay ==
  ASSUME IInv, UNCHANGED <<files, seen>>, pc \in Gathering, pc' \in Gathering,
         ReadRelations' = ReadRelations, DOMAIN nodeByID \subseteq DOMAIN nodeByID'
  PROVE  RelationsGathered'
  BY DEF IInv, RelationsGathered

LEMMA HierarchyStays ==
  ASSUME IInv, UNCHANGED <<gathered, hierarchy>>, pc \in ReferencesKnown, pc' \in ReferencesKnown,
         pc' \in HierarchyKnown => settled = DOMAIN nodeByID
  PROVE  ChainsSettled'
  <1>1. settled' = settled
    BY DEF settled
  <1>2. pc' \notin {"manifest", "nodes", "references"}
    BY DEF ReferencesKnown, NodesKnown, Gathering
  <1> QED
    BY <1>1, <1>2 DEF IInv, ChainsSettled, Grounded

--------------------------------------------------------------------------------
(* nodes.ndjson. *)

LEMMA ReadManifestKeeps == ASSUME IInv, ReadManifest PROVE IInv'
  <1> USE DEF ReadManifest
  <1>1. CASE pc' = "rejected"
    BY <1>1, EndKeeps DEF Goes
  <1>2. CASE pc' # "rejected"
    <2>1. pc = "manifest" /\ pc' = "nodes" /\ line' = 0
          /\ UNCHANGED <<files, gathered, hierarchy, seen, tables>>
      BY <1>2 DEF Reject, Goes
    <2>2. ReadLines' = ReadLines /\ ReadRelations' = ReadRelations
      BY <2>1 DEF ReadLines, ReadRelations, NodesKnown, RelationsKnown, HierarchyKnown,
                  ReferencesKnown, Gathering
    <2>3. pc \in Gathering /\ pc' \in Gathering
      BY <2>1 DEF Gathering
    <2>4. Typed'
      BY <2>1 DEF IInv, Typed, Pcs, Gathering
    <2>5. CountsAgree' /\ ReferencesChecked' /\ ChainsSettled'
      BY <2>1 DEF IInv, CountsAgree, ReferencesChecked, ChainsSettled, settled,
         NodesKnown, RelationsKnown, HierarchyKnown, ReferencesKnown, Gathering
    <2> QED
      BY <2>1, <2>2, <2>3, <2>4, <2>5, NodesStay, RelationsStay DEF IInv
  <1> QED
    BY <1>1, <1>2

LEMMA AppendSet ==
  ASSUME NEW X, NEW s \in Seq(X), NEW x \in X
  PROVE  Append(s, x) \in Seq(X) /\ ToSet(Append(s, x)) = ToSet(s) \cup {x}
  <1>0. <<x>> \in Seq(X) /\ Append(s, x) \in Seq(X)
    OBVIOUS
  <1>1. ToSet(s \o <<x>>) = ToSet(s) \cup ToSet(<<x>>)
    BY ZenonT(40), <1>0, ConcatSet
  <1>2. ToSet(<<x>>) = {x}
    BY DEF ToSet
  <1>3. s \o <<x>> = Append(s, x)
    OBVIOUS
  <1> QED
    BY <1>0, <1>1, <1>2, <1>3

LEMMA DuplicateKnown ==
  ASSUME NEW l
  PROVE  Duplicate(l) \in Kinds \cup {None} /\ (Duplicate(l) = None => l.id \notin DOMAIN nodeByID /\ ~HasDuplicateLimit(l))
  BY NoneAssumption DEF Duplicate, Kinds

LEMMA ReadNodeKeeps == ASSUME IInv, ReadNode PROVE IInv'
  <1> DEFINE at == line + 1
             l == nodeLines[at]
  <1>1. CASE LineProblem(l) # None \/ NodesFull(l)
    BY <1>1, EndKeeps DEF ReadNode, Reject
  <1>2. CASE LineProblem(l) = None /\ ~NodesFull(l)
    <2>1. /\ pc = "nodes" /\ line < Len(nodeLines) /\ line' = at
          /\ UNCHANGED <<files, pc, hierarchy, seen, tables>>
      BY <1>2 DEF ReadNode, Stays
    <2>2. \/ /\ l.id \in DOMAIN nodeByID
             /\ UNCHANGED <<nodeByID, orderedNodeIDs, limitIDs>>
          \/ /\ l.id \notin DOMAIN nodeByID
             /\ nodeByID' = [id \in DOMAIN nodeByID \cup {l.id} |->
                             IF id # l.id THEN nodeByID[id]
                             ELSE [type |-> l.type, parent |-> l.parent, line |-> at,
                                   namespace |-> effectiveNodeNamespace(l)]]
             /\ orderedNodeIDs' = Append(orderedNodeIDs, l.id)
             /\ limitIDs' = limitIDs \cup ToSet(l.limits)
      BY <1>2 DEF ReadNode
    <2>3. duplicateErr' = IF duplicateErr = None /\ Duplicate(l) # None
                            THEN [line |-> at, kind |-> Duplicate(l)] ELSE duplicateErr
      BY <1>2 DEF ReadNode
    <2>4. /\ line \in Nat /\ at \in Nat /\ at \in 1..Len(nodeLines) /\ at \notin 1..line
          /\ 1..at = 1..line \cup {at} /\ nodeLines \in Seq(NodeLines)
      BY <2>1 DEF IInv, Typed
    <2>5. l \in NodeLines /\ l.id \in Node
      <3>1. l \in NodeLines
        BY <2>4
      <3> HIDE DEF l
      <3> QED
        BY <3>1 DEF NodeLines
    <2>6. ReadLines = 1..line /\ ReadLines' = 1..at
      BY <2>1 DEF ReadLines
    <2>7. \A i \in 1..line : i \in 1..at /\ i # at
      BY <2>4
    <2>8. pc \in Gathering /\ pc' \in Gathering
      BY <2>1 DEF Gathering
    <2>10. DOMAIN nodeByID = {nodeLines[i].id : i \in 1..line}
           /\ orderedNodeIDs \in Seq(Node)
           /\ ToSet(orderedNodeIDs) = DOMAIN nodeByID
           /\ (\A id \in DOMAIN nodeByID : \E i \in 1..line : nodeLines[i].id = id /\ OfLine(nodeByID[id], i))
           /\ (\A i \in 1..line : LineProblem(nodeLines[i]) = None)
      BY <2>6, <2>8 DEF IInv, NodesGathered
    <2>11. Typed'
      BY <2>1, <2>4 DEF IInv, Typed
    <2> HIDE DEF at
    <2>12. DOMAIN nodeByID' = DOMAIN nodeByID \cup {l.id}
      BY <2>2
    <2>13. ToSet(orderedNodeIDs') = ToSet(orderedNodeIDs) \cup {l.id} /\ orderedNodeIDs' \in Seq(Node)
      <3>1. CASE l.id \in DOMAIN nodeByID
        BY <2>2, <2>10, <3>1
      <3>2. CASE l.id \notin DOMAIN nodeByID
        <4>1. orderedNodeIDs' = Append(orderedNodeIDs, l.id)
          BY <2>2, <3>2
        <4> HIDE DEF l
        <4> QED
          BY <2>5, <2>10, <4>1, AppendSet
      <3> QED
        BY <3>1, <3>2
    <2>14. ASSUME NEW id \in DOMAIN nodeByID'
           PROVE  \E i \in 1..at : nodeLines[i].id = id /\ OfLine(nodeByID'[id], i)
      <3>1. CASE id \in DOMAIN nodeByID
        BY <2>2, <2>7, <2>10, <3>1
      <3>2. CASE id \notin DOMAIN nodeByID
        BY <2>2, <2>4, <2>12, <3>2 DEF OfLine
      <3> QED
        BY <3>1, <3>2
    <2>15. DOMAIN nodeByID' = {nodeLines[i].id : i \in 1..at}
      <3>1. 1..at = 1..line \cup {at}
        BY <2>4
      <3>2. {nodeLines[i].id : i \in 1..at} = {nodeLines[i].id : i \in 1..line} \cup {l.id}
        BY <3>1
      <3> QED
        BY <2>10, <2>12, <3>2
    <2>16. \A i \in 1..at : LineProblem(nodeLines[i]) = None
      BY <1>2, <2>4, <2>10
    <2>17. NodesGathered'
      <3>1. nodeLines' = nodeLines
        BY <2>1
      <3>2. ASSUME NEW id \in DOMAIN nodeByID'
            PROVE  \E i \in ReadLines' : (nodeLines[i].id = id /\ OfLine(nodeByID[id], i))'
        <4>1. PICK i \in 1..at : nodeLines[i].id = id /\ OfLine(nodeByID'[id], i)
          BY <2>14
        <4>2. (nodeLines[i].id = id /\ OfLine(nodeByID[id], i))'
          BY <3>1, <4>1 DEF OfLine
        <4> QED
          BY <2>6, <4>2
      <3>3. DOMAIN nodeByID' = {nodeLines'[i].id : i \in ReadLines'}
        BY <2>6, <2>15, <3>1
      <3>4. \A i \in ReadLines' : LineProblem(nodeLines'[i]) = None
        BY <2>6, <2>16, <3>1
      <3>5. ToSet(orderedNodeIDs') = DOMAIN nodeByID'
        BY <2>10, <2>12, <2>13
      <3> QED
        BY <2>13, <3>2, <3>3, <3>4, <3>5 DEF NodesGathered
    <2>18. ASSUME duplicateErr' = None
           PROVE  /\ \A i, j \in 1..at : nodeLines[i].id = nodeLines[j].id => i = j
                  /\ limitIDs' = UNION {ToSet(nodeLines[i].limits) : i \in 1..at}
                  /\ \A i \in 1..at : IsInjective(nodeLines[i].limits)
                  /\ \A i, j \in 1..at : i # j => ToSet(nodeLines[i].limits) \cap ToSet(nodeLines[j].limits) = {}
      <3>1. Duplicate(l) = None /\ duplicateErr = None
        <4>1. CASE duplicateErr = None /\ Duplicate(l) # None
          BY <2>3, <2>4, <2>18, <4>1, DuplicateKnown, NoneAssumption
        <4>2. CASE ~(duplicateErr = None /\ Duplicate(l) # None)
          BY <2>3, <2>18, <4>2
        <4> QED
          BY <4>1, <4>2
      <3>2. l.id \notin DOMAIN nodeByID /\ ~HasDuplicateLimit(l)
        BY <3>1, DuplicateKnown
      <3>3. /\ \A i, j \in 1..line : nodeLines[i].id = nodeLines[j].id => i = j
            /\ limitIDs = UNION {ToSet(nodeLines[i].limits) : i \in 1..line}
            /\ \A i \in 1..line : IsInjective(nodeLines[i].limits)
            /\ \A i, j \in 1..line : i # j => ToSet(nodeLines[i].limits) \cap ToSet(nodeLines[j].limits) = {}
        BY <2>6, <2>8, <3>1 DEF IInv, NoDuplicateMissed, LinesDiffer, LimitsDiffer
      <3>4. \A i \in 1..line : nodeLines[i].id # l.id
        BY <2>10, <3>2
      <3>5. limitIDs' = limitIDs \cup ToSet(l.limits)
        BY <2>2, <3>2
      <3>6. IsInjective(l.limits) /\ ToSet(l.limits) \cap limitIDs = {}
        BY <3>2 DEF HasDuplicateLimit
      <3>7. \A i \in 1..line : ToSet(nodeLines[i].limits) \cap ToSet(l.limits) = {}
        BY <3>3, <3>6
      <3>8. limitIDs' = UNION {ToSet(nodeLines[i].limits) : i \in 1..at}
        BY <2>4, <3>3, <3>5
      <3>9. \A i, j \in 1..at : nodeLines[i].id = nodeLines[j].id => i = j
        BY <2>4, <3>3, <3>4
      <3>10. \A i, j \in 1..at : i # j => ToSet(nodeLines[i].limits) \cap ToSet(nodeLines[j].limits) = {}
        BY <2>4, <3>3, <3>7
      <3>11. \A i \in 1..at : IsInjective(nodeLines[i].limits)
        BY <2>4, <3>3, <3>6
      <3> QED
        BY <3>8, <3>9, <3>10, <3>11
    <2>19. NoDuplicateMissed'
      BY <2>1, <2>6, <2>18 DEF NoDuplicateMissed, LinesDiffer, LimitsDiffer
    <2>20. CountsAgree' /\ ReferencesChecked' /\ ChainsSettled'
      BY <2>1 DEF IInv, CountsAgree, ReferencesChecked, ChainsSettled, settled,
         NodesKnown, RelationsKnown, HierarchyKnown, ReferencesKnown, Gathering
    <2>21. ReadRelations' = ReadRelations
      BY <2>1 DEF ReadRelations
    <2>22. RelationsGathered'
      BY <2>1, <2>8, <2>12, <2>21, RelationsStay
    <2>23. (pc = "loaded" => tables = Rows)'
      BY <2>1
    <2> QED
      BY <2>11, <2>17, <2>19, <2>20, <2>22, <2>23 DEF IInv
  <1> QED
    BY <1>1, <1>2

LEMMA NodesReadKeeps == ASSUME IInv, NodesRead PROVE IInv'
  <1> USE DEF NodesRead
  <1>1. CASE pc' = "rejected"
    BY <1>1, EndKeeps DEF Goes
  <1>2. CASE pc' # "rejected"
    <2>1. pc = "nodes" /\ pc' = "references" /\ line = Len(nodeLines) /\ line' = 0
          /\ manifest.nodeCount = Len(nodeLines)
          /\ UNCHANGED <<files, gathered, hierarchy, seen, tables>>
      BY <1>2 DEF Reject, Goes
    <2>2. ReadLines' = ReadLines /\ ReadRelations' = ReadRelations
      BY <2>1 DEF ReadLines, ReadRelations, NodesKnown, RelationsKnown, HierarchyKnown,
                  ReferencesKnown, Gathering, IInv, Typed
    <2>3. pc \in Gathering /\ pc' \in Gathering
      BY <2>1 DEF Gathering
    <2>4. Typed'
      BY <2>1 DEF IInv, Typed, Pcs, Gathering
    <2>5. CountsAgree' /\ ChainsSettled'
      BY <2>1 DEF IInv, CountsAgree, ChainsSettled, settled,
         NodesKnown, RelationsKnown, HierarchyKnown, ReferencesKnown, Gathering
    <2>6. ReferencesChecked'
      BY <2>1, <2>3 DEF IInv, NodesGathered, ReferencesChecked, NodesKnown, ReferencesKnown,
         Gathering
    <2> QED
      BY <2>1, <2>2, <2>3, <2>4, <2>5, <2>6, NodesStay, RelationsStay DEF IInv
  <1> QED
    BY <1>1, <1>2

--------------------------------------------------------------------------------
(* The parents. *)

LEMMA CheckReferenceKeeps == ASSUME IInv, CheckReference PROVE IInv'
  <1>0. pc = "references" /\ UNCHANGED <<files, gathered, hierarchy, seen, tables>> /\ line \in Nat
    BY DEF CheckReference, IInv, Typed
  <1>1. CASE pc' = "rejected"
    <2>1. UNCHANGED line
      BY <1>1 DEF CheckReference, Goes, Stays
    <2> QED
      BY <1>0, <1>1, <2>1, EndKeeps
  <1> DEFINE Clean(k) == \A i \in 1..k : ParentProblem(nodeByID[orderedNodeIDs[i]]) = None
  <1>2. Clean(line) /\ line <= Len(orderedNodeIDs)
    BY <1>0 DEF IInv, ReferencesChecked
  <1>3. /\ DOMAIN nodeByID = ToSet(orderedNodeIDs) /\ orderedNodeIDs \in Seq(Node)
        /\ pc \in Gathering
    BY <1>0 DEF IInv, NodesGathered, Gathering
  <1>4. CASE pc' = "hierarchy"
    <2>1. line = Len(orderedNodeIDs) /\ duplicateErr = None /\ line' = 0
      BY <1>0, <1>4 DEF CheckReference, Reject, Goes, Stays, DuplicateIsNext
    <2>2. ReadLines' = ReadLines /\ ReadRelations' = ReadRelations
      BY <1>0, <1>4 DEF ReadLines, ReadRelations, NodesKnown, RelationsKnown, HierarchyKnown,
                  ReferencesKnown, Gathering
    <2>3. pc' \in Gathering
      BY <1>4 DEF Gathering
    <2>4. Typed'
      BY <1>0, <1>4, <2>1 DEF IInv, Typed, Pcs, Gathering
    <2>5. CountsAgree'
      BY <1>0, <1>4 DEF IInv, CountsAgree,
         NodesKnown, RelationsKnown, HierarchyKnown, ReferencesKnown, Gathering
    <2>6. \A id \in DOMAIN nodeByID : ParentProblem(nodeByID[id]) = None
      BY <1>2, <1>3, <2>1 DEF ToSet
    <2>7. ReferencesChecked'
      BY <1>0, <1>4, <2>1, <2>6 DEF ParentProblem, ReferencesChecked
    <2>8. settled = {} /\ path = <<>> /\ current = None
      BY <1>0 DEF IInv, ChainsSettled
    <2>9. ChainsSettled'
      <3>1. settled' = {} /\ path' = <<>> /\ current' = None
        BY <1>0, <2>8 DEF settled
      <3>2. pc' \notin {"manifest", "nodes", "references"} /\ pc' \notin HierarchyKnown
        BY <1>4 DEF HierarchyKnown, ReferencesKnown, NodesKnown, Gathering
      <3>3. Grounded(settled)'
        BY <3>1 DEF Grounded
      <3> QED
        BY <3>1, <3>2, <3>3 DEF ChainsSettled
    <2> QED
      BY <1>0, <1>3, <1>4, <2>2, <2>3, <2>4, <2>5, <2>7, <2>9, NodesStay, RelationsStay DEF IInv
  <1>5. CASE pc' \notin {"rejected", "hierarchy"}
    <2> DEFINE at == line + 1
    <2>1. /\ pc' = pc /\ line' = at /\ line # Len(orderedNodeIDs)
          /\ ParentProblem(nodeByID[orderedNodeIDs[at]]) = None
      BY <1>0, <1>5 DEF CheckReference, Reject, Goes, Stays
    <2>2. at \in Nat /\ at <= Len(orderedNodeIDs) /\ 1..at = 1..line \cup {at}
      BY <1>0, <1>2, <1>3, <2>1
    <2> HIDE DEF at
    <2>3. Clean(at)
      BY <1>2, <2>1, <2>2
    <2>4. ReadLines' = ReadLines /\ ReadRelations' = ReadRelations
      BY <1>0, <2>1 DEF ReadLines, ReadRelations
    <2>5. Typed'
      BY <1>0, <2>1, <2>2 DEF IInv, Typed
    <2>6. CountsAgree' /\ ChainsSettled'
      BY <1>0, <2>1 DEF IInv, CountsAgree, ChainsSettled, settled, ReferencesKnown, HierarchyKnown
    <2>7. ReferencesChecked'
      BY <1>0, <2>1, <2>2, <2>3 DEF ReferencesKnown, ParentProblem, ReferencesChecked
    <2> QED
      BY <1>0, <1>3, <2>1, <2>4, <2>5, <2>6, <2>7, NodesStay, RelationsStay DEF IInv
  <1> QED
    BY <1>1, <1>4, <1>5

(* A node whose reference is in order has no parent or one that is defined. *)
LEMMA ParentsDefined ==
  ASSUME IInv, pc \in ReferencesKnown, NEW id \in DOMAIN nodeByID
  PROVE  nodeByID[id].parent \in DOMAIN nodeByID \cup {None}
  <1>1. ParentProblem(nodeByID[id]) = None
    BY DEF IInv, ReferencesChecked
  <1> QED
    BY <1>1, NoneAssumption DEF ParentProblem, Kinds

(* The nodes are of the type. *)
LEMMA NodesTyped ==
  ASSUME IInv, pc \in Gathering
  PROVE  DOMAIN nodeByID \subseteq Node /\ None \notin DOMAIN nodeByID
  <1>1. DOMAIN nodeByID = ToSet(orderedNodeIDs) /\ orderedNodeIDs \in Seq(Node)
    BY DEF IInv, NodesGathered
  <1>2. DOMAIN nodeByID \subseteq Node
    BY <1>1 DEF ToSet
  <1> QED
    BY <1>2, CanonicalAssumption

--------------------------------------------------------------------------------
(* The hierarchy. *)

(* A step of the chains changes nothing else. *)
LEMMA ChainStepKeeps ==
  ASSUME IInv, pc = "hierarchy", UNCHANGED <<files, pc, line, gathered, seen, tables>>, ChainsSettled'
  PROVE  IInv'
  <1>1. ReadLines' = ReadLines /\ ReadRelations' = ReadRelations
    BY DEF ReadLines, ReadRelations
  <1>2. pc \in Gathering /\ pc' \in Gathering
    BY DEF Gathering
  <1>3. Typed' /\ CountsAgree'
    BY DEF IInv, Typed, CountsAgree
  <1>4. ReferencesChecked'
    BY DEF ParentProblem, IInv, ReferencesChecked
  <1>5. (pc = "loaded" => tables = Rows)'
    OBVIOUS
  <1> QED
    BY <1>1, <1>2, <1>3, <1>4, <1>5, NodesStay, RelationsStay DEF IInv

LEMMA HierarchyPc ==
  ASSUME pc = "hierarchy"
  PROVE  /\ pc \in ReferencesKnown /\ pc \in Gathering /\ pc \notin HierarchyKnown
         /\ pc \notin {"manifest", "nodes", "references"}
  BY DEF ReferencesKnown, NodesKnown, HierarchyKnown, Gathering

LEMMA StartChainKeeps == ASSUME IInv, StartChain PROVE IInv'
  <1>1. /\ pc = "hierarchy" /\ path = <<>> /\ Unsettled # {}
        /\ current' = orderedNodeIDs[Min(Unsettled)]
        /\ UNCHANGED <<files, pc, line, gathered, path, depthByID, seen, tables>>
    BY DEF StartChain
  <1>2. orderedNodeIDs \in Seq(Node) /\ ToSet(orderedNodeIDs) = DOMAIN nodeByID
    BY <1>1, HierarchyPc DEF IInv, NodesGathered
  <1>3. Unsettled \in SUBSET Nat
    BY <1>2 DEF Unsettled
  <1>4. Min(Unsettled) \in DOMAIN orderedNodeIDs
    BY <1>1, <1>3, MinIsLeast DEF Unsettled
  <1>5. current' \in DOMAIN nodeByID
    BY <1>1, <1>2, <1>4 DEF ToSet
  <1>6. ChainsSettled'
    BY <1>1, <1>5, HierarchyPc DEF IInv, ChainsSettled, settled, Grounded
  <1> QED
    BY <1>1, <1>6, ChainStepKeeps

LEMMA ClimbKeeps == ASSUME IInv, Climb PROVE IInv'
  <1>1. /\ pc = "hierarchy" /\ current \notin settled \cup {None}
        /\ path' = Append(path, current) /\ current' = nodeByID[current].parent
        /\ UNCHANGED <<files, pc, line, gathered, depthByID, seen, tables>>
    BY DEF Climb
  <1>2. /\ path \in Seq(DOMAIN nodeByID) /\ current \in DOMAIN nodeByID
        /\ \A i \in DOMAIN path :
             nodeByID[path[i]].parent = IF i = Len(path) THEN current ELSE path[i + 1]
    BY <1>1, HierarchyPc DEF IInv, ChainsSettled
  <1>3. current' \in DOMAIN nodeByID \cup {None}
    BY <1>1, <1>2, HierarchyPc, ParentsDefined
  <1>4. path' \in Seq(DOMAIN nodeByID) /\ Len(path') = Len(path) + 1 /\ Len(path) \in Nat
    BY <1>1, <1>2
  <1>5. ASSUME NEW i \in DOMAIN path'
        PROVE  nodeByID[path'[i]].parent = IF i = Len(path') THEN current' ELSE path'[i + 1]
    <2>1. CASE i = Len(path')
      BY <1>1, <1>2, <1>4, <2>1
    <2>2. CASE i # Len(path')
      BY <1>1, <1>2, <1>4, <2>2
    <2> QED
      BY <2>1, <2>2
  <1>6. ChainsSettled'
    BY <1>1, <1>3, <1>4, <1>5, HierarchyPc DEF settled, IInv, ChainsSettled, Grounded
  <1> QED
    BY <1>1, <1>6, ChainStepKeeps

LEMMA SettleChainKeeps == ASSUME IInv, SettleChain PROVE IInv'
  <1> DEFINE T == settled \cup ToSet(path)
  <1>1. /\ pc = "hierarchy" /\ current \in settled \cup {None}
        /\ settled' = T /\ path' = <<>> /\ current' = None
        /\ UNCHANGED <<files, pc, line, gathered, seen, tables>>
    BY DEF SettleChain, settled
  <1>2. /\ settled \subseteq DOMAIN nodeByID
        /\ \A id \in settled : nodeByID[id].parent \in settled \cup {None}
        /\ Grounded(settled)
        /\ path \in Seq(DOMAIN nodeByID)
        /\ \A i \in DOMAIN path :
             nodeByID[path[i]].parent = IF i = Len(path) THEN current ELSE path[i + 1]
    BY <1>1, HierarchyPc DEF IInv, ChainsSettled
  <1>3. ToSet(path) \subseteq DOMAIN nodeByID
    BY <1>2 DEF ToSet
  <1>4. None \notin T
    BY <1>1, <1>2, <1>3, HierarchyPc, NodesTyped
  <1>5. ASSUME NEW id \in T PROVE nodeByID[id].parent \in T \cup {None}
    <2>1. CASE id \in settled
      BY <1>2, <2>1
    <2>2. CASE id \in ToSet(path)
      <3>1. PICK i \in DOMAIN path : path[i] = id
        BY <2>2 DEF ToSet
      <3>2. i # Len(path) => i + 1 \in DOMAIN path
        BY <1>2, <3>1
      <3>3. i # Len(path) => path[i + 1] \in ToSet(path)
        BY <3>2 DEF ToSet
      <3> QED
        BY <1>1, <1>2, <3>1, <3>3
    <2> QED
      BY <1>5, <2>1, <2>2
  <1>6. ASSUME NEW S \in SUBSET T, S # {} PROVE \E n \in S : nodeByID[n].parent \notin S
    <2>1. CASE S \cap settled # {}
      <3>1. PICK n \in S \cap settled : nodeByID[n].parent \notin S \cap settled
        BY <1>2, <2>1 DEF Grounded
      <3>2. nodeByID[n].parent \in settled \cup {None}
        BY <1>2, <3>1
      <3> QED
        BY <1>4, <3>1, <3>2
    <2>2. CASE S \cap settled = {}
      <3> DEFINE P == {i \in DOMAIN path : path[i] \in S}
      <3>1. P \in SUBSET Nat /\ P # {} /\ Len(path) \in Nat /\ \A i \in P : i <= Len(path)
        BY <1>2, <1>6, <2>2 DEF ToSet
      <3>2. PICK m \in P : \A i \in P : i <= m
        <4> HIDE DEF P
        <4> QED
          BY <3>1, GreatestExists
      <3>3. CASE m = Len(path)
        BY <1>1, <1>2, <1>4, <2>2, <3>2, <3>3
      <3>4. CASE m # Len(path)
        BY <1>2, <3>1, <3>2, <3>4
      <3> QED
        BY <3>3, <3>4
    <2> QED
      BY <2>1, <2>2
  <1>7. ChainsSettled'
    <2>1. nodeByID' = nodeByID /\ pc' = pc /\ path' \in Seq(DOMAIN nodeByID)
      BY <1>1
    <2>2. Grounded(settled)'
      BY <1>1, <1>6, <2>1 DEF Grounded
    <2>3. T \subseteq DOMAIN nodeByID
      BY <1>2, <1>3
    <2> HIDE DEF T
    <2> QED
      BY <1>1, <1>5, <2>1, <2>2, <2>3, HierarchyPc DEF ChainsSettled
  <1> QED
    BY <1>1, <1>7, ChainStepKeeps

LEMMA HierarchyCheckedKeeps == ASSUME IInv, HierarchyChecked PROVE IInv'
  <1>0. pc = "hierarchy" /\ Unsettled = {} /\ UNCHANGED <<files, gathered, hierarchy, seen, tables>>
    BY DEF HierarchyChecked
  <1>1. CASE pc' = "rejected"
    <2>1. UNCHANGED line
      BY <1>1 DEF HierarchyChecked, Goes
    <2> QED
      BY <1>0, <1>1, <2>1, EndKeeps
  <1>2. CASE pc' # "rejected"
    <2>1. pc' = "relations" /\ line' = 0
      BY <1>2 DEF HierarchyChecked, Reject, Goes
    <2>2. pc \in Gathering /\ pc' \in Gathering /\ pc \in ReferencesKnown /\ pc' \in ReferencesKnown
      BY <1>0, <2>1 DEF Gathering, ReferencesKnown, NodesKnown
    <2>3. ReadLines' = ReadLines /\ ReadRelations' = ReadRelations
      BY <1>0, <2>1 DEF ReadLines, ReadRelations, NodesKnown, RelationsKnown, HierarchyKnown,
                  ReferencesKnown, Gathering
    <2>4. Typed'
      BY <1>0, <2>1 DEF IInv, Typed, Pcs, Gathering
    <2>5. CountsAgree'
      BY <1>0, <2>1 DEF IInv, CountsAgree,
         NodesKnown, RelationsKnown, HierarchyKnown, ReferencesKnown, Gathering
    <2>6. ReferencesChecked'
      BY <1>0, <2>1, <2>2 DEF ParentProblem, IInv, ReferencesChecked
    <2>7. settled = DOMAIN nodeByID
      BY <1>0, <2>2 DEF IInv, ChainsSettled, NodesGathered, Unsettled, ToSet
    <2>8. ChainsSettled'
      BY <1>0, <2>2, <2>7, HierarchyStays
    <2>9. (pc = "loaded" => tables = Rows)'
      BY <2>1
    <2> QED
      BY <1>0, <2>2, <2>3, <2>4, <2>5, <2>6, <2>8, <2>9, NodesStay, RelationsStay DEF IInv
  <1> QED
    BY <1>1, <1>2

--------------------------------------------------------------------------------
(* relations.ndjson, and the phases that only read. *)

LEMMA PhaseKeeps ==
  ASSUME IInv, pc \in HierarchyKnown, pc' \in HierarchyKnown, line' \in Nat,
         pc' = "relations" => line' <= Len(relationLines),
         UNCHANGED <<files, gathered, hierarchy>>, CountsAgree', RelationsGathered',
         pc' = "loaded" => tables' = Rows
  PROVE  IInv'
  <1>1. /\ pc \in Gathering /\ pc' \in Gathering /\ pc \in ReferencesKnown /\ pc' \in ReferencesKnown
        /\ pc \in NodesKnown /\ pc' \in NodesKnown
        /\ {pc, pc'} \cap {"manifest", "nodes", "references"} = {}
    BY DEF Gathering, NodesKnown, ReferencesKnown, HierarchyKnown
  <1>2. ReadLines' = ReadLines
    BY <1>1 DEF ReadLines
  <1>3. Typed'
    BY <1>1 DEF IInv, Typed, Pcs
  <1>4. ReferencesChecked'
    BY <1>1 DEF ParentProblem, IInv, ReferencesChecked
  <1>5. ChainsSettled'
    BY <1>1, HierarchyStays DEF IInv, ChainsSettled
  <1>6. (pc = "loaded" => tables = Rows)'
    BY DEF Rows
  <1> QED
    BY <1>1, <1>2, <1>3, <1>4, <1>5, <1>6, NodesStay DEF IInv

LEMMA ReadRelationKeeps == ASSUME IInv, ReadRelation PROVE IInv'
  <1> DEFINE at == line + 1
             l == relationLines[at]
  <1>0. /\ pc = "relations" /\ line < Len(relationLines) /\ line \in Nat
        /\ UNCHANGED <<files, gathered, hierarchy, tables>>
    BY DEF ReadRelation, IInv, Typed
  <1>1. CASE RelationProblem(l) # None
    BY <1>0, <1>1, EndKeeps DEF ReadRelation, Reject
  <1>2. CASE RelationProblem(l) = None
    <2>1. pc' = pc /\ line' = at /\ seen' = seen \cup {relationID(l)}
      BY <1>2 DEF ReadRelation, Stays
    <2>2. /\ at \in Nat /\ at <= Len(relationLines) /\ at \notin 1..line
          /\ 1..at = 1..line \cup {at}
      BY <1>0 DEF IInv, Typed
    <2>3. {l.from, l.to} \subseteq DOMAIN nodeByID /\ relationID(l) \notin seen
      BY <1>2, NoneAssumption DEF RelationProblem, Kinds
    <2>4. ReadRelations = 1..line /\ ReadRelations' = 1..at /\ pc \in Gathering
      BY <1>0, <2>1 DEF ReadRelations, Gathering
    <2>5. /\ seen = {relationID(relationLines[i]) : i \in 1..line}
          /\ \A i, j \in 1..line : relationID(relationLines[i]) = relationID(relationLines[j]) => i = j
          /\ \A i \in 1..line : {relationLines[i].from, relationLines[i].to} \subseteq DOMAIN nodeByID
      BY <2>4 DEF IInv, RelationsGathered
    <2> HIDE DEF at
    <2>6. seen' = {relationID(relationLines[i]) : i \in 1..at}
      BY <2>1, <2>2, <2>5
    <2>7. \A i, j \in 1..at : relationID(relationLines[i]) = relationID(relationLines[j]) => i = j
      BY <2>2, <2>3, <2>5
    <2>8. \A i \in 1..at : {relationLines[i].from, relationLines[i].to} \subseteq DOMAIN nodeByID
      BY <2>2, <2>3, <2>5
    <2>9. RelationsGathered'
      BY <1>0, <2>4, <2>6, <2>7, <2>8 DEF RelationsGathered, relationID
    <2>10. pc \in HierarchyKnown
      BY <1>0 DEF HierarchyKnown, ReferencesKnown, NodesKnown, Gathering
    <2>11. CountsAgree'
      BY <1>0, <2>1 DEF IInv, CountsAgree
    <2> QED
      BY <1>0, <2>1, <2>2, <2>9, <2>10, <2>11, PhaseKeeps
  <1> QED
    BY <1>1, <1>2

LEMMA RelationsReadKeeps == ASSUME IInv, RelationsRead PROVE IInv'
  <1>0. pc = "relations" /\ line = Len(relationLines) /\ UNCHANGED <<files, gathered, hierarchy, seen, tables>>
    BY DEF RelationsRead
  <1>1. CASE pc' = "rejected"
    <2>1. UNCHANGED line
      BY <1>1 DEF RelationsRead, Goes
    <2> QED
      BY <1>0, <1>1, <2>1, EndKeeps
  <1>2. CASE pc' # "rejected"
    <2>1. pc' = "components" /\ line' = 0 /\ manifest.relationCount = Len(relationLines)
      BY <1>2 DEF RelationsRead, Reject, Goes
    <2>2. /\ pc \in HierarchyKnown /\ pc' \in HierarchyKnown /\ pc \in Gathering /\ pc' \in Gathering
          /\ pc \in NodesKnown
      BY <1>0, <2>1 DEF Gathering, HierarchyKnown, ReferencesKnown, NodesKnown
    <2>3. ReadRelations' = ReadRelations
      <3>1. DOMAIN relationLines = 1..Len(relationLines)
        BY DEF IInv, Typed
      <3> QED
        BY <1>0, <2>1, <3>1 DEF ReadRelations, RelationsKnown, HierarchyKnown, ReferencesKnown, NodesKnown,
           Gathering
    <2>4. RelationsGathered'
      BY <1>0, <2>2, <2>3, RelationsStay
    <2>5. CountsAgree'
      BY <1>0, <2>1, <2>2 DEF IInv, CountsAgree
    <2> QED
      BY <1>0, <2>1, <2>2, <2>4, <2>5, PhaseKeeps
  <1> QED
    BY <1>1, <1>2

LEMMA ComponentsFoundKeeps == ASSUME IInv, ComponentsFound PROVE IInv'
  <1>0. pc = "components" /\ UNCHANGED <<files, gathered, hierarchy, seen, tables>>
    BY DEF ComponentsFound
  <1>1. CASE pc' = "rejected"
    <2>1. UNCHANGED line
      BY <1>1 DEF ComponentsFound, Goes
    <2> QED
      BY <1>0, <1>1, <2>1, EndKeeps
  <1>2. CASE pc' # "rejected"
    <2>1. pc' = "accepted" /\ line' = 0
      BY <1>2 DEF ComponentsFound, Reject, Goes
    <2>2. /\ pc \in HierarchyKnown /\ pc' \in HierarchyKnown /\ pc \in Gathering /\ pc' \in Gathering
          /\ pc \in NodesKnown /\ pc \in RelationsKnown /\ pc' \in RelationsKnown
      BY <1>0, <2>1 DEF Gathering, RelationsKnown, HierarchyKnown, ReferencesKnown, NodesKnown
    <2>3. ReadRelations' = ReadRelations
      BY <1>0, <2>1, <2>2 DEF ReadRelations
    <2>4. RelationsGathered'
      BY <1>0, <2>2, <2>3, RelationsStay
    <2>5. CountsAgree'
      BY <1>0, <2>2 DEF IInv, CountsAgree
    <2> QED
      BY <1>0, <2>1, <2>2, <2>4, <2>5, PhaseKeeps
  <1> QED
    BY <1>1, <1>2

--------------------------------------------------------------------------------
(* Load, on what is accepted. *)

(* No line and no limit is repeated in what has come so far. *)
LEMMA NodeLinesRead ==
  ASSUME IInv, pc \in ReferencesKnown
  PROVE  /\ pc \in Gathering /\ pc \in NodesKnown
         /\ ReadLines = Lines /\ DOMAIN nodeByID = Defined
         /\ LinesDiffer(Lines) /\ LimitsDiffer(Lines)
  <1>1. pc \in Gathering /\ pc \in NodesKnown /\ pc # "nodes"
    BY DEF ReferencesKnown, NodesKnown, Gathering
  <1>2. ReadLines = Lines
    BY <1>1 DEF ReadLines, Lines
  <1>3. DOMAIN nodeByID = Defined
    BY <1>1, <1>2 DEF IInv, NodesGathered, Defined
  <1>4. duplicateErr = None
    BY DEF IInv, ReferencesChecked
  <1> QED
    BY <1>1, <1>2, <1>3, <1>4 DEF IInv, NoDuplicateMissed

LEMMA AllLinesRead ==
  ASSUME IInv, pc \in RelationsKnown
  PROVE  /\ pc \in Gathering /\ pc \in NodesKnown /\ pc \in ReferencesKnown /\ pc \in HierarchyKnown
         /\ ReadLines = Lines /\ ReadRelations = DOMAIN relationLines
         /\ DOMAIN nodeByID = Defined /\ settled = Defined
         /\ LinesDiffer(Lines) /\ LimitsDiffer(Lines)
  <1>1. /\ pc \in ReferencesKnown /\ pc \in HierarchyKnown /\ pc # "relations"
    BY DEF RelationsKnown, HierarchyKnown, ReferencesKnown, NodesKnown, Gathering
  <1>2. ReadRelations = DOMAIN relationLines
    BY <1>1 DEF ReadRelations
  <1>3. settled = DOMAIN nodeByID
    BY <1>1 DEF IInv, ChainsSettled
  <1> QED
    BY <1>1, <1>2, <1>3, NodeLinesRead

LEMMA IdentityFits ==
  ASSUME NEW l, LineProblem(l) = None, l.explicit # None
  PROVE  l.explicit[1] # "default" /\ l.id = Canonical[l.explicit]
  BY NoneAssumption DEF LineProblem, Kinds, IdentityInvalid

LEMMA IdentitiesDiffer ==
  ASSUME IInv, pc \in RelationsKnown, NEW i \in Lines, NEW j \in Lines,
         PublicIdentity(nodeLines[i]) = PublicIdentity(nodeLines[j])
  PROVE  i = j
  <1>1. LineProblem(nodeLines[i]) = None /\ LineProblem(nodeLines[j]) = None
    BY AllLinesRead DEF IInv, NodesGathered
  <1>2. nodeLines[i].id = nodeLines[j].id => i = j
    BY AllLinesRead DEF LinesDiffer
  <1>3. CASE nodeLines[i].explicit = None /\ nodeLines[j].explicit = None
    BY <1>2, <1>3 DEF PublicIdentity
  <1>4. CASE nodeLines[i].explicit # None /\ nodeLines[j].explicit # None
    BY <1>1, <1>2, <1>4, IdentityFits DEF PublicIdentity
  <1>5. CASE nodeLines[i].explicit = None /\ nodeLines[j].explicit # None
    BY <1>1, <1>5, IdentityFits DEF PublicIdentity
  <1>6. CASE nodeLines[i].explicit # None /\ nodeLines[j].explicit = None
    BY <1>1, <1>6, IdentityFits DEF PublicIdentity
  <1> QED
    BY <1>3, <1>4, <1>5, <1>6

LEMMA KeysHold ==
  ASSUME IInv, pc = "accepted"
  PROVE  ForeignKeysHold /\ \A t \in DOMAIN Rows : IsInjective(Rows[t])
  <1>0. pc \in RelationsKnown /\ pc # "relations"
    BY DEF RelationsKnown, HierarchyKnown, ReferencesKnown, NodesKnown, Gathering
  <1>1. nodeLines \in Seq(NodeLines) /\ Lines = DOMAIN nodeLines
    BY DEF IInv, Typed, Lines
  <1>2. Rows.node = [i \in Lines |-> nodeLines[i].id]
        /\ Rows.node_identity = [i \in Lines |-> PublicIdentity(nodeLines[i])]
        /\ Rows.limit_fact = FlattenSeq([i \in Lines |-> nodeLines[i].limits])
        /\ Rows.relation = [i \in DOMAIN relationLines |-> relationID(relationLines[i])]
        /\ DOMAIN Rows = {"node", "node_identity", "limit_fact", "relation"}
    BY <1>1 DEF Rows
  <1>3. IsInjective(Rows.node)
    BY <1>0, <1>2, AllLinesRead DEF IsInjective, LinesDiffer
  <1>4. IsInjective(Rows.node_identity)
    BY <1>0, <1>2, IdentitiesDiffer DEF IsInjective
  <1>5. IsInjective(Rows.limit_fact)
    <2> DEFINE limits == [i \in Lines |-> nodeLines[i].limits]
    <2>1. \A i \in Lines : nodeLines[i].limits \in Seq(Limit)
      <3>1. ASSUME NEW i \in Lines PROVE nodeLines[i] \in NodeLines
        BY <1>1
      <3> QED
        BY <3>1 DEF NodeLines
    <2>2. limits \in Seq(Seq(Limit)) /\ DOMAIN limits = Lines
      BY <1>1, <2>1
    <2>3. \A i \in Lines : limits[i] = nodeLines[i].limits
      OBVIOUS
    <2> HIDE DEF limits
    <2>4. \A i \in DOMAIN limits : IsInjective(limits[i])
      BY <1>0, <2>2, <2>3, AllLinesRead DEF LimitsDiffer
    <2>5. \A i, j \in DOMAIN limits : i # j => ToSet(limits[i]) \cap ToSet(limits[j]) = {}
      BY <1>0, <2>2, <2>3, AllLinesRead DEF LimitsDiffer
    <2>6. IsInjective(FlattenSeq(limits))
      BY <2>2, <2>4, <2>5, FlattenInjective
    <2> QED
      BY <1>2, <2>6 DEF limits
  <1>6. IsInjective(Rows.relation)
    BY <1>0, <1>2, AllLinesRead DEF IInv, RelationsGathered, IsInjective
  <1>7. ForeignKeysHold
    <2>1. ToSet(Rows.node) = Defined
      BY <1>2 DEF ToSet, Defined
    <2>2. ASSUME NEW i \in Lines PROVE nodeLines[i].parent \in Defined \cup {None}
      <3>1. nodeLines[i].id \in DOMAIN nodeByID
        BY <1>0, AllLinesRead DEF Defined
      <3>2. PICK k \in Lines : nodeLines[k].id = nodeLines[i].id /\ OfLine(nodeByID[nodeLines[i].id], k)
        BY <1>0, <3>1, AllLinesRead DEF IInv, NodesGathered
      <3>3. k = i
        BY <1>0, <3>2, AllLinesRead DEF LinesDiffer
      <3>4. nodeByID[nodeLines[i].id].parent \in DOMAIN nodeByID \cup {None}
        BY <1>0, <3>1, AllLinesRead, ParentsDefined
      <3> QED
        BY <1>0, <3>2, <3>3, <3>4, AllLinesRead DEF OfLine
    <2>3. \A i \in DOMAIN relationLines : {relationLines[i].from, relationLines[i].to} \subseteq Defined
      BY <1>0, AllLinesRead DEF IInv, RelationsGathered
    <2> QED
      BY <1>1, <2>1, <2>2, <2>3 DEF ForeignKeysHold
  <1> HIDE DEF Rows
  <1> QED
    BY <1>2, <1>3, <1>4, <1>5, <1>6, <1>7

LEMMA LoadKeeps == ASSUME IInv, Load PROVE IInv'
  <1>1. /\ pc = "accepted" /\ UNCHANGED <<files, line, gathered, hierarchy, seen>>
        /\ pc' = "loaded" /\ tables' = Rows
    BY KeysHold DEF Load
  <1>2. /\ pc \in HierarchyKnown /\ pc' \in HierarchyKnown /\ pc \in Gathering /\ pc' \in Gathering
        /\ pc \in NodesKnown /\ pc \in RelationsKnown /\ pc' \in RelationsKnown
    BY <1>1 DEF Gathering, RelationsKnown, HierarchyKnown, ReferencesKnown, NodesKnown
  <1>3. ReadRelations' = ReadRelations
    BY <1>1, <1>2 DEF ReadRelations
  <1>4. RelationsGathered'
    BY <1>1, <1>2, <1>3, RelationsStay
  <1>5. CountsAgree'
    BY <1>1, <1>2 DEF IInv, CountsAgree
  <1>6. line' \in Nat
    BY <1>1 DEF IInv, Typed
  <1> QED
    BY <1>1, <1>2, <1>4, <1>5, <1>6, PhaseKeeps

--------------------------------------------------------------------------------
(* Every step. *)

LEMMA NextKeeps == IInv /\ [Next]_vars => IInv'
  <1> SUFFICES ASSUME IInv, [Next]_vars PROVE IInv'
    OBVIOUS
  <1>1. CASE ReadManifest
    BY <1>1, ReadManifestKeeps
  <1>2. CASE ReadNode
    BY <1>2, ReadNodeKeeps
  <1>3. CASE NodesRead
    BY <1>3, NodesReadKeeps
  <1>4. CASE CheckReference
    BY <1>4, CheckReferenceKeeps
  <1>5. CASE StartChain
    BY <1>5, StartChainKeeps
  <1>6. CASE Climb
    BY <1>6, ClimbKeeps
  <1>7. CASE ChainCloses
    BY <1>7, EndKeeps DEF ChainCloses, Reject
  <1>8. CASE SettleChain
    BY <1>8, SettleChainKeeps
  <1>9. CASE HierarchyChecked
    BY <1>9, HierarchyCheckedKeeps
  <1>10. CASE ReadRelation
    BY <1>10, ReadRelationKeeps
  <1>11. CASE RelationsRead
    BY <1>11, RelationsReadKeeps
  <1>12. CASE VisitRoot
    BY <1>12, SameKeeps DEF VisitRoot
  <1>13. CASE LookAtNeighbour
    BY <1>13, SameKeeps DEF LookAtNeighbour
  <1>14. CASE Leave
    BY <1>14, SameKeeps DEF Leave
  <1>15. CASE ComponentsFound
    BY <1>15, ComponentsFoundKeeps
  <1>16. CASE Load
    BY <1>16, LoadKeeps
  <1>17. CASE Fail
    BY <1>17, EndKeeps DEF Fail
  <1>18. CASE UNCHANGED vars
    BY <1>18, SameKeeps DEF vars
  <1> QED
    BY <1>1, <1>2, <1>3, <1>4, <1>5, <1>6, <1>7, <1>8, <1>9, <1>10, <1>11, <1>12, <1>13, <1>14,
       <1>15, <1>16, <1>17, <1>18 DEF Next

--------------------------------------------------------------------------------
(* What the invariant says of the files that are loaded. *)

(* The first definition of a node, the only one, is what nodeByID holds. *)
LEMMA DefinitionKnown ==
  ASSUME IInv, pc \in ReferencesKnown, NEW id \in Defined
  PROVE  Definition(id).type = nodeByID[id].type /\ Definition(id).parent = nodeByID[id].parent
  <1>1. PICK i \in Lines : nodeLines[i].id = id /\ OfLine(nodeByID[id], i)
    BY NodeLinesRead DEF IInv, NodesGathered
  <1>2. Lines = 1..Len(nodeLines) /\ Len(nodeLines) \in Nat
    BY DEF IInv, Typed, Lines
  <1>3. \A k \in 1..(i - 1) : k \in Lines /\ k # i
    BY <1>2
  <1>4. i \in Defining
    BY <1>1, <1>3, NodeLinesRead DEF Defining, LinesDiffer
  <1>5. \A k \in Defining : nodeLines[k].id = id => k = i
    BY <1>1, NodeLinesRead DEF Defining, LinesDiffer
  <1>6. (CHOOSE k \in Defining : nodeLines[k].id = id) = i
    BY <1>1, <1>4, <1>5
  <1> QED
    BY <1>1, <1>6 DEF Definition, OfLine

LEMMA LoadedHierarchy ==
  ASSUME IInv, pc \in RelationsKnown
  PROVE  Search!ValidatedHierarchy
  <1> DEFINE type == [n \in Node |-> IF n \in Defined THEN Definition(n).type ELSE "management_unit"]
             up == [n \in Node |-> IF n \in Defined THEN Definition(n).parent ELSE None]
  <1>1. Defined \subseteq Node /\ DOMAIN nodeByID = Defined /\ None \notin Node /\ pc \in ReferencesKnown
    BY AllLinesRead, NodesTyped, CanonicalAssumption
  <1>2. \A n \in Defined : type[n] = nodeByID[n].type /\ up[n] = nodeByID[n].parent
    BY <1>1, DefinitionKnown
  <1>3. \A n \in Node \ Defined : up[n] = None
    OBVIOUS
  <1> HIDE DEF type, up
  <1>4. ASSUME NEW n \in Node, up[n] # None
        PROVE  Search!AllowedParent(type[n], type[up[n]])
    <2>1. n \in Defined /\ nodeByID[n].parent # None
      BY <1>2, <1>3, <1>4
    <2>2. ParentProblem(nodeByID[n]) = None /\ nodeByID[n].parent \in Defined
      BY <1>1, <2>1, AllLinesRead, ParentsDefined DEF IInv, ReferencesChecked
    <2>3. allowedParent(nodeByID[n].type, nodeByID[nodeByID[n].parent].type)
      BY <1>1, <2>1, <2>2, NoneAssumption DEF ParentProblem, Kinds
    <2> QED
      BY <1>2, <2>1, <2>2, <2>3 DEF allowedParent, Search!AllowedParent
  <1>5. ASSUME NEW S \in SUBSET Node, S # {} PROVE \E n \in S : up[n] \notin S
    <2>1. CASE S \subseteq Defined
      BY <1>2, <1>5, <2>1, AllLinesRead DEF IInv, ChainsSettled, Grounded
    <2>2. CASE ~(S \subseteq Defined)
      BY <1>1, <1>3, <2>2
    <2> QED
      BY <2>1, <2>2
  <1> QED
    BY <1>4, <1>5 DEF Search!ValidatedHierarchy, type, up

LEMMA InvariantSuffices == IInv => AcceptedLoads
  <1> SUFFICES ASSUME IInv PROVE AcceptedLoads
    OBVIOUS
  <1>1. pc # "refused"
    BY DEF IInv, Typed, Pcs, Gathering
  <1>2. ASSUME pc = "loaded"
        PROVE  /\ Search!ValidatedHierarchy
               /\ Len(tables.node) = manifest.nodeCount
               /\ Len(tables.relation) = manifest.relationCount
               /\ \A i, j \in Lines : tables.node_identity[i] = tables.node_identity[j] => i = j
               /\ \A i \in Lines : nodeLines[i].explicit = None => tables.node_identity[i][1] = "default"
    <2>1. pc \in RelationsKnown
      BY <1>2 DEF RelationsKnown, HierarchyKnown, ReferencesKnown, NodesKnown, Gathering
    <2>2. tables = Rows
      BY <1>2 DEF IInv
    <2>3. Len(tables.node) = Len(nodeLines) /\ Len(tables.relation) = Len(relationLines)
      BY <2>2 DEF Rows, IInv, Typed
    <2>4. \A i \in Lines : tables.node_identity[i] = PublicIdentity(nodeLines[i])
      BY <2>2 DEF Rows, Lines
    <2>5. manifest.nodeCount = Len(nodeLines) /\ manifest.relationCount = Len(relationLines)
      BY <2>1, AllLinesRead DEF IInv, CountsAgree
    <2>6. \A i \in Lines : nodeLines[i].explicit = None => tables.node_identity[i][1] = "default"
      <3>1. ASSUME NEW i \in Lines, nodeLines[i].explicit = None PROVE PublicIdentity(nodeLines[i])[1] = "default"
        BY <3>1 DEF PublicIdentity
      <3> QED
        BY <2>4, <3>1
    <2> QED
      BY <2>1, <2>3, <2>4, <2>5, <2>6, LoadedHierarchy, IdentitiesDiffer
  <1> QED
    BY <1>1, <1>2 DEF AcceptedLoads

(* Validate's invariant, whatever the files are. *)
THEOREM ValidateInvariant == Spec => []IInv
  <1>1. Init => IInv
    BY FreshIInv DEF Init, Begin, Fresh
  <1> QED
    BY <1>1, NextKeeps, PTL DEF Spec

(* What Validate accepts Load stores without violating a key, each node under an
   identity of its own, as many rows as the manifest says; and the nodes are a
   hierarchy as the search takes it for granted. *)
THEOREM AcceptedIsLoaded == Spec => []AcceptedLoads
  <1> QED
    BY ValidateInvariant, InvariantSuffices, PTL

--------------------------------------------------------------------------------
(* With the archive before it. *)

LEMMA ReadingKeeps ==
  ASSUME SnapshotIInv, [SnapshotNext]_snapshotVars
  PROVE  SnapshotIInv'
  <1>1. CASE IInv
    <2>1. pc \notin ReadingPcs
      BY <1>1 DEF IInv, Typed, Pcs, Gathering, ReadingPcs
    <2>2. ~Archive!ArchiveNext
      BY <2>1 DEF ReadingPcs, Archive!ArchiveNext, Archive!Receive, Archive!Received, Archive!Open,
         Archive!HeaderMissing, Archive!ReadHeader, Archive!ReadEnd, Archive!CopyUnit,
         Archive!EntryBreaksOff, Archive!EntryEnds, Archive!ReadPadding, Archive!PaddingEnds,
         Archive!ReadFails
    <2>3. [Next]_vars
      BY <2>2 DEF SnapshotNext, snapshotVars
    <2> QED
      BY <1>1, <2>3, NextKeeps DEF SnapshotIInv
  <1>2. CASE pc \in ReadingPcs /\ Fresh
    <2>1. ~Next
      BY <1>2 DEF ReadingPcs, Next, ReadManifest, ReadNode, NodesRead, CheckReference, StartChain,
         Climb, ChainCloses, SettleChain, HierarchyChecked, ReadRelation, RelationsRead, VisitRoot,
         LookAtNeighbour, Leave, ComponentsFound, Load, Fail
    <2>2. CASE Archive!ArchiveNext /\ UNCHANGED <<files, line, gathered, hierarchy, graph, tarjan, tables>>
      <3>1. Fresh'
        BY <1>2, <2>2 DEF Fresh
      <3>2. pc' \in ReadingPcs \cup {"manifest", "failed"}
        BY <1>2, <2>2 DEF ReadingPcs, Archive!ArchiveNext, Archive!Receive, Archive!Received,
           Archive!Open, Archive!HeaderMissing, Archive!ReadHeader, Archive!ReadEnd, Archive!CopyUnit,
           Archive!EntryBreaksOff, Archive!EntryEnds, Archive!ReadPadding, Archive!PaddingEnds,
           Archive!ReadFails, Archive!RejectArchive, Archive!Continues
      <3>3. CASE pc' \in ReadingPcs
        BY <3>1, <3>3 DEF SnapshotIInv
      <3>4. CASE pc' = "manifest"
        <4>1. (Fresh /\ pc = "manifest" => IInv)'
          BY FreshIInv, PTL
        <4> QED
          BY <3>1, <3>4, <4>1 DEF SnapshotIInv
      <3>5. CASE pc' = "failed"
        <4>1. pc' \notin Gathering /\ pc' \notin {"manifest", "nodes", "references", "relations", "loaded"}
          BY <3>5 DEF Gathering
        <4>2. Typed'
          BY <3>1, <3>5, <4>1 DEF Typed, Fresh, Pcs
        <4>3. IInv'
          BY <4>1, <4>2 DEF IInv, NodesGathered, NoDuplicateMissed, CountsAgree, ReferencesChecked,
             ChainsSettled, RelationsGathered, NodesKnown, ReferencesKnown, HierarchyKnown, RelationsKnown
        <4> QED
          BY <4>3 DEF SnapshotIInv
      <3> QED
        BY <3>2, <3>3, <3>4, <3>5
    <2>3. CASE UNCHANGED snapshotVars
      BY <1>2, <2>3 DEF SnapshotIInv, Fresh, snapshotVars, vars
    <2> QED
      BY <2>1, <2>2, <2>3 DEF SnapshotNext
  <1> QED
    BY <1>1, <1>2 DEF SnapshotIInv

(* The same of an upload, from the receipt of its archive on: whatever the archive
   is, Validate begins with nothing gathered. *)
THEOREM UploadedIsLoaded == SnapshotSpec => []AcceptedLoads
  <1>1. SnapshotInit => SnapshotIInv
    BY DEF SnapshotInit, Begin, Fresh, SnapshotIInv, ReadingPcs
  <1>2. SnapshotIInv /\ [SnapshotNext]_snapshotVars => SnapshotIInv'
    BY ReadingKeeps
  <1>3. SnapshotIInv => AcceptedLoads
    BY InvariantSuffices DEF SnapshotIInv, AcceptedLoads, ReadingPcs
  <1> QED
    BY <1>1, <1>2, <1>3, PTL DEF SnapshotSpec

--------------------------------------------------------------------------------
(* The archive. *)

Entries == upload.entries
EndOf(i) == Archive!UpTo(i)
HeaderAt(i) == EndOf(i - 1) + 1

HeaderSound(i) ==
  /\ Entries[i].regular
  /\ Entries[i].name \in Archive!Names
  /\ \A j \in 1..(i - 1) : Entries[j].name # Entries[i].name
Passed(i) == HeaderSound(i) /\ Archive!LineFaults(i) = {}

(* How far the scan of a body is: u bytes are read, the last l of them in line n,
   and v says whether these are all text. *)
Scanned(b, u, n, l, v) ==
  /\ u \in 0..Len(b)
  /\ l \in 0..u
  /\ n = Archive!NewlinesBefore(b, u + 1) + 1
  /\ \A k \in (u - l + 1)..u : b[k] # "newline"
  /\ l < u => b[u - l] = "newline"
  /\ v \in BOOLEAN
  /\ v <=> \A k \in (u - l + 1)..u : b[k] # "invalid"

(* No line so far is too long, and what is complete is text. *)
SoFarSound(b, u, l) ==
  /\ l <= MaxNDJSONLineBytes
  /\ \A m \in 1..(Len(b) + 1) : Archive!TooMuch(b, m) \notin 1..u
  /\ \A k \in 1..(u - l) : b[k] # "invalid"

(* Before anything is extracted. *)
Untouched ==
  /\ <<read, entry, unit, lineNumber, lineLength>> = <<0, 1, 0, 1, 0>>
  /\ lineValid = TRUE /\ nonZero = FALSE /\ names = {}

(* The entries before `entry` had no fault and are in their files. *)
Extracted ==
  /\ upload.compressed <= MaxCompressedArchiveBytes /\ upload.gzip
  /\ entry \in 1..(Len(Entries) + 1)
  /\ read <= upload.delivered /\ read <= MaxExtractedArchiveBytes
  /\ names = {Entries[j].name : j \in 1..(entry - 1)}
  /\ copied \in [Archive!Names -> Nat]
  /\ \A j \in 1..(entry - 1) : Passed(j) /\ copied[Entries[j].name] = Len(Entries[j].body)

BetweenEntries ==
  /\ Extracted
  /\ \A name \in Archive!Names \ names : copied[name] = 0
  /\ read = EndOf(entry - 1)
  /\ unit = 0
  /\ lineNumber = 1 /\ lineLength = 0 /\ lineValid = TRUE /\ nonZero = FALSE

WithinEntry ==
  LET b == Entries[entry].body IN
  /\ Extracted
  /\ entry <= Len(Entries) /\ HeaderSound(entry)
  /\ \A name \in Archive!Names \ names : copied[name] = IF name = Entries[entry].name THEN unit ELSE 0
  /\ read = HeaderAt(entry) + unit
  /\ nonZero = FALSE
  /\ Scanned(b, unit, lineNumber, lineLength, lineValid)
  /\ Entries[entry].name # "manifest.json" => SoFarSound(b, unit, lineLength)

(* The end marker is read, or the archive has ended without one. *)
BehindEntries ==
  /\ Extracted
  /\ \/ /\ entry = Len(Entries) + 1
        /\ unit \in 1..Len(upload.tail) /\ upload.tail[1] = "end"
        /\ read = EndOf(Len(Entries)) + unit
        /\ nonZero \in BOOLEAN
        /\ nonZero <=> \E k \in 2..unit : upload.tail[k] # "zero"
     \/ /\ unit = 0 /\ nonZero = FALSE
        /\ upload.sound
        /\ read = EndOf(entry - 1) /\ read = upload.delivered

ArchiveIInv ==
  /\ upload \in Archive!Uploads /\ Archive!WellFormed
  /\ received \in 0..upload.compressed
  /\ pc = "receive" => Untouched
  /\ pc = "open" => Untouched /\ upload.compressed <= MaxCompressedArchiveBytes
  /\ pc = "header" => BetweenEntries
  /\ pc = "entry" => WithinEntry
  /\ pc = "padding" => BehindEntries
  /\ ArchiveVerdictExact

(* A function of k that is given by its value for k - 1. *)
Follows(f, n, a, step) == f[0] = a /\ \A k \in 1..n : f[k] = step[k][f[k - 1]]

(* A value can be computed by a given number of steps. *)
LEMMA Recursion ==
  ASSUME NEW X, NEW n \in Nat, NEW a \in X, NEW step \in [1..n -> [X -> X]]
  PROVE  \E f \in [0..n -> X] : Follows(f, n, a, step)
  <1> DEFINE Upto(f, m) == f[0] = a /\ \A k \in 1..m : f[k] = step[k][f[k - 1]]
             K == {m \in Nat : m <= n => \E f \in [0..n -> X] : Upto(f, m)}
  <1>1. 0 \in K
    <2>1. Upto([k \in 0..n |-> a], 0)
      OBVIOUS
    <2> HIDE DEF Upto
    <2> QED
      BY <2>1
  <1>2. ASSUME NEW m \in Nat, m \in K PROVE m + 1 \in K
    <2> DEFINE j == m + 1
    <2>1. CASE ~(j <= n)
      BY <2>1
    <2>2. CASE j <= n
      <3>1. PICK f \in [0..n -> X] : Upto(f, m)
        <4> HIDE DEF Upto
        <4> QED
          BY <1>2, <2>2
      <3>2. j \in 1..n /\ j \in 0..n /\ m \in 0..n /\ j - 1 = m /\ 1..j = 1..m \cup {j} /\ j # 0
        BY <2>2
      <3>3. \A k \in 1..m : k \in 0..n /\ k # j /\ k - 1 \in 0..n /\ k - 1 # j
        BY <2>2
      <3> HIDE DEF j
      <3> DEFINE g == [k \in 0..n |-> IF k = j THEN step[j][f[m]] ELSE f[k]]
      <3>4. step[j][f[m]] \in X
        BY <3>2
      <3>5. g \in [0..n -> X]
        BY <3>4
      <3>6. g[0] = a /\ g[j] = step[j][g[j - 1]]
        BY <3>1, <3>2
      <3>7. \A k \in 1..m : g[k] = f[k] /\ g[k - 1] = f[k - 1]
        BY <3>3
      <3> HIDE DEF g
      <3>8. \A k \in 1..j : g[k] = step[k][g[k - 1]]
        BY <3>1, <3>2, <3>6, <3>7
      <3>9. Upto(g, j)
        BY <3>6, <3>8
      <3> HIDE DEF Upto
      <3> QED
        BY <3>5, <3>9 DEF j
    <2> QED
      BY <2>1, <2>2
  <1>3. n \in K
    <2> HIDE DEF K
    <2> QED
      BY <1>1, <1>2, SetInduction
  <1> QED
    BY <1>3 DEF Follows

--------------------------------------------------------------------------------
(* Where the entries of an archive are. *)

LEMMA UploadTyped ==
  ASSUME upload \in Archive!Uploads
  PROVE  /\ Entries \in Seq([name : STRING, regular : BOOLEAN, body : Seq({"text", "invalid", "newline"})])
         /\ Len(Entries) \in Nat
         /\ \A i \in 1..Len(Entries) :
              /\ Entries[i].name \in STRING /\ Entries[i].regular \in BOOLEAN
              /\ Entries[i].body \in Seq({"text", "invalid", "newline"})
              /\ Len(Entries[i].body) \in Nat
         /\ upload.tail \in Seq({"end", "zero", "junk"}) /\ Len(upload.tail) \in Nat
         /\ upload.compressed \in Nat /\ upload.delivered \in Nat
         /\ upload.gzip \in BOOLEAN /\ upload.sound \in BOOLEAN
  <1>1. /\ Entries \in Seq([name : STRING, regular : BOOLEAN, body : Seq({"text", "invalid", "newline"})])
        /\ upload.tail \in Seq({"end", "zero", "junk"})
        /\ upload.compressed \in Nat /\ upload.delivered \in Nat
        /\ upload.gzip \in BOOLEAN /\ upload.sound \in BOOLEAN
    BY DEF Archive!Uploads, Entries
  <1> DEFINE B == {"text", "invalid", "newline"}
             R == [name : STRING, regular : BOOLEAN, body : Seq(B)]
  <1>2. \A r \in R : r.name \in STRING /\ r.regular \in BOOLEAN /\ r.body \in Seq(B)
    <2> HIDE DEF B
    <2> QED
      OBVIOUS
  <1>3. Entries \in Seq(R)
    BY <1>1
  <1>4. \A i \in 1..Len(Entries) : Entries[i] \in R
    <2> HIDE DEF R
    <2> QED
      BY <1>3, ElementOfSeq
  <1>5. Len(Entries) \in Nat /\ Len(upload.tail) \in Nat
    <2> DEFINE D == {"end", "zero", "junk"}
    <2>1. upload.tail \in Seq(D)
      BY <1>1
    <2> HIDE DEF R, D
    <2> QED
      BY <1>3, <2>1, LenProperties
  <1>6. \A i \in 1..Len(Entries) : Entries[i].body \in Seq(B) /\ Len(Entries[i].body) \in Nat
    <2> HIDE DEF B
    <2> QED
      BY <1>2, <1>4, LenProperties
  <1>7. \A i \in 1..Len(Entries) : Entries[i].name \in STRING /\ Entries[i].regular \in BOOLEAN
    BY <1>2, <1>4
  <1> QED
    BY <1>1, <1>5, <1>6, <1>7

(* One unit for the header of an entry, and one for each byte of it. *)
LEMMA UpToIs ==
  ASSUME upload \in Archive!Uploads
  PROVE  /\ EndOf(0) = 0
         /\ \A i \in 0..Len(Entries) : EndOf(i) \in Nat
         /\ \A i \in 1..Len(Entries) : EndOf(i) = EndOf(i - 1) + 1 + Len(Entries[i].body)
  <1> DEFINE n == Len(Entries)
             size(i) == 1 + Len(Entries[i].body)
             Is(g) == g = [k \in 0..n |-> IF k = 0 THEN 0 ELSE g[k - 1] + 1 + Len(Entries[k].body)]
             sum == CHOOSE g : Is(g)
             step == [k \in 1..n |-> [x \in Nat |-> x + 1 + Len(Entries[k].body)]]
  <1>1. n \in Nat /\ \A i \in 1..n : Len(Entries[i].body) \in Nat
    BY UploadTyped
  <1>2. \A i : EndOf(i) = sum[i]
    BY Zenon DEF EndOf, Archive!UpTo, Archive!entries, Entries
  <1>3. step \in [1..n -> [Nat -> Nat]]
    <2>1. ASSUME NEW c \in Nat PROVE [x \in Nat |-> x + 1 + c] \in [Nat -> Nat]
      OBVIOUS
    <2>2. \A k \in 1..n : [x \in Nat |-> x + 1 + Len(Entries[k].body)] \in [Nat -> Nat]
      BY <1>1, <2>1
    <2> HIDE DEF n
    <2> QED
      BY <2>2
  <1>4. PICK f \in [0..n -> Nat] : f[0] = 0 /\ \A k \in 1..n : f[k] = step[k][f[k - 1]]
    <2> DEFINE Y == Nat
               zero == 0
    <2>1. zero \in Y /\ n \in Nat /\ step \in [1..n -> [Y -> Y]]
      BY <1>1, <1>3
    <2> HIDE DEF step, n, Y, zero
    <2>2. \E f \in [0..n -> Y] : Follows(f, n, zero, step)
      BY <2>1, Recursion
    <2> QED
      BY <2>2 DEF Y, zero, Follows
  <1> HIDE DEF n
  <1>5. \A k \in 1..n : k - 1 \in 0..n /\ k \in 0..n /\ k # 0
    BY <1>1
  <1>6. \A k \in 1..n : f[k] = f[k - 1] + 1 + Len(Entries[k].body)
    BY <1>4, <1>5
  <1>7. Is(f)
    BY <1>1, <1>4, <1>6
  <1>8. Is(sum)
    <2> HIDE DEF Is
    <2> QED
      BY <1>7
  <1>9. \A k \in 0..n : sum[k] = IF k = 0 THEN 0 ELSE sum[k - 1] + 1 + Len(Entries[k].body)
    <2> HIDE DEF sum
    <2> QED
      BY <1>8
  <1> HIDE DEF Is, sum, step
  <1> DEFINE K == {k \in Nat : k <= n => sum[k] = f[k]}
  <1>10. 0 \in K
    BY <1>1, <1>4, <1>9
  <1>11. ASSUME NEW k \in Nat, k \in K PROVE k + 1 \in K
    <2> SUFFICES ASSUME k + 1 <= n PROVE sum[k + 1] = f[k + 1]
      OBVIOUS
    <2>1. k + 1 \in 1..n /\ k + 1 \in 0..n /\ k + 1 # 0 /\ k + 1 - 1 = k /\ k <= n
      BY <1>1
    <2>2. sum[k] = f[k]
      BY <1>11, <2>1
    <2> QED
      BY <1>6, <1>9, <2>1, <2>2
  <1>12. Nat \subseteq K
    <2> HIDE DEF K
    <2> QED
      BY <1>10, <1>11, SetInduction
  <1>13. \A k \in 0..n : sum[k] = f[k]
    BY <1>1, <1>12
  <1>14. /\ EndOf(0) = 0
         /\ \A i \in 0..n : EndOf(i) \in Nat
         /\ \A i \in 1..n : EndOf(i) = EndOf(i - 1) + 1 + Len(Entries[i].body)
    <2>1. \A i \in 0..n : EndOf(i) = f[i]
      BY <1>2, <1>13
    <2>2. 0 \in 0..n
      BY <1>1
    <2> HIDE DEF EndOf
    <2> QED
      BY <1>4, <1>5, <1>6, <2>1, <2>2
  <1> QED
    BY <1>14 DEF n

(* So each entry is behind the ones before it. *)
LEMMA UpGrows ==
  ASSUME upload \in Archive!Uploads, NEW i \in 0..Len(Entries), NEW j \in 0..Len(Entries), i < j
  PROVE  EndOf(i) < HeaderAt(j) /\ HeaderAt(j) <= EndOf(j) /\ EndOf(i) < EndOf(j)
  <1> DEFINE n == Len(Entries)
             K == {k \in Nat : i + k <= n => EndOf(i) <= EndOf(i + k)}
  <1>1. /\ n \in Nat /\ \A k \in 0..n : EndOf(k) \in Nat
        /\ \A k \in 1..n : EndOf(k - 1) \in Nat /\ Len(Entries[k].body) \in Nat
                           /\ EndOf(k) = EndOf(k - 1) + 1 + Len(Entries[k].body)
    <2>1. n \in Nat /\ \A k \in 1..n : k - 1 \in 0..n
      BY UploadTyped
    <2> QED
      BY <2>1, UploadTyped, UpToIs
  <1> HIDE DEF n
  <1>2. i \in 0..n /\ j \in 0..n
    BY DEF n
  <1>3. 0 \in K
    BY <1>1, <1>2
  <1>4. ASSUME NEW k \in Nat, k \in K PROVE k + 1 \in K
    <2> SUFFICES ASSUME i + (k + 1) <= n PROVE EndOf(i) <= EndOf(i + (k + 1))
      OBVIOUS
    <2> DEFINE m == i + (k + 1)
    <2>1. m \in 1..n /\ m - 1 = i + k /\ i + k <= n
      BY <1>1, <1>2
    <2>2. EndOf(i) <= EndOf(m - 1)
      BY <1>4, <2>1
    <2> HIDE DEF m
    <2>3. EndOf(m) = EndOf(m - 1) + 1 + Len(Entries[m].body) /\ Len(Entries[m].body) \in Nat
          /\ EndOf(m) \in Nat /\ EndOf(m - 1) \in Nat /\ EndOf(i) \in Nat
      BY <1>1, <1>2, <2>1
    <2>4. EndOf(i) <= EndOf(m)
      BY <2>2, <2>3
    <2> QED
      BY <2>4 DEF m
  <1>5. Nat \subseteq K
    <2> HIDE DEF K
    <2> QED
      BY <1>3, <1>4, SetInduction
  <1>6. j - 1 - i \in Nat /\ i + (j - 1 - i) = j - 1 /\ j - 1 <= n /\ j \in 1..n
    BY <1>1, <1>2
  <1>7. EndOf(i) <= EndOf(j - 1)
    BY <1>5, <1>6
  <1>8. EndOf(j) = EndOf(j - 1) + 1 + Len(Entries[j].body) /\ Len(Entries[j].body) \in Nat
        /\ EndOf(j) \in Nat /\ EndOf(j - 1) \in Nat /\ EndOf(i) \in Nat
    BY <1>1, <1>2, <1>6
  <1> QED
    BY <1>7, <1>8 DEF HeaderAt

(* What is wrong with an upload depends on the upload only. *)
LEMMA UploadStays ==
  ASSUME UNCHANGED upload
  PROVE  /\ \A i : EndOf(i)' = EndOf(i)
         /\ \A i : Archive!LineFaults(i)' = Archive!LineFaults(i)
         /\ Archive!HeaderFaults' = Archive!HeaderFaults
         /\ Archive!ArchiveFaults' = Archive!ArchiveFaults
  <1> USE DEF Archive!entries, Archive!tail, Archive!At, Archive!UpTo
  <1>1. \A i : Archive!UpTo(i)' = Archive!UpTo(i)
    OBVIOUS
  <1>2. \A i : Archive!LineFaults(i)' = Archive!LineFaults(i)
    BY SMTT(60) DEF Archive!LineFaults
  <1>3. Archive!HeaderFaults' = Archive!HeaderFaults
    BY SMTT(60) DEF Archive!HeaderFaults
  <1>4. Archive!ArchiveFaults' = Archive!ArchiveFaults
    BY SMTT(60) DEF Archive!ArchiveFaults, Archive!NoHeader, Archive!FaultIf, Archive!LineFaults,
         Archive!HeaderFaults, Archive!EndFaults, Archive!FileAt, Archive!Readable
  <1> QED
    BY <1>1, <1>2, <1>3, <1>4 DEF EndOf

--------------------------------------------------------------------------------
(* The lines of a body. *)

Newlines(b, k) == Archive!NewlinesBefore(b, k)

(* The module that is instantiated counts in the same way. *)
LEMMA CardinalitySame == \A S : Archive!Cardinality(S) = Cardinality(S)
  BY DEF Archive!Cardinality, Cardinality

LEMMA NewlinesAre ==
  ASSUME NEW b, NEW k PROVE Newlines(b, k) = Cardinality({j \in 1..(k - 1) : b[j] = "newline"})
  <1>1. Newlines(b, k) = Archive!Cardinality({j \in 1..(k - 1) : b[j] = "newline"})
    BY Zenon DEF Newlines, Archive!NewlinesBefore
  <1> DEFINE S == {j \in 1..(k - 1) : b[j] = "newline"}
  <1>2. Archive!Cardinality(S) = Cardinality(S)
    BY Zenon, CardinalitySame
  <1> QED
    BY Zenon, <1>1, <1>2

(* How many line feeds are before a byte. *)
LEMMA NewlinesCount ==
  ASSUME NEW b, NEW k \in Nat
  PROVE  /\ Newlines(b, k) \in Nat
         /\ Newlines(b, 1) = 0
         /\ k >= 1 /\ b[k] = "newline" => Newlines(b, k + 1) = Newlines(b, k) + 1
         /\ \A j \in 1..k : Newlines(b, j) <= Newlines(b, k)
         /\ \A j \in 1..k : (\A i \in j..(k - 1) : b[i] # "newline") => Newlines(b, j) = Newlines(b, k)
         /\ \A j \in 1..(k - 1) : b[j] = "newline" => Newlines(b, j) < Newlines(b, k)
  <1> DEFINE S(m) == {j \in 1..(m - 1) : b[j] = "newline"}
  <1>1. \A m : Newlines(b, m) = Cardinality(S(m))
    BY Zenon, NewlinesAre
  <1>2. ASSUME NEW m \in Nat PROVE IsFiniteSet(S(m)) /\ Cardinality(S(m)) \in Nat
    <2>1. IsFiniteSet(1..(m - 1)) /\ S(m) \in SUBSET (1..(m - 1))
      BY FS_Interval
    <2> QED
      BY <2>1, FS_Subset, FS_CardinalityType
  <1>3. S(1) = {}
    OBVIOUS
  <1>4. ASSUME NEW m \in Nat, m >= 1, b[m] = "newline" PROVE Newlines(b, m + 1) = Newlines(b, m) + 1
    <2>1. S(m + 1) = S(m) \cup {m} /\ m \notin S(m)
      BY <1>4
    <2> HIDE DEF S
    <2> QED
      BY <1>1, <1>2, <2>1, FS_AddElement
  <1>5. ASSUME NEW m \in Nat, NEW j \in 1..m PROVE Newlines(b, j) <= Newlines(b, m)
    <2>1. S(j) \in SUBSET S(m)
      OBVIOUS
    <2> HIDE DEF S
    <2> QED
      BY <1>1, <1>2, <2>1, FS_Subset
  <1>6. ASSUME NEW j \in 1..k, \A i \in j..(k - 1) : b[i] # "newline" PROVE Newlines(b, j) = Newlines(b, k)
    <2>1. S(j) = S(k)
      BY <1>6
    <2> QED
      BY <1>1, <2>1
  <1>7. ASSUME NEW j \in 1..(k - 1), b[j] = "newline" PROVE Newlines(b, j) < Newlines(b, k)
    <2>1. j \in Nat /\ j >= 1 /\ j + 1 \in 1..k /\ j + 1 \in Nat
      OBVIOUS
    <2>2. Newlines(b, j + 1) = Newlines(b, j) + 1 /\ Newlines(b, j + 1) <= Newlines(b, k)
      BY <1>4, <1>5, <1>7, <2>1
    <2>3. Newlines(b, j) \in Nat /\ Newlines(b, k) \in Nat
      BY <1>1, <1>2, <2>1
    <2> HIDE DEF S
    <2> QED
      BY <2>2, <2>3
  <1>8. Newlines(b, k) \in Nat /\ Newlines(b, 1) = 0
    BY <1>1, <1>2, <1>3, FS_EmptySet
  <1> HIDE DEF S
  <1> QED
    BY <1>4, <1>5, <1>6, <1>7, <1>8

(* The bytes that are read of line n are those that are in it, up to here. *)
LEMMA LineSoFar ==
  ASSUME NEW b, Len(b) \in Nat, NEW u, NEW l, NEW n, NEW v, Scanned(b, u, n, l, v)
  PROVE  /\ n \in 1..(Len(b) + 1)
         /\ \A k \in (u - l + 1)..(u + 1) : Newlines(b, k) = n - 1
         /\ \A k \in 1..(u - l) : Newlines(b, k) # n - 1
         /\ u < Len(b) /\ b[u + 1] = "newline" => \A k \in (u + 2)..Len(b) : Newlines(b, k) # n - 1
  <1>1. u \in Nat /\ l \in Nat /\ l <= u /\ u <= Len(b) /\ n = Newlines(b, u + 1) + 1
    BY DEF Scanned, Newlines
  <1>2. ASSUME NEW k \in (u - l + 1)..(u + 1) PROVE Newlines(b, k) = n - 1
    <2> DEFINE w == u + 1
    <2>1. \A i \in k..(w - 1) : b[i] # "newline"
      BY <1>1 DEF Scanned
    <2>2. k \in 1..w /\ w \in Nat
      BY <1>1
    <2>3. n = Newlines(b, w) + 1
      BY <1>1
    <2> HIDE DEF w
    <2>4. Newlines(b, k) = Newlines(b, w)
      BY <2>1, <2>2, NewlinesCount
    <2>5. Newlines(b, w) \in Nat
      BY <2>2, NewlinesCount
    <2> QED
      BY <2>3, <2>4, <2>5
  <1>3. ASSUME NEW k \in 1..(u - l) PROVE Newlines(b, k) # n - 1
    <2>1. b[u - l] = "newline"
      BY <1>1 DEF Scanned
    <2>2. u - l \in Nat /\ u - l \in 1..(u + 1 - 1) /\ k \in 1..(u - l) /\ u + 1 \in Nat /\ k \in Nat
      BY <1>1
    <2> DEFINE w == u + 1
               d == u - l
    <2>3. n = Newlines(b, w) + 1 /\ d \in Nat /\ w \in Nat /\ k \in 1..d /\ d \in 1..(w - 1) /\ b[d] = "newline"
      BY <1>1, <2>1, <2>2
    <2> HIDE DEF w, d
    <2>4. Newlines(b, k) <= Newlines(b, d)
      BY <2>3, NewlinesCount
    <2>5. Newlines(b, d) < Newlines(b, w)
      BY <2>3, NewlinesCount
    <2>6. Newlines(b, k) \in Nat /\ Newlines(b, d) \in Nat /\ Newlines(b, w) \in Nat
      BY <2>2, <2>3, NewlinesCount
    <2> QED
      BY <2>3, <2>4, <2>5, <2>6
  <1>4. ASSUME b[u + 1] = "newline", NEW k \in (u + 2)..Len(b) PROVE Newlines(b, k) # n - 1
    BY <1>1, <1>4, NewlinesCount
  <1>5. Newlines(b, u + 1) \in 0..u
    <2> DEFINE w == u + 1
               S == {j \in 1..(w - 1) : b[j] = "newline"}
    <2>1. IsFiniteSet(1..u) /\ Cardinality(1..u) = u
      BY <1>1, FS_Interval
    <2>3. S \in SUBSET (1..u)
      BY <1>1
    <2> HIDE DEF w
    <2>2. Newlines(b, w) = Cardinality(S)
      BY NewlinesAre
    <2> HIDE DEF S
    <2>4. Cardinality(S) <= u /\ Cardinality(S) \in Nat
      BY <2>1, <2>3, FS_Subset, FS_CardinalityType
    <2> QED
      BY <1>1, <2>2, <2>4 DEF w
  <1>6. n \in 1..(Len(b) + 1)
    BY <1>1, <1>5
  <1> QED
    BY <1>2, <1>3, <1>4, <1>6

(* The byte by which a line is too long is the one that is one too many. *)
LEMMA TooMuchIs ==
  ASSUME NEW b, Len(b) \in Nat, NEW m
  PROVE  /\ Archive!TooMuch(b, m) # 0 =>
              /\ Archive!TooMuch(b, m) \in Archive!TextOf(b, m)
              /\ Cardinality({j \in Archive!TextOf(b, m) : j <= Archive!TooMuch(b, m)}) = MaxNDJSONLineBytes + 1
         /\ \A k \in Archive!TextOf(b, m) :
              Cardinality({j \in Archive!TextOf(b, m) : j <= k}) = MaxNDJSONLineBytes + 1
                => Archive!TooMuch(b, m) = k
  <1> DEFINE T == Archive!TextOf(b, m)
             upto(k) == {j \in T : j <= k}
             over == {k \in T : Cardinality(upto(k)) = MaxNDJSONLineBytes + 1}
             c == Archive!TooMuch(b, m)
  <1>1. c = IF over = {} THEN 0 ELSE CHOOSE k \in over : TRUE
    <2> DEFINE same == {k \in T : Archive!Cardinality(upto(k)) = MaxNDJSONLineBytes + 1}
    <2>1. c = IF same = {} THEN 0 ELSE CHOOSE k \in same : TRUE
      BY Zenon DEF Archive!TooMuch
    <2>2. same = over
      <3> HIDE DEF upto, T
      <3> QED
        BY CardinalitySame
    <2> QED
      BY Zenon, <2>1, <2>2
  <1>2. T \in SUBSET (1..Len(b)) /\ IsFiniteSet(1..Len(b))
    <2>1. DOMAIN b = 1..Len(b)
      BY DEF Archive!TextOf
    <2> QED
      BY <2>1, FS_Interval DEF Archive!TextOf, Archive!LineOf
  <1> HIDE DEF T, c
  <1>3. ASSUME NEW j \in T, NEW k \in T, j < k PROVE Cardinality(upto(j)) # Cardinality(upto(k))
    <2>1. \A i \in T : i \in 1..Len(b) /\ i \in Nat
      BY <1>2
    <2>2. upto(k) \in SUBSET (1..Len(b))
      BY <2>1
    <2>3. upto(j) \in SUBSET upto(k)
      BY <1>3, <2>1
    <2>4. k \in upto(k) /\ k \notin upto(j)
      BY <1>3, <2>1
    <2>5. IsFiniteSet(upto(k))
      <3> HIDE DEF upto
      <3> QED
        BY <1>2, <2>2, FS_Subset
    <2> HIDE DEF upto
    <2> QED
      BY <2>3, <2>4, <2>5, FS_Subset
  <1>4. \A j, k \in over : j = k
    <2>1. \A j, k \in T : j \in Nat /\ k \in Nat
      BY <1>2
    <2>2. ASSUME NEW j \in over, NEW k \in over, j # k PROVE FALSE
      <3>1. j \in T /\ k \in T /\ Cardinality(upto(j)) = Cardinality(upto(k))
        OBVIOUS
      <3>2. j < k \/ k < j
        BY <2>1, <2>2, <3>1
      <3> HIDE DEF upto, over
      <3> QED
        BY <1>3, <3>1, <3>2
    <2> QED
      BY <2>2
  <1>5. c # 0 => c \in over
    <2> HIDE DEF over
    <2> QED
      BY <1>1
  <1>6. \A k \in over : c = k
    <2> HIDE DEF over
    <2> QED
      BY <1>1, <1>4
  <1> QED
    BY <1>5, <1>6 DEF T, c

Bytes == {"text", "invalid", "newline"}

LEMMA LineMembers ==
  ASSUME NEW b \in Seq(Bytes), NEW m, NEW k
  PROVE  /\ k \in Archive!LineOf(b, m) <=> k \in 1..Len(b) /\ Newlines(b, k) = m - 1
         /\ k \in Archive!TextOf(b, m) <=> k \in 1..Len(b) /\ Newlines(b, k) = m - 1 /\ b[k] # "newline"
         /\ Len(b) \in Nat
         /\ k \in 1..Len(b) => b[k] \in Bytes
  <1>1. Len(b) \in Nat /\ DOMAIN b = 1..Len(b) /\ (k \in 1..Len(b) => b[k] \in Bytes)
    <2> HIDE DEF Bytes
    <2> QED
      BY LenProperties, ElementOfSeq
  <1> QED
    BY <1>1 DEF Archive!LineOf, Archive!TextOf, Newlines

LEMMA ScanTyped ==
  ASSUME NEW b \in Seq(Bytes), NEW u, NEW l, NEW n, NEW v, Scanned(b, u, n, l, v)
  PROVE  /\ Len(b) \in Nat /\ u \in Nat /\ l \in Nat /\ l <= u /\ u <= Len(b)
         /\ n \in 1..(Len(b) + 1) /\ n \in Nat /\ v \in BOOLEAN
         /\ u < Len(b) => u + 1 \in 1..Len(b)
  <1>1. Len(b) \in Nat
    BY LineMembers
  <1>2. u \in Nat /\ l \in Nat /\ l <= u /\ u <= Len(b) /\ v \in BOOLEAN
    BY <1>1 DEF Scanned
  <1>3. n \in 1..(Len(b) + 1)
    BY <1>1, LineSoFar
  <1> QED
    BY <1>1, <1>2, <1>3

(* The last of some places. *)
LEMMA LastIs ==
  ASSUME NEW n \in Nat, NEW S \in SUBSET (1..n), S # {}
  PROVE  /\ Archive!Last(S) \in S
         /\ \A j \in S : j <= Archive!Last(S)
         /\ \A k \in S : (\A j \in S : j <= k) => Archive!Last(S) = k
  <1>1. \E k \in S : \A j \in S : j <= k
    <2>1. S \in SUBSET Nat /\ \A k \in S : k <= n
      OBVIOUS
    <2> QED
      BY <2>1, GreatestExists
  <1>2. Archive!Last(S) \in S /\ \A j \in S : j <= Archive!Last(S)
    BY <1>1 DEF Archive!Last
  <1>3. ASSUME NEW k \in S, \A j \in S : j <= k PROVE Archive!Last(S) = k
    <2> DEFINE c == Archive!Last(S)
    <2>1. c \in S /\ k \in S /\ \A j \in S : j \in Nat
      BY <1>2
    <2>2. k <= c /\ c <= k
      BY <1>2, <1>3, <2>1
    <2> HIDE DEF c
    <2>3. k = c
      BY <2>1, <2>2
    <2> QED
      BY <2>3 DEF c
  <1> QED
    BY <1>2, <1>3

(* The next byte is one too many just when the line has as many as is allowed. *)
LEMMA TooMuchNext ==
  ASSUME NEW b \in Seq(Bytes), NEW u, NEW l, NEW n, NEW v, Scanned(b, u, n, l, v), u < Len(b),
         NEW m \in 1..(Len(b) + 1)
  PROVE  Archive!TooMuch(b, m) = u + 1 <=> m = n /\ b[u + 1] # "newline" /\ l = MaxNDJSONLineBytes
  <1> DEFINE w == u + 1
             T == Archive!TextOf(b, m)
             upto == {j \in T : j <= w}
  <1>1. Len(b) \in Nat /\ u \in Nat /\ l \in Nat /\ l <= u /\ w \in 1..Len(b) /\ n \in 1..(Len(b) + 1)
    BY ScanTyped
  <1>2. /\ \A k \in (u - l + 1)..w : Newlines(b, k) = n - 1
        /\ \A k \in 1..(u - l) : Newlines(b, k) # n - 1
        /\ \A k \in (u - l + 1)..u : b[k] # "newline"
    <2>1. Len(b) \in Nat
      BY <1>1
    <2>2. /\ \A k \in (u - l + 1)..(u + 1) : Newlines(b, k) = n - 1
          /\ \A k \in 1..(u - l) : Newlines(b, k) # n - 1
      BY <2>1, LineSoFar
    <2> QED
      BY <2>2 DEF Scanned
  <1>3. \A k : k \in T <=> k \in 1..Len(b) /\ Newlines(b, k) = m - 1 /\ b[k] # "newline"
    BY LineMembers
  <1>4. w \in T <=> m = n /\ b[w] # "newline"
    BY SMTT(30), <1>1, <1>2, <1>3
  <1>5. ASSUME m = n, b[w] # "newline" PROVE Cardinality(upto) = l + 1
    <2>1. upto = (u - l + 1)..w
      <3>1. ASSUME NEW k \in upto PROVE k \in (u - l + 1)..w
        <4> HIDE DEF T
        <4>1. k \in T /\ k <= w
          OBVIOUS
        <4> QED
          BY <1>1, <1>2, <1>3, <1>5, <4>1
      <3>2. ASSUME NEW k \in (u - l + 1)..w PROVE k \in upto
        <4> HIDE DEF T
        <4>1. k \in 1..Len(b) /\ k <= w /\ Newlines(b, k) = n - 1
          BY <1>1, <1>2
        <4>2. b[k] # "newline"
          BY <1>1, <1>2, <1>5
        <4> QED
          BY <1>3, <1>5, <4>1, <4>2
      <3> QED
        BY <3>1, <3>2
    <2>2. Cardinality((u - l + 1)..w) = l + 1
      BY <1>1, FS_Interval
    <2> QED
      BY Zenon, <2>1, <2>2
  <1>6. ASSUME Archive!TooMuch(b, m) = w PROVE m = n /\ b[w] # "newline" /\ l = MaxNDJSONLineBytes
    <2>1. w # 0
      BY <1>1
    <2>2. w \in T /\ Cardinality(upto) = MaxNDJSONLineBytes + 1
      BY <1>1, <1>6, <2>1, TooMuchIs
    <2>3. Cardinality(upto) = l + 1
      BY <1>4, <1>5, <2>2
    <2> QED
      BY <1>1, <1>4, <2>2, <2>3, SizeAssumption
  <1>7. ASSUME m = n, b[w] # "newline", l = MaxNDJSONLineBytes PROVE Archive!TooMuch(b, m) = w
    <2>1. w \in T /\ Cardinality(upto) = MaxNDJSONLineBytes + 1
      BY <1>4, <1>5, <1>7
    <2> QED
      BY <1>1, <2>1, TooMuchIs
  <1> QED
    BY <1>6, <1>7

(* What the next byte makes of the scan. *)
LEMMA ScanGoesOn ==
  ASSUME NEW b \in Seq(Bytes), NEW u, NEW l, NEW n, NEW v, Scanned(b, u, n, l, v), u < Len(b),
         NEW ends \in BOOLEAN, ends <=> b[u + 1] = "newline"
  PROVE  /\ Scanned(b, u + 1, IF ends THEN n + 1 ELSE n, IF ends THEN 0 ELSE l + 1,
                    ends \/ (v /\ b[u + 1] # "invalid"))
         /\ /\ SoFarSound(b, u, l)
            /\ ends => v
            /\ ~ends => l + 1 <= MaxNDJSONLineBytes
            => SoFarSound(b, u + 1, IF ends THEN 0 ELSE l + 1)
  <1> DEFINE w == u + 1
  <1>1. Len(b) \in Nat /\ u \in Nat /\ l \in Nat /\ l <= u /\ w \in 1..Len(b) /\ n \in Nat /\ v \in BOOLEAN
    BY ScanTyped
  <1>2. /\ n = Newlines(b, w) + 1
        /\ \A k \in (u - l + 1)..u : b[k] # "newline"
        /\ l < u => b[u - l] = "newline"
        /\ v <=> \A k \in (u - l + 1)..u : b[k] # "invalid"
    BY DEF Scanned, Newlines
  <1>3. Newlines(b, w) \in Nat
    BY <1>1, NewlinesCount
  <1>4. CASE ends
    <2>1. Newlines(b, w + 1) = Newlines(b, w) + 1
      BY <1>1, <1>4, NewlinesCount
    <2>2. Scanned(b, w, n + 1, 0, TRUE)
      BY <1>1, <1>2, <1>4, <2>1 DEF Scanned, Newlines
    <2>3. ASSUME SoFarSound(b, u, l), v PROVE SoFarSound(b, w, 0)
      <3>1. \A m \in 1..(Len(b) + 1) : Archive!TooMuch(b, m) \notin 1..u /\ Archive!TooMuch(b, m) # w
        BY ZenonT(40), <1>4, <2>3, TooMuchNext DEF SoFarSound
      <3>2. \A k \in 1..(w - 0) : b[k] # "invalid"
        BY <1>1, <1>2, <1>4, <2>3 DEF SoFarSound
      <3>3. \A c : c \in 1..w => c \in 1..u \/ c = w
        BY <1>1
      <3> QED
        BY <3>1, <3>2, <3>3, SizeAssumption DEF SoFarSound
    <2> QED
      BY <1>4, <2>2, <2>3
  <1>5. CASE ~ends
    <2>1. Newlines(b, w + 1) = Newlines(b, w)
      <3>1. w + 1 \in Nat /\ w \in 1..(w + 1) /\ \A i \in w..(w + 1 - 1) : b[i] # "newline"
        BY <1>1, <1>5
      <3> DEFINE x == w + 1
      <3>2. x \in Nat /\ w \in 1..x /\ \A i \in w..(x - 1) : b[i] # "newline"
        BY <3>1
      <3> HIDE DEF x, w
      <3>3. Newlines(b, w) = Newlines(b, x)
        BY <3>2, NewlinesCount
      <3> QED
        BY <3>3 DEF x
    <2>2. Scanned(b, w, n, l + 1, v /\ b[w] # "invalid")
      <3>1. w - (l + 1) = u - l /\ (l + 1 < w <=> l < u) /\ l + 1 \in 0..w /\ w \in 0..Len(b)
        BY <1>1
      <3>2. (u - l + 1)..w = ((u - l + 1)..u) \cup {w}
        BY <1>1
      <3>3. n = Newlines(b, w + 1) + 1
        BY <1>2, <2>1
      <3>4. /\ \A k \in (u - l + 1)..w : b[k] # "newline"
            /\ v /\ b[w] # "invalid" <=> \A k \in (u - l + 1)..w : b[k] # "invalid"
        BY <1>2, <1>5, <3>2
      <3> HIDE DEF w
      <3> QED
        BY <1>2, <3>1, <3>3, <3>4 DEF Scanned, Newlines
    <2>3. ASSUME SoFarSound(b, u, l), l + 1 <= MaxNDJSONLineBytes PROVE SoFarSound(b, w, l + 1)
      BY <1>1, <2>3, TooMuchNext, SizeAssumption DEF SoFarSound
    <2>4. (ends \/ (v /\ b[w] # "invalid")) = (v /\ b[w] # "invalid")
      BY <1>5
    <2> QED
      BY <1>5, <2>2, <2>3, <2>4
  <1> QED
    BY <1>4, <1>5

(* A line with text that is none, when it is complete. *)
LEMMA BrokenLine ==
  ASSUME NEW b \in Seq(Bytes), NEW u, NEW l, NEW n, NEW v, Scanned(b, u, n, l, v),
         SoFarSound(b, u, l), ~v, NEW z,
         \/ u < Len(b) /\ b[u + 1] = "newline" /\ z = u + 1
         \/ u = Len(b) /\ z = u
  PROVE  /\ Archive!TooMuch(b, n) = 0
         /\ \E k \in Archive!LineOf(b, n) : b[k] = "invalid"
         /\ Archive!Last(Archive!LineOf(b, n)) = z
  <1>1. Len(b) \in Nat /\ u \in Nat /\ l \in Nat /\ l <= u /\ u <= Len(b) /\ n \in 1..(Len(b) + 1)
    BY ScanTyped
  <1>2. /\ \A k \in (u - l + 1)..(u + 1) : Newlines(b, k) = n - 1
        /\ u < Len(b) /\ b[u + 1] = "newline" => \A k \in (u + 2)..Len(b) : Newlines(b, k) # n - 1
    BY SMTT(30), <1>1, LineSoFar
  <1>3. PICK k \in (u - l + 1)..u : b[k] = "invalid"
    BY DEF Scanned
  <1>4. \A j : j \in Archive!LineOf(b, n) <=> j \in 1..Len(b) /\ Newlines(b, j) = n - 1
    BY LineMembers
  <1> DEFINE L == Archive!LineOf(b, n)
  <1> HIDE DEF L
  <1>5. k \in L
    BY <1>1, <1>2, <1>3, <1>4 DEF L
  <1>6. z \in L
    BY <1>1, <1>2, <1>3, <1>4 DEF L
  <1>7. \A j \in L : j \in 1..Len(b) /\ j <= z
    BY <1>1, <1>2, <1>4 DEF L
  <1>8. Archive!Last(L) = z
    BY <1>1, <1>6, <1>7, LastIs
  <1>9. Archive!TooMuch(b, n) = 0
    <2> SUFFICES ASSUME Archive!TooMuch(b, n) # 0 PROVE FALSE
      OBVIOUS
    <2> DEFINE c == Archive!TooMuch(b, n)
    <2>1. c \in Archive!TextOf(b, n)
      BY <1>1, TooMuchIs
    <2>2. c \in 1..Len(b) /\ Newlines(b, c) = n - 1 /\ b[c] # "newline"
      BY <2>1, LineMembers
    <2>3. c <= z
      BY <1>4, <1>7, <2>2 DEF L
    <2>4. c \notin 1..u
      BY <1>1 DEF SoFarSound
    <2> HIDE DEF c
    <2> QED
      BY <1>1, <2>2, <2>3, <2>4
  <1> QED
    BY <1>3, <1>5, <1>8, <1>9 DEF L

--------------------------------------------------------------------------------
(* What can be wrong with an upload, and where. *)

LEMMA Placed ==
  ASSUME upload \in Archive!Uploads, NEW i \in 1..Len(Entries)
  PROVE  /\ Entries[i].body \in Seq(Bytes) /\ Len(Entries[i].body) \in Nat
         /\ i - 1 \in 0..Len(Entries) /\ i \in 0..Len(Entries) /\ Len(Entries) \in Nat
         /\ HeaderAt(i) \in Nat /\ EndOf(i - 1) \in Nat /\ EndOf(i) \in Nat
         /\ EndOf(i) = HeaderAt(i) + Len(Entries[i].body) /\ HeaderAt(i) = EndOf(i - 1) + 1
         /\ Archive!UpTo(i) - Len(Entries[i].body) = HeaderAt(i)
  <1>1. /\ Entries[i].body \in Seq(Bytes) /\ Len(Entries[i].body) \in Nat
        /\ i - 1 \in 0..Len(Entries) /\ i \in 0..Len(Entries) /\ Len(Entries) \in Nat
    BY UploadTyped DEF Bytes
  <1>2. EndOf(i - 1) \in Nat /\ EndOf(i) \in Nat /\ EndOf(i) = EndOf(i - 1) + 1 + Len(Entries[i].body)
    BY <1>1, UpToIs
  <1>3. Archive!UpTo(i) = EndOf(i)
    BY DEF EndOf
  <1> HIDE DEF EndOf, Entries
  <1> QED
    BY <1>1, <1>2, <1>3 DEF HeaderAt

(* A line of which byte c shows the fault. *)
LineFault(i, c, kind, n) == Archive!At(HeaderAt(i) + c, kind, Entries[i].name, n)
IsBroken(b, n) == Archive!TooMuch(b, n) = 0 /\ \E k \in Archive!LineOf(b, n) : b[k] = "invalid"

LEMMA LineFaultsAre ==
  ASSUME upload \in Archive!Uploads, NEW i \in 1..Len(Entries), NEW f
  PROVE  f \in Archive!LineFaults(i) <=>
           /\ Entries[i].name # "manifest.json"
           /\ \E n \in 1..(Len(Entries[i].body) + 1) :
                \/ /\ Archive!TooMuch(Entries[i].body, n) # 0
                   /\ f = LineFault(i, Archive!TooMuch(Entries[i].body, n), "ndjson_line_size_limit", n)
                \/ /\ IsBroken(Entries[i].body, n)
                   /\ f = LineFault(i, Archive!Last(Archive!LineOf(Entries[i].body, n)), "invalid_utf8", n)
  <1> DEFINE b == Entries[i].body
             numbers == 1..(Len(b) + 1)
             long == {n \in numbers : Archive!TooMuch(b, n) # 0}
             broken == {n \in numbers \ long : \E k \in Archive!LineOf(b, n) : b[k] = "invalid"}
             start == Archive!UpTo(i) - Len(b)
  <1>1. Archive!LineFaults(i) =
          IF Entries[i].name = "manifest.json" THEN {}
          ELSE {Archive!At(start + Archive!TooMuch(b, n), "ndjson_line_size_limit", Entries[i].name, n) : n \in long}
                 \cup {Archive!At(start + Archive!Last(Archive!LineOf(b, n)), "invalid_utf8", Entries[i].name, n) : n \in broken}
    BY Zenon DEF Archive!LineFaults, Archive!entries, Entries
  <1>2. start = HeaderAt(i)
    BY Placed
  <1>3. \A n : n \in long <=> n \in numbers /\ Archive!TooMuch(b, n) # 0
    OBVIOUS
  <1>4. \A n : n \in broken <=> n \in numbers /\ IsBroken(b, n)
    BY DEF IsBroken
  <1> HIDE DEF long, broken, start, numbers
  <1>5. f \in Archive!LineFaults(i) <=>
          /\ Entries[i].name # "manifest.json"
          /\ \E n \in numbers :
               \/ n \in long /\ f = Archive!At(start + Archive!TooMuch(b, n), "ndjson_line_size_limit", Entries[i].name, n)
               \/ n \in broken /\ f = Archive!At(start + Archive!Last(Archive!LineOf(b, n)), "invalid_utf8", Entries[i].name, n)
    BY <1>1, <1>3, <1>4
  <1> QED
    BY <1>2, <1>3, <1>4, <1>5 DEF LineFault, numbers

(* Each is at a byte of its line. *)
LEMMA LineFaultsWithin ==
  ASSUME upload \in Archive!Uploads, NEW i \in 1..Len(Entries), NEW f \in Archive!LineFaults(i)
  PROVE  \E c \in 1..Len(Entries[i].body), n \in 1..(Len(Entries[i].body) + 1) :
           /\ f.at = HeaderAt(i) + c
           /\ \/ c = Archive!TooMuch(Entries[i].body, n)
              \/ /\ \E k \in Archive!LineOf(Entries[i].body, n) : Entries[i].body[k] = "invalid" /\ k <= c
                 /\ c \in Archive!LineOf(Entries[i].body, n)
                 /\ \A k \in Archive!LineOf(Entries[i].body, n) : k <= c
  <1> DEFINE b == Entries[i].body
  <1>1. b \in Seq(Bytes) /\ Len(b) \in Nat
    BY Placed
  <1>2. PICK n \in 1..(Len(b) + 1) :
          \/ /\ Archive!TooMuch(b, n) # 0
             /\ f = LineFault(i, Archive!TooMuch(b, n), "ndjson_line_size_limit", n)
          \/ /\ IsBroken(b, n)
             /\ f = LineFault(i, Archive!Last(Archive!LineOf(b, n)), "invalid_utf8", n)
    BY LineFaultsAre
  <1> HIDE DEF b
  <1>3. CASE Archive!TooMuch(b, n) # 0 /\ f = LineFault(i, Archive!TooMuch(b, n), "ndjson_line_size_limit", n)
    BY <1>1, <1>3, TooMuchIs, LineMembers DEF LineFault, Archive!At, b
  <1>4. CASE IsBroken(b, n) /\ f = LineFault(i, Archive!Last(Archive!LineOf(b, n)), "invalid_utf8", n)
    <2> DEFINE L == Archive!LineOf(b, n)
               c == Archive!Last(L)
    <2>1. \A k : k \in L => k \in 1..Len(b)
      BY <1>1, LineMembers
    <2>2. PICK k \in L : b[k] = "invalid"
      BY <1>4 DEF IsBroken
    <2>3. f.at = HeaderAt(i) + c
      BY <1>4 DEF LineFault, Archive!At
    <2> HIDE DEF L
    <2>4. c \in L /\ \A j \in L : j <= c
      BY <1>1, <2>1, <2>2, LastIs
    <2> HIDE DEF c
    <2>5. /\ c \in 1..Len(b) /\ k <= c /\ c \in L
          /\ \A j \in L : j <= c
      BY <2>1, <2>2, <2>4
    <2> QED
      BY <2>2, <2>3, <2>5 DEF L, b
  <1> QED
    BY <1>2, <1>3, <1>4

(* In a body that is scanned so far, each is still to come, or it is in the last line. *)
LEMMA LineFaultsBehind ==
  ASSUME upload \in Archive!Uploads, NEW i \in 1..Len(Entries), NEW f \in Archive!LineFaults(i),
         NEW u, NEW n, NEW l, NEW v, Scanned(Entries[i].body, u, n, l, v), SoFarSound(Entries[i].body, u, l)
  PROVE  /\ f.at \in Nat
         /\ f.at > HeaderAt(i) + u \/ (u = Len(Entries[i].body) /\ ~v /\ f.at = HeaderAt(i) + u)
  <1> DEFINE b == Entries[i].body
  <1>1. b \in Seq(Bytes) /\ Len(b) \in Nat /\ HeaderAt(i) \in Nat
    BY Placed
  <1>2. PICK c \in 1..Len(b), m \in 1..(Len(b) + 1) :
           /\ f.at = HeaderAt(i) + c
           /\ \/ c = Archive!TooMuch(b, m)
              \/ /\ \E k \in Archive!LineOf(b, m) : b[k] = "invalid" /\ k <= c
                 /\ c \in Archive!LineOf(b, m)
                 /\ \A k \in Archive!LineOf(b, m) : k <= c
    BY LineFaultsWithin
  <1>3. Scanned(b, u, n, l, v) /\ SoFarSound(b, u, l)
    OBVIOUS
  <1> HIDE DEF b
  <1>4. u \in Nat /\ l \in Nat /\ l <= u /\ u <= Len(b) /\ n \in Nat
    BY <1>1, <1>3, ScanTyped
  <1>5. c \in Nat /\ f.at \in Nat
    BY <1>1, <1>2
  <1>6. CASE c = Archive!TooMuch(b, m)
    BY <1>1, <1>2, <1>3, <1>4, <1>5, <1>6 DEF SoFarSound
  <1>7. CASE /\ \E k \in Archive!LineOf(b, m) : b[k] = "invalid" /\ k <= c
             /\ c \in Archive!LineOf(b, m)
             /\ \A k \in Archive!LineOf(b, m) : k <= c
    <2> SUFFICES ASSUME c <= u PROVE u = Len(b) /\ ~v /\ c = u
      BY <1>1, <1>2, <1>4, <1>5 DEF b
    <2>1. PICK k \in Archive!LineOf(b, m) : b[k] = "invalid" /\ k <= c
      BY <1>7
    <2>2. k \in 1..Len(b) /\ Newlines(b, k) = m - 1
      BY <1>1, LineMembers
    <2>3. k \in (u - l + 1)..u
      BY <1>3, <1>4, <1>5, <2>1, <2>2 DEF SoFarSound
    <2>4. ~v
      BY <1>3, <2>1, <2>3 DEF Scanned
    <2>5. \A j \in (u - l + 1)..(u + 1) : Newlines(b, j) = n - 1
      BY <1>1, <1>3, LineSoFar
    <2>6. m = n
      BY <1>1, <1>2, <1>4, <2>2, <2>3, <2>5
    <2>7. u \in (u - l + 1)..(u + 1) /\ u \in 1..Len(b) /\ u + 1 \in (u - l + 1)..(u + 1)
      BY <1>1, <1>4, <2>3
    <2>8. u \in Archive!LineOf(b, m)
      BY <1>1, <2>5, <2>6, <2>7, LineMembers
    <2>9. u <= c
      BY <1>7, <2>8
    <2>10. u = Len(b)
      <3> SUFFICES ASSUME u < Len(b) PROVE FALSE
        BY <1>1, <1>4
      <3>1. u + 1 \in 1..Len(b)
        BY <1>1, <1>4
      <3>2. u + 1 \in Archive!LineOf(b, m)
        BY <1>1, <2>5, <2>6, <2>7, <3>1, LineMembers
      <3>3. u + 1 <= c
        BY <1>7, <3>2
      <3> QED
        BY <1>4, <1>5, <3>3
    <2> QED
      BY <1>4, <1>5, <2>4, <2>9, <2>10
  <1> QED
    BY <1>2, <1>6, <1>7

ReadFaults ==
  Archive!HeaderFaults \cup Archive!NoHeader \cup UNION {Archive!LineFaults(i) : i \in 1..Len(Entries)}

HeaderFault(i) == Archive!At(HeaderAt(i), "invalid_entry", Entries[i].name, 0)

LEMMA HeaderFaultsAre ==
  ASSUME upload \in Archive!Uploads, NEW f
  PROVE  f \in Archive!HeaderFaults <=> \E i \in 1..Len(Entries) : ~HeaderSound(i) /\ f = HeaderFault(i)
  <1> DEFINE Wrong == {k \in 1..Len(Entries) :
                         \/ ~Entries[k].regular
                         \/ Entries[k].name \notin Archive!Names
                         \/ \E j \in 1..(k - 1) : Entries[j].name = Entries[k].name}
  <1>1. DOMAIN Entries = 1..Len(Entries)
    BY UploadTyped, LenProperties
  <1>2. Archive!HeaderFaults =
          {Archive!At(Archive!UpTo(i) - Len(Entries[i].body), "invalid_entry", Entries[i].name, 0) : i \in Wrong}
    BY Zenon, <1>1 DEF Archive!HeaderFaults, Archive!entries, Entries
  <1>3. \A i : i \in Wrong <=> i \in 1..Len(Entries) /\ ~HeaderSound(i)
    BY DEF HeaderSound
  <1>4. \A i \in 1..Len(Entries) : Archive!UpTo(i) - Len(Entries[i].body) = HeaderAt(i)
    BY Placed
  <1> HIDE DEF Wrong
  <1> QED
    BY <1>2, <1>3, <1>4 DEF HeaderFault

(* Nothing is wrong in what is passed, and of an entry with a sound header only its body. *)
LEMMA FaultsFrom ==
  ASSUME upload \in Archive!Uploads, NEW e \in 1..(Len(Entries) + 1), \A j \in 1..(e - 1) : Passed(j),
         NEW f \in ReadFaults
  PROVE  /\ f.at \in Nat /\ f.at > EndOf(e - 1)
         /\ e <= Len(Entries) /\ HeaderSound(e) => f \in Archive!LineFaults(e) \/ f.at > EndOf(e)
         /\ e = Len(Entries) + 1 => f \in Archive!NoHeader
  <1> DEFINE n == Len(Entries)
  <1>1. n \in Nat /\ EndOf(0) = 0 /\ \A i \in 0..n : EndOf(i) \in Nat
    BY UploadTyped, UpToIs
  <1>2. \A i \in 1..n : HeaderAt(i) \in Nat /\ HeaderAt(i) = EndOf(i - 1) + 1 /\ i - 1 \in 0..n /\ i \in 0..n
    BY Placed
  <1>3. \A i, j \in 0..n : i < j => EndOf(i) < HeaderAt(j)
    BY UpGrows
  <1> HIDE DEF n, EndOf, HeaderAt
  <1>4. e \in 1..(n + 1) /\ e - 1 \in 0..n /\ (e <= n => e \in 0..n)
    BY <1>1 DEF n
  <1>5. ASSUME NEW i \in 1..n, e <= i PROVE EndOf(e - 1) < HeaderAt(i) /\ (e < i => EndOf(e) < HeaderAt(i))
    BY <1>1, <1>3, <1>4, <1>5
  <1>6. CASE f \in Archive!HeaderFaults
    <2>1. PICK i \in 1..n : ~HeaderSound(i) /\ f = HeaderFault(i)
      BY <1>6, HeaderFaultsAre DEF n
    <2>2. e <= i
      <3> SUFFICES ASSUME i < e PROVE FALSE
        BY <1>1, <1>4
      <3>1. i \in 1..(e - 1)
        BY <1>1, <1>4
      <3> QED
        BY <2>1, <3>1 DEF Passed
    <2>3. f.at = HeaderAt(i)
      BY <2>1 DEF HeaderFault, Archive!At
    <2>4. HeaderSound(e) => e < i
      BY <1>1, <1>4, <2>1, <2>2
    <2>5. e <= n
      BY <1>1, <1>4, <2>2
    <2> QED
      BY <1>1, <1>2, <1>4, <1>5, <2>2, <2>3, <2>4, <2>5 DEF n
  <1>7. CASE f \in Archive!NoHeader
    <2>1. f.at = EndOf(n) + 1
      BY <1>7 DEF Archive!NoHeader, Archive!FaultIf, Archive!At, Archive!entries, EndOf, Entries, n
    <2>2. \A i \in 0..n : EndOf(i) <= EndOf(n)
      <3>1. ASSUME NEW i \in 0..n, i # n PROVE EndOf(i) < EndOf(n)
        BY <1>1, <3>1, UpGrows DEF n
      <3> QED
        BY <1>1, <3>1
    <2>3. EndOf(n) \in Nat /\ EndOf(e - 1) \in Nat /\ EndOf(e - 1) <= EndOf(n)
          /\ (e <= n => EndOf(e) \in Nat /\ EndOf(e) <= EndOf(n))
      BY <1>1, <1>4, <2>2
    <2> QED
      BY <1>7, <2>1, <2>3 DEF n
  <1>8. CASE \E i \in 1..n : f \in Archive!LineFaults(i)
    <2>1. PICK i \in 1..n : f \in Archive!LineFaults(i)
      BY <1>8
    <2>2. PICK c \in 1..Len(Entries[i].body) : f.at = HeaderAt(i) + c
      BY <2>1, LineFaultsWithin DEF n
    <2>3. c \in Nat /\ c > 0 /\ HeaderAt(i) \in Nat
      BY <1>2, Placed DEF n
    <2>4. e <= i
      <3> SUFFICES ASSUME i < e PROVE FALSE
        BY <1>1, <1>4
      <3>1. i \in 1..(e - 1)
        BY <1>1, <1>4
      <3> QED
        BY <2>1, <3>1 DEF Passed
    <2>5. e <= n
      BY <1>1, <1>4, <2>4
    <2>6. f.at \in Nat /\ f.at > HeaderAt(i)
      BY <2>2, <2>3
    <2>7. e = i \/ e < i
      BY <1>4, <2>4
    <2>8. EndOf(e - 1) \in Nat /\ EndOf(e) \in Nat
      BY <1>1, <1>4, <2>5
    <2>9. f.at > EndOf(e - 1)
      BY <1>5, <2>3, <2>4, <2>6, <2>8
    <2>10. e < i => f.at > EndOf(e)
      BY <1>5, <2>3, <2>4, <2>6, <2>8
    <2>11. e # n + 1
      BY <1>1, <1>4, <2>5
    <2> QED
      BY <2>1, <2>6, <2>7, <2>9, <2>10, <2>11 DEF n
  <1> QED
    BY <1>6, <1>7, <1>8 DEF ReadFaults, n

(* The entry that a place is in. *)
LEMMA FileAtIs ==
  ASSUME upload \in Archive!Uploads, NEW e \in 1..(Len(Entries) + 1)
  PROVE  /\ Archive!FileAt(EndOf(e - 1) + 1) = None
         /\ e <= Len(Entries) => \A u \in 1..Len(Entries[e].body) : Archive!FileAt(HeaderAt(e) + u) = Entries[e].name
         /\ \A k \in Nat : Archive!FileAt(EndOf(Len(Entries)) + k + 1) = None
  <1> DEFINE n == Len(Entries)
             within(offset) == {i \in 1..n : HeaderAt(i) < offset /\ offset <= EndOf(i)}
  <1>1. n \in Nat /\ \A i \in 0..n : EndOf(i) \in Nat
    BY UploadTyped, UpToIs
  <1>2. /\ \A i \in 1..n : HeaderAt(i) \in Nat /\ i - 1 \in 0..n /\ i \in 0..n
        /\ \A i \in 1..n : HeaderAt(i) = EndOf(i - 1) + 1 /\ Len(Entries[i].body) \in Nat
        /\ \A i \in 1..n : EndOf(i) = HeaderAt(i) + Len(Entries[i].body)
    BY Placed
  <1>3. \A i, j \in 0..n : i < j => EndOf(i) < HeaderAt(j) /\ EndOf(i) < EndOf(j)
    BY UpGrows
  <1>4. \A offset : Archive!FileAt(offset) =
                      IF within(offset) = {} THEN None ELSE Entries[CHOOSE i \in within(offset) : TRUE].name
    <2> DEFINE raw(offset) ==
                 {i \in DOMAIN Entries : Archive!UpTo(i) - Len(Entries[i].body) < offset /\ offset <= Archive!UpTo(i)}
    <2>1. \A offset : Archive!FileAt(offset) =
                        IF raw(offset) = {} THEN None ELSE Entries[CHOOSE i \in raw(offset) : TRUE].name
      BY Zenon DEF Archive!FileAt, Archive!entries, Entries
    <2>2. DOMAIN Entries = 1..n
      BY UploadTyped, LenProperties
    <2>3. \A i \in 1..n : Archive!UpTo(i) - Len(Entries[i].body) = HeaderAt(i) /\ Archive!UpTo(i) = EndOf(i)
      BY Placed DEF EndOf
    <2>4. \A offset : raw(offset) = within(offset)
      <3> HIDE DEF n, EndOf, HeaderAt
      <3> QED
        BY <2>2, <2>3
    <2> HIDE DEF raw, within
    <2> QED
      BY <2>1, <2>4
  <1>5. e - 1 \in 0..n /\ e \in 1..(n + 1) /\ e \in Nat /\ (e <= n => e \in 1..n)
    BY <1>1
  <1> HIDE DEF n, EndOf, HeaderAt
  <1>6. Archive!FileAt(EndOf(e - 1) + 1) = None
    <2> DEFINE a == EndOf(e - 1) + 1
    <2>1. ASSUME NEW i \in 1..n, HeaderAt(i) < a, a <= EndOf(i) PROVE FALSE
      <3>1. i \in 0..n /\ i - 1 \in 0..n /\ i \in Nat /\ EndOf(i) \in Nat /\ EndOf(i - 1) \in Nat /\ EndOf(e - 1) \in Nat
        BY <1>1, <1>2, <1>5
      <3>2. CASE e - 1 < i
        BY <1>2, <1>3, <1>5, <2>1, <3>1, <3>2
      <3>3. CASE i <= e - 1
        BY <1>3, <1>5, <2>1, <3>1, <3>3
      <3> QED
        BY <1>5, <3>1, <3>2, <3>3
    <2>2. within(a) = {}
      BY <2>1
    <2> HIDE DEF within
    <2> QED
      BY <1>4, <2>2
  <1>7. ASSUME e <= n, NEW u \in 1..Len(Entries[e].body) PROVE Archive!FileAt(HeaderAt(e) + u) = Entries[e].name
    <2> DEFINE a == HeaderAt(e) + u
    <2>1. e \in 1..n /\ HeaderAt(e) \in Nat /\ Len(Entries[e].body) \in Nat /\ EndOf(e) = HeaderAt(e) + Len(Entries[e].body)
      BY <1>2, <1>5, <1>7
    <2>2. HeaderAt(e) < a /\ a <= EndOf(e) /\ a \in Nat /\ u \in Nat
      BY <2>1
    <2>3. ASSUME NEW i \in 1..n, HeaderAt(i) < a, a <= EndOf(i) PROVE i = e
      <3>1. i \in 0..n /\ e \in 0..n /\ i \in Nat /\ e \in Nat /\ EndOf(i) \in Nat /\ EndOf(e) \in Nat
            /\ HeaderAt(i) \in Nat
        BY <1>1, <1>2, <2>1
      <3>2. CASE i < e
        <4>1. EndOf(i) < HeaderAt(e)
          BY <1>3, <3>1, <3>2
        <4> HIDE DEF a
        <4> QED
          BY <2>1, <2>2, <2>3, <3>1, <4>1
      <3>3. CASE e < i
        <4>1. EndOf(e) < HeaderAt(i)
          BY <1>3, <3>1, <3>3
        <4> HIDE DEF a
        <4> QED
          BY <2>1, <2>2, <2>3, <3>1, <4>1
      <3> QED
        BY <3>1, <3>2, <3>3
    <2>4. within(a) = {e}
      <3> HIDE DEF a
      <3> QED
        BY <2>1, <2>2, <2>3
    <2> HIDE DEF within
    <2> QED
      BY <1>4, <2>4
  <1>8. ASSUME NEW k \in Nat PROVE Archive!FileAt(EndOf(n) + k + 1) = None
    <2> DEFINE a == EndOf(n) + k + 1
    <2>1. ASSUME NEW i \in 1..n, HeaderAt(i) < a, a <= EndOf(i) PROVE FALSE
      <3>1. i \in 0..n /\ n \in 0..n /\ EndOf(i) \in Nat /\ EndOf(n) \in Nat /\ i <= n
        BY <1>1, <1>2
      <3>2. i = n \/ EndOf(i) < EndOf(n)
        BY <1>1, <1>3, <3>1
      <3> QED
        BY <2>1, <3>1, <3>2
    <2>2. within(a) = {}
      BY <2>1
    <2> HIDE DEF within
    <2> QED
      BY <1>4, <2>2
  <1> QED
    BY <1>6, <1>7, <1>8 DEF n

LEMMA ReadableIs ==
  ASSUME upload \in Archive!Uploads
  PROVE  /\ Archive!Readable \in Nat
         /\ Archive!Readable <= upload.delivered /\ Archive!Readable <= MaxExtractedArchiveBytes
         /\ Archive!Readable = upload.delivered \/ Archive!Readable = MaxExtractedArchiveBytes
  BY UploadTyped, SizeAssumption DEF Archive!Readable

(* What is found behind what can be read. *)
After == Archive!Readable + 1
Large == Archive!Readable < upload.delivered
Present == {Entries[i].name : i \in {k \in 1..Len(Entries) : EndOf(k) <= Archive!Readable}}
Missing == {i \in DOMAIN Archive!Required : Archive!Required[i] \notin Present}
Junk == \E k \in 2..Len(upload.tail) : upload.tail[k] # "zero" /\ EndOf(Len(Entries)) + k <= Archive!Readable
FirstOf(T) == Archive!Required[CHOOSE i \in T : \A j \in T : i <= j]

LEMMA EndFaultsAre ==
  ASSUME upload \in Archive!Uploads, NEW f
  PROVE  f \in Archive!EndFaults <=>
           \/ Large /\ f = Archive!At(After, "extracted_size_limit", Archive!FileAt(After), 0)
           \/ /\ ~Large /\ (~upload.sound \/ Archive!FileAt(After) # None)
              /\ f = Archive!At(After, "invalid_archive", Archive!FileAt(After), 0)
           \/ Junk /\ f = Archive!At(After + 1, "invalid_archive", None, 0)
           \/ Missing # {} /\ f = Archive!At(After + 2, "missing_entry", FirstOf(Missing), 0)
  <1>1. DOMAIN Entries = 1..Len(Entries)
    BY UploadTyped, LenProperties
  <1>2. Archive!EndFaults =
          Archive!FaultIf(Large, Archive!At(After, "extracted_size_limit", Archive!FileAt(After), 0))
            \cup Archive!FaultIf(~Large /\ (~upload.sound \/ Archive!FileAt(After) # None),
                         Archive!At(After, "invalid_archive", Archive!FileAt(After), 0))
            \cup Archive!FaultIf(Junk, Archive!At(After + 1, "invalid_archive", None, 0))
            \cup Archive!FaultIf(Missing # {}, Archive!At(After + 2, "missing_entry", FirstOf(Missing), 0))
    BY Zenon, <1>1 DEF Archive!EndFaults, Large, After, Junk, Missing, Present, FirstOf,
       Archive!entries, Archive!tail, Entries, EndOf
  <1> QED
    BY <1>2 DEF Archive!FaultIf

LEMMA EndFaultsBehind ==
  ASSUME upload \in Archive!Uploads, NEW f \in Archive!EndFaults
  PROVE  f.at \in Nat /\ f.at > Archive!Readable
  <1>1. f.at \in {After, After + 1, After + 2}
    BY EndFaultsAre DEF Archive!At
  <1> QED
    BY <1>1, ReadableIs DEF After

LEMMA ArchiveFaultsAre ==
  ASSUME upload \in Archive!Uploads, upload.compressed <= MaxCompressedArchiveBytes, upload.gzip, NEW f
  PROVE  f \in Archive!ArchiveFaults <=> f \in Archive!EndFaults \/ (f \in ReadFaults /\ f.at <= Archive!Readable)
  <1>1. DOMAIN Entries = 1..Len(Entries)
    BY UploadTyped, LenProperties
  <1>2. ~(upload.compressed > MaxCompressedArchiveBytes)
    BY UploadTyped, SizeAssumption
  <1>3. Archive!ArchiveFaults = Archive!EndFaults \cup {g \in ReadFaults : g.at <= Archive!Readable}
    BY Zenon, <1>1, <1>2 DEF Archive!ArchiveFaults, ReadFaults, Archive!entries, Entries
  <1> QED
    BY <1>3

--------------------------------------------------------------------------------
(* The fault that is reported. *)

Reported(kind, file, l) ==
  \E f \in Archive!ArchiveFaults :
    /\ <<f.kind, f.file, f.line>> = <<kind, file, l>>
    /\ \A g \in Archive!ArchiveFaults : f.at <= g.at

Opened == upload \in Archive!Uploads /\ upload.compressed <= MaxCompressedArchiveBytes /\ upload.gzip

(* One that is read is before all that are found at the end. *)
LEMMA ReadReported ==
  ASSUME Opened, NEW f \in ReadFaults, f.at \in Nat, f.at <= Archive!Readable,
         \A g \in ReadFaults : f.at <= g.at
  PROVE  Reported(f.kind, f.file, f.line)
  <1>1. f \in Archive!ArchiveFaults
    BY ArchiveFaultsAre DEF Opened
  <1>2. ASSUME NEW g \in Archive!ArchiveFaults PROVE f.at <= g.at
    <2>1. g \in Archive!EndFaults \/ g \in ReadFaults
      BY ArchiveFaultsAre DEF Opened
    <2>2. CASE g \in Archive!EndFaults
      BY <2>2, EndFaultsBehind, ReadableIs DEF Opened
    <2> QED
      BY <2>1, <2>2
  <1> QED
    BY <1>1, <1>2 DEF Reported

(* When nothing that is read is wrong, what is found at the end is reported. *)
LEMMA OnlyEndFaults ==
  ASSUME Opened, \A g \in ReadFaults : g.at \in Nat /\ g.at > Archive!Readable
  PROVE  Archive!ArchiveFaults = Archive!EndFaults
  <1>1. \A f : f \in Archive!ArchiveFaults <=> f \in Archive!EndFaults
    <2>1. ASSUME NEW g \in ReadFaults, g.at <= Archive!Readable PROVE FALSE
      BY <2>1, ReadableIs DEF Opened
    <2> QED
      BY <2>1, ArchiveFaultsAre DEF Opened
  <1> QED
    BY <1>1

LEMMA EndReported ==
  ASSUME Opened, \A g \in ReadFaults : g.at \in Nat /\ g.at > Archive!Readable,
         NEW file, Archive!FileAt(After) = file, Large \/ ~upload.sound \/ file # None
  PROVE  Reported(IF Large THEN "extracted_size_limit" ELSE "invalid_archive", file, 0)
  <1> DEFINE f == Archive!At(After, IF Large THEN "extracted_size_limit" ELSE "invalid_archive", file, 0)
  <1>1. f \in Archive!EndFaults
    <2> HIDE DEF Large, After
    <2> QED
      BY EndFaultsAre DEF Opened
  <1>2. \A g \in Archive!EndFaults : f.at <= g.at
    <2>1. f.at = Archive!Readable + 1 /\ Archive!Readable \in Nat
      BY ReadableIs DEF Opened, Archive!At, After
    <2>2. \A g \in Archive!EndFaults : g.at \in Nat /\ g.at > Archive!Readable
      BY EndFaultsBehind DEF Opened
    <2> HIDE DEF f
    <2> QED
      BY <2>1, <2>2
  <1>3. <<f.kind, f.file, f.line>> = <<IF Large THEN "extracted_size_limit" ELSE "invalid_archive", file, 0>>
    BY DEF Archive!At
  <1> HIDE DEF f
  <1> QED
    BY <1>1, <1>2, <1>3, OnlyEndFaults DEF Reported

(* Whether there is a unit to read. *)
LEMMA ReadPlace ==
  ASSUME upload \in Archive!Uploads, read \in Nat, read <= upload.delivered, read <= MaxExtractedArchiveBytes
  PROVE  /\ Archive!UnitThere => read + 1 <= Archive!Readable
                                 /\ read + 1 <= upload.delivered /\ read + 1 <= MaxExtractedArchiveBytes
         /\ ~Archive!UnitThere => /\ read = Archive!Readable
                                  /\ Archive!Exceeds <=> Large
                                  /\ Archive!ReadError = IF Large THEN "extracted_size_limit" ELSE "invalid_archive"
         /\ ~Archive!UnitThere /\ ~Large => Archive!AtEnd
  BY UploadTyped, SizeAssumption
     DEF Archive!UnitThere, Archive!AtEnd, Archive!Exceeds, Archive!Readable, Archive!ReadError, Large

--------------------------------------------------------------------------------
(* The steps. *)

LEMMA SameUpload ==
  ASSUME UNCHANGED upload
  PROVE  /\ Entries' = Entries
         /\ \A i : EndOf(i)' = EndOf(i)
         /\ \A i : HeaderAt(i)' = HeaderAt(i)
         /\ \A i : HeaderSound(i)' <=> HeaderSound(i)
         /\ \A i : Passed(i)' <=> Passed(i)
         /\ Archive!ArchiveFaults' = Archive!ArchiveFaults
         /\ Archive!WellFormed' <=> Archive!WellFormed
         /\ (upload \in Archive!Uploads)' <=> upload \in Archive!Uploads
  <1>1. Entries' = Entries
    BY DEF Entries
  <1>2. /\ \A i : EndOf(i)' = EndOf(i)
        /\ \A i : Archive!LineFaults(i)' = Archive!LineFaults(i)
        /\ Archive!ArchiveFaults' = Archive!ArchiveFaults
    BY UploadStays
  <1>3. \A i : HeaderAt(i)' = HeaderAt(i)
    BY <1>2 DEF HeaderAt
  <1>4. \A i : HeaderSound(i)' <=> HeaderSound(i)
    BY <1>1 DEF HeaderSound, Archive!Names, Archive!Required
  <1>5. \A i : Passed(i)' <=> Passed(i)
    BY <1>2, <1>4 DEF Passed
  <1>6. Archive!WellFormed' <=> Archive!WellFormed
    BY SMTT(60) DEF Archive!WellFormed, Archive!Total, Archive!entries, Archive!tail, Archive!UpTo
  <1>7. (upload \in Archive!Uploads)' <=> upload \in Archive!Uploads
    BY DEF Archive!Uploads
  <1> QED
    BY <1>1, <1>2, <1>3, <1>4, <1>5, <1>6, <1>7

Places ==
  /\ pc = "receive" => Untouched
  /\ pc = "open" => Untouched /\ upload.compressed <= MaxCompressedArchiveBytes
  /\ pc = "header" => BetweenEntries
  /\ pc = "entry" => WithinEntry
  /\ pc = "padding" => BehindEntries

(* A step that goes on. *)
LEMMA GoesOn ==
  ASSUME ArchiveIInv, UNCHANGED upload, received' \in 0..upload.compressed,
         pc' \in {"receive", "open", "header", "entry", "padding", "failed"}, Places'
  PROVE  ArchiveIInv'
  <1>1. (upload \in Archive!Uploads /\ Archive!WellFormed)'
    BY SameUpload DEF ArchiveIInv
  <1>2. pc' # "manifest" /\ pc' # "unreadable"
    OBVIOUS
  <1>3. ArchiveVerdictExact'
    BY <1>2 DEF ArchiveVerdictExact
  <1>4. (received \in 0..upload.compressed)'
    OBVIOUS
  <1> HIDE DEF Untouched, BetweenEntries, WithinEntry, BehindEntries, ArchiveVerdictExact
  <1> QED
    BY <1>1, <1>3, <1>4 DEF ArchiveIInv, Places

(* A step that reports a fault. *)
LEMMA Rejects ==
  ASSUME ArchiveIInv, UNCHANGED upload, received' \in 0..upload.compressed,
         NEW kind, NEW file, NEW l, Archive!RejectArchive(kind, file, l), Reported(kind, file, l)
  PROVE  ArchiveIInv'
  <1>1. (upload \in Archive!Uploads /\ Archive!WellFormed)'
    BY SameUpload DEF ArchiveIInv
  <1>2. pc' = "unreadable" /\ copied' = <<>>
        /\ error'.kind = kind /\ error'.file = file /\ error'.line = l
    BY DEF Archive!RejectArchive
  <1>3. ArchiveVerdictExact'
    BY <1>2, SameUpload DEF ArchiveVerdictExact, Reported
  <1>4. (received \in 0..upload.compressed)'
    OBVIOUS
  <1> HIDE DEF Untouched, BetweenEntries, WithinEntry, BehindEntries, ArchiveVerdictExact
  <1> QED
    BY <1>1, <1>2, <1>3, <1>4 DEF ArchiveIInv

LEMMA ReceiveArchive == ASSUME ArchiveIInv, Archive!Receive PROVE ArchiveIInv'
  <1>1. pc = "receive" /\ received < upload.compressed /\ received' = received + 1
        /\ UNCHANGED <<upload, pc, read, entry, unit, lineNumber, lineLength, lineValid, names, copied, nonZero>>
    BY DEF Archive!Receive, Archive!reader
  <1>2. received' \in 0..upload.compressed
    BY <1>1, UploadTyped DEF ArchiveIInv
  <1>3. Untouched'
    BY <1>1 DEF ArchiveIInv, Untouched
  <1>4. Places'
    BY <1>1, <1>3 DEF Places
  <1> QED
    BY <1>1, <1>2, <1>4, GoesOn

LEMMA ReceivedKeeps == ASSUME ArchiveIInv, Archive!Received PROVE ArchiveIInv'
  <1>1. /\ pc = "receive"
        /\ received = upload.compressed \/ received > MaxCompressedArchiveBytes
        /\ UNCHANGED <<upload, received, read, entry, unit, lineNumber, lineLength, lineValid, names, nonZero>>
    BY DEF Archive!Received
  <1>2. received \in Nat /\ received <= upload.compressed /\ upload.compressed \in Nat
        /\ received' \in 0..upload.compressed
    BY <1>1, UploadTyped DEF ArchiveIInv
  <1>3. CASE received > MaxCompressedArchiveBytes
    <2>1. Archive!RejectArchive("compressed_size_limit", None, 0)
      BY <1>3 DEF Archive!Received
    <2>2. upload.compressed > MaxCompressedArchiveBytes
      BY <1>2, <1>3, SizeAssumption
    <2>3. Archive!ArchiveFaults = {Archive!At(0, "compressed_size_limit", None, 0)}
      BY <2>2 DEF Archive!ArchiveFaults
    <2>4. Reported("compressed_size_limit", None, 0)
      BY <2>3 DEF Reported, Archive!At
    <2> QED
      BY <1>1, <1>2, <2>1, <2>4, Rejects
  <1>4. CASE ~(received > MaxCompressedArchiveBytes)
    <2>1. pc' = "open"
      BY <1>4 DEF Archive!Received, Archive!Continues
    <2>2. upload'.compressed <= MaxCompressedArchiveBytes
      BY <1>1, <1>2, <1>4, SizeAssumption
    <2>3. Untouched'
      BY <1>1 DEF ArchiveIInv, Untouched
    <2>4. Places'
      BY <2>1, <2>2, <2>3 DEF Places
    <2> QED
      BY <1>1, <1>2, <2>1, <2>4, GoesOn
  <1> QED
    BY <1>3, <1>4

LEMMA OpenKeeps == ASSUME ArchiveIInv, Archive!Open PROVE ArchiveIInv'
  <1>1. /\ pc = "open" /\ Untouched /\ upload.compressed <= MaxCompressedArchiveBytes
        /\ UNCHANGED <<upload, received, read, entry, unit, lineNumber, lineLength, lineValid, names, nonZero>>
    BY DEF Archive!Open, ArchiveIInv
  <1>2. received' \in 0..upload.compressed
    BY <1>1 DEF ArchiveIInv
  <1>3. upload \in Archive!Uploads /\ upload.compressed \in Nat
    BY UploadTyped DEF ArchiveIInv
  <1>4. CASE ~upload.gzip
    <2>1. Archive!RejectArchive("invalid_archive", None, 0)
      BY <1>4 DEF Archive!Open
    <2>2. Archive!ArchiveFaults = {Archive!At(0, "invalid_archive", None, 0)}
      BY <1>1, <1>3, <1>4, SizeAssumption DEF Archive!ArchiveFaults
    <2>3. Reported("invalid_archive", None, 0)
      BY <2>2 DEF Reported, Archive!At
    <2> QED
      BY <1>1, <1>2, <2>1, <2>3, Rejects
  <1>5. CASE upload.gzip
    <2>1. pc' = "header" /\ copied' = [name \in Archive!Names |-> 0]
      BY <1>5 DEF Archive!Open, Archive!Continues
    <2>2. Len(Entries) \in Nat /\ upload.delivered \in Nat /\ EndOf(0) = 0
      BY <1>3, UploadTyped, UpToIs
    <2>3. Extracted'
      <3>1. read' = 0 /\ entry' = 1 /\ names' = {} /\ upload' = upload /\ 1..(1 - 1) = {}
        BY <1>1 DEF Untouched
      <3>2. Entries' = Entries
        BY <1>1, SameUpload
      <3>3. copied' \in [Archive!Names -> Nat] /\ Archive!Names' = Archive!Names
        BY <2>1 DEF Archive!Names, Archive!Required
      <3> HIDE DEF Passed, Entries
      <3> QED
        BY <1>1, <1>5, <2>2, <3>1, <3>2, <3>3, SizeAssumption DEF Extracted
    <2>4. BetweenEntries'
      <3>1. EndOf(0)' = EndOf(0)
        BY <1>1, SameUpload
      <3>2. /\ read' = 0 /\ entry' = 1 /\ unit' = 0 /\ lineNumber' = 1 /\ lineLength' = 0
            /\ lineValid' = TRUE /\ nonZero' = FALSE
        BY <1>1 DEF Untouched
      <3>3. (read = EndOf(entry - 1))'
        BY <2>2, <3>1, <3>2 DEF EndOf
      <3>4. Archive!Names' = Archive!Names
        BY DEF Archive!Names, Archive!Required
      <3> HIDE DEF Extracted, EndOf
      <3> QED
        BY <2>1, <2>3, <3>2, <3>3, <3>4 DEF BetweenEntries
    <2>5. Places'
      <3> HIDE DEF BetweenEntries
      <3> QED
        BY <2>1, <2>4 DEF Places
    <2> QED
      BY <1>1, <1>2, <2>1, <2>5, GoesOn
  <1> QED
    BY <1>4, <1>5

(* What is extracted stays extracted. *)
LEMMA ExtractedStays ==
  ASSUME Extracted, UNCHANGED <<upload, entry, names>>,
         read' <= upload.delivered, read' <= MaxExtractedArchiveBytes,
         copied' \in [Archive!Names -> Nat], \A j \in 1..(entry - 1) : copied'[Entries[j].name] = copied[Entries[j].name]
  PROVE  Extracted'
  <1>1. Entries' = Entries /\ \A i : Passed(i)' <=> Passed(i)
    BY SameUpload
  <1>2. Archive!Names' = Archive!Names
    BY DEF Archive!Names, Archive!Required
  <1> HIDE DEF Entries, Passed
  <1> QED
    BY <1>1, <1>2 DEF Extracted

LEMMA ExtractedTyped ==
  ASSUME ArchiveIInv, Extracted
  PROVE  /\ Opened /\ upload \in Archive!Uploads
         /\ Len(Entries) \in Nat /\ entry \in 1..(Len(Entries) + 1)
         /\ entry - 1 \in 0..Len(Entries) /\ EndOf(entry - 1) \in Nat
         /\ entry <= Len(Entries) => entry \in 1..Len(Entries)
         /\ ~(entry <= Len(Entries)) => entry = Len(Entries) + 1
         /\ upload.delivered \in Nat /\ MaxExtractedArchiveBytes \in Nat
         /\ \A j \in 1..(entry - 1) : j \in 1..Len(Entries) /\ Passed(j)
         /\ \A f \in ReadFaults : f.at \in Nat /\ f.at > EndOf(entry - 1)
         /\ Archive!Readable \in Nat /\ read <= upload.delivered /\ read <= MaxExtractedArchiveBytes
         /\ received \in 0..upload.compressed
  <1>1. upload \in Archive!Uploads /\ Opened /\ received \in 0..upload.compressed
    BY DEF ArchiveIInv, Extracted, Opened
  <1>2. Len(Entries) \in Nat /\ upload.delivered \in Nat
    BY <1>1, UploadTyped
  <1>3. /\ entry \in 1..(Len(Entries) + 1)
        /\ \A j \in 1..(entry - 1) : Passed(j)
        /\ read <= upload.delivered /\ read <= MaxExtractedArchiveBytes
    BY DEF Extracted
  <1>4. /\ entry - 1 \in 0..Len(Entries) /\ (entry <= Len(Entries) => entry \in 1..Len(Entries))
        /\ (~(entry <= Len(Entries)) => entry = Len(Entries) + 1)
        /\ \A j \in 1..(entry - 1) : j \in 1..Len(Entries)
    BY <1>2, <1>3
  <1>5. EndOf(entry - 1) \in Nat
    BY <1>1, <1>4, UpToIs
  <1>6. \A f \in ReadFaults : f.at \in Nat /\ f.at > EndOf(entry - 1)
    BY <1>1, <1>3, FaultsFrom
  <1>7. Archive!Readable \in Nat
    BY <1>1, ReadableIs
  <1> HIDE DEF Entries, EndOf, Passed, ReadFaults, Extracted, ArchiveIInv
  <1> QED
    BY <1>1, <1>2, <1>3, <1>4, <1>5, <1>6, <1>7, SizeAssumption

LEMMA HeaderMissingKeeps == ASSUME ArchiveIInv, Archive!HeaderMissing PROVE ArchiveIInv'
  <1>1. /\ pc = "header" /\ BetweenEntries /\ Extracted /\ ~Archive!UnitThere /\ read = EndOf(entry - 1)
        /\ UNCHANGED <<upload, received, read, entry, unit, lineNumber, lineLength, lineValid, names, nonZero>>
    BY DEF Archive!HeaderMissing, ArchiveIInv, BetweenEntries
  <1>2. /\ Opened /\ upload \in Archive!Uploads /\ EndOf(entry - 1) \in Nat
        /\ \A f \in ReadFaults : f.at \in Nat /\ f.at > EndOf(entry - 1)
        /\ received' \in 0..upload.compressed /\ entry \in 1..(Len(Entries) + 1)
        /\ read <= upload.delivered /\ read <= MaxExtractedArchiveBytes
    BY <1>1, ExtractedTyped
  <1>3. /\ read = Archive!Readable
        /\ Archive!Exceeds <=> Large
        /\ Archive!ReadError = IF Large THEN "extracted_size_limit" ELSE "invalid_archive"
        /\ ~Large => Archive!AtEnd
    BY <1>1, <1>2, ReadPlace
  <1>4. CASE Archive!AtEnd /\ ~Archive!Exceeds /\ upload.sound
    <2>1. pc' = "padding" /\ copied' = copied
      BY <1>4 DEF Archive!HeaderMissing, Archive!Continues
    <2>2. Extracted'
      BY <1>1, <1>2, <2>1, ExtractedStays DEF Extracted
    <2>3. BehindEntries'
      <3>1. EndOf(entry - 1)' = EndOf(entry - 1)
        BY <1>1, SameUpload DEF EndOf
      <3>2. /\ unit' = 0 /\ nonZero' = FALSE /\ upload'.sound
            /\ read' = EndOf(entry - 1)' /\ read' = upload'.delivered
        BY <1>1, <1>4, <3>1 DEF BetweenEntries, Archive!AtEnd
      <3> HIDE DEF Extracted, EndOf, Entries
      <3> QED
        BY <2>2, <3>2 DEF BehindEntries
    <2>4. Places'
      <3> HIDE DEF BehindEntries
      <3> QED
        BY <2>1, <2>3 DEF Places
    <2> QED
      BY <1>1, <1>2, <2>1, <2>4, GoesOn
  <1>5. CASE ~(Archive!AtEnd /\ ~Archive!Exceeds /\ upload.sound)
    <2>1. Archive!RejectArchive(Archive!ReadError, None, 0)
      BY <1>5 DEF Archive!HeaderMissing
    <2>2. Archive!FileAt(After) = None
      BY <1>1, <1>2, <1>3, FileAtIs DEF After
    <2>3. Large \/ ~upload.sound
      BY <1>3, <1>5
    <2>4. Reported(Archive!ReadError, None, 0)
      <3> HIDE DEF Large, After, Reported, ReadFaults
      <3>1. \A g \in ReadFaults : g.at \in Nat /\ g.at > Archive!Readable
        BY <1>1, <1>2, <1>3
      <3>2. Reported(IF Large THEN "extracted_size_limit" ELSE "invalid_archive", None, 0)
        BY <1>2, <2>2, <2>3, <3>1, EndReported
      <3> QED
        BY <1>3, <3>2
    <2> QED
      BY <1>1, <1>2, <2>1, <2>4, Rejects
  <1> QED
    BY <1>4, <1>5

LEMMA ReadHeaderKeeps == ASSUME ArchiveIInv, Archive!ReadHeader PROVE ArchiveIInv'
  <1>1. /\ pc = "header" /\ BetweenEntries /\ Extracted /\ Archive!UnitThere /\ read = EndOf(entry - 1)
        /\ entry <= Len(Entries) /\ read' = read + 1
        /\ UNCHANGED <<upload, received, entry, unit, lineNumber, lineLength, lineValid, names, nonZero>>
    BY DEF Archive!ReadHeader, ArchiveIInv, BetweenEntries, Entries, Archive!entries
  <1>2. /\ Opened /\ upload \in Archive!Uploads /\ EndOf(entry - 1) \in Nat /\ entry \in 1..Len(Entries)
        /\ \A f \in ReadFaults : f.at \in Nat /\ f.at > EndOf(entry - 1)
        /\ received' \in 0..upload.compressed
        /\ read <= upload.delivered /\ read <= MaxExtractedArchiveBytes
        /\ Len(Entries) \in Nat /\ \A j \in 1..(entry - 1) : j \in 1..Len(Entries) /\ Passed(j)
    BY <1>1, ExtractedTyped
  <1>3. read + 1 <= Archive!Readable /\ read + 1 <= upload.delivered /\ read + 1 <= MaxExtractedArchiveBytes
    BY <1>1, <1>2, ReadPlace
  <1>4. /\ Entries[entry].body \in Seq(Bytes) /\ Len(Entries[entry].body) \in Nat
        /\ HeaderAt(entry) = read + 1 /\ HeaderAt(entry) \in Nat
    BY <1>1, <1>2, Placed
  <1>5. Archive!InvalidHeader(Entries[entry]) <=> ~HeaderSound(entry)
    BY <1>1 DEF Extracted, Archive!InvalidHeader, HeaderSound
  <1>6. CASE ~HeaderSound(entry)
    <2>1. Archive!RejectArchive("invalid_entry", Entries[entry].name, 0)
      BY <1>5, <1>6 DEF Archive!ReadHeader, Entries, Archive!entries
    <2> DEFINE f == HeaderFault(entry)
    <2>2. f \in ReadFaults
      BY <1>2, <1>6, HeaderFaultsAre DEF ReadFaults
    <2>3. /\ f.at = HeaderAt(entry) /\ f.kind = "invalid_entry" /\ f.file = Entries[entry].name /\ f.line = 0
      BY DEF HeaderFault, Archive!At
    <2> HIDE DEF f, ReadFaults, HeaderAt, EndOf, Entries
    <2>4. \A g \in ReadFaults : f.at <= g.at
      BY <1>1, <1>2, <1>4, <2>3
    <2>5. Reported("invalid_entry", Entries[entry].name, 0)
      BY <1>2, <1>3, <1>4, <2>2, <2>3, <2>4, ReadReported
    <2> QED
      BY <1>1, <1>2, <2>1, <2>5, Rejects
  <1>7. CASE HeaderSound(entry)
    <2>1. pc' = "entry" /\ copied' = copied
      BY <1>5, <1>7 DEF Archive!ReadHeader, Archive!Continues, Entries, Archive!entries
    <2>2. Extracted'
      BY <1>1, <1>3, <2>1, ExtractedStays DEF Extracted
    <2>3. Scanned(Entries[entry].body, 0, 1, 0, TRUE) /\ SoFarSound(Entries[entry].body, 0, 0)
      <3>1. Newlines(Entries[entry].body, 1) = 0
        BY NewlinesCount
      <3> DEFINE b == Entries[entry].body
      <3>2. Newlines(b, 1) = 0 /\ Len(b) \in Nat
        BY <1>4, <3>1
      <3> HIDE DEF b
      <3>3. Scanned(b, 0, 1, 0, TRUE)
        BY <3>2 DEF Scanned, Newlines
      <3>4. SoFarSound(b, 0, 0)
        BY SizeAssumption DEF SoFarSound
      <3> QED
        BY <3>3, <3>4 DEF b
    <2>4. WithinEntry'
      <3>1. /\ entry' = entry /\ Entries' = Entries /\ names' = names /\ unit' = 0 /\ lineNumber' = 1 /\ lineLength' = 0
            /\ lineValid' = TRUE /\ nonZero' = FALSE /\ Archive!Names' = Archive!Names
        BY <1>1, SameUpload DEF BetweenEntries, Archive!Names, Archive!Required
      <3>2. HeaderSound(entry)' /\ HeaderAt(entry)' = HeaderAt(entry)
        BY <1>1, <1>7, SameUpload DEF HeaderSound, HeaderAt, EndOf
      <3>3. \A name \in Archive!Names \ names : copied[name] = 0
        BY <1>1 DEF BetweenEntries
      <3>4. read' = HeaderAt(entry)' + unit'
        BY <1>1, <1>4, <3>1, <3>2
      <3>5. \A name \in Archive!Names \ names : copied'[name] = IF name = Entries[entry].name THEN unit' ELSE 0
        BY <2>1, <3>1, <3>3
      <3>6. Scanned(Entries[entry].body, unit, lineNumber, lineLength, lineValid)'
        BY <2>3, <3>1
      <3>7. SoFarSound(Entries[entry].body, unit, lineLength)'
        BY <2>3, <3>1
      <3> HIDE DEF Extracted, Entries, HeaderAt, Scanned, SoFarSound, HeaderSound
      <3> QED
        BY <1>1, <2>2, <3>1, <3>2, <3>4, <3>5, <3>6, <3>7 DEF WithinEntry
    <2>5. Places'
      <3> HIDE DEF WithinEntry
      <3> QED
        BY <2>1, <2>4 DEF Places
    <2> QED
      BY <1>1, <1>2, <2>1, <2>5, GoesOn
  <1> QED
    BY <1>6, <1>7

LEMMA ReadEndKeeps == ASSUME ArchiveIInv, Archive!ReadEnd PROVE ArchiveIInv'
  <1>1. /\ pc = "header" /\ BetweenEntries /\ Extracted /\ Archive!UnitThere /\ read = EndOf(entry - 1)
        /\ ~(entry <= Len(Entries)) /\ read' = read + 1 /\ unit' = 1
        /\ UNCHANGED <<upload, received, entry, lineNumber, lineLength, lineValid, names, nonZero>>
    <2>1. pc = "header" /\ Archive!UnitThere /\ entry > Len(Entries) /\ read' = read + 1 /\ unit' = 1
          /\ UNCHANGED <<upload, received, entry, lineNumber, lineLength, lineValid, names, nonZero>>
      BY DEF Archive!ReadEnd, Entries, Archive!entries
    <2>2. BetweenEntries /\ Extracted /\ read = EndOf(entry - 1)
      BY <2>1 DEF ArchiveIInv, BetweenEntries
    <2>3. Len(Entries) \in Nat /\ entry \in 1..(Len(Entries) + 1)
      BY <2>2, ExtractedTyped
    <2> QED
      BY <2>1, <2>2, <2>3
  <1>2. /\ Opened /\ upload \in Archive!Uploads /\ EndOf(entry - 1) \in Nat /\ entry = Len(Entries) + 1
        /\ \A f \in ReadFaults : f.at \in Nat /\ f.at > EndOf(entry - 1)
        /\ received' \in 0..upload.compressed
        /\ read <= upload.delivered /\ read <= MaxExtractedArchiveBytes
        /\ Len(Entries) \in Nat /\ entry - 1 = Len(Entries)
    BY <1>1, ExtractedTyped
  <1>3. read + 1 <= Archive!Readable /\ read + 1 <= upload.delivered /\ read + 1 <= MaxExtractedArchiveBytes
    BY <1>1, <1>2, ReadPlace
  <1>4. Len(upload.tail) \in Nat /\ Len(upload.tail) >= 1 /\ upload.tail # <<>>
    <2>1. upload.delivered <= EndOf(Len(Entries)) + Len(upload.tail)
      BY DEF ArchiveIInv, Archive!WellFormed, Archive!Total, Archive!entries, Archive!tail, Entries, EndOf
    <2>2. Len(upload.tail) \in Nat /\ upload.delivered \in Nat
      BY <1>2, UploadTyped
    <2>3. Len(upload.tail) >= 1
      <3> HIDE DEF EndOf, Entries
      <3> QED
        BY <1>1, <1>2, <1>3, <2>1, <2>2
    <2> QED
      BY <2>2, <2>3
  <1>5. CASE upload.tail[1] # "end"
    <2>1. Archive!RejectArchive("invalid_archive", None, 0)
      BY <1>5 DEF Archive!ReadEnd, Archive!tail
    <2> DEFINE f == Archive!At(EndOf(Len(Entries)) + 1, "invalid_archive", None, 0)
    <2>2. f \in ReadFaults
      BY <1>4, <1>5 DEF ReadFaults, Archive!NoHeader, Archive!FaultIf, Archive!tail, Archive!entries, Entries, EndOf
    <2>3. f.at = EndOf(Len(Entries)) + 1 /\ f.kind = "invalid_archive" /\ f.file = None /\ f.line = 0
      BY DEF Archive!At
    <2> HIDE DEF f, ReadFaults, EndOf, Entries
    <2>4. f.at = read + 1 /\ read \in Nat
      BY <1>1, <1>2, <2>3
    <2>5. \A g \in ReadFaults : f.at <= g.at
      BY <1>1, <1>2, <2>4
    <2>6. Reported("invalid_archive", None, 0)
      BY <1>2, <1>3, <2>2, <2>3, <2>4, <2>5, ReadReported
    <2> QED
      BY <1>1, <1>2, <2>1, <2>6, Rejects
  <1>6. CASE upload.tail[1] = "end"
    <2>1. pc' = "padding" /\ copied' = copied
      BY <1>6 DEF Archive!ReadEnd, Archive!Continues, Archive!tail
    <2>2. Extracted'
      BY <1>1, <1>3, <2>1, ExtractedStays DEF Extracted
    <2>3. BehindEntries'
      <3>1. /\ entry' = Len(Entries)' + 1 /\ unit' \in 1..Len(upload'.tail) /\ upload'.tail[1] = "end"
            /\ nonZero' = FALSE /\ unit' = 1
        BY <1>1, <1>2, <1>4, <1>6, SameUpload DEF BetweenEntries
      <3>2. read' = EndOf(Len(Entries))' + unit'
        BY <1>1, <1>2, SameUpload DEF EndOf, Entries
      <3>3. nonZero' <=> \E k \in 2..unit' : upload'.tail[k] # "zero"
        BY <3>1
      <3> HIDE DEF Extracted, EndOf, Entries
      <3> QED
        BY <2>2, <3>1, <3>2, <3>3 DEF BehindEntries
    <2>4. Places'
      <3> HIDE DEF BehindEntries
      <3> QED
        BY <2>1, <2>3 DEF Places
    <2> QED
      BY <1>1, <1>2, <2>1, <2>4, GoesOn
  <1> QED
    BY <1>5, <1>6

(* Within an entry every fault is still to come, but one that its end shows. *)
LEMMA WithinTyped ==
  ASSUME ArchiveIInv, WithinEntry, NEW b, b = Entries[entry].body
  PROVE  /\ Extracted /\ Opened /\ upload \in Archive!Uploads
         /\ entry \in 1..Len(Entries) /\ Len(Entries) \in Nat /\ HeaderSound(entry)
         /\ b \in Seq(Bytes) /\ Len(b) \in Nat /\ unit \in Nat /\ unit <= Len(b)
         /\ HeaderAt(entry) \in Nat /\ EndOf(entry) = HeaderAt(entry) + Len(b) /\ EndOf(entry) \in Nat
         /\ read = HeaderAt(entry) + unit /\ read \in Nat /\ read <= upload.delivered /\ read <= MaxExtractedArchiveBytes
         /\ read <= Archive!Readable /\ Archive!Readable \in Nat
         /\ Scanned(b, unit, lineNumber, lineLength, lineValid)
         /\ Entries[entry].name # "manifest.json" => SoFarSound(b, unit, lineLength)
         /\ lineLength \in Nat /\ lineNumber \in 1..(Len(b) + 1) /\ lineValid \in BOOLEAN
         /\ \A g \in ReadFaults : /\ g.at \in Nat
                                  /\ g.at > read \/ (unit = Len(b) /\ ~lineValid /\ g.at = read)
         /\ received \in 0..upload.compressed
         /\ \A j \in 1..(entry - 1) : j \in 1..Len(Entries) /\ Passed(j)
  <1>1. /\ Extracted /\ HeaderSound(entry) /\ entry <= Len(Entries)
        /\ read = HeaderAt(entry) + unit
        /\ Scanned(b, unit, lineNumber, lineLength, lineValid)
        /\ Entries[entry].name # "manifest.json" => SoFarSound(b, unit, lineLength)
    BY DEF WithinEntry
  <1>2. /\ Opened /\ upload \in Archive!Uploads /\ Len(Entries) \in Nat
        /\ read <= upload.delivered /\ read <= MaxExtractedArchiveBytes
        /\ received \in 0..upload.compressed
        /\ \A j \in 1..(entry - 1) : j \in 1..Len(Entries) /\ Passed(j)
        /\ entry \in 1..Len(Entries) /\ entry \in 1..(Len(Entries) + 1) /\ Archive!Readable \in Nat
    BY <1>1, ExtractedTyped
  <1>3. /\ b \in Seq(Bytes) /\ Len(b) \in Nat /\ HeaderAt(entry) \in Nat /\ EndOf(entry) \in Nat
        /\ EndOf(entry) = HeaderAt(entry) + Len(b)
    BY <1>2, Placed
  <1>4. unit \in Nat /\ unit <= Len(b) /\ lineLength \in Nat /\ lineNumber \in 1..(Len(b) + 1) /\ lineValid \in BOOLEAN
    BY <1>1, <1>3, ScanTyped
  <1>5. read \in Nat /\ read <= EndOf(entry)
    BY SMTT(30), <1>1, <1>3, <1>4
  <1>6. ASSUME NEW g \in ReadFaults
        PROVE  g.at \in Nat /\ (g.at > read \/ (unit = Len(b) /\ ~lineValid /\ g.at = read))
    <2>1. g.at \in Nat /\ (g \in Archive!LineFaults(entry) \/ g.at > EndOf(entry))
      BY <1>1, <1>2, FaultsFrom
    <2>2. CASE g.at > EndOf(entry)
      BY <1>3, <1>5, <2>1, <2>2
    <2>3. CASE g \in Archive!LineFaults(entry)
      BY <1>1, <1>2, <2>3, LineFaultsAre, LineFaultsBehind
    <2> QED
      BY <2>1, <2>2, <2>3
  <1>7. read <= Archive!Readable
    BY <1>2, <1>5, ReadPlace
  <1> HIDE DEF Extracted, Opened, Entries, HeaderAt, EndOf, HeaderSound, Scanned, SoFarSound, ReadFaults, Passed,
               ArchiveIInv, WithinEntry
  <1> QED
    BY <1>1, <1>2, <1>3, <1>4, <1>5, <1>6, <1>7

LEMMA CopyUnitKeeps == ASSUME ArchiveIInv, Archive!CopyUnit PROVE ArchiveIInv'
  <1> DEFINE b == Entries[entry].body
             name == Entries[entry].name
             w == unit + 1
             ends == b[w] = "newline"
             long == lineLength + 1 > MaxNDJSONLineBytes
             ndjson == name # "manifest.json"
  <1>1. /\ pc = "entry" /\ unit < Len(b) /\ Archive!UnitThere /\ read' = read + 1 /\ unit' = w
        /\ lineNumber' = IF ends THEN lineNumber + 1 ELSE lineNumber
        /\ lineLength' = IF ends THEN 0 ELSE lineLength + 1
        /\ lineValid' = (ends \/ (lineValid /\ b[w] # "invalid"))
        /\ UNCHANGED <<upload, received, entry, names, nonZero>>
    BY DEF Archive!CopyUnit, Archive!Contents, Archive!entries, Entries
  <1>2. WithinEntry
    BY <1>1 DEF ArchiveIInv
  <1>3. /\ Extracted /\ Opened /\ upload \in Archive!Uploads
        /\ entry \in 1..Len(Entries) /\ Len(Entries) \in Nat /\ HeaderSound(entry)
        /\ b \in Seq(Bytes) /\ Len(b) \in Nat /\ unit \in Nat
        /\ HeaderAt(entry) \in Nat
        /\ read = HeaderAt(entry) + unit /\ read \in Nat /\ read <= upload.delivered /\ read <= MaxExtractedArchiveBytes
        /\ Scanned(b, unit, lineNumber, lineLength, lineValid)
        /\ ndjson => SoFarSound(b, unit, lineLength)
        /\ lineLength \in Nat /\ lineNumber \in 1..(Len(b) + 1) /\ lineValid \in BOOLEAN
        /\ \A g \in ReadFaults : g.at \in Nat /\ (g.at > read \/ unit = Len(b))
        /\ received' \in 0..upload.compressed
        /\ \A j \in 1..(entry - 1) : j \in 1..Len(Entries) /\ Passed(j)
    BY <1>1, <1>2, WithinTyped
  <1>4. /\ read + 1 <= Archive!Readable /\ read + 1 <= upload.delivered /\ read + 1 <= MaxExtractedArchiveBytes
        /\ Archive!Readable \in Nat
    BY <1>1, <1>3, ReadPlace, ReadableIs
  <1>5. \A g \in ReadFaults : read + 1 <= g.at
    <2> HIDE DEF ReadFaults, b
    <2>1. \A g \in ReadFaults : g.at \in Nat /\ g.at > read
      BY <1>1, <1>3
    <2> QED
      BY SMTT(30), <1>3, <2>1
  <1>6. \/ ndjson /\ ~ends /\ long /\ Archive!RejectArchive("ndjson_line_size_limit", name, lineNumber)
        \/ ndjson /\ ends /\ ~lineValid /\ Archive!RejectArchive("invalid_utf8", name, lineNumber)
        \/ /\ ~(ndjson /\ ~ends /\ long) /\ ~(ndjson /\ ends /\ ~lineValid)
           /\ copied' = [copied EXCEPT ![name] = @ + 1] /\ pc' = pc
    BY DEF Archive!CopyUnit, Archive!Contents, Archive!entries, Archive!IsNDJSON, Archive!Name, Entries
  <1>7. ASSUME NEW kind, ndjson, LineFault(entry, w, kind, lineNumber) \in Archive!LineFaults(entry),
               Archive!RejectArchive(kind, name, lineNumber)
        PROVE  ArchiveIInv'
    <2> DEFINE f == LineFault(entry, w, kind, lineNumber)
    <2>1. f \in ReadFaults
      BY <1>3, <1>7 DEF ReadFaults
    <2>2. f.at = HeaderAt(entry) + w /\ f.kind = kind /\ f.file = name /\ f.line = lineNumber
      BY DEF LineFault, Archive!At
    <2>3. f.at = read + 1 /\ f.at \in Nat
      <3> HIDE DEF f
      <3> QED
        BY <1>3, <2>2
    <2> HIDE DEF f, ReadFaults
    <2>4. Reported(kind, name, lineNumber)
      BY <1>3, <1>4, <1>5, <2>1, <2>2, <2>3, ReadReported
    <2> QED
      BY <1>1, <1>3, <1>7, <2>4, Rejects
  <1>8. CASE ndjson /\ ~ends /\ long /\ Archive!RejectArchive("ndjson_line_size_limit", name, lineNumber)
    <2>1. lineLength = MaxNDJSONLineBytes
      BY <1>3, <1>8, SizeAssumption DEF SoFarSound
    <2>2. Archive!TooMuch(b, lineNumber) = w
      <3> HIDE DEF b
      <3> QED
        BY SMTT(30), <1>1, <1>3, <1>8, <2>1, TooMuchNext
    <2>3. w # 0
      BY <1>3
    <2>4. LineFault(entry, w, "ndjson_line_size_limit", lineNumber) \in Archive!LineFaults(entry)
      BY <1>3, <1>8, <2>2, <2>3, LineFaultsAre
    <2> QED
      BY <1>7, <1>8, <2>4
  <1>9. CASE ndjson /\ ends /\ ~lineValid /\ Archive!RejectArchive("invalid_utf8", name, lineNumber)
    <2>1. IsBroken(b, lineNumber) /\ Archive!Last(Archive!LineOf(b, lineNumber)) = w
      <3> HIDE DEF b
      <3>1. b \in Seq(Bytes) /\ Scanned(b, unit, lineNumber, lineLength, lineValid)
            /\ SoFarSound(b, unit, lineLength) /\ ~lineValid /\ unit < Len(b) /\ b[w] = "newline"
        BY <1>1, <1>3, <1>9
      <3>2. /\ Archive!TooMuch(b, lineNumber) = 0
            /\ \E k \in Archive!LineOf(b, lineNumber) : b[k] = "invalid"
            /\ Archive!Last(Archive!LineOf(b, lineNumber)) = w
        BY <3>1, BrokenLine
      <3> QED
        BY <3>2 DEF IsBroken
    <2>2. LineFault(entry, w, "invalid_utf8", lineNumber) \in Archive!LineFaults(entry)
      BY <1>3, <1>9, <2>1, LineFaultsAre
    <2> QED
      BY <1>7, <1>9, <2>2
  <1>10. CASE /\ ~(ndjson /\ ~ends /\ long) /\ ~(ndjson /\ ends /\ ~lineValid)
              /\ copied' = [copied EXCEPT ![name] = @ + 1] /\ pc' = pc
    <2>1. /\ copied \in [Archive!Names -> Nat] /\ names = {Entries[j].name : j \in 1..(entry - 1)}
      BY <1>3 DEF Extracted
    <2>2. name \in Archive!Names /\ name \notin names
      BY <1>3, <2>1 DEF HeaderSound
    <2>3. /\ copied' \in [Archive!Names -> Nat]
          /\ \A k \in Archive!Names : copied'[k] = IF k = name THEN copied[k] + 1 ELSE copied[k]
      <3> HIDE DEF name
      <3> QED
        BY <1>10, <2>1, <2>2
    <2>4. Extracted'
      BY <1>1, <1>3, <1>4, <2>3, ExtractedStays DEF HeaderSound, Passed
    <2>5. /\ Scanned(b, w, IF ends THEN lineNumber + 1 ELSE lineNumber, IF ends THEN 0 ELSE lineLength + 1,
                     ends \/ (lineValid /\ b[w] # "invalid"))
          /\ ndjson => SoFarSound(b, w, IF ends THEN 0 ELSE lineLength + 1)
      <3> DEFINE closes == ends
      <3>1. closes \in BOOLEAN /\ (closes <=> b[w] = "newline")
        OBVIOUS
      <3>2. ndjson => (closes => lineValid) /\ (~closes => lineLength + 1 <= MaxNDJSONLineBytes)
        BY <1>3, <1>10, SizeAssumption
      <3> HIDE DEF b, closes
      <3>3. /\ Scanned(b, w, IF closes THEN lineNumber + 1 ELSE lineNumber, IF closes THEN 0 ELSE lineLength + 1,
                     closes \/ (lineValid /\ b[w] # "invalid"))
            /\ /\ SoFarSound(b, unit, lineLength)
               /\ closes => lineValid
               /\ ~closes => lineLength + 1 <= MaxNDJSONLineBytes
               => SoFarSound(b, w, IF closes THEN 0 ELSE lineLength + 1)
        BY <1>1, <1>3, <3>1, ScanGoesOn
      <3> QED
        BY <1>3, <3>2, <3>3 DEF closes
    <2>6. WithinEntry'
      <3>1. entry' = entry /\ Entries' = Entries /\ names' = names /\ unit' = w /\ Archive!Names' = Archive!Names
            /\ nonZero' = nonZero
        BY <1>1, SameUpload DEF Archive!Names, Archive!Required
      <3>2. HeaderSound(entry)' /\ HeaderAt(entry)' = HeaderAt(entry)
        BY <1>1, <1>3, SameUpload DEF HeaderSound, HeaderAt, EndOf
      <3>3. nonZero = FALSE /\ \A k \in Archive!Names \ names : copied[k] = IF k = name THEN unit ELSE 0
        BY <1>2 DEF WithinEntry
      <3>4. read' = HeaderAt(entry)' + unit'
        BY <1>1, <1>3, <3>2
      <3>5. \A k \in Archive!Names \ names : copied'[k] = IF k = name THEN unit' ELSE 0
        BY <2>3, <3>1, <3>3
      <3>6. Scanned(Entries[entry].body, unit, lineNumber, lineLength, lineValid)'
        BY <1>1, <2>5, <3>1
      <3>7. ndjson => SoFarSound(Entries[entry].body, unit, lineLength)'
        BY <1>1, <2>5, <3>1
      <3>8. entry <= Len(Entries)
        BY <1>3
      <3> HIDE DEF Extracted, Entries, HeaderAt, Scanned, SoFarSound, HeaderSound
      <3> QED
        BY <2>4, <3>1, <3>2, <3>3, <3>4, <3>5, <3>6, <3>7, <3>8 DEF WithinEntry
    <2>7. Places'
      <3> HIDE DEF WithinEntry
      <3> QED
        BY <1>1, <1>10, <2>6 DEF Places
    <2> QED
      BY <1>1, <1>3, <1>10, <2>7, GoesOn
  <1> QED
    BY <1>6, <1>8, <1>9, <1>10

LEMMA EntryBreaksOffKeeps == ASSUME ArchiveIInv, Archive!EntryBreaksOff PROVE ArchiveIInv'
  <1> DEFINE b == Entries[entry].body
             name == Entries[entry].name
  <1>1. /\ pc = "entry" /\ unit < Len(b) /\ ~Archive!UnitThere
        /\ Archive!RejectArchive(Archive!ReadError, name, 0)
        /\ UNCHANGED <<upload, received>>
    BY DEF Archive!EntryBreaksOff, Archive!Contents, Archive!Name, Archive!entries, Entries
  <1>2. WithinEntry
    BY <1>1 DEF ArchiveIInv
  <1>3. /\ Opened /\ upload \in Archive!Uploads
        /\ entry \in 1..Len(Entries) /\ Len(Entries) \in Nat /\ HeaderSound(entry)
        /\ Len(b) \in Nat /\ unit \in Nat /\ HeaderAt(entry) \in Nat
        /\ read = HeaderAt(entry) + unit /\ read \in Nat /\ read <= upload.delivered /\ read <= MaxExtractedArchiveBytes
        /\ \A g \in ReadFaults : g.at \in Nat /\ (g.at > read \/ unit = Len(b))
        /\ received' \in 0..upload.compressed
    BY <1>1, <1>2, WithinTyped
  <1>4. /\ read = Archive!Readable
        /\ Archive!ReadError = IF Large THEN "extracted_size_limit" ELSE "invalid_archive"
    BY <1>1, <1>3, ReadPlace
  <1>5. Archive!FileAt(After) = name
    <2>1. After = HeaderAt(entry) + (unit + 1) /\ unit + 1 \in 1..Len(b)
          /\ entry \in 1..(Len(Entries) + 1) /\ entry <= Len(Entries)
      BY <1>1, <1>3, <1>4 DEF After
    <2> QED
      BY <1>3, <2>1, FileAtIs
  <1>6. name # None
    BY <1>3, NameAssumption DEF HeaderSound, Archive!Names, Archive!Required
  <1>7. Reported(Archive!ReadError, name, 0)
    <2> HIDE DEF Large, After, Reported, ReadFaults, b, name
    <2>1. \A g \in ReadFaults : g.at \in Nat /\ g.at > Archive!Readable
      BY <1>1, <1>3, <1>4
    <2>2. Reported(IF Large THEN "extracted_size_limit" ELSE "invalid_archive", name, 0)
      BY <1>3, <1>5, <1>6, <2>1, EndReported
    <2> QED
      BY <1>4, <2>2
  <1> QED
    BY <1>1, <1>3, <1>7, Rejects

LEMMA EntryEndsKeeps == ASSUME ArchiveIInv, Archive!EntryEnds PROVE ArchiveIInv'
  <1> DEFINE b == Entries[entry].body
             name == Entries[entry].name
             ndjson == name # "manifest.json"
  <1>1. /\ pc = "entry" /\ unit = Len(b)
        /\ entry' = entry + 1 /\ unit' = 0 /\ lineNumber' = 1 /\ lineLength' = 0 /\ lineValid' = TRUE
        /\ UNCHANGED <<upload, received, read, nonZero>>
        /\ IF ndjson /\ ~lineValid
             THEN Archive!RejectArchive("invalid_utf8", name, lineNumber)
             ELSE pc' = "header" /\ names' = names \cup {name} /\ copied' = copied
    BY DEF Archive!EntryEnds, Archive!Contents, Archive!Name, Archive!IsNDJSON, Archive!entries, Archive!Continues, Entries
  <1>2. WithinEntry
    BY <1>1 DEF ArchiveIInv
  <1>3. /\ Extracted /\ Opened /\ upload \in Archive!Uploads
        /\ entry \in 1..Len(Entries) /\ Len(Entries) \in Nat /\ HeaderSound(entry)
        /\ b \in Seq(Bytes) /\ Len(b) \in Nat /\ unit \in Nat
        /\ HeaderAt(entry) \in Nat /\ EndOf(entry) = HeaderAt(entry) + Len(b)
        /\ read = HeaderAt(entry) + unit /\ read \in Nat /\ read <= upload.delivered /\ read <= MaxExtractedArchiveBytes
        /\ read <= Archive!Readable
        /\ Scanned(b, unit, lineNumber, lineLength, lineValid)
        /\ ndjson => SoFarSound(b, unit, lineLength)
        /\ lineNumber \in 1..(Len(b) + 1)
        /\ \A g \in ReadFaults : g.at \in Nat /\ (g.at > read \/ g.at = read)
        /\ received' \in 0..upload.compressed
        /\ \A j \in 1..(entry - 1) : j \in 1..Len(Entries) /\ Passed(j)
    BY <1>1, <1>2, WithinTyped
  <1>4. CASE ndjson /\ ~lineValid
    <2>1. IsBroken(b, lineNumber) /\ Archive!Last(Archive!LineOf(b, lineNumber)) = unit
      <3> HIDE DEF b
      <3>1. b \in Seq(Bytes) /\ Scanned(b, unit, lineNumber, lineLength, lineValid)
            /\ SoFarSound(b, unit, lineLength) /\ ~lineValid /\ unit = Len(b)
        BY <1>1, <1>3, <1>4
      <3>2. /\ Archive!TooMuch(b, lineNumber) = 0
            /\ \E k \in Archive!LineOf(b, lineNumber) : b[k] = "invalid"
            /\ Archive!Last(Archive!LineOf(b, lineNumber)) = unit
        BY <3>1, BrokenLine
      <3> QED
        BY <3>2 DEF IsBroken
    <2> DEFINE f == LineFault(entry, unit, "invalid_utf8", lineNumber)
    <2>2. f \in Archive!LineFaults(entry)
      BY <1>3, <1>4, <2>1, LineFaultsAre
    <2>3. f \in ReadFaults
      BY <1>3, <2>2 DEF ReadFaults
    <2>4. f.at = read /\ f.kind = "invalid_utf8" /\ f.file = name /\ f.line = lineNumber
      BY <1>3 DEF LineFault, Archive!At
    <2> HIDE DEF f, ReadFaults, b
    <2>8. read \in Nat /\ \A g \in ReadFaults : g.at \in Nat /\ (g.at > read \/ g.at = read)
      BY <1>3
    <2>5. \A g \in ReadFaults : f.at <= g.at
      BY <2>4, <2>8
    <2>6. Reported("invalid_utf8", name, lineNumber)
      BY <1>3, <2>3, <2>4, <2>5, ReadReported
    <2>7. Archive!RejectArchive("invalid_utf8", name, lineNumber)
      BY <1>1, <1>4
    <2> QED
      BY <1>1, <1>3, <2>6, <2>7, Rejects
  <1>5. CASE ~(ndjson /\ ~lineValid)
    <2>1. pc' = "header" /\ names' = names \cup {name} /\ copied' = copied
      BY <1>1, <1>5
    <2>2. Archive!LineFaults(entry) = {}
      <3> SUFFICES ASSUME NEW f \in Archive!LineFaults(entry) PROVE FALSE
        OBVIOUS
      <3>1. ndjson
        BY <1>3, LineFaultsAre
      <3>2. f.at > HeaderAt(entry) + unit
        BY <1>3, <1>5, <3>1, LineFaultsBehind
      <3>3. PICK c \in 1..Len(b) : f.at = HeaderAt(entry) + c
        BY <1>3, LineFaultsWithin
      <3> HIDE DEF b
      <3> QED
        BY <1>1, <1>3, <3>2, <3>3
    <2>3. Passed(entry)
      BY <1>3, <2>2 DEF Passed
    <2>4. /\ copied \in [Archive!Names -> Nat] /\ names = {Entries[j].name : j \in 1..(entry - 1)}
          /\ \A j \in 1..(entry - 1) : copied[Entries[j].name] = Len(Entries[j].body)
          /\ upload.compressed <= MaxCompressedArchiveBytes /\ upload.gzip
      BY <1>3 DEF Extracted
    <2>5. name \in Archive!Names /\ name \notin names
      BY <1>3, <2>4 DEF HeaderSound
    <2>6. \A k \in Archive!Names \ names : copied[k] = IF k = name THEN unit ELSE 0
      BY <1>2 DEF WithinEntry
    <2>7. copied[name] = Len(b)
      BY <1>1, <2>5, <2>6
    <2>8. entry' \in 1..(Len(Entries) + 1) /\ 1..(entry' - 1) = 1..(entry - 1) \cup {entry} /\ entry' - 1 = entry
      <3> HIDE DEF Entries, b, name, ndjson
      <3>1. entry' = entry + 1
        BY <1>1
      <3>2. entry \in 1..Len(Entries) /\ Len(Entries) \in Nat
        BY <1>3
      <3> QED
        BY <3>1, <3>2
    <2>9. \A j \in 1..(entry' - 1) : Passed(j) /\ copied[Entries[j].name] = Len(Entries[j].body)
      <3> HIDE DEF Entries, Passed
      <3> QED
        BY <1>3, <2>3, <2>4, <2>7, <2>8
    <2>10. names' = {Entries[j].name : j \in 1..(entry' - 1)}
      <3> HIDE DEF Entries
      <3> QED
        BY <2>1, <2>4, <2>8
    <2>11. Entries' = Entries /\ (\A i : Passed(i)' <=> Passed(i)) /\ Archive!Names' = Archive!Names
      BY <1>1, SameUpload DEF Archive!Names, Archive!Required
    <2>12. Extracted'
      <3> HIDE DEF Entries, Passed, b, name, ndjson
      <3>1. /\ upload' = upload /\ upload.compressed <= MaxCompressedArchiveBytes /\ upload.gzip
            /\ entry' \in 1..(Len(Entries') + 1)
            /\ read' <= upload'.delivered /\ read' <= MaxExtractedArchiveBytes
        BY <1>1, <1>3, <2>4, <2>8, <2>11
      <3>2. names' = {Entries'[j].name : j \in 1..(entry' - 1)}
        BY <2>10, <2>11
      <3>3. copied' \in [Archive!Names' -> Nat]
        BY <2>1, <2>4, <2>11
      <3>4. \A j \in 1..(entry' - 1) : Passed(j)' /\ copied'[Entries'[j].name] = Len(Entries'[j].body)
        BY <2>1, <2>9, <2>11
      <3> QED
        BY <3>1, <3>2, <3>3, <3>4 DEF Extracted
    <2>13. BetweenEntries'
      <3>1. EndOf(entry - 1)' = EndOf(entry)
        BY <1>1, <2>8 DEF EndOf, Archive!UpTo, Archive!entries
      <3>2. nonZero' = FALSE
        BY <1>1, <1>2 DEF WithinEntry
      <3>3. \A k \in Archive!Names \ names' : copied'[k] = 0
        BY <2>1, <2>6
      <3>4. read' = EndOf(entry - 1)'
        BY <1>1, <1>3, <3>1
      <3> HIDE DEF Extracted, EndOf, Entries
      <3> QED
        BY <1>1, <2>11, <2>12, <3>2, <3>3, <3>4 DEF BetweenEntries
    <2>14. Places'
      <3> HIDE DEF BetweenEntries
      <3> QED
        BY <2>1, <2>13 DEF Places
    <2> QED
      BY <1>1, <1>3, <2>1, <2>14, GoesOn
  <1> QED
    BY <1>4, <1>5

LEMMA ReadPaddingKeeps == ASSUME ArchiveIInv, Archive!ReadPadding PROVE ArchiveIInv'
  <1>1. /\ pc = "padding" /\ Archive!UnitThere /\ read' = read + 1 /\ unit' = unit + 1 /\ pc' = pc
        /\ nonZero' = (nonZero \/ upload.tail[unit + 1] # "zero")
        /\ UNCHANGED <<upload, received, entry, names, copied>>
    BY DEF Archive!ReadPadding, Archive!tail
  <1>2. BehindEntries /\ Extracted
    BY <1>1 DEF ArchiveIInv, BehindEntries
  <1>3. /\ upload \in Archive!Uploads /\ EndOf(Len(Entries)) \in Nat /\ Len(Entries) \in Nat /\ EndOf(entry - 1) \in Nat
        /\ received' \in 0..upload.compressed /\ upload.delivered \in Nat
        /\ read <= upload.delivered /\ read <= MaxExtractedArchiveBytes
    <2>1. /\ upload \in Archive!Uploads /\ Len(Entries) \in Nat /\ EndOf(entry - 1) \in Nat
          /\ received \in 0..upload.compressed /\ upload.delivered \in Nat
          /\ read <= upload.delivered /\ read <= MaxExtractedArchiveBytes
      BY <1>2, ExtractedTyped
    <2>2. EndOf(Len(Entries)) \in Nat
      BY <2>1, UpToIs
    <2> QED
      BY <1>1, <2>1, <2>2
  <1>4. Len(upload.tail) \in Nat
    BY <1>3, UploadTyped
  <1>5. ~(unit = 0 /\ nonZero = FALSE /\ upload.sound /\ read = EndOf(entry - 1) /\ read = upload.delivered)
    BY <1>1 DEF Archive!UnitThere, Archive!AtEnd
  <1>6. /\ entry = Len(Entries) + 1
        /\ unit \in 1..Len(upload.tail) /\ upload.tail[1] = "end"
        /\ read = EndOf(Len(Entries)) + unit
        /\ nonZero \in BOOLEAN
        /\ nonZero <=> \E k \in 2..unit : upload.tail[k] # "zero"
    BY <1>2, <1>5 DEF BehindEntries
  <1>7. read \in Nat
    BY <1>3, <1>4, <1>6
  <1>8. read + 1 <= upload.delivered /\ read + 1 <= MaxExtractedArchiveBytes
    BY <1>1, <1>3, <1>7, ReadPlace
  <1>9. unit + 1 \in 1..Len(upload.tail)
    <2>1. upload.delivered <= EndOf(Len(Entries)) + Len(upload.tail)
      BY DEF ArchiveIInv, Archive!WellFormed, Archive!Total, Archive!entries, Archive!tail, Entries, EndOf
    <2> HIDE DEF EndOf, Entries
    <2> QED
      BY SMTT(30), <1>3, <1>4, <1>6, <1>8, <2>1
  <1>10. Extracted'
    BY <1>1, <1>2, <1>8, ExtractedStays DEF Extracted
  <1>11. BehindEntries'
    <2>1. entry' = Len(Entries)' + 1
      BY <1>1, <1>6, SameUpload
    <2>2. read' = EndOf(Len(Entries))' + unit'
      BY <1>1, <1>3, <1>4, <1>6, SameUpload DEF EndOf, Entries
    <2>3. nonZero' \in BOOLEAN
      BY <1>1, <1>6
    <2>4. nonZero' <=> \E k \in 2..unit' : upload'.tail[k] # "zero"
      <3>1. 2..(unit + 1) = (2..unit) \cup {unit + 1}
        BY <1>4, <1>6
      <3>2. (nonZero \/ upload.tail[unit + 1] # "zero") <=> \E k \in 2..(unit + 1) : upload.tail[k] # "zero"
        BY <1>6, <3>1
      <3> QED
        BY <1>1, <3>2
    <2>5. unit' \in 1..Len(upload'.tail) /\ upload'.tail[1] = "end"
      BY <1>1, <1>6, <1>9
    <2> HIDE DEF Extracted, EndOf, Entries
    <2> QED
      BY <1>10, <2>1, <2>2, <2>3, <2>4, <2>5 DEF BehindEntries
  <1>12. Places'
    <2> HIDE DEF BehindEntries
    <2> QED
      BY <1>1, <1>11 DEF Places
  <1> QED
    BY <1>1, <1>3, <1>12, GoesOn

(* Behind the entries all that can be read was read, and it holds the ones before `entry`. *)
LEMMA PaddingTyped ==
  ASSUME ArchiveIInv, BehindEntries, ~Archive!UnitThere
  PROVE  /\ Extracted /\ Opened /\ upload \in Archive!Uploads /\ received \in 0..upload.compressed
         /\ read = Archive!Readable
         /\ Archive!Exceeds <=> Large
         /\ Archive!ReadError = IF Large THEN "extracted_size_limit" ELSE "invalid_archive"
         /\ ~Large => read = upload.delivered
         /\ Archive!FileAt(After) = None
         /\ \A g \in ReadFaults : g.at \in Nat /\ g.at > Archive!Readable
         /\ \A i \in 1..Len(Entries) : EndOf(i) <= read <=> i \in 1..(entry - 1)
         /\ Junk <=> nonZero /\ nonZero \in BOOLEAN
  <1>1. Extracted
    BY DEF BehindEntries
  <1>2. /\ Opened /\ upload \in Archive!Uploads /\ received \in 0..upload.compressed
        /\ Len(Entries) \in Nat /\ entry \in 1..(Len(Entries) + 1)
        /\ EndOf(entry - 1) \in Nat /\ entry - 1 \in 0..Len(Entries)
        /\ \A f \in ReadFaults : f.at \in Nat /\ f.at > EndOf(entry - 1)
        /\ read <= upload.delivered /\ read <= MaxExtractedArchiveBytes
        /\ \A j \in 1..(entry - 1) : Passed(j)
    BY <1>1, ExtractedTyped
  <1>3. EndOf(Len(Entries)) \in Nat /\ Len(upload.tail) \in Nat
    BY <1>2, UpToIs, UploadTyped
  <1>4. \/ /\ entry = Len(Entries) + 1
           /\ unit \in 1..Len(upload.tail) /\ upload.tail[1] = "end"
           /\ read = EndOf(Len(Entries)) + unit
           /\ nonZero \in BOOLEAN
           /\ nonZero <=> \E k \in 2..unit : upload.tail[k] # "zero"
        \/ /\ unit = 0 /\ nonZero = FALSE
           /\ upload.sound
           /\ read = EndOf(entry - 1) /\ read = upload.delivered
    BY DEF BehindEntries
  <1>5. read \in Nat /\ EndOf(entry - 1) <= read
    <2>1. entry = Len(Entries) + 1 => entry - 1 = Len(Entries)
      BY <1>2
    <2> HIDE DEF EndOf, Entries
    <2> QED
      BY SMTT(30), <1>2, <1>3, <1>4, <2>1
  <1>6. /\ read = Archive!Readable
        /\ Archive!Exceeds <=> Large
        /\ Archive!ReadError = IF Large THEN "extracted_size_limit" ELSE "invalid_archive"
        /\ ~Large => read = upload.delivered
    BY <1>2, <1>5, ReadPlace DEF Archive!AtEnd
  <1>7. \A i \in 1..Len(Entries) : EndOf(i) <= read <=> i \in 1..(entry - 1)
    <2> SUFFICES ASSUME NEW i \in 1..Len(Entries) PROVE EndOf(i) <= read <=> i \in 1..(entry - 1)
      OBVIOUS
    <2>1. i \in 0..Len(Entries) /\ EndOf(i) \in Nat /\ i \in Nat
      BY <1>2, Placed
    <2>2. CASE i \in 1..(entry - 1)
      <3>1. i = entry - 1 \/ EndOf(i) < EndOf(entry - 1)
        <4> SUFFICES ASSUME i # entry - 1 PROVE EndOf(i) < EndOf(entry - 1)
          OBVIOUS
        <4>1. i < entry - 1
          BY <1>2, <2>2
        <4> QED
          BY <1>2, <2>1, <4>1, UpGrows
      <3> HIDE DEF EndOf, Entries
      <3> QED
        BY <1>2, <1>5, <2>1, <2>2, <3>1
    <2>3. CASE i \notin 1..(entry - 1)
      <3>1. entry - 1 < i /\ entry # Len(Entries) + 1
        BY <1>2, <2>1, <2>3
      <3>2. EndOf(entry - 1) < EndOf(i)
        BY <1>2, <2>1, <3>1, UpGrows
      <3>3. read = EndOf(entry - 1)
        BY <1>4, <3>1
      <3> HIDE DEF EndOf, Entries
      <3> QED
        BY <1>2, <2>1, <2>3, <3>2, <3>3
    <2> QED
      BY <2>2, <2>3
  <1>8. CASE /\ entry = Len(Entries) + 1
             /\ unit \in 1..Len(upload.tail) /\ upload.tail[1] = "end"
             /\ read = EndOf(Len(Entries)) + unit
             /\ nonZero \in BOOLEAN
             /\ nonZero <=> \E k \in 2..unit : upload.tail[k] # "zero"
    <2>1. Archive!FileAt(After) = None
      <3>1. After = EndOf(Len(Entries)) + unit + 1 /\ unit \in Nat
        BY <1>3, <1>6, <1>8 DEF After
      <3> QED
        BY <1>2, <3>1, FileAtIs
    <2>2. \A g \in ReadFaults : FALSE
      BY <1>2, <1>8, FaultsFrom DEF Archive!NoHeader, Archive!FaultIf, Archive!tail
    <2>3. Junk <=> nonZero
      <3>1. \A k \in 2..Len(upload.tail) : EndOf(Len(Entries)) + k <= Archive!Readable <=> k \in 2..unit
        <4> HIDE DEF EndOf, Entries
        <4> QED
          BY <1>3, <1>6, <1>8
      <3>2. \A k \in 2..unit : k \in 2..Len(upload.tail)
        BY <1>3, <1>8
      <3> HIDE DEF EndOf, Entries
      <3> QED
        BY <1>8, <3>1, <3>2 DEF Junk
    <2> QED
      BY <1>1, <1>2, <1>6, <1>7, <1>8, <2>1, <2>2, <2>3
  <1>9. CASE /\ unit = 0 /\ nonZero = FALSE
             /\ upload.sound
             /\ read = EndOf(entry - 1) /\ read = upload.delivered
    <2>1. Archive!FileAt(After) = None
      BY <1>2, <1>6, <1>9, FileAtIs DEF After
    <2>2. \A g \in ReadFaults : g.at \in Nat /\ g.at > Archive!Readable
      BY <1>2, <1>6, <1>9
    <2>3. ~Junk
      <3>1. EndOf(entry - 1) <= EndOf(Len(Entries))
        <4>1. entry - 1 = Len(Entries) \/ entry - 1 < Len(Entries)
          BY <1>2
        <4>2. Len(Entries) \in 0..Len(Entries)
          BY <1>2
        <4>3. entry - 1 < Len(Entries) => EndOf(entry - 1) < EndOf(Len(Entries))
          BY <1>2, <4>2, UpGrows
        <4> HIDE DEF EndOf, Entries
        <4> QED
          BY <1>2, <1>3, <4>1, <4>3
      <3> HIDE DEF EndOf, Entries
      <3> QED
        BY <1>2, <1>3, <1>6, <1>9, <3>1 DEF Junk
    <2> QED
      BY <1>1, <1>2, <1>6, <1>7, <1>9, <2>1, <2>2, <2>3
  <1> QED
    BY <1>4, <1>8, <1>9

LEMMA PaddingEndsKeeps == ASSUME ArchiveIInv, Archive!PaddingEnds PROVE ArchiveIInv'
  <1> DEFINE first == FirstOf(Archive!MissingEntries)
  <1>1. /\ pc = "padding" /\ ~Archive!UnitThere
        /\ UNCHANGED <<upload, received, names>>
        /\ \/ /\ Archive!Exceeds \/ ~upload.sound
              /\ Archive!RejectArchive(Archive!ReadError, None, 0)
           \/ /\ ~Archive!Exceeds /\ upload.sound /\ nonZero
              /\ Archive!RejectArchive("invalid_archive", None, 0)
           \/ /\ ~Archive!Exceeds /\ upload.sound /\ ~nonZero /\ Archive!MissingEntries # {}
              /\ Archive!RejectArchive("missing_entry", first, 0)
           \/ /\ ~Archive!Exceeds /\ upload.sound /\ ~nonZero /\ Archive!MissingEntries = {}
              /\ pc' = "manifest" /\ copied' = copied
    BY DEF Archive!PaddingEnds, Archive!Continues, FirstOf
  <1>2. BehindEntries
    BY <1>1 DEF ArchiveIInv
  <1>3. /\ Extracted /\ Opened /\ upload \in Archive!Uploads /\ received' \in 0..upload.compressed
        /\ read = Archive!Readable
        /\ Archive!Exceeds <=> Large
        /\ Archive!ReadError = IF Large THEN "extracted_size_limit" ELSE "invalid_archive"
        /\ ~Large => read = upload.delivered
        /\ Archive!FileAt(After) = None
        /\ \A g \in ReadFaults : g.at \in Nat /\ g.at > Archive!Readable
        /\ \A i \in 1..Len(Entries) : EndOf(i) <= read <=> i \in 1..(entry - 1)
        /\ Junk <=> nonZero
    <2> HIDE DEF Junk, Large, After, ReadFaults, Extracted, Opened
    <2> QED
      BY <1>1, <1>2, PaddingTyped
  <1>4. /\ entry \in 1..(Len(Entries) + 1) /\ Len(Entries) \in Nat
        /\ \A j \in 1..(entry - 1) : j \in 1..Len(Entries) /\ Passed(j)
    BY <1>3, ExtractedTyped
  <1>5. names = {Entries[j].name : j \in 1..(entry - 1)}
    BY <1>3 DEF Extracted
  <1>6. Present = names
    <2>1. {k \in 1..Len(Entries) : EndOf(k) <= Archive!Readable} = 1..(entry - 1)
      <3> HIDE DEF EndOf, Entries
      <3> QED
        BY <1>3, <1>4
    <2> QED
      BY Zenon, <1>5, <2>1 DEF Present
  <1>7. Archive!MissingEntries = Missing
    BY <1>6 DEF Missing, Archive!MissingEntries
  <1>8. Archive!ArchiveFaults = Archive!EndFaults
    BY <1>3, OnlyEndFaults
  <1>9. CASE (Archive!Exceeds \/ ~upload.sound) /\ Archive!RejectArchive(Archive!ReadError, None, 0)
    <2>1. Reported(Archive!ReadError, None, 0)
      <3> HIDE DEF Large, After, Reported, ReadFaults
      <3>1. Reported(IF Large THEN "extracted_size_limit" ELSE "invalid_archive", None, 0)
        BY <1>3, <1>9, EndReported
      <3> QED
        BY <1>3, <3>1
    <2> QED
      BY <1>1, <1>3, <1>9, <2>1, Rejects
  <1>10. ASSUME ~Archive!Exceeds, upload.sound
         PROVE  \A f : f \in Archive!ArchiveFaults <=>
                         \/ nonZero /\ f = Archive!At(After + 1, "invalid_archive", None, 0)
                         \/ Missing # {} /\ f = Archive!At(After + 2, "missing_entry", FirstOf(Missing), 0)
    <2> HIDE DEF Junk, Large, After, Missing, FirstOf
    <2> QED
      BY <1>3, <1>8, <1>10, EndFaultsAre
  <1>11. After \in Nat
    BY <1>3, ReadableIs DEF After
  <1>12. CASE /\ ~Archive!Exceeds /\ upload.sound /\ nonZero
              /\ Archive!RejectArchive("invalid_archive", None, 0)
    <2> DEFINE f == Archive!At(After + 1, "invalid_archive", None, 0)
               h == Archive!At(After + 2, "missing_entry", FirstOf(Missing), 0)
    <2>1. f \in Archive!ArchiveFaults /\ \A g \in Archive!ArchiveFaults : g = f \/ g = h
      BY <1>10, <1>12
    <2>2. f.at = After + 1 /\ h.at = After + 2 /\ <<f.kind, f.file, f.line>> = <<"invalid_archive", None, 0>>
      BY DEF Archive!At
    <2> HIDE DEF f, h, After
    <2>3. Reported("invalid_archive", None, 0)
      BY <1>11, <2>1, <2>2 DEF Reported
    <2> QED
      BY <1>1, <1>3, <1>12, <2>3, Rejects
  <1>13. CASE /\ ~Archive!Exceeds /\ upload.sound /\ ~nonZero /\ Archive!MissingEntries # {}
              /\ Archive!RejectArchive("missing_entry", first, 0)
    <2> DEFINE h == Archive!At(After + 2, "missing_entry", first, 0)
    <2>1. h \in Archive!ArchiveFaults /\ \A g \in Archive!ArchiveFaults : g = h
      BY <1>7, <1>10, <1>13
    <2>2. h.at = After + 2 /\ <<h.kind, h.file, h.line>> = <<"missing_entry", first, 0>>
      BY DEF Archive!At
    <2> HIDE DEF h, After, first
    <2>3. Reported("missing_entry", first, 0)
      BY <1>11, <2>1, <2>2 DEF Reported
    <2> QED
      BY <1>1, <1>3, <1>13, <2>3, Rejects
  <1>14. CASE /\ ~Archive!Exceeds /\ upload.sound /\ ~nonZero /\ Archive!MissingEntries = {}
              /\ pc' = "manifest" /\ copied' = copied
    <2>1. Archive!ArchiveFaults = {}
      BY <1>7, <1>10, <1>14
    <2>2. \A i \in DOMAIN upload.entries : Archive!UpTo(i) <= upload.delivered <=> i \in 1..(entry - 1)
      BY <1>3, <1>14, UploadTyped, LenProperties DEF Entries, EndOf
    <2> DEFINE sent == {i \in DOMAIN upload.entries : Archive!UpTo(i) <= upload.delivered}
    <2>3. sent = 1..(entry - 1)
      BY <1>3, <1>4, <2>2, UploadTyped, LenProperties DEF Entries
    <2>4. /\ copied \in [Archive!Names -> Nat]
          /\ \A j \in 1..(entry - 1) : copied[Entries[j].name] = Len(Entries[j].body)
      BY <1>3 DEF Extracted
    <2>5. Archive!Names = names
      <3>1. \A j \in 1..(entry - 1) : Entries[j].name \in Archive!Names
        BY <1>4 DEF Passed, HeaderSound
      <3>2. \A i \in DOMAIN Archive!Required : Archive!Required[i] \in names
        BY <1>14 DEF Archive!MissingEntries
      <3>3. Archive!Names \subseteq names
        BY <3>2 DEF Archive!Names
      <3> HIDE DEF Entries
      <3> QED
        BY <1>5, <3>1, <3>3
    <2>6. DOMAIN copied = {Entries[i].name : i \in sent}
      BY <1>5, <2>3, <2>4, <2>5
    <2>7. \A i \in sent : copied[Entries[i].name] = Len(Entries[i].body)
      BY <2>3, <2>4
    <2>8. ArchiveVerdictExact'
      <3>1. sent' = sent
        BY <1>1 DEF Archive!UpTo, Archive!entries
      <3>2. /\ Archive!ArchiveFaults' = {}
            /\ DOMAIN copied' = {upload'.entries[i].name : i \in sent'}
            /\ \A i \in sent' : copied'[upload'.entries[i].name] = Len(upload'.entries[i].body)
        <4> HIDE DEF sent
        <4> QED
          BY <1>1, <1>14, <2>1, <2>6, <2>7, <3>1, SameUpload DEF Entries
      <3> QED
        BY <1>14, <3>2 DEF ArchiveVerdictExact
    <2>9. (upload \in Archive!Uploads /\ Archive!WellFormed /\ received \in 0..upload.compressed)'
      BY <1>1, <1>3, SameUpload DEF ArchiveIInv
    <2>10. pc' \notin {"receive", "open", "header", "entry", "padding"}
      BY <1>14
    <2> HIDE DEF Untouched, BetweenEntries, WithinEntry, BehindEntries, ArchiveVerdictExact
    <2> QED
      BY <2>8, <2>9, <2>10 DEF ArchiveIInv
  <1> QED
    BY <1>1, <1>9, <1>12, <1>13, <1>14

LEMMA ReadFailsKeeps == ASSUME ArchiveIInv, Archive!ReadFails PROVE ArchiveIInv'
  <1>1. pc' = "failed" /\ UNCHANGED <<upload, received>>
    BY DEF Archive!ReadFails
  <1>2. received' \in 0..upload.compressed
    BY <1>1 DEF ArchiveIInv
  <1>3. Places'
    <2> HIDE DEF Untouched, BetweenEntries, WithinEntry, BehindEntries
    <2> QED
      BY <1>1 DEF Places
  <1> QED
    BY <1>1, <1>2, <1>3, GoesOn

(* Validate begins when the archive is read, and does not come back to it. *)
LEMMA ValidateStays ==
  ASSUME Next PROVE pc' \notin {"receive", "open", "header", "entry", "padding", "manifest", "unreadable"}
  <1> DEFINE Left == {"nodes", "references", "hierarchy", "relations", "components",
                      "accepted", "loaded", "rejected", "failed", "refused"}
  <1> USE DEF Reject, Goes, Stays
  <1>1. ASSUME ReadManifest PROVE pc' \in Left
    BY <1>1 DEF ReadManifest
  <1>2. ASSUME ReadNode PROVE pc' \in Left
    BY <1>2 DEF ReadNode
  <1>3. ASSUME NodesRead PROVE pc' \in Left
    BY <1>3 DEF NodesRead
  <1>4. ASSUME CheckReference PROVE pc' \in Left
    BY <1>4 DEF CheckReference
  <1>5. ASSUME StartChain PROVE pc' \in Left
    BY <1>5 DEF StartChain
  <1>6. ASSUME Climb PROVE pc' \in Left
    BY <1>6 DEF Climb
  <1>7. ASSUME ChainCloses PROVE pc' \in Left
    BY <1>7 DEF ChainCloses
  <1>8. ASSUME SettleChain PROVE pc' \in Left
    BY <1>8 DEF SettleChain
  <1>9. ASSUME HierarchyChecked PROVE pc' \in Left
    BY <1>9 DEF HierarchyChecked
  <1>10. ASSUME ReadRelation PROVE pc' \in Left
    BY <1>10 DEF ReadRelation
  <1>11. ASSUME RelationsRead PROVE pc' \in Left
    BY <1>11 DEF RelationsRead
  <1>12. ASSUME VisitRoot PROVE pc' \in Left
    BY <1>12 DEF VisitRoot
  <1>13. ASSUME LookAtNeighbour PROVE pc' \in Left
    BY <1>13 DEF LookAtNeighbour
  <1>14. ASSUME Leave PROVE pc' \in Left
    BY <1>14 DEF Leave
  <1>15. ASSUME ComponentsFound PROVE pc' \in Left
    BY <1>15 DEF ComponentsFound
  <1>16. ASSUME Load PROVE pc' \in Left
    BY <1>16 DEF Load
  <1>17. ASSUME Fail PROVE pc' \in Left
    BY <1>17 DEF Fail
  <1> QED
    BY <1>1, <1>2, <1>3, <1>4, <1>5, <1>6, <1>7, <1>8, <1>9, <1>10, <1>11, <1>12, <1>13, <1>14, <1>15, <1>16, <1>17 DEF Next

LEMMA ArchiveKeeps == ASSUME ArchiveIInv, [SnapshotNext]_snapshotVars PROVE ArchiveIInv'
  <1>1. CASE Archive!ArchiveNext
    BY <1>1, ReceiveArchive, ReceivedKeeps, OpenKeeps, HeaderMissingKeeps, ReadHeaderKeeps, ReadEndKeeps,
       CopyUnitKeeps, EntryBreaksOffKeeps, EntryEndsKeeps, ReadPaddingKeeps, PaddingEndsKeeps, ReadFailsKeeps
       DEF Archive!ArchiveNext
  <1>2. CASE Next /\ UNCHANGED reading
    <2>1. UNCHANGED <<upload, received>>
      BY <1>2 DEF reading
    <2>2. (upload \in Archive!Uploads /\ Archive!WellFormed /\ received \in 0..upload.compressed)'
      BY <2>1, SameUpload DEF ArchiveIInv
    <2>3. pc' \notin {"receive", "open", "header", "entry", "padding", "manifest", "unreadable"}
      BY <1>2, ValidateStays
    <2>4. ArchiveVerdictExact'
      BY <2>3 DEF ArchiveVerdictExact
    <2> HIDE DEF Untouched, BetweenEntries, WithinEntry, BehindEntries, ArchiveVerdictExact
    <2> QED
      BY <2>2, <2>3, <2>4 DEF ArchiveIInv
  <1>3. CASE UNCHANGED snapshotVars
    <2>1. UNCHANGED <<pc, error, upload, received, read, entry, unit, lineNumber, lineLength, lineValid,
                      names, copied, nonZero>>
      BY <1>3 DEF snapshotVars, vars, reading
    <2>2. /\ Entries' = Entries /\ Archive!ArchiveFaults' = Archive!ArchiveFaults /\ Archive!Names' = Archive!Names
          /\ (upload \in Archive!Uploads /\ Archive!WellFormed /\ received \in 0..upload.compressed)'
             <=> (upload \in Archive!Uploads /\ Archive!WellFormed /\ received \in 0..upload.compressed)
      BY <2>1, SameUpload DEF Archive!Names, Archive!Required
    <2>3. EndOf(entry - 1)' = EndOf(entry - 1) /\ EndOf(Len(Entries))' = EndOf(Len(Entries))
          /\ HeaderAt(entry)' = HeaderAt(entry)
          /\ (HeaderSound(entry)' <=> HeaderSound(entry))
      BY <2>1, SameUpload DEF EndOf, HeaderAt, HeaderSound, Entries
    <2>4. Untouched' <=> Untouched
      BY <2>1 DEF Untouched
    <2>5. Extracted => Extracted'
      BY <2>1, ExtractedStays DEF Extracted
    <2>6. BetweenEntries => BetweenEntries'
      <3> HIDE DEF Extracted, EndOf, Entries
      <3> QED
        BY <2>1, <2>2, <2>3, <2>5 DEF BetweenEntries
    <2>7. BehindEntries => BehindEntries'
      <3> HIDE DEF Extracted, EndOf, Entries
      <3> QED
        BY <2>1, <2>2, <2>3, <2>5 DEF BehindEntries
    <2>8. WithinEntry => WithinEntry'
      <3>1. Scanned(Entries[entry].body, unit, lineNumber, lineLength, lineValid)'
              <=> Scanned(Entries[entry].body, unit, lineNumber, lineLength, lineValid)
        BY <2>1, <2>2
      <3>2. SoFarSound(Entries[entry].body, unit, lineLength)' <=> SoFarSound(Entries[entry].body, unit, lineLength)
        BY <2>1, <2>2
      <3> HIDE DEF Extracted, EndOf, HeaderAt, Entries, Scanned, SoFarSound, HeaderSound
      <3> QED
        BY <2>1, <2>2, <2>3, <2>5, <3>1, <3>2 DEF WithinEntry
    <2>9. ArchiveVerdictExact => ArchiveVerdictExact'
      BY <2>1, <2>2, SMTT(60) DEF ArchiveVerdictExact, Archive!UpTo, Archive!entries
    <2> HIDE DEF Untouched, BetweenEntries, WithinEntry, BehindEntries, ArchiveVerdictExact
    <2> QED
      BY <2>1, <2>2, <2>4, <2>6, <2>7, <2>8, <2>9 DEF ArchiveIInv
  <1> QED
    BY <1>1, <1>2, <1>3 DEF SnapshotNext

LEMMA ArchiveBegins == SnapshotInit => ArchiveIInv
  <1> SUFFICES ASSUME SnapshotInit PROVE ArchiveIInv
    OBVIOUS
  <1>1. /\ upload \in Archive!Uploads /\ Archive!WellFormed /\ pc = "receive"
        /\ received = 0 /\ Untouched
    BY DEF SnapshotInit, Archive!BeginReading, Begin, Untouched
  <1>2. received \in 0..upload.compressed
    BY <1>1, UploadTyped
  <1>3. ArchiveVerdictExact
    BY <1>1 DEF ArchiveVerdictExact
  <1> HIDE DEF Untouched, BetweenEntries, WithinEntry, BehindEntries, ArchiveVerdictExact
  <1> QED
    BY <1>1, <1>2, <1>3 DEF ArchiveIInv

(* ArchiveVerdictExact, for every upload and for all three limits. *)
THEOREM ArchiveVerdict == SnapshotSpec => []ArchiveVerdictExact
  <1>1. ArchiveIInv => ArchiveVerdictExact
    BY DEF ArchiveIInv
  <1> QED
    BY <1>1, ArchiveBegins, ArchiveKeeps, PTL DEF SnapshotSpec
--------------------------------------------------------------------------------
(* The largest component: maxSCCNodes. *)

Visited == DOMAIN indices
OnStack == ToSet(stack)
Completed == Visited \ OnStack
Vertex(i) == frames[i].vertex

(* A set that no edge leads out of; n is reached from m if each of them that has m has n. *)
Closed == {S \in SUBSET Defined : \A e \in adjacency : e[1] \in S => e[2] \in S}
Reaches(m, n) == \A S \in Closed : m \in S => n \in S
Component(n) == {m \in Defined : Reaches(n, m) /\ Reaches(m, n)}

VisitsNumbered ==
  /\ Visited \subseteq Defined
  /\ \A v \in Visited : indices[v] \in Nat /\ indices[v] < Cardinality(Visited)
  /\ DOMAIN lowlinks = Visited

(* The stack and the calls that run are in the order of the visits. *)
StackRises ==
  /\ stack \in Seq(Visited)
  /\ \A i, j \in DOMAIN stack : i < j => indices[stack[i]] < indices[stack[j]]

FramesRise ==
  /\ frames \in Seq([vertex : Defined, left : SUBSET Defined])
  /\ \A i \in DOMAIN frames : Vertex(i) \in OnStack /\ frames[i].left \subseteq Neighbours(Vertex(i))
  /\ \A i, j \in DOMAIN frames : i < j => indices[Vertex(i)] < indices[Vertex(j)]

(* No edge leads out of the components that are complete. *)
CompletedClosed == \A x \in Completed : Neighbours(x) \subseteq Completed

(* A call reaches what lies above it on the stack, and from there a call is reached. *)
CallsReach ==
  \A i \in DOMAIN frames : \A y \in OnStack : indices[Vertex(i)] <= indices[y] => Reaches(Vertex(i), y)
StackReaches ==
  \A y \in OnStack : \E i \in DOMAIN frames : indices[Vertex(i)] <= indices[y] /\ Reaches(y, Vertex(i))

(* A link is the number of a node that is reached; and from what belongs to a call
   no edge looked at leads to a lower number than its link. *)
LinksReached ==
  \A i \in DOMAIN frames : \E y \in OnStack :
    /\ indices[y] = lowlinks[Vertex(i)]
    /\ indices[y] <= indices[Vertex(i)]
    /\ Reaches(Vertex(i), y)

Owned(i) ==
  {y \in OnStack : /\ indices[Vertex(i)] <= indices[y]
                   /\ i < Len(frames) => indices[y] < indices[Vertex(i + 1)]}
Looked(i, y) == IF y = Vertex(i) THEN Neighbours(y) \ frames[i].left ELSE Neighbours(y)
LinksBound ==
  \A i \in DOMAIN frames : \A y \in Owned(i) : \A w \in Looked(i, y) :
    w \in Visited /\ (w \in OnStack => lowlinks[Vertex(i)] <= indices[w])

MaximumSoFar ==
  /\ maximum \in Nat
  /\ \A n \in Completed : Cardinality(Component(n)) <= maximum
  /\ maximum = 0 \/ \E n \in Completed : maximum = Cardinality(Component(n))

TarjanIInv ==
  /\ VisitsNumbered
  /\ StackRises
  /\ FramesRise
  /\ CompletedClosed
  /\ CallsReach
  /\ StackReaches
  /\ LinksReached
  /\ LinksBound
  /\ MaximumSoFar

LEMMA ReachesSelf == \A m : Reaches(m, m)
  BY DEF Reaches

LEMMA ReachesOn ==
  ASSUME NEW a, NEW b, NEW c, Reaches(a, b), Reaches(b, c)
  PROVE  Reaches(a, c)
  BY DEF Reaches

LEMMA ReachesEdge ==
  ASSUME NEW v, NEW w \in Neighbours(v)
  PROVE  Reaches(v, w)
  <1>1. PICK e \in adjacency : e[1] = v /\ e[2] = w
    BY DEF Neighbours
  <1> QED
    BY <1>1 DEF Reaches, Closed

(* Where neither the nodes nor the edges change. *)
LEMMA ReachesStay ==
  ASSUME UNCHANGED <<nodeLines, adjacency>>
  PROVE  /\ Defined' = Defined
         /\ \A m, n : Reaches(m, n)' <=> Reaches(m, n)
         /\ \A n : Component(n)' = Component(n)
         /\ \A v : Neighbours(v)' = Neighbours(v)
  <1>1. Defined' = Defined
    BY DEF Defined, Lines
  <1>2. Closed' = Closed
    BY <1>1 DEF Closed
  <1>3. \A m, n : Reaches(m, n)' <=> Reaches(m, n)
    BY <1>2 DEF Reaches
  <1>4. \A n : Component(n)' = Component(n)
    BY <1>1, <1>3 DEF Component
  <1> QED
    BY <1>1, <1>3, <1>4 DEF Neighbours

EdgesJoin == \A e \in adjacency : e[1] \in Defined /\ e[2] \in Defined

LEMMA NeighboursJoin ==
  ASSUME EdgesJoin
  PROVE  \A v : Neighbours(v) \subseteq Defined
  BY DEF EdgesJoin, Neighbours

LEMMA CallsAre ==
  ASSUME TarjanIInv
  PROVE  /\ Len(frames) \in Nat /\ DOMAIN frames = 1..Len(frames)
         /\ OnStack \subseteq Visited /\ Visited \subseteq Defined
         /\ \A y \in OnStack : indices[y] \in Nat
         /\ \A i \in 1..Len(frames) :
              /\ Vertex(i) \in OnStack
              /\ indices[Vertex(i)] \in Nat
              /\ lowlinks[Vertex(i)] \in Nat /\ lowlinks[Vertex(i)] <= indices[Vertex(i)]
              /\ frames[i] = [vertex |-> Vertex(i), left |-> frames[i].left]
              /\ frames[i].left \subseteq Neighbours(Vertex(i))
         /\ \A i, j \in 1..Len(frames) : i < j => indices[Vertex(i)] < indices[Vertex(j)]
  <1>1. Len(frames) \in Nat /\ DOMAIN frames = 1..Len(frames)
    BY DEF TarjanIInv, FramesRise
  <1>2. OnStack \subseteq Visited /\ Visited \subseteq Defined
    BY DEF TarjanIInv, StackRises, VisitsNumbered, OnStack, ToSet
  <1>3. \A y \in OnStack : indices[y] \in Nat
    BY <1>2 DEF TarjanIInv, VisitsNumbered
  <1>4. \A i \in 1..Len(frames) : Vertex(i) \in OnStack /\ frames[i].left \subseteq Neighbours(Vertex(i))
    BY <1>1 DEF TarjanIInv, FramesRise
  <1>5. \A i \in 1..Len(frames) : lowlinks[Vertex(i)] \in Nat /\ lowlinks[Vertex(i)] <= indices[Vertex(i)]
    BY <1>1, <1>3 DEF TarjanIInv, LinksReached
  <1>6. \A i \in 1..Len(frames) : frames[i] = [vertex |-> Vertex(i), left |-> frames[i].left]
    <2> DEFINE Frame == [vertex : Defined, left : SUBSET Defined]
    <2>1. \A i \in 1..Len(frames) : frames[i] \in Frame
      <3>1. frames \in Seq(Frame)
        BY DEF TarjanIInv, FramesRise
      <3> HIDE DEF Frame
      <3> QED
        BY <1>1, <3>1
    <2> QED
      BY <2>1 DEF Vertex
  <1>7. \A i, j \in 1..Len(frames) : i < j => indices[Vertex(i)] < indices[Vertex(j)]
    BY <1>1 DEF TarjanIInv, FramesRise
  <1> QED
    BY <1>1, <1>2, <1>3, <1>4, <1>5, <1>6, <1>7

(* What a call does with its neighbours before it looks at w: w is no longer left. *)
WithoutNext(above, w) ==
  /\ above \in Seq([vertex : Defined, left : SUBSET Defined])
  /\ Len(above) = Len(frames)
  /\ \A i \in 1..Len(frames) :
       /\ above[i].vertex = Vertex(i)
       /\ above[i].left = IF i = Len(frames) THEN frames[i].left \ {w} ELSE frames[i].left
  /\ frames # <<>> => w \in Neighbours(Vertex(Len(frames)))

(* A node is visited. *)
LEMMA EnterKeeps ==
  ASSUME TarjanIInv, IsFiniteSet(Defined), EdgesJoin,
         NEW w \in Defined, w \notin Visited, NEW above, WithoutNext(above, w),
         Enter(w, above), UNCHANGED <<nodeLines, adjacency, maximum>>
  PROVE  TarjanIInv'
  <1> DEFINE n == Len(frames)
             next == Cardinality(Visited)
  <1>1. /\ n \in Nat /\ DOMAIN frames = 1..n
        /\ OnStack \subseteq Visited /\ Visited \subseteq Defined
        /\ \A y \in OnStack : indices[y] \in Nat
        /\ \A i \in 1..n : /\ Vertex(i) \in OnStack
                           /\ indices[Vertex(i)] \in Nat
                           /\ lowlinks[Vertex(i)] \in Nat /\ lowlinks[Vertex(i)] <= indices[Vertex(i)]
        /\ \A i, j \in 1..n : i < j => indices[Vertex(i)] < indices[Vertex(j)]
    BY CallsAre
  <1>2. next \in Nat /\ Cardinality(Visited \cup {w}) = next + 1
    <2>1. IsFiniteSet(Visited)
      BY <1>1, FS_Subset
    <2> QED
      BY <2>1, FS_AddElement, FS_CardinalityType
  <1>3. \A v \in Visited : indices[v] \in Nat /\ indices[v] < next
    BY DEF TarjanIInv, VisitsNumbered
  <1>4. /\ Visited' = Visited \cup {w} /\ DOMAIN lowlinks' = Visited \cup {w}
        /\ \A v \in Visited : indices'[v] = indices[v] /\ lowlinks'[v] = lowlinks[v]
        /\ indices'[w] = next /\ lowlinks'[w] = next
    BY DEF Enter, Visited
  <1>5. /\ stack \in Seq(Visited) /\ stack' \in Seq(Visited \cup {w}) /\ Len(stack) \in Nat
        /\ DOMAIN stack = 1..Len(stack) /\ DOMAIN stack' = 1..(Len(stack) + 1)
        /\ \A k \in 1..Len(stack) : stack'[k] = stack[k]
        /\ stack'[Len(stack) + 1] = w
    <2>1. stack' = Append(stack, w)
      BY DEF Enter
    <2>2. stack \in Seq(Visited)
      BY DEF TarjanIInv, StackRises
    <2>3. stack \in Seq(Visited \cup {w})
      BY <2>2, SeqMonotonic
    <2> HIDE DEF Visited
    <2> QED
      BY <2>1, <2>2, <2>3
  <1>6. OnStack' = OnStack \cup {w}
    BY <1>5 DEF OnStack, ToSet
  <1>7. Completed' = Completed
    BY <1>4, <1>6 DEF Completed
  <1> DEFINE f == [vertex |-> w, left |-> Neighbours(w)]
             Frame == [vertex : Defined, left : SUBSET Defined]
  <1>8. /\ frames' \in Seq(Frame) /\ Len(frames') = n + 1 /\ DOMAIN frames' = 1..(n + 1)
        /\ \A i \in 1..n : frames'[i] = above[i]
        /\ frames'[n + 1] = f
    <2>1. frames' = Append(above, f)
      BY DEF Enter
    <2>2. f \in Frame
      BY NeighboursJoin
    <2>3. above \in Seq(Frame) /\ Len(above) = n
      BY DEF WithoutNext
    <2> HIDE DEF f, Frame
    <2> QED
      BY <1>1, <2>1, <2>2, <2>3
  <1>9. /\ \A i \in 1..n : frames'[i].vertex = Vertex(i)
        /\ frames'[n + 1].vertex = w
    <2>1. \A i \in 1..n : above[i].vertex = Vertex(i)
      BY DEF WithoutNext
    <2>2. f.vertex = w
      OBVIOUS
    <2> HIDE DEF f, n
    <2> QED
      BY <1>8, <2>1, <2>2
  <1>10. /\ Defined' = Defined
         /\ \A a, b : Reaches(a, b)' <=> Reaches(a, b)
         /\ \A a : Component(a)' = Component(a)
         /\ \A v : Neighbours(v)' = Neighbours(v)
    BY ReachesStay
  <1>11. \A i \in 1..(n + 1) : i \in 1..n \/ i = n + 1
    BY <1>1
  <1>12. ASSUME NEW i \in 1..n PROVE Reaches(Vertex(i), w)
    BY <1>1, ReachesEdge, ReachesOn DEF TarjanIInv, CallsReach, WithoutNext
  <1> HIDE DEF n, next, f, Frame
  <1>13. VisitsNumbered'
    BY <1>1, <1>2, <1>3, <1>4, <1>10 DEF VisitsNumbered
  <1>14. StackRises'
    <2>1. \A k \in 1..Len(stack) : indices'[stack'[k]] = indices[stack[k]] /\ indices[stack[k]] < next
      BY <1>3, <1>4, <1>5
    <2>2. \A i, j \in 1..Len(stack) : i < j => indices[stack[i]] < indices[stack[j]]
      BY <1>5 DEF TarjanIInv, StackRises
    <2>3. ASSUME NEW i \in 1..(Len(stack) + 1), NEW j \in 1..(Len(stack) + 1), i < j
          PROVE  indices'[stack'[i]] < indices'[stack'[j]]
      <3>1. i \in 1..Len(stack)
        BY <1>5, <2>3
      <3>2. CASE j \in 1..Len(stack)
        BY <2>1, <2>2, <2>3, <3>1, <3>2
      <3>3. CASE j = Len(stack) + 1
        BY <1>4, <1>5, <2>1, <3>1, <3>3
      <3> QED
        BY <1>5, <3>2, <3>3
    <2> QED
      BY <1>4, <1>5, <2>3 DEF StackRises
  <1>15. FramesRise'
    <2>1. \A i \in 1..(n + 1) : frames'[i].vertex \in OnStack \cup {w}
      BY <1>1, <1>9, <1>11
    <2>2. \A i \in 1..(n + 1) : frames'[i].left \subseteq Neighbours(frames'[i].vertex)
      <3>1. ASSUME NEW i \in 1..n PROVE frames'[i].left \subseteq Neighbours(Vertex(i))
        BY <1>8, CallsAre DEF WithoutNext, n
      <3>2. frames'[n + 1].left = Neighbours(w)
        BY <1>8 DEF f
      <3> QED
        BY <1>9, <1>11, <3>1, <3>2
    <2>3. ASSUME NEW i \in 1..(n + 1), NEW j \in 1..(n + 1), i < j
          PROVE  indices'[frames'[i].vertex] < indices'[frames'[j].vertex]
      <3>1. i \in 1..n
        BY <1>1, <2>3
      <3>2. indices'[frames'[i].vertex] = indices[Vertex(i)] /\ indices[Vertex(i)] < next
        BY <1>1, <1>3, <1>4, <1>9, <3>1
      <3>3. CASE j \in 1..n
        BY <1>1, <1>4, <1>9, <2>3, <3>1, <3>2, <3>3
      <3>4. CASE j = n + 1
        BY <1>4, <1>9, <3>2, <3>4
      <3> QED
        BY <1>11, <3>3, <3>4
    <2>4. (\A i \in DOMAIN frames : Vertex(i) \in OnStack /\ frames[i].left \subseteq Neighbours(Vertex(i)))'
      BY <1>6, <1>8, <1>10, <2>1, <2>2 DEF Vertex
    <2>5. (\A i, j \in DOMAIN frames : i < j => indices[Vertex(i)] < indices[Vertex(j)])'
      BY <1>8, <2>3 DEF Vertex
    <2>6. (frames \in Seq([vertex : Defined, left : SUBSET Defined]))'
      BY <1>8, <1>10 DEF Frame
    <2> QED
      BY <2>4, <2>5, <2>6 DEF FramesRise
  <1>16. CompletedClosed'
    BY <1>7, <1>10 DEF TarjanIInv, CompletedClosed
  <1>17. CallsReach'
    <2>1. ASSUME NEW i \in 1..(n + 1), NEW y \in OnStack \cup {w}, indices'[frames'[i].vertex] <= indices'[y]
          PROVE  Reaches(frames'[i].vertex, y)
      <3>1. CASE i \in 1..n /\ y \in OnStack
        BY <1>1, <1>4, <1>9, <2>1, <3>1 DEF TarjanIInv, CallsReach
      <3>2. CASE i \in 1..n /\ y = w
        BY <1>9, <1>12, <3>2
      <3>3. CASE i = n + 1 /\ y \in OnStack
        BY <1>1, <1>2, <1>3, <1>4, <1>9, <2>1, <3>3
      <3>4. CASE i = n + 1 /\ y = w
        BY <1>9, <3>4, ReachesSelf
      <3> QED
        BY <1>11, <3>1, <3>2, <3>3, <3>4
    <2> QED
      BY <1>6, <1>8, <1>10, <2>1 DEF CallsReach, Vertex
  <1>18. StackReaches'
    <2>1. ASSUME NEW y \in OnStack \cup {w}
          PROVE  \E i \in 1..(n + 1) : indices'[frames'[i].vertex] <= indices'[y] /\ Reaches(y, frames'[i].vertex)
      <3>1. CASE y \in OnStack
        <4>1. PICK i \in 1..n : indices[Vertex(i)] <= indices[y] /\ Reaches(y, Vertex(i))
          BY <1>1, <3>1 DEF TarjanIInv, StackReaches
        <4>2. i \in 1..(n + 1)
          BY <1>1
        <4> QED
          BY <1>1, <1>4, <1>9, <3>1, <4>1, <4>2
      <3>2. CASE y = w
        BY <1>1, <1>2, <1>4, <1>9, <3>2, ReachesSelf
      <3> QED
        BY <3>1, <3>2
    <2> QED
      BY <1>6, <1>8, <1>10, <2>1 DEF StackReaches, Vertex
  <1>19. LinksReached'
    <2>1. ASSUME NEW i \in 1..(n + 1)
          PROVE  \E y \in OnStack \cup {w} : /\ indices'[y] = lowlinks'[frames'[i].vertex]
                                             /\ indices'[y] <= indices'[frames'[i].vertex]
                                             /\ Reaches(frames'[i].vertex, y)
      <3>1. CASE i \in 1..n
        <4>1. PICK y \in OnStack : /\ indices[y] = lowlinks[Vertex(i)]
                                   /\ indices[y] <= indices[Vertex(i)]
                                   /\ Reaches(Vertex(i), y)
          BY <1>1, <3>1 DEF TarjanIInv, LinksReached
        <4> QED
          BY <1>1, <1>4, <1>9, <3>1, <4>1
      <3>2. CASE i = n + 1
        BY <1>2, <1>4, <1>9, <3>2, ReachesSelf
      <3> QED
        BY <1>11, <3>1, <3>2
    <2> QED
      BY <1>6, <1>8, <1>10, <2>1 DEF LinksReached, Vertex
  <1>20. LinksBound'
    <2>1. ASSUME NEW i \in 1..(n + 1), NEW y \in OnStack \cup {w}, indices'[frames'[i].vertex] <= indices'[y],
                 i < n + 1 => indices'[y] < indices'[frames'[i + 1].vertex],
                 NEW u \in IF y = frames'[i].vertex THEN Neighbours(y) \ frames'[i].left ELSE Neighbours(y)
          PROVE  u \in Visited \cup {w} /\ (u \in OnStack \cup {w} => lowlinks'[frames'[i].vertex] <= indices'[u])
      <3>1. /\ y \in OnStack \cup {w} /\ indices'[frames'[i].vertex] <= indices'[y]
            /\ i < n + 1 => indices'[y] < indices'[frames'[i + 1].vertex]
        BY <2>1
      <3>2. u \in IF y = frames'[i].vertex THEN Neighbours(y) \ frames'[i].left ELSE Neighbours(y)
        BY <2>1
      <3>3. CASE i \in 1..n
        <4>1. i < n + 1 /\ (i # n => i + 1 \in 1..n)
          BY <1>1, <3>3
        <4>2. y # w
          <5>1. CASE i = n
            BY <1>2, <1>4, <1>9, <3>1, <4>1, <5>1
          <5>2. CASE i # n
            BY <1>1, <1>2, <1>3, <1>4, <1>9, <3>1, <4>1, <5>2
          <5> QED
            BY <5>1, <5>2
        <4>3. y \in OnStack
          BY <3>1, <4>2
        <4>4. y \in Owned(i)
          <5>1. indices[Vertex(i)] <= indices[y]
            BY <1>1, <1>4, <1>9, <3>1, <3>3, <4>3
          <5>2. i < n => indices[y] < indices[Vertex(i + 1)]
            BY <1>1, <1>4, <1>9, <3>1, <3>3, <4>1, <4>3
          <5> QED
            BY <4>3, <5>1, <5>2 DEF Owned, n
        <4>5. u \in Looked(i, y) \/ u = w
          BY <1>8, <1>9, <3>2, <3>3 DEF Looked, WithoutNext, n
        <4>6. CASE u \in Looked(i, y)
          BY <1>1, <1>4, <1>9, <3>3, <4>4, <4>6 DEF TarjanIInv, LinksBound
        <4>7. CASE u = w
          BY <1>1, <1>2, <1>3, <1>4, <1>9, <3>3, <4>7
        <4> QED
          BY <4>5, <4>6, <4>7
      <3>4. CASE i = n + 1
        <4>1. y = w
          BY <1>1, <1>2, <1>3, <1>4, <1>9, <3>1, <3>4
        <4>2. frames'[i].left = Neighbours(w)
          BY <1>8, <3>4 DEF f
        <4> QED
          BY <1>9, <3>2, <3>4, <4>1, <4>2
      <3> QED
        BY <1>11, <3>3, <3>4
    <2> QED
      BY <1>4, <1>6, <1>8, <1>10, <2>1 DEF LinksBound, Owned, Looked, Vertex
  <1>21. MaximumSoFar'
    BY <1>7, <1>10 DEF TarjanIInv, MaximumSoFar
  <1> QED
    BY <1>13, <1>14, <1>15, <1>16, <1>17, <1>18, <1>19, <1>20, <1>21 DEF TarjanIInv

Frame == [vertex : Defined, left : SUBSET Defined]

LEMMA FrameWithout ==
  ASSUME NEW D, NEW r \in [vertex : D, left : SUBSET D], NEW x
  PROVE  [r EXCEPT !.left = @ \ {x}] = [vertex |-> r.vertex, left |-> r.left \ {x}]
  OBVIOUS

LEMMA TopIs ==
  ASSUME TarjanIInv, frames # <<>>
  PROVE  /\ Len(frames) \in Nat \ {0} /\ Len(frames) \in 1..Len(frames)
         /\ Last(frames) = frames[Len(frames)]
         /\ Front(frames) \in Seq(Frame)
         /\ Len(Front(frames)) = Len(frames) - 1
         /\ DOMAIN Front(frames) = 1..(Len(frames) - 1)
         /\ \A i \in 1..(Len(frames) - 1) : Front(frames)[i] = frames[i]
  <1>1. frames \in Seq(Frame)
    BY DEF TarjanIInv, FramesRise, Frame
  <1> HIDE DEF Frame
  <1>2. Len(frames) \in Nat \ {0}
    BY <1>1
  <1>3. Front(frames) = SubSeq(frames, 1, Len(frames) - 1)
    BY DEF Front
  <1>4. \A i \in 1..(Len(frames) - 1) : frames[i] \in Frame
    BY <1>1, <1>2
  <1>5. Len(frames) - 1 \in 0..Len(frames)
    BY <1>2
  <1>6. /\ Front(frames) \in Seq(Frame)
        /\ Len(Front(frames)) = Len(frames) - 1
        /\ \A i \in 1..(Len(frames) - 1) : Front(frames)[i] = frames[i]
    <2>1. 1..(Len(frames) - 1) \subseteq 1..Len(frames)
      BY <1>2
    <2>2. /\ SubSeq(frames, 1, Len(frames) - 1) \in Seq(Frame)
          /\ Len(SubSeq(frames, 1, Len(frames) - 1)) = Len(frames) - 1
          /\ \A i \in 1..(Len(frames) - 1) : SubSeq(frames, 1, Len(frames) - 1)[i] = frames[i]
      <3>1. 1 \in Int /\ Len(frames) - 1 \in Int /\ (Len(frames) - 1) - 1 + 1 = Len(frames) - 1
        BY <1>2
      <3>2. 1 <= Len(frames) - 1 \/ Len(frames) - 1 = 0
        BY <1>2
      <3>3. \A i \in 1..(Len(frames) - 1) : 1 + i - 1 = i
        OBVIOUS
      <3> QED
        BY <1>4, <3>1, <3>2, <3>3, SubSeqProperties
    <2> QED
      BY <1>3, <2>2
  <1> QED
    BY <1>2, <1>6 DEF Last

(* A neighbour that is visited is looked at. *)
LEMMA LookKeeps ==
  ASSUME TarjanIInv, IsFiniteSet(Defined), EdgesJoin, frames # <<>>,
         NEW w \in Last(frames).left, w \in Visited,
         frames' = Append(Front(frames), [Last(frames) EXCEPT !.left = @ \ {w}]),
         lowlinks' = IF Links(w) THEN Lowered(Last(frames).vertex, indices[w]) ELSE lowlinks,
         UNCHANGED <<nodeLines, adjacency, maximum, indices, stack>>
  PROVE  TarjanIInv'
  <1> DEFINE n == Len(frames)
             v == Vertex(n)
  <1>1. /\ n \in Nat /\ DOMAIN frames = 1..n
        /\ OnStack \subseteq Visited /\ Visited \subseteq Defined
        /\ \A y \in OnStack : indices[y] \in Nat
        /\ \A i \in 1..n : /\ Vertex(i) \in OnStack
                           /\ indices[Vertex(i)] \in Nat
                           /\ lowlinks[Vertex(i)] \in Nat /\ lowlinks[Vertex(i)] <= indices[Vertex(i)]
                           /\ frames[i] = [vertex |-> Vertex(i), left |-> frames[i].left]
                           /\ frames[i].left \subseteq Neighbours(Vertex(i))
        /\ \A i, j \in 1..n : i < j => indices[Vertex(i)] < indices[Vertex(j)]
    BY CallsAre
  <1>2. /\ n \in Nat \ {0} /\ n \in 1..n /\ Last(frames) = frames[n]
        /\ Front(frames) \in Seq(Frame) /\ Len(Front(frames)) = n - 1
        /\ \A i \in 1..(n - 1) : Front(frames)[i] = frames[i]
    BY TopIs
  <1>3. Last(frames) = [vertex |-> v, left |-> frames[n].left] /\ w \in frames[n].left
    BY <1>1, <1>2
  <1>4. w \in Neighbours(v) /\ w \in Defined /\ v \in OnStack
    BY <1>1, <1>2, <1>3, NeighboursJoin
  <1> DEFINE f == [vertex |-> v, left |-> frames[n].left \ {w}]
  <1>5. frames' = Append(Front(frames), f) /\ f \in Frame
    <2>1. frames[n].left \subseteq Defined
      BY <1>1, <1>2, NeighboursJoin
    <2>2. [Last(frames) EXCEPT !.left = @ \ {w}] = f
      <3>1. Last(frames) \in [vertex : Defined, left : SUBSET Defined]
        BY <1>1, <1>2 DEF TarjanIInv, FramesRise
      <3>2. [Last(frames) EXCEPT !.left = @ \ {w}]
              = [vertex |-> Last(frames).vertex, left |-> Last(frames).left \ {w}]
        BY <3>1, FrameWithout
      <3>3. Last(frames).vertex = v /\ Last(frames).left = frames[n].left
        BY <1>3
      <3> HIDE DEF v, n
      <3> QED
        BY <3>2, <3>3
    <2>3. v \in Defined
      BY <1>1, <1>4
    <2>4. f \in Frame
      BY <2>1, <2>3 DEF Frame
    <2>5. frames' = Append(Front(frames), f)
      BY <2>2
    <2> QED
      BY <2>4, <2>5
  <1>6. /\ frames' \in Seq(Frame) /\ Len(frames') = n /\ DOMAIN frames' = 1..n
        /\ \A i \in 1..(n - 1) : frames'[i] = frames[i]
        /\ frames'[n] = f
    <2> HIDE DEF f, n
    <2>1. frames' \in Seq(Frame) /\ Len(frames') = (n - 1) + 1
      BY <1>2, <1>5
    <2>2. \A i \in 1..(n - 1) : frames'[i] = Front(frames)[i]
      BY <1>2, <1>5
    <2>3. frames'[(n - 1) + 1] = f
      BY <1>2, <1>5
    <2>4. (n - 1) + 1 = n
      BY <1>2
    <2> QED
      BY <1>2, <2>1, <2>2, <2>3, <2>4
  <1>7. /\ \A i \in 1..n : frames'[i].vertex = Vertex(i)
        /\ \A i \in 1..n : frames'[i].left = IF i = n THEN frames[i].left \ {w} ELSE frames[i].left
    <2>2. f.vertex = v /\ f.left = frames[n].left \ {w}
      OBVIOUS
    <2> HIDE DEF f, n
    <2>1. \A i \in 1..n : i \in 1..(n - 1) \/ i = n
      BY <1>2
    <2>3. \A i \in 1..(n - 1) : i # n
      BY <1>2
    <2> QED
      BY <1>6, <2>1, <2>2, <2>3 DEF Vertex
  <1>8. /\ Visited' = Visited /\ OnStack' = OnStack /\ Completed' = Completed
    BY DEF Visited, OnStack, Completed
  <1>9. /\ Defined' = Defined
        /\ \A a, b : Reaches(a, b)' <=> Reaches(a, b)
        /\ \A a : Component(a)' = Component(a)
        /\ \A a : Neighbours(a)' = Neighbours(a)
    BY ReachesStay
  <1>10. DOMAIN lowlinks = Visited
    BY DEF TarjanIInv, VisitsNumbered
  <1>11. /\ DOMAIN lowlinks' = Visited
         /\ \A y \in Visited \ {v} : lowlinks'[y] = lowlinks[y]
         /\ lowlinks'[v] \in Nat /\ lowlinks'[v] <= lowlinks[v]
         /\ w \in OnStack => lowlinks'[v] <= indices[w]
         /\ lowlinks'[v] = lowlinks[v] \/ (w \in OnStack /\ lowlinks'[v] = indices[w])
    <2>1. lowlinks[v] \in Nat /\ v \in Visited
      BY <1>1, <1>2
    <2>2. CASE ~Links(w)
      BY <1>10, <2>1, <2>2 DEF Links, OnStack
    <2>3. CASE Links(w)
      <3>1. w \in OnStack /\ indices[w] \in Nat
        BY <1>1, <2>3 DEF Links, OnStack
      <3>2. Last(frames).vertex = v
        BY <1>3
      <3>3. lowlinks' = [lowlinks EXCEPT ![v] = IF indices[w] < lowlinks[v] THEN indices[w] ELSE lowlinks[v]]
        BY <2>3, <3>2 DEF Lowered
      <3> HIDE DEF v
      <3>4. lowlinks'[v] = IF indices[w] < lowlinks[v] THEN indices[w] ELSE lowlinks[v]
        BY <1>10, <2>1, <3>3
      <3>5. DOMAIN lowlinks' = Visited /\ \A y \in Visited \ {v} : lowlinks'[y] = lowlinks[y]
        BY <1>10, <3>3
      <3> QED
        BY <2>1, <3>1, <3>4, <3>5
    <2> QED
      BY <2>2, <2>3
  <1>12. \A i \in 1..n : i # n => Vertex(i) \in Visited \ {v} /\ lowlinks'[Vertex(i)] = lowlinks[Vertex(i)]
    <2>1. ASSUME NEW i \in 1..n, i # n PROVE Vertex(i) \in Visited \ {v}
      <3>1. i < n
        <4> HIDE DEF n
        <4>1. n \in Nat
          BY <1>2
        <4> QED
          BY <2>1, <4>1
      <3>2. indices[Vertex(i)] < indices[v] /\ indices[v] \in Nat
        BY <1>1, <1>2, <3>1
      <3>3. indices[Vertex(i)] \in Nat /\ Vertex(i) \in Visited
        BY <1>1
      <3>4. Vertex(i) # v
        BY <3>2, <3>3
      <3> QED
        BY <3>3, <3>4
    <2> QED
      BY <1>11, <2>1
  <1> HIDE DEF n, v, f
  <1>13. VisitsNumbered'
    BY <1>8, <1>9, <1>11 DEF TarjanIInv, VisitsNumbered
  <1>14. StackRises'
    BY <1>8 DEF TarjanIInv, StackRises
  <1>15. FramesRise'
    <2>1. \A i \in 1..n : frames'[i].vertex \in OnStack /\ frames'[i].left \subseteq Neighbours(frames'[i].vertex)
      BY <1>1, <1>7
    <2>2. \A i, j \in 1..n : i < j => indices[frames'[i].vertex] < indices[frames'[j].vertex]
      BY <1>1, <1>7
    <2>3. (\A i \in DOMAIN frames : Vertex(i) \in OnStack /\ frames[i].left \subseteq Neighbours(Vertex(i)))'
      BY <1>6, <1>8, <1>9, <2>1 DEF Vertex
    <2>4. (\A i, j \in DOMAIN frames : i < j => indices[Vertex(i)] < indices[Vertex(j)])'
      BY <1>6, <2>2 DEF Vertex
    <2>5. (frames \in Seq([vertex : Defined, left : SUBSET Defined]))'
      BY <1>6, <1>9 DEF Frame
    <2> QED
      BY <2>3, <2>4, <2>5 DEF FramesRise
  <1>16. CompletedClosed'
    BY <1>8, <1>9 DEF TarjanIInv, CompletedClosed
  <1>17. CallsReach'
    BY <1>1, <1>6, <1>7, <1>8, <1>9 DEF TarjanIInv, CallsReach, Vertex
  <1>18. StackReaches'
    BY <1>1, <1>6, <1>7, <1>8, <1>9 DEF TarjanIInv, StackReaches, Vertex
  <1>19. LinksReached'
    <2>1. ASSUME NEW i \in 1..n
          PROVE  \E y \in OnStack : /\ indices[y] = lowlinks'[frames'[i].vertex]
                                    /\ indices[y] <= indices[frames'[i].vertex]
                                    /\ Reaches(frames'[i].vertex, y)
      <3>1. PICK y \in OnStack : /\ indices[y] = lowlinks[Vertex(i)]
                                 /\ indices[y] <= indices[Vertex(i)]
                                 /\ Reaches(Vertex(i), y)
        BY <1>1 DEF TarjanIInv, LinksReached
      <3>2. CASE lowlinks'[Vertex(i)] = lowlinks[Vertex(i)]
        BY <1>7, <3>1, <3>2
      <3>3. CASE lowlinks'[Vertex(i)] # lowlinks[Vertex(i)]
        <4>1. i = n
          BY <1>12, <3>3
        <4>2. w \in OnStack /\ lowlinks'[v] = indices[w] /\ lowlinks'[v] <= lowlinks[v]
          BY <1>11, <3>3, <4>1 DEF v
        <4>3. indices[w] \in Nat /\ lowlinks[v] \in Nat /\ indices[v] \in Nat /\ lowlinks[v] <= indices[v]
          BY <1>1, <1>2, <4>2 DEF v
        <4>4. Reaches(v, w)
          BY <1>4, ReachesEdge
        <4>5. frames'[i].vertex = v
          BY <1>7, <4>1 DEF v
        <4>6. indices[w] <= indices[v]
          BY <4>2, <4>3
        <4> QED
          BY <4>2, <4>4, <4>5, <4>6
      <3> QED
        BY <3>2, <3>3
    <2> QED
      BY <1>6, <1>8, <1>9, <2>1 DEF LinksReached, Vertex
  <1>20. LinksBound'
    <2>1. ASSUME NEW i \in 1..n, NEW y \in OnStack, indices[Vertex(i)] <= indices[y],
                 i < n => indices[y] < indices[Vertex(i + 1)],
                 NEW u \in IF y = Vertex(i) THEN Neighbours(y) \ frames'[i].left ELSE Neighbours(y)
          PROVE  u \in Visited /\ (u \in OnStack => lowlinks'[Vertex(i)] <= indices[u])
      <3>1. y \in Owned(i)
        BY <2>1 DEF Owned, n
      <3>2. CASE u \in Looked(i, y)
        BY <1>1, <1>11, <1>12, <3>1, <3>2 DEF TarjanIInv, LinksBound, v
      <3>3. CASE u \notin Looked(i, y)
        BY <1>7, <1>11, <2>1, <3>3 DEF Looked, v
      <3> QED
        BY <3>2, <3>3
    <2>2. \A i \in 1..n : i < n => i + 1 \in 1..n
      BY <1>1
    <2>3. ASSUME NEW i \in 1..n, NEW y \in OnStack, indices[frames'[i].vertex] <= indices[y],
                 i < n => indices[y] < indices[frames'[i + 1].vertex],
                 NEW u \in IF y = frames'[i].vertex THEN Neighbours(y) \ frames'[i].left ELSE Neighbours(y)
          PROVE  u \in Visited /\ (u \in OnStack => lowlinks'[frames'[i].vertex] <= indices[u])
      BY <1>7, <2>1, <2>2, <2>3
    <2>4. ASSUME NEW i \in DOMAIN frames', NEW y \in Owned(i)', NEW u \in Looked(i, y)'
          PROVE  (u \in Visited /\ (u \in OnStack => lowlinks[Vertex(i)] <= indices[u]))'
      BY <1>6, <1>8, <1>9, <2>3 DEF Owned, Vertex, Looked
    <2> QED
      BY <2>4 DEF LinksBound
  <1>21. MaximumSoFar'
    BY <1>8, <1>9 DEF TarjanIInv, MaximumSoFar
  <1> QED
    BY <1>13, <1>14, <1>15, <1>16, <1>17, <1>18, <1>19, <1>20, <1>21 DEF TarjanIInv

(* A stack in the order of the numbers, cut at one of its places. *)
LEMMA StackCut ==
  ASSUME stack \in Seq(Visited),
         \A i \in 1..Len(stack) : indices[stack[i]] \in Nat,
         \A i, j \in 1..Len(stack) : i < j => indices[stack[i]] < indices[stack[j]],
         NEW at \in 1..Len(stack)
  PROVE  LET below == SubSeq(stack, 1, at - 1) IN
           /\ below \in Seq(Visited) /\ Len(below) = at - 1
           /\ \A i \in 1..(at - 1) : below[i] = stack[i]
           /\ ToSet(below) = {y \in ToSet(stack) : indices[y] < indices[stack[at]]}
           /\ Cardinality({y \in ToSet(stack) : indices[stack[at]] <= indices[y]}) = Len(stack) - at + 1
  <1> DEFINE below == SubSeq(stack, 1, at - 1)
             above == {y \in ToSet(stack) : indices[stack[at]] <= indices[y]}
  <1>1. Len(stack) \in Nat /\ at \in Nat /\ at <= Len(stack) /\ 1 <= at
    OBVIOUS
  <1>2. below \in Seq(Visited) /\ Len(below) = at - 1 /\ \A i \in 1..(at - 1) : below[i] = stack[i]
    BY <1>1, SubSeqProperties
  <1>3. \A i \in 1..Len(stack) : (i < at <=> indices[stack[i]] < indices[stack[at]]) /\ (at <= i <=> indices[stack[at]] <= indices[stack[i]])
    <2>1. ASSUME NEW i \in 1..Len(stack) PROVE i < at \/ i = at \/ at < i
      BY <1>1
    <2>2. ASSUME NEW i \in 1..Len(stack), i < at PROVE indices[stack[i]] < indices[stack[at]] /\ ~(indices[stack[at]] <= indices[stack[i]]) /\ ~(at <= i)
      BY <1>1, <2>2
    <2>3. ASSUME NEW i \in 1..Len(stack), at < i PROVE indices[stack[at]] <= indices[stack[i]] /\ ~(indices[stack[i]] < indices[stack[at]]) /\ at <= i /\ ~(i < at)
      BY <1>1, <2>3
    <2>4. indices[stack[at]] <= indices[stack[at]] /\ ~(indices[stack[at]] < indices[stack[at]]) /\ at <= at /\ ~(at < at)
      BY <1>1
    <2> QED
      BY <2>1, <2>2, <2>3, <2>4
  <1> HIDE DEF below
  <1>4. ToSet(stack) = {stack[i] : i \in 1..Len(stack)} /\ ToSet(below) = {below[i] : i \in 1..(at - 1)}
    <2>1. DOMAIN stack = 1..Len(stack) /\ DOMAIN below = 1..(at - 1)
      BY <1>2
    <2> QED
      BY <2>1 DEF ToSet
  <1>5. ToSet(below) = {y \in ToSet(stack) : indices[y] < indices[stack[at]]}
    <2>1. ASSUME NEW y \in ToSet(below) PROVE y \in ToSet(stack) /\ indices[y] < indices[stack[at]]
      <3>1. PICK i \in 1..(at - 1) : y = below[i]
        BY <1>4
      <3>2. i \in 1..Len(stack) /\ i < at /\ y = stack[i]
        BY <1>1, <1>2, <3>1
      <3> QED
        BY <1>3, <1>4, <3>2
    <2>2. ASSUME NEW y \in ToSet(stack), indices[y] < indices[stack[at]] PROVE y \in ToSet(below)
      <3>1. PICK i \in 1..Len(stack) : y = stack[i]
        BY <1>4
      <3>2. i < at
        BY <1>3, <2>2, <3>1
      <3>3. i \in 1..(at - 1)
        BY <1>1, <3>2
      <3> QED
        BY <1>2, <1>4, <3>1, <3>3
    <2> QED
      BY <2>1, <2>2
  <1>6. Cardinality(above) = Len(stack) - at + 1
    <2> DEFINE I == at..Len(stack)
               f == [i \in I |-> stack[i]]
    <2>1. IsFiniteSet(I) /\ Cardinality(I) = Len(stack) - at + 1
      BY <1>1, FS_Interval
    <2>2. I \subseteq 1..Len(stack) /\ \A i \in I : at <= i
      BY <1>1
    <2>3. \A i \in I : stack[i] \in above
      BY <1>3, <1>4, <2>2
    <2>4. \A i, j \in I : stack[i] = stack[j] => i = j
      <3>1. ASSUME NEW i \in I, NEW j \in I, stack[i] = stack[j], i # j PROVE FALSE
        BY <2>2, <3>1
      <3> QED
        BY <3>1
    <2>5. \A y \in above : \E i \in I : stack[i] = y
      <3>1. ASSUME NEW y \in above PROVE \E i \in I : stack[i] = y
        <4>1. PICK i \in 1..Len(stack) : y = stack[i]
          BY <1>4
        <4>2. at <= i
          BY <1>3, <4>1
        <4> QED
          BY <1>1, <4>1, <4>2
      <3> QED
        BY <3>1
    <2> HIDE DEF I, above
    <2>6. f \in Bijection(I, above)
      <3>1. f \in [I -> above]
        BY <2>3
      <3>2. \A i \in I : f[i] = stack[i]
        OBVIOUS
      <3> HIDE DEF f
      <3> QED
        BY <2>4, <2>5, <3>1, <3>2 DEF Bijection, Injection, Surjection, IsInjective
    <2>7. ExistsBijection(I, above)
      BY <2>6 DEF ExistsBijection
    <2> QED
      BY <2>1, <2>7, FS_Bijection
  <1> QED
    BY <1>2, <1>5, <1>6 DEF below

(* What the end of a call does. *)
Covered(i) == {y \in OnStack : indices[Vertex(i)] <= indices[y]}
LEMMA LeaveIs ==
  ASSUME TarjanIInv, Leave
  PROVE  LET n == Len(frames)
             v == Vertex(n)
             isRoot == lowlinks[v] = indices[v]
         IN  /\ n \in Nat \ {0} /\ n \in 1..n
             /\ frames[n].left = {}
             /\ frames' = Front(frames)
             /\ isRoot => /\ stack' \in Seq(OnStack')
                          /\ \A i, j \in DOMAIN stack' : i < j => indices[stack'[i]] < indices[stack'[j]]
                          /\ OnStack' = OnStack \ Covered(n)
                          /\ maximum' = Max({maximum, Cardinality(Covered(n))})
             /\ ~isRoot => UNCHANGED <<stack, maximum>>
             /\ lowlinks' = IF n = 1 THEN lowlinks ELSE Lowered(Vertex(n - 1), lowlinks[v])
             /\ UNCHANGED <<nodeLines, adjacency, indices>>
  <1> DEFINE n == Len(frames)
             v == Vertex(n)
             isRoot == lowlinks[v] = indices[v]
             at == CHOOSE i \in DOMAIN stack : stack[i] = v
  <1>1. frames # <<>>
    BY DEF Leave
  <1>2. n \in Nat \ {0} /\ n \in 1..n /\ Last(frames) = frames[n]
    BY <1>1, TopIs
  <1>3. /\ OnStack \subseteq Visited /\ v \in OnStack
        /\ \A y \in OnStack : indices[y] \in Nat
    BY <1>2, CallsAre
  <1>4. Last(frames).vertex = v
    BY <1>2 DEF Vertex
  <1> HIDE DEF n
  <1>5. /\ frames[n].left = {}
        /\ maximum' = IF isRoot THEN Max({maximum, Len(stack) - at + 1}) ELSE maximum
        /\ stack' = IF isRoot THEN SubSeq(stack, 1, at - 1) ELSE stack
        /\ lowlinks' = IF n = 1 THEN lowlinks ELSE Lowered(Vertex(n - 1), lowlinks[v])
        /\ frames' = Front(frames)
        /\ UNCHANGED <<nodeLines, adjacency, indices>>
    BY <1>2, <1>4 DEF Leave, Vertex, n
  <1>6. stack \in Seq(Visited) /\ DOMAIN stack = 1..Len(stack)
    <2>1. stack \in Seq(Visited)
      BY DEF TarjanIInv, StackRises
    <2> HIDE DEF Visited
    <2> QED
      BY <2>1
  <1>7. at \in 1..Len(stack) /\ stack[at] = v
    BY <1>3, <1>6 DEF OnStack, ToSet
  <1> HIDE DEF at, v
  <1>8. /\ \A i \in 1..Len(stack) : indices[stack[i]] \in Nat
        /\ \A i, j \in 1..Len(stack) : i < j => indices[stack[i]] < indices[stack[j]]
    BY <1>3, <1>6 DEF OnStack, ToSet, TarjanIInv, StackRises
  <1> DEFINE below == SubSeq(stack, 1, at - 1)
  <1>9. /\ below \in Seq(Visited) /\ Len(below) = at - 1
        /\ \A i \in 1..(at - 1) : below[i] = stack[i]
        /\ ToSet(below) = {y \in OnStack : indices[y] < indices[v]}
        /\ Cardinality({y \in OnStack : indices[v] <= indices[y]}) = Len(stack) - at + 1
    <2>1. /\ below \in Seq(Visited) /\ Len(below) = at - 1
          /\ \A i \in 1..(at - 1) : below[i] = stack[i]
          /\ ToSet(below) = {y \in ToSet(stack) : indices[y] < indices[stack[at]]}
          /\ Cardinality({y \in ToSet(stack) : indices[stack[at]] <= indices[y]}) = Len(stack) - at + 1
      <3> HIDE DEF at
      <3>1. stack \in Seq(Visited) /\ at \in 1..Len(stack)
        BY <1>6, <1>7
      <3> QED
        BY Zenon, <1>8, <3>1, StackCut DEF below
    <2> QED
      BY <1>7, <2>1 DEF OnStack
  <1> HIDE DEF below
  <1>10. Covered(n) = {y \in OnStack : indices[v] <= indices[y]}
    BY Zenon DEF Covered, v
  <1>11. ToSet(below) = OnStack \ Covered(n)
    BY <1>3, <1>9, <1>10
  <1>12. ASSUME isRoot
         PROVE  /\ stack' \in Seq(OnStack')
                /\ \A i, j \in DOMAIN stack' : i < j => indices[stack'[i]] < indices[stack'[j]]
                /\ OnStack' = OnStack \ Covered(n)
                /\ maximum' = Max({maximum, Cardinality(Covered(n))})
    <2>1. stack' = below
      BY <1>5, <1>12 DEF below
    <2>2. OnStack' = OnStack \ Covered(n)
      BY <1>11, <2>1 DEF OnStack
    <2>3. DOMAIN below = 1..(at - 1) /\ \A i \in 1..(at - 1) : i \in 1..Len(stack)
      BY <1>6, <1>7, <1>9
    <2>4. \A i, j \in DOMAIN stack' : i < j => indices[stack'[i]] < indices[stack'[j]]
      BY <1>8, <1>9, <2>1, <2>3
    <2>5. stack' \in Seq(OnStack')
      BY <1>9, <1>11, <2>1, <2>2, <2>3 DEF ToSet
    <2>6. maximum' = Max({maximum, Cardinality(Covered(n))})
      BY <1>5, <1>9, <1>10, <1>12
    <2> QED
      BY <2>2, <2>4, <2>5, <2>6
  <1> QED
    BY <1>2, <1>5, <1>12 DEF n, v

(* A call whose link is its own number completes the component of its node. *)
LEMMA CompletesComponent ==
  ASSUME TarjanIInv, EdgesJoin, NEW n, n = Len(frames), n \in 1..n, frames[n].left = {},
         lowlinks[Vertex(n)] = indices[Vertex(n)]
  PROVE  /\ \A x \in Completed \cup Covered(n) : Neighbours(x) \subseteq Completed \cup Covered(n)
         /\ \A y \in Covered(n) : Component(y) = Covered(n)
         /\ Vertex(n) \in Covered(n)
  <1> DEFINE v == Vertex(n)
             done == Completed \cup Covered(n)
  <1>1. /\ n \in Nat /\ n \in 1..n /\ DOMAIN frames = 1..n
        /\ OnStack \subseteq Visited /\ Visited \subseteq Defined
        /\ \A y \in OnStack : indices[y] \in Nat
        /\ \A i \in 1..n : /\ Vertex(i) \in OnStack
                           /\ indices[Vertex(i)] \in Nat
        /\ \A i, j \in 1..n : i < j => indices[Vertex(i)] < indices[Vertex(j)]
    BY CallsAre
  <1>2. v \in OnStack /\ indices[v] \in Nat
    BY <1>1
  <1>3. \A y : y \in Covered(n) <=> y \in OnStack /\ indices[v] <= indices[y]
    BY DEF Covered
  <1>4. v \in Covered(n)
    BY <1>2, <1>3
  <1>5. ASSUME NEW x \in Covered(n) PROVE Neighbours(x) \subseteq done
    <2>1. x \in OnStack /\ indices[v] <= indices[x]
      BY <1>3
    <2>2. x \in Owned(n)
      BY <2>1 DEF Owned
    <2>3. Looked(n, x) = Neighbours(x)
      BY DEF Looked
    <2>4. ASSUME NEW u \in Neighbours(x) PROVE u \in done
      BY <1>1, <1>3, <2>2, <2>3 DEF TarjanIInv, LinksBound, Completed
    <2> QED
      BY <2>4
  <1>6. \A x \in done : Neighbours(x) \subseteq done
    BY <1>5 DEF TarjanIInv, CompletedClosed
  <1>7. done \in Closed /\ Completed \in Closed
    <2>1. done \in SUBSET Defined /\ Completed \in SUBSET Defined
      BY <1>1, <1>3 DEF Completed
    <2>2. \A e \in adjacency : e[2] \in Neighbours(e[1])
      BY DEF Neighbours
    <2>3. \A x \in Completed : Neighbours(x) \subseteq Completed
      BY DEF TarjanIInv, CompletedClosed
    <2> HIDE DEF done
    <2> QED
      BY <1>6, <2>1, <2>2, <2>3 DEF Closed
  <1>8. ASSUME NEW y \in Covered(n) PROVE Reaches(v, y) /\ Reaches(y, v)
    <2>1. y \in OnStack /\ indices[v] <= indices[y]
      BY <1>3
    <2>2. Reaches(v, y)
      BY <1>1, <2>1 DEF TarjanIInv, CallsReach
    <2>3. PICK i \in 1..n : Reaches(y, Vertex(i))
      BY <1>1, <2>1 DEF TarjanIInv, StackReaches
    <2>4. indices[Vertex(i)] <= indices[v]
      <3>1. i = n \/ i < n
        BY <1>1
      <3>2. CASE i < n
        BY <1>1, <3>2
      <3>3. CASE i = n
        BY <1>2, <3>3
      <3> QED
        BY <3>1, <3>2, <3>3
    <2>5. Reaches(Vertex(i), v)
      BY <1>1, <1>2, <2>4 DEF TarjanIInv, CallsReach
    <2>6. Reaches(y, v)
      BY <2>3, <2>5, ReachesOn
    <2> QED
      BY <2>2, <2>6
  <1>9. ASSUME NEW y \in Covered(n) PROVE Component(y) = Covered(n)
    <2>1. ASSUME NEW m \in Component(y) PROVE m \in Covered(n)
      BY <1>3, <1>7, <2>1 DEF Component, Reaches, Completed
    <2>2. ASSUME NEW m \in Covered(n) PROVE m \in Component(y)
      BY <1>1, <1>3, <1>8, ReachesOn DEF Component
    <2> QED
      BY <2>1, <2>2
  <1> QED
    BY <1>4, <1>6, <1>9

LEMMA MaxOfTwo ==
  ASSUME NEW a \in Nat, NEW b \in Nat
  PROVE  Max({a, b}) = IF a < b THEN b ELSE a
  <1>1. \E m \in {a, b} : \A k \in {a, b} : m >= k
    BY SMT
  <1>2. Max({a, b}) \in {a, b} /\ \A k \in {a, b} : Max({a, b}) >= k
    BY <1>1 DEF Max
  <1> QED
    BY <1>2

(* The calls that are left when the innermost one ends. *)
LEMMA CallsLeft ==
  ASSUME TarjanIInv, Leave, NEW n, n = Len(frames)
  PROVE  /\ n \in Nat \ {0} /\ n \in 1..n
         /\ frames' \in Seq(Frame) /\ Len(frames') = n - 1 /\ DOMAIN frames' = 1..(n - 1)
         /\ \A i \in 1..(n - 1) : i \in 1..n /\ i # n
         /\ \A i \in 1..(n - 1) : frames'[i].vertex = Vertex(i) /\ frames'[i].left = frames[i].left
         /\ \A i \in 1..(n - 1) : /\ indices[Vertex(i)] < indices[Vertex(n)]
                                  /\ Vertex(i) # Vertex(n)
         /\ Visited' = Visited
  <1>1. frames # <<>>
    BY DEF Leave
  <1>2. /\ n \in Nat \ {0} /\ n \in 1..n
        /\ Front(frames) \in Seq(Frame) /\ Len(Front(frames)) = n - 1
        /\ DOMAIN Front(frames) = 1..(n - 1)
        /\ \A i \in 1..(n - 1) : Front(frames)[i] = frames[i]
    BY <1>1, TopIs
  <1>3. frames' = Front(frames) /\ UNCHANGED indices
    BY DEF Leave
  <1>4. \A i \in 1..(n - 1) : i \in 1..n /\ i < n
    BY <1>2
  <1>5. \A i \in 1..(n - 1) : frames'[i].vertex = Vertex(i) /\ frames'[i].left = frames[i].left
    BY <1>2, <1>3 DEF Vertex
  <1>6. ASSUME NEW i \in 1..(n - 1) PROVE indices[Vertex(i)] < indices[Vertex(n)] /\ Vertex(i) # Vertex(n)
    <2>1. indices[Vertex(i)] < indices[Vertex(n)] /\ indices[Vertex(n)] \in Nat
      BY <1>2, <1>4, CallsAre
    <2> QED
      BY <2>1
  <1> QED
    BY <1>2, <1>3, <1>4, <1>5, <1>6 DEF Visited

LEMMA LeaveFrames == ASSUME TarjanIInv, Leave, OnStack' \in {OnStack, OnStack \ Covered(Len(frames))}
                     PROVE  FramesRise'
  <1> DEFINE n == Len(frames)
  <1>1. /\ n \in Nat \ {0}
        /\ frames' \in Seq(Frame) /\ Len(frames') = n - 1 /\ DOMAIN frames' = 1..(n - 1)
        /\ \A i \in 1..(n - 1) : i \in 1..n /\ i # n
        /\ \A i \in 1..(n - 1) : frames'[i].vertex = Vertex(i) /\ frames'[i].left = frames[i].left
        /\ \A i \in 1..(n - 1) : indices[Vertex(i)] < indices[Vertex(n)]
    BY CallsLeft
  <1>2. /\ \A i \in 1..n : Vertex(i) \in OnStack /\ indices[Vertex(i)] \in Nat
                           /\ frames[i].left \subseteq Neighbours(Vertex(i))
        /\ \A i, j \in 1..n : i < j => indices[Vertex(i)] < indices[Vertex(j)]
        /\ n \in 1..n
    <2>1. n \in 1..n
      BY <1>1
    <2> QED
      BY <2>1, CallsAre
  <1>3. UNCHANGED <<nodeLines, adjacency, indices>>
    BY DEF Leave
  <1>4. Defined' = Defined /\ \A v : Neighbours(v)' = Neighbours(v)
    BY <1>3, ReachesStay
  <1>5. \A i \in 1..(n - 1) : Vertex(i) \in OnStack'
    <2>1. ASSUME NEW i \in 1..(n - 1) PROVE Vertex(i) \notin Covered(n)
      <3>1. indices[Vertex(i)] < indices[Vertex(n)] /\ indices[Vertex(i)] \in Nat /\ indices[Vertex(n)] \in Nat
        BY <1>1, <1>2
      <3> QED
        BY <3>1 DEF Covered
    <2> QED
      BY <1>1, <1>2, <2>1
  <1> HIDE DEF n
  <1>6. (\A i \in DOMAIN frames : Vertex(i) \in OnStack /\ frames[i].left \subseteq Neighbours(Vertex(i)))'
    BY <1>1, <1>2, <1>4, <1>5 DEF Vertex
  <1>7. (\A i, j \in DOMAIN frames : i < j => indices[Vertex(i)] < indices[Vertex(j)])'
    BY <1>1, <1>2, <1>3 DEF Vertex
  <1>8. (frames \in Seq([vertex : Defined, left : SUBSET Defined]))'
    BY <1>1, <1>4 DEF Frame
  <1> QED
    BY <1>6, <1>7, <1>8 DEF FramesRise

LEMMA LeaveRootKeeps ==
  ASSUME TarjanIInv, IsFiniteSet(Defined), EdgesJoin, Leave,
         lowlinks[Vertex(Len(frames))] = indices[Vertex(Len(frames))]
  PROVE  TarjanIInv'
  <1> DEFINE n == Len(frames)
             v == Vertex(n)
             C == Covered(n)
  <1>1. /\ n \in Nat \ {0} /\ n \in 1..n
        /\ frames' \in Seq(Frame) /\ Len(frames') = n - 1 /\ DOMAIN frames' = 1..(n - 1)
        /\ \A i \in 1..(n - 1) : i \in 1..n /\ i # n
        /\ \A i \in 1..(n - 1) : frames'[i].vertex = Vertex(i) /\ frames'[i].left = frames[i].left
        /\ \A i \in 1..(n - 1) : indices[Vertex(i)] < indices[v] /\ Vertex(i) # v
        /\ Visited' = Visited
    BY CallsLeft
  <1>2. /\ frames[n].left = {}
        /\ stack' \in Seq(OnStack')
        /\ \A i, j \in DOMAIN stack' : i < j => indices[stack'[i]] < indices[stack'[j]]
        /\ OnStack' = OnStack \ C
        /\ maximum' = Max({maximum, Cardinality(C)})
        /\ lowlinks' = IF n = 1 THEN lowlinks ELSE Lowered(Vertex(n - 1), lowlinks[v])
        /\ UNCHANGED <<nodeLines, adjacency, indices>>
    BY LeaveIs
  <1>3. /\ DOMAIN frames = 1..n
        /\ OnStack \subseteq Visited /\ Visited \subseteq Defined
        /\ \A y \in OnStack : indices[y] \in Nat
        /\ \A i \in 1..n : /\ Vertex(i) \in OnStack
                           /\ indices[Vertex(i)] \in Nat
                           /\ lowlinks[Vertex(i)] \in Nat /\ lowlinks[Vertex(i)] <= indices[Vertex(i)]
        /\ \A i, j \in 1..n : i < j => indices[Vertex(i)] < indices[Vertex(j)]
    BY CallsAre
  <1>4. /\ \A x \in Completed \cup C : Neighbours(x) \subseteq Completed \cup C
        /\ \A y \in C : Component(y) = C
        /\ v \in C
    BY <1>1, <1>2, CompletesComponent
  <1>5. \A y : y \in C <=> y \in OnStack /\ indices[v] <= indices[y]
    BY DEF Covered
  <1>6. Completed' = Completed \cup C
    BY <1>1, <1>2, <1>3, <1>5 DEF Completed
  <1>7. /\ Defined' = Defined
        /\ \A a, b : Reaches(a, b)' <=> Reaches(a, b)
        /\ \A a : Component(a)' = Component(a)
        /\ \A a : Neighbours(a)' = Neighbours(a)
    BY <1>2, ReachesStay
  <1>8. /\ DOMAIN lowlinks' = Visited
        /\ \A i \in 1..(n - 1) : lowlinks'[Vertex(i)] = lowlinks[Vertex(i)]
    <2>1. DOMAIN lowlinks = Visited
      BY DEF TarjanIInv, VisitsNumbered
    <2>2. CASE n = 1
      BY <1>2, <2>1, <2>2
    <2>3. CASE n # 1
      <3>1. n - 1 \in 1..(n - 1)
        BY <1>1, <2>3
      <3> DEFINE p == Vertex(n - 1)
      <3>2. /\ lowlinks[p] \in Nat /\ lowlinks[p] <= indices[p] /\ indices[p] \in Nat
            /\ indices[p] < indices[v] /\ indices[v] \in Nat /\ lowlinks[v] = indices[v]
        BY <1>1, <1>3, <3>1
      <3>3. lowlinks' = [lowlinks EXCEPT ![p] = IF lowlinks[v] < lowlinks[p] THEN lowlinks[v] ELSE lowlinks[p]]
        BY <1>2, <2>3 DEF Lowered
      <3> HIDE DEF p, v
      <3>4. ~(lowlinks[v] < lowlinks[p])
        BY <3>2
      <3>5. DOMAIN lowlinks' = Visited /\ \A y \in Visited : lowlinks'[y] = lowlinks[y]
        BY <2>1, <3>3, <3>4
      <3>6. \A i \in 1..(n - 1) : Vertex(i) \in Visited
        BY <1>1, <1>3
      <3> QED
        BY <3>5, <3>6
    <2> QED
      BY <2>2, <2>3
  <1> HIDE DEF n, v, C
  <1>9. \A i \in 1..(n - 1) : indices[Vertex(i)] \in Nat /\ indices[v] \in Nat
    BY <1>1, <1>3 DEF v
  <1>10. VisitsNumbered'
    BY <1>1, <1>2, <1>7, <1>8 DEF TarjanIInv, VisitsNumbered
  <1>11. StackRises'
    <2>1. stack' \in Seq(Visited')
      BY <1>1, <1>2, <1>3, SeqMonotonic
    <2> QED
      BY <1>2, <2>1 DEF StackRises
  <1>12. FramesRise'
    BY <1>2, LeaveFrames DEF n, C
  <1>13. CompletedClosed'
    BY <1>4, <1>6, <1>7 DEF CompletedClosed
  <1>14. CallsReach'
    BY <1>1, <1>2, <1>3, <1>7 DEF TarjanIInv, CallsReach, Vertex
  <1>15. StackReaches'
    <2>1. ASSUME NEW y \in OnStack'
          PROVE  \E i \in 1..(n - 1) : indices[frames'[i].vertex] <= indices[y] /\ Reaches(y, frames'[i].vertex)
      <3>1. y \in OnStack /\ ~(indices[v] <= indices[y])
        BY <1>2, <1>5, <2>1
      <3>2. PICK i \in 1..n : indices[Vertex(i)] <= indices[y] /\ Reaches(y, Vertex(i))
        BY <1>3, <3>1 DEF TarjanIInv, StackReaches
      <3>3. i # n
        BY <3>1, <3>2 DEF v
      <3>4. i \in 1..(n - 1)
        BY <1>1, <3>3
      <3> QED
        BY <1>1, <3>2, <3>4
    <2> QED
      BY <1>1, <1>2, <1>7, <2>1 DEF StackReaches, Vertex
  <1>16. LinksReached'
    <2>1. ASSUME NEW i \in 1..(n - 1)
          PROVE  \E y \in OnStack' : /\ indices[y] = lowlinks'[frames'[i].vertex]
                                     /\ indices[y] <= indices[frames'[i].vertex]
                                     /\ Reaches(frames'[i].vertex, y)
      <3>1. PICK y \in OnStack : /\ indices[y] = lowlinks[Vertex(i)]
                                 /\ indices[y] <= indices[Vertex(i)]
                                 /\ Reaches(Vertex(i), y)
        BY <1>1, <1>3 DEF TarjanIInv, LinksReached
      <3>2. indices[Vertex(i)] < indices[v] /\ indices[y] \in Nat
        BY <1>1, <1>3
      <3>3. y \notin C
        BY <1>5, <1>9, <3>1, <3>2
      <3> QED
        BY <1>1, <1>2, <1>8, <3>1, <3>3
    <2> QED
      BY <1>1, <1>2, <1>7, <2>1 DEF LinksReached, Vertex
  <1>17. LinksBound'
    <2>1. ASSUME NEW i \in 1..(n - 1), NEW y \in OnStack \ C, indices[Vertex(i)] <= indices[y],
                 i < n - 1 => indices[y] < indices[Vertex(i + 1)],
                 NEW u \in IF y = Vertex(i) THEN Neighbours(y) \ frames[i].left ELSE Neighbours(y)
          PROVE  u \in Visited /\ (u \in OnStack \ C => lowlinks[Vertex(i)] <= indices[u])
      <3>1. i \in 1..n /\ i < n /\ (i + 1 = n \/ i < n - 1)
        BY <1>1
      <3>2. indices[y] < indices[Vertex(i + 1)]
        <4>1. CASE i < n - 1
          BY <2>1, <4>1
        <4>2. CASE i + 1 = n
          BY <1>3, <1>5, <1>9, <4>2 DEF v
        <4> QED
          BY <3>1, <4>1, <4>2
      <3>3. y \in Owned(i) /\ u \in Looked(i, y)
        BY <2>1, <3>2 DEF Owned, Looked
      <3> QED
        BY <1>3, <3>1, <3>3 DEF TarjanIInv, LinksBound
    <2>2. \A i \in 1..(n - 1) : i < n - 1 => i + 1 \in 1..(n - 1)
      BY <1>1
    <2>3. ASSUME NEW i \in 1..(n - 1), NEW y \in OnStack', indices[frames'[i].vertex] <= indices[y],
                 i < n - 1 => indices[y] < indices[frames'[i + 1].vertex],
                 NEW u \in IF y = frames'[i].vertex THEN Neighbours(y) \ frames'[i].left ELSE Neighbours(y)
          PROVE  u \in Visited /\ (u \in OnStack' => lowlinks'[frames'[i].vertex] <= indices[u])
      BY <1>1, <1>2, <1>8, <2>1, <2>2, <2>3
    <2>4. ASSUME NEW i \in DOMAIN frames', NEW y \in Owned(i)', NEW u \in Looked(i, y)'
          PROVE  (u \in Visited /\ (u \in OnStack => lowlinks[Vertex(i)] <= indices[u]))'
      BY <1>1, <1>2, <1>7, <2>3 DEF Owned, Vertex, Looked
    <2> QED
      BY <2>4 DEF LinksBound
  <1>18. MaximumSoFar'
    <2>1. maximum \in Nat
      BY DEF TarjanIInv, MaximumSoFar
    <2>2. IsFiniteSet(C) /\ Cardinality(C) \in Nat
      BY <1>3, <1>5, FS_Subset, FS_CardinalityType
    <2>3. maximum' = IF maximum < Cardinality(C) THEN Cardinality(C) ELSE maximum
      BY <1>2, <2>1, <2>2, MaxOfTwo
    <2>4. ASSUME NEW y \in Completed \cup C PROVE Cardinality(Component(y)) <= maximum'
      <3>1. CASE y \in C
        BY <1>4, <2>1, <2>2, <2>3, <3>1
      <3>2. CASE y \in Completed
        BY <2>1, <2>2, <2>3, <3>2, FS_Subset, FS_CardinalityType DEF Component, TarjanIInv,
           MaximumSoFar
      <3> QED
        BY <3>1, <3>2
    <2>5. maximum' = 0 \/ \E y \in Completed \cup C : maximum' = Cardinality(Component(y))
      <3>1. CASE maximum < Cardinality(C)
        BY <1>4, <2>3, <3>1
      <3>2. CASE ~(maximum < Cardinality(C))
        BY <2>3, <3>2 DEF TarjanIInv, MaximumSoFar
      <3> QED
        BY <3>1, <3>2
    <2>6. maximum' \in Nat
      BY <2>1, <2>2, <2>3
    <2> QED
      BY <1>6, <1>7, <2>4, <2>5, <2>6 DEF MaximumSoFar
  <1> QED
    BY <1>10, <1>11, <1>12, <1>13, <1>14, <1>15, <1>16, <1>17, <1>18 DEF TarjanIInv

LEMMA LeaveOtherKeeps ==
  ASSUME TarjanIInv, IsFiniteSet(Defined), EdgesJoin, Leave,
         lowlinks[Vertex(Len(frames))] # indices[Vertex(Len(frames))]
  PROVE  TarjanIInv'
  <1> DEFINE n == Len(frames)
             v == Vertex(n)
             p == Vertex(n - 1)
  <1>1. /\ n \in Nat \ {0} /\ n \in 1..n
        /\ frames' \in Seq(Frame) /\ Len(frames') = n - 1 /\ DOMAIN frames' = 1..(n - 1)
        /\ \A i \in 1..(n - 1) : i \in 1..n /\ i # n
        /\ \A i \in 1..(n - 1) : frames'[i].vertex = Vertex(i) /\ frames'[i].left = frames[i].left
        /\ \A i \in 1..(n - 1) : indices[Vertex(i)] < indices[v] /\ Vertex(i) # v
        /\ Visited' = Visited
    BY CallsLeft
  <1>2. /\ frames[n].left = {}
        /\ UNCHANGED <<stack, maximum>>
        /\ lowlinks' = IF n = 1 THEN lowlinks ELSE Lowered(p, lowlinks[v])
        /\ UNCHANGED <<nodeLines, adjacency, indices>>
    BY LeaveIs
  <1>3. /\ DOMAIN frames = 1..n
        /\ OnStack \subseteq Visited /\ Visited \subseteq Defined
        /\ \A y \in OnStack : indices[y] \in Nat
        /\ \A i \in 1..n : /\ Vertex(i) \in OnStack
                           /\ indices[Vertex(i)] \in Nat
                           /\ lowlinks[Vertex(i)] \in Nat /\ lowlinks[Vertex(i)] <= indices[Vertex(i)]
        /\ \A i, j \in 1..n : i < j => indices[Vertex(i)] < indices[Vertex(j)]
    BY CallsAre
  <1>4. OnStack' = OnStack /\ Completed' = Completed
    BY <1>1, <1>2 DEF OnStack, Completed
  <1>5. /\ Defined' = Defined
        /\ \A a, b : Reaches(a, b)' <=> Reaches(a, b)
        /\ \A a : Component(a)' = Component(a)
        /\ \A a : Neighbours(a)' = Neighbours(a)
    BY <1>2, ReachesStay
  <1>6. /\ v \in OnStack /\ indices[v] \in Nat /\ lowlinks[v] \in Nat /\ lowlinks[v] < indices[v]
    BY SMTT(30), <1>1, <1>3
  <1>7. PICK z \in OnStack : indices[z] = lowlinks[v] /\ Reaches(v, z)
    BY <1>1, <1>3 DEF TarjanIInv, LinksReached
  <1>8. PICK k \in 1..n : indices[Vertex(k)] <= indices[z] /\ Reaches(z, Vertex(k))
    BY <1>3 DEF TarjanIInv, StackReaches
  <1>9. k # n /\ k \in 1..(n - 1) /\ n # 1
    <2>1. k # n
      BY <1>6, <1>7, <1>8
    <2> QED
      BY <1>1, <2>1
  <1>10. n - 1 \in 1..(n - 1)
    BY <1>1, <1>9
  <1>11. /\ p \in OnStack /\ indices[p] \in Nat /\ lowlinks[p] \in Nat /\ lowlinks[p] <= indices[p]
         /\ indices[p] < indices[v] /\ p # v
    BY <1>1, <1>3, <1>10
  <1>12. /\ DOMAIN lowlinks' = Visited
         /\ \A y \in Visited \ {p} : lowlinks'[y] = lowlinks[y]
         /\ lowlinks'[p] = IF lowlinks[v] < lowlinks[p] THEN lowlinks[v] ELSE lowlinks[p]
    <2>1. DOMAIN lowlinks = Visited
      BY DEF TarjanIInv, VisitsNumbered
    <2>2. lowlinks' = [lowlinks EXCEPT ![p] = IF lowlinks[v] < lowlinks[p] THEN lowlinks[v] ELSE lowlinks[p]]
      BY <1>2, <1>9 DEF Lowered
    <2>3. p \in Visited
      BY <1>3, <1>11
    <2> HIDE DEF p, v
    <2> QED
      BY <2>1, <2>2, <2>3
  <1>13. \A i \in 1..(n - 1) : i # n - 1 => Vertex(i) \in Visited \ {p} /\ i < n - 1
    <2>1. ASSUME NEW i \in 1..(n - 1), i # n - 1 PROVE Vertex(i) \in Visited \ {p} /\ i < n - 1
      <3>1. i < n - 1
        BY <1>1, <2>1
      <3>2. indices[Vertex(i)] < indices[p] /\ Vertex(i) \in OnStack
        BY <1>1, <1>3, <1>10, <3>1
      <3>3. Vertex(i) # p
        BY <1>11, <3>2
      <3> QED
        BY <1>3, <3>1, <3>2, <3>3
    <2> QED
      BY <2>1
  <1>14. Reaches(p, v)
    <2>1. indices[p] <= indices[v]
      BY <1>6, <1>11
    <2> QED
      BY <1>1, <1>3, <1>6, <1>10, <2>1 DEF TarjanIInv, CallsReach
  <1> HIDE DEF n, v, p
  <1>15. VisitsNumbered'
    BY <1>1, <1>2, <1>5, <1>12 DEF TarjanIInv, VisitsNumbered
  <1>16. StackRises'
    BY <1>1, <1>2 DEF TarjanIInv, StackRises
  <1>17. FramesRise'
    BY <1>4, LeaveFrames
  <1>18. CompletedClosed'
    BY <1>4, <1>5 DEF TarjanIInv, CompletedClosed
  <1>19. CallsReach'
    BY <1>1, <1>2, <1>3, <1>4, <1>5 DEF TarjanIInv, CallsReach, Vertex
  <1>20. StackReaches'
    <2>1. ASSUME NEW y \in OnStack
          PROVE  \E i \in 1..(n - 1) : indices[frames'[i].vertex] <= indices[y] /\ Reaches(y, frames'[i].vertex)
      <3>1. PICK i \in 1..n : indices[Vertex(i)] <= indices[y] /\ Reaches(y, Vertex(i))
        BY <1>3 DEF TarjanIInv, StackReaches
      <3>2. CASE i # n
        BY <1>1, <3>1, <3>2
      <3>3. CASE i = n
        <4>1. indices[v] <= indices[y] /\ Reaches(y, v)
          BY <3>1, <3>3 DEF v
        <4>2. Reaches(y, Vertex(k))
          BY <1>7, <1>8, <4>1, ReachesOn
        <4>3. indices[Vertex(k)] <= indices[y]
          BY <1>1, <1>3, <1>6, <1>9, <4>1
        <4> QED
          BY <1>1, <1>9, <4>2, <4>3
      <3> QED
        BY <3>2, <3>3
    <2> QED
      BY <1>1, <1>2, <1>4, <1>5, <2>1 DEF StackReaches, Vertex
  <1>21. LinksReached'
    <2>1. ASSUME NEW i \in 1..(n - 1)
          PROVE  \E y \in OnStack : /\ indices[y] = lowlinks'[frames'[i].vertex]
                                    /\ indices[y] <= indices[frames'[i].vertex]
                                    /\ Reaches(frames'[i].vertex, y)
      <3>1. PICK y \in OnStack : /\ indices[y] = lowlinks[Vertex(i)]
                                 /\ indices[y] <= indices[Vertex(i)]
                                 /\ Reaches(Vertex(i), y)
        BY <1>1, <1>3 DEF TarjanIInv, LinksReached
      <3>2. CASE lowlinks'[Vertex(i)] = lowlinks[Vertex(i)]
        BY <1>1, <3>1, <3>2
      <3>3. CASE lowlinks'[Vertex(i)] # lowlinks[Vertex(i)]
        <4>1. i = n - 1
          BY <1>12, <1>13, <3>3
        <4>2. Vertex(i) = p
          BY <4>1 DEF p
        <4>3. lowlinks'[p] = lowlinks[v] /\ lowlinks[v] < lowlinks[p]
          BY <1>12, <3>3, <4>2
        <4>4. indices[z] = lowlinks'[p] /\ indices[z] <= indices[p]
          BY <1>6, <1>7, <1>11, <4>3
        <4>5. Reaches(p, z)
          BY <1>7, <1>14, ReachesOn
        <4>6. frames'[i].vertex = p
          BY <1>1, <4>2
        <4> QED
          BY <4>4, <4>5, <4>6
      <3> QED
        BY <3>2, <3>3
    <2> QED
      BY <1>1, <1>2, <1>4, <1>5, <2>1 DEF LinksReached, Vertex
  <1>22. LinksBound'
    <2>1. ASSUME NEW i \in 1..(n - 1), NEW y \in OnStack, indices[Vertex(i)] <= indices[y],
                 i < n - 1 => indices[y] < indices[Vertex(i + 1)],
                 NEW u \in IF y = Vertex(i) THEN Neighbours(y) \ frames[i].left ELSE Neighbours(y)
          PROVE  u \in Visited /\ (u \in OnStack => lowlinks'[Vertex(i)] <= indices[u])
      <3>1. i \in 1..n /\ i < n /\ (i = n - 1 \/ i < n - 1)
        BY <1>1
      <3>2. lowlinks'[Vertex(i)] \in Nat /\ lowlinks'[Vertex(i)] <= lowlinks[Vertex(i)] /\ lowlinks[Vertex(i)] \in Nat
        <4>1. CASE i = n - 1
          BY <1>6, <1>11, <1>12, <4>1 DEF p
        <4>2. CASE i # n - 1
          BY <1>3, <1>12, <1>13, <3>1, <4>2
        <4> QED
          BY <4>1, <4>2
      <3>3. CASE y \in Owned(i)
        <4>1. u \in Looked(i, y)
          BY <2>1 DEF Looked
        <4>2. u \in Visited /\ (u \in OnStack => lowlinks[Vertex(i)] <= indices[u])
          BY <1>3, <3>1, <3>3, <4>1 DEF TarjanIInv, LinksBound
        <4> QED
          BY <1>3, <3>2, <4>2
      <3>4. CASE y \notin Owned(i)
        <4>1. ~(indices[y] < indices[Vertex(i + 1)])
          BY <2>1, <3>4 DEF Owned
        <4>2. i = n - 1
          BY <2>1, <3>1, <4>1
        <4>3. Vertex(i) = p /\ Vertex(i + 1) = v
          BY <1>1, <4>2 DEF p, v
        <4>4. indices[v] <= indices[y] /\ indices[y] \in Nat
          BY <1>3, <1>6, <4>1, <4>3
        <4>5. y \in Owned(n)
          BY <4>4 DEF Owned, n, v
        <4>6. y # p
          BY <1>6, <1>11, <4>4
        <4>7. u \in Looked(n, y)
          BY <1>2, <2>1, <4>3, <4>6 DEF Looked
        <4>8. u \in Visited /\ (u \in OnStack => lowlinks[v] <= indices[u])
          BY <1>1, <1>3, <4>5, <4>7 DEF TarjanIInv, LinksBound, v
        <4>9. lowlinks'[p] <= lowlinks[v]
          BY <1>6, <1>11, <1>12
        <4> QED
          BY <1>3, <1>6, <3>2, <4>3, <4>8, <4>9
      <3> QED
        BY <3>3, <3>4
    <2>2. \A i \in 1..(n - 1) : i < n - 1 => i + 1 \in 1..(n - 1)
      BY <1>1
    <2>3. ASSUME NEW i \in 1..(n - 1), NEW y \in OnStack, indices[frames'[i].vertex] <= indices[y],
                 i < n - 1 => indices[y] < indices[frames'[i + 1].vertex],
                 NEW u \in IF y = frames'[i].vertex THEN Neighbours(y) \ frames'[i].left ELSE Neighbours(y)
          PROVE  u \in Visited /\ (u \in OnStack => lowlinks'[frames'[i].vertex] <= indices[u])
      BY <1>1, <2>1, <2>2, <2>3
    <2>4. ASSUME NEW i \in DOMAIN frames', NEW y \in Owned(i)', NEW u \in Looked(i, y)'
          PROVE  (u \in Visited /\ (u \in OnStack => lowlinks[Vertex(i)] <= indices[u]))'
      BY <1>1, <1>2, <1>4, <1>5, <2>3 DEF Owned, Vertex, Looked
    <2> QED
      BY <2>4 DEF LinksBound
  <1>23. MaximumSoFar'
    BY <1>2, <1>4, <1>5 DEF TarjanIInv, MaximumSoFar
  <1> QED
    BY <1>15, <1>16, <1>17, <1>18, <1>19, <1>20, <1>21, <1>22, <1>23 DEF TarjanIInv

--------------------------------------------------------------------------------
(* The visits begin with nothing and end with all nodes. *)

LEMMA TarjanBegins ==
  ASSUME indices = <<>>, lowlinks = <<>>, stack = <<>>, frames = <<>>, maximum = 0
  PROVE  TarjanIInv
  <1>1. DOMAIN indices = {} /\ DOMAIN lowlinks = {} /\ DOMAIN stack = {} /\ DOMAIN frames = {}
    BY SMT
  <1>2. Visited = {} /\ OnStack = {} /\ Completed = {}
    BY <1>1 DEF Visited, OnStack, Completed, ToSet
  <1>3. VisitsNumbered
    BY <1>1, <1>2 DEF VisitsNumbered, Visited
  <1>4. StackRises /\ FramesRise
    BY <1>1 DEF StackRises, FramesRise
  <1>5. CompletedClosed /\ MaximumSoFar
    BY <1>2 DEF CompletedClosed, MaximumSoFar
  <1>6. CallsReach /\ StackReaches /\ LinksReached /\ LinksBound
    BY <1>1, <1>2 DEF CallsReach, StackReaches, LinksReached, LinksBound
  <1> QED
    BY <1>3, <1>4, <1>5, <1>6 DEF TarjanIInv

LEMMA VisitRootKeeps ==
  ASSUME TarjanIInv, IsFiniteSet(Defined), EdgesJoin, VisitRoot,
         orderedNodeIDs \in Seq(Node), ToSet(orderedNodeIDs) = Defined
  PROVE  TarjanIInv'
  <1> DEFINE w == orderedNodeIDs[Min(Unvisited)]
  <1>1. DOMAIN orderedNodeIDs \subseteq Nat
    BY SMT
  <1>2. Min(Unvisited) \in Unvisited
    BY <1>1, MinIsLeast DEF Unvisited, VisitRoot
  <1>3. w \in Defined /\ w \notin Visited
    BY <1>2 DEF Unvisited, Visited, ToSet
  <1>4. frames = <<>> /\ Enter(w, frames) /\ UNCHANGED <<nodeLines, adjacency, maximum>>
    BY DEF VisitRoot
  <1>5. WithoutNext(frames, w)
    BY <1>4 DEF TarjanIInv, FramesRise, WithoutNext
  <1> HIDE DEF w
  <1> QED
    BY <1>3, <1>4, <1>5, EnterKeeps

LEMMA LookAtNeighbourKeeps ==
  ASSUME TarjanIInv, IsFiniteSet(Defined), EdgesJoin, LookAtNeighbour
  PROVE  TarjanIInv'
  <1> DEFINE top == Last(frames)
             n == Len(frames)
  <1>1. frames # <<>> /\ UNCHANGED <<nodeLines, adjacency, maximum>>
    BY DEF LookAtNeighbour
  <1>2. PICK w \in top.left :
          LET looked == Append(Front(frames), [top EXCEPT !.left = @ \ {w}]) IN
            IF w \notin Visited
              THEN Enter(w, looked)
              ELSE /\ frames' = looked
                   /\ lowlinks' = IF Links(w) THEN Lowered(top.vertex, indices[w]) ELSE lowlinks
                   /\ UNCHANGED <<indices, stack>>
    BY DEF LookAtNeighbour, Visited
  <1> DEFINE f == [top EXCEPT !.left = @ \ {w}]
             looked == Append(Front(frames), f)
  <1>3. CASE w \in Visited
    BY <1>1, <1>2, <1>3, LookKeeps
  <1>4. CASE w \notin Visited
    <2>1. /\ n \in Nat \ {0} /\ n \in 1..n /\ top = frames[n]
          /\ Front(frames) \in Seq(Frame) /\ Len(Front(frames)) = n - 1
          /\ \A i \in 1..(n - 1) : Front(frames)[i] = frames[i]
      BY <1>1, TopIs
    <2>2. /\ DOMAIN frames = 1..n /\ \A i \in 1..n : frames[i].left \subseteq Neighbours(Vertex(i))
      BY CallsAre
    <2>3. top \in Frame
      <3>1. frames \in Seq(Frame)
        BY DEF TarjanIInv, FramesRise, Frame
      <3> HIDE DEF n, top, looked, f
      <3> QED
        BY <2>1, <2>2, <3>1
    <2>4. f = [vertex |-> top.vertex, left |-> top.left \ {w}]
      BY <2>3, FrameWithout DEF Frame
    <2>5. f \in Frame /\ f.vertex = Vertex(n) /\ f.left = frames[n].left \ {w}
      BY <2>1, <2>3, <2>4 DEF Frame, Vertex
    <2>6. w \in Neighbours(Vertex(n)) /\ w \in Defined
      BY <2>1, <2>2, NeighboursJoin
    <2>7. /\ looked \in Seq(Frame) /\ Len(looked) = n
          /\ \A i \in 1..n : looked[i] = IF i = n THEN f ELSE frames[i]
      <3> HIDE DEF f, n, top
      <3>1. looked \in Seq(Frame) /\ Len(looked) = (n - 1) + 1
        BY <2>1, <2>5
      <3>2. \A i \in 1..(n - 1) : looked[i] = frames[i]
        BY <2>1, <2>5
      <3>3. looked[(n - 1) + 1] = f
        BY <2>1, <2>5
      <3>4. (n - 1) + 1 = n /\ \A i \in 1..n : i = n \/ i \in 1..(n - 1)
        BY <2>1
      <3> HIDE DEF looked
      <3> QED
        BY <2>1, <3>1, <3>2, <3>3, <3>4
    <2>8. WithoutNext(looked, w)
      <3> HIDE DEF f, looked
      <3>1. \A i \in 1..n : /\ looked[i].vertex = Vertex(i)
                            /\ looked[i].left = IF i = n THEN frames[i].left \ {w} ELSE frames[i].left
        BY <2>5, <2>7 DEF Vertex
      <3> QED
        BY <2>6, <2>7, <3>1 DEF WithoutNext, Frame
    <2>9. Enter(w, looked)
      BY <1>2, <1>4
    <2> HIDE DEF looked
    <2> QED
      BY <1>1, <1>4, <2>6, <2>8, <2>9, EnterKeeps
  <1> QED
    BY <1>3, <1>4

LEMMA LeaveKeeps ==
  ASSUME TarjanIInv, IsFiniteSet(Defined), EdgesJoin, Leave
  PROVE  TarjanIInv'
  BY LeaveRootKeeps, LeaveOtherKeeps

(* When all calls have ended the stack is empty. *)
LEMMA TarjanEnds ==
  ASSUME TarjanIInv, IsFiniteSet(Defined), frames = <<>>, Unvisited = {}, ToSet(orderedNodeIDs) = Defined
  PROVE  /\ maximum \in Nat
         /\ \A n \in Defined : Cardinality(Component(n)) <= maximum
         /\ maximum = 0 \/ \E n \in Defined : maximum = Cardinality(Component(n))
  <1>1. DOMAIN frames = {}
    BY SMT
  <1>2. OnStack = {}
    BY <1>1 DEF TarjanIInv, StackReaches
  <1>3. Defined \subseteq Visited /\ Visited \subseteq Defined
    BY CallsAre DEF Unvisited, Visited, ToSet
  <1>4. Completed = Defined
    BY <1>2, <1>3 DEF Completed
  <1> QED
    BY <1>4 DEF TarjanIInv, MaximumSoFar

--------------------------------------------------------------------------------
(* The graph of maxSCCNodes has the components of the graph that a search expands,
   though its edges differ: it leaves out those from nodes that are not searched,
   and has those that lead to them. *)

Traversable == {n \in Defined : isTraversableNodeKind(nodeByID[n].type)}

(* A network and a child of it, or the ends of a relation. *)
Joined(a, b) ==
  \/ nodeByID[b].parent = a /\ IsNetwork(a)
  \/ \E i \in DOMAIN relationLines : relationLines[i].from = a /\ relationLines[i].to = b

RelationEdges(R) ==
  {<<relationLines[i].from, relationLines[i].to>> :
     i \in {k \in R : isTraversableNodeKind(nodeByID[relationLines[k].from].type)}}

EdgesGathered ==
  pc \in HierarchyKnown => adjacency = ScopeAdjacency \cup RelationEdges(ReadRelations)

(* The child of a network is a network or a job. *)
LEMMA ChildOfNetwork ==
  ASSUME IInv, pc \in ReferencesKnown, NEW c \in DOMAIN nodeByID, nodeByID[c].parent # None,
         IsNetwork(nodeByID[c].parent)
  PROVE  nodeByID[c].type \in {"job", "job_network"} /\ nodeByID[c].parent \in DOMAIN nodeByID
  <1>1. nodeByID[c].parent \in DOMAIN nodeByID
    BY ParentsDefined
  <1>2. ParentProblem(nodeByID[c]) = None
    BY DEF IInv, ReferencesChecked
  <1>3. allowedParent(nodeByID[c].type, nodeByID[nodeByID[c].parent].type)
    BY <1>1, <1>2, NoneAssumption DEF ParentProblem, Kinds
  <1> QED
    BY <1>1, <1>3 DEF allowedParent, IsNetwork

LEMMA EdgesAre ==
  ASSUME IInv, pc \in RelationsKnown, EdgesGathered
  PROVE  /\ \A e \in adjacency : e = <<e[1], e[2]>>
         /\ \A a, b : <<a, b>> \in adjacency <=> a \in Traversable /\ b \in Defined /\ Joined(a, b)
  <1>1. /\ pc \in Gathering /\ pc \in ReferencesKnown /\ pc \in HierarchyKnown
        /\ DOMAIN nodeByID = Defined /\ ReadRelations = DOMAIN relationLines
        /\ Defined \subseteq Node /\ None \notin Defined
    <2>1. pc # "relations"
      BY DEF RelationsKnown
    <2> QED
      BY <2>1, AllLinesRead, NodesTyped
  <1>2. adjacency = ScopeAdjacency \cup RelationEdges(DOMAIN relationLines)
    BY <1>1 DEF EdgesGathered
  <1>3. ASSUME NEW e \in ScopeAdjacency
        PROVE  e = <<e[1], e[2]>> /\ e[1] \in Traversable /\ e[2] \in Defined /\ Joined(e[1], e[2])
    <2>1. PICK c \in DOMAIN nodeByID : /\ nodeByID[c].parent # None /\ IsNetwork(nodeByID[c].parent)
                                       /\ e = <<nodeByID[c].parent, c>>
      BY DEF ScopeAdjacency
    <2>2. nodeByID[c].parent \in Defined
      BY <1>1, <2>1, ChildOfNetwork
    <2> QED
      BY <1>1, <2>1, <2>2 DEF Traversable, Joined, isTraversableNodeKind, IsNetwork
  <1>4. ASSUME NEW e \in RelationEdges(DOMAIN relationLines)
        PROVE  e = <<e[1], e[2]>> /\ e[1] \in Traversable /\ e[2] \in Defined /\ Joined(e[1], e[2])
    <2>1. PICK i \in DOMAIN relationLines :
             /\ isTraversableNodeKind(nodeByID[relationLines[i].from].type)
             /\ e = <<relationLines[i].from, relationLines[i].to>>
      BY DEF RelationEdges
    <2>2. relationLines[i].from \in Defined /\ relationLines[i].to \in Defined
      BY <1>1 DEF IInv, RelationsGathered
    <2> QED
      BY <2>1, <2>2 DEF Traversable, Joined
  <1>5. ASSUME NEW a \in Traversable, NEW b \in Defined, Joined(a, b) PROVE <<a, b>> \in adjacency
    <2>1. CASE nodeByID[b].parent = a /\ IsNetwork(a)
      BY <1>1, <1>2, <2>1 DEF Traversable, ScopeAdjacency
    <2>2. CASE \E i \in DOMAIN relationLines : relationLines[i].from = a /\ relationLines[i].to = b
      BY <1>2, <2>2 DEF RelationEdges, Traversable
    <2> QED
      BY <1>5, <2>1, <2>2 DEF Joined
  <1>6. \A e \in adjacency : e = <<e[1], e[2]>> /\ e[1] \in Traversable /\ e[2] \in Defined /\ Joined(e[1], e[2])
    BY <1>2, <1>3, <1>4
  <1>7. ASSUME NEW a, NEW b, <<a, b>> \in adjacency
        PROVE  a \in Traversable /\ b \in Defined /\ Joined(a, b)
    BY <1>6, <1>7
  <1> QED
    BY <1>5, <1>6, <1>7

LEMMA ExpandedAre ==
  ASSUME IInv, pc \in RelationsKnown
  PROVE  /\ \A e \in Expanded : e = <<e[1], e[2]>>
         /\ \A a, b : <<a, b>> \in Expanded <=> a \in Defined /\ b \in Traversable /\ Joined(a, b)
  <1> DEFINE type == [n \in Node |-> IF n \in Defined THEN Definition(n).type ELSE "management_unit"]
             up == [n \in Node |-> IF n \in Defined THEN Definition(n).parent ELSE None]
             joins == {<<relationLines[i].from, relationLines[i].to>> : i \in DOMAIN relationLines}
  <1>1. /\ pc \in Gathering /\ pc \in ReferencesKnown
        /\ DOMAIN nodeByID = Defined /\ ReadRelations = DOMAIN relationLines
        /\ Defined \subseteq Node /\ None \notin Defined
    <2>1. pc # "relations"
      BY DEF RelationsKnown
    <2> QED
      BY <2>1, AllLinesRead, NodesTyped
  <1>2. \A n \in Defined : type[n] = nodeByID[n].type /\ up[n] = nodeByID[n].parent
    BY <1>1, DefinitionKnown
  <1>3. \A n \in Node \ Defined : up[n] = None
    OBVIOUS
  <1>4. \A a, b : <<a, b>> \in joins <=> \E i \in DOMAIN relationLines : relationLines[i].from = a /\ relationLines[i].to = b
    OBVIOUS
  <1>5. \A a : Search!Scope(a) = {c \in Node : type[a] = "job_network" /\ up[c] = a /\ type[c] \in {"job", "job_network"}}
    BY DEF Search!Scope
  <1>6. \A a : Search!Dependents(a) = {m \in Node : <<a, m>> \in joins /\ Search!isTraversableType(type[m])}
    BY DEF Search!Dependents
  <1> HIDE DEF type, up, joins
  <1>7. \A t : Search!isTraversableType(t) <=> isTraversableNodeKind(t)
    BY DEF Search!isTraversableType, isTraversableNodeKind
  <1>8. ASSUME NEW a \in Defined, NEW b \in Search!Scope(a) \cup Search!Dependents(a)
        PROVE  b \in Traversable /\ Joined(a, b)
    <2>1. CASE b \in Search!Scope(a)
      BY <1>1, <1>2, <1>3, <1>5, <2>1 DEF Traversable, Joined, isTraversableNodeKind, IsNetwork
    <2>2. CASE b \in Search!Dependents(a)
      <3>1. b \in Node /\ <<a, b>> \in joins /\ isTraversableNodeKind(type[b])
        BY <1>6, <1>7, <2>2
      <3>2. PICK i \in DOMAIN relationLines : relationLines[i].from = a /\ relationLines[i].to = b
        BY <1>4, <3>1
      <3>3. b \in Defined
        BY <1>1, <3>2 DEF IInv, RelationsGathered
      <3> QED
        BY <1>2, <3>1, <3>2, <3>3 DEF Traversable, Joined
    <2> QED
      BY <2>1, <2>2
  <1>9. ASSUME NEW a \in Defined, NEW b \in Traversable, Joined(a, b)
        PROVE  b \in Search!Scope(a) \cup Search!Dependents(a)
    <2>1. b \in Defined /\ b \in Node /\ isTraversableNodeKind(type[b])
      BY <1>1, <1>2 DEF Traversable
    <2>2. CASE nodeByID[b].parent = a /\ IsNetwork(a)
      BY <1>1, <1>2, <1>5, <2>1, <2>2, ChildOfNetwork DEF IsNetwork
    <2>3. CASE \E i \in DOMAIN relationLines : relationLines[i].from = a /\ relationLines[i].to = b
      BY <1>4, <1>6, <1>7, <2>1, <2>3
    <2> QED
      BY <1>9, <2>2, <2>3 DEF Joined
  <1>10. \A e : e \in Expanded <=> \E a \in Defined : \E b \in Search!Scope(a) \cup Search!Dependents(a) : e = <<a, b>>
    BY DEF Expanded
  <1>11. ASSUME NEW e \in Expanded
         PROVE  e = <<e[1], e[2]>> /\ e[1] \in Defined /\ e[2] \in Traversable /\ Joined(e[1], e[2])
    <2>1. PICK a \in Defined : \E b \in Search!Scope(a) \cup Search!Dependents(a) : e = <<a, b>>
      BY <1>10
    <2>2. PICK b \in Search!Scope(a) \cup Search!Dependents(a) : e = <<a, b>>
      BY <2>1
    <2> QED
      BY <1>8, <2>2
  <1>12. ASSUME NEW a, NEW b, <<a, b>> \in Expanded
         PROVE  a \in Defined /\ b \in Traversable /\ Joined(a, b)
    BY <1>11, <1>12
  <1>13. ASSUME NEW a \in Defined, NEW b \in Traversable, Joined(a, b) PROVE <<a, b>> \in Expanded
    BY <1>9, <1>10, <1>13
  <1> QED
    BY <1>11, <1>12, <1>13

(* The pairs of a closure, by one edge and what it leads to. *)
LEMMA ClosureIs ==
  ASSUME NEW edges, NEW m \in Defined, NEW n \in Defined
  PROVE  <<m, n>> \in Closure(edges) <=>
           \E e \in edges : /\ e[1] = m
                            /\ \A S \in SUBSET Defined : (\A f \in edges : f[1] \in S => f[2] \in S) /\ e[2] \in S => n \in S
  <1> DEFINE closed == {S \in SUBSET Defined : \A f \in edges : f[1] \in S => f[2] \in S}
             leads(e, q) == \A S \in closed : e[2] \in S => q \in S
  <1>1. Closure(edges) = {p \in Defined \X Defined : \E e \in edges : e[1] = p[1] /\ leads(e, p[2])}
    BY Zenon DEF Closure
  <1>2. \A S : S \in closed <=> S \in SUBSET Defined /\ \A f \in edges : f[1] \in S => f[2] \in S
    OBVIOUS
  <1> HIDE DEF closed
  <1>3. <<m, n>> \in Closure(edges) <=> \E e \in edges : e[1] = m /\ leads(e, n)
    <2> HIDE DEF leads
    <2> QED
      BY <1>1
  <1>4. \A e : leads(e, n) <=>
               \A S \in SUBSET Defined : (\A f \in edges : f[1] \in S => f[2] \in S) /\ e[2] \in S => n \in S
    BY <1>2
  <1> QED
    BY <1>3, <1>4

(* Where one edge leads from m, n is in every set that m is in and no edge leaves. *)
LEMMA ClosureReaches ==
  ASSUME NEW edges, NEW m \in Defined, NEW n \in Defined, m # n,
         \A e \in edges : e[1] \in Defined /\ e[2] \in Defined
  PROVE  <<m, n>> \in Closure(edges) <=>
           \A S \in SUBSET Defined : (\A f \in edges : f[1] \in S => f[2] \in S) /\ m \in S => n \in S
  <1> DEFINE Shut(S) == \A f \in edges : f[1] \in S => f[2] \in S
  <1>1. <<m, n>> \in Closure(edges) <=>
          \E e \in edges : e[1] = m /\ \A S \in SUBSET Defined : Shut(S) /\ e[2] \in S => n \in S
    BY ClosureIs
  <1>2. ASSUME NEW e \in edges, e[1] = m, \A S \in SUBSET Defined : Shut(S) /\ e[2] \in S => n \in S,
               NEW S \in SUBSET Defined, Shut(S), m \in S
        PROVE  n \in S
    BY <1>2
  <1>3. ASSUME \A S \in SUBSET Defined : Shut(S) /\ m \in S => n \in S
        PROVE  \E e \in edges : e[1] = m /\ \A S \in SUBSET Defined : Shut(S) /\ e[2] \in S => n \in S
    <2> DEFINE Led(q) == \E e \in edges : e[1] = m /\ \A S \in SUBSET Defined : Shut(S) /\ e[2] \in S => q \in S
               T == {m} \cup {q \in Defined : Led(q)}
    <2>1. T \in SUBSET Defined /\ m \in T
      OBVIOUS
    <2>2. ASSUME NEW f \in edges, f[1] \in T PROVE f[2] \in T
      <3>1. f[1] \in Defined /\ f[2] \in Defined
        OBVIOUS
      <3>2. CASE f[1] = m
        <4>1. Led(f[2])
          BY <3>2
        <4> QED
          BY <3>1, <4>1
      <3>3. CASE f[1] # m
        <4>1. PICK e \in edges : e[1] = m /\ \A S \in SUBSET Defined : Shut(S) /\ e[2] \in S => f[1] \in S
          BY <2>2, <3>3
        <4>2. \A S \in SUBSET Defined : Shut(S) /\ e[2] \in S => f[2] \in S
          BY <4>1
        <4>3. Led(f[2])
          BY <4>1, <4>2
        <4> HIDE DEF Led
        <4> QED
          BY <3>1, <4>3
      <3> QED
        BY <3>2, <3>3
    <2>3. Shut(T)
      BY <2>2
    <2>4. n \in T
      <3> HIDE DEF T
      <3> QED
        BY <1>3, <2>1, <2>3
    <2> QED
      BY <2>4
  <1> HIDE DEF Shut
  <1> QED
    BY <1>1, <1>2, <1>3 DEF Shut

(* Mutually reachable in one graph is mutually reachable in the other. *)
LEMMA SameComponents ==
  ASSUME IInv, pc \in RelationsKnown, EdgesGathered
  PROVE  \A n \in Defined :
           Component(n) = {n} \cup {m \in Defined : {<<n, m>>, <<m, n>>} \subseteq Closure(Expanded)}
  <1> DEFINE T == Traversable
             A(S) == \A e \in adjacency : e[1] \in S => e[2] \in S
             E(S) == \A e \in Expanded : e[1] \in S => e[2] \in S
             Leads(a, b) == \A S \in SUBSET Defined : E(S) /\ a \in S => b \in S
  <1>1. /\ \A e \in adjacency : e[1] \in T /\ e[2] \in Defined
        /\ \A e \in Expanded : e[1] \in Defined /\ e[2] \in T
        /\ \A e \in adjacency : e[2] \in T => e \in Expanded
        /\ \A e \in Expanded : e[1] \in T => e \in adjacency
        /\ T \subseteq Defined
    <2>1. T \subseteq Defined
      BY DEF Traversable
    <2>2. /\ \A e \in adjacency : e = <<e[1], e[2]>>
          /\ \A a, b : <<a, b>> \in adjacency <=> a \in T /\ b \in Defined /\ Joined(a, b)
      BY EdgesAre
    <2>3. /\ \A e \in Expanded : e = <<e[1], e[2]>>
          /\ \A a, b : <<a, b>> \in Expanded <=> a \in Defined /\ b \in T /\ Joined(a, b)
      BY ExpandedAre
    <2> HIDE DEF T
    <2>4. ASSUME NEW e \in adjacency PROVE e[1] \in T /\ e[2] \in Defined /\ Joined(e[1], e[2])
      BY <2>2
    <2>5. ASSUME NEW e \in Expanded PROVE e[1] \in Defined /\ e[2] \in T /\ Joined(e[1], e[2])
      BY <2>3
    <2>6. ASSUME NEW e \in adjacency, e[2] \in T PROVE e \in Expanded
      BY <2>1, <2>2, <2>3, <2>4, <2>6
    <2>7. ASSUME NEW e \in Expanded, e[1] \in T PROVE e \in adjacency
      BY <2>1, <2>2, <2>3, <2>5, <2>7
    <2> QED
      BY <2>1, <2>4, <2>5, <2>6, <2>7
  <1> HIDE DEF T
  <1>2. \A a, b : Reaches(a, b) <=> \A S \in SUBSET Defined : A(S) /\ a \in S => b \in S
    BY DEF Reaches, Closed
  (* Through nodes that are searched both have the same paths. *)
  <1>3. ASSUME NEW a \in T, NEW b \in T, Reaches(a, b) PROVE Leads(a, b)
    <2> SUFFICES ASSUME NEW S \in SUBSET Defined, E(S), a \in S PROVE b \in S
      OBVIOUS
    <2> DEFINE U == S \cup (Defined \ T)
    <2>1. U \in SUBSET Defined /\ a \in U /\ A(U)
      BY <1>1
    <2>2. b \in U
      <3> HIDE DEF U, A
      <3> QED
        BY <1>2, <1>3, <2>1
    <2> QED
      BY <2>2
  <1>4. ASSUME NEW a \in T, NEW b \in T, Leads(a, b) PROVE Reaches(a, b)
    <2> SUFFICES ASSUME NEW S \in SUBSET Defined, A(S), a \in S PROVE b \in S
      BY <1>2
    <2> DEFINE U == S \cap T
    <2>1. U \in SUBSET Defined /\ a \in U /\ E(U)
      BY <1>1
    <2>2. b \in U
      <3> HIDE DEF U, E
      <3> QED
        BY <1>4, <2>1
    <2> QED
      BY <2>2
  (* And the others reach nothing, or are reached by nothing. *)
  <1>5. ASSUME NEW a \in Defined, NEW b \in Defined, Reaches(a, b), a # b PROVE a \in T
    <2> SUFFICES ASSUME a \notin T PROVE FALSE
      OBVIOUS
    <2>1. {a} \in SUBSET Defined /\ A({a})
      BY <1>1
    <2> HIDE DEF A
    <2> QED
      BY <1>2, <1>5, <2>1
  <1>6. ASSUME NEW a \in Defined, NEW b \in Defined, Leads(a, b), a # b PROVE b \in T
    <2> SUFFICES ASSUME b \notin T PROVE FALSE
      OBVIOUS
    <2> DEFINE U == Defined \ {b}
    <2>1. U \in SUBSET Defined /\ E(U) /\ a \in U
      BY <1>1, <1>6
    <2>2. b \in U
      <3> HIDE DEF U, E
      <3> QED
        BY <1>6, <2>1
    <2> QED
      BY <2>2
  <1>7. ASSUME NEW a \in Defined, NEW b \in Defined, a # b
        PROVE  <<a, b>> \in Closure(Expanded) <=> Leads(a, b)
    BY <1>1, <1>7, ClosureReaches
  <1> HIDE DEF Leads
  <1>8. ASSUME NEW n \in Defined, NEW m \in Defined, m # n
        PROVE  m \in Component(n) <=> <<n, m>> \in Closure(Expanded) /\ <<m, n>> \in Closure(Expanded)
    BY <1>3, <1>4, <1>5, <1>6, <1>7, <1>8 DEF Component
  <1>9. \A n \in Defined : n \in Component(n) /\ Component(n) \subseteq Defined
    BY ReachesSelf DEF Component
  <1> QED
    BY <1>8, <1>9

LEMMA MaxIs ==
  ASSUME NEW S \in SUBSET Nat, NEW m \in S, \A k \in S : k <= m
  PROVE  Max(S) = m
  <1>1. \A x \in S : (\A k \in S : x >= k) => x = m
    BY SMT
  <1>2. \A k \in S : m >= k
    BY SMT
  <1> QED
    BY <1>1, <1>2 DEF Max

LEMMA DefinedFinite ==
  ASSUME Typed
  PROVE  IsFiniteSet(Defined) /\ Lines = 1..Len(nodeLines) /\ Len(nodeLines) \in Nat
  <1>1. Lines = 1..Len(nodeLines) /\ Len(nodeLines) \in Nat
    BY DEF Typed, Lines
  <1>2. IsFiniteSet(Lines)
    BY <1>1, FS_Interval
  <1> DEFINE f == [i \in Lines |-> nodeLines[i].id]
  <1>3. f \in Surjection(Lines, Defined)
    <2>1. \A i \in Lines : f[i] = nodeLines[i].id
      OBVIOUS
    <2>2. \A d : d \in Defined <=> \E i \in Lines : d = nodeLines[i].id
      BY DEF Defined
    <2>3. f \in [Lines -> Defined]
      BY <2>2
    <2> HIDE DEF f
    <2> QED
      BY <2>1, <2>2, <2>3 DEF Surjection
  <1> QED
    BY <1>1, <1>2, <1>3, FS_Surjection

LargestOf(size) ==
  /\ size \in Nat
  /\ \A n \in Defined : Cardinality(Component(n)) <= size
  /\ size = 0 \/ \E n \in Defined : size = Cardinality(Component(n))

LEMMA LargestIs ==
  ASSUME IInv, pc \in RelationsKnown, EdgesGathered, LargestOf(maximum)
  PROVE  maximum = LargestComponent
  <1> DEFINE component(n) == {n} \cup {m \in Defined : {<<n, m>>, <<m, n>>} \subseteq Closure(Expanded)}
             sizes == {0} \cup {Cardinality(component(n)) : n \in Defined}
  <1>1. LargestComponent = Max(sizes)
    BY Zenon DEF LargestComponent
  <1>2. \A n \in Defined : component(n) = Component(n)
    BY SameComponents
  <1>3. \A n \in Defined : Cardinality(Component(n)) \in Nat
    BY DefinedFinite, FS_Subset, FS_CardinalityType DEF Component, IInv
  <1>4. \A s : s \in sizes <=> s = 0 \/ \E n \in Defined : s = Cardinality(Component(n))
    BY <1>2
  <1> HIDE DEF sizes
  <1>5. sizes \in SUBSET Nat /\ maximum \in sizes /\ \A s \in sizes : s <= maximum
    BY <1>3, <1>4 DEF LargestOf
  <1> QED
    BY <1>1, <1>5, MaxIs

--------------------------------------------------------------------------------
(* The depths: a node has one more than its parent if it is a network. *)

IsNetworkCount(id) == IF IsNetwork(id) THEN 1 ELSE 0

DepthsSettled ==
  pc \in ReferencesKnown =>
    /\ \A i, j \in DOMAIN path : path[i] = path[j] => i = j
    /\ \A i \in DOMAIN path : path[i] \notin settled
    /\ \A id \in settled :
         /\ depthByID[id] \in Nat
         /\ depthByID[id] = IsNetworkCount(id)
              + IF nodeByID[id].parent = None THEN 0 ELSE depthByID[nodeByID[id].parent]

LEMMA SettleChainDepths ==
  ASSUME IInv, DepthsSettled, SettleChain
  PROVE  DepthsSettled'
  <1> DEFINE n == Len(path)
             nets(i) == {j \in i..n : IsNetwork(path[j])}
             depth(i) == DepthAbove + Cardinality(nets(i))
             place(id) == CHOOSE i \in DOMAIN path : path[i] = id
  <1>1. /\ pc = "hierarchy" /\ pc \in ReferencesKnown /\ pc \in Gathering
        /\ current \in settled \cup {None} /\ UNCHANGED <<pc, nodeByID>>
        /\ path' = <<>>
        /\ depthByID' = [id \in settled \cup ToSet(path) |->
                           IF id \in settled THEN depthByID[id] ELSE depth(place(id))]
    BY HierarchyPc DEF SettleChain
  <1>2. /\ settled \subseteq DOMAIN nodeByID /\ None \notin DOMAIN nodeByID
        /\ \A id \in settled : nodeByID[id].parent \in settled \cup {None}
        /\ path \in Seq(DOMAIN nodeByID) /\ DOMAIN path = 1..n /\ n \in Nat
        /\ \A i \in 1..n : nodeByID[path[i]].parent = IF i = n THEN current ELSE path[i + 1]
    BY <1>1, NodesTyped DEF IInv, ChainsSettled
  <1>3. /\ \A i, j \in 1..n : path[i] = path[j] => i = j
        /\ \A i \in 1..n : path[i] \notin settled
        /\ \A id \in settled :
             /\ depthByID[id] \in Nat
             /\ depthByID[id] = IsNetworkCount(id)
                  + IF nodeByID[id].parent = None THEN 0 ELSE depthByID[nodeByID[id].parent]
    BY <1>1, <1>2 DEF DepthsSettled
  <1>4. DepthAbove \in Nat /\ DepthAbove = IF current = None THEN 0 ELSE depthByID[current]
    BY <1>1, <1>3 DEF DepthAbove
  <1>5. /\ settled' = settled \cup ToSet(path)
        /\ \A id \in settled : depthByID'[id] = depthByID[id]
        /\ \A id \in ToSet(path) : depthByID'[id] = depth(place(id))
    <2>1. \A id \in ToSet(path) : id \notin settled
      BY ZenonT(40), <1>2, <1>3 DEF ToSet
    <2>2. settled' = settled \cup ToSet(path)
      BY <1>1 DEF settled
    <2> HIDE DEF depth, place
    <2> QED
      BY <1>1, <2>1, <2>2
  <1>6. \A i \in 1..n : path[i] \in ToSet(path) /\ place(path[i]) = i
    <2>1. ASSUME NEW i \in 1..n PROVE path[i] \in ToSet(path) /\ place(path[i]) = i
      <3>1. \A k \in DOMAIN path : path[k] = path[i] => k = i
        BY <1>2, <1>3
      <3>2. i \in DOMAIN path
        BY <1>2
      <3> HIDE DEF n
      <3> QED
        BY <3>1, <3>2 DEF ToSet
    <2> QED
      BY <2>1
  <1>7. \A i \in 1..n : depthByID'[path[i]] = depth(i)
    <2> HIDE DEF depth, place, n
    <2> QED
      BY <1>5, <1>6
  <1> HIDE DEF place, n
  <1>8. ASSUME NEW i \in 1..(n + 1) PROVE IsFiniteSet(nets(i)) /\ Cardinality(nets(i)) \in Nat
    <2>1. IsFiniteSet(i..n) /\ nets(i) \in SUBSET (i..n)
      BY <1>2, FS_Interval
    <2> HIDE DEF nets
    <2> QED
      BY <2>1, FS_Subset, FS_CardinalityType
  <1>9. Cardinality(nets(n + 1)) = 0
    <2>1. nets(n + 1) = {}
      BY <1>2
    <2> QED
      BY <2>1, FS_EmptySet
  <1>10. ASSUME NEW i \in 1..n PROVE Cardinality(nets(i)) = Cardinality(nets(i + 1)) + IsNetworkCount(path[i])
    <2>1. i \in Nat /\ i <= n /\ i + 1 \in 1..(n + 1)
      BY <1>2
    <2>2. i..n = {i} \cup ((i + 1)..n) /\ i \notin (i + 1)..n
      BY <1>2, <2>1
    <2>3. CASE IsNetwork(path[i])
      <3>1. nets(i) = nets(i + 1) \cup {i} /\ i \notin nets(i + 1)
        BY <2>2, <2>3
      <3>2. IsFiniteSet(nets(i + 1)) /\ Cardinality(nets(i + 1)) \in Nat
        BY <1>8, <2>1
      <3> HIDE DEF nets
      <3> QED
        BY <2>3, <3>1, <3>2, FS_AddElement DEF IsNetworkCount
    <2>4. CASE ~IsNetwork(path[i])
      <3>1. nets(i) = nets(i + 1)
        BY <2>2, <2>4
      <3>2. Cardinality(nets(i + 1)) \in Nat
        BY <1>8, <2>1
      <3> HIDE DEF nets
      <3> QED
        BY <2>4, <3>1, <3>2 DEF IsNetworkCount
    <2> QED
      BY <2>3, <2>4
  <1> HIDE DEF nets
  <1>11. ASSUME NEW id \in settled
         PROVE  /\ depthByID'[id] \in Nat
                /\ depthByID'[id] = IsNetworkCount(id)
                     + IF nodeByID[id].parent = None THEN 0 ELSE depthByID'[nodeByID[id].parent]
    <2>1. nodeByID[id].parent # None => nodeByID[id].parent \in settled
      BY <1>2
    <2> HIDE DEF depth
    <2> QED
      BY <1>3, <1>5, <2>1
  <1>12. ASSUME NEW i \in 1..n
         PROVE  /\ depthByID'[path[i]] \in Nat
                /\ depthByID'[path[i]] = IsNetworkCount(path[i])
                     + IF nodeByID[path[i]].parent = None THEN 0 ELSE depthByID'[nodeByID[path[i]].parent]
    <2>1. IsNetworkCount(path[i]) \in Nat
      BY DEF IsNetworkCount
    <2>2. i + 1 \in 1..(n + 1) /\ i \in 1..(n + 1)
      BY <1>2
    <2>3. depthByID'[path[i]] = DepthAbove + Cardinality(nets(i + 1)) + IsNetworkCount(path[i])
          /\ DepthAbove + Cardinality(nets(i + 1)) \in Nat
      BY <1>4, <1>7, <1>8, <1>10, <2>1, <2>2
    <2>4. CASE i # n
      BY <1>2, <1>7, <2>1, <2>3, <2>4
    <2>5. CASE i = n
      <3>1. nodeByID[path[i]].parent = current /\ Cardinality(nets(i + 1)) = 0
        BY <1>2, <1>9, <2>5
      <3>2. current # None => depthByID'[current] = depthByID[current]
        BY <1>1, <1>5
      <3> QED
        BY <1>4, <2>1, <2>3, <3>1, <3>2
    <2> QED
      BY <2>4, <2>5
  <1>13. \A id \in settled' :
           /\ depthByID'[id] \in Nat
           /\ depthByID'[id] = IsNetworkCount(id)
                + IF nodeByID[id].parent = None THEN 0 ELSE depthByID'[nodeByID[id].parent]
    <2>1. ASSUME NEW id \in ToSet(path) PROVE \E i \in 1..n : id = path[i]
      BY <1>2 DEF ToSet
    <2> HIDE DEF depth
    <2> QED
      BY <1>5, <1>11, <1>12, <2>1
  <1>15. DOMAIN path' = {}
    BY <1>1
  <1> HIDE DEF depth
  <1>16. (\A i, j \in DOMAIN path : path[i] = path[j] => i = j)' /\ (\A i \in DOMAIN path : path[i] \notin settled)'
    BY <1>15
  <1>17. (\A id \in settled :
            /\ depthByID[id] \in Nat
            /\ depthByID[id] = IsNetworkCount(id)
                 + IF nodeByID[id].parent = None THEN 0 ELSE depthByID[nodeByID[id].parent])'
    <2>1. nodeByID' = nodeByID
      BY <1>1
    <2>2. ASSUME NEW id PROVE IsNetworkCount(id)' = IsNetworkCount(id)
      BY <2>1 DEF IsNetworkCount, IsNetwork
    <2>3. ASSUME NEW id \in settled'
          PROVE  (/\ depthByID[id] \in Nat
                  /\ depthByID[id] = IsNetworkCount(id)
                       + IF nodeByID[id].parent = None THEN 0 ELSE depthByID[nodeByID[id].parent])'
      BY <1>13, <2>1, <2>2
    <2> QED
      BY <2>3
  <1> QED
    BY <1>16, <1>17 DEF DepthsSettled

--------------------------------------------------------------------------------
(* The way up. *)

LEMMA ClosureJoins ==
  ASSUME NEW edges, NEW a \in Defined, NEW b \in Defined, NEW c \in Defined,
         <<a, b>> \in Closure(edges), <<b, c>> \in Closure(edges)
  PROVE  <<a, c>> \in Closure(edges)
  <1> DEFINE Shut(S) == \A f \in edges : f[1] \in S => f[2] \in S
  <1>1. PICK e \in edges : e[1] = a /\ \A S \in SUBSET Defined : Shut(S) /\ e[2] \in S => b \in S
    BY ClosureIs
  <1>2. PICK g \in edges : g[1] = b /\ \A S \in SUBSET Defined : Shut(S) /\ g[2] \in S => c \in S
    BY ClosureIs
  <1>3. \A S \in SUBSET Defined : Shut(S) /\ e[2] \in S => c \in S
    BY <1>1, <1>2
  <1> QED
    BY <1>1, <1>3, ClosureIs

ParentEdges ==
  {<<nodeLines[i].id, nodeLines[i].parent>> : i \in {j \in Parented : nodeLines[j].parent \in Defined}}

LEMMA ParentEdgesAre ==
  ASSUME IInv, pc \in ReferencesKnown
  PROVE  /\ Above = Closure(ParentEdges)
         /\ \A e : e \in ParentEdges <=> \E id \in Defined : nodeByID[id].parent # None /\ e = <<id, nodeByID[id].parent>>
         /\ \A e \in ParentEdges : e[1] \in Defined /\ e[2] \in Defined
         /\ \A id \in Defined : nodeByID[id].parent \in Defined \cup {None}
         /\ None \notin Defined
  <1>1. Above = Closure(ParentEdges)
    BY DEF Above, ParentEdges
  <1>2. /\ pc \in Gathering /\ ReadLines = Lines /\ DOMAIN nodeByID = Defined /\ LinesDiffer(Lines)
        /\ None \notin Defined
    BY NodeLinesRead, NodesTyped
  <1>3. \A id \in Defined : nodeByID[id].parent \in Defined \cup {None}
    BY <1>2, ParentsDefined
  <1>4. \A id \in Defined : \E i \in Lines : nodeLines[i].id = id /\ OfLine(nodeByID[id], i)
    BY <1>2 DEF IInv, NodesGathered
  <1>5. \A i \in Lines : nodeLines[i].id \in Defined /\ OfLine(nodeByID[nodeLines[i].id], i)
    BY <1>2, <1>4 DEF Defined, LinesDiffer
  <1>6. Defining = Lines
    <2>1. Lines = 1..Len(nodeLines) /\ Len(nodeLines) \in Nat
      BY DefinedFinite DEF IInv
    <2>2. ASSUME NEW i \in Lines, NEW j \in 1..(i - 1) PROVE j \in Lines /\ j # i
      BY <2>1
    <2> QED
      BY <1>2, <2>2 DEF Defining, LinesDiffer
  <1>7. \A i : i \in Parented <=> i \in Lines /\ nodeLines[i].parent # None
    BY <1>6 DEF Parented
  <1>8. ASSUME NEW e \in ParentEdges
        PROVE  \E id \in Defined : nodeByID[id].parent # None /\ e = <<id, nodeByID[id].parent>>
    <2>1. PICK i \in Parented : e = <<nodeLines[i].id, nodeLines[i].parent>>
      BY DEF ParentEdges
    <2> QED
      BY <1>5, <1>7, <2>1 DEF OfLine
  <1>9. ASSUME NEW id \in Defined, nodeByID[id].parent # None PROVE <<id, nodeByID[id].parent>> \in ParentEdges
    <2>1. PICK i \in Lines : nodeLines[i].id = id /\ OfLine(nodeByID[id], i)
      BY <1>4
    <2>2. i \in Parented /\ nodeLines[i].parent = nodeByID[id].parent /\ nodeByID[id].parent \in Defined
      BY <1>3, <1>7, <1>9, <2>1 DEF OfLine
    <2> QED
      BY <2>1, <2>2 DEF ParentEdges
  <1>10. \A e : e \in ParentEdges <=> \E id \in Defined : nodeByID[id].parent # None /\ e = <<id, nodeByID[id].parent>>
    BY <1>8, <1>9
  <1>11. \A e \in ParentEdges : e[1] \in Defined /\ e[2] \in Defined
    <2>1. ASSUME NEW e \in ParentEdges PROVE e[1] \in Defined /\ e[2] \in Defined
      <3>1. PICK id \in Defined : nodeByID[id].parent # None /\ e = <<id, nodeByID[id].parent>>
        BY <1>8
      <3> QED
        BY <1>3, <3>1
    <2> QED
      BY <2>1
  <1> QED
    BY <1>1, <1>2, <1>3, <1>10, <1>11

(* Above a node is its parent and what is above the parent. *)
LEMMA AboveIs ==
  ASSUME IInv, pc \in ReferencesKnown, NEW n \in Defined, NEW m \in Defined
  PROVE  <<n, m>> \in Above <=>
           /\ nodeByID[n].parent \in Defined
           /\ nodeByID[n].parent = m \/ <<nodeByID[n].parent, m>> \in Above
  <1> DEFINE p == nodeByID[n].parent
             Shut(S) == \A f \in ParentEdges : f[1] \in S => f[2] \in S
  <1>1. /\ Above = Closure(ParentEdges)
        /\ \A e : e \in ParentEdges <=> \E id \in Defined : nodeByID[id].parent # None /\ e = <<id, nodeByID[id].parent>>
        /\ \A e \in ParentEdges : e[1] \in Defined /\ e[2] \in Defined
        /\ p \in Defined \cup {None} /\ None \notin Defined
    BY ParentEdgesAre
  <1>2. <<n, m>> \in Above <=>
          \E e \in ParentEdges : e[1] = n /\ \A S \in SUBSET Defined : Shut(S) /\ e[2] \in S => m \in S
    BY <1>1, ClosureIs
  <1>3. \A e \in ParentEdges : e[1] = n => e[2] = p /\ p # None
    BY <1>1
  <1>4. p # None => <<n, p>> \in ParentEdges
    BY <1>1
  <1>5. <<n, m>> \in Above <=> p \in Defined /\ \A S \in SUBSET Defined : Shut(S) /\ p \in S => m \in S
    <2>1. ASSUME <<n, m>> \in Above PROVE p \in Defined /\ \A S \in SUBSET Defined : Shut(S) /\ p \in S => m \in S
      <3>1. PICK e \in ParentEdges : e[1] = n /\ \A S \in SUBSET Defined : Shut(S) /\ e[2] \in S => m \in S
        BY <1>2, <2>1
      <3>2. e[2] = p /\ p # None
        BY <1>3, <3>1
      <3> HIDE DEF Shut, p
      <3> QED
        BY <1>1, <3>1, <3>2
    <2>2. ASSUME p \in Defined, \A S \in SUBSET Defined : Shut(S) /\ p \in S => m \in S PROVE <<n, m>> \in Above
      <3>1. <<n, p>> \in ParentEdges
        BY <1>1, <1>4, <2>2
      <3> HIDE DEF Shut, p
      <3>2. \E e \in ParentEdges : e[1] = n /\ \A S \in SUBSET Defined : Shut(S) /\ e[2] \in S => m \in S
        BY <2>2, <3>1
      <3> QED
        BY <1>2, <3>2
    <2> QED
      BY <2>1, <2>2
  <1>6. CASE p \notin Defined
    BY <1>5, <1>6
  <1>7. CASE p = m
    BY <1>5, <1>7
  <1>8. CASE p \in Defined /\ p # m
    <2>1. <<p, m>> \in Above <=> \A S \in SUBSET Defined : Shut(S) /\ p \in S => m \in S
      <3> HIDE DEF p
      <3> QED
        BY <1>1, <1>8, ClosureReaches
    <2> QED
      BY <1>5, <1>8, <2>1
  <1> QED
    BY <1>6, <1>7, <1>8

LEMMA AboveJoins ==
  ASSUME NEW a \in Defined, NEW b \in Defined, NEW c \in Defined, <<a, b>> \in Above, <<b, c>> \in Above
  PROVE  <<a, c>> \in Above
  BY ClosureJoins DEF Above

(* No node of a grounded hierarchy is above itself. *)
LEMMA GroundedIrreflexive ==
  ASSUME IInv, pc \in ReferencesKnown, NEW T \in SUBSET Defined, Grounded(T),
         \A n \in T : nodeByID[n].parent \in T \cup {None}, NEW n \in T
  PROVE  <<n, n>> \notin Above
  <1> DEFINE S == {k \in T : <<k, k>> \in Above}
  <1> SUFFICES ASSUME <<n, n>> \in Above PROVE FALSE
    OBVIOUS
  <1>1. S \in SUBSET T /\ S # {}
    OBVIOUS
  <1>2. PICK k \in S : nodeByID[k].parent \notin S
    <2> HIDE DEF S
    <2> QED
      BY <1>1 DEF Grounded
  <1> DEFINE p == nodeByID[k].parent
  <1>3. k \in T /\ k \in Defined /\ <<k, k>> \in Above
    OBVIOUS
  <1>4. p \in Defined /\ (p = k \/ <<p, k>> \in Above)
    BY <1>3, AboveIs
  <1>5. p \in T
    BY <1>3, <1>4, ParentEdgesAre
  <1>6. p # k
    BY <1>2
  <1>7. <<k, p>> \in Above
    BY <1>3, <1>4, AboveIs
  <1>8. <<p, p>> \in Above
    BY <1>3, <1>4, <1>6, <1>7, AboveJoins
  <1> QED
    BY <1>2, <1>5, <1>8

NetworksUp(n) == {m \in Networks : m = n \/ <<n, m>> \in Above}

LEMMA NetworksAre ==
  ASSUME IInv, pc \in ReferencesKnown
  PROVE  \A n : n \in Networks <=> n \in Defined /\ IsNetwork(n)
  BY DefinitionKnown DEF Networks, IsNetwork

LEMMA UpFinite ==
  ASSUME IInv
  PROVE  \A n : IsFiniteSet(NetworksUp(n)) /\ Cardinality(NetworksUp(n)) \in Nat
  <1>1. \A n : NetworksUp(n) \subseteq Defined
    BY DEF NetworksUp, Networks
  <1> QED
    BY <1>1, DefinedFinite, FS_Subset, FS_CardinalityType DEF IInv

(* A depth is the number of networks from the node upwards. *)
LEMMA DepthsAre ==
  ASSUME IInv, pc \in ReferencesKnown, DepthsSettled, settled = Defined
  PROVE  \A n \in Defined : depthByID[n] = Cardinality(NetworksUp(n))
  <1> DEFINE S == {n \in Defined : depthByID[n] # Cardinality(NetworksUp(n))}
  <1> SUFFICES ASSUME S # {} PROVE FALSE
    OBVIOUS
  <1>1. Grounded(Defined) /\ \A n \in Defined : nodeByID[n].parent \in Defined \cup {None}
    BY ParentEdgesAre DEF IInv, ChainsSettled
  <1>2. PICK n \in S : nodeByID[n].parent \notin S
    <2>1. S \in SUBSET Defined
      OBVIOUS
    <2> HIDE DEF S
    <2> QED
      BY <1>1, <2>1 DEF Grounded
  <1> DEFINE p == nodeByID[n].parent
  <1>3. n \in Defined /\ depthByID[n] # Cardinality(NetworksUp(n))
    OBVIOUS
  <1>4. p \in Defined => depthByID[p] = Cardinality(NetworksUp(p))
    BY <1>2
  <1>5. depthByID[n] = IsNetworkCount(n) + IF p = None THEN 0 ELSE depthByID[p]
    BY <1>3 DEF DepthsSettled
  <1>6. <<n, n>> \notin Above
    BY <1>1, GroundedIrreflexive
  <1>7. p \in Defined \cup {None} /\ None \notin Defined
    BY ParentEdgesAre
  <1> HIDE DEF p
  <1> DEFINE up == IF p = None THEN {} ELSE NetworksUp(p)
  <1>8. IsFiniteSet(up) /\ Cardinality(up) \in Nat /\ Cardinality(up) = IF p = None THEN 0 ELSE depthByID[p]
    BY <1>4, <1>7, UpFinite, FS_EmptySet
  <1>9. \A m \in Defined : <<n, m>> \in Above <=> p # None /\ (m = p \/ <<p, m>> \in Above)
    BY <1>3, <1>7, AboveIs DEF p
  <1>10. \A m : m \in up <=> m \in Networks /\ <<n, m>> \in Above
    BY <1>9, NetworksAre DEF NetworksUp
  <1>11. n \notin up /\ \A m : m \in NetworksUp(n) <=> m \in up \/ (m = n /\ n \in Networks)
    BY <1>6, <1>10 DEF NetworksUp
  <1> HIDE DEF up
  <1>12. CASE IsNetwork(n)
    <2>1. NetworksUp(n) = up \cup {n}
      BY <1>3, <1>11, <1>12, NetworksAre
    <2>2. Cardinality(NetworksUp(n)) = Cardinality(up) + 1
      BY <1>8, <1>11, <2>1, FS_AddElement
    <2> QED
      BY <1>3, <1>5, <1>8, <1>12, <2>2 DEF IsNetworkCount
  <1>13. CASE ~IsNetwork(n)
    <2>1. NetworksUp(n) = up
      BY <1>11, <1>13, NetworksAre
    <2> QED
      BY <1>3, <1>5, <1>8, <1>13, <2>1 DEF IsNetworkCount
  <1> QED
    BY <1>12, <1>13

LEMMA LongestIs ==
  ASSUME IInv, pc \in ReferencesKnown, DepthsSettled, settled = Defined
  PROVE  jobNetworkDepth = LongestChain
  <1> DEFINE above == {p \in Above : p[2] \in Networks}
             of(id) == {p \in above : p[1] = id}
             deep == {0} \cup {depthByID[id] : id \in {n \in settled : IsNetwork(n)}}
             long == {0} \cup {1 + Cardinality(of(id)) : id \in Networks}
  <1>1. jobNetworkDepth = Max(deep) /\ LongestChain = Max(long)
    BY Zenon DEF jobNetworkDepth, LongestChain
  <1>2. ASSUME NEW id \in Networks PROVE depthByID[id] = 1 + Cardinality(of(id))
    <2> DEFINE ups == {m \in Networks : <<id, m>> \in Above}
               f == [m \in ups |-> <<id, m>>]
    <2>1. id \in Defined /\ IsNetwork(id)
      BY NetworksAre
    <2>2. <<id, id>> \notin Above
      BY <2>1, ParentEdgesAre, GroundedIrreflexive DEF IInv, ChainsSettled
    <2>3. NetworksUp(id) = ups \cup {id} /\ id \notin ups
      BY <2>2 DEF NetworksUp
    <2>4. IsFiniteSet(ups) /\ Cardinality(ups) \in Nat
      <3>1. ups \in SUBSET NetworksUp(id)
        BY <2>3
      <3> HIDE DEF ups
      <3> QED
        BY <3>1, UpFinite, FS_Subset, FS_CardinalityType
    <2>5. ASSUME NEW q \in Above PROVE q = <<q[1], q[2]>>
      BY DEF Above, Closure
    <2>6. \A q : q \in of(id) <=> \E m \in ups : q = <<id, m>>
      <3>1. ASSUME NEW q \in of(id) PROVE q[2] \in ups /\ q = <<id, q[2]>>
        BY <2>5
      <3>2. ASSUME NEW m \in ups PROVE <<id, m>> \in of(id)
        OBVIOUS
      <3> QED
        BY <3>1, <3>2
    <2>7. f \in Bijection(ups, of(id))
      <3>1. f \in [ups -> of(id)]
        BY <2>6
      <3>2. \A m \in ups : f[m] = <<id, m>>
        OBVIOUS
      <3> HIDE DEF f, of, ups
      <3>3. \A a, b \in ups : f[a] = f[b] => a = b
        BY <3>2
      <3>4. \A q \in of(id) : \E m \in ups : f[m] = q
        BY <2>6, <3>2
      <3> QED
        BY <3>1, <3>3, <3>4 DEF Bijection, Injection, Surjection, IsInjective
    <2>8. Cardinality(of(id)) = Cardinality(ups)
      <3> HIDE DEF f, of, ups
      <3>1. ExistsBijection(ups, of(id))
        BY <2>7 DEF ExistsBijection
      <3> QED
        BY <2>4, <3>1, FS_Bijection
    <2> HIDE DEF ups
    <2>9. Cardinality(NetworksUp(id)) = Cardinality(ups) + 1
      BY <2>3, <2>4, FS_AddElement
    <2>10. depthByID[id] = Cardinality(NetworksUp(id))
      BY <2>1, DepthsAre
    <2> QED
      BY <2>4, <2>8, <2>9, <2>10
  <1>3. deep = long
    <2> HIDE DEF of
    <2>1. \A id : id \in {n \in settled : IsNetwork(n)} <=> id \in Networks
      BY NetworksAre
    <2> QED
      BY <1>2, <2>1
  <1> QED
    BY <1>1, <1>3

--------------------------------------------------------------------------------
(* What Validate calculates on its way follows the files. *)

BeforeVisits == {"manifest", "nodes", "references", "hierarchy", "relations"}

NothingVisited ==
  pc \in BeforeVisits \cup ReadingPcs =>
    indices = <<>> /\ lowlinks = <<>> /\ stack = <<>> /\ frames = <<>> /\ maximum = 0

SizesFollow ==
  /\ EdgesGathered
  /\ DepthsSettled
  /\ NothingVisited
  /\ pc = "components" => TarjanIInv
  /\ pc = "accepted" => LargestOf(maximum)

SizesIInv == IInv /\ SizesFollow

(* What has ended, or has not come to the hierarchy, knows no sizes. *)
LEMMA NoSizesYet ==
  ASSUME pc \notin ReferencesKnown, NothingVisited
  PROVE  SizesFollow
  <1>1. pc \notin HierarchyKnown /\ pc # "components" /\ pc # "accepted"
    BY DEF HierarchyKnown, ReferencesKnown, NodesKnown, Gathering
  <1> QED
    BY <1>1 DEF SizesFollow, EdgesGathered, DepthsSettled

LEMMA PcsApart ==
  /\ BeforeVisits \cap ReadingPcs = {}
  /\ \A p \in {"rejected", "failed"} : p \notin ReferencesKnown /\ p \notin BeforeVisits \cup ReadingPcs
  /\ \A p \in {"manifest", "nodes", "references"} \cup ReadingPcs : p \notin ReferencesKnown
  /\ \A p \in ReferencesKnown : p \notin ReadingPcs
  BY DEF BeforeVisits, ReadingPcs, HierarchyKnown, ReferencesKnown, NodesKnown, Gathering

(* The sizes outlast a step that leaves alone what they are read from. *)
LEMMA DepthsStay ==
  ASSUME DepthsSettled, pc \in ReferencesKnown, UNCHANGED <<nodeByID, depthByID, path>>
  PROVE  DepthsSettled'
  BY DEF DepthsSettled, IsNetworkCount, IsNetwork, settled

LEMMA EdgesStay ==
  ASSUME EdgesGathered, pc \in HierarchyKnown, UNCHANGED <<nodeByID, relationLines, adjacency>>,
         ReadRelations' = ReadRelations
  PROVE  EdgesGathered'
  BY DEF EdgesGathered, ScopeAdjacency, RelationEdges, IsNetwork

LEMMA VisitsStay ==
  ASSUME pc \in BeforeVisits, NothingVisited, UNCHANGED tarjan
  PROVE  NothingVisited'
  BY DEF NothingVisited

LEMMA TarjanStays ==
  ASSUME TarjanIInv, UNCHANGED <<nodeLines, adjacency, tarjan>>
  PROVE  TarjanIInv'
  <1>1. /\ Visited' = Visited /\ OnStack' = OnStack /\ Completed' = Completed /\ Defined' = Defined
        /\ (\A v : Neighbours(v)' = Neighbours(v))
    BY DEF Visited, OnStack, Completed, Defined, Lines, Neighbours
  <1>2. Closed' = Closed
    BY <1>1 DEF Closed
  <1>3. VisitsNumbered' /\ StackRises'
    BY <1>1 DEF TarjanIInv, VisitsNumbered, StackRises
  <1>4. FramesRise'
    BY <1>1 DEF TarjanIInv, FramesRise, Vertex
  <1>5. CompletedClosed'
    BY <1>1 DEF TarjanIInv, CompletedClosed
  <1>6. CallsReach' /\ StackReaches' /\ LinksReached'
    BY <1>1, <1>2 DEF TarjanIInv, CallsReach, StackReaches, LinksReached, Reaches, Vertex
  <1>7. LinksBound'
    BY <1>1 DEF TarjanIInv, LinksBound, Owned, Looked, Vertex
  <1>8. MaximumSoFar'
    BY <1>1, <1>2 DEF TarjanIInv, MaximumSoFar, Component, Reaches
  <1> QED
    BY <1>3, <1>4, <1>5, <1>6, <1>7, <1>8 DEF TarjanIInv

LEMMA LargestStays ==
  ASSUME UNCHANGED <<nodeLines, adjacency, maximum>>, LargestOf(maximum)
  PROVE  LargestOf(maximum)'
  <1>1. Defined' = Defined
    BY DEF Defined, Lines
  <1>2. Closed' = Closed
    BY <1>1 DEF Closed
  <1> QED
    BY <1>1, <1>2 DEF LargestOf, Component, Reaches

LEMMA SizesStay ==
  ASSUME SizesFollow, UNCHANGED <<files, pc, line, nodeByID, hierarchy, adjacency, tarjan>>
  PROVE  SizesFollow'
  <1>1. ReadRelations' = ReadRelations
    BY DEF ReadRelations
  <1>2. EdgesGathered'
    BY <1>1, EdgesStay DEF SizesFollow, EdgesGathered
  <1>3. DepthsSettled'
    BY DepthsStay DEF SizesFollow, DepthsSettled
  <1>4. NothingVisited'
    BY DEF SizesFollow, NothingVisited
  <1>5. (pc = "components" => TarjanIInv)'
    BY TarjanStays DEF SizesFollow
  <1>6. (pc = "accepted" => LargestOf(maximum))'
    BY LargestStays DEF SizesFollow
  <1> QED
    BY <1>2, <1>3, <1>4, <1>5, <1>6 DEF SizesFollow

LEMMA SizesEnd ==
  ASSUME pc' \in {"rejected", "failed"}
  PROVE  SizesFollow'
  <1>1. pc' \notin ReferencesKnown /\ pc' \notin BeforeVisits \cup ReadingPcs
    BY PcsApart
  <1>2. NothingVisited'
    BY <1>1 DEF NothingVisited
  <1>3. (pc \notin ReferencesKnown /\ NothingVisited => SizesFollow)'
    BY NoSizesYet, PTL
  <1> QED
    BY <1>1, <1>2, <1>3

LEMMA SizesBefore ==
  ASSUME SizesFollow, pc \in BeforeVisits \cup ReadingPcs, UNCHANGED tarjan,
         pc' \in {"manifest", "nodes", "references"} \cup ReadingPcs
  PROVE  SizesFollow'
  <1>1. pc' \notin ReferencesKnown
    BY PcsApart
  <1>2. NothingVisited'
    BY DEF SizesFollow, NothingVisited, BeforeVisits
  <1>3. (pc \notin ReferencesKnown /\ NothingVisited => SizesFollow)'
    BY NoSizesYet, PTL
  <1> QED
    BY <1>1, <1>2, <1>3

(* In the hierarchy the depths alone change. *)
LEMMA SizesInHierarchy ==
  ASSUME SizesFollow, pc \in BeforeVisits, pc' = "hierarchy", UNCHANGED tarjan, DepthsSettled'
  PROVE  SizesFollow'
  <1>1. pc' \notin HierarchyKnown /\ pc' # "components" /\ pc' # "accepted" /\ pc' \in BeforeVisits
    BY DEF HierarchyKnown, ReferencesKnown, NodesKnown, Gathering, BeforeVisits
  <1>2. EdgesGathered'
    BY <1>1 DEF EdgesGathered
  <1>3. NothingVisited'
    BY VisitsStay DEF SizesFollow
  <1> QED
    BY <1>1, <1>2, <1>3 DEF SizesFollow

LEMMA CheckReferenceSizes ==
  ASSUME IInv, IInv', SizesFollow, CheckReference
  PROVE  SizesFollow'
  <1>0. pc = "references" /\ UNCHANGED <<files, gathered, hierarchy, graph, tarjan>>
    BY DEF CheckReference
  <1>1. pc' \in {"rejected", "references", "hierarchy"}
    BY DEF CheckReference, Reject, Goes, Stays
  <1>2. CASE pc' = "rejected"
    BY <1>2, SizesEnd
  <1>3. CASE pc' = "references"
    BY <1>0, <1>3, SizesBefore DEF BeforeVisits
  <1>4. CASE pc' = "hierarchy"
    BY <1>0, <1>4, SizesInHierarchy DEF IInv, ChainsSettled, settled, DepthsSettled, BeforeVisits
  <1> QED
    BY <1>1, <1>2, <1>3, <1>4

LEMMA ClimbSizes ==
  ASSUME IInv, SizesFollow, Climb
  PROVE  SizesFollow'
  <1>1. /\ pc = "hierarchy" /\ pc' = pc /\ current \notin ToSet(path) /\ current \notin settled
        /\ path' = Append(path, current) /\ UNCHANGED <<nodeByID, depthByID, tarjan>>
    BY DEF Climb
  <1>2. pc \in ReferencesKnown /\ pc \in BeforeVisits
    BY <1>1 DEF ReferencesKnown, NodesKnown, Gathering, BeforeVisits
  <1>3. path \in Seq(DOMAIN nodeByID) /\ current \in DOMAIN nodeByID
    BY <1>2 DEF IInv, ChainsSettled, Climb
  <1>4. /\ \A i, j \in DOMAIN path : path[i] = path[j] => i = j
        /\ \A i \in DOMAIN path : path[i] \notin settled
    BY <1>2 DEF SizesFollow, DepthsSettled
  <1> DEFINE n == Len(path)
  <1>5. /\ DOMAIN path = 1..n /\ n \in Nat /\ DOMAIN path' = 1..(n + 1)
        /\ \A i \in 1..(n + 1) : path'[i] = IF i = n + 1 THEN current ELSE path[i]
        /\ \A i \in 1..n : path[i] # current
    BY <1>1, <1>3 DEF ToSet
  <1>6. settled' = settled
    BY <1>1 DEF settled
  <1>7. \A i, j \in DOMAIN path' : path'[i] = path'[j] => i = j
    <2> HIDE DEF n
    <2>1. \A i \in 1..(n + 1) : i = n + 1 \/ i \in 1..n
      BY <1>5
    <2> QED
      BY <1>4, <1>5, <2>1
  <1>8. \A i \in DOMAIN path' : path'[i] \notin settled'
    <2> HIDE DEF n
    <2>1. \A i \in 1..(n + 1) : i = n + 1 \/ i \in 1..n
      BY <1>5
    <2> QED
      BY <1>1, <1>4, <1>5, <1>6, <2>1
  <1>9. DepthsSettled'
    BY <1>1, <1>2, <1>6, <1>7, <1>8 DEF SizesFollow, DepthsSettled, IsNetworkCount, IsNetwork
  <1> QED
    BY <1>1, <1>2, <1>9, SizesInHierarchy

LEMMA HierarchyCheckedSizes ==
  ASSUME IInv, IInv', SizesFollow, HierarchyChecked
  PROVE  SizesFollow'
  <1>0. pc = "hierarchy" /\ UNCHANGED <<files, gathered, hierarchy, seen, tarjan>>
    BY DEF HierarchyChecked
  <1>1. CASE pc' = "rejected"
    BY <1>1, SizesEnd
  <1>2. CASE pc' # "rejected"
    <2>1. pc' = "relations" /\ line' = 0 /\ adjacency' = ScopeAdjacency
      BY <1>2 DEF HierarchyChecked, Reject, Goes
    <2>2. ReadRelations' = {}
      BY <2>1 DEF ReadRelations
    <2>3. RelationEdges(ReadRelations)' = {}
      BY <2>2 DEF RelationEdges
    <2>4. ScopeAdjacency' = ScopeAdjacency
      BY <1>0 DEF ScopeAdjacency, IsNetwork
    <2>5. EdgesGathered'
      BY <2>1, <2>3, <2>4 DEF EdgesGathered
    <2>6. pc \in ReferencesKnown /\ pc \in BeforeVisits
      BY <1>0 DEF ReferencesKnown, NodesKnown, Gathering, BeforeVisits
    <2>7. DepthsSettled'
      BY <1>0, <2>6, DepthsStay DEF SizesFollow
    <2>8. NothingVisited'
      BY <1>0, <2>6, VisitsStay DEF SizesFollow
    <2> QED
      BY <2>1, <2>5, <2>7, <2>8 DEF SizesFollow
  <1> QED
    BY <1>1, <1>2

LEMMA ReadRelationSizes ==
  ASSUME IInv, IInv', SizesFollow, ReadRelation
  PROVE  SizesFollow'
  <1>0. pc = "relations" /\ line < Len(relationLines) /\ UNCHANGED <<files, gathered, hierarchy, tarjan>>
    BY DEF ReadRelation
  <1>1. CASE pc' = "rejected"
    BY <1>1, SizesEnd
  <1>2. CASE pc' # "rejected"
    <2> DEFINE l == relationLines[line + 1]
    <2>1. /\ pc' = "relations" /\ line' = line + 1
          /\ adjacency' = IF isTraversableNodeKind(nodeByID[l.from].type)
                            THEN adjacency \cup {<<l.from, l.to>>} ELSE adjacency
      BY <1>0, <1>2 DEF ReadRelation, Reject, Stays
    <2>2. ReadRelations = 1..line /\ ReadRelations' = 1..(line + 1) /\ line \in Nat
      BY <1>0, <2>1 DEF ReadRelations, IInv, Typed
    <2>3. ReadRelations' = ReadRelations \cup {line + 1}
      BY <2>2
    <2>4. RelationEdges(ReadRelations)' =
            RelationEdges(ReadRelations)
              \cup (IF isTraversableNodeKind(nodeByID[l.from].type) THEN {<<l.from, l.to>>} ELSE {})
      <3> DEFINE ok(k) == isTraversableNodeKind(nodeByID[relationLines[k].from].type)
                 pair(k) == <<relationLines[k].from, relationLines[k].to>>
      <3>1. /\ RelationEdges(ReadRelations) = {pair(k) : k \in {i \in ReadRelations : ok(i)}}
            /\ RelationEdges(ReadRelations)' = {pair(k) : k \in {i \in ReadRelations \cup {line + 1} : ok(i)}}
        BY <1>0, <2>3 DEF RelationEdges, isTraversableNodeKind
      <3> HIDE DEF ok, pair
      <3>2. {pair(k) : k \in {i \in ReadRelations \cup {line + 1} : ok(i)}} =
              {pair(k) : k \in {i \in ReadRelations : ok(i)}}
                \cup (IF ok(line + 1) THEN {pair(line + 1)} ELSE {})
        OBVIOUS
      <3> QED
        BY <3>1, <3>2 DEF ok, pair
    <2>5. ScopeAdjacency' = ScopeAdjacency
      BY <1>0 DEF ScopeAdjacency, IsNetwork
    <2>6. pc \in ReferencesKnown /\ pc \in HierarchyKnown /\ pc \in BeforeVisits
      BY <1>0 DEF HierarchyKnown, ReferencesKnown, NodesKnown, Gathering, BeforeVisits
    <2>7. adjacency = ScopeAdjacency \cup RelationEdges(ReadRelations)
      BY <2>6 DEF SizesFollow, EdgesGathered
    <2>8. adjacency' = ScopeAdjacency' \cup RelationEdges(ReadRelations)'
      <3> HIDE DEF l
      <3> QED
        BY <2>1, <2>4, <2>5, <2>7
    <2>9. EdgesGathered'
      BY <2>8 DEF EdgesGathered
    <2>10. DepthsSettled'
      BY <1>0, <2>6, DepthsStay DEF SizesFollow
    <2>11. NothingVisited'
      BY <1>0, <2>6, VisitsStay DEF SizesFollow
    <2> QED
      BY <2>1, <2>9, <2>10, <2>11 DEF SizesFollow
  <1> QED
    BY <1>1, <1>2

LEMMA RelationsReadSizes ==
  ASSUME IInv, IInv', SizesFollow, RelationsRead
  PROVE  SizesFollow'
  <1>0. pc = "relations" /\ line = Len(relationLines) /\ UNCHANGED <<files, gathered, hierarchy, graph, tarjan>>
    BY DEF RelationsRead
  <1>1. CASE pc' = "rejected"
    BY <1>1, SizesEnd
  <1>2. CASE pc' # "rejected"
    <2>1. pc' = "components"
      BY <1>2 DEF RelationsRead, Reject, Goes
    <2>2. /\ pc \in ReferencesKnown /\ pc \in HierarchyKnown /\ pc \in BeforeVisits
          /\ pc' \in RelationsKnown /\ pc' \notin BeforeVisits \cup ReadingPcs
      BY <1>0, <2>1 DEF RelationsKnown, HierarchyKnown, ReferencesKnown, NodesKnown, Gathering, BeforeVisits, ReadingPcs
    <2>3. ReadRelations = 1..line /\ ReadRelations' = DOMAIN relationLines
      BY <1>0, <2>1, <2>2 DEF ReadRelations
    <2>4. ReadRelations' = ReadRelations
      BY <1>0, <2>3 DEF IInv, Typed
    <2>5. EdgesGathered'
      BY <1>0, <2>2, <2>4, EdgesStay DEF SizesFollow
    <2>6. DepthsSettled'
      BY <1>0, <2>2, DepthsStay DEF SizesFollow
    <2>7. NothingVisited'
      BY <2>2 DEF NothingVisited
    <2>8. TarjanIInv
      BY <2>2, TarjanBegins DEF SizesFollow, NothingVisited
    <2>9. TarjanIInv'
      BY <1>0, <2>8, TarjanStays
    <2> QED
      BY <2>1, <2>5, <2>6, <2>7, <2>9 DEF SizesFollow
  <1> QED
    BY <1>1, <1>2

LEMMA VisitSizes ==
  ASSUME IInv, SizesFollow, VisitRoot \/ LookAtNeighbour \/ Leave
  PROVE  SizesFollow'
  <1>1. pc = "components" /\ UNCHANGED <<files, pc, line, gathered, hierarchy, graph>>
    BY DEF VisitRoot, LookAtNeighbour, Leave
  <1>2. /\ pc \in ReferencesKnown /\ pc \in HierarchyKnown /\ pc \in RelationsKnown
        /\ pc \notin BeforeVisits \cup ReadingPcs
    BY <1>1 DEF RelationsKnown, HierarchyKnown, ReferencesKnown, NodesKnown, Gathering, BeforeVisits, ReadingPcs
  <1>3. ReadRelations' = ReadRelations
    BY <1>1 DEF ReadRelations
  <1>4. EdgesGathered /\ DepthsSettled /\ TarjanIInv
    BY <1>1 DEF SizesFollow
  <1>5. EdgesGathered' /\ DepthsSettled'
    BY <1>1, <1>2, <1>3, <1>4, EdgesStay, DepthsStay
  <1>6. NothingVisited'
    BY <1>1, <1>2 DEF NothingVisited
  <1>7. IsFiniteSet(Defined)
    BY DefinedFinite DEF IInv
  <1>8. EdgesJoin
    BY <1>2, <1>4, EdgesAre DEF EdgesJoin, Traversable
  <1>9. orderedNodeIDs \in Seq(Node) /\ ToSet(orderedNodeIDs) = Defined
    BY <1>2, NodeLinesRead DEF IInv, NodesGathered
  <1>10. TarjanIInv'
    BY <1>4, <1>7, <1>8, <1>9, VisitRootKeeps, LookAtNeighbourKeeps, LeaveKeeps
  <1> QED
    BY <1>1, <1>5, <1>6, <1>10 DEF SizesFollow

LEMMA ComponentsFoundSizes ==
  ASSUME IInv, SizesFollow, ComponentsFound
  PROVE  SizesFollow'
  <1>0. /\ pc = "components" /\ frames = <<>> /\ Unvisited = {}
        /\ UNCHANGED <<files, gathered, hierarchy, graph, tarjan>>
    BY DEF ComponentsFound
  <1>1. CASE pc' = "rejected"
    BY <1>1, SizesEnd
  <1>2. CASE pc' # "rejected"
    <2>1. pc' = "accepted"
      BY <1>2 DEF ComponentsFound, Reject, Goes
    <2>2. /\ pc \in ReferencesKnown /\ pc \in HierarchyKnown /\ pc \in RelationsKnown /\ pc' \in RelationsKnown
          /\ pc' \notin BeforeVisits \cup ReadingPcs /\ pc # "relations" /\ pc' # "relations"
      BY <1>0, <2>1 DEF RelationsKnown, HierarchyKnown, ReferencesKnown, NodesKnown, Gathering, BeforeVisits, ReadingPcs
    <2>3. ReadRelations' = ReadRelations
      BY <1>0, <2>2 DEF ReadRelations
    <2>4. EdgesGathered' /\ DepthsSettled'
      BY <1>0, <2>2, <2>3, EdgesStay, DepthsStay DEF SizesFollow
    <2>5. NothingVisited'
      BY <2>2 DEF NothingVisited
    <2>6. IsFiniteSet(Defined)
      BY DefinedFinite DEF IInv
    <2>7. ToSet(orderedNodeIDs) = Defined
      BY <2>2, NodeLinesRead DEF IInv, NodesGathered
    <2>8. LargestOf(maximum)
      BY <1>0, <2>6, <2>7, TarjanEnds DEF SizesFollow, LargestOf
    <2>9. LargestOf(maximum)'
      BY <1>0, <2>8, LargestStays
    <2> QED
      BY <2>1, <2>4, <2>5, <2>9 DEF SizesFollow
  <1> QED
    BY <1>1, <1>2

LEMMA SizesKeep ==
  ASSUME IInv, IInv', SizesFollow, [Next]_vars
  PROVE  SizesFollow'
  <1>1. CASE ReadManifest
    BY <1>1, SizesEnd, SizesBefore DEF ReadManifest, Reject, Goes, BeforeVisits
  <1>2. CASE ReadNode
    BY <1>2, SizesEnd, SizesBefore DEF ReadNode, Reject, Stays, BeforeVisits
  <1>3. CASE NodesRead
    BY <1>3, SizesEnd, SizesBefore DEF NodesRead, Reject, Goes, BeforeVisits
  <1>4. CASE CheckReference
    BY <1>4, CheckReferenceSizes
  <1>5. CASE StartChain
    BY <1>5, DepthsStay, SizesInHierarchy DEF StartChain, ReferencesKnown, NodesKnown, Gathering,
       BeforeVisits, SizesFollow
  <1>6. CASE Climb
    BY <1>6, ClimbSizes
  <1>7. CASE ChainCloses
    BY <1>7, SizesEnd DEF ChainCloses, Reject
  <1>8. CASE SettleChain
    BY <1>8, SettleChainDepths, SizesInHierarchy DEF SettleChain, SizesFollow, BeforeVisits
  <1>9. CASE HierarchyChecked
    BY <1>9, HierarchyCheckedSizes
  <1>10. CASE ReadRelation
    BY <1>10, ReadRelationSizes
  <1>11. CASE RelationsRead
    BY <1>11, RelationsReadSizes
  <1>12. CASE VisitRoot \/ LookAtNeighbour \/ Leave
    BY <1>12, VisitSizes
  <1>13. CASE ComponentsFound
    BY <1>13, ComponentsFoundSizes
  <1>14. CASE Load
    <2>1. pc = "accepted" /\ pc' \in {"loaded", "refused"} /\ UNCHANGED <<files, line, gathered, hierarchy, graph, tarjan>>
      BY <1>14 DEF Load
    <2>2. pc' = "loaded"
      BY <2>1 DEF IInv, Typed, Pcs, Gathering
    <2>3. /\ pc \in ReferencesKnown /\ pc \in HierarchyKnown /\ pc \in RelationsKnown /\ pc' \in RelationsKnown
          /\ pc' \notin BeforeVisits \cup ReadingPcs /\ pc # "relations" /\ pc' # "relations"
      BY <2>1, <2>2 DEF RelationsKnown, HierarchyKnown, ReferencesKnown, NodesKnown, Gathering, BeforeVisits, ReadingPcs
    <2>4. ReadRelations' = ReadRelations
      BY <2>1, <2>3 DEF ReadRelations
    <2>5. EdgesGathered' /\ DepthsSettled'
      BY <2>1, <2>3, <2>4, EdgesStay, DepthsStay DEF SizesFollow
    <2>6. NothingVisited'
      BY <2>3 DEF NothingVisited
    <2> QED
      BY <2>2, <2>5, <2>6 DEF SizesFollow
  <1>15. CASE Fail
    BY <1>15, SizesEnd DEF Fail
  <1>16. CASE UNCHANGED vars
    BY <1>16, SizesStay DEF vars
  <1> QED
    BY <1>1, <1>2, <1>3, <1>4, <1>5, <1>6, <1>7, <1>8, <1>9, <1>10, <1>11, <1>12, <1>13, <1>14,
       <1>15, <1>16 DEF Next

LEMMA SizesKnown ==
  ASSUME IInv, SizesFollow
  PROVE  SizesExact
  <1> SUFFICES ASSUME pc = "accepted" PROVE maximum = LargestComponent /\ jobNetworkDepth = LongestChain
    BY DEF SizesExact
  <1>1. pc \in RelationsKnown
    BY DEF RelationsKnown, HierarchyKnown, ReferencesKnown, NodesKnown, Gathering
  <1>2. maximum = LargestComponent
    BY <1>1, LargestIs DEF SizesFollow
  <1>3. pc \in ReferencesKnown /\ settled = Defined
    BY <1>1, AllLinesRead
  <1> QED
    BY <1>2, <1>3, LongestIs DEF SizesFollow

(* The sizes that Validate returns are right for all files: its one pass with numbers,
   links and a stack finds the largest component of the graph that the search expands
   (maxSCCNodes is Tarjan's algorithm), and its settled chains the longest chain of
   networks. *)
THEOREM SizesAreExact == Spec => []SizesExact
  <1>1. Init => SizesIInv
    <2> SUFFICES ASSUME Init PROVE SizesIInv
      OBVIOUS
    <2>1. IInv
      BY FreshIInv DEF Init, Begin, Fresh
    <2>2. pc \notin ReferencesKnown
      BY PcsApart DEF Init, Begin
    <2>3. NothingVisited
      BY DEF Init, Begin, NothingVisited
    <2> QED
      BY <2>1, <2>2, <2>3, NoSizesYet DEF SizesIInv
  <1>2. SizesIInv /\ [Next]_vars => SizesIInv'
    BY NextKeeps, SizesKeep DEF SizesIInv
  <1>3. SizesIInv => SizesExact
    BY SizesKnown DEF SizesIInv
  <1> QED
    BY <1>1, <1>2, <1>3, PTL DEF Spec

--------------------------------------------------------------------------------
(* The faults of a phase, line by line. *)

FaultAt(phase, kind, i) == [phase |-> phase, kind |-> kind, line |-> i]

NodeFault(kind, i) ==
  \/ kind = LineProblem(nodeLines[i])
  \/ kind = "capacity_exceeded" /\ (i > MaxSnapshotNodes \/ Len(LimitsUpTo(i)) > MaxSnapshotLimits)

RepeatsLimit(i) ==
  LET all == LimitsUpTo(i) IN
    \E k \in (Len(all) - Len(nodeLines[i].limits) + 1)..Len(all) : \E j \in 1..(k - 1) : all[j] = all[k]

DuplicateFault(kind, i) ==
  \/ kind = "duplicate_node" /\ i \notin Defining /\ nodeLines[i].parent = Same(i).parent
  \/ kind = "multiple_parents" /\ i \notin Defining /\ nodeLines[i].parent # Same(i).parent
  \/ kind = "duplicate_limit" /\ i \in Defining /\ RepeatsLimit(i)

ParentFault(kind, i) ==
  /\ i \in Parented
  /\ \/ kind = "missing_parent" /\ nodeLines[i].parent \notin Defined
     \/ kind = "invalid_parent_type" /\ nodeLines[i].parent \in Defined /\ Misplaced(nodeLines[i])

RelationFault(kind, i) ==
  \/ kind = "invalid_json" /\ relationLines[i].form \in {"json", "evidence"}
  \/ kind = "schema_violation" /\ relationLines[i].form = "schema"
  \/ kind = "missing_node" /\ {relationLines[i].from, relationLines[i].to} \ Defined # {}
  \/ kind = "capacity_exceeded" /\ i > MaxSnapshotRelations
  \/ kind = "duplicate_relation"
       /\ \E j \in 1..(i - 1) : relationID(relationLines[j]) = relationID(relationLines[i])

FullLines == {i \in Lines : i > MaxSnapshotNodes \/ Len(LimitsUpTo(i)) > MaxSnapshotLimits}
LinesWith(kind) == {i \in Lines : LineProblem(nodeLines[i]) = kind}
LineKinds == {LineProblem(nodeLines[i]) : i \in Lines} \ {None}

LEMMA NodeFaultsAre ==
  \A f : f \in NodeFaults <=> \E i \in Lines : \E kind \in Kinds : f = FaultAt("nodes", kind, i) /\ NodeFault(kind, i)
  <1> DEFINE Of(kind) == FaultsAt(LinesWith(kind), "nodes", kind)
             full == FaultsAt(FullLines, "nodes", "capacity_exceeded")
             broken == UNION {Of(kind) : kind \in LineKinds}
  <1>1. NodeFaults = full \cup broken
    BY DEF NodeFaults, FullLines, LinesWith, LineKinds
  <1>2. \A f, kind : f \in Of(kind) <=> \E i \in Lines : LineProblem(nodeLines[i]) = kind /\ f = FaultAt("nodes", kind, i)
    BY DEF FaultsAt, FaultAt, LinesWith
  <1>3. \A f : f \in full <=> \E i \in FullLines : f = FaultAt("nodes", "capacity_exceeded", i)
    BY DEF FaultsAt, FaultAt
  <1>4. \A f : f \in broken <=> \E kind \in LineKinds : f \in Of(kind)
    OBVIOUS
  <1> HIDE DEF Of, full, broken
  <1>5. \A f : f \in NodeFaults <=> (\E kind \in LineKinds : f \in Of(kind)) \/ f \in full
    BY <1>1, <1>4
  <1>6. \A l : LineProblem(l) \in Kinds \cup {None}
    BY DEF LineProblem, Kinds
  <1>7. \A kind : kind \in LineKinds <=> kind # None /\ \E i \in Lines : LineProblem(nodeLines[i]) = kind
    BY DEF LineKinds
  <1>8. \A i \in Lines : \A kind : NodeFault(kind, i) <=> kind = LineProblem(nodeLines[i]) \/ (kind = "capacity_exceeded" /\ i \in FullLines)
    BY DEF NodeFault, FullLines
  <1>9. "capacity_exceeded" \in Kinds /\ None \notin Kinds /\ FullLines \subseteq Lines
    BY NoneAssumption DEF Kinds, FullLines
  <1>10. ASSUME NEW f \in NodeFaults
         PROVE  \E i \in Lines : \E kind \in Kinds : f = FaultAt("nodes", kind, i) /\ NodeFault(kind, i)
    <2>1. CASE \E kind \in LineKinds : f \in Of(kind)
      <3>1. PICK kind \in LineKinds : f \in Of(kind)
        BY <2>1
      <3>2. PICK i \in Lines : LineProblem(nodeLines[i]) = kind /\ f = FaultAt("nodes", kind, i)
        BY <1>2, <3>1
      <3>3. kind \in Kinds /\ NodeFault(kind, i)
        BY <1>6, <1>7, <1>8, <3>1, <3>2
      <3> QED
        BY <3>2, <3>3
    <2>2. CASE f \in full
      BY <1>3, <1>8, <1>9, <2>2
    <2> QED
      BY <1>5, <2>1, <2>2
  <1>11. ASSUME NEW i \in Lines, NEW kind \in Kinds, NodeFault(kind, i)
         PROVE  FaultAt("nodes", kind, i) \in NodeFaults
    <2>1. CASE kind = LineProblem(nodeLines[i])
      BY <1>2, <1>5, <1>7, <1>9, <2>1
    <2>2. CASE kind = "capacity_exceeded" /\ i \in FullLines
      BY <1>3, <1>5, <2>2
    <2> QED
      BY <1>8, <1>11, <2>1, <2>2
  <1> QED
    BY <1>10, <1>11

LEMMA ReferenceFaultsAre ==
  \A f : f \in ReferenceFaults <=>
    \E i \in Lines : \E kind \in Kinds :
      f = FaultAt("references", kind, i) /\ (DuplicateFault(kind, i) \/ ParentFault(kind, i))
  <1> DEFINE F(S, kind) == FaultsAt(S, "references", kind)
             A == {i \in Lines \ Defining : nodeLines[i].parent = Same(i).parent}
             B == {i \in Lines \ Defining : nodeLines[i].parent # Same(i).parent}
             C == {i \in Defining : LET all == LimitsUpTo(i)
                                        old == Len(all) - Len(nodeLines[i].limits)
                                    IN  \E k \in (old + 1)..Len(all) : \E j \in 1..(k - 1) : all[j] = all[k]}
             D == {i \in Parented : nodeLines[i].parent \notin Defined}
             E == {i \in Parented : nodeLines[i].parent \in Defined /\ Misplaced(nodeLines[i])}
  <1>1. ReferenceFaults = F(A, "duplicate_node") \cup F(B, "multiple_parents") \cup F(C, "duplicate_limit")
                            \cup F(D, "missing_parent") \cup F(E, "invalid_parent_type")
    BY Zenon DEF ReferenceFaults
  <1>2. \A S, kind, f : f \in F(S, kind) <=> \E i \in S : f = FaultAt("references", kind, i)
    BY DEF FaultsAt, FaultAt
  <1>3. Defining \subseteq Lines /\ Parented \subseteq Defining
    BY DEF Defining, Parented
  <1>4. \A i : i \in C <=> i \in Defining /\ RepeatsLimit(i)
    BY Zenon DEF RepeatsLimit
  <1>5. /\ \A i : i \in A <=> i \in Lines /\ i \notin Defining /\ nodeLines[i].parent = Same(i).parent
        /\ \A i : i \in B <=> i \in Lines /\ i \notin Defining /\ nodeLines[i].parent # Same(i).parent
        /\ \A i : i \in D <=> i \in Parented /\ nodeLines[i].parent \notin Defined
        /\ \A i : i \in E <=> i \in Parented /\ nodeLines[i].parent \in Defined /\ Misplaced(nodeLines[i])
    OBVIOUS
  <1> HIDE DEF F, A, B, C, D, E
  <1>6. \A i, kind : (DuplicateFault(kind, i) \/ ParentFault(kind, i)) <=>
          \/ kind = "duplicate_node" /\ i \notin Defining /\ nodeLines[i].parent = Same(i).parent
          \/ kind = "multiple_parents" /\ i \notin Defining /\ nodeLines[i].parent # Same(i).parent
          \/ kind = "duplicate_limit" /\ i \in Defining /\ RepeatsLimit(i)
          \/ kind = "missing_parent" /\ i \in Parented /\ nodeLines[i].parent \notin Defined
          \/ kind = "invalid_parent_type" /\ i \in Parented /\ nodeLines[i].parent \in Defined /\ Misplaced(nodeLines[i])
    BY DEF DuplicateFault, ParentFault
  <1>7. {"duplicate_node", "multiple_parents", "duplicate_limit", "missing_parent", "invalid_parent_type"} \subseteq Kinds
    BY DEF Kinds
  <1>8. \A i \in Lines : \A kind \in Kinds : (DuplicateFault(kind, i) \/ ParentFault(kind, i)) <=>
          \/ kind = "duplicate_node" /\ i \in A
          \/ kind = "multiple_parents" /\ i \in B
          \/ kind = "duplicate_limit" /\ i \in C
          \/ kind = "missing_parent" /\ i \in D
          \/ kind = "invalid_parent_type" /\ i \in E
    BY <1>4, <1>5, <1>6
  <1>9. A \subseteq Lines /\ B \subseteq Lines /\ C \subseteq Lines /\ D \subseteq Lines /\ E \subseteq Lines
    BY <1>3, <1>4, <1>5
  <1>10. \A f : f \in ReferenceFaults <=>
           \/ \E i \in A : f = FaultAt("references", "duplicate_node", i)
           \/ \E i \in B : f = FaultAt("references", "multiple_parents", i)
           \/ \E i \in C : f = FaultAt("references", "duplicate_limit", i)
           \/ \E i \in D : f = FaultAt("references", "missing_parent", i)
           \/ \E i \in E : f = FaultAt("references", "invalid_parent_type", i)
    BY <1>1, <1>2
  <1>11. ASSUME NEW f \in ReferenceFaults
         PROVE  \E i \in Lines : \E kind \in Kinds :
                  f = FaultAt("references", kind, i) /\ (DuplicateFault(kind, i) \/ ParentFault(kind, i))
    BY <1>7, <1>8, <1>9, <1>10
  <1>12. ASSUME NEW i \in Lines, NEW kind \in Kinds, DuplicateFault(kind, i) \/ ParentFault(kind, i)
         PROVE  FaultAt("references", kind, i) \in ReferenceFaults
    BY <1>8, <1>10, <1>12
  <1> QED
    BY <1>11, <1>12

LEMMA RelationFaultsAre ==
  \A f : f \in RelationFaults <=>
    \E i \in DOMAIN relationLines : \E kind \in Kinds : f = FaultAt("relations", kind, i) /\ RelationFault(kind, i)
  <1> DEFINE L == DOMAIN relationLines
             F(S, kind) == FaultsAt(S, "relations", kind)
             Of(form) == {i \in L : relationLines[i].form = form}
             A == {i \in L : {relationLines[i].from, relationLines[i].to} \ Defined # {}}
             B == {i \in L : i > MaxSnapshotRelations}
             C == {i \in L : \E j \in 1..(i - 1) : relationID(relationLines[j]) = relationID(relationLines[i])}
  <1>1. RelationFaults = F(Of("json"), "invalid_json") \cup F(Of("schema"), "schema_violation")
                           \cup F(Of("evidence"), "invalid_json") \cup F(A, "missing_node")
                           \cup F(B, "capacity_exceeded") \cup F(C, "duplicate_relation")
    BY Zenon DEF RelationFaults
  <1>2. \A S, kind, f : f \in F(S, kind) <=> \E i \in S : f = FaultAt("relations", kind, i)
    BY DEF FaultsAt, FaultAt
  <1>3. /\ \A i, form : i \in Of(form) <=> i \in L /\ relationLines[i].form = form
        /\ \A i : i \in A <=> i \in L /\ {relationLines[i].from, relationLines[i].to} \ Defined # {}
        /\ \A i : i \in B <=> i \in L /\ i > MaxSnapshotRelations
        /\ \A i : i \in C <=> i \in L /\ \E j \in 1..(i - 1) : relationID(relationLines[j]) = relationID(relationLines[i])
    OBVIOUS
  <1> HIDE DEF L, F, Of, A, B, C
  <1>4. {"invalid_json", "schema_violation", "missing_node", "capacity_exceeded", "duplicate_relation"} \subseteq Kinds
    BY DEF Kinds
  <1>5. \A i \in L : \A kind : RelationFault(kind, i) <=>
          \/ kind = "invalid_json" /\ (i \in Of("json") \/ i \in Of("evidence"))
          \/ kind = "schema_violation" /\ i \in Of("schema")
          \/ kind = "missing_node" /\ i \in A
          \/ kind = "capacity_exceeded" /\ i \in B
          \/ kind = "duplicate_relation" /\ i \in C
    BY <1>3 DEF RelationFault
  <1>6. \A f : f \in RelationFaults <=>
           \/ \E i \in Of("json") : f = FaultAt("relations", "invalid_json", i)
           \/ \E i \in Of("evidence") : f = FaultAt("relations", "invalid_json", i)
           \/ \E i \in Of("schema") : f = FaultAt("relations", "schema_violation", i)
           \/ \E i \in A : f = FaultAt("relations", "missing_node", i)
           \/ \E i \in B : f = FaultAt("relations", "capacity_exceeded", i)
           \/ \E i \in C : f = FaultAt("relations", "duplicate_relation", i)
    BY <1>1, <1>2
  <1>7. (\A form : Of(form) \subseteq L) /\ A \subseteq L /\ B \subseteq L /\ C \subseteq L
    BY <1>3
  <1>8. ASSUME NEW f \in RelationFaults
        PROVE  \E i \in L : \E kind \in Kinds : f = FaultAt("relations", kind, i) /\ RelationFault(kind, i)
    BY <1>4, <1>5, <1>6, <1>7
  <1>9. ASSUME NEW i \in L, NEW kind \in Kinds, RelationFault(kind, i)
        PROVE  FaultAt("relations", kind, i) \in RelationFaults
    BY <1>5, <1>6, <1>9
  <1> QED
    BY <1>8, <1>9 DEF L

(* The nodes on the circles that the way up from a node comes to. *)
Circle(id) == {m \in Defined : <<id, m>> \in Above /\ <<m, m>> \in Above}
Leading == {i \in Lines : Circle(nodeLines[i].id) # {}}
CircleLines == {i \in Lines : nodeLines[i].id \in Circle(nodeLines[Min(Leading)].id)}

LEMMA HierarchyFaultsAre ==
  HierarchyFaults = IF Leading = {} THEN {} ELSE {FaultAt("hierarchy", "parent_cycle", Min(CircleLines))}
  <1> DEFINE circleOf(id) == {p[2] : p \in {q \in Above : q[1] = id /\ <<q[2], q[2]>> \in Above}}
             leading == {i \in Lines : circleOf(nodeLines[i].id) # {}}
  <1>1. HierarchyFaults = IF leading = {} THEN {}
           ELSE FaultsAt({Min({i \in Lines : nodeLines[i].id \in circleOf(nodeLines[Min(leading)].id)})},
                         "hierarchy", "parent_cycle")
    BY Zenon DEF HierarchyFaults
  <1>2. \A p \in Above : p = <<p[1], p[2]>> /\ p[1] \in Defined /\ p[2] \in Defined
    BY DEF Above, Closure
  <1>3. ASSUME NEW id PROVE circleOf(id) = Circle(id)
    <2>1. ASSUME NEW m \in circleOf(id) PROVE m \in Circle(id)
      BY <1>2, <2>1 DEF Circle
    <2>2. ASSUME NEW m \in Circle(id) PROVE m \in circleOf(id)
      <3> DEFINE q == <<id, m>>
      <3>1. q \in Above /\ q[1] = id /\ q[2] = m /\ <<q[2], q[2]>> \in Above
        BY <2>2 DEF Circle
      <3> HIDE DEF q
      <3> QED
        BY <3>1
    <2> QED
      BY <2>1, <2>2
  <1> HIDE DEF circleOf
  <1>4. leading = Leading
    BY <1>3 DEF Leading
  <1>5. {i \in Lines : nodeLines[i].id \in circleOf(nodeLines[Min(leading)].id)} = CircleLines
    BY <1>3, <1>4 DEF CircleLines
  <1>6. FaultsAt({Min(CircleLines)}, "hierarchy", "parent_cycle") = {FaultAt("hierarchy", "parent_cycle", Min(CircleLines))}
    BY DEF FaultsAt, FaultAt
  <1> HIDE DEF leading
  <1> QED
    BY <1>1, <1>4, <1>5, <1>6

LEMMA FaultsAre ==
  /\ Faults("manifest") = FaultIf(~manifest.valid, "manifest", "invalid")
           \cup FaultIf(manifest.nodeCount > MaxSnapshotNodes \/ manifest.relationCount > MaxSnapshotRelations,
                        "manifest", "capacity_exceeded")
  /\ Faults("nodes") = NodeFaults
  /\ Faults("nodeCount") = FaultIf(manifest.nodeCount # Len(nodeLines), "nodeCount", "node_count_mismatch")
  /\ Faults("references") = ReferenceFaults
  /\ Faults("hierarchy") = HierarchyFaults
  /\ Faults("depth") = FaultIf(LongestChain > MaxJobNetworkDepth, "depth", "capacity_exceeded")
  /\ Faults("relations") = RelationFaults
  /\ Faults("relationCount") =
       FaultIf(manifest.relationCount # Len(relationLines), "relationCount", "relation_count_mismatch")
  /\ Faults("components") = FaultIf(LargestComponent > MaxSCCNodes, "components", "capacity_exceeded")
  BY DEF Faults

--------------------------------------------------------------------------------
(* The files never change, nor do their faults. *)

LEMMA DefiningLines ==
  ASSUME nodeLines \in Seq(NodeLines)
  PROVE  /\ \A id \in Defined : \E i \in Defining : nodeLines[i].id = id
         /\ \A i \in Defining : Definition(nodeLines[i].id) = nodeLines[i]
         /\ \A i, j \in Defining : nodeLines[i].id = nodeLines[j].id => i = j
  <1>1. Lines = 1..Len(nodeLines) /\ Len(nodeLines) \in Nat
    BY DEF Lines
  <1>2. \A i : i \in Defining <=> i \in Lines /\ \A j \in 1..(i - 1) : nodeLines[j].id # nodeLines[i].id
    BY DEF Defining
  <1>3. ASSUME NEW id \in Defined PROVE \E i \in Defining : nodeLines[i].id = id
    <2> DEFINE T == {i \in Lines : nodeLines[i].id = id}
    <2>1. T \in SUBSET Nat /\ T # {}
      BY <1>1 DEF Defined
    <2> HIDE DEF T
    <2>2. PICK i \in T : \A k \in T : i <= k
      BY <2>1, LeastExists
    <2>3. i \in Lines /\ nodeLines[i].id = id
      BY <2>2 DEF T
    <2>4. ASSUME NEW j \in 1..(i - 1) PROVE nodeLines[j].id # id
      BY <1>1, <2>2, <2>3 DEF T
    <2> QED
      BY <1>2, <2>3, <2>4
  <1>4. ASSUME NEW i \in Defining, NEW j \in Defining, nodeLines[i].id = nodeLines[j].id PROVE i = j
    <2>1. i \in 1..Len(nodeLines) /\ j \in 1..Len(nodeLines)
      BY <1>1, <1>2
    <2>2. ~(i < j) /\ ~(j < i)
      BY <1>1, <1>2, <1>4, <2>1
    <2> QED
      BY <1>1, <2>1, <2>2
  <1>5. ASSUME NEW i \in Defining PROVE Definition(nodeLines[i].id) = nodeLines[i]
    BY <1>4 DEF Definition
  <1> QED
    BY <1>3, <1>4, <1>5

LEMMA DefinitionsStay ==
  ASSUME UNCHANGED nodeLines, nodeLines \in Seq(NodeLines)
  PROVE  /\ Lines' = Lines /\ Defining' = Defining /\ Defined' = Defined /\ Parented' = Parented
         /\ \A id \in Defined : Definition(id)' = Definition(id)
         /\ \A i : LimitsUpTo(i)' = LimitsUpTo(i)
  <1>1. Lines' = Lines
    BY DEF Lines
  <1>2. Defining' = Defining
    BY <1>1 DEF Defining
  <1>3. Defined' = Defined
    BY <1>1 DEF Defined
  <1>4. Parented' = Parented
    BY <1>2 DEF Parented
  <1>5. ASSUME NEW id \in Defined PROVE Definition(id)' = Definition(id)
    <2>1. PICK i \in Defining : nodeLines[i].id = id
      BY DefiningLines
    <2>2. (CHOOSE k \in Defining : nodeLines[k].id = id) = i
      BY <2>1, DefiningLines
    <2>3. (CHOOSE k \in Defining : nodeLines[k].id = id)' = i
      BY <1>2, <2>1, DefiningLines
    <2>4. Definition(id) = nodeLines[i]
      BY <2>2 DEF Definition
    <2>5. Definition(id)' = nodeLines'[i]
      BY <2>3 DEF Definition
    <2> QED
      BY <2>4, <2>5
  <1>6. ASSUME NEW i PROVE LimitsUpTo(i)' = LimitsUpTo(i)
    BY DEF LimitsUpTo
  <1> QED
    BY <1>1, <1>2, <1>3, <1>4, <1>5, <1>6

LEMMA NodeFaultStays ==
  ASSUME UNCHANGED nodeLines, nodeLines \in Seq(NodeLines)
  PROVE  /\ \A i, kind : NodeFault(kind, i)' <=> NodeFault(kind, i)
         /\ \A i \in Lines : \A kind : DuplicateFault(kind, i)' <=> DuplicateFault(kind, i)
         /\ \A i \in Lines : \A kind : ParentFault(kind, i)' <=> ParentFault(kind, i)
  <1>1. \A i, kind : NodeFault(kind, i)' <=> NodeFault(kind, i)
    BY DefinitionsStay DEF NodeFault
  <1>2. ASSUME NEW i PROVE RepeatsLimit(i)' <=> RepeatsLimit(i)
    <2> DEFINE Repeats(all, limits) == \E k \in (Len(all) - Len(limits) + 1)..Len(all) : \E j \in 1..(k - 1) : all[j] = all[k]
    <2>1. RepeatsLimit(i) <=> Repeats(LimitsUpTo(i), nodeLines[i].limits)
      BY DEF RepeatsLimit
    <2>2. RepeatsLimit(i)' <=> Repeats(LimitsUpTo(i)', nodeLines'[i].limits)
      BY DEF RepeatsLimit
    <2> HIDE DEF Repeats
    <2> QED
      BY <2>1, <2>2, DefinitionsStay
  <1>3. \A i \in Lines : Same(i)' = Same(i)
    BY DefinitionsStay DEF Same, Defined
  <1>4. \A i \in Lines : \A kind : DuplicateFault(kind, i)' <=> DuplicateFault(kind, i)
    BY <1>2, <1>3, DefinitionsStay DEF DuplicateFault
  <1>5. \A i \in Lines : nodeLines[i].parent \in Defined => (Misplaced(nodeLines[i])' <=> Misplaced(nodeLines[i]))
    BY DefinitionsStay DEF Misplaced, effectiveNodeNamespace
  <1>6. \A i \in Lines : \A kind : ParentFault(kind, i)' <=> ParentFault(kind, i)
    BY <1>5, DefinitionsStay DEF ParentFault
  <1> QED
    BY <1>1, <1>4, <1>6

LEMMA NodeFaultsStay ==
  ASSUME UNCHANGED nodeLines, nodeLines \in Seq(NodeLines)
  PROVE  NodeFaults' = NodeFaults /\ ReferenceFaults' = ReferenceFaults
  <1>1. (\A f : f \in NodeFaults <=> \E i \in Lines : \E kind \in Kinds : f = FaultAt("nodes", kind, i) /\ NodeFault(kind, i))'
    BY NodeFaultsAre, PTL
  <1>2. \A f : f \in NodeFaults' <=> f \in NodeFaults
    BY <1>1, NodeFaultStays, NodeFaultsAre, DefinitionsStay DEF FaultAt
  <1>3. (\A f : f \in ReferenceFaults <=>
          \E i \in Lines : \E kind \in Kinds :
            f = FaultAt("references", kind, i) /\ (DuplicateFault(kind, i) \/ ParentFault(kind, i)))'
    BY ReferenceFaultsAre, PTL
  <1>4. \A f : f \in ReferenceFaults' <=> f \in ReferenceFaults
    BY <1>3, NodeFaultStays, ReferenceFaultsAre, DefinitionsStay DEF FaultAt
  <1> QED
    BY <1>2, <1>4

LEMMA RelationFaultStays ==
  ASSUME UNCHANGED <<nodeLines, relationLines>>, nodeLines \in Seq(NodeLines)
  PROVE  \A i, kind : RelationFault(kind, i)' <=> RelationFault(kind, i)
  BY DefinitionsStay DEF RelationFault, relationID

LEMMA RelationFaultsStay ==
  ASSUME UNCHANGED <<nodeLines, relationLines>>, nodeLines \in Seq(NodeLines)
  PROVE  RelationFaults' = RelationFaults
  <1>2. (\A f : f \in RelationFaults <=>
          \E i \in DOMAIN relationLines : \E kind \in Kinds : f = FaultAt("relations", kind, i) /\ RelationFault(kind, i))'
    BY RelationFaultsAre, PTL
  <1> QED
    BY <1>2, RelationFaultStays, RelationFaultsAre DEF FaultAt

LEMMA ClosureStays ==
  ASSUME UNCHANGED nodeLines, nodeLines \in Seq(NodeLines)
  PROVE  /\ Above' = Above
         /\ HierarchyFaults' = HierarchyFaults
         /\ Networks' = Networks
         /\ LongestChain' = LongestChain
  <1> DEFINE E == {<<nodeLines[i].id, nodeLines[i].parent>> : i \in {j \in Parented : nodeLines[j].parent \in Defined}}
             shut == {S \in SUBSET Defined : \A e \in E : e[1] \in S => e[2] \in S}
  <1>1. E' = E
    BY DefinitionsStay
  <1> HIDE DEF E
  <1>2. shut' = shut
    BY <1>1, DefinitionsStay
  <1>3. Above = {p \in Defined \X Defined : \E e \in E : e[1] = p[1] /\ \A S \in shut : e[2] \in S => p[2] \in S}
    BY DEF Above, Closure, E
  <1>4. Above' = {p \in Defined' \X Defined' : \E e \in E' : e[1] = p[1] /\ \A S \in shut' : e[2] \in S => p[2] \in S}
    BY DEF Above, Closure, E
  <1>5. Above' = Above
    <2> HIDE DEF shut
    <2> QED
      BY <1>1, <1>2, <1>3, <1>4, DefinitionsStay
  <1>6. \A id : Circle(id)' = Circle(id)
    BY <1>5, DefinitionsStay DEF Circle
  <1>7. Leading' = Leading
    BY <1>6, DefinitionsStay DEF Leading
  <1>8. CircleLines' = CircleLines
    BY <1>6, <1>7, DefinitionsStay DEF CircleLines
  <1>9. (HierarchyFaults = IF Leading = {} THEN {} ELSE {FaultAt("hierarchy", "parent_cycle", Min(CircleLines))})'
    BY HierarchyFaultsAre, PTL
  <1>10. HierarchyFaults' = HierarchyFaults
    BY <1>7, <1>8, <1>9, HierarchyFaultsAre DEF FaultAt
  <1>11. Networks' = Networks
    BY DefinitionsStay DEF Networks
  <1>12. LongestChain' = LongestChain
    <2> DEFINE up == {p \in Above : p[2] \in Networks}
               sizes == {1 + Cardinality({p \in up : p[1] = id}) : id \in Networks}
    <2>1. up' = up
      BY <1>5, <1>11
    <2>2. sizes' = sizes
      <3> HIDE DEF up
      <3> QED
        BY <1>11, <2>1
    <2>3. LongestChain = Max({0} \cup sizes)
      BY DEF LongestChain
    <2>4. LongestChain' = Max({0} \cup sizes')
      BY DEF LongestChain
    <2> QED
      BY <2>2, <2>3, <2>4
  <1> QED
    BY <1>5, <1>10, <1>11, <1>12

LEMMA ComponentsStay ==
  ASSUME UNCHANGED <<nodeLines, relationLines>>, nodeLines \in Seq(NodeLines)
  PROVE  LargestComponent' = LargestComponent
  <1> DEFINE type == [n \in Node |-> IF n \in Defined THEN Definition(n).type ELSE "management_unit"]
             up == [n \in Node |-> IF n \in Defined THEN Definition(n).parent ELSE None]
             joins == {<<relationLines[i].from, relationLines[i].to>> : i \in DOMAIN relationLines}
  <1>1. type' = type /\ up' = up
    BY DefinitionsStay
  <1>2. joins' = joins
    OBVIOUS
  <1>3. /\ \A a : Search!Scope(a) = {c \in Node : type[a] = "job_network" /\ up[c] = a /\ type[c] \in {"job", "job_network"}}
        /\ \A a : Search!Dependents(a) = {m \in Node : <<a, m>> \in joins /\ Search!isTraversableType(type[m])}
    BY DEF Search!Scope, Search!Dependents
  <1>4. /\ \A a : Search!Scope(a)' = {c \in Node : type'[a] = "job_network" /\ up'[c] = a /\ type'[c] \in {"job", "job_network"}}
        /\ \A a : Search!Dependents(a)' = {m \in Node : <<a, m>> \in joins' /\ Search!isTraversableType(type'[m])}
    BY DEF Search!Scope, Search!Dependents, Search!isTraversableType
  <1> HIDE DEF type, up, joins
  <1>5. \A a : Search!Scope(a)' = Search!Scope(a) /\ Search!Dependents(a)' = Search!Dependents(a)
    BY <1>1, <1>2, <1>3, <1>4
  <1>6. Expanded' = Expanded
    BY <1>5, DefinitionsStay DEF Expanded
  <1> DEFINE shut == {S \in SUBSET Defined : \A e \in Expanded : e[1] \in S => e[2] \in S}
             reach == Closure(Expanded)
  <1>7. shut' = shut
    BY <1>6, DefinitionsStay
  <1>8. reach = {p \in Defined \X Defined : \E e \in Expanded : e[1] = p[1] /\ \A S \in shut : e[2] \in S => p[2] \in S}
    BY DEF Closure
  <1>9. reach' = {p \in Defined' \X Defined' : \E e \in Expanded' : e[1] = p[1] /\ \A S \in shut' : e[2] \in S => p[2] \in S}
    BY DEF Closure
  <1>10. reach' = reach
    <2> HIDE DEF shut, reach
    <2> QED
      BY <1>6, <1>7, <1>8, <1>9, DefinitionsStay
  <1> DEFINE component(n) == {n} \cup {m \in Defined : {<<n, m>>, <<m, n>>} \subseteq reach}
             sizes == {Cardinality(component(n)) : n \in Defined}
  <1>11. LargestComponent = Max({0} \cup sizes)
    BY Zenon DEF LargestComponent
  <1>12. LargestComponent' = Max({0} \cup sizes')
    BY Zenon DEF LargestComponent
  <1>13. sizes' = sizes
    <2> HIDE DEF reach
    <2> QED
      BY <1>10, DefinitionsStay
  <1> QED
    BY <1>11, <1>12, <1>13

LEMMA FaultsStay ==
  ASSUME UNCHANGED files, nodeLines \in Seq(NodeLines)
  PROVE  \A k \in DOMAIN Phases : Faults(Phases[k])' = Faults(Phases[k])
  <1>2. /\ Faults("manifest")' = Faults("manifest") /\ Faults("nodeCount")' = Faults("nodeCount")
        /\ Faults("relationCount")' = Faults("relationCount")
    BY DEF Faults, FaultIf
  <1>3. Faults("nodes")' = Faults("nodes") /\ Faults("references")' = Faults("references")
    BY NodeFaultsStay DEF Faults
  <1>4. Faults("hierarchy")' = Faults("hierarchy") /\ Faults("depth")' = Faults("depth")
    BY ClosureStays DEF Faults, FaultIf
  <1>5. Faults("relations")' = Faults("relations") /\ Faults("components")' = Faults("components")
    BY RelationFaultsStay, ComponentsStay DEF Faults, FaultIf
  <1> QED
    BY <1>2, <1>3, <1>4, <1>5 DEF Phases

--------------------------------------------------------------------------------
(* The limits of the lines, one line after the other. *)

FlattenedBy(f, seqs, X) ==
  /\ f \in [1..Len(seqs) -> Seq(X)]
  /\ FlattenSeq(seqs) = f[Len(seqs)]
  /\ \A i \in 1..Len(seqs) : f[i] = IF i = 1 THEN seqs[i] ELSE f[i - 1] \o seqs[i]

LEMMA FlattenSomehow ==
  ASSUME NEW X, NEW seqs \in Seq(Seq(X)), seqs # <<>>
  PROVE  \E f : FlattenedBy(f, seqs, X)
  <1>1. PICK f \in [1..Len(seqs) -> Seq(X)] :
          /\ FlattenSeq(seqs) = f[Len(seqs)]
          /\ \A i \in 1..Len(seqs) : f[i] = IF i = 1 THEN seqs[i] ELSE f[i - 1] \o seqs[i]
    BY FlattenSteps
  <1>2. FlattenedBy(f, seqs, X)
    BY <1>1 DEF FlattenedBy
  <1> QED
    BY <1>2

LEMMA FlattenGrows ==
  ASSUME NEW X, NEW n \in Nat, NEW seqs \in Seq(Seq(X)), NEW less \in Seq(Seq(X)),
         Len(seqs) = n + 1, Len(less) = n, \A i \in 1..n : less[i] = seqs[i]
  PROVE  FlattenSeq(less) \in Seq(X) /\ FlattenSeq(seqs) = FlattenSeq(less) \o seqs[n + 1]
  <1>0. PICK f : FlattenedBy(f, seqs, X)
    <2>1. seqs # <<>>
      OBVIOUS
    <2> QED
      BY <2>1, FlattenSomehow, Zenon
  <1>1. /\ f \in [1..(n + 1) -> Seq(X)]
        /\ FlattenSeq(seqs) = f[n + 1]
        /\ \A i \in 1..(n + 1) : f[i] = IF i = 1 THEN seqs[i] ELSE f[i - 1] \o seqs[i]
    BY <1>0 DEF FlattenedBy
  <1>2. CASE n = 0
    <2>1. less = <<>>
      BY <1>2
    <2>2. FlattenSeq(less) = <<>>
      BY <2>1, Zenon DEF FlattenSeq
    <2>3. f[1] = seqs[1] /\ seqs[1] \in Seq(X)
      BY <1>1, <1>2
    <2> QED
      BY <1>1, <1>2, <2>2, <2>3
  <1>3. CASE n # 0
    <2>0. PICK g : FlattenedBy(g, less, X)
      <3>1. less # <<>>
        BY <1>3
      <3> QED
        BY <3>1, FlattenSomehow, Zenon
    <2>1. /\ g \in [1..n -> Seq(X)]
          /\ FlattenSeq(less) = g[n]
          /\ \A i \in 1..n : g[i] = IF i = 1 THEN less[i] ELSE g[i - 1] \o less[i]
      BY <2>0 DEF FlattenedBy
    <2> DEFINE K == {k \in Nat : k + 1 <= n => f[k + 1] = g[k + 1]}
    <2>2. 0 \in K
      BY <1>1, <1>3, <2>1
    <2>3. ASSUME NEW k \in Nat, k \in K PROVE k + 1 \in K
      <3>1. SUFFICES ASSUME (k + 1) + 1 <= n PROVE f[(k + 1) + 1] = g[(k + 1) + 1]
        OBVIOUS
      <3>2. /\ (k + 1) + 1 = k + 2
            /\ k + 2 \in 1..n /\ k + 2 \in 1..(n + 1) /\ k + 2 # 1 /\ (k + 2) - 1 = k + 1
        BY <3>1
      <3>3. f[k + 1] = g[k + 1]
        BY <2>3, <3>1
      <3>4. f[k + 2] = f[k + 1] \o seqs[k + 2]
        BY <1>1, <3>2
      <3>5. g[k + 2] = g[k + 1] \o less[k + 2]
        BY <2>1, <3>2
      <3> QED
        BY <3>2, <3>3, <3>4, <3>5
    <2>4. n - 1 \in K
      <3> HIDE DEF K
      <3>1. Nat \subseteq K
        BY <2>2, <2>3, SetInduction
      <3> QED
        BY <1>3, <3>1
    <2>5. f[n] = g[n]
      BY <1>3, <2>4
    <2>6. f[n + 1] = f[n] \o seqs[n + 1] /\ g[n] \in Seq(X)
      <3>1. n + 1 \in 1..(n + 1) /\ n + 1 # 1 /\ (n + 1) - 1 = n /\ n \in 1..n
        BY <1>3
      <3> QED
        BY <1>1, <2>1, <3>1
    <2> QED
      BY <1>1, <2>1, <2>5, <2>6
  <1> QED
    BY <1>2, <1>3

LEMMA LimitsGrow ==
  ASSUME nodeLines \in Seq(NodeLines), NEW n \in Nat, n < Len(nodeLines)
  PROVE  /\ nodeLines[n + 1].limits \in Seq(Limit)
         /\ LimitsUpTo(n) \in Seq(Limit)
         /\ LimitsUpTo(n + 1) \in Seq(Limit)
         /\ LimitsUpTo(n + 1) = LimitsUpTo(n) \o nodeLines[n + 1].limits
  <1> DEFINE upto(k) == [j \in 1..k |-> nodeLines[j].limits]
  <1>1. ASSUME NEW j \in 1..(n + 1) PROVE nodeLines[j].limits \in Seq(Limit)
    <2>1. j \in 1..Len(nodeLines)
      OBVIOUS
    <2>2. nodeLines[j] \in NodeLines
      BY <2>1
    <2> QED
      BY <2>2 DEF NodeLines
  <1>2. upto(n) \in Seq(Seq(Limit)) /\ Len(upto(n)) = n
    BY <1>1
  <1>3. upto(n + 1) \in Seq(Seq(Limit)) /\ Len(upto(n + 1)) = n + 1
    BY <1>1
  <1>4. (\A i \in 1..n : upto(n)[i] = upto(n + 1)[i]) /\ upto(n + 1)[n + 1] = nodeLines[n + 1].limits
    OBVIOUS
  <1>5. LimitsUpTo(n) = FlattenSeq(upto(n)) /\ LimitsUpTo(n + 1) = FlattenSeq(upto(n + 1))
    BY DEF LimitsUpTo
  <1> HIDE DEF upto
  <1>6. FlattenSeq(upto(n)) \in Seq(Limit) /\ FlattenSeq(upto(n + 1)) = FlattenSeq(upto(n)) \o upto(n + 1)[n + 1]
    BY <1>2, <1>3, <1>4, FlattenGrows, ZenonT(40)
  <1>7. n + 1 \in 1..(n + 1)
    OBVIOUS
  <1>8. nodeLines[n + 1].limits \in Seq(Limit)
    BY <1>1, <1>7
  <1> DEFINE s == FlattenSeq(upto(n))
             t == nodeLines[n + 1].limits
  <1>9. s \in Seq(Limit) /\ t \in Seq(Limit) /\ FlattenSeq(upto(n + 1)) = s \o t
    BY <1>4, <1>6, <1>8
  <1> HIDE DEF s, t
  <1>10. FlattenSeq(upto(n + 1)) \in Seq(Limit)
    <2>1. s \in Seq(Limit) /\ t \in Seq(Limit)
      BY <1>9
    <2>2. s \o t \in Seq(Limit)
      BY <2>1
    <2> QED
      BY <1>9, <2>2
  <1> QED
    BY <1>5, <1>9, <1>10 DEF s, t

LEMMA LimitsOfNone == LimitsUpTo(0) = <<>>
  <1>1. [j \in 1..0 |-> nodeLines[j].limits] = <<>>
    OBVIOUS
  <1>2. FlattenSeq(<<>>) = <<>>
    BY Zenon DEF FlattenSeq
  <1> QED
    BY <1>1, <1>2 DEF LimitsUpTo

LEMMA LimitsAre ==
  ASSUME nodeLines \in Seq(NodeLines), NEW n \in Nat, n <= Len(nodeLines)
  PROVE  LimitsUpTo(n) \in Seq(Limit) /\ ToSet(LimitsUpTo(n)) = UNION {ToSet(nodeLines[i].limits) : i \in 1..n}
  <1> DEFINE K == {k \in Nat : k <= Len(nodeLines) =>
                     /\ LimitsUpTo(k) \in Seq(Limit)
                     /\ ToSet(LimitsUpTo(k)) = UNION {ToSet(nodeLines[i].limits) : i \in 1..k}}
  <1>1. 0 \in K
    <2>1. <<>> \in Seq(Limit) /\ ToSet(<<>>) = {}
      BY DEF ToSet
    <2>2. UNION {ToSet(nodeLines[i].limits) : i \in 1..0} = {}
      OBVIOUS
    <2> QED
      BY <2>1, <2>2, LimitsOfNone
  <1>2. ASSUME NEW k \in Nat, k \in K PROVE k + 1 \in K
    <2>1. SUFFICES ASSUME k + 1 <= Len(nodeLines)
                   PROVE  /\ LimitsUpTo(k + 1) \in Seq(Limit)
                          /\ ToSet(LimitsUpTo(k + 1)) = UNION {ToSet(nodeLines[i].limits) : i \in 1..(k + 1)}
      OBVIOUS
    <2>2. k < Len(nodeLines) /\ k <= Len(nodeLines) /\ Len(nodeLines) \in Nat
      BY <2>1
    <2>3. /\ LimitsUpTo(k) \in Seq(Limit) /\ LimitsUpTo(k + 1) \in Seq(Limit) /\ nodeLines[k + 1].limits \in Seq(Limit)
          /\ LimitsUpTo(k + 1) = LimitsUpTo(k) \o nodeLines[k + 1].limits
      BY <2>2, LimitsGrow
    <2>4. ToSet(LimitsUpTo(k)) = UNION {ToSet(nodeLines[i].limits) : i \in 1..k}
      BY <1>2, <2>2
    <2>5. ToSet(LimitsUpTo(k + 1)) = ToSet(LimitsUpTo(k)) \cup ToSet(nodeLines[k + 1].limits)
      <3> DEFINE so == LimitsUpTo(k)
                 on == nodeLines[k + 1].limits
      <3>1. so \in Seq(Limit) /\ on \in Seq(Limit) /\ LimitsUpTo(k + 1) = so \o on
        BY <2>3
      <3> HIDE DEF so, on
      <3>2. ToSet(so \o on) = ToSet(so) \cup ToSet(on)
        BY <3>1, ConcatSet
      <3> QED
        BY <3>1, <3>2 DEF so, on
    <2>6. 1..(k + 1) = 1..k \cup {k + 1}
      OBVIOUS
    <2>7. UNION {ToSet(nodeLines[i].limits) : i \in 1..(k + 1)}
            = (UNION {ToSet(nodeLines[i].limits) : i \in 1..k}) \cup ToSet(nodeLines[k + 1].limits)
      BY <2>6
    <2>8. LimitsUpTo(k + 1) \in Seq(Limit)
      BY <2>3
    <2> QED
      BY <2>4, <2>5, <2>7, <2>8
  <1> HIDE DEF K
  <1>3. n \in K
    BY <1>1, <1>2, SetInduction
  <1> QED
    BY <1>3 DEF K

(* A limit of a line is met again exactly if the limits so far hold it, or the line itself twice. *)
LEMMA RepeatsIs ==
  ASSUME nodeLines \in Seq(NodeLines), NEW n \in Nat, n < Len(nodeLines)
  PROVE  RepeatsLimit(n + 1) <=>
           \/ ToSet(nodeLines[n + 1].limits) \cap ToSet(LimitsUpTo(n)) # {}
           \/ ~IsInjective(nodeLines[n + 1].limits)
  <1> DEFINE s == LimitsUpTo(n)
             t == nodeLines[n + 1].limits
             all == LimitsUpTo(n + 1)
             a == Len(s)
             b == Len(t)
  <1>1. s \in Seq(Limit) /\ t \in Seq(Limit) /\ all = s \o t
    BY LimitsGrow
  <1>2. RepeatsLimit(n + 1) <=> \E k \in (Len(all) - Len(t) + 1)..Len(all) : \E j \in 1..(k - 1) : all[j] = all[k]
    BY DEF RepeatsLimit
  <1> HIDE DEF s, t, all
  <1>3. /\ a \in Nat /\ b \in Nat /\ Len(all) = a + b /\ Len(all) - Len(t) = a
        /\ DOMAIN s = 1..a /\ DOMAIN t = 1..b
        /\ \A i \in 1..a : all[i] = s[i]
        /\ \A i \in 1..b : all[a + i] = t[i]
    BY <1>1
  <1>4. RepeatsLimit(n + 1) <=> \E k \in (a + 1)..(a + b) : \E j \in 1..(k - 1) : all[j] = all[k]
    BY <1>2, <1>3
  <1> HIDE DEF a, b
  <1>5. ASSUME NEW k \in (a + 1)..(a + b), NEW j \in 1..(k - 1), all[j] = all[k]
        PROVE  ToSet(t) \cap ToSet(s) # {} \/ ~IsInjective(t)
    <2>0. a \in Nat /\ b \in Nat
      BY <1>3
    <2>1. k - a \in 1..b /\ a + (k - a) = k
      BY <2>0
    <2>2. all[k] = t[k - a]
      BY <1>3, <2>1
    <2>3. CASE j <= a
      <3>1. j \in 1..a
        BY <1>3, <2>3
      <3>2. all[j] = s[j]
        BY <1>3, <3>1
      <3>3. t[k - a] \in ToSet(t) /\ s[j] \in ToSet(s)
        BY <1>3, <2>1, <3>1 DEF ToSet
      <3> QED
        BY <1>5, <2>2, <3>2, <3>3
    <2>4. CASE ~(j <= a)
      <3>1. j - a \in 1..b /\ a + (j - a) = j /\ j - a # k - a
        BY <1>3, <2>4
      <3>2. all[j] = t[j - a]
        BY <1>3, <3>1
      <3> QED
        BY <1>3, <1>5, <2>1, <2>2, <3>1, <3>2 DEF IsInjective
    <2> QED
      BY <2>3, <2>4
  <1>6. ASSUME ToSet(t) \cap ToSet(s) # {}
        PROVE  \E k \in (a + 1)..(a + b) : \E j \in 1..(k - 1) : all[j] = all[k]
    <2>1. PICK x : x \in ToSet(t) /\ x \in ToSet(s)
      BY <1>6
    <2>2. PICK i \in 1..b : t[i] = x
      BY <1>3, <2>1 DEF ToSet
    <2>3. PICK j \in 1..a : s[j] = x
      BY <1>3, <2>1 DEF ToSet
    <2>4. a + i \in (a + 1)..(a + b) /\ j \in 1..((a + i) - 1)
      BY <1>3
    <2>5. all[j] = all[a + i]
      BY <1>3, <2>2, <2>3
    <2> QED
      BY <2>4, <2>5
  <1>7. ASSUME ~IsInjective(t)
        PROVE  \E k \in (a + 1)..(a + b) : \E j \in 1..(k - 1) : all[j] = all[k]
    <2>1. PICK i \in 1..b, j \in 1..b : t[i] = t[j] /\ i # j
      BY <1>3, <1>7 DEF IsInjective
    <2>2. all[a + i] = all[a + j]
      BY <1>3, <2>1
    <2>3. CASE i < j
      <3>1. a + j \in (a + 1)..(a + b) /\ a + i \in 1..((a + j) - 1)
        BY <1>3, <2>3
      <3> QED
        BY <2>2, <3>1
    <2>4. CASE j < i
      <3>1. a + i \in (a + 1)..(a + b) /\ a + j \in 1..((a + i) - 1)
        BY <1>3, <2>4
      <3> QED
        BY <2>2, <3>1
    <2> QED
      BY <2>1, <2>3, <2>4
  <1> QED
    BY <1>4, <1>5, <1>6, <1>7 DEF s, t

--------------------------------------------------------------------------------
(* What is known of the faults in each phase: those before it have none, nor have
   the lines that it is done with. *)

Clear(n) == \A j \in 1..n : Faults(Phases[j]) = {}
FirstFault(e) ==
  \E k \in DOMAIN Phases :
    /\ e \in Faults(Phases[k])
    /\ \A f \in Faults(Phases[k]) : e.line <= f.line
    /\ Clear(k - 1)

PhasesBefore ==
  /\ pc = "nodes" => Clear(1)
  /\ pc = "references" => Clear(3)
  /\ pc = "hierarchy" => Clear(4)
  /\ pc = "relations" => Clear(6)
  /\ pc = "components" => Clear(8)
  /\ pc = "accepted" => Clear(9)
  /\ pc = "rejected" => FirstFault(error)

LinesBefore ==
  /\ pc = "nodes" => \A i \in 1..line : \A kind \in Kinds : ~NodeFault(kind, i)
  /\ pc = "relations" => \A i \in 1..line : \A kind \in Kinds : ~RelationFault(kind, i)

(* A node is known by the first of its lines, and the nodes are in the order of these. *)
NodesNumbered ==
  /\ pc \in {"manifest"} \cup ReadingPcs => limitCount = 0
  /\ pc = "nodes" => limitCount = Len(LimitsUpTo(line))
  /\ pc \in {"nodes", "references", "hierarchy"} =>
       /\ \A id \in DOMAIN nodeByID : /\ nodeByID[id].line \in ReadLines \cap Defining
                                      /\ nodeLines[nodeByID[id].line].id = id
                                      /\ OfLine(nodeByID[id], nodeByID[id].line)
       /\ \A a, b \in DOMAIN orderedNodeIDs :
            a < b => nodeByID[orderedNodeIDs[a]].line < nodeByID[orderedNodeIDs[b]].line

FirstDuplicate ==
  pc \in {"nodes", "references"} =>
    /\ duplicateErr = None => \A i \in ReadLines : \A kind \in Kinds : ~DuplicateFault(kind, i)
    /\ duplicateErr # None =>
         /\ duplicateErr.line \in ReadLines
         /\ duplicateErr.kind \in Kinds
         /\ DuplicateFault(duplicateErr.kind, duplicateErr.line)
         /\ \A i \in 1..(duplicateErr.line - 1) : \A kind \in Kinds : ~DuplicateFault(kind, i)

(* The chain starts at the unsettled node with the least line. *)
ChainBegins ==
  pc = "hierarchy" =>
    /\ path # <<>> => Unsettled # {} /\ path[1] = orderedNodeIDs[Min(Unsettled)]
    /\ path = <<>> /\ current # None => Unsettled # {} /\ current = orderedNodeIDs[Min(Unsettled)]

FirstFollows == PhasesBefore /\ LinesBefore /\ NodesNumbered /\ FirstDuplicate /\ ChainBegins

LEMMA PhasesAre ==
  /\ DOMAIN Phases = 1..9
  /\ Phases[1] = "manifest" /\ Phases[2] = "nodes" /\ Phases[3] = "nodeCount"
  /\ Phases[4] = "references" /\ Phases[5] = "hierarchy" /\ Phases[6] = "depth"
  /\ Phases[7] = "relations" /\ Phases[8] = "relationCount" /\ Phases[9] = "components"
  BY DEF Phases

LEMMA FaultIfIs ==
  ASSUME NEW c, NEW phase, NEW kind
  PROVE  \A f : f \in FaultIf(c, phase, kind) <=> c /\ f = FaultAt(phase, kind, 0)
  BY DEF FaultIf, FaultAt

LEMMA FirstFaultIs ==
  ASSUME NEW n \in 1..9, NEW e \in Faults(Phases[n]), \A f \in Faults(Phases[n]) : e.line <= f.line, Clear(n - 1)
  PROVE  FirstFault(e)
  BY PhasesAre DEF FirstFault

(* A phase without a fault is cleared, too. *)
LEMMA ClearNext ==
  ASSUME NEW n \in 1..9, Clear(n - 1), Faults(Phases[n]) = {}
  PROVE  Clear(n)
  BY DEF Clear

(* A phase that has no fault but one without a line. *)
LEMMA OneFault ==
  ASSUME NEW n \in 1..9, Clear(n - 1), NEW phase, Phases[n] = phase, NEW kind,
         \A f : f \in Faults(Phases[n]) <=> f = FaultAt(phase, kind, 0)
  PROVE  FirstFault(FaultAt(phase, kind, 0))
  <1> DEFINE e == FaultAt(phase, kind, 0)
  <1>1. e \in Faults(Phases[n]) /\ (\A f \in Faults(Phases[n]) : f = e) /\ e.line = 0
    BY DEF FaultAt
  <1> HIDE DEF e
  <1>2. \A f \in Faults(Phases[n]) : e.line <= f.line
    BY <1>1
  <1>3. FirstFault(e)
    BY <1>1, <1>2, FirstFaultIs
  <1> QED
    BY <1>3 DEF e

LEMMA ClearStays ==
  ASSUME UNCHANGED files, nodeLines \in Seq(NodeLines)
  PROVE  \A n \in 0..9 : Clear(n)' <=> Clear(n)
  <1>1. \A k \in 1..9 : Faults(Phases[k])' = Faults(Phases[k])
    BY FaultsStay, PhasesAre
  <1>2. ASSUME NEW n \in 0..9 PROVE Clear(n)' <=> Clear(n)
    <2>1. \A j \in 1..n : j \in 1..9
      OBVIOUS
    <2>2. Clear(n) <=> \A j \in 1..n : Faults(Phases[j]) = {}
      BY DEF Clear
    <2>3. Clear(n)' <=> \A j \in 1..n : Faults(Phases[j])' = {}
      BY DEF Clear
    <2> QED
      BY <1>1, <2>1, <2>2, <2>3
  <1> QED
    BY <1>2

LEMMA FirstFaultStays ==
  ASSUME UNCHANGED files, nodeLines \in Seq(NodeLines), FirstFault(error')
  PROVE  FirstFault(error)'
  <1> DEFINE e == error'
  <1>1. PICK k \in 1..9 : e \in Faults(Phases[k]) /\ (\A f \in Faults(Phases[k]) : e.line <= f.line) /\ Clear(k - 1)
    BY PhasesAre DEF FirstFault
  <1>2. Faults(Phases[k])' = Faults(Phases[k]) /\ Clear(k - 1)'
    BY <1>1, FaultsStay, PhasesAre, ClearStays
  <1>3. error' \in Faults(Phases[k])' /\ (\A f \in Faults(Phases[k])' : error'.line <= f.line) /\ Clear(k - 1)'
    BY <1>1, <1>2
  <1> QED
    BY <1>3, PhasesAre DEF FirstFault

(* Nothing but the error matters of what is rejected, and nothing of what has failed. *)
LEMMA FirstRejects ==
  ASSUME UNCHANGED files, nodeLines \in Seq(NodeLines), FirstFault(error'), pc' = "rejected"
  PROVE  FirstFollows'
  <1>1. FirstFault(error)'
    BY FirstFaultStays
  <1>2. PhasesBefore'
    BY <1>1 DEF PhasesBefore
  <1> QED
    BY <1>2 DEF FirstFollows, LinesBefore, NodesNumbered, FirstDuplicate, ChainBegins, ReadingPcs

LEMMA FirstEnds ==
  ASSUME pc' \in {"failed", "loaded"}
  PROVE  FirstFollows'
  BY DEF FirstFollows, PhasesBefore, LinesBefore, NodesNumbered, FirstDuplicate, ChainBegins, ReadingPcs

LEMMA ReadWithin ==
  ASSUME IInv
  PROVE  /\ Lines = 1..Len(nodeLines) /\ Len(nodeLines) \in Nat
         /\ ReadLines \subseteq Lines
         /\ \A i \in ReadLines : i \in Nat /\ \A j \in 1..(i - 1) : j \in Lines /\ j < i
  <1>1. Lines = 1..Len(nodeLines) /\ Len(nodeLines) \in Nat
    BY DEF IInv, Typed, Lines
  <1>2. pc = "nodes" => line \in Nat /\ line <= Len(nodeLines)
    BY DEF IInv, Typed
  <1>3. ReadLines \subseteq Lines
    BY <1>1, <1>2 DEF ReadLines, Lines
  <1>4. ASSUME NEW i \in ReadLines PROVE i \in Nat /\ \A j \in 1..(i - 1) : j \in Lines /\ j < i
    BY <1>1, <1>3
  <1> QED
    BY <1>1, <1>3, <1>4

LEMMA FirstDuplicateStays ==
  ASSUME IInv, FirstDuplicate, UNCHANGED <<files, duplicateErr>>, ReadLines' = ReadLines, pc \in {"nodes", "references"}
  PROVE  FirstDuplicate'
  <1>1. \A i \in Lines : \A kind : DuplicateFault(kind, i)' <=> DuplicateFault(kind, i)
    BY NodeFaultStays DEF IInv, Typed
  <1>2. ASSUME duplicateErr = None PROVE \A i \in ReadLines : \A kind \in Kinds : ~DuplicateFault(kind, i)'
    BY <1>1, <1>2, ReadWithin DEF FirstDuplicate
  <1> DEFINE d == duplicateErr.line
  <1>3. ASSUME duplicateErr # None
        PROVE  /\ d \in ReadLines /\ duplicateErr.kind \in Kinds /\ DuplicateFault(duplicateErr.kind, d)'
               /\ \A i \in 1..(d - 1) : \A kind \in Kinds : ~DuplicateFault(kind, i)'
    BY <1>1, <1>3, ReadWithin DEF FirstDuplicate
  <1> QED
    BY <1>2, <1>3 DEF FirstDuplicate

LEMMA FirstStays ==
  ASSUME IInv, FirstFollows, UNCHANGED <<files, pc, line, error, gathered, hierarchy>>
  PROVE  FirstFollows'
  <1>0. nodeLines \in Seq(NodeLines)
    BY DEF IInv, Typed
  <1>1. PhasesBefore'
    BY <1>0, ClearStays, FirstFaultStays DEF FirstFollows, PhasesBefore
  <1>2. LinesBefore'
    BY <1>0, NodeFaultStays, RelationFaultStays DEF FirstFollows, LinesBefore
  <1>3. ReadLines' = ReadLines /\ Defining' = Defining /\ Unsettled' = Unsettled
    BY <1>0, DefinitionsStay DEF ReadLines, Unsettled, settled
  <1>4. NodesNumbered'
    BY <1>3 DEF LimitsUpTo, FirstFollows, NodesNumbered, OfLine
  <1>5. FirstDuplicate'
    BY <1>3, FirstDuplicateStays DEF FirstFollows, FirstDuplicate
  <1>6. ChainBegins'
    BY <1>3 DEF FirstFollows, ChainBegins
  <1> QED
    BY <1>1, <1>2, <1>4, <1>5, <1>6 DEF FirstFollows

--------------------------------------------------------------------------------
(* manifest.json and nodes.ndjson. *)

LEMMA ReadManifestFirst ==
  ASSUME IInv, FirstFollows, ReadManifest
  PROVE  FirstFollows'
  <1> DEFINE full == manifest.nodeCount > MaxSnapshotNodes \/ manifest.relationCount > MaxSnapshotRelations
             kind == IF manifest.valid THEN "capacity_exceeded" ELSE "invalid"
             e == FaultAt("manifest", kind, 0)
  <1>0. pc = "manifest" /\ UNCHANGED <<files, gathered, hierarchy>> /\ nodeLines \in Seq(NodeLines)
    BY DEF ReadManifest, IInv, Typed
  <1>1. \A f : f \in Faults(Phases[1]) <=> \/ ~manifest.valid /\ f = FaultAt("manifest", "invalid", 0)
                                           \/ full /\ f = FaultAt("manifest", "capacity_exceeded", 0)
    <2> HIDE DEF full
    <2>1. Faults(Phases[1]) = FaultIf(~manifest.valid, "manifest", "invalid") \cup FaultIf(full, "manifest", "capacity_exceeded")
      BY FaultsAre, PhasesAre DEF full
    <2>2. \A f : f \in FaultIf(~manifest.valid, "manifest", "invalid") <=> ~manifest.valid /\ f = FaultAt("manifest", "invalid", 0)
      BY FaultIfIs
    <2>3. \A f : f \in FaultIf(full, "manifest", "capacity_exceeded") <=> full /\ f = FaultAt("manifest", "capacity_exceeded", 0)
      BY FaultIfIs
    <2> QED
      BY <2>1, <2>2, <2>3
  <1>2. Clear(0)
    BY DEF Clear
  <1>3. CASE ~manifest.valid \/ full
    <2>1. pc' = "rejected" /\ error' = e
      BY <1>3 DEF ReadManifest, Reject, FaultAt
    <2>2. e \in Faults(Phases[1])
      BY <1>1, <1>3
    <2>3. e.line = 0 /\ \A f \in Faults(Phases[1]) : f.line = 0
      BY <1>1 DEF FaultAt
    <2> HIDE DEF e
    <2>4. FirstFault(e)
      BY <1>2, <2>2, <2>3, FirstFaultIs
    <2> QED
      BY <1>0, <2>1, <2>4, FirstRejects
  <1>4. CASE ~(~manifest.valid \/ full)
    <2>1. pc' = "nodes" /\ line' = 0
      BY <1>4 DEF ReadManifest, Goes
    <2>2. Clear(1)
      BY <1>1, <1>2, <1>4, ClearNext
    <2>3. Clear(1)'
      BY <1>0, <2>2, ClearStays
    <2>4. PhasesBefore' /\ ChainBegins'
      BY <2>1, <2>3 DEF PhasesBefore, ChainBegins
    <2>5. ReadLines' = {} /\ ReadLines = {}
      BY <1>0, <2>1 DEF ReadLines, NodesKnown, Gathering
    <2>6. LinesBefore'
      BY <2>1 DEF LinesBefore
    <2>7. DOMAIN nodeByID = {} /\ orderedNodeIDs \in Seq(Node) /\ ToSet(orderedNodeIDs) = {} /\ duplicateErr = None
      BY <1>0, <2>5 DEF IInv, NodesGathered, Gathering, ReferencesChecked
    <2>8. DOMAIN orderedNodeIDs = {}
      BY <2>7 DEF ToSet
    <2>9. limitCount = 0
      BY <1>0 DEF FirstFollows, NodesNumbered
    <2>10. LimitsUpTo(line)' = <<>>
      <3>1. (LimitsUpTo(0) = <<>>)'
        BY LimitsOfNone, PTL
      <3>2. LimitsUpTo(line)' = LimitsUpTo(0)'
        BY <2>1 DEF LimitsUpTo
      <3> QED
        BY <3>1, <3>2
    <2>11. NodesNumbered'
      BY <1>0, <2>1, <2>7, <2>8, <2>9, <2>10 DEF NodesNumbered, ReadingPcs
    <2>12. FirstDuplicate'
      BY <1>0, <2>5, <2>7 DEF FirstDuplicate
    <2> QED
      BY <2>4, <2>6, <2>11, <2>12 DEF FirstFollows
  <1> QED
    BY <1>3, <1>4

(* The next line is at fault if the line has a problem or there is no room for it. *)
LEMMA NextNodeFault ==
  ASSUME IInv, NodesNumbered, pc = "nodes", line < Len(nodeLines), NEW kind \in Kinds
  PROVE  NodeFault(kind, line + 1) <=>
           \/ kind = LineProblem(nodeLines[line + 1])
           \/ kind = "capacity_exceeded" /\ NodesFull(nodeLines[line + 1])
  <1> DEFINE t == nodeLines[line + 1].limits
             s == LimitsUpTo(line)
             u == LimitsUpTo(line + 1)
  <1>1. line \in Nat /\ limitCount = Len(s)
    BY DEF IInv, Typed, NodesNumbered
  <1>2. s \in Seq(Limit) /\ t \in Seq(Limit) /\ u = s \o t
    BY <1>1, LimitsGrow DEF IInv, Typed
  <1> HIDE DEF s, t, u
  <1>3. Len(u) = Len(s) + Len(t) /\ Len(s) \in Nat /\ Len(t) \in Nat
    BY <1>2
  <1>4. MaxSnapshotLimits \in Nat
    BY MaximaAssumption
  <1>5. Len(u) > MaxSnapshotLimits <=> Len(t) > MaxSnapshotLimits - limitCount
    BY <1>1, <1>3, <1>4
  <1> QED
    BY <1>5 DEF NodeFault, NodesFull, u, t

LEMMA NextNodeRejected ==
  ASSUME IInv, FirstFollows, pc = "nodes", line < Len(nodeLines), NEW kind \in Kinds, NodeFault(kind, line + 1)
  PROVE  FirstFault(FaultAt("nodes", kind, line + 1))
  <1> DEFINE e == FaultAt("nodes", kind, line + 1)
  <1>1. line \in Nat /\ line + 1 \in Lines /\ Lines = 1..Len(nodeLines)
    BY ReadWithin DEF IInv, Typed
  <1>2. e \in NodeFaults /\ e.line = line + 1
    BY <1>1, NodeFaultsAre DEF FaultAt
  <1>3. ASSUME NEW f \in NodeFaults PROVE line + 1 <= f.line
    <2>1. PICK i \in Lines : \E k \in Kinds : f = FaultAt("nodes", k, i) /\ NodeFault(k, i)
      BY NodeFaultsAre
    <2>2. i \notin 1..line
      BY <2>1 DEF FirstFollows, LinesBefore
    <2>3. f.line = i
      BY <2>1 DEF FaultAt
    <2> QED
      BY <1>1, <2>2, <2>3
  <1>4. Clear(1)
    BY DEF FirstFollows, PhasesBefore
  <1>5. Faults(Phases[2]) = NodeFaults
    BY FaultsAre, PhasesAre
  <1> HIDE DEF e
  <1>6. FirstFault(e)
    BY <1>2, <1>3, <1>4, <1>5, FirstFaultIs
  <1> QED
    BY <1>6 DEF e

(* A duplicate on the next line is the one that ReadNode notes. *)
LEMMA NextDuplicate ==
  ASSUME IInv, NodesNumbered, pc = "nodes", line < Len(nodeLines), duplicateErr = None, NEW kind \in Kinds
  PROVE  DuplicateFault(kind, line + 1) <=> kind = Duplicate(nodeLines[line + 1])
  <1> DEFINE at == line + 1
             l == nodeLines[at]
  <1>1. line \in Nat /\ at \in Lines /\ ReadLines = 1..line /\ nodeLines \in Seq(NodeLines) /\ pc \in Gathering
    BY ReadWithin DEF IInv, Typed, ReadLines, Gathering
  <1>2. DOMAIN nodeByID = {nodeLines[i].id : i \in 1..line}
    BY <1>1 DEF IInv, NodesGathered
  <1>3. at \in Defining <=> l.id \notin DOMAIN nodeByID
    <2>1. at - 1 = line
      BY <1>1
    <2> QED
      BY <1>1, <1>2, <2>1 DEF Defining
  <1>4. l.id \in DOMAIN nodeByID => Same(at).parent = nodeByID[l.id].parent
    <2> SUFFICES ASSUME l.id \in DOMAIN nodeByID PROVE Same(at).parent = nodeByID[l.id].parent
      OBVIOUS
    <2> DEFINE i == nodeByID[l.id].line
    <2>1. i \in Defining /\ nodeLines[i].id = l.id /\ OfLine(nodeByID[l.id], i)
      BY DEF NodesNumbered
    <2>2. Definition(nodeLines[i].id) = nodeLines[i]
      BY <1>1, <2>1, DefiningLines
    <2> QED
      BY <2>1, <2>2 DEF Same, OfLine
  <1>5. RepeatsLimit(at) <=> HasDuplicateLimit(l)
    <2>1. limitIDs = UNION {ToSet(nodeLines[i].limits) : i \in 1..line}
      BY <1>1 DEF IInv, NoDuplicateMissed
    <2>2. limitIDs = ToSet(LimitsUpTo(line))
      BY <1>1, <2>1, LimitsAre
    <2> QED
      BY <1>1, <2>2, RepeatsIs DEF HasDuplicateLimit
  <1>6. kind # None
    BY NoneAssumption
  <1> QED
    BY <1>3, <1>4, <1>5, <1>6 DEF DuplicateFault, Duplicate

LEMMA ReadNodeFirst ==
  ASSUME IInv, FirstFollows, ReadNode
  PROVE  FirstFollows'
  <1> DEFINE at == line + 1
             l == nodeLines[at]
  <1>0. /\ pc = "nodes" /\ line < Len(nodeLines) /\ UNCHANGED <<files, hierarchy>>
        /\ nodeLines \in Seq(NodeLines) /\ line \in Nat /\ pc \in Gathering
        /\ NodesNumbered /\ FirstDuplicate /\ PhasesBefore /\ LinesBefore
    BY DEF ReadNode, IInv, Typed, Gathering, FirstFollows
  <1>1. CASE LineProblem(l) # None \/ NodesFull(l)
    <2> DEFINE kind == IF LineProblem(l) # None THEN LineProblem(l) ELSE "capacity_exceeded"
    <2>1. pc' = "rejected" /\ error' = FaultAt("nodes", kind, at)
      BY <1>1 DEF ReadNode, Reject, FaultAt
    <2>2. kind \in Kinds
      BY DEF LineProblem, Kinds
    <2>3. NodeFault(kind, at)
      BY <1>0, <1>1, <2>2, NextNodeFault
    <2>4. FirstFault(FaultAt("nodes", kind, at))
      BY <1>0, <2>2, <2>3, NextNodeRejected
    <2> QED
      BY <1>0, <2>1, <2>4, FirstRejects
  <1>2. CASE ~(LineProblem(l) # None \/ NodesFull(l))
    <2>1. /\ UNCHANGED <<pc, error>> /\ line' = at
          /\ limitCount' = limitCount + Len(l.limits)
          /\ duplicateErr' = IF duplicateErr = None /\ Duplicate(l) # None
                               THEN [line |-> at, kind |-> Duplicate(l)] ELSE duplicateErr
      BY <1>2 DEF ReadNode, Stays
    <2>2. /\ ReadLines = 1..line /\ ReadLines' = 1..at /\ at \in Nat /\ at \in Lines /\ 1..at = 1..line \cup {at}
          /\ 1..line \subseteq Lines
      BY <1>0, <2>1, ReadWithin DEF ReadLines
    <2>3. DOMAIN nodeByID = {nodeLines[i].id : i \in 1..line} /\ orderedNodeIDs \in Seq(Node) /\ ToSet(orderedNodeIDs) = DOMAIN nodeByID
      BY <1>0, <2>2 DEF IInv, NodesGathered
    <2>4. PhasesBefore' /\ ChainBegins'
      BY <1>0, <2>1, ClearStays DEF PhasesBefore, ChainBegins
    <2>5. LinesBefore'
      BY <1>0, <1>2, <2>1, <2>2, NextNodeFault, NoneAssumption, NodeFaultStays DEF LinesBefore
    <2>6. (limitCount = Len(LimitsUpTo(line)))'
      <3> DEFINE s == LimitsUpTo(line)
      <3>1. s \in Seq(Limit) /\ l.limits \in Seq(Limit) /\ LimitsUpTo(at) = s \o l.limits
        BY <1>0, LimitsGrow
      <3>2. Len(LimitsUpTo(at)) = Len(s) + Len(l.limits)
        <4> HIDE DEF s, l
        <4> QED
          BY <3>1
      <3>3. limitCount = Len(s)
        BY <1>0 DEF NodesNumbered
      <3>4. LimitsUpTo(line)' = LimitsUpTo(at)
        BY <1>0, <2>1 DEF LimitsUpTo
      <3> QED
        BY <2>1, <3>2, <3>3, <3>4
    <2>7. /\ \A id \in DOMAIN nodeByID : /\ nodeByID[id].line \in 1..line /\ nodeByID[id].line \in Defining
                                         /\ nodeLines[nodeByID[id].line].id = id /\ OfLine(nodeByID[id], nodeByID[id].line)
          /\ \A a, b \in DOMAIN orderedNodeIDs : a < b => nodeByID[orderedNodeIDs[a]].line < nodeByID[orderedNodeIDs[b]].line
      BY <1>0, <2>2 DEF NodesNumbered
    <2>8. Defining' = Defining /\ \A node, i : OfLine(node, i)' <=> OfLine(node, i)
      BY <1>0, DefinitionsStay DEF OfLine
    <2>9. /\ \A id \in DOMAIN nodeByID' : /\ nodeByID'[id].line \in 1..at /\ nodeByID'[id].line \in Defining
                                          /\ nodeLines[nodeByID'[id].line].id = id /\ OfLine(nodeByID'[id], nodeByID'[id].line)
          /\ \A a, b \in DOMAIN orderedNodeIDs' : a < b => nodeByID'[orderedNodeIDs'[a]].line < nodeByID'[orderedNodeIDs'[b]].line
      <3>1. CASE l.id \in DOMAIN nodeByID
        BY <1>2, <2>2, <2>7, <3>1 DEF ReadNode
      <3>2. CASE l.id \notin DOMAIN nodeByID
        <4> DEFINE node == [type |-> l.type, parent |-> l.parent, line |-> at, namespace |-> effectiveNodeNamespace(l)]
                   n == Len(orderedNodeIDs)
        <4>1. /\ nodeByID' = [id \in DOMAIN nodeByID \cup {l.id} |-> IF id # l.id THEN nodeByID[id] ELSE node]
              /\ orderedNodeIDs' = Append(orderedNodeIDs, l.id)
          BY <1>2, <3>2 DEF ReadNode
        <4>2. OfLine(node, at) /\ node.line = at
          BY DEF OfLine
        <4> HIDE DEF node
        <4>3. at \in Defining
          BY <1>0, <2>2, <2>3, <3>2 DEF Defining
        <4>4. nodeByID'[l.id] = node /\ \A id \in DOMAIN nodeByID : nodeByID'[id] = nodeByID[id]
          BY <3>2, <4>1
        <4>5. DOMAIN nodeByID' = DOMAIN nodeByID \cup {l.id}
          BY <4>1
        <4>6. ASSUME NEW id \in DOMAIN nodeByID'
              PROVE  /\ nodeByID'[id].line \in 1..at /\ nodeByID'[id].line \in Defining
                     /\ nodeLines[nodeByID'[id].line].id = id /\ OfLine(nodeByID'[id], nodeByID'[id].line)
          <5>1. CASE id = l.id
            BY <2>2, <4>2, <4>3, <4>4, <5>1
          <5>2. CASE id \in DOMAIN nodeByID
            BY <2>2, <2>7, <4>4, <5>2
          <5> QED
            BY <4>5, <5>1, <5>2
        <4>7. n \in Nat /\ DOMAIN orderedNodeIDs = 1..n
          BY <2>3
        <4>8. /\ DOMAIN orderedNodeIDs' = 1..(n + 1)
              /\ orderedNodeIDs'[n + 1] = l.id
              /\ \A a \in 1..n : orderedNodeIDs'[a] = orderedNodeIDs[a]
          BY <2>3, <4>1
        <4>9. \A a \in 1..n : orderedNodeIDs[a] \in DOMAIN nodeByID
          BY <2>3, <4>7 DEF ToSet
        <4> HIDE DEF n
        <4>10. ASSUME NEW a \in DOMAIN orderedNodeIDs', NEW b \in DOMAIN orderedNodeIDs', a < b
               PROVE  nodeByID'[orderedNodeIDs'[a]].line < nodeByID'[orderedNodeIDs'[b]].line
          <5>1. a \in 1..n
            BY <4>7, <4>8, <4>10
          <5>2. nodeByID'[orderedNodeIDs'[a]] = nodeByID[orderedNodeIDs[a]] /\ nodeByID[orderedNodeIDs[a]].line \in 1..line
            BY <2>7, <4>4, <4>8, <4>9, <5>1
          <5>3. CASE b = n + 1
            BY <1>0, <4>2, <4>4, <4>8, <5>2, <5>3
          <5>4. CASE b # n + 1
            <6>1. b \in 1..n
              BY <4>7, <4>8, <5>4
            <6>2. nodeByID'[orderedNodeIDs'[b]] = nodeByID[orderedNodeIDs[b]]
              BY <4>4, <4>8, <4>9, <6>1
            <6> QED
              BY <2>7, <4>7, <4>10, <5>1, <5>2, <6>1, <6>2
          <5> QED
            BY <5>3, <5>4
        <4> QED
          BY <4>6, <4>10
      <3> QED
        BY <3>1, <3>2
    <2>10. NodesNumbered'
      <3>1. pc' = "nodes" /\ nodeLines' = nodeLines
        BY <1>0, <2>1
      <3>2. ASSUME NEW id \in DOMAIN nodeByID'
            PROVE  (/\ nodeByID[id].line \in ReadLines \cap Defining
                    /\ nodeLines[nodeByID[id].line].id = id
                    /\ OfLine(nodeByID[id], nodeByID[id].line))'
        <4> DEFINE i == nodeByID'[id].line
        <4>1. i \in 1..at /\ i \in Defining /\ nodeLines[i].id = id /\ OfLine(nodeByID'[id], i)
          BY <2>9
        <4>2. OfLine(nodeByID[id], nodeByID[id].line)'
          BY <3>1, <4>1 DEF OfLine
        <4> QED
          BY <2>2, <2>8, <3>1, <4>1, <4>2
      <3> HIDE DEF at, l
      <3> QED
        BY <2>6, <2>9, <3>1, <3>2 DEF NodesNumbered, ReadingPcs
    <2>11. FirstDuplicate'
      <3>1. \A i \in Lines : \A kind : DuplicateFault(kind, i)' <=> DuplicateFault(kind, i)
        BY <1>0, NodeFaultStays
      <3>2. pc' = "nodes"
        BY <1>0, <2>1
      <3>3. CASE duplicateErr # None
        <4> DEFINE d == duplicateErr.line
        <4>1. duplicateErr' = duplicateErr
          BY <2>1, <3>3
        <4>2. /\ d \in 1..line /\ duplicateErr.kind \in Kinds /\ DuplicateFault(duplicateErr.kind, d)
              /\ \A i \in 1..(d - 1) : \A kind \in Kinds : ~DuplicateFault(kind, i)
          BY <1>0, <2>2, <3>3 DEF FirstDuplicate
        <4>3. d \in 1..at /\ d \in Lines /\ \A i \in 1..(d - 1) : i \in Lines
          BY <1>0, <2>2, <4>2
        <4>4. DuplicateFault(duplicateErr.kind, d)' /\ \A i \in 1..(d - 1) : \A kind \in Kinds : ~DuplicateFault(kind, i)'
          BY <3>1, <4>1, <4>2, <4>3
        <4> QED
          BY <2>2, <3>3, <4>1, <4>2, <4>3, <4>4 DEF FirstDuplicate
      <3>4. CASE duplicateErr = None /\ Duplicate(l) = None
        BY <1>0, <2>1, <2>2, <3>1, <3>4, NextDuplicate, NoneAssumption DEF FirstDuplicate
      <3>5. CASE duplicateErr = None /\ Duplicate(l) # None
        <4> DEFINE kind == Duplicate(l)
        <4>1. duplicateErr' = [line |-> at, kind |-> kind]
          BY <2>1, <3>5
        <4>2. kind \in Kinds
          BY <3>5, DuplicateKnown
        <4>3. DuplicateFault(kind, at)
          BY <1>0, <3>5, <4>2, NextDuplicate
        <4>4. \A i \in 1..line : \A k \in Kinds : ~DuplicateFault(k, i)
          BY <1>0, <2>2, <3>5 DEF FirstDuplicate
        <4> HIDE DEF kind
        <4>5. duplicateErr'.line = at /\ duplicateErr'.kind = kind
          BY <4>1
        <4>6. DuplicateFault(duplicateErr.kind, duplicateErr.line)'
          <5>1. PICK i \in Lines : i = at
            BY <2>2
          <5>2. PICK k \in Kinds : k = kind
            BY <4>2
          <5>3. DuplicateFault(k, i)'
            BY <3>1, <4>3, <5>1, <5>2
          <5>4. duplicateErr'.line = i /\ duplicateErr'.kind = k
            BY <4>5, <5>1, <5>2
          <5> QED
            BY <5>3, <5>4
        <4>7. at - 1 = line /\ at \in 1..at
          BY <1>0
        <4>8. \A i \in 1..(at - 1) : \A k \in Kinds : ~DuplicateFault(k, i)'
          BY <2>2, <3>1, <4>4, <4>7
        <4>9. duplicateErr' # None
          BY <2>2, <4>1, <4>2, NoneAssumption
        <4> QED
          BY <2>2, <4>2, <4>5, <4>6, <4>7, <4>8, <4>9 DEF FirstDuplicate
      <3> QED
        BY <3>3, <3>4, <3>5
    <2> QED
      BY <2>4, <2>5, <2>10, <2>11 DEF FirstFollows
  <1> QED
    BY <1>1, <1>2

LEMMA NodesReadFirst ==
  ASSUME IInv, FirstFollows, NodesRead
  PROVE  FirstFollows'
  <1>0. /\ pc = "nodes" /\ line = Len(nodeLines) /\ UNCHANGED <<files, gathered, hierarchy>>
        /\ nodeLines \in Seq(NodeLines) /\ Lines = 1..Len(nodeLines)
        /\ PhasesBefore /\ LinesBefore /\ NodesNumbered /\ FirstDuplicate
    BY ReadWithin DEF NodesRead, IInv, Typed, FirstFollows
  <1>1. Clear(2)
    BY <1>0, NodeFaultsAre, FaultsAre, PhasesAre, ClearNext DEF LinesBefore, PhasesBefore
  <1>2. \A f : f \in Faults(Phases[3]) <=>
                 manifest.nodeCount # Len(nodeLines) /\ f = FaultAt("nodeCount", "node_count_mismatch", 0)
    <2> DEFINE differs == manifest.nodeCount # Len(nodeLines)
    <2>1. Faults(Phases[3]) = FaultIf(differs, "nodeCount", "node_count_mismatch")
      BY FaultsAre, PhasesAre
    <2> HIDE DEF differs
    <2>2. \A f : f \in FaultIf(differs, "nodeCount", "node_count_mismatch") <=>
                   differs /\ f = FaultAt("nodeCount", "node_count_mismatch", 0)
      BY FaultIfIs
    <2>3. \A f : f \in Faults(Phases[3]) <=> differs /\ f = FaultAt("nodeCount", "node_count_mismatch", 0)
      BY <2>1, <2>2
    <2> QED
      BY <2>3 DEF differs
  <1>3. 3 \in 1..9 /\ Clear(3 - 1) /\ Phases[3] = "nodeCount"
    BY <1>1, PhasesAre
  <1>4. CASE manifest.nodeCount # Len(nodeLines)
    BY <1>0, <1>2, <1>3, <1>4, OneFault, FirstRejects DEF NodesRead, Reject, FaultAt
  <1>5. CASE ~(manifest.nodeCount # Len(nodeLines))
    <2>0. Clear(3)
      BY <1>2, <1>3, <1>5, ClearNext
    <2>1. pc' = "references"
      BY <1>5 DEF NodesRead, Goes
    <2>2. ReadLines' = ReadLines
      BY <1>0, <2>1 DEF ReadLines, NodesKnown, Gathering, Lines
    <2>3. PhasesBefore' /\ LinesBefore' /\ ChainBegins'
      <3>1. Clear(3)'
        BY <1>0, <2>0, ClearStays
      <3> QED
        BY <2>1, <3>1 DEF PhasesBefore, LinesBefore, ChainBegins
    <2>4. FirstDuplicate'
      BY <1>0, <2>2, FirstDuplicateStays
    <2>5. NodesNumbered'
      BY <1>0, <2>1, <2>2, DefinitionsStay DEF NodesNumbered, OfLine, ReadingPcs
    <2> QED
      BY <2>3, <2>4, <2>5 DEF FirstFollows
  <1> QED
    BY <1>4, <1>5

--------------------------------------------------------------------------------
(* The references. *)

LEMMA NodesInOrder ==
  ASSUME IInv, NodesNumbered, pc \in {"references", "hierarchy"}
  PROVE  /\ ReadLines = Lines /\ DOMAIN nodeByID = Defined /\ pc \in Gathering /\ nodeLines \in Seq(NodeLines)
         /\ orderedNodeIDs \in Seq(Node) /\ ToSet(orderedNodeIDs) = Defined
         /\ \A id \in Defined : /\ nodeByID[id].line \in Defining
                                /\ nodeLines[nodeByID[id].line].id = id
                                /\ OfLine(nodeByID[id], nodeByID[id].line)
         /\ \A i \in Defining : nodeLines[i].id \in Defined /\ nodeByID[nodeLines[i].id].line = i
         /\ \A k \in DOMAIN orderedNodeIDs : orderedNodeIDs[k] \in Defined
         /\ \A id \in Defined : \E k \in DOMAIN orderedNodeIDs : orderedNodeIDs[k] = id
  <1>1. pc \in Gathering /\ pc \in NodesKnown /\ pc # "nodes"
    BY DEF NodesKnown, Gathering
  <1>2. ReadLines = Lines
    BY <1>1 DEF ReadLines, Lines
  <1>3. /\ DOMAIN nodeByID = Defined /\ nodeLines \in Seq(NodeLines)
        /\ orderedNodeIDs \in Seq(Node) /\ ToSet(orderedNodeIDs) = Defined
    BY <1>1, <1>2 DEF IInv, NodesGathered, Typed, Defined
  <1>4. \A id \in Defined : /\ nodeByID[id].line \in Defining
                            /\ nodeLines[nodeByID[id].line].id = id
                            /\ OfLine(nodeByID[id], nodeByID[id].line)
    BY <1>3 DEF NodesNumbered
  <1>5. Defining \subseteq Lines
    BY DEF Defining
  <1>6. ASSUME NEW i \in Defining PROVE nodeLines[i].id \in Defined /\ nodeByID[nodeLines[i].id].line = i
    BY <1>3, <1>4, <1>5, DefiningLines DEF Defined
  <1>7. /\ \A k \in DOMAIN orderedNodeIDs : orderedNodeIDs[k] \in Defined
        /\ \A id \in Defined : \E k \in DOMAIN orderedNodeIDs : orderedNodeIDs[k] = id
    BY <1>3 DEF ToSet
  <1> QED
    BY <1>1, <1>2, <1>3, <1>4, <1>6, <1>7

LEMMA ParentFaultIs ==
  ASSUME IInv, NodesNumbered, pc = "references", NEW id \in Defined, NEW kind \in Kinds
  PROVE  ParentFault(kind, nodeByID[id].line) <=> kind = ParentProblem(nodeByID[id])
  <1> DEFINE node == nodeByID[id]
             i == node.line
             p == node.parent
  <1>1. /\ i \in Defining /\ OfLine(node, i) /\ DOMAIN nodeByID = Defined
        /\ nodeLines \in Seq(NodeLines)
    BY NodesInOrder
  <1>2. nodeLines[i].parent = p /\ nodeLines[i].type = node.type /\ effectiveNodeNamespace(nodeLines[i]) = node.namespace
    BY <1>1 DEF OfLine
  <1>3. i \in Parented <=> p # None
    BY <1>1, <1>2 DEF Parented
  <1>4. p \in Defined => (Misplaced(nodeLines[i]) <=> \/ node.namespace # nodeByID[p].namespace
                                                      \/ ~allowedParent(node.type, nodeByID[p].type))
    <2> SUFFICES ASSUME p \in Defined
                 PROVE  Misplaced(nodeLines[i]) <=> \/ node.namespace # nodeByID[p].namespace
                                                    \/ ~allowedParent(node.type, nodeByID[p].type)
      OBVIOUS
    <2> DEFINE j == nodeByID[p].line
    <2>1. j \in Defining /\ nodeLines[j].id = p /\ OfLine(nodeByID[p], j)
      BY NodesInOrder
    <2>2. Definition(p) = nodeLines[j]
      BY <1>1, <2>1, DefiningLines
    <2>3. Definition(p).type = nodeByID[p].type /\ effectiveNodeNamespace(Definition(p)) = nodeByID[p].namespace
      BY <2>1, <2>2 DEF OfLine
    <2> QED
      BY <1>2, <2>3 DEF Misplaced
  <1>5. kind # None
    BY NoneAssumption
  <1> HIDE DEF i, p
  <1>6. ParentFault(kind, i) <=>
          /\ p # None
          /\ \/ kind = "missing_parent" /\ p \notin Defined
             \/ kind = "invalid_parent_type" /\ p \in Defined /\ Misplaced(nodeLines[i])
    BY <1>2, <1>3 DEF ParentFault
  <1>7. ParentProblem(node) =
          IF p = None THEN None
          ELSE IF p \notin Defined THEN "missing_parent"
          ELSE IF Misplaced(nodeLines[i]) THEN "invalid_parent_type" ELSE None
    BY <1>1, <1>4 DEF ParentProblem, p
  <1> QED
    BY <1>5, <1>6, <1>7 DEF i

(* Where no parent is wrong up to a node, no fault of a parent is before its line. *)
LEMMA ParentFaultsBehind ==
  ASSUME IInv, NodesNumbered, pc = "references", NEW i \in Lines, NEW kind \in Kinds, ParentFault(kind, i)
  PROVE  \E k \in (line + 1)..Len(orderedNodeIDs) :
           /\ nodeByID[orderedNodeIDs[k]].line = i
           /\ nodeByID[orderedNodeIDs[line + 1]].line <= i
  <1>1. i \in Defining
    BY DEF ParentFault, Parented
  <1>2. PICK k \in DOMAIN orderedNodeIDs : orderedNodeIDs[k] = nodeLines[i].id
    BY <1>1, NodesInOrder
  <1>3. nodeByID[orderedNodeIDs[k]].line = i /\ orderedNodeIDs[k] \in Defined
    BY <1>1, <1>2, NodesInOrder
  <1>4. kind = ParentProblem(nodeByID[orderedNodeIDs[k]]) /\ kind # None
    BY <1>3, ParentFaultIs, NoneAssumption
  <1>5. /\ line \in Nat /\ line <= Len(orderedNodeIDs)
        /\ DOMAIN orderedNodeIDs = 1..Len(orderedNodeIDs) /\ Len(orderedNodeIDs) \in Nat
    BY NodesInOrder DEF IInv, Typed, ReferencesChecked
  <1>6. k \notin 1..line
    BY <1>4 DEF IInv, ReferencesChecked
  <1>7. k \in (line + 1)..Len(orderedNodeIDs) /\ line + 1 \in DOMAIN orderedNodeIDs
    BY <1>5, <1>6
  <1>8. nodeByID[orderedNodeIDs[line + 1]].line \in Nat
    BY <1>7, NodesInOrder, ReadWithin DEF Defining
  <1>9. i \in Nat
    BY ReadWithin
  <1>10. nodeByID[orderedNodeIDs[line + 1]].line <= i
    <2>1. CASE k = line + 1
      BY <1>3, <1>9, <2>1
    <2>2. CASE k # line + 1
      BY <1>3, <1>5, <1>7, <1>8, <1>9, <2>2 DEF NodesNumbered
    <2> QED
      BY <2>1, <2>2
  <1> QED
    BY <1>3, <1>7, <1>10

LEMMA CheckReferenceFirst ==
  ASSUME IInv, FirstFollows, CheckReference
  PROVE  FirstFollows'
  <1> DEFINE n == Len(orderedNodeIDs)
             node == nodeByID[orderedNodeIDs[line + 1]]
             d == duplicateErr.line
  <1>0. /\ pc = "references" /\ UNCHANGED <<files, gathered, hierarchy>>
        /\ nodeLines \in Seq(NodeLines) /\ line \in Nat /\ line <= n /\ n \in Nat /\ DOMAIN orderedNodeIDs = 1..n
        /\ NodesNumbered /\ FirstDuplicate /\ PhasesBefore
    BY NodesInOrder DEF CheckReference, FirstFollows, IInv, Typed, ReferencesChecked
  <1>1. Clear(4 - 1) /\ Faults(Phases[4]) = ReferenceFaults /\ 4 \in 1..9
    BY <1>0, FaultsAre, PhasesAre DEF PhasesBefore
  <1>2. /\ ReadLines = Lines /\ DOMAIN nodeByID = Defined
        /\ \A k \in 1..n : /\ orderedNodeIDs[k] \in Defined
                           /\ nodeByID[orderedNodeIDs[k]].line \in Defining
    BY <1>0, NodesInOrder
  <1>3. \A i \in Lines : i \in Nat
    BY ReadWithin
  <1>4. Defining \subseteq Lines
    BY DEF Defining
  (* A fault at line e is the first one where no duplicate and no parent is before. *)
  <1>5. ASSUME NEW e \in Nat, NEW kind \in Kinds, e \in Lines, DuplicateFault(kind, e) \/ ParentFault(kind, e),
               \A i \in Lines : \A k \in Kinds : DuplicateFault(k, i) \/ ParentFault(k, i) => e <= i,
               pc' = "rejected", error' = FaultAt("references", kind, e)
        PROVE  FirstFollows'
    <2> DEFINE fault == FaultAt("references", kind, e)
    <2>1. fault \in ReferenceFaults /\ fault.line = e
      BY <1>5, ReferenceFaultsAre DEF FaultAt
    <2>2. ASSUME NEW f \in ReferenceFaults PROVE e <= f.line
      <3>1. PICK i \in Lines : \E k \in Kinds : f = FaultAt("references", k, i) /\ (DuplicateFault(k, i) \/ ParentFault(k, i))
        BY ReferenceFaultsAre
      <3>2. f.line = i
        BY <3>1 DEF FaultAt
      <3> QED
        BY <1>5, <3>1, <3>2
    <2> HIDE DEF fault
    <2>3. FirstFault(fault)
      BY <1>1, <2>1, <2>2, FirstFaultIs
    <2> QED
      BY <1>0, <1>5, <2>3, FirstRejects DEF fault
  <1>6. CASE DuplicateIsNext
    <2>1. pc' = "rejected" /\ error' = FaultAt("references", duplicateErr.kind, d)
      BY <1>6 DEF CheckReference, Reject, FaultAt
    <2>2. /\ d \in Lines /\ d \in Nat /\ duplicateErr.kind \in Kinds /\ DuplicateFault(duplicateErr.kind, d)
          /\ \A i \in 1..(d - 1) : \A kind \in Kinds : ~DuplicateFault(kind, i)
      BY <1>0, <1>2, <1>3, <1>6 DEF FirstDuplicate, DuplicateIsNext
    <2>3. ASSUME NEW i \in Lines, NEW k \in Kinds, DuplicateFault(k, i) \/ ParentFault(k, i) PROVE d <= i
      <3>1. CASE DuplicateFault(k, i)
        BY <2>2, <3>1, ReadWithin
      <3>2. CASE ParentFault(k, i)
        <4>1. line < n /\ node.line <= i
          BY <1>0, <3>2, ParentFaultsBehind
        <4>2. d < node.line
          BY <1>6, <4>1 DEF DuplicateIsNext
        <4>3. node.line \in Nat /\ i \in Nat
          BY <1>0, <1>2, <1>3, <1>4, <4>1
        <4> QED
          BY <2>2, <4>1, <4>2, <4>3
      <3> QED
        BY <2>3, <3>1, <3>2
    <2> HIDE DEF d
    <2> QED
      BY <1>5, <2>1, <2>2, <2>3
  <1>7. CASE ~DuplicateIsNext /\ line # n /\ ParentProblem(node) # None
    <2> DEFINE e == node.line
               kind == ParentProblem(node)
    <2>1. pc' = "rejected" /\ error' = FaultAt("references", kind, e)
      BY <1>7 DEF CheckReference, Reject, FaultAt
    <2>2. line + 1 \in 1..n /\ line < n
      BY <1>0, <1>7
    <2>3. kind \in Kinds
      BY <1>7 DEF ParentProblem, Kinds
    <2>4. e \in Lines /\ e \in Nat
      BY <1>2, <1>3, <1>4, <2>2
    <2>5. ParentFault(kind, e)
      BY <1>0, <1>2, <2>2, <2>3, ParentFaultIs
    <2>6. ASSUME NEW i \in Lines, NEW k \in Kinds, DuplicateFault(k, i) \/ ParentFault(k, i) PROVE e <= i
      <3>1. CASE DuplicateFault(k, i)
        <4>1. duplicateErr # None
          BY <1>0, <1>2, <3>1 DEF FirstDuplicate
        <4>2. /\ d \in Lines /\ d \in Nat /\ \A j \in 1..(d - 1) : \A m \in Kinds : ~DuplicateFault(m, j)
          BY <1>0, <1>2, <1>3, <4>1 DEF FirstDuplicate
        <4>3. i \notin 1..(d - 1) /\ i \in Nat /\ i >= 1
          BY <3>1, <4>2, ReadWithin
        <4>4. ~(d < e)
          BY <1>7, <2>2, <4>1 DEF DuplicateIsNext
        <4> HIDE DEF d, e
        <4> QED
          BY <2>4, <4>2, <4>3, <4>4
      <3>2. CASE ParentFault(k, i)
        BY <1>0, <3>2, ParentFaultsBehind
      <3> QED
        BY <2>6, <3>1, <3>2
    <2> HIDE DEF e, kind
    <2> QED
      BY <1>5, <2>1, <2>3, <2>4, <2>5, <2>6
  <1>8. CASE ~DuplicateIsNext /\ line = n
    <2>1. pc' = "hierarchy"
      BY <1>8 DEF CheckReference, Goes
    <2>2. duplicateErr = None
      BY <1>8 DEF DuplicateIsNext
    <2>3. ReferenceFaults = {}
      <3> SUFFICES ASSUME NEW f \in ReferenceFaults PROVE FALSE
        OBVIOUS
      <3>1. PICK i \in Lines : \E k \in Kinds : f = FaultAt("references", k, i) /\ (DuplicateFault(k, i) \/ ParentFault(k, i))
        BY ReferenceFaultsAre
      <3>2. PICK k \in Kinds : DuplicateFault(k, i) \/ ParentFault(k, i)
        BY <3>1
      <3>3. ~DuplicateFault(k, i)
        BY <1>0, <1>2, <2>2 DEF FirstDuplicate
      <3>4. \E j \in (line + 1)..n : TRUE
        BY <1>0, <3>2, <3>3, ParentFaultsBehind
      <3> QED
        BY <1>0, <1>8, <3>4
    <2>4. Clear(4)
      BY <1>1, <2>3, ClearNext
    <2>5. Clear(4)'
      BY <1>0, <2>4, ClearStays
    <2>6. PhasesBefore' /\ LinesBefore' /\ FirstDuplicate'
      BY <2>1, <2>5 DEF PhasesBefore, LinesBefore, FirstDuplicate
    <2>7. ReadLines' = ReadLines /\ Defining' = Defining
      BY <1>0, <2>1, DefinitionsStay DEF ReadLines, NodesKnown, Gathering
    <2>8. NodesNumbered'
      BY <1>0, <2>1, <2>7 DEF NodesNumbered, OfLine, ReadingPcs
    <2>9. ChainBegins'
      BY <1>0 DEF IInv, ChainsSettled, ChainBegins
    <2> QED
      BY <2>6, <2>8, <2>9 DEF FirstFollows
  <1>9. CASE ~DuplicateIsNext /\ line # n /\ ParentProblem(node) = None
    <2>1. UNCHANGED <<pc, error>>
      BY <1>9 DEF CheckReference, Stays
    <2>2. Clear(3)' /\ ReadLines' = ReadLines /\ Defining' = Defining
      BY <1>0, <1>1, <2>1, ClearStays, DefinitionsStay DEF ReadLines, NodesKnown, Gathering
    <2>3. PhasesBefore' /\ LinesBefore' /\ ChainBegins'
      BY <1>0, <2>1, <2>2 DEF PhasesBefore, LinesBefore, ChainBegins
    <2>4. FirstDuplicate'
      BY <1>0, <2>2, FirstDuplicateStays
    <2>5. NodesNumbered'
      BY <1>0, <2>1, <2>2 DEF NodesNumbered, OfLine, ReadingPcs
    <2> QED
      BY <2>3, <2>4, <2>5 DEF FirstFollows
  <1> QED
    BY <1>6, <1>7, <1>8, <1>9

--------------------------------------------------------------------------------
(* The hierarchy. *)

(* What is above a node of a set that the parents stay in is in the set. *)
LEMMA AboveWithin ==
  ASSUME IInv, pc \in ReferencesKnown, NEW T \in SUBSET Defined, \A n \in T : nodeByID[n].parent \in T \cup {None},
         NEW n \in T, NEW m \in Defined, <<n, m>> \in Above
  PROVE  m \in T
  <1>1. /\ Above = Closure(ParentEdges)
        /\ \A e : e \in ParentEdges <=> \E id \in Defined : nodeByID[id].parent # None /\ e = <<id, nodeByID[id].parent>>
    BY ParentEdgesAre
  <1>2. PICK e \in ParentEdges :
          e[1] = n /\ \A S \in SUBSET Defined : (\A f \in ParentEdges : f[1] \in S => f[2] \in S) /\ e[2] \in S => m \in S
    BY <1>1, ClosureIs
  <1>3. \A f \in ParentEdges : f[1] \in T => f[2] \in T
    BY <1>1
  <1> QED
    BY <1>2, <1>3

(* A settled node leads to no circle. *)
LEMMA SettledLeadsNowhere ==
  ASSUME IInv, pc \in ReferencesKnown, NEW id \in settled
  PROVE  Circle(id) = {}
  <1> SUFFICES ASSUME NEW m \in Circle(id) PROVE FALSE
    OBVIOUS
  <1>1. /\ settled \in SUBSET Defined /\ Grounded(settled)
        /\ \A n \in settled : nodeByID[n].parent \in settled \cup {None}
    BY NodeLinesRead DEF IInv, ChainsSettled
  <1>2. m \in Defined /\ <<id, m>> \in Above /\ <<m, m>> \in Above
    BY DEF Circle
  <1> HIDE DEF settled
  <1>3. m \in settled
    BY <1>1, <1>2, AboveWithin
  <1> QED
    BY <1>1, <1>2, <1>3, GroundedIrreflexive

(* The chain that is followed: each node's parent is the next, and none is settled. *)
LEMMA ChainIs ==
  ASSUME IInv, DepthsSettled, pc = "hierarchy"
  PROVE  /\ Len(path) \in Nat /\ DOMAIN path = 1..Len(path)
         /\ \A i \in 1..Len(path) : /\ path[i] \in Defined /\ path[i] \notin settled
                                    /\ nodeByID[path[i]].parent = IF i = Len(path) THEN current ELSE path[i + 1]
         /\ \A i, j \in 1..Len(path) : path[i] = path[j] => i = j
  <1>1. pc \in ReferencesKnown
    BY HierarchyPc
  <1>2. path \in Seq(Defined)
    BY <1>1, NodeLinesRead DEF IInv, ChainsSettled
  <1>3. Len(path) \in Nat /\ DOMAIN path = 1..Len(path) /\ \A i \in 1..Len(path) : path[i] \in Defined
    BY <1>2
  <1> QED
    BY <1>1, <1>3 DEF IInv, ChainsSettled, DepthsSettled

LEMMA ChainUp ==
  ASSUME IInv, DepthsSettled, pc = "hierarchy", NEW i \in 1..Len(path), NEW j \in 1..Len(path), i < j
  PROVE  <<path[i], path[j]>> \in Above
  <1> DEFINE n == Len(path)
             K == {k \in Nat : (i + 1) + k <= n => <<path[i], path[(i + 1) + k]>> \in Above}
  <1>1. /\ n \in Nat /\ pc \in ReferencesKnown
        /\ \A k \in 1..n : path[k] \in Defined /\ nodeByID[path[k]].parent = IF k = n THEN current ELSE path[k + 1]
    BY ChainIs, HierarchyPc
  <1> HIDE DEF n
  <1>2. ASSUME NEW k \in 1..n, k # n PROVE <<path[k], path[k + 1]>> \in Above
    <2>1. k + 1 \in 1..n
      BY <1>1, <1>2
    <2>2. path[k] \in Defined /\ path[k + 1] \in Defined /\ nodeByID[path[k]].parent = path[k + 1]
      BY <1>1, <1>2, <2>1
    <2> QED
      BY <1>1, <2>2, AboveIs
  <1>3. 0 \in K
    <2>1. (i + 1) + 0 = i + 1 /\ (i + 1 <= n => i # n) /\ i \in 1..n
      BY <1>1 DEF n
    <2> QED
      BY <1>2, <2>1
  <1>4. ASSUME NEW k \in Nat, k \in K PROVE k + 1 \in K
    <2>1. SUFFICES ASSUME (i + 1) + (k + 1) <= n PROVE <<path[i], path[(i + 1) + (k + 1)]>> \in Above
      OBVIOUS
    <2> DEFINE c == (i + 1) + k
    <2>2. c \in 1..n /\ c # n /\ c + 1 \in 1..n /\ (i + 1) + (k + 1) = c + 1 /\ c <= n /\ i \in 1..n
      BY <1>1, <2>1 DEF n
    <2>3. <<path[i], path[c]>> \in Above
      BY <1>4, <2>2
    <2> HIDE DEF c
    <2>4. <<path[c], path[c + 1]>> \in Above
      BY <1>2, <2>2
    <2>5. path[i] \in Defined /\ path[c] \in Defined /\ path[c + 1] \in Defined
      BY <1>1, <2>2
    <2>6. <<path[i], path[c + 1]>> \in Above
      BY <2>3, <2>4, <2>5, AboveJoins
    <2> QED
      BY <2>2, <2>6
  <1>5. j - (i + 1) \in Nat /\ (i + 1) + (j - (i + 1)) = j /\ j <= n
    BY <1>1 DEF n
  <1>6. j - (i + 1) \in K
    <2> HIDE DEF K
    <2> QED
      BY <1>3, <1>4, <1>5, SetInduction
  <1> QED
    BY <1>5, <1>6

(* Where the chain has met itself, the nodes from there on are the circle that its
   first node leads to. *)
LEMMA ChainCircle ==
  ASSUME IInv, DepthsSettled, pc = "hierarchy", NEW first \in 1..Len(path), path[first] = current
  PROVE  Circle(path[1]) = {path[i] : i \in first..Len(path)}
  <1> DEFINE n == Len(path)
             circle == {path[i] : i \in first..n}
  <1>1. /\ n \in Nat /\ pc \in ReferencesKnown /\ None \notin Defined
        /\ \A k \in 1..n : path[k] \in Defined /\ nodeByID[path[k]].parent = IF k = n THEN path[first] ELSE path[k + 1]
        /\ \A i, j \in 1..n : path[i] = path[j] => i = j
    BY ChainIs, HierarchyPc, ParentEdgesAre
  <1>2. \A i, j \in 1..n : i < j => <<path[i], path[j]>> \in Above
    BY ChainUp
  <1>3. first \in 1..n /\ first \in Nat /\ 1 \in 1..n /\ n \in 1..n /\ first <= n
    BY <1>1
  <1> HIDE DEF n
  <1>4. <<path[n], path[first]>> \in Above
    BY <1>1, <1>3, AboveIs
  <1>5. ASSUME NEW j \in first..n PROVE <<path[j], path[j]>> \in Above
    <2>1. j \in 1..n /\ first <= j /\ j <= n
      BY <1>1, <1>3
    <2>2. path[j] \in Defined /\ path[n] \in Defined /\ path[first] \in Defined
      BY <1>1, <1>3, <2>1
    <2>3. <<path[j], path[first]>> \in Above
      <3>1. CASE j = n
        BY <1>4, <3>1
      <3>2. CASE j # n
        <4>1. <<path[j], path[n]>> \in Above
          BY <1>1, <1>2, <1>3, <2>1, <3>2
        <4> QED
          BY <1>4, <2>2, <4>1, AboveJoins
      <3> QED
        BY <3>1, <3>2
    <2>4. CASE j = first
      BY <2>3, <2>4
    <2>5. CASE j # first
      <3>1. <<path[first], path[j]>> \in Above
        BY <1>1, <1>2, <1>3, <2>1, <2>5
      <3> QED
        BY <2>2, <2>3, <3>1, AboveJoins
    <2> QED
      BY <2>4, <2>5
  <1>6. ASSUME NEW j \in first..n PROVE path[j] \in Circle(path[1])
    <2>1. j \in 1..n /\ path[j] \in Defined
      BY <1>1, <1>3
    <2>2. <<path[1], path[j]>> \in Above
      <3>1. CASE j = 1
        BY <1>5, <3>1
      <3>2. CASE j # 1
        BY <1>2, <1>3, <2>1, <3>2
      <3> QED
        BY <3>1, <3>2
    <2> QED
      BY <1>5, <2>1, <2>2 DEF Circle
  <1>7. ASSUME NEW k \in 1..n
        PROVE  \A m \in Defined : k <= first /\ <<path[k], m>> \in Above => m \in {path[i] : i \in k..n}
    <2> SUFFICES ASSUME NEW m \in Defined, k <= first, <<path[k], m>> \in Above PROVE m \in {path[i] : i \in k..n}
      OBVIOUS
    <2> DEFINE T == {path[i] : i \in k..n}
    <2>1. T \in SUBSET Defined
      BY <1>1
    <2>2. \A x \in T : nodeByID[x].parent \in T \cup {None}
      <3> SUFFICES ASSUME NEW i \in k..n PROVE nodeByID[path[i]].parent \in T
        OBVIOUS
      <3>1. CASE i = n
        BY <1>1, <1>3, <3>1
      <3>2. CASE i # n
        BY <1>1, <3>2
      <3> QED
        BY <3>1, <3>2
    <2>3. path[k] \in T
      BY <1>1
    <2> HIDE DEF T
    <2>4. m \in T
      BY <1>1, <2>1, <2>2, <2>3, AboveWithin
    <2> QED
      BY <2>4 DEF T
  <1>8. ASSUME NEW m \in Circle(path[1]) PROVE m \in circle
    <2>1. m \in Defined /\ <<path[1], m>> \in Above /\ <<m, m>> \in Above
      BY <1>8 DEF Circle
    <2>2. PICK j \in 1..n : m = path[j]
      BY <1>3, <1>7, <2>1
    <2>3. j >= first
      <3> SUFFICES ASSUME j < first PROVE FALSE
        BY <1>1, <1>3, <2>2
      <3>1. j # n /\ j + 1 \in 1..n /\ j + 1 <= first
        BY <1>1, <1>3
      <3>2. nodeByID[m].parent = path[j + 1] /\ path[j + 1] # m
        BY <1>1, <2>2, <3>1
      <3>3. <<path[j + 1], m>> \in Above
        BY <1>1, <2>1, <3>2, AboveIs
      <3>4. m \in {path[i] : i \in (j + 1)..n}
        BY <1>7, <2>1, <3>1, <3>3
      <3>5. PICK i \in (j + 1)..n : m = path[i]
        BY <3>4
      <3>6. i \in 1..n /\ i # j
        BY <1>1, <3>1, <3>5
      <3>7. path[i] = path[j]
        BY <2>2, <3>5
      <3>8. i = j
        BY <1>1, <3>6, <3>7
      <3> QED
        BY <3>6, <3>8
    <2>4. j \in first..n
      BY <1>1, <1>3, <2>3
    <2> QED
      BY <2>2, <2>4
  <1>9. \A m \in circle : m \in Circle(path[1])
    BY <1>6
  <1> HIDE DEF circle
  <1>10. Circle(path[1]) = circle
    BY <1>8, <1>9
  <1> QED
    BY <1>10 DEF circle, n

LEMMA InHierarchyFirst ==
  ASSUME IInv, FirstFollows, pc = "hierarchy", UNCHANGED <<files, pc, gathered>>, ChainBegins'
  PROVE  FirstFollows'
  <1>1. nodeLines \in Seq(NodeLines) /\ Clear(4)
    BY DEF IInv, Typed, FirstFollows, PhasesBefore
  <1>2. Clear(4)' /\ Defining' = Defining
    BY <1>1, ClearStays, DefinitionsStay
  <1>3. ReadLines' = ReadLines
    BY DEF ReadLines
  <1>4. PhasesBefore' /\ LinesBefore' /\ FirstDuplicate'
    BY <1>2 DEF PhasesBefore, LinesBefore, FirstDuplicate
  <1>5. NodesNumbered'
    BY <1>2, <1>3 DEF FirstFollows, NodesNumbered, OfLine, ReadingPcs
  <1> QED
    BY <1>4, <1>5 DEF FirstFollows

LEMMA StartChainFirst ==
  ASSUME IInv, FirstFollows, StartChain
  PROVE  FirstFollows'
  <1>1. /\ pc = "hierarchy" /\ UNCHANGED <<files, pc, gathered, path, depthByID>>
        /\ path = <<>> /\ Unsettled # {} /\ current' = orderedNodeIDs[Min(Unsettled)]
    BY DEF StartChain
  <1>2. Unsettled' = Unsettled
    BY <1>1 DEF Unsettled, settled
  <1>3. ChainBegins'
    BY <1>1, <1>2 DEF ChainBegins
  <1> QED
    BY <1>1, <1>3, InHierarchyFirst

LEMMA ClimbFirst ==
  ASSUME IInv, FirstFollows, Climb
  PROVE  FirstFollows'
  <1>1. /\ pc = "hierarchy" /\ UNCHANGED <<files, pc, gathered, depthByID>> /\ current # None
        /\ path' = Append(path, current)
    BY DEF Climb
  <1>2. Unsettled' = Unsettled
    BY <1>1 DEF Unsettled, settled
  <1>3. path \in Seq(DOMAIN nodeByID)
    BY <1>1, HierarchyPc DEF IInv, ChainsSettled
  <1>4. Unsettled # {} /\ path'[1] = orderedNodeIDs[Min(Unsettled)]
    <2>1. CASE path = <<>>
      BY <1>1, <2>1 DEF FirstFollows, ChainBegins
    <2>2. CASE path # <<>>
      BY <1>1, <1>3, <2>2 DEF FirstFollows, ChainBegins
    <2> QED
      BY <2>1, <2>2
  <1>5. path' # <<>>
    BY <1>1, <1>3
  <1>6. ChainBegins'
    BY <1>1, <1>2, <1>4, <1>5 DEF ChainBegins
  <1> QED
    BY <1>1, <1>6, InHierarchyFirst

LEMMA SettleChainFirst ==
  ASSUME IInv, FirstFollows, SettleChain
  PROVE  FirstFollows'
  <1>1. pc = "hierarchy" /\ UNCHANGED <<files, pc, gathered>> /\ path' = <<>> /\ current' = None
    BY DEF SettleChain
  <1>2. ChainBegins'
    BY <1>1 DEF ChainBegins
  <1> QED
    BY <1>1, <1>2, InHierarchyFirst

(* The least line of an unsettled node is that of the first. *)
LEMMA FirstUnsettled ==
  ASSUME IInv, NodesNumbered, pc = "hierarchy", Unsettled # {}, NEW id \in Defined, id \notin settled
  PROVE  nodeByID[orderedNodeIDs[Min(Unsettled)]].line <= nodeByID[id].line
  <1>1. /\ orderedNodeIDs \in Seq(Node)
        /\ \A k \in DOMAIN orderedNodeIDs : orderedNodeIDs[k] \in Defined
        /\ \E k \in DOMAIN orderedNodeIDs : orderedNodeIDs[k] = id
        /\ \A n \in Defined : nodeByID[n].line \in Defining
    BY NodesInOrder
  <1>2. PICK k \in DOMAIN orderedNodeIDs : orderedNodeIDs[k] = id
    BY <1>1
  <1>3. k \in Unsettled /\ Unsettled \in SUBSET Nat /\ Unsettled \subseteq DOMAIN orderedNodeIDs
    BY <1>1, <1>2 DEF Unsettled
  <1> DEFINE m == Min(Unsettled)
  <1>4. m \in DOMAIN orderedNodeIDs /\ m <= k /\ m \in Nat /\ k \in Nat
    BY <1>3, MinIsLeast
  <1> HIDE DEF m
  <1>5. m < k => nodeByID[orderedNodeIDs[m]].line < nodeByID[orderedNodeIDs[k]].line
    BY <1>4 DEF NodesNumbered
  <1>6. \A n \in Defined : nodeByID[n].line \in Nat
    BY <1>1, ReadWithin DEF Defining
  <1>7. nodeByID[orderedNodeIDs[m]].line \in Nat /\ nodeByID[id].line \in Nat
    BY <1>1, <1>4, <1>6
  <1>8. m = k => nodeByID[orderedNodeIDs[m]].line = nodeByID[id].line
    BY <1>2
  <1>9. m < k => nodeByID[orderedNodeIDs[m]].line < nodeByID[id].line
    BY <1>2, <1>5
  <1>10. m = k \/ m < k
    BY <1>4
  <1>11. nodeByID[orderedNodeIDs[m]].line <= nodeByID[id].line
    BY <1>7, <1>8, <1>9, <1>10
  <1> QED
    BY <1>11 DEF m

(* The circle that the chain has closed is the one that the first of all leading
   nodes leads to: the nodes before it are settled, and lead nowhere. *)
LEMMA ChainClosesFirst ==
  ASSUME IInv, DepthsSettled, FirstFollows, ChainCloses
  PROVE  FirstFollows'
  <1> DEFINE first == CHOOSE i \in DOMAIN path : path[i] = current
             circle == {path[i] : i \in first..Len(path)}
             lines == {nodeByID[id].line : id \in circle}
             e == FaultAt("hierarchy", "parent_cycle", Min(lines))
             root == path[1]
             top == nodeByID[root].line
  <1>0. /\ pc = "hierarchy" /\ pc \in ReferencesKnown /\ current \in ToSet(path) /\ UNCHANGED files
        /\ nodeLines \in Seq(NodeLines) /\ NodesNumbered /\ Clear(4) /\ duplicateErr = None
    BY HierarchyPc DEF ChainCloses, IInv, Typed, FirstFollows, PhasesBefore, ReferencesChecked
  <1>1. pc' = "rejected" /\ error' = e
    BY DEF ChainCloses, Reject, FaultAt
  <1>2. /\ Len(path) \in Nat /\ DOMAIN path = 1..Len(path)
        /\ \A i \in 1..Len(path) : path[i] \in Defined /\ path[i] \notin settled
    BY <1>0, ChainIs
  <1>3. first \in 1..Len(path) /\ path[first] = current
    BY <1>0, <1>2 DEF ToSet
  <1> HIDE DEF first
  <1>4. Circle(root) = circle
    BY <1>0, <1>3, ChainCircle
  <1>5. path[first] \in circle /\ circle \subseteq Defined /\ root \in Defined
    BY <1>2, <1>3
  <1>6. Unsettled # {} /\ root = orderedNodeIDs[Min(Unsettled)]
    <2>1. path # <<>>
      BY <1>2, <1>3
    <2> QED
      BY <1>0, <2>1 DEF FirstFollows, ChainBegins
  <1> HIDE DEF circle, root
  <1>7. /\ \A id \in Defined : nodeByID[id].line \in Lines /\ nodeLines[nodeByID[id].line].id = id
        /\ \A i \in Lines : nodeLines[i].id \in Defined
        /\ Lines \in SUBSET Nat
    BY <1>0, NodesInOrder, ReadWithin DEF Defining, Defined
  <1>8. \A i \in Lines : nodeByID[nodeLines[i].id].line = i
    <2>1. LinesDiffer(Lines)
      BY <1>0, NodesInOrder DEF IInv, NoDuplicateMissed
    <2> QED
      BY <1>7, <2>1 DEF LinesDiffer
  <1>9. top \in Leading
    BY <1>4, <1>5, <1>7 DEF Leading
  <1>10. ASSUME NEW i \in Leading PROVE top <= i
    <2> DEFINE id == nodeLines[i].id
    <2>1. i \in Lines /\ id \in Defined /\ Circle(id) # {} /\ nodeByID[id].line = i
      BY <1>7, <1>8 DEF Leading
    <2>2. id \notin settled
      <3> HIDE DEF id
      <3> QED
        BY <1>0, <2>1, SettledLeadsNowhere
    <2> HIDE DEF id
    <2>3. nodeByID[orderedNodeIDs[Min(Unsettled)]].line <= nodeByID[id].line
      BY <1>0, <1>6, <2>1, <2>2, FirstUnsettled
    <2> QED
      BY <1>6, <2>1, <2>3
  <1>11. Min(Leading) = top
    <2>1. Leading \in SUBSET Nat
      BY <1>7 DEF Leading
    <2>2. Min(Leading) \in Leading /\ Min(Leading) <= top
      BY <1>9, <2>1, MinIsLeast
    <2>3. top <= Min(Leading) /\ top \in Nat /\ Min(Leading) \in Nat
      BY <1>9, <1>10, <2>1, <2>2
    <2> QED
      BY <2>2, <2>3
  <1>12. \A i : i \in CircleLines <=> i \in Lines /\ nodeLines[i].id \in circle
    BY <1>4, <1>5, <1>7, <1>11 DEF CircleLines
  <1>13. \A i : i \in lines <=> \E id \in circle : i = nodeByID[id].line
    OBVIOUS
  <1> HIDE DEF lines
  <1>14. CircleLines = lines
    <2>1. ASSUME NEW i \in CircleLines PROVE i \in lines
      BY <1>8, <1>12, <1>13
    <2>2. ASSUME NEW i \in lines PROVE i \in CircleLines
      BY <1>5, <1>7, <1>12, <1>13
    <2> QED
      BY <2>1, <2>2
  <1>15. lines \in SUBSET Nat /\ lines # {}
    BY <1>5, <1>7, <1>13
  <1>16. Min(lines) \in Nat
    BY <1>15, MinIsLeast
  <1>17. HierarchyFaults = {e}
    BY <1>9, <1>14, HierarchyFaultsAre
  <1>18. e.line = Min(lines)
    BY DEF FaultAt
  <1> HIDE DEF e
  <1>19. e \in Faults(Phases[5]) /\ \A f \in Faults(Phases[5]) : e.line <= f.line
    BY <1>16, <1>17, <1>18, FaultsAre, PhasesAre
  <1>20. FirstFault(e)
    BY <1>0, <1>19, FirstFaultIs
  <1> QED
    BY <1>0, <1>1, <1>20, FirstRejects

(* What nothing but a line of its own keeps from the next phase. *)
LEMMA NoPhaseYet ==
  ASSUME UNCHANGED files, nodeLines \in Seq(NodeLines),
         \/ pc' = "relations" /\ line' = 0 /\ Clear(6)
         \/ pc' = "components" /\ Clear(8)
         \/ pc' = "accepted" /\ Clear(9)
  PROVE  FirstFollows'
  <1>1. \A n \in {6, 8, 9} : Clear(n)' <=> Clear(n)
    BY ClearStays
  <1>2. PhasesBefore'
    BY <1>1 DEF PhasesBefore
  <1>3. LinesBefore'
    BY DEF LinesBefore
  <1> QED
    BY <1>2, <1>3 DEF FirstFollows, NodesNumbered, FirstDuplicate, ChainBegins, ReadingPcs

LEMMA HierarchyCheckedFirst ==
  ASSUME IInv, DepthsSettled, FirstFollows, HierarchyChecked
  PROVE  FirstFollows'
  <1>0. /\ pc = "hierarchy" /\ pc \in ReferencesKnown /\ Unsettled = {} /\ UNCHANGED files
        /\ nodeLines \in Seq(NodeLines) /\ NodesNumbered /\ Clear(4)
    BY HierarchyPc DEF HierarchyChecked, IInv, Typed, FirstFollows, PhasesBefore
  <1>1. settled = Defined
    <2>1. settled \subseteq Defined
      BY <1>0, NodeLinesRead DEF IInv, ChainsSettled
    <2>2. \A id \in Defined : id \in settled
      BY <1>0, NodesInOrder DEF Unsettled
    <2> QED
      BY <2>1, <2>2
  <1>2. Clear(5)
    <2>1. \A id \in Defined : Circle(id) = {}
      BY <1>0, <1>1, SettledLeadsNowhere
    <2>2. \A i \in Lines : nodeLines[i].id \in Defined
      BY DEF Defined
    <2>3. Leading = {}
      BY <2>1, <2>2 DEF Leading
    <2>4. Faults(Phases[5]) = {}
      BY <2>3, HierarchyFaultsAre, FaultsAre, PhasesAre
    <2> QED
      BY <1>0, <2>4, ClearNext
  <1>3. \A f : f \in Faults(Phases[6]) <=>
                 jobNetworkDepth > MaxJobNetworkDepth /\ f = FaultAt("depth", "capacity_exceeded", 0)
    <2> DEFINE tooDeep == LongestChain > MaxJobNetworkDepth
    <2>1. Faults(Phases[6]) = FaultIf(tooDeep, "depth", "capacity_exceeded")
      BY FaultsAre, PhasesAre
    <2>2. tooDeep <=> jobNetworkDepth > MaxJobNetworkDepth
      BY <1>0, <1>1, LongestIs
    <2> HIDE DEF tooDeep
    <2>3. \A f : f \in FaultIf(tooDeep, "depth", "capacity_exceeded") <=>
                   tooDeep /\ f = FaultAt("depth", "capacity_exceeded", 0)
      BY FaultIfIs
    <2> QED
      BY <2>1, <2>2, <2>3
  <1>4. 6 \in 1..9 /\ Clear(6 - 1) /\ Phases[6] = "depth"
    BY <1>2, PhasesAre
  <1>5. CASE jobNetworkDepth > MaxJobNetworkDepth
    BY <1>0, <1>3, <1>4, <1>5, OneFault, FirstRejects DEF HierarchyChecked, Reject, FaultAt
  <1>6. CASE ~(jobNetworkDepth > MaxJobNetworkDepth)
    BY <1>0, <1>3, <1>4, <1>6, ClearNext, NoPhaseYet DEF HierarchyChecked, Goes
  <1> QED
    BY <1>5, <1>6

--------------------------------------------------------------------------------
(* relations.ndjson, the components, and all steps. *)

(* A problem of the next line is a fault of it, and it has no other. *)
LEMMA NextRelationFault ==
  ASSUME IInv, pc = "relations", line < Len(relationLines)
  PROVE  LET l == relationLines[line + 1]
         IN  /\ RelationProblem(l) # None =>
                  RelationProblem(l) \in Kinds /\ RelationFault(RelationProblem(l), line + 1)
             /\ RelationProblem(l) = None => \A kind \in Kinds : ~RelationFault(kind, line + 1)
  <1> DEFINE at == line + 1
             l == relationLines[at]
             broken == {l.from, l.to} \ Defined # {}
             full == at > MaxSnapshotRelations
             again == \E j \in 1..(at - 1) : relationID(relationLines[j]) = relationID(l)
  <1>1. line \in Nat /\ pc \in ReferencesKnown /\ pc \in Gathering /\ ReadRelations = 1..line /\ at - 1 = line
    BY DEF IInv, Typed, ReferencesKnown, NodesKnown, Gathering, ReadRelations
  <1>2. DOMAIN nodeByID = Defined /\ seen = {relationID(relationLines[i]) : i \in 1..line}
    BY <1>1, NodeLinesRead DEF IInv, RelationsGathered
  <1>3. relationID(l) \in seen <=> again
    BY <1>1, <1>2
  <1> HIDE DEF l, again
  <1>4. RelationProblem(l) =
          IF l.form = "json" THEN "invalid_json"
          ELSE IF l.form = "schema" THEN "schema_violation"
          ELSE IF broken THEN "missing_node"
          ELSE IF full THEN "capacity_exceeded"
          ELSE IF l.form = "evidence" THEN "invalid_json"
          ELSE IF relationID(l) \in seen THEN "duplicate_relation"
          ELSE None
    BY <1>2 DEF RelationProblem
  <1>5. \A kind : RelationFault(kind, at) <=>
          \/ kind = "invalid_json" /\ l.form \in {"json", "evidence"}
          \/ kind = "schema_violation" /\ l.form = "schema"
          \/ kind = "missing_node" /\ broken
          \/ kind = "capacity_exceeded" /\ full
          \/ kind = "duplicate_relation" /\ again
    BY DEF RelationFault, l, again
  <1>6. \A kind \in Kinds : kind # None
    BY NoneAssumption
  <1>7. {"invalid_json", "schema_violation", "missing_node", "capacity_exceeded", "duplicate_relation"} \subseteq Kinds
    BY DEF Kinds
  <1> HIDE DEF broken, full, at
  <1> DEFINE p == RelationProblem(l)
  <1>8. /\ p # None => p \in Kinds /\ RelationFault(p, at)
        /\ p = None => \A kind \in Kinds : ~RelationFault(kind, at)
    <2>1. CASE l.form = "json"
      BY <1>4, <1>5, <1>6, <1>7, <2>1
    <2>2. CASE l.form = "schema"
      BY <1>4, <1>5, <1>6, <1>7, <2>2
    <2>3. CASE l.form \notin {"json", "schema"} /\ broken
      BY <1>4, <1>5, <1>6, <1>7, <2>3
    <2>4. CASE l.form \notin {"json", "schema"} /\ ~broken /\ full
      BY <1>4, <1>5, <1>6, <1>7, <2>4
    <2>5. CASE l.form = "evidence" /\ ~broken /\ ~full
      BY <1>4, <1>5, <1>6, <1>7, <2>5
    <2>6. CASE l.form \notin {"json", "schema", "evidence"} /\ ~broken /\ ~full /\ again
      BY <1>3, <1>4, <1>5, <1>6, <1>7, <2>6
    <2>7. CASE l.form \notin {"json", "schema", "evidence"} /\ ~broken /\ ~full /\ ~again
      <3>1. p = None
        BY <1>3, <1>4, <2>7
      <3> QED
        BY <1>5, <2>7, <3>1
    <2> QED
      BY <2>1, <2>2, <2>3, <2>4, <2>5, <2>6, <2>7
  <1> QED
    BY <1>8 DEF l, at

LEMMA ReadRelationFirst ==
  ASSUME IInv, FirstFollows, ReadRelation
  PROVE  FirstFollows'
  <1> DEFINE at == line + 1
             l == relationLines[at]
             kind == RelationProblem(l)
             e == FaultAt("relations", kind, at)
  <1>0. /\ pc = "relations" /\ line < Len(relationLines) /\ UNCHANGED files
        /\ nodeLines \in Seq(NodeLines) /\ relationLines \in Seq(RelationLines) /\ line \in Nat /\ Clear(6)
        /\ \A i \in 1..line : \A k \in Kinds : ~RelationFault(k, i)
    BY DEF ReadRelation, IInv, Typed, FirstFollows, PhasesBefore, LinesBefore
  <1>1. at \in DOMAIN relationLines /\ at \in Nat /\ DOMAIN relationLines = 1..Len(relationLines)
        /\ 1..at = 1..line \cup {at}
    BY <1>0
  <1>2. /\ kind # None => kind \in Kinds /\ RelationFault(kind, at)
        /\ kind = None => \A k \in Kinds : ~RelationFault(k, at)
    BY <1>0, NextRelationFault
  <1>3. CASE kind # None
    <2>1. pc' = "rejected" /\ error' = e
      BY <1>3 DEF ReadRelation, Reject, FaultAt
    <2>2. kind \in Kinds /\ RelationFault(kind, at)
      BY <1>2, <1>3
    <2> HIDE DEF kind
    <2>3. e \in RelationFaults /\ e.line = at
      BY <1>1, <2>2, RelationFaultsAre DEF FaultAt
    <2>4. ASSUME NEW f \in RelationFaults PROVE at <= f.line
      <3>1. PICK i \in DOMAIN relationLines : \E k \in Kinds : f = FaultAt("relations", k, i) /\ RelationFault(k, i)
        BY RelationFaultsAre
      <3>2. f.line = i /\ i \notin 1..line
        BY <1>0, <3>1 DEF FaultAt
      <3> QED
        BY <1>0, <1>1, <3>2
    <2>5. Faults(Phases[7]) = RelationFaults
      BY FaultsAre, PhasesAre
    <2> HIDE DEF e
    <2>6. FirstFault(e)
      BY <1>0, <2>3, <2>4, <2>5, FirstFaultIs
    <2> QED
      BY <1>0, <2>1, <2>6, FirstRejects
  <1>4. CASE kind = None
    <2>1. pc' = "relations" /\ line' = at
      BY <1>0, <1>4 DEF ReadRelation, Stays
    <2>2. \A i \in 1..at : \A k \in Kinds : ~RelationFault(k, i)
      BY <1>0, <1>1, <1>2, <1>4
    <2>3. \A i \in 1..at : i \in DOMAIN relationLines
      BY <1>0, <1>1
    <2>4. \A i \in 1..at : \A k \in Kinds : ~RelationFault(k, i)'
      BY <1>0, <2>2, <2>3, RelationFaultStays
    <2>5. LinesBefore'
      BY <2>1, <2>4 DEF LinesBefore
    <2>6. Clear(6)'
      BY <1>0, ClearStays
    <2>7. PhasesBefore'
      BY <2>1, <2>6 DEF PhasesBefore
    <2> QED
      BY <2>1, <2>5, <2>7 DEF FirstFollows, NodesNumbered, FirstDuplicate, ChainBegins, ReadingPcs
  <1> QED
    BY <1>3, <1>4

LEMMA RelationsReadFirst ==
  ASSUME IInv, FirstFollows, RelationsRead
  PROVE  FirstFollows'
  <1> DEFINE differs == manifest.relationCount # Len(relationLines)
  <1>0. /\ pc = "relations" /\ line = Len(relationLines) /\ UNCHANGED files
        /\ nodeLines \in Seq(NodeLines) /\ relationLines \in Seq(RelationLines) /\ Clear(6)
        /\ \A i \in 1..line : \A k \in Kinds : ~RelationFault(k, i)
    BY DEF RelationsRead, IInv, Typed, FirstFollows, PhasesBefore, LinesBefore
  <1>1. Clear(7)
    BY <1>0, RelationFaultsAre, FaultsAre, PhasesAre, ClearNext
  <1>2. \A f : f \in Faults(Phases[8]) <=> differs /\ f = FaultAt("relationCount", "relation_count_mismatch", 0)
    <2>1. Faults(Phases[8]) = FaultIf(differs, "relationCount", "relation_count_mismatch")
      BY FaultsAre, PhasesAre
    <2> HIDE DEF differs
    <2>2. \A f : f \in FaultIf(differs, "relationCount", "relation_count_mismatch") <=>
                   differs /\ f = FaultAt("relationCount", "relation_count_mismatch", 0)
      BY FaultIfIs
    <2> QED
      BY <2>1, <2>2
  <1>3. 8 \in 1..9 /\ Clear(8 - 1) /\ Phases[8] = "relationCount"
    BY <1>1, PhasesAre
  <1>4. CASE differs
    BY <1>0, <1>2, <1>3, <1>4, OneFault, FirstRejects DEF RelationsRead, Reject, FaultAt
  <1>5. CASE ~differs
    BY <1>0, <1>2, <1>3, <1>5, ClearNext, NoPhaseYet DEF RelationsRead, Goes
  <1> QED
    BY <1>4, <1>5

LEMMA ComponentsFoundFirst ==
  ASSUME IInv, SizesFollow, FirstFollows, ComponentsFound
  PROVE  FirstFollows'
  <1>0. /\ pc = "components" /\ frames = <<>> /\ Unvisited = {} /\ UNCHANGED files
        /\ nodeLines \in Seq(NodeLines) /\ Clear(8) /\ pc \in RelationsKnown /\ pc \in ReferencesKnown
        /\ EdgesGathered /\ TarjanIInv
    BY DEF ComponentsFound, IInv, Typed, FirstFollows, PhasesBefore, SizesFollow,
       RelationsKnown, HierarchyKnown, ReferencesKnown, NodesKnown, Gathering
  <1>1. maximum = LargestComponent
    BY <1>0, DefinedFinite, NodeLinesRead, TarjanEnds, LargestIs DEF IInv, NodesGathered, LargestOf
  <1>2. \A f : f \in Faults(Phases[9]) <=> maximum > MaxSCCNodes /\ f = FaultAt("components", "capacity_exceeded", 0)
    <2> DEFINE tooLarge == LargestComponent > MaxSCCNodes
    <2>1. Faults(Phases[9]) = FaultIf(tooLarge, "components", "capacity_exceeded")
      BY FaultsAre, PhasesAre
    <2>2. tooLarge <=> maximum > MaxSCCNodes
      BY <1>1
    <2> HIDE DEF tooLarge
    <2>3. \A f : f \in FaultIf(tooLarge, "components", "capacity_exceeded") <=>
                   tooLarge /\ f = FaultAt("components", "capacity_exceeded", 0)
      BY FaultIfIs
    <2> QED
      BY <2>1, <2>2, <2>3
  <1>3. 9 \in 1..9 /\ Clear(9 - 1) /\ Phases[9] = "components"
    BY <1>0, PhasesAre
  <1>4. CASE maximum > MaxSCCNodes
    BY <1>0, <1>2, <1>3, <1>4, OneFault, FirstRejects DEF ComponentsFound, Reject, FaultAt
  <1>5. CASE ~(maximum > MaxSCCNodes)
    BY <1>0, <1>2, <1>3, <1>5, ClearNext, NoPhaseYet DEF ComponentsFound, Goes
  <1> QED
    BY <1>4, <1>5

LEMMA FirstKeeps ==
  ASSUME IInv, IInv', SizesFollow, FirstFollows, [Next]_vars
  PROVE  FirstFollows'
  <1>1. CASE ReadManifest
    BY <1>1, ReadManifestFirst
  <1>2. CASE ReadNode
    BY <1>2, ReadNodeFirst
  <1>3. CASE NodesRead
    BY <1>3, NodesReadFirst
  <1>4. CASE CheckReference
    BY <1>4, CheckReferenceFirst
  <1>5. CASE StartChain
    BY <1>5, StartChainFirst
  <1>6. CASE Climb
    BY <1>6, ClimbFirst
  <1>7. CASE ChainCloses
    BY <1>7, ChainClosesFirst DEF SizesFollow
  <1>8. CASE SettleChain
    BY <1>8, SettleChainFirst
  <1>9. CASE HierarchyChecked
    BY <1>9, HierarchyCheckedFirst DEF SizesFollow
  <1>10. CASE ReadRelation
    BY <1>10, ReadRelationFirst
  <1>11. CASE RelationsRead
    BY <1>11, RelationsReadFirst
  <1>12. CASE VisitRoot \/ LookAtNeighbour \/ Leave
    BY <1>12, FirstStays DEF VisitRoot, LookAtNeighbour, Leave
  <1>13. CASE ComponentsFound
    BY <1>13, ComponentsFoundFirst
  <1>14. CASE Load
    BY <1>14, FirstEnds DEF Load, IInv, Typed, Pcs, Gathering
  <1>15. CASE Fail
    BY <1>15, FirstEnds DEF Fail
  <1>16. CASE UNCHANGED vars
    BY <1>16, FirstStays DEF vars
  <1> QED
    BY <1>1, <1>2, <1>3, <1>4, <1>5, <1>6, <1>7, <1>8, <1>9, <1>10, <1>11, <1>12, <1>13, <1>14,
       <1>15, <1>16 DEF Next

LEMMA FirstKnown ==
  ASSUME PhasesBefore
  PROVE  FirstProblemReported
  <1>1. CASE pc = "rejected"
    BY <1>1 DEF PhasesBefore, FirstProblemReported, FirstFault, Clear
  <1>2. CASE pc = "accepted"
    BY <1>2, PhasesAre DEF PhasesBefore, FirstProblemReported, Clear
  <1> QED
    BY <1>1, <1>2 DEF FirstProblemReported

(* For all files the error that Validate returns is the first in the order that is
   documented, of all that is wrong with them: the first phase that finds something,
   at the first line where it does, be it that of a circle of parents which the chains
   meet in an order of their own.  What passes all phases has nothing wrong with it. *)
THEOREM FirstIsReported == Spec => []FirstProblemReported
  <1> DEFINE Holds == SizesIInv /\ FirstFollows
  <1>1. Init => Holds
    <2> SUFFICES ASSUME Init PROVE Holds
      OBVIOUS
    <2>1. IInv
      BY FreshIInv DEF Init, Begin, Fresh
    <2>2. pc \notin ReferencesKnown
      BY PcsApart DEF Init, Begin
    <2>3. NothingVisited
      BY DEF Init, Begin, NothingVisited
    <2>4. SizesIInv
      BY <2>1, <2>2, <2>3, NoSizesYet DEF SizesIInv
    <2>5. FirstFollows
      BY DEF Init, Begin, FirstFollows, PhasesBefore, LinesBefore, NodesNumbered, FirstDuplicate, ChainBegins
    <2> QED
      BY <2>4, <2>5
  <1>2. Holds /\ [Next]_vars => Holds'
    BY NextKeeps, SizesKeep, FirstKeeps DEF SizesIInv
  <1>3. Holds => FirstProblemReported
    BY FirstKnown DEF FirstFollows
  <1> HIDE DEF Holds
  <1> QED
    BY <1>1, <1>2, <1>3, PTL DEF Spec

(* The sizes and the first fault, from the receipt of the upload on. *)
LEMMA FirstNotYet ==
  ASSUME FirstFollows, pc \in ReadingPcs, UNCHANGED gathered, pc' \in ReadingPcs \cup {"manifest"}
  PROVE  FirstFollows'
  <1>1. limitCount' = 0
    BY DEF FirstFollows, NodesNumbered
  <1>2. \A p \in ReadingPcs \cup {"manifest"} :
          p \notin {"nodes", "references", "hierarchy", "relations", "components", "accepted", "rejected"}
    BY DEF ReadingPcs
  <1> QED
    BY <1>1, <1>2 DEF FirstFollows, PhasesBefore, LinesBefore, NodesNumbered, FirstDuplicate, ChainBegins

CheckedIInv == SnapshotIInv /\ SizesFollow /\ FirstFollows

LEMMA CheckedInvariance == SnapshotSpec => []CheckedIInv
  <1> USE DEF CheckedIInv
  <1>1. SnapshotInit => CheckedIInv
    <2> SUFFICES ASSUME SnapshotInit PROVE CheckedIInv
      OBVIOUS
    <2>1. SnapshotIInv
      BY DEF SnapshotInit, Begin, Fresh, SnapshotIInv, ReadingPcs
    <2>2. pc \notin ReferencesKnown
      BY PcsApart DEF SnapshotInit, Begin, ReadingPcs
    <2>3. NothingVisited
      BY DEF SnapshotInit, Begin, NothingVisited
    <2>4. SizesFollow
      BY <2>2, <2>3, NoSizesYet
    <2>5. FirstFollows
      BY DEF SnapshotInit, Begin, FirstFollows, PhasesBefore, LinesBefore, NodesNumbered, FirstDuplicate, ChainBegins
    <2> QED
      BY <2>1, <2>4, <2>5
  <1>2. ASSUME CheckedIInv, [SnapshotNext]_snapshotVars PROVE CheckedIInv'
    <2>1. SnapshotIInv'
      BY <1>2, ReadingKeeps
    <2>2. CASE [Next]_vars /\ IInv
      BY <1>2, <2>1, <2>2, NextKeeps, SizesKeep, FirstKeeps
    <2>3. CASE UNCHANGED snapshotVars /\ ~IInv
      BY <1>2, <2>1, <2>3, SizesStay, FirstNotYet DEF snapshotVars, SnapshotIInv, vars
    <2>4. CASE Archive!ArchiveNext /\ UNCHANGED <<files, line, gathered, hierarchy, graph, tarjan, tables>>
      <3>1. pc \in ReadingPcs /\ pc' \in ReadingPcs \cup {"manifest", "failed"}
        BY <2>4 DEF ReadingPcs, Archive!ArchiveNext, Archive!Receive, Archive!Received,
           Archive!Open, Archive!HeaderMissing, Archive!ReadHeader, Archive!ReadEnd, Archive!CopyUnit,
           Archive!EntryBreaksOff, Archive!EntryEnds, Archive!ReadPadding, Archive!PaddingEnds,
           Archive!ReadFails, Archive!RejectArchive, Archive!Continues
      <3>2. CASE pc' = "failed"
        BY <2>1, <3>2, SizesEnd, FirstEnds
      <3>3. CASE pc' \in ReadingPcs \cup {"manifest"}
        BY <1>2, <2>1, <2>4, <3>1, <3>3, SizesBefore, FirstNotYet
      <3> QED
        BY <3>1, <3>2, <3>3
    <2>5. Next => pc \notin ReadingPcs
      BY DEF ReadingPcs, Next, ReadManifest, ReadNode, NodesRead, CheckReference, StartChain,
         Climb, ChainCloses, SettleChain, HierarchyChecked, ReadRelation, RelationsRead, VisitRoot,
         LookAtNeighbour, Leave, ComponentsFound, Load, Fail
    <2>6. UNCHANGED snapshotVars => UNCHANGED vars
      BY DEF snapshotVars
    <2> QED
      BY <1>2, <2>2, <2>3, <2>4, <2>5, <2>6 DEF SnapshotNext, SnapshotIInv
  <1> HIDE DEF CheckedIInv
  <1> QED
    BY <1>1, <1>2, PTL DEF SnapshotSpec

(* The sizes are right of whatever is uploaded. *)
THEOREM UploadedSizesAreExact == SnapshotSpec => []SizesExact
  <1>1. CheckedIInv => SizesExact
    BY SizesKnown DEF CheckedIInv, SnapshotIInv, SizesExact, ReadingPcs
  <1> QED
    BY <1>1, CheckedInvariance, PTL

(* The first problem is reported of whatever is uploaded. *)
THEOREM UploadedFirstIsReported == SnapshotSpec => []FirstProblemReported
  <1>1. CheckedIInv => FirstProblemReported
    BY FirstKnown DEF CheckedIInv, FirstFollows
  <1> QED
    BY <1>1, CheckedInvariance, PTL
===============================================================================
