------------------------------ MODULE QueryProofs ------------------------------
(***************************************************************************)
(* Every answer of module Query is of one generation, and the answer of a  *)
(* search is the documented one, for every set of requests, every number   *)
(* of handlers, whatever is published meanwhile and whatever the databases *)
(* are (for a search: if they are Sound).                                  *)
(* The invariant IInv follows a handler: until it returns it has no        *)
(* answer, and what its stages have read is of the generation it holds     *)
(* (PartsRead). Searches adds, query by query, what a search has of that   *)
(* generation. The rest is what the two statements and the recursive query *)
(* return from a sound database: the matches in their order, and the       *)
(* ancestors from the topmost down.                                        *)
(***************************************************************************)
EXTENDS Query, SequenceTheorems, FiniteSetTheorems, WellFoundedInduction, TLAPS

Pcs == {"idle", "arrived", "candidates", "details", "identities", "stages", "return", "returned"}

TypeOK ==
  /\ RegTypeOK
  /\ pc \in [Search -> Pcs]
  /\ parts \in [Search -> Seq(Op \cup {None})]
  /\ input = [s \in Search |-> input[s]]
  /\ answer = [s \in Search |-> answer[s]]

(* Until a handler is about to return, it has not answered. *)
Unanswered == \A s \in Search : pc[s] \notin {"return", "returned"} => answer[s].status = "none"

(* The two kinds of request go their own ways. *)
KindsApart ==
  \A s \in Search : pc[s] \in {"candidates", "details", "identities"} => input[s].kind = "targets"

(* What the stages have read is of the generation the handler holds. *)
PartsRead ==
  \A s \in Search :
    /\ pc[s] \in {"idle", "arrived"} => parts[s] = <<>>
    /\ pc[s] = "stages" => \A k \in DOMAIN parts[s] : parts[s][k] \in {reading[s], None}

AnswersOfOne ==
  \A s \in Search :
    Answered(s, "analysis") => \A k \in DOMAIN Stages : answer[s].read[k] \in {answer[s].snapshotId, None}

MissingIsMissing ==
  \A s \in Search :
    input[s].kind = "analysis" /\ pc[s] = "return" /\ answer[s].status = "target-not-found" =>
      ~(/\ input[s].target \in DOMAIN database[reading[s]].type
        /\ database[reading[s]].type[input[s].target] \in TargetTypes)

IInv == TypeOK /\ Unanswered /\ KindsApart /\ PartsRead /\ AnswersOfOne /\ MissingIsMissing

USE DEF Goes, handlers, regVars

(* Init establishes the invariant. *)
LEMMA InitInv == Init => IInv
  <1> SUFFICES ASSUME Init PROVE IInv
    OBVIOUS
  <1>1. TypeOK
    BY DEF Init, Begin, TypeOK, RegTypeOK, Pcs
  <1>2. \A s \in Search : pc[s] = "idle" /\ answer[s].status = "none" /\ parts[s] = <<>>
    BY DEF Init, Begin, NoAnswer
  <1>3. Unanswered /\ KindsApart /\ PartsRead
    BY <1>2 DEF Unanswered, KindsApart, PartsRead
  <1>4. AnswersOfOne /\ MissingIsMissing
    BY <1>2 DEF AnswersOfOne, MissingIsMissing, Answered
  <1> QED
    BY <1>1, <1>3, <1>4 DEF IInv

(* A step that answers handler s with a problem and sends it to its return. *)
LEMMA ProblemKeeps ==
  ASSUME IInv, RegTypeOK', NEW s \in Search, NEW type, Problem(s, type), type \notin {"ok", "none"},
         pc' = [pc EXCEPT ![s] = "return"],
         UNCHANGED <<database, input, parts>>,
         \A p \in Search \ {s} : reading'[p] = reading[p],
         type = "target-not-found" => ~TargetFound(s) /\ reading' = reading
  PROVE  IInv'
  <1> USE DEF IInv
  <1>1. /\ answer'[s].status = type
        /\ \A p \in Search \ {s} : answer'[p] = answer[p] /\ pc'[p] = pc[p]
        /\ pc'[s] = "return"
    BY DEF TypeOK, Problem
  <1>2. TypeOK'
    BY DEF TypeOK, Pcs, Problem
  <1>3. Unanswered' /\ KindsApart' /\ PartsRead'
    BY <1>1 DEF Unanswered, KindsApart, PartsRead
  <1>4. AnswersOfOne'
    BY <1>1 DEF AnswersOfOne, Answered
  <1>5. MissingIsMissing'
    BY <1>1 DEF MissingIsMissing, TargetFound, Db, ReadFrom
  <1> QED
    BY <1>2, <1>3, <1>4, <1>5

(* A step that leaves the answers alone and does not take handler s to its return,
   nor a generation from any handler that is on its way. *)
LEMMA SilentKeeps ==
  ASSUME IInv, RegTypeOK', NEW s \in Search, NEW place \in Pcs \ {"return"},
         pc' = [pc EXCEPT ![s] = place],
         place = "returned" => pc[s] = "return",
         pc[s] \in {"return", "returned"} => place = "returned",
         UNCHANGED <<database, input, answer>>,
         parts' \in [Search -> Seq(Op \cup {None})],
         \A p \in Search \ {s} : reading'[p] = reading[p] /\ parts'[p] = parts[p],
         place \in {"candidates", "details", "identities"} => input[s].kind = "targets",
         place \in {"idle", "arrived"} => parts'[s] = <<>>,
         place = "stages" => \A k \in DOMAIN parts'[s] : parts'[s][k] \in {reading'[s], None}
  PROVE  IInv'
  <1> USE DEF IInv
  <1>1. pc'[s] = place /\ \A p \in Search \ {s} : pc'[p] = pc[p]
    BY DEF TypeOK
  <1>2. TypeOK'
    BY DEF TypeOK, Pcs
  <1>3. Unanswered' /\ KindsApart' /\ PartsRead'
    BY <1>1 DEF Unanswered, KindsApart, PartsRead
  <1>4. AnswersOfOne' /\ MissingIsMissing'
    BY <1>1 DEF AnswersOfOne, MissingIsMissing, Answered
  <1> QED
    BY <1>2, <1>3, <1>4

(* The register's own steps keep its types. *)
LEMMA RegisterTypes ==
  ASSUME RegTypeOK
  PROVE  /\ \A s \in Search : BeginSearch(s) \/ EndSearch(s) => RegTypeOK'
         /\ \A o \in Op : Reserve(o) \/ Publish(o) \/ Discard(o) => RegTypeOK'
         /\ Shutdown => RegTypeOK'
         /\ UNCHANGED regVars => RegTypeOK'
  BY DEF RegTypeOK, BeginSearch, EndSearch, Reserve, Publish, Discard, Shutdown


(* A step of imports or the shutdown leaves every handler and its generation alone,
   and so does the passing of a deadline. *)
LEMMA OthersKeep ==
  ASSUME IInv, RegTypeOK', UNCHANGED <<reading, database, input, pc, parts, answer>>
  PROVE  IInv'
  <1> USE DEF IInv
  <1>1. TypeOK' /\ Unanswered' /\ KindsApart' /\ PartsRead'
    BY DEF TypeOK, Unanswered, KindsApart, PartsRead
  <1>2. AnswersOfOne' /\ MissingIsMissing'
    BY DEF AnswersOfOne, MissingIsMissing, Answered
  <1> QED
    BY <1>1, <1>2

(* A request comes to a handler that has done nothing yet. *)
LEMMA ArriveKeeps ==
  ASSUME IInv, NEW s \in Search, NEW request, Arrive(s, request)
  PROVE  IInv'
  <1> USE DEF IInv
  <1>1. /\ pc[s] = "idle"
        /\ input' = [input EXCEPT ![s] = request]
        /\ pc' = [pc EXCEPT ![s] = "arrived"]
        /\ UNCHANGED <<regVars, database, parts, answer>>
    BY DEF Arrive
  <1>2. /\ pc'[s] = "arrived" /\ answer'[s].status = "none" /\ parts'[s] = <<>>
        /\ \A p \in Search \ {s} : input'[p] = input[p] /\ pc'[p] = pc[p]
    BY <1>1 DEF TypeOK, Unanswered, PartsRead
  <1>3. TypeOK'
    BY <1>1 DEF TypeOK, RegTypeOK, Pcs
  <1>4. Unanswered' /\ KindsApart' /\ PartsRead'
    BY <1>1, <1>2 DEF Unanswered, KindsApart, PartsRead
  <1>5. AnswersOfOne' /\ MissingIsMissing'
    BY <1>1, <1>2 DEF AnswersOfOne, MissingIsMissing, Answered
  <1> QED
    BY <1>3, <1>4, <1>5

(* A handler that acquires a generation has read nothing yet. *)
LEMMA AcquireKeeps ==
  ASSUME IInv, NEW s \in Search, Acquire(s)
  PROVE  IInv'
  <1> USE DEF IInv
  <1>1. /\ pc[s] = "arrived"
        /\ RegTypeOK'
        /\ \A p \in Search \ {s} : reading'[p] = reading[p]
        /\ UNCHANGED <<database, input, parts>>
    BY RegisterTypes DEF Acquire, BeginSearch, TypeOK, RegTypeOK
  <1>2. CASE Problem(s, "analysis-timeout") /\ pc' = [pc EXCEPT ![s] = "return"]
    BY <1>1, <1>2, ProblemKeeps
  <1>3. CASE Problem(s, "internal-error") /\ pc' = [pc EXCEPT ![s] = "return"]
    BY <1>1, <1>3, ProblemKeeps
  <1>4. CASE Problem(s, "snapshot-not-loaded") /\ pc' = [pc EXCEPT ![s] = "return"]
    BY <1>1, <1>4, ProblemKeeps
  <1>5. CASE /\ pc' = [pc EXCEPT ![s] = IF input[s].kind = "targets" THEN "candidates" ELSE "stages"]
             /\ UNCHANGED answer
    <2>1. parts' \in [Search -> Seq(Op \cup {None})] /\ parts'[s] = <<>>
      BY <1>1 DEF TypeOK, PartsRead
    <2>2. CASE input[s].kind = "targets"
      BY <1>1, <1>5, <2>1, <2>2, SilentKeeps DEF Pcs
    <2>3. CASE input[s].kind # "targets"
      <3>1. pc' = [pc EXCEPT ![s] = "stages"]
        BY <1>5, <2>3
      <3>2. \A k \in DOMAIN parts'[s] : parts'[s][k] \in {reading'[s], None}
        BY <2>1
      <3> QED
        BY <1>1, <1>5, <2>1, <3>1, <3>2, SilentKeeps DEF Pcs
    <2> QED
      BY <2>2, <2>3
  <1> QED
    BY <1>2, <1>3, <1>4, <1>5 DEF Acquire

(* A stage reads the generation that the handler holds, or finds no such target in it. *)
LEMMA StageEndsKeeps ==
  ASSUME IInv, NEW s \in Search, StageEnds(s)
  PROVE  IInv'
  <1> USE DEF IInv
  <1> DEFINE stage == Stages[Len(parts[s]) + 1]
  <1> DEFINE read == IF Reads(stage) THEN reading[s] ELSE None
  <1>1. /\ pc[s] = "stages"
        /\ UNCHANGED <<regVars, database, input>>
        /\ RegTypeOK'
    BY RegisterTypes DEF StageEnds, TypeOK
  <1>2. CASE /\ Problem(s, "analysis-timeout")
             /\ pc' = [pc EXCEPT ![s] = "return"]
             /\ UNCHANGED parts
    BY <1>1, <1>2, ProblemKeeps
  <1>3. CASE /\ ~TargetFound(s)
             /\ Problem(s, "target-not-found")
             /\ pc' = [pc EXCEPT ![s] = "return"]
             /\ UNCHANGED parts
    BY <1>1, <1>3, ProblemKeeps
  <1>4. CASE /\ parts' = [parts EXCEPT ![s] = Append(parts[s], read)]
             /\ UNCHANGED <<pc, answer>>
    <2>1. parts[s] \in Seq(Op \cup {None}) /\ read \in Op \cup {None} /\ read \in {reading[s], None}
      BY DEF TypeOK, RegTypeOK
    <2>2. /\ parts' \in [Search -> Seq(Op \cup {None})]
          /\ parts'[s] = Append(parts[s], read)
          /\ \A p \in Search \ {s} : parts'[p] = parts[p]
      BY <1>4, <2>1 DEF TypeOK
    <2>3. \A k \in DOMAIN parts'[s] : parts'[s][k] \in {reading'[s], None}
      <3>1. \A k \in 1..Len(parts[s]) : parts[s][k] \in {reading[s], None}
        BY <1>1, <2>1 DEF PartsRead
      <3> QED
        BY <1>1, <2>1, <2>2, <3>1
    <2>4. pc' = [pc EXCEPT ![s] = "stages"]
      BY <1>1, <1>4 DEF TypeOK
    <2> QED
      BY <1>1, <1>4, <2>2, <2>3, <2>4, SilentKeeps DEF Pcs
  <1> QED
    BY <1>2, <1>3, <1>4 DEF StageEnds, ReadFrom

(* The answer of an analysis names the generation that its stages have read. *)
LEMMA AnalysisEndsKeeps ==
  ASSUME IInv, NEW s \in Search, AnalysisEnds(s)
  PROVE  IInv'
  <1> USE DEF IInv
  <1>1. /\ pc[s] = "stages"
        /\ Len(parts[s]) = Len(Stages)
        /\ pc' = [pc EXCEPT ![s] = "return"]
        /\ UNCHANGED <<regVars, database, input, parts>>
        /\ RegTypeOK'
    BY RegisterTypes DEF AnalysisEnds, TypeOK
  <1>2. CASE Problem(s, "analysis-timeout")
    BY <1>1, <1>2, ProblemKeeps
  <1>3. CASE answer' = [answer EXCEPT ![s] =
                          [status |-> "ok", snapshotId |-> reading[s], read |-> parts[s]]]
    <2>1. /\ answer'[s] = [status |-> "ok", snapshotId |-> reading[s], read |-> parts[s]]
          /\ pc'[s] = "return"
          /\ \A p \in Search \ {s} : answer'[p] = answer[p] /\ pc'[p] = pc[p]
      BY <1>1, <1>3 DEF TypeOK
    <2>2. \A k \in DOMAIN Stages : parts[s][k] \in {reading[s], None}
      <3>1. DOMAIN Stages = DOMAIN parts[s]
        <4>1. Len(Stages) = 6 /\ DOMAIN Stages = 1..6
          BY DEF Stages
        <4>2. parts[s] \in Seq(Op \cup {None})
          BY DEF TypeOK
        <4> QED
          BY <4>1, <4>2, <1>1
      <3> QED
        BY <3>1, <1>1 DEF PartsRead
    <2>3. TypeOK'
      BY <1>1, <1>3 DEF TypeOK, Pcs
    <2>4. Unanswered' /\ KindsApart' /\ PartsRead'
      BY <1>1, <2>1 DEF Unanswered, KindsApart, PartsRead
    <2>5. AnswersOfOne' /\ MissingIsMissing'
      BY <1>1, <2>1, <2>2 DEF AnswersOfOne, MissingIsMissing, Answered
    <2> QED
      BY <2>3, <2>4, <2>5
  <1> QED
    BY <1>2, <1>3 DEF AnalysisEnds

(* The answer of a search is none of an analysis. *)
LEMMA LoadIdentitiesKeeps ==
  ASSUME IInv, NEW s \in Search, LoadIdentities(s)
  PROVE  IInv'
  <1> USE DEF IInv
  <1>1. /\ pc[s] = "identities"
        /\ pc' = [pc EXCEPT ![s] = "return"]
        /\ UNCHANGED <<regVars, database, input, parts>>
        /\ \E a : answer' = [answer EXCEPT ![s] = a]
    BY DEF LoadIdentities
  <1>2. /\ input'[s].kind = "targets"
        /\ pc'[s] = "return"
        /\ \A p \in Search \ {s} : answer'[p] = answer[p] /\ pc'[p] = pc[p]
    BY <1>1 DEF TypeOK, KindsApart
  <1>3. TypeOK'
    BY <1>1, RegisterTypes DEF TypeOK, Pcs
  <1>4. Unanswered' /\ KindsApart' /\ PartsRead'
    BY <1>1, <1>2 DEF Unanswered, KindsApart, PartsRead
  <1>5. AnswersOfOne' /\ MissingIsMissing'
    BY <1>1, <1>2 DEF AnswersOfOne, MissingIsMissing, Answered
  <1> QED
    BY <1>3, <1>4, <1>5

(* The other steps of a handler. *)
LEMMA RestKeeps ==
  ASSUME IInv, NEW s \in Search,
         Refuse(s) \/ NoRequestID(s) \/ QueryFails(s) \/ SearchCandidates(s) \/ LoadLineage(s) \/ Return(s)
  PROVE  IInv'
  <1> USE DEF IInv
  <1>1. CASE Refuse(s)
    BY <1>1, ProblemKeeps, RegisterTypes DEF Refuse, TypeOK
  <1>6. CASE NoRequestID(s)
    BY <1>6, ProblemKeeps, RegisterTypes DEF NoRequestID, TypeOK
  <1>2. CASE QueryFails(s)
    <2>1. PICK type \in {"analysis-timeout", "internal-error"} : Problem(s, type)
      BY <1>2 DEF QueryFails
    <2> QED
      BY <1>2, <2>1, ProblemKeeps, RegisterTypes DEF QueryFails, TypeOK
  <1>3. CASE SearchCandidates(s)
    BY <1>3, SilentKeeps, RegisterTypes DEF SearchCandidates, TypeOK, KindsApart, Pcs
  <1>4. CASE LoadLineage(s)
    <2>1. /\ pc[s] = "details"
          /\ UNCHANGED <<regVars, database, input, parts>>
          /\ \/ pc' = [pc EXCEPT ![s] = "identities"] /\ UNCHANGED answer
             \/ pc' = [pc EXCEPT ![s] = "return"] /\ Problem(s, "internal-error")
      BY <1>4 DEF LoadLineage
    <2> QED
      BY <2>1, SilentKeeps, ProblemKeeps, RegisterTypes DEF TypeOK, KindsApart, Pcs
  <1>5. CASE Return(s)
    <2>1. /\ pc[s] = "return"
          /\ pc' = [pc EXCEPT ![s] = "returned"]
          /\ UNCHANGED <<database, input, parts, answer>>
          /\ RegTypeOK'
          /\ \A p \in Search \ {s} : reading'[p] = reading[p]
      BY <1>5, RegisterTypes DEF Return, EndSearch, TypeOK, RegTypeOK
    <2> QED
      BY <2>1, SilentKeeps DEF TypeOK, Pcs
  <1> QED
    BY <1>1, <1>2, <1>3, <1>4, <1>5, <1>6

(* Every step keeps the invariant, whatever may arrive. *)
LEMMA NextInv ==
  ASSUME NEW requests, IInv, [NextOn(requests)]_vars
  PROVE  IInv'
  <1>1. ASSUME NEW s \in Search, Step(s) PROVE IInv'
    BY <1>1, RestKeeps, AcquireKeeps, StageEndsKeeps, AnalysisEndsKeeps, LoadIdentitiesKeeps DEF Step
  <1>2. ASSUME NEW s \in Search, Expire(s) PROVE IInv'
    BY <1>2, OthersKeep, RegisterTypes DEF Expire, IInv, TypeOK
  <1>3. ASSUME NEW s \in Search, NEW r \in requests[s], Arrive(s, r) PROVE IInv'
    BY <1>3, ArriveKeeps
  <1>4. CASE Others
    <2>1. RegTypeOK' /\ UNCHANGED <<reading, database, input, pc, parts, answer>>
      BY <1>4, RegisterTypes DEF Others, Reserve, Publish, Discard, Shutdown, IInv, TypeOK
    <2> QED
      BY <2>1, OthersKeep
  <1>5. CASE UNCHANGED vars
    BY <1>5, OthersKeep, RegisterTypes DEF vars, IInv, TypeOK
  <1> QED
    BY <1>1, <1>2, <1>3, <1>4, <1>5 DEF NextOn

(* The invariant holds in every reachable state, whatever requests may arrive. *)
THEOREM Invariance ==
  ASSUME NEW CONSTANT requests
  PROVE  Spec(requests) => []IInv
  <1>1. IInv /\ [NextOn(requests)]_vars => IInv'
    BY NextInv
  <1> QED
    BY <1>1, InitInv, PTL DEF Spec

(* What an answered analysis has read is of the generation the answer names, and a
   target is reported missing only by a generation that lacks it (analysis.go:317). *)
THEOREM AnswersAreOfOneGeneration ==
  ASSUME NEW CONSTANT requests
  PROVE  Spec(requests) => []OneGenerationPerAnswer
  <1>1. IInv => OneGenerationPerAnswer
    BY DEF IInv, AnswersOfOne, MissingIsMissing, OneGenerationPerAnswer
  <1> QED
    BY <1>1, Invariance, PTL

--------------------------------------------------------------------------------
(* Numbers, and functions by recursion. *)

(* Induction, with the property as a set. *)
LEMMA SetInduction ==
  ASSUME NEW S, 0 \in S, \A n \in Nat : n \in S => n + 1 \in S
  PROVE  Nat \subseteq S
  <1> DEFINE R == OpToRel(<, Nat)
             T == Nat \ S
  <1> SUFFICES ASSUME T # {} PROVE FALSE
    OBVIOUS
  <1>1. IsWellFoundedOn(R, Nat)
    BY NatLessThanWellFounded
  <1>2. PICK m \in T : \A k \in T : <<k, m>> \notin R
    <2>1. T \subseteq Nat
      OBVIOUS
    <2> HIDE DEF T, R
    <2> QED
      BY <1>1, <2>1, WFMin
  <1>3. m \in Nat /\ m # 0
    OBVIOUS
  <1>4. m - 1 \in Nat /\ m - 1 \in T
    BY <1>3
  <1>5. <<m - 1, m>> \in R
    BY <1>3, <1>4 DEF OpToRel
  <1> QED
    BY <1>2, <1>4, <1>5

(* A set of numbers with a member has a least one, and a bounded one a greatest. *)
LEMMA LeastExists ==
  ASSUME NEW T \in SUBSET Nat, T # {}
  PROVE  \E m \in T : \A k \in T : m <= k
  <1>1. IsWellFoundedOn(OpToRel(<, Nat), Nat)
    BY NatLessThanWellFounded
  <1>2. PICK m \in T : \A k \in T : <<k, m>> \notin OpToRel(<, Nat)
    BY <1>1, WFMin
  <1>3. ASSUME NEW k \in T PROVE m <= k
    <2> SUFFICES ASSUME k < m PROVE FALSE
      OBVIOUS
    <2>1. <<k, m>> \in OpToRel(<, Nat)
      BY DEF OpToRel
    <2> QED
      BY <1>2, <2>1
  <1> QED
    BY <1>3

(* A function of k that is given by its value for k - 1. *)
Follows(f, n, a, step) == f[0] = a /\ \A k \in 1..n : f[k] = step[k][f[k - 1]]

(* A value can be computed by a given number of steps. *)
LEMMA Recursion ==
  ASSUME NEW X, NEW n \in Nat, NEW a \in X, NEW step \in [1..n -> [X -> X]]
  PROVE  \E f \in [0..n -> X] : Follows(f, n, a, step)
  <1> DEFINE Upto(f, m) == f[0] = a /\ \A k \in 1..m : f[k] = step[k][f[k - 1]]
             K == {m \in Nat : m <= n => \E f \in [0..n -> X] : Upto(f, m)}
  <1>1. 0 \in K
    <2>1. Upto([k \in 0..n |-> a], 0)
      OBVIOUS
    <2> HIDE DEF Upto
    <2> QED
      BY <2>1
  <1>2. ASSUME NEW m \in Nat, m \in K PROVE m + 1 \in K
    <2> DEFINE j == m + 1
    <2>1. CASE ~(j <= n)
      BY <2>1
    <2>2. CASE j <= n
      <3>1. PICK f \in [0..n -> X] : Upto(f, m)
        <4> HIDE DEF Upto
        <4> QED
          BY <1>2, <2>2
      <3>2. j \in 1..n /\ j \in 0..n /\ m \in 0..n /\ j - 1 = m /\ 1..j = 1..m \cup {j} /\ j # 0
        BY <2>2
      <3>3. \A k \in 1..m : k \in 0..n /\ k # j /\ k - 1 \in 0..n /\ k - 1 # j
        BY <2>2
      <3> HIDE DEF j
      <3> DEFINE g == [k \in 0..n |-> IF k = j THEN step[j][f[m]] ELSE f[k]]
      <3>4. step[j][f[m]] \in X
        BY <3>2
      <3>5. g \in [0..n -> X]
        BY <3>4
      <3>6. g[0] = a /\ g[j] = step[j][g[j - 1]]
        BY <3>1, <3>2
      <3>7. \A k \in 1..m : g[k] = f[k] /\ g[k - 1] = f[k - 1]
        BY <3>3
      <3> HIDE DEF g
      <3>8. \A k \in 1..j : g[k] = step[k][g[k - 1]]
        BY <3>1, <3>2, <3>6, <3>7
      <3>9. Upto(g, j)
        BY <3>6, <3>8
      <3> HIDE DEF Upto
      <3> QED
        BY <3>5, <3>9 DEF j
    <2> QED
      BY <2>1, <2>2
  <1>3. n \in K
    <2> HIDE DEF K
    <2> QED
      BY <1>1, <1>2, SetInduction
  <1> QED
    BY <1>3 DEF Follows

--------------------------------------------------------------------------------
(* The rows of a statement. *)

(* What Load stores, as far as the searches rely on it: numbers for IDs, parents that
   are nodes and form no circle, an identity for each node. *)
Sound(db) ==
  LET ids == DOMAIN db.type IN
  /\ IsFiniteSet(ids) /\ ids \subseteq Nat
  /\ db.parent \in [ids -> ids \cup {Null}]
  /\ db.path \in [ids -> Nat \cup {Null}]
  /\ db.identity \in [ids -> [namespace : Nat, localId : Nat]]
  /\ \A S \in SUBSET ids : S # {} => \E id \in S : db.parent[id] \notin S

(* A finite set with a strict and total order can be listed in that order. *)
LEMMA SortedExists ==
  ASSUME NEW T, IsFiniteSet(T), NEW R,
         \A a \in T : <<a, a>> \notin R,
         \A a, b, c \in T : <<a, b>> \in R /\ <<b, c>> \in R => <<a, c>> \in R,
         \A a, b \in T : a # b => <<a, b>> \in R \/ <<b, a>> \in R
  PROVE  \E s \in [1..Cardinality(T) -> T] : \A j, k \in DOMAIN s : j < k => <<s[j], s[k]>> \in R
  <1> DEFINE n == Cardinality(T)
             below(t) == {m \in T : <<m, t>> \in R}
             rank == [t \in T |-> Cardinality(below(t)) + 1]
  <1>1. n \in Nat
    BY FS_CardinalityType
  <1>2. ASSUME NEW t \in T
        PROVE  /\ IsFiniteSet(below(t)) /\ Cardinality(below(t)) \in Nat
               /\ Cardinality(below(t)) + 1 <= n
               /\ Cardinality(below(t) \cup {t}) = Cardinality(below(t)) + 1
    <2>1. IsFiniteSet(below(t))
      BY FS_Subset
    <2>2. t \notin below(t)
      OBVIOUS
    <2>3. below(t) \cup {t} \in SUBSET T
      OBVIOUS
    <2> DEFINE B == below(t)
    <2> HIDE DEF B
    <2>4. Cardinality(B) \in Nat /\ Cardinality(B \cup {t}) = Cardinality(B) + 1
      BY <2>1, <2>2, FS_CardinalityType, FS_AddElement DEF B
    <2>5. Cardinality(B \cup {t}) <= n
      BY <2>3, FS_Subset DEF B
    <2> QED
      BY <2>1, <2>4, <2>5 DEF B
  <1>3. ASSUME NEW t \in T, NEW u \in T, <<t, u>> \in R PROVE rank[t] < rank[u]
    <2>1. below(t) \cup {t} \in SUBSET below(u)
      BY <1>3
    <2>2. Cardinality(below(t) \cup {t}) <= Cardinality(below(u))
      BY <1>2, <2>1, FS_Subset
    <2> DEFINE x == Cardinality(below(t))
               y == Cardinality(below(u))
    <2>3. x \in Nat /\ y \in Nat /\ x + 1 <= y /\ rank[t] = x + 1 /\ rank[u] = y + 1
      BY <1>2, <2>2
    <2> HIDE DEF x, y, rank
    <2> QED
      BY <2>3
  <1>4. rank \in [T -> 1..n]
    <2> SUFFICES ASSUME NEW t \in T PROVE Cardinality(below(t)) + 1 \in 1..n
      OBVIOUS
    <2> DEFINE x == Cardinality(below(t))
    <2>1. x \in Nat /\ x + 1 <= n
      BY <1>2
    <2> HIDE DEF x, n
    <2>2. x + 1 \in 1..n
      BY <1>1, <2>1
    <2> QED
      BY <2>2 DEF x
  <1> HIDE DEF rank, below, n
  <1>5. \A t \in T : rank[t] \in 1..n
    BY <1>4
  <1>6. ASSUME NEW t \in T, NEW u \in T, rank[t] <= rank[u] PROVE t = u \/ <<t, u>> \in R
    <2> SUFFICES ASSUME t # u, <<t, u>> \notin R PROVE FALSE
      OBVIOUS
    <2>1. <<u, t>> \in R
      OBVIOUS
    <2>2. rank[u] < rank[t]
      BY <1>3, <2>1
    <2> QED
      BY <1>1, <1>5, <1>6, <2>2
  <1>7. rank \in Injection(T, 1..n)
    <2>1. ASSUME NEW t \in T, NEW u \in T, rank[t] = rank[u] PROVE t = u
      <3>1. rank[t] <= rank[u] /\ rank[u] <= rank[t]
        BY <1>1, <1>5, <2>1
      <3>2. t = u \/ (<<t, u>> \in R /\ <<u, t>> \in R)
        BY <1>6, <3>1
      <3> QED
        BY <3>2
    <2> QED
      BY <1>4, <2>1 DEF Injection, IsInjective
  <1>8. IsFiniteSet(1..n) /\ Cardinality(1..n) = n
    BY <1>1, FS_Interval
  <1>9. rank \in Surjection(T, 1..n)
    BY <1>7, <1>8, FS_Injection DEF n
  <1>10. \A k \in 1..n : \E t \in T : rank[t] = k
    BY <1>9 DEF Surjection
  <1> DEFINE s == [k \in 1..n |-> CHOOSE t \in T : rank[t] = k]
  <1>11. s \in [1..n -> T] /\ \A k \in 1..n : s[k] \in T /\ rank[s[k]] = k
    BY <1>10
  <1> HIDE DEF s
  <1>12. ASSUME NEW j \in 1..n, NEW k \in 1..n, j < k PROVE <<s[j], s[k]>> \in R
    <2>1. s[j] # s[k] /\ rank[s[j]] <= rank[s[k]]
      BY <1>1, <1>11, <1>12
    <2> QED
      BY <1>6, <1>11, <2>1
  <1>13. DOMAIN s = 1..n
    BY <1>11
  <1> QED
    BY <1>11, <1>12, <1>13 DEF n

IsKey(k) == DOMAIN k = 1..4 /\ \A j \in 1..4 : k[j] \in Int

Less4(k, l) ==
  \/ k[1] < l[1]
  \/ k[1] = l[1] /\ k[2] < l[2]
  \/ k[1] = l[1] /\ k[2] = l[2] /\ k[3] < l[3]
  \/ k[1] = l[1] /\ k[2] = l[2] /\ k[3] = l[3] /\ k[4] < l[4]

(* Four numbers are compared one after the other. *)
LEMMA KeysCompare ==
  ASSUME NEW k, NEW l, IsKey(k), IsKey(l)
  PROVE  KeyLess(k, l) <=> Less4(k, l)
  <1> DEFINE Less(i) == k[i] < l[i] /\ \A j \in 1..(i - 1) : k[j] = l[j]
  <1>1. DOMAIN k = {1, 2, 3, 4}
    BY DEF IsKey
  <1>2. KeyLess(k, l) <=> Less(1) \/ Less(2) \/ Less(3) \/ Less(4)
    <2>1. KeyLess(k, l) <=> \E i \in DOMAIN k : Less(i)
      BY DEF KeyLess
    <2> HIDE DEF Less
    <2> QED
      BY <1>1, <2>1
  <1>3. 1..(1 - 1) = {} /\ 1..(2 - 1) = {1} /\ 1..(3 - 1) = {1, 2} /\ 1..(4 - 1) = {1, 2, 3}
    OBVIOUS
  <1>4. /\ Less(1) <=> k[1] < l[1]
        /\ Less(2) <=> k[2] < l[2] /\ k[1] = l[1]
        /\ Less(3) <=> k[3] < l[3] /\ k[1] = l[1] /\ k[2] = l[2]
        /\ Less(4) <=> k[4] < l[4] /\ k[1] = l[1] /\ k[2] = l[2] /\ k[3] = l[3]
    BY <1>3
  <1> HIDE DEF Less
  <1> QED
    BY <1>2, <1>4 DEF Less4

(* What a match is. *)
LEMMA MatchIs ==
  ASSUME NEW db, Sound(db), NEW i, ~InvalidTargets(i), NEW a \in Matches(db, i)
  PROVE  /\ a \in DOMAIN db.type /\ a \in Nat
         /\ db.type[a] \in {"job", "job_network"}
         /\ db.path[a] \in Nat \cup {Null}
         /\ db.identity[a].namespace \in Nat /\ db.identity[a].localId \in Nat
         /\ i.jobId # Null => db.identity[a].localId = i.jobId
         /\ i.jobId = Null =>
              FirstMatch(matchedBy(db, a, i))
                = IF a = i.query THEN 1
                  ELSE IF NameForm[db.name[a]] = NameForm[i.query] THEN 2 ELSE 3
  <1>1. a \in DOMAIN db.type /\ a \in Nat /\ db.path[a] \in Nat \cup {Null}
        /\ db.identity[a] \in [namespace : Nat, localId : Nat]
    BY DEF Matches, Sound
  <1>2. db.type[a] \in {"job", "job_network"}
    BY DEF Matches, types, InvalidTargets, TargetTypes
  <1>3. i.jobId # Null => db.identity[a].localId = i.jobId
    BY DEF Matches
  <1>4. ASSUME i.jobId = Null
        PROVE  FirstMatch(matchedBy(db, a, i))
                 = IF a = i.query THEN 1
                   ELSE IF NameForm[db.name[a]] = NameForm[i.query] THEN 2 ELSE 3
    <2> DEFINE F == matchedBy(db, a, i)
    <2>1. ("id" \in F <=> a = i.query)
          /\ ("name" \in F <=> NameForm[db.name[a]] = NameForm[i.query])
      BY <1>4 DEF matchedBy
    <2> HIDE DEF F
    <2>2. F \cap {"id", "name"} = {"name"} <=> "id" \notin F /\ "name" \in F
      <3>1. ASSUME "id" \notin F, "name" \in F PROVE F \cap {"id", "name"} = {"name"}
        BY <3>1
      <3>2. ASSUME F \cap {"id", "name"} = {"name"} PROVE "id" \notin F /\ "name" \in F
        <4>1. "id" \notin F \cap {"id", "name"} /\ "name" \in F \cap {"id", "name"}
          BY <3>2
        <4> QED
          BY <4>1
      <3> QED
        BY <3>1, <3>2
    <2>3. FirstMatch(F) = IF "id" \in F THEN 1 ELSE IF "name" \in F THEN 2 ELSE 3
      BY <2>2 DEF FirstMatch
    <2> QED
      BY <2>1, <2>3 DEF F
  <1> QED
    BY <1>1, <1>2, <1>3, <1>4

(* The key is a list of four numbers that ends with the ID. *)
LEMMA KeyIsNumbers ==
  ASSUME NEW db, Sound(db), NEW i, ~InvalidTargets(i), NEW a \in Matches(db, i)
  PROVE  IsKey(SortKey(db, a, i)) /\ SortKey(db, a, i)[4] = a
  <1>0. \A x, y, z \in Int : IsKey(<<x, y, z, a>>) /\ <<x, y, z, a>>[4] = a
    BY MatchIs DEF IsKey
  <1>1. /\ a \in Nat /\ db.path[a] \in Nat \cup {Null}
        /\ db.identity[a].namespace \in Nat /\ db.identity[a].localId \in Nat
    BY MatchIs
  <1>2. CASE i.jobId # Null
    <2>1. TypeRank(db.type[a]) \in Int
      BY DEF TypeRank
    <2> QED
      BY <1>0, <1>1, <1>2, <2>1 DEF SortKey
  <1>3. CASE i.jobId = Null
    <2> DEFINE x == CASE a = i.query -> 0
                      [] a # i.query /\ NameForm[db.name[a]] = NameForm[i.query] -> 1
                      [] OTHER -> 2
               y == IF db.path[a] = Null THEN 1 ELSE 0
               z == IF db.path[a] = Null THEN 0 ELSE db.path[a]
    <2>1. x \in Int /\ y \in Int /\ z \in Int
      BY <1>1
    <2>2. SortKey(db, a, i) = <<x, y, z, a>>
      BY <1>3, Zenon DEF SortKey
    <2> HIDE DEF x, y, z
    <2> QED
      BY <1>0, <2>1, <2>2
  <1> QED
    BY <1>2, <1>3

(* The statement's key orders the matches as the documentation says. *)
LEMMA KeyIsOrder ==
  ASSUME NEW db, Sound(db), NEW i, ~InvalidTargets(i),
         NEW a \in Matches(db, i), NEW b \in Matches(db, i)
  PROVE  KeyLess(SortKey(db, a, i), SortKey(db, b, i)) <=> ComesBefore(db, i, a, b)
  <1> DEFINE key(x) == SortKey(db, x, i)
  <1>1. KeyLess(key(a), key(b)) <=> Less4(key(a), key(b))
    <2>1. IsKey(key(a)) /\ IsKey(key(b))
      BY KeyIsNumbers
    <2> HIDE DEF key
    <2> QED
      BY <2>1, KeysCompare
  <1>2. CASE i.jobId # Null
    <2> DEFINE named(x) == db.identity[x].namespace
               rank(x) == TypeRank(db.type[x])
    <2>1. ASSUME NEW x \in Matches(db, i)
          PROVE  /\ named(x) \in Nat /\ x \in Nat /\ db.type[x] \in {"job", "job_network"}
                 /\ key(x)[1] = named(x) /\ key(x)[2] = i.jobId /\ key(x)[3] = rank(x) /\ key(x)[4] = x
      BY <1>2, MatchIs DEF SortKey
    <2>2. /\ rank(a) < rank(b) <=> db.type[a] = "job" /\ db.type[b] = "job_network"
          /\ rank(a) = rank(b) <=> db.type[a] = db.type[b]
      BY <2>1 DEF TypeRank
    <2>3. i.jobId \in Nat
      BY <1>2, MatchIs
    <2>4. ComesBefore(db, i, a, b)
            <=> \/ named(a) < named(b)
                \/ named(a) = named(b) /\ db.type[a] = "job" /\ db.type[b] = "job_network"
                \/ named(a) = named(b) /\ db.type[a] = db.type[b] /\ a < b
      BY <1>2 DEF ComesBefore
    <2> HIDE DEF key, named, rank
    <2>5. Less4(key(a), key(b))
            <=> \/ named(a) < named(b)
                \/ named(a) = named(b) /\ rank(a) < rank(b)
                \/ named(a) = named(b) /\ rank(a) = rank(b) /\ a < b
      BY <2>1, <2>3 DEF Less4
    <2>6. KeyLess(key(a), key(b)) <=> ComesBefore(db, i, a, b)
      BY <1>1, <2>2, <2>4, <2>5
    <2> QED
      BY <2>6 DEF key
  <1>3. CASE i.jobId = Null
    <2> DEFINE first(x) == FirstMatch(matchedBy(db, x, i))
               k1(x) == CASE x = i.query -> 0
                          [] x # i.query /\ NameForm[db.name[x]] = NameForm[i.query] -> 1
                          [] OTHER -> 2
               k2(x) == IF db.path[x] = Null THEN 1 ELSE 0
               k3(x) == IF db.path[x] = Null THEN 0 ELSE db.path[x]
    <2>1. ASSUME NEW x \in Matches(db, i)
          PROVE  /\ first(x) \in Nat /\ x \in Nat
                 /\ db.path[x] \in Nat \cup {Null}
                 /\ key(x)[1] = first(x) - 1
                 /\ key(x)[2] = IF db.path[x] = Null THEN 1 ELSE 0
                 /\ key(x)[3] = IF db.path[x] = Null THEN 0 ELSE db.path[x]
                 /\ key(x)[4] = x
      <3>1. k1(x) = IF x = i.query THEN 0
                    ELSE IF NameForm[db.name[x]] = NameForm[i.query] THEN 1 ELSE 2
        OBVIOUS
      <3>2. first(x) = IF x = i.query THEN 1
                       ELSE IF NameForm[db.name[x]] = NameForm[i.query] THEN 2 ELSE 3
        BY <1>3, MatchIs
      <3>3. x \in Nat /\ db.path[x] \in Nat \cup {Null}
        BY MatchIs
      <3>4. key(x) = <<k1(x), k2(x), k3(x), x>>
        BY <1>3, Zenon DEF SortKey
      <3> HIDE DEF k1, first, key
      <3>5. key(x)[1] = k1(x) /\ key(x)[2] = k2(x) /\ key(x)[3] = k3(x) /\ key(x)[4] = x
        BY <3>4
      <3>6. first(x) \in Nat /\ k1(x) = first(x) - 1
        BY <3>1, <3>2
      <3> QED
        BY <3>3, <3>5, <3>6
    <2>2. ComesBefore(db, i, a, b)
            <=> \/ first(a) < first(b)
                \/ /\ first(a) = first(b)
                   /\ \/ db.path[a] # Null /\ db.path[b] = Null
                      \/ db.path[a] # Null /\ db.path[b] # Null /\ db.path[a] < db.path[b]
                      \/ db.path[a] = db.path[b] /\ a < b
      BY <1>3 DEF ComesBefore
    <2> HIDE DEF first, k1, k2, k3, key
    <2> DEFINE x == first(a)
               y == first(b)
               p == db.path[a]
               q == db.path[b]
               k == key(a)
               l == key(b)
    <2>3. /\ x \in Nat /\ y \in Nat /\ a \in Nat /\ b \in Nat
          /\ p \in Nat \cup {Null} /\ q \in Nat \cup {Null}
          /\ k[1] = x - 1 /\ l[1] = y - 1
          /\ k[2] = (IF p = Null THEN 1 ELSE 0) /\ l[2] = (IF q = Null THEN 1 ELSE 0)
          /\ k[3] = (IF p = Null THEN 0 ELSE p) /\ l[3] = (IF q = Null THEN 0 ELSE q)
          /\ k[4] = a /\ l[4] = b
      BY <2>1
    <2> HIDE DEF x, y, p, q, k, l
    <2>4. Less4(k, l)
            <=> \/ x < y
                \/ /\ x = y
                   /\ \/ p # Null /\ q = Null
                      \/ p # Null /\ q # Null /\ p < q
                      \/ p = q /\ a < b
      <3>1. CASE p = Null /\ q = Null
        BY <2>3, <3>1 DEF Less4
      <3>2. CASE p = Null /\ q # Null
        BY <2>3, <3>2 DEF Less4
      <3>3. CASE p # Null /\ q = Null
        BY <2>3, <3>3 DEF Less4
      <3>4. CASE p # Null /\ q # Null
        <4>1. p \in Nat /\ q \in Nat
          BY <2>3, <3>4
        <4>2. k[2] = 0 /\ l[2] = 0 /\ k[3] = p /\ l[3] = q
          BY <2>3, <3>4
        <4>3. Less4(k, l)
                <=> \/ x < y
                    \/ x = y /\ p < q
                    \/ x = y /\ p = q /\ a < b
          <5> HIDE <3>4
          <5>1. /\ k[1] < l[1] <=> x < y
                /\ k[1] = l[1] <=> x = y
            BY <2>3
          <5> QED
            BY <2>3, <4>1, <4>2, <5>1 DEF Less4
        <4> QED
          BY <3>4, <4>3
      <3> QED
        BY <3>1, <3>2, <3>3, <3>4
    <2> QED
      BY <1>1, <2>2, <2>4 DEF x, y, p, q, k, l, key
  <1> QED
    BY <1>2, <1>3

(* ORDER BY lists the matches, each once, in the documented order. *)
LEMMA OrderedSorts ==
  ASSUME NEW db, Sound(db), NEW i, ~InvalidTargets(i)
  PROVE  LET all == Matches(db, i)
             s == Ordered(db, i)
             n == Cardinality(all)
         IN  /\ IsFiniteSet(all) /\ n \in Nat /\ s \in [1..n -> all]
             /\ \A j, k \in 1..n : j < k => ComesBefore(db, i, s[j], s[k])
             /\ \A j, k \in 1..n : s[j] = s[k] => j = k
             /\ \A a \in all : \E k \in 1..n : s[k] = a
             /\ \A j, k \in 1..n : ComesBefore(db, i, s[j], s[k]) => j < k
  <1> DEFINE all == Matches(db, i)
             n == Cardinality(all)
             key(a) == SortKey(db, a, i)
             R == {r \in all \X all : KeyLess(key(r[1]), key(r[2]))}
             Is(s) == \A j, k \in DOMAIN s : j < k => KeyLess(key(s[j]), key(s[k]))
  <1>1. IsFiniteSet(all) /\ n \in Nat
    <2>1. all \subseteq DOMAIN db.type
      BY DEF Matches
    <2> QED
      BY <2>1, FS_Subset, FS_CardinalityType DEF Sound
  <1>2. \A a, b \in all : <<a, b>> \in R <=> KeyLess(key(a), key(b))
    OBVIOUS
  <1>3. ASSUME NEW a \in all, NEW b \in all, NEW c \in all
        PROVE  /\ ~KeyLess(key(a), key(a))
               /\ KeyLess(key(a), key(b)) /\ KeyLess(key(b), key(c)) => KeyLess(key(a), key(c))
               /\ a # b => KeyLess(key(a), key(b)) \/ KeyLess(key(b), key(a))
    <2>1. /\ IsKey(key(a)) /\ key(a)[4] = a
          /\ IsKey(key(b)) /\ key(b)[4] = b
          /\ IsKey(key(c)) /\ key(c)[4] = c
      BY KeyIsNumbers
    <2> HIDE DEF key, all
    <2> DEFINE k == key(a)
               l == key(b)
               m == key(c)
    <2>2. /\ k[1] \in Int /\ k[2] \in Int /\ k[3] \in Int /\ k[4] \in Int
          /\ l[1] \in Int /\ l[2] \in Int /\ l[3] \in Int /\ l[4] \in Int
          /\ m[1] \in Int /\ m[2] \in Int /\ m[3] \in Int /\ m[4] \in Int
      BY <2>1 DEF IsKey
    <2>3. /\ KeyLess(k, k) <=> Less4(k, k)
          /\ KeyLess(k, l) <=> Less4(k, l)
          /\ KeyLess(l, k) <=> Less4(l, k)
          /\ KeyLess(l, m) <=> Less4(l, m)
          /\ KeyLess(k, m) <=> Less4(k, m)
      BY <2>1, KeysCompare
    <2>4. k[4] = a /\ l[4] = b
      BY <2>1
    <2> HIDE DEF k, l, m
    <2>5. ~Less4(k, k)
      BY <2>2 DEF Less4
    <2>6. Less4(k, l) /\ Less4(l, m) => Less4(k, m)
      BY <2>2 DEF Less4
    <2>7. k[4] # l[4] => Less4(k, l) \/ Less4(l, k)
      BY <2>2 DEF Less4
    <2> QED
      BY <2>3, <2>4, <2>5, <2>6, <2>7 DEF k, l, m
  <1>4. PICK t \in [1..n -> all] : \A j, k \in DOMAIN t : j < k => <<t[j], t[k]>> \in R
    <2> HIDE DEF R, key, all
    <2> QED
      BY <1>1, <1>2, <1>3, SortedExists
  <1> DEFINE s == Ordered(db, i)
  <1>5. s \in [1..n -> all] /\ Is(s)
    <2>1. Is(t)
      BY <1>2, <1>4
    <2>2. s = CHOOSE f \in [1..n -> all] : Is(f)
      BY DEF Ordered
    <2> HIDE DEF Is, s, all, R
    <2> QED
      BY <1>4, <2>1, <2>2
  <1> HIDE DEF s, n
  <1>6. \A k \in 1..n : s[k] \in all
    BY <1>5
  <1>7. \A j, k \in 1..n : j < k => KeyLess(key(s[j]), key(s[k]))
    BY <1>5
  <1> HIDE DEF R
  <1>8. ASSUME NEW j \in 1..n, NEW k \in 1..n, KeyLess(key(s[j]), key(s[k])) PROVE j < k
    <2> SUFFICES ASSUME ~(j < k) PROVE FALSE
      OBVIOUS
    <2> DEFINE a == s[j]
               b == s[k]
    <2>1. a \in all /\ b \in all /\ KeyLess(key(a), key(b))
      BY <1>6, <1>8
    <2>2. k = j \/ k < j
      BY <1>1
    <2>3. a = b \/ KeyLess(key(b), key(a))
      BY <1>7, <2>2
    <2> HIDE DEF a, b, all, key
    <2> QED
      BY <1>3, <2>1, <2>3
  <1>9. ASSUME NEW j \in 1..n, NEW k \in 1..n, s[j] = s[k] PROVE j = k
    <2> SUFFICES ASSUME j # k PROVE FALSE
      OBVIOUS
    <2>1. KeyLess(key(s[j]), key(s[k])) \/ KeyLess(key(s[k]), key(s[j]))
      BY <1>1, <1>7
    <2>2. KeyLess(key(s[j]), key(s[j]))
      BY <1>9, <2>1
    <2> HIDE DEF all, key
    <2> QED
      BY <1>3, <1>6, <2>2
  <1>10. \A a \in all : \E k \in 1..n : s[k] = a
    <2> HIDE DEF all, key
    <2>1. s \in Injection(1..n, all)
      BY <1>5, <1>9 DEF Injection, IsInjective
    <2>2. Cardinality(1..n) = Cardinality(all)
      BY <1>1, FS_Interval DEF n
    <2>3. s \in Surjection(1..n, all)
      BY <1>1, <2>1, <2>2, FS_Injection
    <2> QED
      BY <2>3 DEF Surjection
  <1>11. \A j, k \in 1..n : ComesBefore(db, i, s[j], s[k]) <=> KeyLess(key(s[j]), key(s[k]))
    BY <1>6, KeyIsOrder
  <1> HIDE DEF key, all
  <1>12. /\ \A j, k \in 1..n : j < k => ComesBefore(db, i, s[j], s[k])
         /\ \A j, k \in 1..n : ComesBefore(db, i, s[j], s[k]) => j < k
    BY <1>7, <1>8, <1>11
  <1> QED
    BY <1>1, <1>5, <1>9, <1>10, <1>12 DEF s, n, all

(* The place of a match in the list is the one it has by the documentation. *)
LEMMA PlaceInOrder ==
  ASSUME NEW db, Sound(db), NEW i, ~InvalidTargets(i),
         NEW k \in 1..Cardinality(Matches(db, i))
  PROVE  Cardinality({m \in Matches(db, i) : ComesBefore(db, i, m, Ordered(db, i)[k])}) + 1 = k
  <1> DEFINE all == Matches(db, i)
             n == Cardinality(all)
             s == Ordered(db, i)
             B == {m \in all : ComesBefore(db, i, m, s[k])}
             f == [j \in 1..(k - 1) |-> s[j]]
  <1>1. /\ n \in Nat /\ s \in [1..n -> all]
        /\ \A j \in 1..n : j < k => ComesBefore(db, i, s[j], s[k])
        /\ \A j, l \in 1..n : s[j] = s[l] => j = l
        /\ \A a \in all : \E j \in 1..n : s[j] = a
        /\ \A j \in 1..n : ComesBefore(db, i, s[j], s[k]) => j < k
    BY OrderedSorts
  <1>2. k \in Nat /\ \A j \in 1..(k - 1) : j \in 1..n /\ j < k
    BY <1>1
  <1> HIDE DEF all, n, s
  <1>3. \A j \in 1..(k - 1) : s[j] \in B
    BY <1>1, <1>2
  <1>4. f \in Injection(1..(k - 1), B)
    <2> HIDE DEF B
    <2> QED
      BY <1>1, <1>2, <1>3 DEF Injection, IsInjective
  <1>5. ASSUME NEW m \in B PROVE \E j \in 1..(k - 1) : f[j] = m
    <2>1. PICK j \in 1..n : s[j] = m
      BY <1>1
    <2>2. j < k
      BY <1>1, <2>1
    <2>3. j \in 1..(k - 1)
      BY <1>1, <1>2, <2>2
    <2> QED
      BY <2>1, <2>3
  <1>6. IsFiniteSet(1..(k - 1)) /\ Cardinality(1..(k - 1)) = k - 1
    <2>1. IsFiniteSet(1..(k - 1)) /\ Cardinality(1..(k - 1)) = IF 1 > k - 1 THEN 0 ELSE k - 1 - 1 + 1
      BY <1>2, FS_Interval
    <2> QED
      BY <1>2, <2>1
  <1>7. f \in Surjection(1..(k - 1), B)
    <2> HIDE DEF B
    <2> QED
      BY <1>4, <1>5 DEF Injection, Surjection
  <1>8. Cardinality(B) = k - 1
    <2> HIDE DEF B, f
    <2> QED
      BY <1>4, <1>6, <1>7, FS_Surjection
  <1> QED
    BY <1>2, <1>8 DEF B, all, s

(* The first elements of a sequence. *)
LEMMA FirstOfIs ==
  ASSUME NEW X, NEW s \in Seq(X), NEW n \in Nat
  PROVE  /\ FirstOf(s, n) \in Seq(X)
         /\ Len(FirstOf(s, n)) = IF Len(s) < n THEN Len(s) ELSE n
         /\ \A j \in 1..Len(FirstOf(s, n)) : FirstOf(s, n)[j] = s[j]
  <1> DEFINE m == IF Len(s) < n THEN Len(s) ELSE n
  <1>1. Len(s) \in Nat /\ m \in Nat /\ m <= Len(s) /\ 1 \in Int /\ m \in Int
    BY LenProperties
  <1>2. \A j \in 1..m : s[j] \in X
    BY <1>1, ElementOfSeq
  <1> HIDE DEF m
  <1>3. /\ SubSeq(s, 1, m) \in Seq(X)
        /\ Len(SubSeq(s, 1, m)) = IF 1 <= m THEN m - 1 + 1 ELSE 0
        /\ \A j \in 1..(m - 1 + 1) : SubSeq(s, 1, m)[j] = s[1 + j - 1]
    BY <1>1, <1>2, SubSeqProperties
  <1>4. Len(SubSeq(s, 1, m)) = m /\ m - 1 + 1 = m /\ \A j \in 1..m : 1 + j - 1 = j
    BY <1>1, <1>3
  <1>5. FirstOf(s, n) = SubSeq(s, 1, m)
    BY DEF FirstOf, m
  <1> QED
    BY <1>3, <1>4, <1>5 DEF m

(* What the search keeps of the rows, and how it notes that there are more. *)
LEMMA CandidatesAre ==
  ASSUME NEW db, Sound(db), NEW i, ~InvalidTargets(i)
  PROVE  LET found == Rows(db, i)
             items == candidates(found)
             n == Cardinality(Matches(db, i))
             s == Ordered(db, i)
         IN  /\ truncated(found) <=> n > MaxSearchResults
             /\ Len(items) = IF n > MaxSearchResults THEN MaxSearchResults ELSE n
             /\ DOMAIN items = 1..Len(items)
             /\ \A k \in DOMAIN items :
                  /\ k \in 1..n /\ s[k] \in Matches(db, i)
                  /\ items[k] = [id |-> s[k], matchedBy |-> matchedBy(db, s[k], i)]
                  /\ found[k] = items[k]
  <1> DEFINE all == Matches(db, i)
             n == Cardinality(all)
             s == Ordered(db, i)
             ids == FirstOf(s, RowLimit)
             row(a) == [id |-> a, matchedBy |-> matchedBy(db, a, i)]
             found == [j \in DOMAIN ids |-> row(ids[j])]
             items == FirstOf(found, MaxSearchResults)
             r == IF n < RowLimit THEN n ELSE RowLimit
  <1>1. n \in Nat /\ s \in [1..n -> all]
    BY OrderedSorts
  <1>2. RowLimit \in Nat /\ RowLimit = MaxSearchResults + 1 /\ MaxSearchResults \in Nat
    BY SearchAssumption DEF RowLimit
  <1> HIDE DEF n, s, all
  <1>3. s \in Seq(all) /\ Len(s) = n
    BY <1>1, LenProperties
  <1>4. ids \in Seq(all) /\ Len(ids) = r /\ \A j \in 1..r : ids[j] = s[j]
    <2> HIDE DEF r
    <2>1. ids \in Seq(all) /\ Len(ids) = (IF Len(s) < RowLimit THEN Len(s) ELSE RowLimit)
          /\ \A j \in 1..Len(ids) : ids[j] = s[j]
      BY <1>2, <1>3, FirstOfIs
    <2> HIDE DEF ids
    <2> QED
      BY <1>3, <2>1 DEF r
  <1>5. r \in Nat /\ DOMAIN ids = 1..r /\ \A j \in 1..r : j \in 1..n /\ s[j] \in all
    <2>1. r \in Nat /\ r <= n
      BY <1>1, <1>2
    <2>2. DOMAIN ids = 1..Len(ids)
      <3> HIDE DEF ids
      <3> QED
        BY <1>4, LenProperties
    <2> HIDE DEF r, ids
    <2> QED
      BY <1>1, <1>4, <2>1, <2>2
  <1> HIDE DEF ids, r
  <1>6. found = [j \in 1..r |-> row(s[j])]
    BY <1>4, <1>5
  <1> DEFINE Y == {row(a) : a \in all}
  <1>7. found \in [1..r -> Y] /\ \A j \in 1..r : found[j] = row(s[j])
    BY <1>5, <1>6
  <1> HIDE DEF found, Y
  <1>8. found \in Seq(Y) /\ Len(found) = r
    BY <1>5, <1>7, LenProperties
  <1> DEFINE l == IF r < MaxSearchResults THEN r ELSE MaxSearchResults
  <1>9. items \in Seq(Y) /\ Len(items) = l /\ \A j \in 1..l : items[j] = found[j]
    <2> HIDE DEF l
    <2>1. items \in Seq(Y) /\ Len(items) = (IF Len(found) < MaxSearchResults THEN Len(found) ELSE MaxSearchResults)
          /\ \A j \in 1..Len(items) : items[j] = found[j]
      BY <1>2, <1>8, FirstOfIs
    <2> HIDE DEF items
    <2> QED
      BY <1>8, <2>1 DEF l
  <1>10. DOMAIN items = 1..l
    <2> HIDE DEF items, l
    <2> QED
      BY <1>9, LenProperties
  <1>11. l = (IF n > MaxSearchResults THEN MaxSearchResults ELSE n) /\ l \in Nat /\ l <= r
    BY <1>1, <1>2 DEF r
  <1>12. r > MaxSearchResults <=> n > MaxSearchResults
    BY <1>1, <1>2 DEF r
  <1>13. Rows(db, i) = found /\ candidates(found) = items /\ truncated(found) = (r > MaxSearchResults)
    BY <1>8 DEF Rows, found, ids, s, candidates, truncated
  <1> HIDE DEF items, l
  <1>14. \A k \in 1..l : k \in 1..r
    BY <1>5, <1>11
  <1>15. \A k \in DOMAIN items : k \in 1..n /\ s[k] \in all /\ items[k] = row(s[k]) /\ found[k] = items[k]
    BY <1>5, <1>7, <1>9, <1>10, <1>14
  <1> QED
    BY <1>9, <1>10, <1>11, <1>12, <1>13, <1>15 DEF n, s, all


--------------------------------------------------------------------------------
(* The ancestors of a node. *)

(* a[n] is the n-th node on the way from a node up to the one that has no parent. *)
IsLine(db, id, d, a) ==
  /\ d \in Nat
  /\ a \in [0..d -> DOMAIN db.type]
  /\ a[0] = id
  /\ \A n \in 1..d : a[n] = db.parent[a[n - 1]]
  /\ db.parent[a[d]] = Null

(* Parents form no circle, so every way up ends. *)
LEMMA LineExists ==
  ASSUME NEW db, Sound(db), NEW id \in DOMAIN db.type
  PROVE  \E d \in Nat : \E a : IsLine(db, id, d, a)
  <1> DEFINE ids == DOMAIN db.type
             Has(x) == \E d \in Nat : \E a : IsLine(db, x, d, a)
             S == {x \in ids : ~Has(x)}
  <1> SUFFICES ASSUME S # {} PROVE FALSE
    OBVIOUS
  <1>1. PICK x \in S : db.parent[x] \notin S
    <2>1. S \in SUBSET ids
      OBVIOUS
    <2> HIDE DEF S
    <2> QED
      BY <2>1 DEF Sound
  <1>2. x \in ids /\ ~Has(x) /\ db.parent[x] \in ids \cup {Null}
    BY DEF Sound
  <1>3. CASE db.parent[x] = Null
    <2> DEFINE a == [n \in 0..0 |-> x]
    <2>1. 0 \in 0..0 /\ a[0] = x /\ a \in [0..0 -> ids] /\ 1..0 = {} /\ 0 \in Nat
      BY <1>2
    <2> HIDE DEF a
    <2>2. IsLine(db, x, 0, a)
      BY <1>3, <2>1 DEF IsLine
    <2> QED
      BY <1>2, <2>1, <2>2
  <1>4. CASE db.parent[x] # Null
    <2> DEFINE p == db.parent[x]
    <2>1. p \in ids /\ Has(p)
      BY <1>1, <1>2, <1>4
    <2>2. PICK e \in Nat : \E b : IsLine(db, p, e, b)
      BY <2>1
    <2>3. PICK b : IsLine(db, p, e, b)
      BY <2>2
    <2>4. /\ b \in [0..e -> ids] /\ b[0] = p
          /\ \A n \in 1..e : b[n] = db.parent[b[n - 1]]
          /\ db.parent[b[e]] = Null
      BY <2>3 DEF IsLine
    <2> DEFINE d == e + 1
               a == [n \in 0..d |-> IF n = 0 THEN x ELSE b[n - 1]]
    <2>5. /\ d \in Nat /\ 0 \in 0..d /\ d \in 0..d /\ d # 0 /\ d - 1 = e
          /\ \A n \in 0..d : n # 0 => n - 1 \in 0..e
          /\ \A n \in 1..d : n \in 0..d /\ n # 0 /\ n - 1 \in 0..d
          /\ \A n \in 1..d : n - 1 # 0 => n - 1 \in 1..e
      OBVIOUS
    <2> HIDE DEF d, p
    <2>6. a \in [0..d -> ids] /\ a[0] = x /\ a[d] = b[e]
      BY <1>2, <2>4, <2>5
    <2>7. ASSUME NEW n \in 1..d PROVE a[n] = db.parent[a[n - 1]]
      <3>1. a[n] = b[n - 1]
        BY <2>5
      <3>2. CASE n - 1 = 0
        BY <2>4, <2>6, <3>1, <3>2 DEF p
      <3>3. CASE n - 1 # 0
        <4>1. b[n - 1] = db.parent[b[n - 1 - 1]]
          BY <2>4, <2>5, <3>3
        <4>2. a[n - 1] = b[n - 1 - 1]
          BY <2>5, <3>3
        <4> QED
          BY <3>1, <4>1, <4>2
      <3> QED
        BY <3>2, <3>3
    <2> HIDE DEF a
    <2>8. IsLine(db, x, d, a)
      BY <2>4, <2>5, <2>6, <2>7 DEF IsLine
    <2> QED
      BY <1>2, <2>5, <2>8
  <1> QED
    BY <1>3, <1>4

(* A way up meets no node twice, so it is no longer than there are nodes. *)
LEMMA LineIsShort ==
  ASSUME NEW db, Sound(db), NEW id, NEW d, NEW a, IsLine(db, id, d, a)
  PROVE  d + 1 <= Cardinality(DOMAIN db.type)
  <1> DEFINE ids == DOMAIN db.type
  <1>1. /\ d \in Nat /\ a \in [0..d -> ids]
        /\ \A n \in 1..d : a[n] = db.parent[a[n - 1]]
    BY DEF IsLine
  <1>2. ASSUME NEW m \in 0..d, NEW n \in 0..d, m < n, a[m] = a[n] PROVE FALSE
    <2> DEFINE S == {a[k] : k \in m..(n - 1)}
    <2>1. m \in m..(n - 1) /\ \A k \in m..(n - 1) : k \in 0..d /\ k + 1 \in 1..d /\ k + 1 - 1 = k
      BY <1>1, <1>2
    <2>2. S \in SUBSET ids /\ S # {}
      BY <1>1, <2>1
    <2>3. ASSUME NEW k \in m..(n - 1) PROVE db.parent[a[k]] \in S
      <3>1. db.parent[a[k]] = a[k + 1]
        BY <1>1, <2>1
      <3>2. k + 1 \in m..(n - 1) \/ k + 1 = n
        BY <1>1, <1>2
      <3>3. CASE k + 1 \in m..(n - 1)
        BY <3>1, <3>3
      <3>4. CASE k + 1 = n
        BY <1>2, <2>1, <3>1, <3>4
      <3> QED
        BY <3>2, <3>3, <3>4
    <2>4. \A x \in S : db.parent[x] \in S
      BY <2>3
    <2> HIDE DEF S
    <2> QED
      BY <2>2, <2>4 DEF Sound
  <1>3. ASSUME NEW m \in 0..d, NEW n \in 0..d, a[m] = a[n] PROVE m = n
    <2>1. m < n \/ n < m \/ m = n
      BY <1>1
    <2> QED
      BY <1>2, <1>3, <2>1
  <1>4. a \in Injection(0..d, ids)
    BY <1>1, <1>3 DEF Injection, IsInjective
  <1>5. IsFiniteSet(0..d) /\ Cardinality(0..d) = d + 1
    <2>1. Cardinality(0..d) = (IF 0 > d THEN 0 ELSE d - 0 + 1) /\ IsFiniteSet(0..d)
      BY <1>1, FS_Interval
    <2> QED
      BY <1>1, <2>1
  <1>6. Cardinality(0..d) <= Cardinality(ids)
    <2>1. IsFiniteSet(ids)
      BY DEF Sound
    <2> HIDE DEF ids
    <2> QED
      BY <1>4, <1>5, <2>1, FS_Injection
  <1> QED
    BY <1>5, <1>6

(* The rows of the recursive query, level by level. *)
IsUp(db, up) ==
  up = [n \in 0..Cardinality(DOMAIN db.type) |->
          IF n = 0 THEN {<<id, id, 0>> : id \in DOMAIN db.type}
          ELSE LET below == up[n - 1] IN
                 {<<r[1], db.parent[r[2]], n>> : r \in {x \in below : db.parent[x[2]] # Null}}]

(* The recursive query has an answer. *)
LEMMA UpExists ==
  ASSUME NEW db, Sound(db)
  PROVE  \E up : IsUp(db, up)
  <1> DEFINE ids == DOMAIN db.type
             N == Cardinality(ids)
             X == SUBSET (ids \X ids \X (0..N))
             first == {<<id, id, 0>> : id \in ids}
             level(below, n) == {<<r[1], db.parent[r[2]], n>> : r \in {x \in below : db.parent[x[2]] # Null}}
             step == [n \in 1..N |-> [below \in X |-> level(below, n)]]
  <1>1. N \in Nat
    BY FS_CardinalityType DEF Sound
  <1>2. \A id \in ids : db.parent[id] \in ids \cup {Null}
    BY DEF Sound
  <1> HIDE DEF N
  <1>3. first \in X
    <2>1. 0 \in 0..N
      BY <1>1
    <2> QED
      BY <2>1
  <1>4. ASSUME NEW n \in 1..N, NEW below \in X PROVE level(below, n) \in X
    <2>1. n \in 0..N
      BY <1>1
    <2>2. ASSUME NEW r \in below, db.parent[r[2]] # Null
          PROVE  <<r[1], db.parent[r[2]], n>> \in ids \X ids \X (0..N)
      <3>1. r \in ids \X ids \X (0..N)
        BY <1>4
      <3>2. r[1] \in ids /\ r[2] \in ids
        BY <3>1
      <3>3. db.parent[r[2]] \in ids
        BY <1>2, <2>2, <3>2
      <3> QED
        BY <2>1, <3>2, <3>3
    <2> QED
      BY <2>2
  <1>5. step \in [1..N -> [X -> X]]
    BY <1>4
  <1>6. PICK f \in [0..N -> X] : Follows(f, N, first, step)
    <2> HIDE DEF X, first, step
    <2> QED
      BY <1>1, <1>3, <1>5, Recursion
  <1>7. f[0] = first
    BY <1>6 DEF Follows
  <1>8. ASSUME NEW n \in 0..N, n # 0 PROVE f[n] = level(f[n - 1], n)
    <2>1. n \in 1..N /\ n - 1 \in 0..N
      BY <1>1, <1>8
    <2>2. f[n - 1] \in X
      BY <2>1
    <2>3. f[n] = step[n][f[n - 1]]
      BY <1>6, <2>1 DEF Follows
    <2> HIDE DEF level, X
    <2> QED
      BY <2>1, <2>2, <2>3
  <1>9. f = [n \in 0..N |-> IF n = 0 THEN first ELSE level(f[n - 1], n)]
    <2> HIDE DEF level, first, X, step
    <2> QED
      BY <1>7, <1>8
  <1>10. IsUp(db, f)
    <2> HIDE DEF X, step
    <2> QED
      BY <1>9 DEF IsUp, N
  <1> QED
    BY <1>10

(* The rows of a node: one for each node on its way up. *)
LEMMA LineageIs ==
  ASSUME NEW db, Sound(db), NEW id \in DOMAIN db.type, NEW d, NEW a, IsLine(db, id, d, a)
  PROVE  {r \in Lineage(db) : r[1] = id} = {<<id, a[n], n>> : n \in 0..d}
  <1> DEFINE ids == DOMAIN db.type
             N == Cardinality(ids)
             up == CHOOSE f : IsUp(db, f)
             first == {<<x, x, 0>> : x \in ids}
             level(below, n) == {<<r[1], db.parent[r[2]], n>> : r \in {x \in below : db.parent[x[2]] # Null}}
  <1>1. /\ d \in Nat /\ a \in [0..d -> ids] /\ a[0] = id
        /\ \A n \in 1..d : a[n] = db.parent[a[n - 1]]
        /\ db.parent[a[d]] = Null
    BY DEF IsLine
  <1>2. N \in Nat /\ d + 1 <= N
    BY LineIsShort, FS_CardinalityType DEF Sound
  <1>3. IsUp(db, up)
    BY UpExists
  <1>4. Lineage(db) = UNION {up[n] : n \in DOMAIN up}
    BY Zenon DEF Lineage, IsUp
  <1>5. DOMAIN up = 0..N /\ \A n \in 0..N : up[n] = IF n = 0 THEN first ELSE level(up[n - 1], n)
    <2> HIDE DEF up
    <2> QED
      BY <1>3 DEF IsUp
  <1> HIDE DEF up, N
  <1> DEFINE own(n) == {r \in up[n] : r[1] = id}
             K == {n \in Nat : n <= N => own(n) = IF n <= d THEN {<<id, a[n], n>>} ELSE {}}
  <1>6. 0 \in K
    <2>1. up[0] = first /\ 0 <= d /\ 0 \in 0..N
      BY <1>1, <1>2, <1>5
    <2>2. own(0) = {<<id, id, 0>>}
      <3>1. \A r \in first : r[1] = id => r = <<id, id, 0>>
        OBVIOUS
      <3>2. <<id, id, 0>> \in first /\ <<id, id, 0>>[1] = id
        OBVIOUS
      <3> HIDE DEF first
      <3> QED
        BY <2>1, <3>1, <3>2
    <2> QED
      BY <1>1, <2>1, <2>2
  <1>7. ASSUME NEW m \in Nat, m \in K PROVE m + 1 \in K
    <2> DEFINE n == m + 1
    <2>1. CASE ~(n <= N)
      BY <2>1
    <2>2. CASE n <= N
      <3>1. n \in 0..N /\ n # 0 /\ n - 1 = m /\ m <= N
        BY <1>2, <2>2
      <3>2. up[n] = level(up[m], n)
        BY <1>5, <3>1
      <3>3. own(m) = IF m <= d THEN {<<id, a[m], m>>} ELSE {}
        BY <1>7, <3>1
      <3> HIDE DEF n
      <3>4. own(n) = {<<r[1], db.parent[r[2]], n>> : r \in {x \in own(m) : db.parent[x[2]] # Null}}
        BY <3>2
      <3>5. CASE ~(m <= d)
        <4>1. own(n) = {}
          BY <3>3, <3>4, <3>5
        <4>2. ~(n <= d)
          BY <1>1, <3>5 DEF n
        <4> HIDE DEF own
        <4> QED
          BY <4>1, <4>2 DEF n
      <3>6. CASE m <= d
        <4> DEFINE r == <<id, a[m], m>>
        <4>1. r[1] = id /\ r[2] = a[m] /\ own(m) = {r}
          BY <3>3, <3>6
        <4> HIDE DEF r, own
        <4>2. CASE m = d
          <5>1. db.parent[r[2]] = Null
            BY <1>1, <4>1, <4>2
          <5>2. own(n) = {}
            BY <3>4, <4>1, <5>1
          <5>3. ~(n <= d)
            BY <1>1, <4>2 DEF n
          <5> QED
            BY <5>2, <5>3 DEF n
        <4>3. CASE m # d
          <5>1. n <= d /\ n \in 1..d /\ n \in 0..d
            BY <1>1, <3>6, <4>3 DEF n
          <5>2. db.parent[r[2]] = a[n]
            BY <1>1, <3>1, <4>1, <5>1
          <5>3. a[n] # Null
            <6>1. a[n] \in ids
              BY <1>1, <5>1
            <6> QED
              BY <6>1, SearchAssumption DEF Sound
          <5>4. own(n) = {<<id, a[n], n>>}
            BY <3>4, <4>1, <5>2, <5>3
          <5> QED
            BY <5>1, <5>4 DEF n
        <4> QED
          BY <4>2, <4>3
      <3> QED
        BY <3>5, <3>6
    <2> QED
      BY <2>1, <2>2
  <1>8. Nat \subseteq K
    <2> HIDE DEF K
    <2> QED
      BY <1>6, <1>7, SetInduction
  <1>9. \A n \in 0..N : own(n) = IF n <= d THEN {<<id, a[n], n>>} ELSE {}
    BY <1>2, <1>8
  <1>10. {r \in Lineage(db) : r[1] = id} = UNION {own(n) : n \in 0..N}
    <2> HIDE DEF up
    <2> QED
      BY <1>4, <1>5
  <1> HIDE DEF own
  <1>11. ASSUME NEW r PROVE (\E n \in 0..N : r \in own(n)) <=> \E n \in 0..d : r = <<id, a[n], n>>
    <2>1. ASSUME NEW n \in 0..N, r \in own(n) PROVE n \in 0..d /\ r = <<id, a[n], n>>
      <3>1. n <= d
        BY <1>9, <2>1
      <3>2. n \in 0..d
        BY <1>1, <1>2, <3>1
      <3> QED
        BY <1>9, <2>1, <3>1, <3>2
    <2>2. ASSUME NEW n \in 0..d, r = <<id, a[n], n>> PROVE n \in 0..N /\ r \in own(n)
      <3>1. n \in 0..N /\ n <= d
        BY <1>1, <1>2
      <3> QED
        BY <1>9, <2>2, <3>1
    <2> QED
      BY <2>1, <2>2
  <1> QED
    BY <1>10, <1>11

(* A set that is numbered from m to d. *)
LEMMA Numbered ==
  ASSUME NEW d \in Nat, NEW m \in 1..d, NEW T, NEW f \in [m..d -> T],
         \A j, k \in m..d : f[j] = f[k] => j = k,
         \A x \in T : \E k \in m..d : f[k] = x
  PROVE  Cardinality(T) = d - m + 1
  <1>1. f \in Surjection(m..d, T) /\ f \in Injection(m..d, T)
    BY DEF Surjection, Injection, IsInjective
  <1>2. IsFiniteSet(m..d) /\ Cardinality(m..d) = d - m + 1
    <2>1. m \in Int /\ d \in Int /\ ~(m > d)
      OBVIOUS
    <2>2. IsFiniteSet(m..d) /\ Cardinality(m..d) = IF m > d THEN 0 ELSE d - m + 1
      BY <2>1, FS_Interval
    <2> QED
      BY <2>1, <2>2
  <1>3. Cardinality(T) = Cardinality(m..d)
    BY <1>1, <1>2, FS_Surjection
  <1> QED
    BY <1>2, <1>3

(* The ancestors of a node are those on its way up, from the topmost down. *)
LEMMA AncestorsAre ==
  ASSUME NEW db, Sound(db), NEW id \in DOMAIN db.type, NEW d, NEW a, IsLine(db, id, d, a)
  PROVE  AncestorPath(db, id) = [i \in 1..d |-> a[d + 1 - i]]
  <1> DEFINE found == {r \in Lineage(db) : r[1] = id /\ r[3] > 0}
             row(n) == <<id, a[n], n>>
             from(m) == {x \in found : x[3] >= m}
  <1>1. d \in Nat
    BY DEF IsLine
  <1>2. found = {row(n) : n \in 1..d}
    <2>1. {r \in Lineage(db) : r[1] = id} = {row(n) : n \in 0..d}
      BY LineageIs
    <2>2. \A n \in 0..d : row(n)[3] = n /\ (n > 0 <=> n \in 1..d)
      BY <1>1
    <2>3. \A n \in 1..d : n \in 0..d
      BY <1>1
    <2>4. found = {r \in {row(n) : n \in 0..d} : r[3] > 0}
      BY <2>1
    <2> HIDE DEF row, found
    <2> QED
      BY <2>2, <2>3, <2>4
  <1>3. \A n : row(n)[3] = n /\ row(n)[2] = a[n]
    OBVIOUS
  <1> HIDE DEF found
  <1>4. ASSUME NEW m \in 1..d PROVE Cardinality(from(m)) = d - m + 1
    <2>1. \A n \in 1..d : n >= m <=> n \in m..d
      BY <1>1
    <2>2. \A n \in m..d : n \in 1..d
      BY <1>1
    <2>3. from(m) = {row(n) : n \in m..d}
      <3> HIDE DEF row
      <3> QED
        BY <1>2, <1>3, <2>1, <2>2
    <2> DEFINE T == from(m)
               f == [n \in m..d |-> row(n)]
    <2>4. \A n \in m..d : f[n] = row(n)
      OBVIOUS
    <2>5. f \in [m..d -> T] /\ \A x \in T : \E k \in m..d : f[k] = x
      <3> HIDE DEF row, from
      <3> QED
        BY <2>3
    <2> HIDE DEF T, f, row
    <2>6. \A j, k \in m..d : f[j] = f[k] => j = k
      BY <1>3, <2>4
    <2>7. Cardinality(T) = d - m + 1
      BY <1>1, <2>5, <2>6, Numbered
    <2> QED
      BY <2>7 DEF T
  <1>5. Cardinality(found) = d
    <2>1. CASE d = 0
      <3>1. found = {}
        BY <1>2, <2>1
      <3> QED
        BY <2>1, <3>1, FS_EmptySet
    <2>2. CASE d # 0
      <3>1. 1 \in 1..d /\ d - 1 + 1 = d
        BY <1>1, <2>2
      <3>2. \A x \in found : x[3] >= 1
        BY <1>1, <1>2, <1>3
      <3>3. from(1) = found
        BY <3>2
      <3> QED
        BY <1>4, <3>1, <3>3
    <2> QED
      BY <2>1, <2>2
  <1> DEFINE Is(r, i) == Cardinality({x \in found : x[3] >= r[3]}) = i
  <1>6. ASSUME NEW i \in 1..d PROVE (CHOOSE r \in found : Is(r, i))[2] = a[d + 1 - i]
    <2> DEFINE m == d + 1 - i
    <2>1. m \in 1..d /\ d - m + 1 = i
      BY <1>1
    <2>2. \A n \in 1..d : d - n + 1 = i => n = m
      BY <1>1
    <2>3. \A n \in 1..d : Is(row(n), i) <=> d - n + 1 = i
      <3> SUFFICES ASSUME NEW n \in 1..d PROVE Is(row(n), i) <=> d - n + 1 = i
        OBVIOUS
      <3>1. row(n)[3] = n
        BY <1>3
      <3>2. Is(row(n), i) <=> Cardinality(from(n)) = i
        BY <3>1
      <3> QED
        BY <1>4, <3>2
    <2> HIDE DEF Is, row, m, from
    <2>4. row(m) \in found /\ Is(row(m), i)
      BY <1>2, <2>1, <2>3
    <2>5. \A r \in found : Is(r, i) => r = row(m)
      BY <1>2, <2>2, <2>3
    <2>6. (CHOOSE r \in found : Is(r, i)) = row(m)
      BY <2>4, <2>5
    <2> QED
      BY <1>3, <2>6 DEF m
  <1>7. AncestorPath(db, id) = [i \in 1..Cardinality(found) |-> (CHOOSE r \in found : Is(r, i))[2]]
    BY DEF AncestorPath, found
  <1> HIDE DEF Is
  <1> QED
    BY <1>5, <1>6, <1>7

(* So they lead, each the parent of the next, from a node without a parent to the
   node itself. *)
LEMMA AncestorsLineal ==
  ASSUME NEW db, Sound(db), NEW id \in DOMAIN db.type, NEW path,
         DOMAIN path = DOMAIN AncestorPath(db, id),
         \A k \in DOMAIN path : path[k].id = AncestorPath(db, id)[k]
  PROVE  /\ \A k \in DOMAIN path : path[k].id \in DOMAIN db.type
         /\ Lineal(db, path, id)
  <1> DEFINE ids == DOMAIN db.type
  <1>1. PICK d \in Nat : \E a : IsLine(db, id, d, a)
    BY LineExists
  <1>2. PICK a : IsLine(db, id, d, a)
    BY <1>1
  <1>3. /\ a \in [0..d -> ids] /\ a[0] = id
        /\ \A n \in 1..d : a[n] = db.parent[a[n - 1]]
        /\ db.parent[a[d]] = Null
    BY <1>2 DEF IsLine
  <1>4. AncestorPath(db, id) = [i \in 1..d |-> a[d + 1 - i]]
    BY <1>2, AncestorsAre
  <1>5. DOMAIN path = 1..d /\ \A k \in 1..d : path[k].id = a[d + 1 - k]
    BY <1>4
  <1>6. \A k \in 1..d : d + 1 - k \in 1..d /\ d + 1 - k \in 0..d /\ d + 1 - k - 1 = d - k
    OBVIOUS
  <1>7. \A k \in 1..d : path[k].id \in ids
    BY <1>3, <1>5, <1>6
  <1> DEFINE t == [k \in DOMAIN path |-> path[k].id]
             down == Append(t, id)
  <1>8. t = [k \in 1..d |-> a[d + 1 - k]]
    BY <1>5
  <1>9. t \in Seq(ids) /\ Len(t) = d
    <2>1. \A k \in 1..d : a[d + 1 - k] \in ids
      BY <1>3, <1>6
    <2>2. t \in [1..d -> ids]
      BY <1>8, <2>1, Zenon
    <2> HIDE DEF t
    <2> QED
      BY <2>2, LenProperties
  <1>10. \A k \in 1..d : t[k] = a[d + 1 - k]
    BY <1>8
  <1> HIDE DEF t
  <1>11. down \in Seq(ids) /\ Len(down) = d + 1 /\ down[d + 1] = id /\ \A k \in 1..d : down[k] = t[k]
    BY <1>9, AppendProperties
  <1> HIDE DEF down
  <1>12. \A k \in 1..(d + 1) : down[k] = a[d + 1 - k]
    <2> SUFFICES ASSUME NEW k \in 1..(d + 1) PROVE down[k] = a[d + 1 - k]
      OBVIOUS
    <2>1. CASE k \in 1..d
      BY <1>10, <1>11, <2>1
    <2>2. CASE k = d + 1
      <3>1. d + 1 - k = 0
        BY <2>2
      <3> QED
        BY <1>3, <1>11, <2>2, <3>1
    <2> QED
      BY <2>1, <2>2
  <1>13. db.parent[Head(down)] = Null
    <2>1. Head(down) = down[1]
      BY <1>11
    <2>2. 1 \in 1..(d + 1) /\ d + 1 - 1 = d
      OBVIOUS
    <2> QED
      BY <1>3, <1>12, <2>1, <2>2
  <1>14. ASSUME NEW k \in 1..d PROVE db.parent[down[k + 1]] = down[k]
    <2>1. k + 1 \in 1..(d + 1) /\ k \in 1..(d + 1) /\ d + 1 - (k + 1) = d + 1 - k - 1
      OBVIOUS
    <2>2. down[k + 1] = a[d + 1 - k - 1] /\ down[k] = a[d + 1 - k]
      BY <1>12, <2>1
    <2> QED
      BY <1>3, <1>6, <2>2
  <1>15. Lineal(db, path, id)
    BY <1>5, <1>13, <1>14 DEF Lineal, down, t
  <1> QED
    BY <1>5, <1>7, <1>15

--------------------------------------------------------------------------------
(* From the request to the answer of a search. *)

Databases == \A o \in Op : Sound(database[o])

Paths(db, i) ==
  LET items == candidates(Rows(db, i))
  IN  [k \in DOMAIN items |-> AncestorPath(db, items[k].id)]

AnswerOf(db, o, i) ==
  LET found == Rows(db, i)
      path == Paths(db, i)
  IN  [status |-> "ok", snapshotId |-> o, truncated |-> truncated(found),
       items |-> [k \in DOMAIN path |->
         [row |-> found[k], public |-> LoadPublic(db, found[k].id),
          ancestorPath |-> [n \in DOMAIN path[k] |->
            [id |-> path[k][n], public |-> LoadPublic(db, path[k][n])]]]]]

(* What a handler has read is of the generation it holds, and so is its answer. *)
Serves(s) ==
  /\ pc[s] = "stages" => input[s].kind # "targets"
  /\ pc[s] \in {"candidates", "details", "identities"} =>
       reading[s] \in Op /\ ~InvalidTargets(input[s])
  /\ pc[s] \in {"details", "identities"} => rows[s] = Rows(database[reading[s]], input[s])
  /\ pc[s] = "identities" => details[s] = Paths(database[reading[s]], input[s])
  /\ Answered(s, "targets") =>
       /\ ~InvalidTargets(input[s])
       /\ \E o \in Op : answer[s] = AnswerOf(database[o], o, input[s])

Searches ==
  /\ IInv
  /\ Databases
  /\ rows = [s \in Search |-> rows[s]]
  /\ details = [s \in Search |-> details[s]]
  /\ \A s \in Search : Serves(s)

(* A handler that does nothing serves as before. *)
LEMMA ServesFrame ==
  ASSUME NEW s \in Search, Serves(s), UNCHANGED database,
         pc'[s] = pc[s], input'[s] = input[s], reading'[s] = reading[s],
         rows'[s] = rows[s], details'[s] = details[s], answer'[s] = answer[s]
  PROVE  Serves(s)'
  BY DEF Serves, Answered

(* On the way in, and with a problem, there is nothing to be wrong. *)
LEMMA ServesNothing ==
  ASSUME NEW s \in Search,
         pc'[s] \in {"idle", "arrived", "return", "returned"},
         answer'[s].status # "ok"
  PROVE  Serves(s)'
  BY DEF Serves, Answered

(* A step of handler s: the others serve as before. *)
LEMMA OneHandler ==
  ASSUME Searches, IInv', NEW s \in Search, Serves(s)', UNCHANGED database,
         rows' = [p \in Search |-> rows'[p]], details' = [p \in Search |-> details'[p]],
         \A p \in Search \ {s} :
           /\ pc'[p] = pc[p] /\ input'[p] = input[p] /\ reading'[p] = reading[p]
           /\ rows'[p] = rows[p] /\ details'[p] = details[p] /\ answer'[p] = answer[p]
  PROVE  Searches'
  <1>1. ASSUME NEW p \in Search \ {s} PROVE Serves(p)'
    BY ServesFrame DEF Searches
  <1>2. \A p \in Search : Serves(p)'
    BY <1>1
  <1>3. Databases'
    BY DEF Searches, Databases
  <1> QED
    BY <1>2, <1>3 DEF Searches

(* A step that gives handler s a problem for an answer. *)
LEMMA ProblemServes ==
  ASSUME Searches, IInv', NEW s \in Search, NEW type, Problem(s, type), type # "ok",
         pc' = [pc EXCEPT ![s] = "return"],
         UNCHANGED <<database, input, rows, details>>,
         \A p \in Search \ {s} : reading'[p] = reading[p]
  PROVE  Searches'
  <1> USE DEF Searches, IInv
  <1>1. /\ answer'[s].status = type /\ pc'[s] = "return"
        /\ \A p \in Search \ {s} : answer'[p] = answer[p] /\ pc'[p] = pc[p]
    BY DEF TypeOK, Problem
  <1>2. Serves(s)'
    BY <1>1, ServesNothing
  <1>3. /\ UNCHANGED database
        /\ rows' = [p \in Search |-> rows'[p]] /\ details' = [p \in Search |-> details'[p]]
        /\ \A p \in Search \ {s} :
             /\ pc'[p] = pc[p] /\ input'[p] = input[p] /\ reading'[p] = reading[p]
             /\ rows'[p] = rows[p] /\ details'[p] = details[p] /\ answer'[p] = answer[p]
    BY <1>1
  <1> HIDE DEF Searches, IInv
  <1> QED
    BY <1>2, <1>3, OneHandler

(* A step of handler s that takes it on, without an answer yet. *)
LEMMA SilentServes ==
  ASSUME Searches, IInv', NEW s \in Search, NEW place, Serves(s)',
         pc' = [pc EXCEPT ![s] = place],
         UNCHANGED <<database, input, answer>>,
         rows' = [p \in Search |-> rows'[p]], details' = [p \in Search |-> details'[p]],
         \A p \in Search \ {s} :
           reading'[p] = reading[p] /\ rows'[p] = rows[p] /\ details'[p] = details[p]
  PROVE  Searches'
  <1>1. \A p \in Search \ {s} : pc'[p] = pc[p]
    BY DEF Searches, IInv, TypeOK
  <1> QED
    BY <1>1, OneHandler

(* The generation that a search acquires is one that was published. *)
LEMMA AcquireServes ==
  ASSUME Searches, IInv', NEW s \in Search, Acquire(s)
  PROVE  Searches'
  <1>1. /\ pc[s] = "arrived" /\ ~Invalid(input[s])
        /\ \A p \in Search \ {s} : reading'[p] = reading[p]
        /\ UNCHANGED <<database, input, rows, details>>
        /\ answer[s].status = "none"
        /\ rows = [p \in Search |-> rows[p]] /\ details = [p \in Search |-> details[p]]
    BY DEF Acquire, BeginSearch, Searches, IInv, TypeOK, RegTypeOK, Unanswered
  <1>2. CASE Problem(s, "analysis-timeout") /\ pc' = [pc EXCEPT ![s] = "return"]
    BY <1>1, <1>2, ProblemServes
  <1>3. CASE Problem(s, "internal-error") /\ pc' = [pc EXCEPT ![s] = "return"]
    BY <1>1, <1>3, ProblemServes
  <1>4. CASE Problem(s, "snapshot-not-loaded") /\ pc' = [pc EXCEPT ![s] = "return"]
    BY <1>1, <1>4, ProblemServes
  <1>5. CASE /\ accepting /\ served # None
             /\ BeginSearch(s)
             /\ pc' = [pc EXCEPT ![s] = IF input[s].kind = "targets" THEN "candidates" ELSE "stages"]
             /\ UNCHANGED answer
    <2>1. reading'[s] \in Op
      BY <1>5 DEF BeginSearch, Searches, IInv, TypeOK, RegTypeOK
    <2>2. pc'[s] = IF input[s].kind = "targets" THEN "candidates" ELSE "stages"
      BY <1>5 DEF Searches, IInv, TypeOK
    <2>3. Serves(s)'
      BY <1>1, <1>5, <2>1, <2>2 DEF Serves, Answered, Invalid
    <2> QED
      BY <1>1, <1>5, <2>3, SilentServes
  <1> QED
    BY <1>2, <1>3, <1>4, <1>5 DEF Acquire

(* The three queries of a search. *)
LEMMA QueriesServe ==
  ASSUME Searches, IInv', NEW s \in Search,
         SearchCandidates(s) \/ LoadLineage(s) \/ LoadIdentities(s)
  PROVE  Searches'
  <1>1. /\ Serves(s) /\ UNCHANGED <<database, input, reading>>
        /\ rows = [p \in Search |-> rows[p]] /\ details = [p \in Search |-> details[p]]
        /\ pc[s] \notin {"return", "returned"} => answer[s].status = "none"
    BY DEF Searches, IInv, Unanswered, SearchCandidates, LoadLineage, LoadIdentities
  <1>2. CASE SearchCandidates(s)
    <2>1. /\ pc[s] = "candidates" /\ pc' = [pc EXCEPT ![s] = "details"]
          /\ rows' = [rows EXCEPT ![s] = Rows(database[reading[s]], input[s])]
          /\ UNCHANGED <<details, answer>>
      BY <1>2 DEF SearchCandidates, Db, ReadFrom
    <2>2. /\ pc'[s] = "details" /\ rows'[s] = Rows(database[reading[s]], input[s])
          /\ \A p \in Search \ {s} : rows'[p] = rows[p]
          /\ rows' = [p \in Search |-> rows'[p]]
      BY <1>1, <2>1 DEF Searches, IInv, TypeOK
    <2>3. Serves(s)'
      BY <1>1, <2>1, <2>2 DEF Serves, Answered
    <2> QED
      BY <1>1, <2>1, <2>2, <2>3, SilentServes
  <1>3. CASE LoadLineage(s)
    <2>1. pc[s] = "details" /\ UNCHANGED rows
      BY <1>3 DEF LoadLineage
    <2>2. CASE /\ details' = [details EXCEPT ![s] =
                     [k \in DOMAIN candidates(rows[s]) |-> AncestorPath(Db(s), candidates(rows[s])[k].id)]]
               /\ pc' = [pc EXCEPT ![s] = "identities"]
               /\ UNCHANGED answer
      <3>1. rows[s] = Rows(database[reading[s]], input[s])
        BY <1>1, <2>1 DEF Serves
      <3>2. /\ details'[s] = [k \in DOMAIN candidates(rows[s]) |->
                                AncestorPath(Db(s), candidates(rows[s])[k].id)]
            /\ \A p \in Search \ {s} : details'[p] = details[p]
            /\ details' = [p \in Search |-> details'[p]]
            /\ pc'[s] = "identities"
        BY <1>1, <2>2 DEF Searches, IInv, TypeOK
      <3>3. details'[s] = Paths(database[reading[s]], input[s])
        BY <3>1, <3>2 DEF Paths, Db, ReadFrom
      <3>4. Serves(s)'
        BY <1>1, <2>1, <2>2, <3>1, <3>2, <3>3 DEF Serves, Answered
      <3> QED
        BY <1>1, <2>1, <2>2, <3>2, <3>4, SilentServes
    <2>3. CASE Problem(s, "internal-error") /\ pc' = [pc EXCEPT ![s] = "return"] /\ UNCHANGED details
      BY <1>1, <2>1, <2>3, ProblemServes
    <2> QED
      BY <1>3, <2>2, <2>3 DEF LoadLineage
  <1>4. CASE LoadIdentities(s)
    <2> DEFINE o == reading[s]
               db == database[o]
    <2>1. pc[s] = "identities" /\ UNCHANGED <<rows, details>> /\ pc' = [pc EXCEPT ![s] = "return"]
      BY <1>4 DEF LoadIdentities
    <2>2. /\ rows[s] = Rows(db, input[s]) /\ details[s] = Paths(db, input[s])
          /\ o \in Op /\ ~InvalidTargets(input[s])
      BY <1>1, <2>1 DEF Serves
    <2>3. /\ pc'[s] = "return"
          /\ \A p \in Search \ {s} : pc'[p] = pc[p] /\ answer'[p] = answer[p]
      BY <1>4, <2>1 DEF LoadIdentities, Searches, IInv, TypeOK
    <2>4. answer'[s] = AnswerOf(db, o, input[s])
      <3>1. answer'[s] =
              [status |-> "ok", snapshotId |-> o, truncated |-> truncated(rows[s]),
               items |-> [k \in DOMAIN details[s] |->
                 [row |-> rows[s][k], public |-> LoadPublic(db, rows[s][k].id),
                  ancestorPath |-> [n \in DOMAIN details[s][k] |->
                    [id |-> details[s][k][n], public |-> LoadPublic(db, details[s][k][n])]]]]]
        BY <1>4 DEF LoadIdentities, Db, ReadFrom, Searches, IInv, TypeOK
      <3> QED
        BY <2>2, <3>1 DEF AnswerOf
    <2>5. Serves(s)'
      BY <1>1, <2>2, <2>3, <2>4 DEF Serves
    <2> QED
      BY <1>1, <2>1, <2>3, <2>5, OneHandler
  <1> QED
    BY <1>2, <1>3, <1>4

(* The other steps of a handler. *)
LEMMA OthersServe ==
  ASSUME Searches, IInv', NEW s \in Search,
         Refuse(s) \/ NoRequestID(s) \/ QueryFails(s) \/ StageEnds(s) \/ AnalysisEnds(s) \/ Return(s)
  PROVE  Searches'
  <1>1. /\ Serves(s) /\ UNCHANGED <<database, input, rows, details>>
        /\ rows = [p \in Search |-> rows[p]] /\ details = [p \in Search |-> details[p]]
        /\ pc[s] \notin {"return", "returned"} => answer[s].status = "none"
    BY DEF Searches, IInv, Unanswered, Refuse, NoRequestID, QueryFails, StageEnds, AnalysisEnds, Return
  <1>2. ASSUME NEW type \in {"analysis-timeout", "internal-error", "invalid-request", "target-not-found"},
               Problem(s, type), pc' = [pc EXCEPT ![s] = "return"], UNCHANGED reading
        PROVE  Searches'
    BY <1>1, <1>2, ProblemServes
  <1>3. CASE Refuse(s)
    BY <1>2, <1>3 DEF Refuse
  <1>8. CASE NoRequestID(s)
    BY <1>2, <1>8 DEF NoRequestID
  <1>4. CASE QueryFails(s)
    <2>1. PICK type \in {"analysis-timeout", "internal-error"} : Problem(s, type)
      BY <1>4 DEF QueryFails
    <2> QED
      BY <1>2, <1>4, <2>1 DEF QueryFails
  <1>5. CASE StageEnds(s)
    <2>1. CASE Problem(s, "analysis-timeout") /\ pc' = [pc EXCEPT ![s] = "return"]
      BY <1>2, <1>5, <2>1 DEF StageEnds
    <2>2. CASE Problem(s, "target-not-found") /\ pc' = [pc EXCEPT ![s] = "return"]
      BY <1>2, <1>5, <2>2 DEF StageEnds
    <2>3. CASE UNCHANGED <<pc, answer>>
      <3>1. UNCHANGED reading
        BY <1>5 DEF StageEnds
      <3>2. Serves(s)'
        BY <1>1, <2>3, <3>1, ServesFrame
      <3> QED
        BY <1>1, <2>3, <3>1, <3>2, OneHandler
    <2> QED
      BY <1>5, <2>1, <2>2, <2>3 DEF StageEnds
  <1>6. CASE AnalysisEnds(s)
    <2>1. /\ pc[s] = "stages" /\ UNCHANGED reading
          /\ pc'[s] = "return"
          /\ \A p \in Search \ {s} : pc'[p] = pc[p] /\ answer'[p] = answer[p]
      BY <1>6 DEF AnalysisEnds, Problem, Searches, IInv, TypeOK
    <2>2. Serves(s)'
      BY <1>1, <2>1 DEF Serves, Answered
    <2> QED
      BY <1>1, <2>1, <2>2, OneHandler
  <1>7. CASE Return(s)
    <2>1. /\ pc[s] = "return" /\ UNCHANGED answer
          /\ pc' = [pc EXCEPT ![s] = "returned"]
          /\ \A p \in Search \ {s} : reading'[p] = reading[p]
      BY <1>7 DEF Return, EndSearch, Searches, IInv, TypeOK, RegTypeOK
    <2>2. pc'[s] = "returned"
      BY <2>1 DEF Searches, IInv, TypeOK
    <2>3. Serves(s)'
      BY <1>1, <2>1, <2>2 DEF Serves, Answered
    <2> QED
      BY <1>1, <2>1, <2>3, SilentServes
  <1> QED
    BY <1>3, <1>4, <1>5, <1>6, <1>7, <1>8

(* Every step keeps the invariant of the searches, whatever may arrive. *)
LEMMA NextServes ==
  ASSUME NEW requests, Searches, [NextOn(requests)]_vars
  PROVE  Searches'
  <1>0. IInv'
    BY NextInv DEF Searches
  <1>1. ASSUME NEW s \in Search, Step(s) PROVE Searches'
    BY <1>0, <1>1, AcquireServes, QueriesServe, OthersServe DEF Step
  <1>2. ASSUME UNCHANGED <<reading, database, input, pc, rows, details, answer>> PROVE Searches'
    <2>1. \A s \in Search : Serves(s)'
      BY <1>2, ServesFrame DEF Searches
    <2>2. Databases'
      BY <1>2 DEF Searches, Databases
    <2> QED
      BY <1>0, <1>2, <2>1, <2>2 DEF Searches
  <1>3. ASSUME NEW s \in Search, Expire(s) PROVE Searches'
    BY <1>2, <1>3 DEF Expire
  <1>4. ASSUME NEW s \in Search, NEW r \in requests[s], Arrive(s, r) PROVE Searches'
    <2>1. /\ pc[s] = "idle" /\ pc'[s] = "arrived" /\ answer[s].status = "none"
          /\ \A p \in Search \ {s} : pc'[p] = pc[p] /\ input'[p] = input[p]
          /\ UNCHANGED <<reading, database, rows, details, answer>>
          /\ rows = [p \in Search |-> rows[p]] /\ details = [p \in Search |-> details[p]]
      BY <1>4 DEF Arrive, Searches, IInv, TypeOK, Unanswered
    <2>2. Serves(s)'
      BY <2>1, ServesNothing
    <2> QED
      BY <1>0, <2>1, <2>2, OneHandler
  <1>5. CASE Others
    BY <1>2, <1>5 DEF Others, Reserve, Publish, Discard, Shutdown
  <1>6. CASE UNCHANGED vars
    BY <1>2, <1>6 DEF vars
  <1> QED
    BY <1>1, <1>3, <1>4, <1>5, <1>6 DEF NextOn

LEMMA InitServes ==
  ASSUME Init, Databases
  PROVE  Searches
  <1>1. IInv
    BY InitInv
  <1>2. /\ rows = [s \in Search |-> rows[s]] /\ details = [s \in Search |-> details[s]]
        /\ \A s \in Search : pc[s] = "idle" /\ answer[s].status = "none"
    BY DEF Init, Begin, NoAnswer
  <1>3. \A s \in Search : Serves(s)
    BY <1>2 DEF Serves, Answered
  <1> QED
    BY <1>1, <1>2, <1>3 DEF Searches

(* What SearchAnswerExact asks of an answer. *)
IsExact(db, i, answered) ==
  LET items == answered.items
      all == Matches(db, i)
      place(id) == Cardinality({m \in all : ComesBefore(db, i, m, id)}) + 1
  IN  /\ answered.truncated <=> Cardinality(all) > MaxSearchResults
      /\ Len(items) = IF answered.truncated THEN MaxSearchResults ELSE Cardinality(all)
      /\ \A k \in DOMAIN items :
           /\ items[k].row.id \in all
           /\ place(items[k].row.id) = k
           /\ items[k].row.matchedBy = matchedBy(db, items[k].row.id, i)
           /\ Lineal(db, items[k].ancestorPath, items[k].row.id)
           /\ items[k].public = db.identity[items[k].row.id]
           /\ \A n \in Range(items[k].ancestorPath) : n.public = db.identity[n.id]

(* An answer that was put together from one sound database is the documented one. *)
LEMMA AnswerIsExact ==
  ASSUME NEW db, Sound(db), NEW i, ~InvalidTargets(i), NEW o
  PROVE  IsExact(db, i, AnswerOf(db, o, i))
  <1> DEFINE answered == AnswerOf(db, o, i)
             items == answered.items
             found == Rows(db, i)
             first == candidates(found)
             path == Paths(db, i)
             all == Matches(db, i)
             n == Cardinality(all)
             s == Ordered(db, i)
             up(k) == [x \in DOMAIN path[k] |-> [id |-> path[k][x], public |-> LoadPublic(db, path[k][x])]]
             item(k) == [row |-> found[k], public |-> LoadPublic(db, found[k].id), ancestorPath |-> up(k)]
  <1>1. answered.truncated = truncated(found) /\ items = [k \in DOMAIN path |-> item(k)]
    BY DEF AnswerOf
  <1>2. path = [k \in DOMAIN first |-> AncestorPath(db, first[k].id)]
    BY DEF Paths
  <1>3. /\ truncated(found) <=> n > MaxSearchResults
        /\ Len(first) = IF n > MaxSearchResults THEN MaxSearchResults ELSE n
        /\ DOMAIN first = 1..Len(first)
        /\ \A k \in DOMAIN first :
             /\ k \in 1..n /\ s[k] \in all
             /\ first[k] = [id |-> s[k], matchedBy |-> matchedBy(db, s[k], i)]
             /\ found[k] = first[k]
    BY CandidatesAre
  <1>4. n \in Nat /\ MaxSearchResults \in Nat
    BY OrderedSorts, SearchAssumption
  <1>5. all \subseteq DOMAIN db.type
    BY DEF Matches
  <1>6. \A id \in DOMAIN db.type : LoadPublic(db, id) = db.identity[id]
    BY DEF Sound, LoadPublic
  <1> HIDE DEF answered, found, path, all, n, s, first
  <1>7. Len(items) = Len(first) /\ DOMAIN items = DOMAIN first
    <2> DEFINE l == Len(first)
               T == {item(k) : k \in 1..l}
    <2>1. l \in Nat
      BY <1>3, <1>4
    <2>2. items = [k \in 1..l |-> item(k)]
      BY <1>1, <1>2, <1>3
    <2> HIDE DEF l, items, item
    <2>3. items \in [1..l -> T]
      BY <2>2
    <2> HIDE DEF T
    <2>4. Len(items) = l
      BY <2>1, <2>3, LenProperties
    <2> QED
      BY <1>3, <2>2, <2>4 DEF l
  <1>8. ASSUME NEW k \in DOMAIN items
        PROVE  /\ items[k].row.id \in all
               /\ Cardinality({m \in all : ComesBefore(db, i, m, items[k].row.id)}) + 1 = k
               /\ items[k].row.matchedBy = matchedBy(db, items[k].row.id, i)
               /\ Lineal(db, items[k].ancestorPath, items[k].row.id)
               /\ items[k].public = db.identity[items[k].row.id]
               /\ \A x \in Range(items[k].ancestorPath) : x.public = db.identity[x.id]
    <2>1. k \in DOMAIN first /\ items[k] = item(k)
      BY <1>1, <1>2, <1>7
    <2> HIDE DEF items
    <2>2. /\ k \in 1..n /\ s[k] \in all /\ s[k] \in DOMAIN db.type
          /\ found[k].id = s[k] /\ found[k].matchedBy = matchedBy(db, s[k], i)
          /\ first[k].id = s[k]
      <3> HIDE DEF item, up
      <3>1. k \in DOMAIN first
        BY <2>1
      <3>2. /\ k \in 1..n /\ s[k] \in all
            /\ first[k] = [id |-> s[k], matchedBy |-> matchedBy(db, s[k], i)]
            /\ found[k] = first[k]
        BY <1>3, <3>1
      <3>3. first[k].id = s[k] /\ first[k].matchedBy = matchedBy(db, s[k], i)
        BY <3>2
      <3> QED
        BY <1>5, <3>2, <3>3
    <2>3. /\ items[k].row = found[k]
          /\ items[k].public = LoadPublic(db, s[k])
          /\ items[k].ancestorPath = up(k)
      BY <2>1, <2>2
    <2>4. items[k].row.id = s[k]
      BY <2>2, <2>3
    <2>5. Cardinality({m \in all : ComesBefore(db, i, m, s[k])}) + 1 = k
      BY <2>2, PlaceInOrder DEF all, n, s
    <2>6. path[k] = AncestorPath(db, s[k])
      BY <1>2, <2>1, <2>2
    <2>7. DOMAIN up(k) = DOMAIN AncestorPath(db, s[k])
          /\ \A x \in DOMAIN up(k) : /\ up(k)[x].id = AncestorPath(db, s[k])[x]
                                     /\ up(k)[x].public = LoadPublic(db, up(k)[x].id)
      BY <2>6
    <2> HIDE DEF up, item
    <2>8. /\ \A x \in DOMAIN up(k) : up(k)[x].id \in DOMAIN db.type
          /\ Lineal(db, up(k), s[k])
      BY <2>2, <2>7, AncestorsLineal
    <2>9. ASSUME NEW x \in Range(items[k].ancestorPath) PROVE x.public = db.identity[x.id]
      <3>1. PICK y \in DOMAIN up(k) : x = up(k)[y]
        BY <2>3, <2>9 DEF Range
      <3> QED
        BY <1>6, <2>7, <2>8, <3>1
    <2>10. items[k].public = db.identity[items[k].row.id]
      BY <1>6, <2>2, <2>3, <2>4
    <2> QED
      BY <2>2, <2>3, <2>4, <2>5, <2>8, <2>9, <2>10
  <1>9. /\ answered.truncated <=> n > MaxSearchResults
        /\ Len(items) = IF answered.truncated THEN MaxSearchResults ELSE n
    BY <1>1, <1>3, <1>7
  <1> HIDE DEF items
  <1> QED
    BY <1>8, <1>9 DEF IsExact, items, answered, all, n

(* "At most 1000 results; when there is one more, the first 1000 and truncated=true"
   (api.md:86): whatever is published between the queries of a search, and whatever
   the databases hold of what Load accepts, an answer consists of the first matches
   in the documented order, each once, with its ancestors, and each node with its
   own identity. *)
THEOREM SearchesAreExact ==
  ASSUME NEW CONSTANT requests
  PROVE  Databases /\ Spec(requests) => []SearchAnswerExact
  <1>1. Databases /\ Init => Searches
    BY InitServes
  <1>2. Searches /\ [NextOn(requests)]_vars => Searches'
    BY NextServes
  <1>3. Searches => SearchAnswerExact
    <2> SUFFICES ASSUME Searches PROVE SearchAnswerExact
      OBVIOUS
    <2>1. ASSUME NEW s \in Search, Answered(s, "targets")
          PROVE  /\ ~InvalidTargets(input[s])
                 /\ \E o \in Op : Sound(database[o]) /\ answer[s] = AnswerOf(database[o], o, input[s])
      BY <2>1 DEF Searches, Serves, Databases
    <2>2. \A db, o, i : AnswerOf(db, o, i).snapshotId = o
      BY DEF AnswerOf
    <2>3. ASSUME NEW s \in Search, Answered(s, "targets")
          PROVE  IsExact(database[answer[s].snapshotId], input[s], answer[s])
      BY <2>1, <2>2, <2>3, AnswerIsExact
    <2> QED
      BY <2>3 DEF SearchAnswerExact, IsExact
  <1> QED
    BY <1>1, <1>2, <1>3, PTL DEF Spec
===============================================================================
