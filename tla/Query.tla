--------------------------------- MODULE Query ---------------------------------
(***************************************************************************)
(* internal/app: the handlers of the target search and of the downstream   *)
(* limit analysis, on generations that imports publish meanwhile.          *)
(*                                                                         *)
(* The generations are those of GenerationRegister, which Store is shown   *)
(* to implement: a request holds the generation that it has acquired until *)
(* its handler returns.  Each query of a handler is a step; what Traverse, *)
(* Scan and Build compute is the subject of other modules, here a stage of *)
(* the analysis has read its generation or has not.                        *)
(***************************************************************************)
EXTENDS GenerationRegister, TargetSearch

CONSTANT Empty   \* an input that is given and empty

VARIABLES
  database,  \* the database of each snapshot: constant after Init
  input,     \* the parameters of a request
  pc,        \* where its handler is
  expired,   \* ctx is done: cancelled, or past analysisDeadline
  rows,      \* targets: what the first statement has returned
  details,   \* targets: the ancestor paths that LoadMany has read
  parts,     \* analysis: the snapshots that its stages have read, or None, in their order
  answer     \* what has been or will be returned

handlers == <<input, pc, expired, rows, details, parts, answer>>
vars == <<regVars, database, handlers>>

(* The stages of an analysis; two of them work on what the others have read. *)
Stages == <<"traverse", "scan", "build", "target", "response", "identities">>
Reads(stage) == stage \notin {"build", "response"}

NoInput == [kind |-> "none"]
NoAnswer == [status |-> "none"]
Problem(s, type) == answer' = [answer EXCEPT ![s] = [status |-> type]]

Begin ==
  /\ input = [s \in Search |-> NoInput]
  /\ pc = [s \in Search |-> "idle"]
  /\ expired = [s \in Search |-> FALSE]
  /\ rows = [s \in Search |-> <<>>]
  /\ details = [s \in Search |-> <<>>]
  /\ parts = [s \in Search |-> <<>>]
  /\ answer = [s \in Search |-> NoAnswer]

(* No request has arrived; the service serves any generation, or none. *)
Init ==
  /\ RegTypeOK
  /\ reading = [s \in Search |-> None]
  /\ Begin

Goes(s, place) == pc' = [pc EXCEPT ![s] = place]

(* Resolve: a request arrives. *)
Arrive(s, request) ==
  /\ pc[s] = "idle"
  /\ input' = [input EXCEPT ![s] = request]
  /\ Goes(s, "arrived")
  /\ UNCHANGED <<regVars, database, expired, rows, details, parts, answer>>

(* The client goes away, or the deadline of the analysis passes. *)
Expire(s) ==
  /\ pc[s] \notin {"idle", "returned"}
  /\ ~expired[s]
  /\ expired' = [expired EXCEPT ![s] = TRUE]
  /\ UNCHANGED <<regVars, database, input, pc, rows, details, parts, answer>>

InvalidTargets(i) ==
  \/ (i.query # Null) = (i.jobId # Null)
  \/ i.namespace # Null /\ i.jobId = Null
  \/ Empty \in {i.jobId, i.namespace}
  \/ ~(i.types \subseteq TargetTypes)

(* validateAnalysisInput; `faulty` stands for every fault but a missing target. *)
InvalidAnalysis(i) == i.target \in {Null, Empty} \/ i.faulty

Invalid(i) == IF i.kind = "targets" THEN InvalidTargets(i) ELSE InvalidAnalysis(i)

Refuse(s) ==
  /\ pc[s] = "arrived"
  /\ Invalid(input[s])
  /\ Problem(s, "invalid-request")
  /\ Goes(s, "return")
  /\ UNCHANGED <<regVars, database, input, expired, rows, details, parts>>

(* A request that comes without an ID is given a new one before it is looked at:
   there may be no random bytes for it. *)
NoRequestID(s) ==
  /\ pc[s] = "arrived"
  /\ Problem(s, "internal-error")
  /\ Goes(s, "return")
  /\ UNCHANGED <<regVars, database, input, expired, rows, details, parts>>

TimedOut(s) == input[s].kind = "analysis" /\ expired[s]

(* Store.Acquire, with the checks of its error. *)
Acquire(s) ==
  /\ pc[s] = "arrived"
  /\ ~Invalid(input[s])
  /\ IF accepting /\ served # None THEN BeginSearch(s) ELSE UNCHANGED regVars
  /\ IF TimedOut(s)
       THEN Problem(s, "analysis-timeout") /\ Goes(s, "return")
     ELSE IF ~accepting
       THEN Problem(s, "internal-error") /\ Goes(s, "return")
     ELSE IF served = None
       THEN Problem(s, "snapshot-not-loaded") /\ Goes(s, "return")
     ELSE Goes(s, IF input[s].kind = "targets" THEN "candidates" ELSE "stages") /\ UNCHANGED answer
  /\ UNCHANGED <<database, input, expired, rows, details, parts>>

\* Bug: a query goes to the generation that is served by then.
ReadFromServed(s) == IF served = None THEN reading[s] ELSE served

(* The generation that a query of the handler reads. *)
ReadFrom(s) == reading[s]

Db(s) == database[ReadFrom(s)]

(* A query fails, or finds its context done. *)
QueryFails(s) ==
  /\ pc[s] \in {"candidates", "details", "identities", "stages"}
  /\ Problem(s, IF TimedOut(s) THEN "analysis-timeout" ELSE "internal-error")
  /\ Goes(s, "return")
  /\ UNCHANGED <<regVars, database, input, expired, rows, details, parts>>

--------------------------------------------------------------------------------
(* targets. *)

SearchCandidates(s) ==
  /\ pc[s] = "candidates"
  /\ rows' = [rows EXCEPT ![s] = Rows(Db(s), input[s])]
  /\ Goes(s, "details")
  /\ UNCHANGED <<regVars, database, input, expired, details, parts, answer>>

(* LoadMany: the nodes and their ancestors, ... *)
LoadLineage(s) ==
  /\ pc[s] = "details"
  /\ LET items == candidates(rows[s]) IN
       IF Known(Db(s), {items[i].id : i \in DOMAIN items})
         THEN /\ details' = [details EXCEPT ![s] =
                   [i \in DOMAIN items |-> AncestorPath(Db(s), items[i].id)]]
              /\ Goes(s, "identities")
              /\ UNCHANGED answer
         ELSE /\ Problem(s, "internal-error")
              /\ Goes(s, "return")
              /\ UNCHANGED details
  /\ UNCHANGED <<regVars, database, input, expired, rows, parts>>

(* ... and, in a query of its own, their identities.  The last sort of
   SearchByLocalID is by the key that the rows came in order of. *)
LoadIdentities(s) ==
  /\ pc[s] = "identities"
  /\ LET item(i) == [row |-> rows[s][i], public |-> LoadPublic(Db(s), rows[s][i].id),
                     ancestorPath |-> [k \in DOMAIN details[s][i] |->
                        [id |-> details[s][i][k], public |-> LoadPublic(Db(s), details[s][i][k])]]]
     IN  answer' = [answer EXCEPT ![s] =
           [status |-> "ok", snapshotId |-> reading[s], truncated |-> truncated(rows[s]),
            items |-> [i \in DOMAIN details[s] |-> item(i)]]]
  /\ Goes(s, "return")
  /\ UNCHANGED <<regVars, database, input, expired, rows, details, parts>>

--------------------------------------------------------------------------------
(* downstreamLimitAnalysis.  Each stage is followed by a look at the context. *)

TargetFound(s) ==
  /\ input[s].target \in DOMAIN Db(s).type
  /\ Db(s).type[input[s].target] \in TargetTypes

StageEnds(s) ==
  /\ pc[s] = "stages"
  /\ Len(parts[s]) < Len(Stages)
  /\ LET stage == Stages[Len(parts[s]) + 1] IN
       IF TimedOut(s)
         THEN Problem(s, "analysis-timeout") /\ Goes(s, "return") /\ UNCHANGED parts
       ELSE IF stage = "traverse" /\ ~TargetFound(s)
         THEN Problem(s, "target-not-found") /\ Goes(s, "return") /\ UNCHANGED parts
       ELSE /\ parts' = [parts EXCEPT ![s] = Append(@, IF Reads(stage) THEN ReadFrom(s) ELSE None)]
            /\ UNCHANGED <<pc, answer>>
  /\ UNCHANGED <<regVars, database, input, expired, rows, details>>

(* applyAnalysisPublicIdentities, the counts, and the last look at the context. *)
AnalysisEnds(s) ==
  /\ pc[s] = "stages"
  /\ Len(parts[s]) = Len(Stages)
  /\ IF TimedOut(s)
       THEN Problem(s, "analysis-timeout")
       ELSE answer' = [answer EXCEPT ![s] =
                         [status |-> "ok", snapshotId |-> reading[s], read |-> parts[s]]]
  /\ Goes(s, "return")
  /\ UNCHANGED <<regVars, database, input, expired, rows, details, parts>>

--------------------------------------------------------------------------------
\* Bug: the generation is given back only with an answer.
ReleasedOnSuccess(s) == answer[s].status = "ok"

(* `defer release()`: on every path on which Acquire has succeeded. *)
Released(s) == reading[s] # None

Return(s) ==
  /\ pc[s] = "return"
  /\ IF Released(s) THEN EndSearch(s) ELSE UNCHANGED regVars
  /\ Goes(s, "returned")
  /\ UNCHANGED <<database, input, expired, rows, details, parts, answer>>

(* What imports and the shutdown do to the register meanwhile. *)
Others ==
  /\ \/ \E o \in Op : Reserve(o) \/ Publish(o) \/ Discard(o)
     \/ Shutdown
  /\ UNCHANGED <<database, handlers>>

Step(s) ==
  \/ Refuse(s)
  \/ NoRequestID(s)
  \/ Acquire(s)
  \/ QueryFails(s)
  \/ SearchCandidates(s)
  \/ LoadLineage(s)
  \/ LoadIdentities(s)
  \/ StageEnds(s)
  \/ AnalysisEnds(s)
  \/ Return(s)

(* requests[s]: what may arrive at s. *)
NextOn(requests) ==
  \/ \E s \in Search : Step(s) \/ Expire(s) \/ \E r \in requests[s] : Arrive(s, r)
  \/ Others

Spec(requests) == Init /\ [][NextOn(requests)]_vars

(* A handler runs on; nothing is said of imports, clients and deadlines. *)
Fairness == \A s \in Search : WF_vars(Step(s))

--------------------------------------------------------------------------------
(* Properties. *)

Answered(s, kind) == input[s].kind = kind /\ answer[s].status = "ok"

FirstMatch(fields) ==
  CASE "id" \in fields -> 1 [] fields \cap {"id", "name"} = {"name"} -> 2 [] OTHER -> 3

(* The order of api.md:62 for local IDs and of api.md:82 for queries. *)
ComesBefore(db, i, a, b) ==
  LET first(id) == FirstMatch(matchedBy(db, id, i))
      named(id) == db.identity[id].namespace
  IN  IF i.jobId # Null
        THEN \/ named(a) < named(b)
             \/ named(a) = named(b) /\ db.type[a] = "job" /\ db.type[b] = "job_network"
             \/ named(a) = named(b) /\ db.type[a] = db.type[b] /\ a < b
        ELSE \/ first(a) < first(b)
             \/ /\ first(a) = first(b)
                /\ \/ db.path[a] # Null /\ db.path[b] = Null
                   \/ db.path[a] # Null /\ db.path[b] # Null /\ db.path[a] < db.path[b]
                   \/ db.path[a] = db.path[b] /\ a < b

(* From the topmost ancestor down to the direct parent. *)
Lineal(db, path, id) ==
  LET down == Append([k \in DOMAIN path |-> path[k].id], id)
  IN  /\ db.parent[Head(down)] = Null
      /\ \A k \in DOMAIN path : db.parent[down[k + 1]] = down[k]

(* "At most 1000 results; when there is one more, the first 1000 and
   truncated=true" (api.md:86), for the database of the one generation whose
   snapshotId is in the answer, whatever was published between the queries: the
   items are the first matches in the documented order, each with its ancestors,
   and each node with its own identity, and truncated says whether matches are missing. *)
SearchAnswerExact ==
  \A s \in Search : Answered(s, "targets") =>
    LET db == database[answer[s].snapshotId]
        items == answer[s].items
        all == Matches(db, input[s])
        place(id) == Cardinality({m \in all : ComesBefore(db, input[s], m, id)}) + 1
    IN  /\ answer[s].truncated <=> Cardinality(all) > MaxSearchResults
        /\ Len(items) = IF answer[s].truncated THEN MaxSearchResults ELSE Cardinality(all)
        /\ \A k \in DOMAIN items :
             /\ items[k].row.id \in all
             /\ place(items[k].row.id) = k
             /\ items[k].row.matchedBy = matchedBy(db, items[k].row.id, input[s])
             /\ Lineal(db, items[k].ancestorPath, items[k].row.id)
             /\ items[k].public = db.identity[items[k].row.id]
             /\ \A n \in Range(items[k].ancestorPath) : n.public = db.identity[n.id]

(* "The generation is held until all queries and the response are done, so that
   snapshotId and the result are never of different generations" (analysis.go:317):
   whatever an answered analysis has read is of the generation that the answer
   names, and a target is reported missing only if that generation lacks it. *)
OneGenerationPerAnswer ==
  \A s \in Search :
    /\ Answered(s, "analysis") => \A k \in DOMAIN Stages : answer[s].read[k] \in {answer[s].snapshotId, None}
    /\ input[s].kind = "analysis" /\ pc[s] = "return" /\ answer[s].status = "target-not-found" =>
         LET db == database[reading[s]] IN
           input[s].target \notin {id \in DOMAIN db.type : db.type[id] \in TargetTypes}

(* Every handler returns, and gives back the generation it has acquired, on every
   path: this is what Store takes for granted of its readers when it reclaims
   the retired generations. *)
GenerationReturned ==
  \A s \in Search : pc[s] = "arrived" ~> pc[s] = "returned" /\ reading[s] = None
===============================================================================
