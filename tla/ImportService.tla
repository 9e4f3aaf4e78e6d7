---------------------------- MODULE ImportService ----------------------------
(***************************************************************************)
(* internal/app and internal/importer: a snapshot upload from its HTTP     *)
(* handler (receiveSnapshot) through the background import                 *)
(* (runSnapshotImport, ProcessReceived) to the record that clients poll    *)
(* (importRegistry), and the shutdown of the process (main.serve,          *)
(* App.Close).  The snapshot store is the abstract GenerationRegister,     *)
(* which module Store implements.                                          *)
(*                                                                         *)
(* An operation is one POST request.  Its handler and its import are two   *)
(* goroutines with program counters of their own; they share the work      *)
(* group, the store, the registry and the temporary files.                 *)
(***************************************************************************)
EXTENDS Naturals, FiniteSets, Sequences

CONSTANTS
  Op,          \* uploads
  SnapshotId,  \* snapshotId values of the manifests
  Body,        \* fingerprints of the three extracted files
  None,        \* no operation, no content, no record
  Retention    \* completedImportRetention (16)

ASSUME OpAssumption == IsFiniteSet(Op) /\ None \notin Op
ASSUME RetentionAssumption == Retention \in Nat \ {0}

Contents == [id : SnapshotId, body : Body]
ASSUME ContentAssumption == None \notin Contents

VARIABLES
  server,       \* main.serve
  graceOver,    \* Shutdown gave up waiting after shutdownGrace
  work,         \* App.work, the WaitGroup counter
  request,      \* the handler of each upload
  job,          \* the background import of each upload
  accepting, reservation, served,  \* the store (GenerationRegister)
  content,      \* what Validate found in the upload
  archive,      \* a received archive whose removal is still to be tried
  directory,    \* an extracted directory whose removal is still to be tried
  err,          \* ProcessReceived has an error to return
  warning,      \* Result.CleanupWarning is set
  record,       \* importRegistry.resources: the state shown to clients
  completed,    \* importRegistry.completed
  logLevel,     \* the level of the record logged at the end
  outcome,      \* history: "switched" or "reused" when the import did so
  finished      \* history: the imports in the order of their completion

store == <<accepting, reservation, served>>
files == <<archive, directory>>
registry == <<record, completed, finished>>
vars == <<server, graceOver, work, request, job, store, content, files,
          err, warning, registry, logLevel, outcome>>

Register == INSTANCE GenerationRegister WITH
              Search <- {}, reading <- [s \in {} |-> None]

ServerStates == {"down", "serving", "draining", "closing", "closed"}
RequestStates == {"idle", "arrived", "begun", "reserved", "receiving",
                  "received", "spawned", "ended"}
JobStates == {"none", "start", "extract", "archive", "validate", "compare",
              "reuse", "reuseActivate", "reuseAbort", "build", "drop",
              "activate", "complete", "undoDirectory", "undoArchive",
              "undoSlot", "finish", "log", "done"}
Running == {"accepted", "validating", "building", "activating"}
Terminal == {"succeeded", "failed"}

ASSUME RecordAssumption == None \notin Running \cup Terminal

\* The jobs that an import passes through with the work unit in its hands.
Working == JobStates \ {"none", "done"}
\* The handler states that hold the work unit.
Handling == {"begun", "reserved", "receiving", "received"}

TypeOK ==
  /\ server \in ServerStates
  /\ graceOver \in BOOLEAN
  /\ work \in Nat
  /\ request \in [Op -> RequestStates]
  /\ job \in [Op -> JobStates]
  /\ accepting \in BOOLEAN
  /\ reservation \in Op \cup {None}
  /\ served \in Op \cup {None}
  /\ content \in [Op -> Contents \cup {None}]
  /\ archive \subseteq Op
  /\ directory \subseteq Op
  /\ err \in [Op -> BOOLEAN]
  /\ warning \in [Op -> BOOLEAN]
  /\ record \in [Op -> Running \cup Terminal \cup {None}]
  /\ completed \in Seq(Op)
  /\ logLevel \in [Op -> {"none", "info", "warn"}]
  /\ outcome \in [Op -> {"none", "switched", "reused"}]
  /\ finished \in Seq(Op)

Fresh ==
  /\ work = 0
  /\ graceOver = FALSE
  /\ record = [o \in Op |-> None]
  /\ completed = <<>>
  /\ finished = <<>>

Init ==
  /\ server = "down"
  /\ Fresh
  /\ request = [o \in Op |-> "idle"]
  /\ job = [o \in Op |-> "none"]
  /\ Register!RegInit
  /\ content = [o \in Op |-> None]
  /\ archive = {}
  /\ directory = {}
  /\ err = [o \in Op |-> FALSE]
  /\ warning = [o \in Op |-> FALSE]
  /\ logLevel = [o \in Op |-> "none"]
  /\ outcome = [o \in Op |-> "none"]

--------------------------------------------------------------------------------
(* receiveSnapshot: the handler of POST /v1/snapshot-imports. *)

RequestGoes(o, from, to) ==
  /\ request[o] = from
  /\ request' = [request EXCEPT ![o] = to]

\* Bug: an early return keeps the work unit.
RejectsWithoutDone(o, from) == RequestGoes(o, from, "ended") /\ UNCHANGED work

(* An answer other than 202, with the work unit given back. *)
Rejects(o, from) ==
  /\ RequestGoes(o, from, "ended")
  /\ work' = work - 1

jobSide == <<job, content, directory, err, warning, registry, logLevel, outcome>>

(* The server hands a new request to a handler only while it listens. *)
Arrive(o) ==
  /\ server = "serving"
  /\ RequestGoes(o, "idle", "arrived")
  /\ UNCHANGED <<server, graceOver, work, store, archive, jobSide>>

AdmitsWork == server \notin {"closing", "closed"}

(* beginImportWork: under workMu, refused once Close has begun.  A wrong
   media type has been rejected before. *)
BeginWork(o) ==
  /\ \/ /\ AdmitsWork
        /\ RequestGoes(o, "arrived", "begun")
        /\ work' = work + 1
     \/ /\ RequestGoes(o, "arrived", "ended")
        /\ UNCHANGED work
  /\ UNCHANGED <<server, graceOver, store, archive, jobSide>>

(* store.BeginImport. *)
ReserveSlot(o) ==
  /\ RequestGoes(o, "begun", "reserved")
  /\ Register!Reserve(o)
  /\ UNCHANGED <<server, graceOver, work, archive, jobSide>>

(* No identifier, or no reservation: another import has it, the store is
   closed, or importing.db cannot be made. *)
BeginFails(o) ==
  /\ Rejects(o, "begun")
  /\ UNCHANGED <<server, graceOver, store, archive, jobSide>>

(* The declared length is too large or no read deadline can be set: Abort. *)
RefuseUpload(o) ==
  /\ Rejects(o, "reserved")
  /\ Register!Discard(o)
  /\ UNCHANGED <<server, graceOver, archive, jobSide>>

(* snapshot.Receive creates the temporary archive and reads the body. *)
StartReceive(o) ==
  /\ RequestGoes(o, "reserved", "receiving")
  /\ archive' = archive \cup {o}
  /\ UNCHANGED <<server, graceOver, work, store, jobSide>>

ReceiveSucceeds(o) ==
  /\ RequestGoes(o, "receiving", "received")
  /\ UNCHANGED <<server, graceOver, work, store, archive, jobSide>>

\* Bug: the handler returns without Abort.
AbortsReceptionForgotten(o) == UNCHANGED store

AbortsReception(o) == Register!Discard(o)

(* The body is too long, broken off or later than the upload deadline.  The
   archive is removed, a failure of that is ignored; then Abort. *)
ReceiveFails(o) ==
  /\ Rejects(o, "receiving")
  /\ archive' = archive \ {o}
  /\ AbortsReception(o)
  /\ UNCHANGED <<server, graceOver, jobSide>>

(* imports.accept, then the import's goroutine, which takes over the work
   unit; the handler still has to answer. *)
Accept(o) ==
  /\ RequestGoes(o, "received", "spawned")
  /\ record' = [record EXCEPT ![o] = "accepted"]
  /\ job' = [job EXCEPT ![o] = "start"]
  /\ UNCHANGED <<server, graceOver, work, store, content, files, err,
                 warning, completed, finished, logLevel, outcome>>

Answer202(o) ==
  /\ RequestGoes(o, "spawned", "ended")
  /\ UNCHANGED <<server, graceOver, work, store, archive, jobSide>>

HandlerStep(o) ==
  \/ BeginWork(o)
  \/ ReserveSlot(o)
  \/ BeginFails(o)
  \/ RefuseUpload(o)
  \/ StartReceive(o)
  \/ ReceiveSucceeds(o)
  \/ ReceiveFails(o)
  \/ Accept(o)
  \/ Answer202(o)

--------------------------------------------------------------------------------
(* ProcessReceived, in the goroutine of runSnapshotImport.  An error leads to
   the deferred calls: the directory, the archive, and Abort, in that order. *)

handlerSide == <<server, graceOver, work, request>>

JobGoes(o, from, to) ==
  /\ job[o] = from
  /\ job' = [job EXCEPT ![o] = to]

Fails(o) == err' = [err EXCEPT ![o] = TRUE]

(* importRegistry.progress. *)
Progress(o, stage) == record' = [record EXCEPT ![o] = stage]

(* A failure that leaves the store, the files and the record as they are. *)
StepFails(o, from) ==
  /\ JobGoes(o, from, "undoDirectory")
  /\ Fails(o)
  /\ UNCHANGED <<content, warning, registry, logLevel, outcome>>

StartValidating(o) ==
  /\ JobGoes(o, "start", "extract")
  /\ Progress(o, "validating")
  /\ UNCHANGED <<handlerSide, store, content, files, err, warning, completed,
                 finished, logLevel, outcome>>

(* snapshot.Extract removes its directory when it fails, and ignores it when
   that fails too. *)
Extract(o) ==
  /\ \/ /\ JobGoes(o, "extract", "archive")
        /\ directory' = directory \cup {o}
        /\ UNCHANGED <<content, err, warning, registry, logLevel, outcome>>
     \/ /\ StepFails(o, "extract")
        /\ UNCHANGED directory
  /\ UNCHANGED <<handlerSide, store, archive>>

RemoveArchive(o) ==
  /\ \/ /\ JobGoes(o, "archive", "validate")
        /\ archive' = archive \ {o}
        /\ UNCHANGED <<content, err, warning, registry, logLevel, outcome>>
     \/ /\ StepFails(o, "archive")
        /\ UNCHANGED archive
  /\ UNCHANGED <<handlerSide, store, directory>>

Validate(o) ==
  /\ \/ /\ JobGoes(o, "validate", "compare")
        /\ content' \in {[content EXCEPT ![o] = c] : c \in Contents}
        /\ UNCHANGED <<err, warning, registry, logLevel, outcome>>
     \/ StepFails(o, "validate")
  /\ UNCHANGED <<handlerSide, store, files>>

\* Bug: the fingerprints are compared, the identifiers are not.
SameIdByBody(o) == served # None /\ content[served].body = content[o].body

SameId(o) == served # None /\ content[served].id = content[o].id

(* CurrentGeneration and the comparison with it. *)
Compare(o) ==
  /\ job[o] = "compare"
  /\ \/ /\ ~SameId(o)
        /\ JobGoes(o, "compare", "build")
        /\ UNCHANGED <<content, err, warning, registry, logLevel, outcome>>
     \/ /\ SameId(o)
        /\ content[served] = content[o]
        /\ JobGoes(o, "compare", "reuse")
        /\ UNCHANGED <<content, err, warning, registry, logLevel, outcome>>
     \/ /\ SameId(o)
        /\ content[served] # content[o]          \* ErrSnapshotIDConflict
        /\ StepFails(o, "compare")
  /\ UNCHANGED <<handlerSide, store, files>>

\* Bug: the reused import is reported as activating at once.
ReuseBuildingSkipped(o) ==
  /\ JobGoes(o, "reuse", "reuseActivate")
  /\ Progress(o, "activating")
  /\ UNCHANGED <<handlerSide, store, content, files, err, warning, completed,
                 finished, logLevel, outcome>>

(* The same content: the record passes through the stages of an ordinary
   import, nothing is built, and Abort gives the slot back even when it returns
   an error. *)
ReuseBuilding(o) ==
  /\ JobGoes(o, "reuse", "reuseActivate")
  /\ Progress(o, "building")
  /\ UNCHANGED <<handlerSide, store, content, files, err, warning, completed,
                 finished, logLevel, outcome>>

ReuseActivating(o) ==
  /\ JobGoes(o, "reuseActivate", "reuseAbort")
  /\ Progress(o, "activating")
  /\ UNCHANGED <<handlerSide, store, content, files, err, warning, completed,
                 finished, logLevel, outcome>>

ReuseAbort(o) ==
  /\ JobGoes(o, "reuseAbort", "undoDirectory")
  /\ Register!Discard(o)
  /\ \/ /\ outcome' = [outcome EXCEPT ![o] = "reused"]
        /\ UNCHANGED err
     \/ /\ Fails(o)
        /\ UNCHANGED outcome
  /\ UNCHANGED <<handlerSide, content, files, warning, registry, logLevel>>

(* loadSnapshot fills the import's database. *)
Build(o) ==
  /\ job[o] = "build"
  /\ Progress(o, "building")
  /\ \E ok \in BOOLEAN :
       /\ job' = [job EXCEPT ![o] = IF ok THEN "drop" ELSE "undoDirectory"]
       /\ err' = [err EXCEPT ![o] = ~ok]
  /\ UNCHANGED <<handlerSide, store, content, files, warning, completed, finished,
                 logLevel, outcome>>

DropDirectory(o) ==
  /\ \/ /\ JobGoes(o, "drop", "activate")
        /\ directory' = directory \ {o}
        /\ UNCHANGED <<content, err, warning, registry, logLevel, outcome>>
     \/ /\ StepFails(o, "drop")
        /\ UNCHANGED directory
  /\ UNCHANGED <<handlerSide, store, archive>>

Activate(o) ==
  /\ JobGoes(o, "activate", "complete")
  /\ Progress(o, "activating")
  /\ UNCHANGED <<handlerSide, store, content, files, err, warning, completed,
                 finished, logLevel, outcome>>

\* Bug: a failed clean-up of the old generation is returned as a failure.
CleanupIsNoFailureForgotten(o) == Fails(o) /\ UNCHANGED warning

(* ErrRetiredCleanup becomes a warning. *)
CleanupIsNoFailure(o) ==
  /\ warning' = [warning EXCEPT ![o] = TRUE]
  /\ UNCHANGED err

(* Store.Complete owns the import from here: it switches, or fails and gives
   the slot back. *)
Complete(o) ==
  /\ JobGoes(o, "complete", "undoDirectory")
  /\ \/ /\ Register!Publish(o)
        /\ outcome' = [outcome EXCEPT ![o] = "switched"]
        /\ \/ UNCHANGED <<err, warning>>
           \/ served # None /\ CleanupIsNoFailure(o)
     \/ /\ Register!Discard(o)
        /\ Fails(o)
        /\ UNCHANGED <<warning, outcome>>
  /\ UNCHANGED <<handlerSide, content, files, registry, logLevel>>

\* Bug: the deferred removal has been dropped.
UndoDirectoryForgotten(o) == UNCHANGED <<directory, err>>

(* removeDirectory of a directory that is still owned; its failure is joined
   to the error. *)
UndoDirectory(o) ==
  /\ directory' = directory \ {o}
  /\ \/ UNCHANGED err
     \/ o \in directory /\ Fails(o)

RunUndoDirectory(o) ==
  /\ JobGoes(o, "undoDirectory", "undoArchive")
  /\ UndoDirectory(o)
  /\ UNCHANGED <<handlerSide, store, content, archive, warning, registry,
                 logLevel, outcome>>

(* removeFile; an error is there already if the archive is. *)
UndoArchive(o) ==
  /\ JobGoes(o, "undoArchive", "undoSlot")
  /\ archive' = archive \ {o}
  /\ UNCHANGED <<handlerSide, store, content, directory, err, warning, registry,
                 logLevel, outcome>>

\* Bug: abortRequired is cleared before the first step.
UndoSlotForgotten(o) == UNCHANGED store

UndoSlot(o) ==
  \/ reservation = o /\ Register!Discard(o)
  \/ reservation # o /\ UNCHANGED store

RunUndoSlot(o) ==
  /\ JobGoes(o, "undoSlot", "finish")
  /\ UndoSlot(o)
  /\ UNCHANGED <<handlerSide, content, files, err, warning, registry, logLevel,
                 outcome>>

--------------------------------------------------------------------------------
(* importRegistry.finish, the log record, and work.Done. *)

\* Bug: the loop keeps one import fewer.
KeptOffByOne(all) == SubSeq(all, Len(all) - Retention + 2, Len(all))

Kept(all) ==
  IF Len(all) > Retention THEN SubSeq(all, Len(all) - Retention + 1, Len(all)) ELSE all

Elements(seq) == {seq[i] : i \in DOMAIN seq}

\* Bug: a failed import is not recorded.
FinishSuccessOnly(o) ==
  /\ JobGoes(o, "finish", "log")
  /\ IF err[o] THEN UNCHANGED record ELSE record' = [record EXCEPT ![o] = "succeeded"]
  /\ UNCHANGED <<handlerSide, store, content, files, err, warning, completed,
                 finished, logLevel, outcome>>

Finish(o) ==
  LET all   == Append(completed, o)
      state == IF err[o] THEN "failed" ELSE "succeeded"
  IN  /\ JobGoes(o, "finish", "log")
      /\ IF record[o] = None
           THEN UNCHANGED <<record, completed>>
           ELSE /\ completed' = Kept(all)
                /\ record' = [p \in Op |->
                                IF p \in Elements(all) \ Elements(Kept(all)) THEN None
                                ELSE IF p = o THEN state
                                ELSE record[p]]
      /\ finished' = Append(finished, o)
      /\ UNCHANGED <<handlerSide, store, content, files, err, warning, logLevel,
                     outcome>>

(* The final record is written at level info, whatever Result says; then the
   goroutine ends. *)
Log(o) ==
  /\ JobGoes(o, "log", "done")
  /\ logLevel' = [logLevel EXCEPT ![o] = "info"]
  /\ work' = work - 1
  /\ err' = [err EXCEPT ![o] = FALSE]
  /\ content' = [content EXCEPT ![o] = IF served = o THEN @ ELSE None]
  /\ UNCHANGED <<server, graceOver, request, store, files, warning, registry, outcome>>

JobStep(o) ==
  \/ StartValidating(o)
  \/ Extract(o)
  \/ RemoveArchive(o)
  \/ Validate(o)
  \/ Compare(o)
  \/ ReuseBuilding(o)
  \/ ReuseActivating(o)
  \/ ReuseAbort(o)
  \/ Build(o)
  \/ DropDirectory(o)
  \/ Activate(o)
  \/ Complete(o)
  \/ RunUndoDirectory(o)
  \/ UndoArchive(o)
  \/ RunUndoSlot(o)
  \/ Finish(o)
  \/ Log(o)

--------------------------------------------------------------------------------
(* main.serve and App.Close. *)

opSide == <<request, job, content, files, err, warning, registry, logLevel,
            outcome>>

Start ==
  /\ server = "down"
  /\ server' = "serving"
  /\ Register!Start
  /\ UNCHANGED <<graceOver, work, opSide>>

(* SIGTERM: server.Shutdown closes the listener and waits for the handlers. *)
Signal ==
  /\ server = "serving"
  /\ server' = "draining"
  /\ UNCHANGED <<graceOver, work, store, opSide>>

(* Shutdown has no active handler left, or ListenAndServe has failed; the
   deferred App.Close sets closing. *)
BeginClose ==
  /\ \/ server = "serving"
     \/ server = "draining" /\ \A o \in Op : request[o] \in {"idle", "ended"}
  /\ server' = "closing"
  /\ UNCHANGED <<graceOver, work, store, opSide>>

(* shutdownGrace is over while handlers still run; they are not cancelled. *)
GraceExpires ==
  /\ server = "draining"
  /\ server' = "closing"
  /\ graceOver' = TRUE
  /\ UNCHANGED <<work, store, opSide>>

\* Bug: Close does not wait for the work group.
WorkAwaitedNever == TRUE

WorkAwaited == work = 0

(* work.Wait returns; store.Close. *)
CloseStore ==
  /\ server = "closing"
  /\ WorkAwaited
  /\ server' = "closed"
  /\ Register!Shutdown
  /\ UNCHANGED <<graceOver, work, opSide>>

(* The process ends: after Close, or killed at any time.  Its temporary
   files stay behind, and the next process does not look for them. *)
ProcessEnds ==
  /\ server # "down"
  /\ server' = "down"
  /\ graceOver' = FALSE
  /\ work' = 0
  /\ request' = [o \in Op |-> IF request[o] = "idle" THEN "idle" ELSE "ended"]
  /\ job' = [o \in Op |-> IF job[o] = "none" THEN "none" ELSE "done"]
  /\ Register!Halt
  /\ content' = [o \in Op |-> None]
  /\ archive' = {}
  /\ directory' = {}
  /\ err' = [o \in Op |-> FALSE]
  /\ warning' = [o \in Op |-> FALSE]
  /\ record' = [o \in Op |-> None]
  /\ completed' = <<>>
  /\ finished' = <<>>
  /\ logLevel' = [o \in Op |-> "none"]
  /\ outcome' = [o \in Op |-> "none"]

Next ==
  \/ \E o \in Op : Arrive(o) \/ HandlerStep(o) \/ JobStep(o)
  \/ Start
  \/ Signal
  \/ BeginClose
  \/ GraceExpires
  \/ CloseStore
  \/ ProcessEnds

Spec == Init /\ [][Next]_vars

(* The goroutines run; the upload deadline ends a reception that would not end
   by itself; the grace timer fires.  No fairness is asked of clients, signals
   or the end of the process. *)
Fairness ==
  /\ \A o \in Op : WF_vars(HandlerStep(o)) /\ WF_vars(JobStep(o))
  /\ WF_vars(server = "draining" /\ (BeginClose \/ GraceExpires))
  /\ WF_vars(CloseStore)

FairSpec == Spec /\ Fairness

--------------------------------------------------------------------------------
(* Properties. *)

HoldsSlot(o) ==
  \/ request[o] \in {"reserved", "receiving", "received"}
  \/ job[o] \in Working \ {"finish", "log"}

(* "Only one import can run at a time" (operations.md:74), and nobody else
   keeps it from running: the slot belongs to an upload that is received or
   processed right now, and a client that has seen the end of its import finds
   the slot given back. *)
SlotHeldByLiveImport ==
  reservation # None =>
    /\ HoldsSlot(reservation)
    /\ record[reservation] \notin Terminal

(* The comparison with the current generation stays true until it is acted on,
   although it is made without holding any lock: an import that reuses finds
   its content still served when it reports success, one that builds never
   switches to a snapshotId that is already served. *)
ComparisonStillHolds ==
  \A o \in Op :
    /\ job[o] \in {"reuse", "reuseActivate", "reuseAbort"} =>
         served # None /\ content[served] = content[o]
    /\ job[o] \in {"build", "drop", "activate", "complete"} =>
         served = None \/ content[served].id # content[o].id

(* What a client reads is what happened: an import recorded as succeeded has
   switched or found its content served, a failed one has published nothing,
   and what is served was recorded as activating or later. *)
RecordTruthful ==
  \A o \in Op :
    /\ record[o] = "succeeded" => outcome[o] # "none"
    /\ record[o] = "failed" => outcome[o] # "switched" /\ served # o
    /\ served = o => record[o] \in {"activating", "succeeded", None}

(* An archive or extracted directory that someone still means to remove belongs
   to an upload in flight: in every path through the deferred calls a file is
   removed, or its removal has been tried. *)
TemporaryFilesOwned ==
  \A o \in Op :
    /\ o \in archive =>
         \/ request[o] \in {"receiving", "received"}
         \/ job[o] \in Working \ {"undoSlot", "finish", "log"}
    /\ o \in directory =>
         job[o] \in Working \ {"undoArchive", "undoSlot", "finish", "log"}

(* App.Close waits for the asynchronous imports (app.go:208): when the store is
   closed, no upload holds a work unit and every accepted import has its final
   record. *)
StoreOutlivesImports ==
  server = "closed" =>
    /\ ~accepting
    /\ \A o \in Op : /\ job[o] \notin Working
                     /\ request[o] \notin Handling
                     /\ record[o] \notin Running

(* The work group counts the uploads in flight: it never goes below zero,
   which would panic, and never misses the hand-over to the goroutine. *)
WorkCountsUploads ==
  work = Cardinality({o \in Op : request[o] \in Handling \/ job[o] \in Working})

LastFinished ==
  {finished[i] : i \in {k \in DOMAIN finished : k > Len(finished) - Retention}}

(* "In addition to the imports in progress, the newest 16 completed ones are
   kept" (operations.md:66): the registry holds exactly these. *)
RegistryKeepsNewest ==
  {o \in Op : record[o] # None}
    = {o \in Op : job[o] \in Working \ {"log"}} \cup LastFinished

Order == <<None, "accepted", "validating", "building", "activating">>

\* What a step may do to the record of o.
Advances(o) ==
  record'[o] # record[o] =>
    \/ \E i \in 1..4 : record[o] = Order[i] /\ record'[o] = Order[i + 1]
    \/ record[o] \in {"validating", "building", "activating"} /\ record'[o] = "failed"
    \/ record[o] = "activating" /\ record'[o] = "succeeded"
    \/ record[o] \in Terminal /\ record'[o] = None
    \/ server' = "down"

(* The record of an import in progress goes through its stages one by one, may
   fail from any of them after it was accepted, succeeds only after activating
   and never leaves a terminal state, except when it is dropped or the process
   ends. *)
RecordAdvances == [][\A o \in Op : Advances(o)]_record

(* Liveness under Fairness: the slot does not stay with one upload for ever. *)
SlotGivenBack == \A o \in Op : reservation = o ~> reservation # o

(* An accepted import reaches a terminal record, unless the process ends. *)
AcceptedFinishes ==
  \A o \in Op : record[o] = "accepted" ~> record[o] \in Terminal \cup {None}

(* Close returns: no upload and no import keeps the process for ever. *)
CloseReturns == server = "closing" ~> server \in {"closed", "down"}

(* operations.md:60 sends the operator to the warning log when only the
   clean-up of the old generation has failed: such an import ends with a
   warning. *)
CleanupIsWarned ==
  \A o \in Op : warning[o] /\ job[o] = "done" => logLevel[o] = "warn"

(* operations.md:160 says the process waits at most the grace of 60 seconds for
   HTTP requests: after it, no request in progress holds up App.Close. *)
GraceBoundsRequests ==
  graceOver /\ server = "closing" => \A o \in Op : request[o] \notin Handling
===============================================================================
