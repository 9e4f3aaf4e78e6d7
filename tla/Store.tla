--------------------------------- MODULE Store ---------------------------------
(***************************************************************************)
(* internal/store: the current search database, the import that may        *)
(* replace it, the references that searches hold, and the SQLite files     *)
(* under the data directory.  A step is one critical section of Store.mu,  *)
(* or one stretch of code that runs without it.                            *)
(*                                                                         *)
(* A database object is named by its generation number, an import by the   *)
(* content it builds, and a file's value is the import whose content it    *)
(* holds.  An import's `finished` flag is set in exactly the critical      *)
(* sections that clear the slot, so "i.finished || s.importing != i" is    *)
(* importing # o.                                                          *)
(***************************************************************************)
EXTENDS Naturals, FiniteSets

CONSTANTS
  Op,             \* imports (*Import values)
  Search,         \* requests that Acquire the current database
  None,           \* nil import, absent file
  MaxGeneration   \* bound of the 64-bit generation counter

ASSUME NoneAssumption == None \notin Op
ASSUME SearchAssumption == IsFiniteSet(Search)
ASSUME GenerationAssumption == MaxGeneration \in Nat \ {0}

Generations == 1..MaxGeneration
NoGeneration == 0

VARIABLES
  up,              \* a Store made by New exists in a running process
  closed,          \* Store.closed
  current,         \* Store.current: a generation, or NoGeneration for nil
  importing,       \* Store.importing
  nextGeneration,  \* Store.nextGeneration
  opened,          \* generations whose search database handle is open
  refs,            \* database.refs
  retired,         \* generations with database.retired set
  stage,           \* where each import is between BeginImport and its end
  searchPc,        \* where each search is
  searchGen,       \* the generation each search acquired
  closePc,         \* the unlocked part of Close
  closeOp,         \* the import Close has taken from the slot
  closeGen,        \* the unreferenced generation Close has taken
  importingFile,   \* importing.db: the import whose content it holds, or None
  generationFile,  \* generation-N.db, likewise
  verified,        \* history: imports that passed every check of Complete
  leaked           \* history: files whose removal failed (0: importing.db)

volatile == <<up, closed, current, importing, nextGeneration, opened, refs,
              retired, stage, searchPc, searchGen, closePc, closeOp, closeGen>>
disk == <<importingFile, generationFile>>
history == <<verified, leaked>>
vars == <<volatile, disk, history>>

ImportingName == 0

Stages == {"idle", "building", "checking", "checked", "failing", "done"}
InProgress == {"building", "checking", "checked", "failing"}
ClosePcs == {"none", "import", "generation", "ended"}

TypeOK ==
  /\ up \in BOOLEAN
  /\ closed \in BOOLEAN
  /\ current \in Generations \cup {NoGeneration}
  /\ importing \in Op \cup {None}
  /\ nextGeneration \in 0..MaxGeneration
  /\ opened \subseteq Generations
  /\ refs \in [Generations -> Nat]
  /\ retired \subseteq Generations
  /\ stage \in [Op -> Stages]
  /\ searchPc \in [Search -> {"idle", "holding", "reclaiming"}]
  /\ searchGen \in [Search -> Generations \cup {NoGeneration}]
  /\ closePc \in ClosePcs
  /\ closeOp \in Op \cup {None}
  /\ closeGen \in Generations \cup {NoGeneration}
  /\ importingFile \in Op \cup {None}
  /\ generationFile \in [Generations -> Op \cup {None}]
  /\ verified \subseteq Op
  /\ leaked \subseteq Generations \cup {ImportingName}

--------------------------------------------------------------------------------
(* removeDatabaseFiles: an absent file is no error; `ok` says whether the
   operating system removed a present one. *)

RemoveImporting(ok) ==
  /\ importingFile' = IF ok THEN None ELSE importingFile
  /\ leaked' = IF ok \/ importingFile = None
                 THEN leaked \ {ImportingName}
                 ELSE leaked \cup {ImportingName}

RemoveGeneration(g, ok) ==
  /\ generationFile' = IF ok THEN [generationFile EXCEPT ![g] = None]
                             ELSE generationFile
  /\ leaked' = IF ok \/ generationFile[g] = None THEN leaked ELSE leaked \cup {g}

(* closeAndRemove: the handle is closed even when the removal fails. *)
CloseAndRemove(g, ok) ==
  /\ opened' = opened \ {g}
  /\ RemoveGeneration(g, ok)

\* Bug: the references are not looked at.
UnreferencedIgnoringRefs(g) == g # NoGeneration

(* A database that the switch or Close may close at once. *)
Unreferenced(g) == g # NoGeneration /\ refs[g] = 0

\* Bug: the current database is closed by its last search.
LastReferenceIgnoringRetired(g) == refs[g] = 1

\* Bug: every search of a retired database closes it.
LastReferenceIgnoringCount(g) == g \in retired

\* Bug: a retired database is left to nobody.
LastReferenceNever(g) == FALSE

(* The release that must close the database it releases. *)
LastReference(g) == g \in retired /\ refs[g] = 1

(* The memory of a process that ends. *)
LoseProcess ==
  /\ up' = FALSE
  /\ closed' = FALSE
  /\ current' = NoGeneration
  /\ importing' = None
  /\ nextGeneration' = 0
  /\ opened' = {}
  /\ refs' = [g \in Generations |-> 0]
  /\ retired' = {}
  /\ stage' = [o \in Op |-> IF stage[o] \in InProgress THEN "done" ELSE stage[o]]
  /\ searchPc' = [s \in Search |-> "idle"]
  /\ searchGen' = [s \in Search |-> NoGeneration]
  /\ closePc' = "none"
  /\ closeOp' = None
  /\ closeGen' = NoGeneration

Init ==
  /\ up = FALSE
  /\ closed = FALSE
  /\ current = NoGeneration
  /\ importing = None
  /\ nextGeneration = 0
  /\ opened = {}
  /\ refs = [g \in Generations |-> 0]
  /\ retired = {}
  /\ stage = [o \in Op |-> "idle"]
  /\ searchPc = [s \in Search |-> "idle"]
  /\ searchGen = [s \in Search |-> NoGeneration]
  /\ closePc = "none"
  /\ closeOp = None
  /\ closeGen = NoGeneration
  /\ importingFile = None
  /\ generationFile = [g \in Generations |-> None]
  /\ verified = {}
  /\ leaked = {}

--------------------------------------------------------------------------------
\* Bug: only importing.db and the files of older versions are removed.
StaleAtStartupForgotten == {}

(* removeStartupDatabases: the generation files of an earlier process. *)

StaleAtStartup == {g \in Generations : generationFile[g] # None}

WithoutFiles(removed) ==
  [g \in Generations |-> IF g \in removed THEN None ELSE generationFile[g]]

(* New: removes importing.db and every generation-*.db. *)
New ==
  /\ ~up
  /\ up' = TRUE
  /\ importingFile' = None
  /\ generationFile' = WithoutFiles(StaleAtStartup)
  /\ leaked' = {}
  /\ UNCHANGED <<closed, current, importing, nextGeneration, opened, refs,
                 retired, stage, searchPc, searchGen, closePc, closeOp,
                 closeGen, verified>>

(* One generation file cannot be removed: the removal stops there, New returns
   the error and no Store exists. *)
NewFails ==
  /\ ~up
  /\ \E removed \in (SUBSET StaleAtStartup) \ {StaleAtStartup} :
       generationFile' = WithoutFiles(removed)
  /\ importingFile' = None
  /\ UNCHANGED <<volatile, history>>

--------------------------------------------------------------------------------
(* BeginImport: one critical section, SQLite calls included. *)

\* Bug: the slot is not looked at.
CanBeginWithoutSlot(o) ==
  /\ up
  /\ ~closed
  /\ stage[o] = "idle"

CanBegin(o) ==
  /\ up
  /\ ~closed
  /\ importing = None
  /\ stage[o] = "idle"

BeginImport(o) ==
  /\ CanBegin(o)
  /\ importing' = o
  /\ stage' = [stage EXCEPT ![o] = "building"]
  /\ importingFile' = o
  /\ leaked' = leaked \ {ImportingName}
  /\ UNCHANGED <<up, closed, current, nextGeneration, opened, refs, retired,
                 searchPc, searchGen, closePc, closeOp, closeGen,
                 generationFile, verified>>

(* The stale importing.db could not be removed, or the new one not be opened
   or given its tables; in the latter cases it is removed again. *)
BeginImportFails(o) ==
  /\ CanBegin(o)
  /\ \/ /\ importingFile # None
        /\ UNCHANGED importingFile
        /\ leaked' = leaked \cup {ImportingName}
     \/ /\ importingFile' = None
        /\ leaked' = leaked \ {ImportingName}
     \/ /\ importingFile' = o
        /\ leaked' = leaked \cup {ImportingName}
  /\ UNCHANGED <<volatile, generationFile, verified>>

Abort(o) ==
  /\ up
  /\ stage[o] = "building"
  /\ stage' = [stage EXCEPT ![o] = "done"]
  /\ \/ /\ importing # o                       \* ErrImportFinished
        /\ UNCHANGED <<importing, importingFile, leaked>>
     \/ /\ importing = o
        /\ importing' = None
        /\ \E ok \in BOOLEAN : RemoveImporting(ok)
  /\ UNCHANGED <<up, closed, current, nextGeneration, opened, refs, retired,
                 searchPc, searchGen, closePc, closeOp, closeGen,
                 generationFile, verified>>

--------------------------------------------------------------------------------
(* Complete: a first critical section, the checks without the lock, and a
   second critical section that either switches the generation or fails. *)

StageStep(o, from, to) ==
  /\ up
  /\ stage[o] = from
  /\ stage' = [stage EXCEPT ![o] = to]
  /\ UNCHANGED <<up, closed, current, importing, nextGeneration, opened, refs,
                 retired, searchPc, searchGen, closePc, closeOp, closeGen, disk,
                 leaked>>

CompleteEnter(o) ==
  /\ StageStep(o, "building", IF importing = o THEN "checking" ELSE "done")
  /\ UNCHANGED verified

(* validateGeneration, createIndexes, checkDatabase and the close of the
   import's database have all succeeded. *)
CompleteCheckSucceeds(o) ==
  /\ StageStep(o, "checking", "checked")
  /\ verified' = verified \cup {o}

(* One of them has failed; fail has closed the database. *)
CompleteCheckFails(o) ==
  /\ StageStep(o, "checking", "failing")
  /\ UNCHANGED verified

GiveUp(o) == IF importing = o THEN None ELSE importing

(* failAfterCloseLocked: gives the slot up if the import still owns it, and
   removes importing.db in either case. *)
FailAfterClose(o) ==
  /\ up
  /\ stage[o] = "failing"
  /\ stage' = [stage EXCEPT ![o] = "done"]
  /\ importing' = GiveUp(o)
  /\ \E ok \in BOOLEAN : RemoveImporting(ok)
  /\ UNCHANGED <<up, closed, current, nextGeneration, opened, refs, retired,
                 searchPc, searchGen, closePc, closeOp, closeGen,
                 generationFile, verified>>

(* The import lost the slot while it was checked: ErrImportFinished. *)
CompleteLost(o) ==
  /\ importing # o
  /\ StageStep(o, "checked", "done")
  /\ UNCHANGED verified

(* The renamed file takes the place of the old one, if there is one. *)
RenameTo(g) ==
  /\ importingFile # None
  /\ importingFile' = None
  /\ generationFile' = [generationFile EXCEPT ![g] = importingFile]

CanSwitch(o) ==
  /\ up
  /\ stage[o] = "checked"
  /\ importing = o
  /\ nextGeneration < MaxGeneration

ReleaseSlot(o) ==
  /\ importing' = None
  /\ stage' = [stage EXCEPT ![o] = "done"]
  /\ nextGeneration' = nextGeneration + 1

(* os.Rename fails: importing.db is removed, the number is used up. *)
CompleteRenameFails(o) ==
  /\ CanSwitch(o)
  /\ ReleaseSlot(o)
  /\ \E ok \in BOOLEAN : RemoveImporting(ok)
  /\ UNCHANGED <<up, closed, current, opened, refs, retired, searchPc,
                 searchGen, closePc, closeOp, closeGen, generationFile,
                 verified>>

(* The renamed file cannot be opened: it is removed again.  The removal of
   importing.db that follows finds no file. *)
CompleteOpenFails(o) ==
  LET g == nextGeneration + 1
  IN  /\ CanSwitch(o)
      /\ ReleaseSlot(o)
      /\ importingFile # None
      /\ importingFile' = None
      /\ \E ok \in BOOLEAN :
           /\ generationFile' = [generationFile EXCEPT
                                   ![g] = IF ok THEN None ELSE importingFile]
           /\ leaked' = IF ok THEN leaked \ {ImportingName}
                              ELSE (leaked \ {ImportingName}) \cup {g}
      /\ UNCHANGED <<up, closed, current, opened, refs, retired, searchPc,
                     searchGen, closePc, closeOp, closeGen, verified>>

(* The switch: the new generation becomes current, the old one is retired and
   closed here only if no search refers to it.  A failed removal of the old
   file is ErrRetiredCleanup, with the switch done. *)
CompleteSwitch(o) ==
  LET g   == nextGeneration + 1
      old == current
      unused == Unreferenced(old)
  IN  /\ CanSwitch(o)
      /\ ReleaseSlot(o)
      /\ importingFile # None
      /\ importingFile' = None
      /\ current' = g
      /\ retired' = IF old = NoGeneration THEN retired ELSE retired \cup {old}
      /\ opened' = (IF unused THEN opened \ {old} ELSE opened) \cup {g}
      /\ \E ok \in BOOLEAN :
           LET drop == unused /\ ok
           IN  /\ generationFile' = [h \in Generations |->
                                       IF h = g THEN importingFile
                                       ELSE IF h = old /\ drop THEN None
                                       ELSE generationFile[h]]
               /\ leaked' = IF unused /\ ~ok /\ generationFile[old] # None
                              THEN leaked \cup {old} ELSE leaked
      /\ UNCHANGED <<up, closed, refs, searchPc, searchGen, closePc, closeOp,
                     closeGen, verified>>

--------------------------------------------------------------------------------
(* Acquire and the release function it returns. *)

TakeReference == [refs EXCEPT ![current] = @ + 1]

Acquire(s) ==
  /\ up
  /\ ~closed
  /\ current # NoGeneration
  /\ searchPc[s] = "idle"
  /\ refs' = TakeReference
  /\ searchPc' = [searchPc EXCEPT ![s] = "holding"]
  /\ searchGen' = [searchGen EXCEPT ![s] = current]
  /\ UNCHANGED <<up, closed, current, importing, nextGeneration, opened,
                 retired, stage, closePc, closeOp, closeGen, disk, history>>

(* release, under the lock: the last reference of a retired database makes
   this search the one that closes it. *)
Release(s) ==
  LET g == searchGen[s]
      last == LastReference(g)
  IN  /\ searchPc[s] = "holding"
      /\ refs' = [refs EXCEPT ![g] = @ - 1]
      /\ searchPc' = [searchPc EXCEPT ![s] = IF last THEN "reclaiming" ELSE "idle"]
      /\ searchGen' = [searchGen EXCEPT ![s] = IF last THEN g ELSE NoGeneration]
      /\ UNCHANGED <<up, closed, current, importing, nextGeneration, opened,
                     retired, stage, closePc, closeOp, closeGen, disk, history>>

(* release, after the lock: closeAndRemove, whose error is dropped. *)
Reclaim(s) ==
  /\ searchPc[s] = "reclaiming"
  /\ \E ok \in BOOLEAN : CloseAndRemove(searchGen[s], ok)
  /\ searchPc' = [searchPc EXCEPT ![s] = "idle"]
  /\ searchGen' = [searchGen EXCEPT ![s] = NoGeneration]
  /\ UNCHANGED <<up, closed, current, importing, nextGeneration, refs, retired,
                 stage, closePc, closeOp, closeGen, importingFile, verified>>

--------------------------------------------------------------------------------
(* Close: one critical section, then two clean-ups without the lock. *)

Close ==
  /\ up
  /\ ~closed
  /\ closed' = TRUE
  /\ importing' = None
  /\ current' = NoGeneration
  /\ retired' = IF current = NoGeneration THEN retired ELSE retired \cup {current}
  /\ closePc' = "import"
  /\ closeOp' = importing
  /\ closeGen' = IF Unreferenced(current) THEN current ELSE NoGeneration
  /\ UNCHANGED <<up, nextGeneration, opened, refs, stage, searchPc, searchGen,
                 disk, history>>

CloseRemovesImport ==
  /\ closePc = "import"
  /\ closePc' = "generation"
  /\ \/ /\ closeOp = None
        /\ UNCHANGED <<importingFile, leaked>>
     \/ /\ closeOp # None
        /\ \E ok \in BOOLEAN : RemoveImporting(ok)
  /\ UNCHANGED <<up, closed, current, importing, nextGeneration, opened, refs,
                 retired, stage, searchPc, searchGen, closeOp, closeGen,
                 generationFile, verified>>

CloseRemovesGeneration ==
  /\ closePc = "generation"
  /\ closePc' = "ended"
  /\ \/ /\ closeGen = NoGeneration
        /\ UNCHANGED <<opened, generationFile, leaked>>
     \/ /\ closeGen # NoGeneration
        /\ \E ok \in BOOLEAN : CloseAndRemove(closeGen, ok)
  /\ UNCHANGED <<up, closed, current, importing, nextGeneration, refs, retired,
                 stage, searchPc, searchGen, closeOp, closeGen, importingFile,
                 verified>>

--------------------------------------------------------------------------------
(* The process ends: killed at any step, or it exits after Close. *)

Crash ==
  /\ up
  /\ LoseProcess
  /\ UNCHANGED <<disk, history>>

(* Killed inside the second critical section of Complete, between the rename
   and the switch in memory. *)
CrashAfterRename(o) ==
  /\ CanSwitch(o)
  /\ RenameTo(nextGeneration + 1)
  /\ LoseProcess
  /\ UNCHANGED history

OpStep(o) ==
  \/ BeginImport(o)
  \/ BeginImportFails(o)
  \/ Abort(o)
  \/ CompleteEnter(o)
  \/ CompleteCheckSucceeds(o)
  \/ CompleteCheckFails(o)
  \/ FailAfterClose(o)
  \/ CompleteLost(o)
  \/ CompleteRenameFails(o)
  \/ CompleteOpenFails(o)
  \/ CompleteSwitch(o)
  \/ CrashAfterRename(o)

SearchStep(s) ==
  \/ Acquire(s)
  \/ Release(s)
  \/ Reclaim(s)

Next ==
  \/ New
  \/ NewFails
  \/ \E o \in Op : OpStep(o)
  \/ \E s \in Search : SearchStep(s)
  \/ Close
  \/ CloseRemovesImport
  \/ CloseRemovesGeneration
  \/ Crash

Spec == Init /\ [][Next]_vars

(* A caller that has begun an import calls Complete or Abort, the calls run to
   their end, and a search releases what it acquired: ProcessReceived and the
   handlers do so with defer.  Nothing obliges anyone to start an import, to
   search, to close or to crash. *)
OpProgress(o) ==
  \/ Abort(o)
  \/ CompleteEnter(o)
  \/ CompleteCheckSucceeds(o)
  \/ CompleteCheckFails(o)
  \/ FailAfterClose(o)
  \/ CompleteLost(o)
  \/ CompleteRenameFails(o)
  \/ CompleteOpenFails(o)
  \/ CompleteSwitch(o)

Fairness ==
  /\ \A o \in Op : WF_vars(OpProgress(o))
  /\ \A s \in Search : WF_vars(Release(s)) /\ WF_vars(Reclaim(s))
  /\ WF_vars(CloseRemovesImport)
  /\ WF_vars(CloseRemovesGeneration)

FairSpec == Spec /\ Fairness

--------------------------------------------------------------------------------
(* Properties. *)

Holders(g) == {s \in Search : searchPc[s] = "holding" /\ searchGen[s] = g}
Reclaimers(g) == {s \in Search : searchPc[s] = "reclaiming" /\ searchGen[s] = g}
ClosePending(g) == closePc \in {"import", "generation"} /\ closeGen = g

(* A generation that a search may use: the current one, and every one a search
   has acquired and not released. *)
InUse(g) == g = current \/ Holders(g) # {}

(* "The file of a search generation is neither replaced nor removed while it
   is referenced, so it can be opened immutable" (store.go:424): whatever
   switches, failures, releases and closes happen, a generation in use has its
   handle open and a complete, checked database under its name. *)
ReferencedGenerationIntact ==
  \A g \in Generations :
    InUse(g) => /\ g \in opened
                /\ generationFile[g] \in verified

(* An import that owns the slot finds its own importing.db there: neither the
   unconditional removal in failAfterCloseLocked, nor the unlocked one in
   Close, nor another BeginImport takes it away. *)
BuildFileOwned ==
  importing # None => /\ importingFile = importing
                      /\ stage[importing] \in InProgress

GenerationFileAccounted(g) ==
  generationFile[g] # None =>
    InUse(g) \/ Reclaimers(g) # {} \/ ClosePending(g) \/ g \in leaked

ImportingFileAccounted ==
  importingFile # None =>
    \/ importing = importingFile
    \/ closePc = "import" /\ closeOp = importingFile
    \/ ImportingName \in leaked

(* No file is forgotten: a generation file on disk is in use, or someone has
   undertaken to remove it, or its removal was tried and failed; importing.db
   likewise. *)
EveryFileAccounted ==
  up => (\A g \in Generations : GenerationFileAccounted(g)) /\ ImportingFileAccounted

(* Two goroutines never close and remove the same database, and none does
   while a search still refers to it: the decision is taken under the lock,
   the work is done after it. *)
SingleReclaimer ==
  \A g \in Generations :
    /\ Cardinality(Reclaimers(g)) <= 1
    /\ Reclaimers(g) # {} => Holders(g) = {} /\ ~ClosePending(g)

--------------------------------------------------------------------------------
(* The bookkeeping these invariants rest on. *)

RefsCountHolders == \A g \in Generations : refs[g] = Cardinality(Holders(g))

SearchesPlaced ==
  \A s \in Search : searchPc[s] = "idle" <=> searchGen[s] = NoGeneration

(* Who will close a database has found it retired and without references. *)
ReclaimersHaveLast ==
  \A g \in Generations :
    Reclaimers(g) # {} \/ ClosePending(g) => g \in retired /\ refs[g] = 0

OnlyCurrentUnretired ==
  /\ current \notin retired
  /\ \A g \in opened : g \in retired \/ g = current

(* The numbers above the counter are untouched in this process. *)
FutureNumbersFree ==
  up => \A g \in Generations :
          g > nextGeneration => /\ g \notin opened
                                /\ g \notin retired
                                /\ generationFile[g] = None

(* Only Close takes the slot away from an import in progress. *)
StraysOnlyAfterClose ==
  \A o \in Op : stage[o] \in InProgress => importing = o \/ closed

ClosedStoreIsEmpty ==
  /\ closed => current = NoGeneration /\ importing = None
  /\ closePc # "none" => closed

CheckedIsVerified == \A o \in Op : stage[o] = "checked" => o \in verified

DownIsEmpty ==
  ~up => /\ ~closed
         /\ current = NoGeneration
         /\ importing = None
         /\ nextGeneration = 0
         /\ opened = {}
         /\ retired = {}
         /\ \A o \in Op : stage[o] \notin InProgress
         /\ \A s \in Search : searchPc[s] = "idle"

(* The inductive invariant. *)
IInv ==
  /\ TypeOK
  /\ RefsCountHolders
  /\ SearchesPlaced
  /\ ReclaimersHaveLast
  /\ OnlyCurrentUnretired
  /\ FutureNumbersFree
  /\ StraysOnlyAfterClose
  /\ ClosedStoreIsEmpty
  /\ CheckedIsVerified
  /\ DownIsEmpty
  /\ ReferencedGenerationIntact
  /\ BuildFileOwned
  /\ EveryFileAccounted
  /\ SingleReclaimer

--------------------------------------------------------------------------------
(* A generation name is never reused for another content while its file is
   there: not after a failed switch that used the number up, and not after a
   restart that starts the numbers again at one. *)
NeverOverwritten ==
  [][\A g \in Generations :
       generationFile'[g] # generationFile[g] =>
         generationFile[g] = None \/ generationFile'[g] = None]_generationFile

(* What a search reads through its reference: the file behind the open handle. *)
Lost == "lost"
Answer(g) == IF g \in opened /\ generationFile[g] # None
               THEN generationFile[g] ELSE Lost

AbsServed == IF current = NoGeneration THEN None ELSE Answer(current)
AbsReading == [s \in Search |-> IF searchPc[s] = "holding" THEN Answer(searchGen[s])
                                                          ELSE None]

Register == INSTANCE GenerationRegister WITH
              accepting <- up /\ ~closed,
              reservation <- importing,
              served <- AbsServed,
              reading <- AbsReading

(* The store is a generation register: every search is answered to its end
   from the snapshot current when it began, a failed import changes nothing,
   and a closed store publishes nothing. *)
ImplementsRegister == Register!RegSpec

(* Liveness under Fairness: a retired generation is closed, by the switch, by
   Close or by the last search that releases it. *)
RetiredReclaimed == \A g \in Generations : g \in retired ~> g \notin opened

(* Liveness under Fairness: the import slot is always given back. *)
SlotGivenBack == \A o \in Op : importing = o ~> importing # o
===============================================================================
