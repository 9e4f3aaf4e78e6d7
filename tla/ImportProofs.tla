------------------------------ MODULE ImportProofs -----------------------------
(***************************************************************************)
(* ImportService keeps its safety invariants for every number of uploads,  *)
(* snapshot IDs and contents and every length of the registry.  The        *)
(* inductive invariant IInv says, for each upload, what its place in       *)
(* handler and import tells of the slot, its record, its error and its     *)
(* outcome (Consistent), and how the registry follows from the order of    *)
(* completion (RegistryFollows).                                           *)
(***************************************************************************)
EXTENDS ImportService, FiniteSetTheorems, TLAPS

(* The import has not come to its deferred calls, it is in them, it is over. *)
Early == {"start", "extract", "archive", "validate", "compare", "reuse", "reuseActivate",
          "reuseAbort", "build", "drop", "activate", "complete"}
Late == {"undoDirectory", "undoArchive", "undoSlot", "finish"}
Ended == {"log", "done"}

InFlight == {o \in Op : request[o] \in Handling \/ job[o] \in Working}

(* The slot belongs to the upload from its reservation to its deferred calls. *)
SlotOwned(o) ==
  request[o] \in {"reserved", "receiving", "received"} \/ job[o] \in Early => reservation = o

(* The record is that of the stage the import has reached. *)
RecordStaged(o) ==
  /\ job[o] = "none" => record[o] = None
  /\ job[o] = "start" => record[o] = "accepted"
  /\ job[o] \in {"extract", "archive", "validate", "compare", "reuse", "build"} =>
       record[o] = "validating"
  /\ job[o] \in {"reuseActivate", "drop", "activate"} => record[o] = "building"
  /\ job[o] \in {"reuseAbort", "complete"} => record[o] = "activating"
  /\ job[o] \in Late => record[o] \in {"validating", "building", "activating"}
  /\ job[o] \in Ended => record[o] \in Terminal \cup {None}

(* An error and a switch exclude each other. *)
OutcomeStaged(o) ==
  /\ job[o] \in Early \cup {"none"} => ~err[o] /\ outcome[o] = "none"
  /\ job[o] \in Late /\ ~err[o] => outcome[o] # "none"
  /\ job[o] \in Late /\ outcome[o] # "none" => record[o] = "activating"
  /\ outcome[o] = "switched" => ~err[o] /\ o \notin directory
  /\ job[o] \in {"activate", "complete"} => o \notin directory
  /\ record[o] = "succeeded" => outcome[o] # "none"
  /\ record[o] = "failed" => outcome[o] # "switched"

Consistent(o) ==
  /\ request[o] \in {"idle", "arrived"} \cup Handling => job[o] = "none"
  /\ SlotOwned(o)
  /\ RecordStaged(o)
  /\ OutcomeStaged(o)
  /\ served = o => outcome[o] = "switched"

(* Each upload is completed once, and the registry's list is the end of the order
   of completion. *)
RegistryFollows ==
  /\ \A i \in DOMAIN finished : job[finished[i]] \in Ended
  /\ \A i, j \in DOMAIN finished : finished[i] = finished[j] => i = j
  /\ Len(completed) = IF Len(finished) > Retention THEN Retention ELSE Len(finished)
  /\ \A i \in DOMAIN completed : completed[i] = finished[Len(finished) - Len(completed) + i]
  /\ \A o \in Op : job[o] \in Ended /\ record[o] # None =>
                     \E i \in DOMAIN completed : completed[i] = o
  /\ \A i \in DOMAIN completed : record[completed[i]] # None

SlotHeld == reservation # None => HoldsSlot(reservation)

ClosedIsQuiet == server = "closed" => ~accepting /\ work = 0

IInv ==
  /\ TypeOK
  /\ \A o \in Op : Consistent(o)
  /\ RegistryFollows
  /\ WorkCountsUploads
  /\ SlotHeld
  /\ ComparisonStillHolds
  /\ TemporaryFilesOwned
  /\ ClosedIsQuiet

USE DEF RequestGoes, JobGoes, jobSide, handlerSide, opSide, store, files, registry

--------------------------------------------------------------------------------
(* Frames: what the actions share. *)

(* An upload in flight holds a work unit. *)
LEMMA WorkPositive ==
  ASSUME WorkCountsUploads, NEW o \in Op, request[o] \in Handling \/ job[o] \in Working
  PROVE  work # 0
  <1>1. IsFiniteSet(InFlight)
    BY OpAssumption, FS_Subset DEF InFlight
  <1>2. work = Cardinality(InFlight)
    BY DEF WorkCountsUploads, InFlight
  <1> QED
    BY <1>1, <1>2, FS_EmptySet DEF InFlight

(* The counter and the uploads in flight are left alone. *)
LEMMA WorkUntouched ==
  ASSUME WorkCountsUploads, UNCHANGED work,
         \A p \in Op : (request'[p] \in Handling \/ job'[p] \in Working)
                         <=> (request[p] \in Handling \/ job[p] \in Working)
  PROVE  WorkCountsUploads'
  BY DEF WorkCountsUploads

(* A handler takes a work unit and is in flight from there. *)
LEMMA WorkTaken ==
  ASSUME WorkCountsUploads, NEW o \in Op, work' = work + 1,
         ~(request[o] \in Handling \/ job[o] \in Working),
         request'[o] \in Handling \/ job'[o] \in Working,
         \A p \in Op \ {o} : (request'[p] \in Handling \/ job'[p] \in Working)
                               <=> (request[p] \in Handling \/ job[p] \in Working)
  PROVE  WorkCountsUploads'
  <1>1. IsFiniteSet(InFlight)
    BY OpAssumption, FS_Subset DEF InFlight
  <1>2. InFlight' = InFlight \cup {o}
    BY DEF InFlight
  <1>3. Cardinality(InFlight') = Cardinality(InFlight) + 1
    BY <1>1, <1>2, FS_AddElement DEF InFlight
  <1> QED
    BY <1>3 DEF WorkCountsUploads, InFlight

(* A work unit is given back by an upload that was in flight. *)
LEMMA WorkGivenBack ==
  ASSUME WorkCountsUploads, NEW o \in Op, work' = work - 1,
         request[o] \in Handling \/ job[o] \in Working,
         ~(request'[o] \in Handling \/ job'[o] \in Working),
         \A p \in Op \ {o} : (request'[p] \in Handling \/ job'[p] \in Working)
                               <=> (request[p] \in Handling \/ job[p] \in Working)
  PROVE  WorkCountsUploads'
  <1>1. IsFiniteSet(InFlight)
    BY OpAssumption, FS_Subset DEF InFlight
  <1>2. InFlight' = InFlight \ {o}
    BY DEF InFlight
  <1>3. Cardinality(InFlight') = Cardinality(InFlight) - 1
    BY <1>1, <1>2, FS_RemoveElement DEF InFlight
  <1> QED
    BY <1>3 DEF WorkCountsUploads, InFlight

(* What the registry lists has been completed. *)
LEMMA CompletedEnded ==
  ASSUME TypeOK, RegistryFollows
  PROVE  /\ Len(completed) <= Retention
         /\ Len(completed) <= Len(finished)
         /\ \A i \in DOMAIN completed : completed[i] \in Op /\ job[completed[i]] \in Ended
  <1>1. Len(completed) <= Retention /\ Len(completed) <= Len(finished)
    BY RetentionAssumption DEF TypeOK, RegistryFollows
  <1>2. ASSUME NEW i \in DOMAIN completed
        PROVE  completed[i] \in Op /\ job[completed[i]] \in Ended
    <2>1. Len(finished) - Len(completed) + i \in DOMAIN finished
      BY <1>1 DEF TypeOK
    <2> QED
      BY <2>1 DEF TypeOK, RegistryFollows
  <1> QED
    BY <1>1, <1>2

(* The registry's list is left alone, no import ends, and a record is neither
   made nor dropped for one that has. *)
LEMMA RegistryUntouched ==
  ASSUME TypeOK, RegistryFollows, UNCHANGED <<completed, finished>>,
         \A p \in Op : job'[p] \in Ended <=> job[p] \in Ended,
         \A p \in Op : job[p] \in Ended => record'[p] = record[p]
  PROVE  RegistryFollows'
  <1>1. \A i \in DOMAIN finished : finished[i] \in Op
    BY DEF TypeOK
  <1> QED
    BY <1>1, CompletedEnded DEF RegistryFollows

(* Kept cuts a list to its newest Retention entries. *)
LEMMA KeptIsEnd ==
  ASSUME NEW all \in Seq(Op)
  PROVE  /\ Kept(all) \in Seq(Op)
         /\ Len(Kept(all)) = IF Len(all) > Retention THEN Retention ELSE Len(all)
         /\ \A i \in 1..Len(Kept(all)) : Kept(all)[i] = all[Len(all) - Len(Kept(all)) + i]
  <1>1. CASE Len(all) > Retention
    <2> DEFINE from == Len(all) - Retention + 1
    <2>1. from \in 1..Len(all)
      BY <1>1, RetentionAssumption
    <2>2. Kept(all) = SubSeq(all, from, Len(all))
      BY <1>1 DEF Kept
    <2> QED
      BY <1>1, <2>1, <2>2, RetentionAssumption
  <1>2. CASE ~(Len(all) > Retention)
    BY <1>2 DEF Kept
  <1> QED
    BY <1>1, <1>2

--------------------------------------------------------------------------------
(* The actions of handler and import, one lemma each. *)

(* A request has nothing yet. *)
LEMMA ArriveKeeps ==
  ASSUME IInv, NEW o \in Op, Arrive(o)
  PROVE  IInv'
  <1> USE DEF IInv, Arrive
  <1>1. TypeOK'
    BY DEF TypeOK, RequestStates
  <1>2. \A p \in Op : Consistent(p)'
    BY DEF Consistent, SlotOwned, RecordStaged, OutcomeStaged
  <1>3. RegistryFollows'
    BY RegistryUntouched
  <1>4. WorkCountsUploads'
    BY WorkUntouched DEF TypeOK, Handling
  <1>5. SlotHeld'
    BY DEF SlotHeld, HoldsSlot
  <1>6. ComparisonStillHolds'
    BY DEF ComparisonStillHolds
  <1>7. TemporaryFilesOwned'
    BY DEF TemporaryFilesOwned
  <1>8. ClosedIsQuiet'
    BY DEF ClosedIsQuiet
  <1> QED
    BY <1>1, <1>2, <1>3, <1>4, <1>5, <1>6, <1>7, <1>8

(* The handler takes its work unit, unless Close has begun. *)
LEMMA BeginWorkKeeps ==
  ASSUME IInv, NEW o \in Op, BeginWork(o)
  PROVE  IInv'
  <1> USE DEF IInv, BeginWork, AdmitsWork
  <1>1. TypeOK'
    <2>1. work' \in Nat
      BY DEF TypeOK
    <2>2. request' \in [Op -> RequestStates]
      BY DEF TypeOK, RequestStates
    <2> QED
      BY <2>1, <2>2 DEF TypeOK
  <1>2. \A p \in Op : Consistent(p)'
    BY DEF TypeOK, Consistent, SlotOwned, RecordStaged, OutcomeStaged
  <1>3. RegistryFollows'
    BY RegistryUntouched
  <1>4. WorkCountsUploads'
    BY WorkTaken, WorkUntouched DEF TypeOK, Handling, Working, Consistent
  <1>5. SlotHeld'
    BY DEF TypeOK, SlotHeld, HoldsSlot
  <1>6. ComparisonStillHolds'
    BY DEF ComparisonStillHolds
  <1>7. TemporaryFilesOwned'
    BY DEF TypeOK, TemporaryFilesOwned
  <1>8. ClosedIsQuiet'
    BY DEF ClosedIsQuiet
  <1> QED
    BY <1>1, <1>2, <1>3, <1>4, <1>5, <1>6, <1>7, <1>8

(* The slot was free, so that no other upload is in a stage that owns it. *)
LEMMA ReserveSlotKeeps ==
  ASSUME IInv, NEW o \in Op, ReserveSlot(o)
  PROVE  IInv'
  <1> USE DEF IInv, ReserveSlot, Register!Reserve
  <1>1. TypeOK'
    BY DEF TypeOK, RequestStates
  <1>2. \A p \in Op : Consistent(p)'
    BY OpAssumption DEF TypeOK, Consistent, SlotOwned, RecordStaged, OutcomeStaged,
      Early, Late, Ended, Handling, Terminal
  <1>3. RegistryFollows'
    BY RegistryUntouched
  <1>4. WorkCountsUploads'
    BY WorkUntouched DEF TypeOK, Handling
  <1>5. SlotHeld'
    BY DEF TypeOK, SlotHeld, HoldsSlot
  <1>6. ComparisonStillHolds'
    BY DEF ComparisonStillHolds
  <1>7. TemporaryFilesOwned'
    BY DEF TemporaryFilesOwned
  <1>8. ClosedIsQuiet'
    BY DEF ClosedIsQuiet
  <1> QED
    BY <1>1, <1>2, <1>3, <1>4, <1>5, <1>6, <1>7, <1>8

(* The handler gives back its unit and has nothing else. *)
LEMMA BeginFailsKeeps ==
  ASSUME IInv, NEW o \in Op, BeginFails(o)
  PROVE  IInv'
  <1> USE DEF IInv, BeginFails, Rejects
  <1>0. work # 0
    BY WorkPositive DEF Handling
  <1>1. TypeOK'
    BY <1>0 DEF TypeOK, RequestStates
  <1>2. \A p \in Op : Consistent(p)'
    BY DEF TypeOK, Consistent, SlotOwned, RecordStaged, OutcomeStaged, Handling
  <1>3. RegistryFollows'
    BY RegistryUntouched
  <1>4. WorkCountsUploads'
    BY WorkGivenBack DEF TypeOK, Handling, Working, Consistent
  <1>5. SlotHeld'
    BY DEF SlotHeld, HoldsSlot
  <1>6. ComparisonStillHolds'
    BY DEF ComparisonStillHolds
  <1>7. TemporaryFilesOwned'
    BY DEF TemporaryFilesOwned
  <1>8. ClosedIsQuiet'
    BY <1>0 DEF ClosedIsQuiet
  <1> QED
    BY <1>1, <1>2, <1>3, <1>4, <1>5, <1>6, <1>7, <1>8

(* The handler gives back slot and unit. *)
LEMMA RefuseUploadKeeps ==
  ASSUME IInv, NEW o \in Op, RefuseUpload(o)
  PROVE  IInv'
  <1> USE DEF IInv, RefuseUpload, Rejects, Register!Discard
  <1>0. work # 0
    BY WorkPositive DEF Handling
  <1>1. TypeOK'
    BY <1>0 DEF TypeOK, RequestStates
  <1>2. \A p \in Op : Consistent(p)'
    BY DEF TypeOK, Consistent, SlotOwned, RecordStaged, OutcomeStaged, Early, Late,
      Handling
  <1>3. RegistryFollows'
    BY RegistryUntouched
  <1>4. WorkCountsUploads'
    BY WorkGivenBack DEF TypeOK, Handling, Working, Consistent
  <1>5. SlotHeld'
    BY DEF SlotHeld, HoldsSlot
  <1>6. ComparisonStillHolds'
    BY DEF ComparisonStillHolds
  <1>7. TemporaryFilesOwned'
    BY DEF TemporaryFilesOwned
  <1>8. ClosedIsQuiet'
    BY <1>0 DEF ClosedIsQuiet
  <1> QED
    BY <1>1, <1>2, <1>3, <1>4, <1>5, <1>6, <1>7, <1>8

(* The archive belongs to the handler. *)
LEMMA StartReceiveKeeps ==
  ASSUME IInv, NEW o \in Op, StartReceive(o)
  PROVE  IInv'
  <1> USE DEF IInv, StartReceive
  <1>1. TypeOK'
    BY DEF TypeOK, RequestStates
  <1>2. \A p \in Op : Consistent(p)'
    BY DEF TypeOK, Consistent, SlotOwned, RecordStaged, OutcomeStaged, Handling
  <1>3. RegistryFollows'
    BY RegistryUntouched
  <1>4. WorkCountsUploads'
    BY WorkUntouched DEF TypeOK, Handling
  <1>5. SlotHeld'
    BY DEF SlotHeld, HoldsSlot
  <1>6. ComparisonStillHolds'
    BY DEF ComparisonStillHolds
  <1>7. TemporaryFilesOwned'
    BY DEF TypeOK, TemporaryFilesOwned
  <1>8. ClosedIsQuiet'
    BY DEF ClosedIsQuiet
  <1> QED
    BY <1>1, <1>2, <1>3, <1>4, <1>5, <1>6, <1>7, <1>8

(* The handler keeps slot, archive and unit. *)
LEMMA ReceiveSucceedsKeeps ==
  ASSUME IInv, NEW o \in Op, ReceiveSucceeds(o)
  PROVE  IInv'
  <1> USE DEF IInv, ReceiveSucceeds
  <1>1. TypeOK'
    BY DEF TypeOK, RequestStates
  <1>2. \A p \in Op : Consistent(p)'
    BY DEF TypeOK, Consistent, SlotOwned, RecordStaged, OutcomeStaged, Handling
  <1>3. RegistryFollows'
    BY RegistryUntouched
  <1>4. WorkCountsUploads'
    BY WorkUntouched DEF TypeOK, Handling
  <1>5. SlotHeld'
    BY DEF SlotHeld, HoldsSlot
  <1>6. ComparisonStillHolds'
    BY DEF ComparisonStillHolds
  <1>7. TemporaryFilesOwned'
    BY DEF TemporaryFilesOwned
  <1>8. ClosedIsQuiet'
    BY DEF ClosedIsQuiet
  <1> QED
    BY <1>1, <1>2, <1>3, <1>4, <1>5, <1>6, <1>7, <1>8

(* The handler gives back archive, slot and unit. *)
LEMMA ReceiveFailsKeeps ==
  ASSUME IInv, NEW o \in Op, ReceiveFails(o)
  PROVE  IInv'
  <1> USE DEF IInv, ReceiveFails, Rejects, AbortsReception, Register!Discard
  <1>0. work # 0
    BY WorkPositive DEF Handling
  <1>1. TypeOK'
    BY <1>0 DEF TypeOK, RequestStates
  <1>2. \A p \in Op : Consistent(p)'
    BY DEF TypeOK, Consistent, SlotOwned, RecordStaged, OutcomeStaged, Early, Late,
      Handling
  <1>3. RegistryFollows'
    BY RegistryUntouched
  <1>4. WorkCountsUploads'
    BY WorkGivenBack DEF TypeOK, Handling, Working, Consistent
  <1>5. SlotHeld'
    BY DEF SlotHeld, HoldsSlot
  <1>6. ComparisonStillHolds'
    BY DEF ComparisonStillHolds
  <1>7. TemporaryFilesOwned'
    BY DEF TemporaryFilesOwned
  <1>8. ClosedIsQuiet'
    BY <1>0 DEF ClosedIsQuiet
  <1> QED
    BY <1>1, <1>2, <1>3, <1>4, <1>5, <1>6, <1>7, <1>8

(* The import takes over slot, archive and unit from the handler. *)
LEMMA AcceptKeeps ==
  ASSUME IInv, NEW o \in Op, Accept(o)
  PROVE  IInv'
  <1> USE DEF IInv, Accept
  <1>1. TypeOK'
    BY DEF TypeOK, RequestStates, JobStates, Running
  <1>2. \A p \in Op : Consistent(p)'
    BY DEF TypeOK, Consistent, SlotOwned, RecordStaged, OutcomeStaged, Early, Late,
      Ended, Handling, Terminal
  <1>3. RegistryFollows'
    BY RegistryUntouched DEF TypeOK, Ended, Consistent, Handling
  <1>4. WorkCountsUploads'
    BY WorkUntouched DEF TypeOK, Handling, Working, JobStates
  <1>5. SlotHeld'
    BY DEF TypeOK, SlotHeld, HoldsSlot, Working, JobStates
  <1>6. ComparisonStillHolds'
    BY DEF ComparisonStillHolds
  <1>7. TemporaryFilesOwned'
    BY DEF TypeOK, TemporaryFilesOwned, Working, JobStates
  <1>8. ClosedIsQuiet'
    BY DEF ClosedIsQuiet
  <1> QED
    BY <1>1, <1>2, <1>3, <1>4, <1>5, <1>6, <1>7, <1>8

(* The handler has nothing left to give back. *)
LEMMA Answer202Keeps ==
  ASSUME IInv, NEW o \in Op, Answer202(o)
  PROVE  IInv'
  <1> USE DEF IInv, Answer202
  <1>1. TypeOK'
    BY DEF TypeOK, RequestStates
  <1>2. \A p \in Op : Consistent(p)'
    BY DEF TypeOK, Consistent, SlotOwned, RecordStaged, OutcomeStaged, Handling
  <1>3. RegistryFollows'
    BY RegistryUntouched
  <1>4. WorkCountsUploads'
    BY WorkUntouched DEF TypeOK, Handling
  <1>5. SlotHeld'
    BY DEF SlotHeld, HoldsSlot
  <1>6. ComparisonStillHolds'
    BY DEF ComparisonStillHolds
  <1>7. TemporaryFilesOwned'
    BY DEF TemporaryFilesOwned
  <1>8. ClosedIsQuiet'
    BY DEF ClosedIsQuiet
  <1> QED
    BY <1>1, <1>2, <1>3, <1>4, <1>5, <1>6, <1>7, <1>8

(* The record follows the import. *)
LEMMA StartValidatingKeeps ==
  ASSUME IInv, NEW o \in Op, StartValidating(o)
  PROVE  IInv'
  <1> USE DEF IInv, StartValidating, Progress
  <1>1. TypeOK'
    BY DEF TypeOK, JobStates, Running
  <1>2. \A p \in Op : Consistent(p)'
    BY DEF TypeOK, Consistent, SlotOwned, RecordStaged, OutcomeStaged, Early, Late,
      Ended, Handling, Terminal
  <1>3. RegistryFollows'
    BY RegistryUntouched DEF TypeOK, Ended
  <1>4. WorkCountsUploads'
    BY WorkUntouched DEF TypeOK, Working, JobStates
  <1>5. SlotHeld'
    BY DEF TypeOK, SlotHeld, HoldsSlot, Working, JobStates
  <1>6. ComparisonStillHolds'
    BY DEF ComparisonStillHolds
  <1>7. TemporaryFilesOwned'
    BY DEF TypeOK, TemporaryFilesOwned, Working, JobStates
  <1>8. ClosedIsQuiet'
    BY DEF ClosedIsQuiet
  <1> QED
    BY <1>1, <1>2, <1>3, <1>4, <1>5, <1>6, <1>7, <1>8

(* The directory belongs to the import; an error leads to the deferred calls. *)
LEMMA ExtractKeeps ==
  ASSUME IInv, NEW o \in Op, Extract(o)
  PROVE  IInv'
  <1> USE DEF IInv, Extract, StepFails, Fails
  <1>1. TypeOK'
    BY DEF TypeOK, JobStates
  <1>2. \A p \in Op : Consistent(p)'
    BY DEF TypeOK, Consistent, SlotOwned, RecordStaged, OutcomeStaged, Early, Late,
      Ended, Handling, Terminal
  <1>3. RegistryFollows'
    BY RegistryUntouched DEF TypeOK, Ended
  <1>4. WorkCountsUploads'
    BY WorkUntouched DEF TypeOK, Working, JobStates
  <1>5. SlotHeld'
    BY DEF TypeOK, SlotHeld, HoldsSlot, Working, JobStates
  <1>6. ComparisonStillHolds'
    BY DEF TypeOK, ComparisonStillHolds
  <1>7. TemporaryFilesOwned'
    BY DEF TypeOK, TemporaryFilesOwned, Working, JobStates
  <1>8. ClosedIsQuiet'
    BY DEF ClosedIsQuiet
  <1> QED
    BY <1>1, <1>2, <1>3, <1>4, <1>5, <1>6, <1>7, <1>8

(* The archive is removed before the content is checked. *)
LEMMA RemoveArchiveKeeps ==
  ASSUME IInv, NEW o \in Op, RemoveArchive(o)
  PROVE  IInv'
  <1> USE DEF IInv, RemoveArchive, StepFails, Fails
  <1>1. TypeOK'
    BY DEF TypeOK, JobStates
  <1>2. \A p \in Op : Consistent(p)'
    BY DEF TypeOK, Consistent, SlotOwned, RecordStaged, OutcomeStaged, Early, Late,
      Ended, Handling, Terminal
  <1>3. RegistryFollows'
    BY RegistryUntouched DEF TypeOK, Ended
  <1>4. WorkCountsUploads'
    BY WorkUntouched DEF TypeOK, Working, JobStates
  <1>5. SlotHeld'
    BY DEF TypeOK, SlotHeld, HoldsSlot, Working, JobStates
  <1>6. ComparisonStillHolds'
    BY DEF TypeOK, ComparisonStillHolds
  <1>7. TemporaryFilesOwned'
    BY DEF TypeOK, TemporaryFilesOwned, Working, JobStates
  <1>8. ClosedIsQuiet'
    BY DEF ClosedIsQuiet
  <1> QED
    BY <1>1, <1>2, <1>3, <1>4, <1>5, <1>6, <1>7, <1>8

(* Only the owner of the slot learns its content, and it is not compared yet. *)
LEMMA ValidateKeeps ==
  ASSUME IInv, NEW o \in Op, Validate(o)
  PROVE  IInv'
  <1> USE DEF IInv, Validate, StepFails, Fails
  <1>1. TypeOK'
    BY DEF TypeOK, RequestStates, JobStates, Running
  <1>2. \A p \in Op : Consistent(p)'
    BY DEF TypeOK, Consistent, SlotOwned, RecordStaged, OutcomeStaged, Early, Late,
      Ended, Handling, Terminal
  <1>3. RegistryFollows'
    BY RegistryUntouched DEF TypeOK, Ended
  <1>4. WorkCountsUploads'
    BY WorkUntouched DEF TypeOK, Working, JobStates
  <1>5. SlotHeld'
    BY DEF TypeOK, SlotHeld, HoldsSlot, Working, JobStates
  <1>6. ComparisonStillHolds'
    BY DEF TypeOK, ComparisonStillHolds, Consistent, SlotOwned, Early
  <1>7. TemporaryFilesOwned'
    BY DEF TypeOK, TemporaryFilesOwned, Working, JobStates
  <1>8. ClosedIsQuiet'
    BY DEF ClosedIsQuiet
  <1> QED
    BY <1>1, <1>2, <1>3, <1>4, <1>5, <1>6, <1>7, <1>8

(* What the comparison finds is what ComparisonStillHolds says. *)
LEMMA CompareKeeps ==
  ASSUME IInv, NEW o \in Op, Compare(o)
  PROVE  IInv'
  <1> USE DEF IInv, Compare, StepFails, Fails, SameId
  <1>1. TypeOK'
    BY DEF TypeOK, JobStates
  <1>2. \A p \in Op : Consistent(p)'
    BY DEF TypeOK, Consistent, SlotOwned, RecordStaged, OutcomeStaged, Early, Late,
      Ended, Handling, Terminal
  <1>3. RegistryFollows'
    BY RegistryUntouched DEF TypeOK, Ended
  <1>4. WorkCountsUploads'
    BY WorkUntouched DEF TypeOK, Working, JobStates
  <1>5. SlotHeld'
    BY DEF TypeOK, SlotHeld, HoldsSlot, Working, JobStates
  <1>6. ComparisonStillHolds'
    BY DEF TypeOK, ComparisonStillHolds
  <1>7. TemporaryFilesOwned'
    <2>1. /\ job[o] = "compare"
          /\ \E s \in {"build", "reuse", "undoDirectory"} : job' = [job EXCEPT ![o] = s]
          /\ UNCHANGED <<request, archive, directory>>
      OBVIOUS
    <2> QED
      BY <2>1 DEF TypeOK, TemporaryFilesOwned, Working, JobStates
  <1>8. ClosedIsQuiet'
    BY DEF ClosedIsQuiet
  <1> QED
    BY <1>1, <1>2, <1>3, <1>4, <1>5, <1>6, <1>7, <1>8

(* The record follows the import. *)
LEMMA ReuseBuildingKeeps ==
  ASSUME IInv, NEW o \in Op, ReuseBuilding(o)
  PROVE  IInv'
  <1> USE DEF IInv, ReuseBuilding, Progress
  <1>1. TypeOK'
    BY DEF TypeOK, JobStates, Running
  <1>2. \A p \in Op : Consistent(p)'
    BY DEF TypeOK, Consistent, SlotOwned, RecordStaged, OutcomeStaged, Early, Late,
      Ended, Handling, Terminal
  <1>3. RegistryFollows'
    BY RegistryUntouched DEF TypeOK, Ended
  <1>4. WorkCountsUploads'
    BY WorkUntouched DEF TypeOK, Working, JobStates
  <1>5. SlotHeld'
    BY DEF TypeOK, SlotHeld, HoldsSlot, Working, JobStates
  <1>6. ComparisonStillHolds'
    BY DEF ComparisonStillHolds
  <1>7. TemporaryFilesOwned'
    BY DEF TypeOK, TemporaryFilesOwned, Working, JobStates
  <1>8. ClosedIsQuiet'
    BY DEF ClosedIsQuiet
  <1> QED
    BY <1>1, <1>2, <1>3, <1>4, <1>5, <1>6, <1>7, <1>8

(* The record follows the import. *)
LEMMA ReuseActivatingKeeps ==
  ASSUME IInv, NEW o \in Op, ReuseActivating(o)
  PROVE  IInv'
  <1> USE DEF IInv, ReuseActivating, Progress
  <1>1. TypeOK'
    BY DEF TypeOK, JobStates, Running
  <1>2. \A p \in Op : Consistent(p)'
    BY DEF TypeOK, Consistent, SlotOwned, RecordStaged, OutcomeStaged, Early, Late,
      Ended, Handling, Terminal
  <1>3. RegistryFollows'
    BY RegistryUntouched DEF TypeOK, Ended
  <1>4. WorkCountsUploads'
    BY WorkUntouched DEF TypeOK, Working, JobStates
  <1>5. SlotHeld'
    BY DEF TypeOK, SlotHeld, HoldsSlot, Working, JobStates
  <1>6. ComparisonStillHolds'
    BY DEF ComparisonStillHolds
  <1>7. TemporaryFilesOwned'
    BY DEF TypeOK, TemporaryFilesOwned, Working, JobStates
  <1>8. ClosedIsQuiet'
    BY DEF ClosedIsQuiet
  <1> QED
    BY <1>1, <1>2, <1>3, <1>4, <1>5, <1>6, <1>7, <1>8

(* The import gives up the slot and has an outcome or an error. *)
LEMMA ReuseAbortKeeps ==
  ASSUME IInv, NEW o \in Op, ReuseAbort(o)
  PROVE  IInv'
  <1> USE DEF IInv, ReuseAbort, Fails, Register!Discard
  <1>1. TypeOK'
    BY DEF TypeOK, JobStates
  <1>2. \A p \in Op : Consistent(p)'
    BY DEF TypeOK, Consistent, SlotOwned, RecordStaged, OutcomeStaged, Early, Late,
      Ended, Handling, Terminal
  <1>3. RegistryFollows'
    BY RegistryUntouched DEF TypeOK, Ended
  <1>4. WorkCountsUploads'
    BY WorkUntouched DEF TypeOK, Working, JobStates
  <1>5. SlotHeld'
    BY DEF SlotHeld, HoldsSlot
  <1>6. ComparisonStillHolds'
    BY DEF ComparisonStillHolds
  <1>7. TemporaryFilesOwned'
    BY DEF TypeOK, TemporaryFilesOwned, Working, JobStates
  <1>8. ClosedIsQuiet'
    BY DEF ClosedIsQuiet
  <1> QED
    BY <1>1, <1>2, <1>3, <1>4, <1>5, <1>6, <1>7, <1>8

(* The record follows the import; an error leads to the deferred calls. *)
LEMMA BuildKeeps ==
  ASSUME IInv, NEW o \in Op, Build(o)
  PROVE  IInv'
  <1> USE DEF IInv, Build, Progress
  <1>1. TypeOK'
    BY DEF TypeOK, JobStates, Running
  <1>2. \A p \in Op : Consistent(p)'
    <2>1. PICK ok \in BOOLEAN :
            /\ job' = [job EXCEPT ![o] = IF ok THEN "drop" ELSE "undoDirectory"]
            /\ err' = [err EXCEPT ![o] = ~ok]
      OBVIOUS
    <2>2. CASE ok = TRUE
      BY <2>1, <2>2 DEF TypeOK, Consistent, SlotOwned, RecordStaged, OutcomeStaged,
        Early, Late, Ended, Handling, Terminal
    <2>3. CASE ok = FALSE
      <3>1. job' = [job EXCEPT ![o] = "undoDirectory"] /\ err' = [err EXCEPT ![o] = TRUE]
        BY <2>1, <2>3
      <3> HIDE DEF Build
      <3>2. /\ job[o] = "build"
            /\ record' = [record EXCEPT ![o] = "building"]
            /\ UNCHANGED <<request, store, directory, outcome>>
        BY DEF Build
      <3> QED
        BY <3>1, <3>2 DEF TypeOK, Consistent, SlotOwned, RecordStaged, OutcomeStaged,
          Early, Late, Ended, Handling, Terminal
    <2> QED
      BY <2>2, <2>3
  <1>3. RegistryFollows'
    BY RegistryUntouched DEF TypeOK, Ended
  <1>4. WorkCountsUploads'
    BY WorkUntouched DEF TypeOK, Working, JobStates
  <1>5. SlotHeld'
    BY DEF TypeOK, SlotHeld, HoldsSlot, Working, JobStates
  <1>6. ComparisonStillHolds'
    BY DEF ComparisonStillHolds
  <1>7. TemporaryFilesOwned'
    BY DEF TypeOK, TemporaryFilesOwned, Working, JobStates
  <1>8. ClosedIsQuiet'
    BY DEF ClosedIsQuiet
  <1> QED
    BY <1>1, <1>2, <1>3, <1>4, <1>5, <1>6, <1>7, <1>8

(* An import that is to be activated has no directory left. *)
LEMMA DropDirectoryKeeps ==
  ASSUME IInv, NEW o \in Op, DropDirectory(o)
  PROVE  IInv'
  <1> USE DEF IInv, DropDirectory, StepFails, Fails
  <1>1. TypeOK'
    BY DEF TypeOK, JobStates
  <1>2. \A p \in Op : Consistent(p)'
    BY DEF TypeOK, Consistent, SlotOwned, RecordStaged, OutcomeStaged, Early, Late,
      Ended, Handling, Terminal
  <1>3. RegistryFollows'
    BY RegistryUntouched DEF TypeOK, Ended
  <1>4. WorkCountsUploads'
    BY WorkUntouched DEF TypeOK, Working, JobStates
  <1>5. SlotHeld'
    BY DEF TypeOK, SlotHeld, HoldsSlot, Working, JobStates
  <1>6. ComparisonStillHolds'
    BY DEF TypeOK, ComparisonStillHolds
  <1>7. TemporaryFilesOwned'
    BY DEF TypeOK, TemporaryFilesOwned, Working, JobStates
  <1>8. ClosedIsQuiet'
    BY DEF ClosedIsQuiet
  <1> QED
    BY <1>1, <1>2, <1>3, <1>4, <1>5, <1>6, <1>7, <1>8

(* The record follows the import. *)
LEMMA ActivateKeeps ==
  ASSUME IInv, NEW o \in Op, Activate(o)
  PROVE  IInv'
  <1> USE DEF IInv, Activate, Progress
  <1>1. TypeOK'
    BY DEF TypeOK, JobStates, Running
  <1>2. \A p \in Op : Consistent(p)'
    BY DEF TypeOK, Consistent, SlotOwned, RecordStaged, OutcomeStaged, Early, Late,
      Ended, Handling, Terminal
  <1>3. RegistryFollows'
    BY RegistryUntouched DEF TypeOK, Ended
  <1>4. WorkCountsUploads'
    BY WorkUntouched DEF TypeOK, Working, JobStates
  <1>5. SlotHeld'
    BY DEF TypeOK, SlotHeld, HoldsSlot, Working, JobStates
  <1>6. ComparisonStillHolds'
    BY DEF ComparisonStillHolds
  <1>7. TemporaryFilesOwned'
    BY DEF TypeOK, TemporaryFilesOwned, Working, JobStates
  <1>8. ClosedIsQuiet'
    BY DEF ClosedIsQuiet
  <1> QED
    BY <1>1, <1>2, <1>3, <1>4, <1>5, <1>6, <1>7, <1>8

(* The owner of the slot publishes; no other import can be comparing. *)
LEMMA CompleteKeeps ==
  ASSUME IInv, NEW o \in Op, Complete(o)
  PROVE  IInv'
  <1> USE DEF IInv, Complete, Register!Publish, Register!Discard, Fails,
    CleanupIsNoFailure
  <1>1. TypeOK'
    BY DEF TypeOK, JobStates
  <1>2. \A p \in Op : Consistent(p)'
    BY DEF TypeOK, Consistent, SlotOwned, RecordStaged, OutcomeStaged, Early, Late,
      Ended, Handling, Terminal
  <1>3. RegistryFollows'
    BY RegistryUntouched DEF TypeOK, Ended
  <1>4. WorkCountsUploads'
    BY WorkUntouched DEF TypeOK, Working, JobStates
  <1>5. SlotHeld'
    BY DEF SlotHeld, HoldsSlot
  <1>6. ComparisonStillHolds'
    BY DEF TypeOK, ComparisonStillHolds, Consistent, SlotOwned, Early
  <1>7. TemporaryFilesOwned'
    BY DEF TypeOK, TemporaryFilesOwned, Working, JobStates
  <1>8. ClosedIsQuiet'
    BY DEF ClosedIsQuiet
  <1> QED
    BY <1>1, <1>2, <1>3, <1>4, <1>5, <1>6, <1>7, <1>8

(* A failed removal is an error of an import that has not switched. *)
LEMMA RunUndoDirectoryKeeps ==
  ASSUME IInv, NEW o \in Op, RunUndoDirectory(o)
  PROVE  IInv'
  <1> USE DEF IInv, RunUndoDirectory, UndoDirectory, Fails
  <1>1. TypeOK'
    BY DEF TypeOK, JobStates
  <1>2. \A p \in Op : Consistent(p)'
    BY DEF TypeOK, Consistent, SlotOwned, RecordStaged, OutcomeStaged, Early, Late,
      Ended, Handling, Terminal
  <1>3. RegistryFollows'
    BY RegistryUntouched DEF TypeOK, Ended
  <1>4. WorkCountsUploads'
    BY WorkUntouched DEF TypeOK, Working, JobStates
  <1>5. SlotHeld'
    BY DEF TypeOK, SlotHeld, HoldsSlot, Working, JobStates
  <1>6. ComparisonStillHolds'
    BY DEF ComparisonStillHolds
  <1>7. TemporaryFilesOwned'
    BY DEF TypeOK, TemporaryFilesOwned, Working, JobStates
  <1>8. ClosedIsQuiet'
    BY DEF ClosedIsQuiet
  <1> QED
    BY <1>1, <1>2, <1>3, <1>4, <1>5, <1>6, <1>7, <1>8

(* The archive is removed, or its removal has been tried. *)
LEMMA UndoArchiveKeeps ==
  ASSUME IInv, NEW o \in Op, UndoArchive(o)
  PROVE  IInv'
  <1> USE DEF IInv, UndoArchive
  <1>1. TypeOK'
    BY DEF TypeOK, JobStates
  <1>2. \A p \in Op : Consistent(p)'
    BY DEF TypeOK, Consistent, SlotOwned, RecordStaged, OutcomeStaged, Early, Late,
      Ended, Handling, Terminal
  <1>3. RegistryFollows'
    BY RegistryUntouched DEF TypeOK, Ended
  <1>4. WorkCountsUploads'
    BY WorkUntouched DEF TypeOK, Working, JobStates
  <1>5. SlotHeld'
    BY DEF TypeOK, SlotHeld, HoldsSlot, Working, JobStates
  <1>6. ComparisonStillHolds'
    BY DEF ComparisonStillHolds
  <1>7. TemporaryFilesOwned'
    BY DEF TemporaryFilesOwned
  <1>8. ClosedIsQuiet'
    BY DEF ClosedIsQuiet
  <1> QED
    BY <1>1, <1>2, <1>3, <1>4, <1>5, <1>6, <1>7, <1>8

(* After the deferred calls the slot is not this import's. *)
LEMMA RunUndoSlotKeeps ==
  ASSUME IInv, NEW o \in Op, RunUndoSlot(o)
  PROVE  IInv'
  <1> USE DEF IInv, RunUndoSlot, UndoSlot, Register!Discard
  <1>1. TypeOK'
    BY DEF TypeOK, JobStates
  <1>2. \A p \in Op : Consistent(p)'
    BY DEF TypeOK, Consistent, SlotOwned, RecordStaged, OutcomeStaged, Early, Late,
      Ended, Handling, Terminal
  <1>3. RegistryFollows'
    BY RegistryUntouched DEF TypeOK, Ended
  <1>4. WorkCountsUploads'
    BY WorkUntouched DEF TypeOK, Working, JobStates
  <1>5. SlotHeld'
    BY DEF SlotHeld, HoldsSlot
  <1>6. ComparisonStillHolds'
    BY DEF ComparisonStillHolds
  <1>7. TemporaryFilesOwned'
    BY DEF TemporaryFilesOwned
  <1>8. ClosedIsQuiet'
    BY DEF ClosedIsQuiet
  <1> QED
    BY <1>1, <1>2, <1>3, <1>4, <1>5, <1>6, <1>7, <1>8

(* importRegistry.finish.  The new list is the old one with o at its end, cut at
   its front; a record is dropped exactly for what was cut off. *)
LEMMA FinishKeeps ==
  ASSUME IInv, NEW o \in Op, Finish(o)
  PROVE  IInv'
  <1> DEFINE all == Append(completed, o)
  <1> DEFINE state == IF err[o] THEN "failed" ELSE "succeeded"
  <1> USE DEF IInv
  <1>1. /\ job[o] = "finish"
        /\ record[o] \in {"validating", "building", "activating"}
        /\ completed' = Kept(all)
        /\ record' = [p \in Op |-> IF p \in Elements(all) \ Elements(Kept(all)) THEN None
                                   ELSE IF p = o THEN state ELSE record[p]]
    <2>1. job[o] = "finish" /\ record[o] \in {"validating", "building", "activating"}
      BY DEF Finish, Consistent, RecordStaged, Late
    <2>2. record[o] # None
      BY <2>1, RecordAssumption DEF Running
    <2> QED
      BY <2>1, <2>2 DEF Finish
  <1>2. /\ job' = [job EXCEPT ![o] = "log"]
        /\ finished' = Append(finished, o)
        /\ UNCHANGED <<server, graceOver, work, request, store, content, files, err, warning,
                       logLevel, outcome>>
    BY DEF Finish
  <1>3. /\ all \in Seq(Op)
        /\ Len(all) = Len(completed) + 1
        /\ \A i \in 1..Len(completed) : all[i] = completed[i]
        /\ all[Len(completed) + 1] = o
    BY DEF TypeOK
  <1>4. /\ completed' \in Seq(Op)
        /\ Len(completed') = IF Len(all) > Retention THEN Retention ELSE Len(all)
        /\ \A i \in 1..Len(completed') : completed'[i] = all[Len(all) - Len(completed') + i]
    BY <1>1, <1>3, KeptIsEnd
  <1>5. /\ finished' \in Seq(Op)
        /\ Len(finished') = Len(finished) + 1
        /\ \A i \in 1..Len(finished) : finished'[i] = finished[i]
        /\ finished'[Len(finished) + 1] = o
    BY <1>2 DEF TypeOK
  <1>6. /\ Elements(all) = {all[i] : i \in 1..Len(all)}
        /\ Elements(Kept(all)) = {completed'[i] : i \in 1..Len(completed')}
    <2>1. \A seq \in Seq(Op) : Elements(seq) = {seq[i] : i \in 1..Len(seq)}
      BY DEF Elements
    <2> QED
      BY <2>1, <1>1, <1>3, <1>4
  <1>7. \A p \in Op : p \in Elements(all) \ Elements(Kept(all)) => p # o /\ job[p] \in Ended
    <2>1. Len(completed') \in 1..Len(all)
      BY <1>3, <1>4, RetentionAssumption DEF TypeOK
    <2>2. completed'[Len(completed')] = o
      BY <2>1, <1>3, <1>4
    <2>3. \A i \in 1..Len(completed) : job[completed[i]] \in Ended
      BY CompletedEnded DEF TypeOK
    <2> QED
      BY <2>1, <2>2, <2>3, <1>3, <1>6 DEF TypeOK
  <1>8. TypeOK'
    BY <1>1, <1>2, <1>4, <1>5 DEF TypeOK, JobStates, Running, Terminal
  <1>9. \A p \in Op : Consistent(p)'
    <2> SUFFICES ASSUME NEW p \in Op PROVE Consistent(p)'
      OBVIOUS
    <2>1. CASE p = o
      <3>1. record'[o] = state
        BY <1>1, <1>7
      <3>2. job'[o] = "log"
        BY <1>2 DEF TypeOK
      <3> QED
        BY <2>1, <3>1, <3>2, <1>1, <1>2 DEF TypeOK, Consistent, SlotOwned, RecordStaged,
          OutcomeStaged, Early, Late, Ended, Handling, Terminal
    <2>2. CASE p # o /\ job[p] \in Ended
      <3>1. job'[p] = job[p] /\ record'[p] \in {record[p], None}
        BY <2>2, <1>1, <1>2 DEF TypeOK
      <3> QED
        BY <2>2, <3>1, <1>2, RecordAssumption DEF Running, TypeOK, Consistent,
          SlotOwned, RecordStaged,
          OutcomeStaged, Early, Late, Ended, Handling, Terminal
    <2>3. CASE p # o /\ job[p] \notin Ended
      <3>1. job'[p] = job[p] /\ record'[p] = record[p]
        BY <2>3, <1>1, <1>2, <1>7 DEF TypeOK
      <3> QED
        BY <2>3, <3>1, <1>2 DEF TypeOK, Consistent, SlotOwned, RecordStaged, OutcomeStaged
    <2> QED
      BY <2>1, <2>2, <2>3
  <1>10. RegistryFollows'
    <2>1. \A i \in 1..Len(finished) : finished[i] \in Op /\ finished[i] # o /\ job[finished[i]] \in Ended
      BY <1>1 DEF TypeOK, RegistryFollows, Ended
    <2>2. \A i \in DOMAIN finished' : job'[finished'[i]] \in Ended
      BY <1>2, <1>5, <2>1 DEF TypeOK, Ended
    <2>3. \A i, j \in DOMAIN finished' : finished'[i] = finished'[j] => i = j
      BY <1>5, <2>1 DEF TypeOK, RegistryFollows
    <2>4. Len(completed') = IF Len(finished') > Retention THEN Retention ELSE Len(finished')
      BY <1>3, <1>4, <1>5, RetentionAssumption DEF TypeOK, RegistryFollows
    <2>5. \A i \in 1..Len(all) : all[i] = finished'[Len(finished') - Len(all) + i]
      <3>1. Len(completed) <= Len(finished) /\ Len(completed) \in Nat /\ Len(finished) \in Nat
        BY CompletedEnded DEF TypeOK
      <3>2. \A i \in 1..Len(completed) : completed[i] = finished[Len(finished) - Len(completed) + i]
        BY DEF TypeOK, RegistryFollows
      <3>3. ASSUME NEW i \in 1..Len(completed)
            PROVE  all[i] = finished'[Len(finished') - Len(all) + i]
        <4>1. Len(finished') - Len(all) + i = Len(finished) - Len(completed) + i
          BY <3>1, <1>3, <1>5
        <4>2. Len(finished) - Len(completed) + i \in 1..Len(finished)
          BY <3>1
        <4> QED
          BY <4>1, <4>2, <3>2, <1>3, <1>5
      <3>4. all[Len(all)] = finished'[Len(finished') - Len(all) + Len(all)]
        BY <3>1, <1>3, <1>5
      <3> QED
        BY <3>1, <3>3, <3>4, <1>3
    <2>6. Len(completed') \in 1..Len(all) /\ Len(all) \in 1..Len(finished')
      BY <1>3, <1>4, <1>5, CompletedEnded, RetentionAssumption DEF TypeOK
    <2>7. \A i \in DOMAIN completed' : completed'[i] = finished'[Len(finished') - Len(completed') + i]
      <3> SUFFICES ASSUME NEW i \in 1..Len(completed')
                   PROVE  completed'[i] = finished'[Len(finished') - Len(completed') + i]
        BY <1>4
      <3> DEFINE j == Len(all) - Len(completed') + i
      <3>1. j \in 1..Len(all) /\ completed'[i] = all[j]
        BY <2>6, <1>4
      <3>2. all[j] = finished'[Len(finished') - Len(all) + j]
        BY <3>1, <2>5
      <3> HIDE DEF all
      <3>3. Len(finished') - Len(all) + j = Len(finished') - Len(completed') + i
        BY <2>6
      <3> QED
        BY <3>1, <3>2, <3>3
    <2>8. \A p \in Op : job'[p] \in Ended /\ record'[p] # None =>
                          \E i \in DOMAIN completed' : completed'[i] = p
      <3> SUFFICES ASSUME NEW p \in Op, job'[p] \in Ended, record'[p] # None
                   PROVE  p \in Elements(Kept(all))
        BY <1>4, <1>6
      <3>1. p \notin Elements(all) \ Elements(Kept(all))
        BY <1>1
      <3>2. p \in Elements(all)
        <4>1. CASE p = o
          BY <4>1, <1>3, <1>6 DEF TypeOK
        <4>2. CASE p # o
          <5>1. job[p] \in Ended /\ record[p] # None
            BY <4>2, <3>1, <1>1, <1>2 DEF TypeOK
          <5>2. PICK i \in DOMAIN completed : completed[i] = p
            BY <5>1 DEF RegistryFollows
          <5> QED
            BY <5>2, <1>3, <1>6 DEF TypeOK
        <4> QED
          BY <4>1, <4>2
      <3> QED
        BY <3>1, <3>2
    <2>9. \A i \in DOMAIN completed' : record'[completed'[i]] # None
      <3> SUFFICES ASSUME NEW i \in DOMAIN completed'
                   PROVE  record'[completed'[i]] # None
        OBVIOUS
      <3>1. completed'[i] \in Op /\ completed'[i] \in Elements(Kept(all))
        BY <1>4, <1>6
      <3>2. CASE completed'[i] = o
        <4>1. record'[o] = state
          BY <1>1, <1>7
        <4>2. state \in Terminal
          BY DEF Terminal
        <4> QED
          BY <3>2, <4>1, <4>2, RecordAssumption
      <3>3. CASE completed'[i] # o
        <4>1. PICK j \in 1..Len(completed) : completed'[i] = completed[j]
          <5> DEFINE k == Len(all) - Len(completed') + i
          <5>1. k \in 1..Len(all) /\ completed'[i] = all[k]
            <6>1. i \in 1..Len(completed')
              BY <1>4
            <6> QED
              BY <6>1, <2>6, <1>4
          <5>2. k # Len(completed) + 1
            BY <5>1, <3>3, <1>3
          <5> QED
            BY <5>1, <5>2, <1>3 DEF TypeOK
        <4>2. record[completed[j]] # None
          BY <4>1 DEF TypeOK, RegistryFollows
        <4> QED
          BY <3>1, <3>3, <4>1, <4>2, <1>1
      <3> QED
        BY <3>2, <3>3
    <2> QED
      BY <2>2, <2>3, <2>4, <2>7, <2>8, <2>9 DEF RegistryFollows
  <1>11. WorkCountsUploads'
    BY <1>1, <1>2, WorkUntouched DEF TypeOK, Handling, Working, JobStates
  <1>12. SlotHeld'
    BY <1>1, <1>2 DEF TypeOK, SlotHeld, HoldsSlot, Working, JobStates
  <1>13. ComparisonStillHolds'
    BY <1>1, <1>2 DEF TypeOK, ComparisonStillHolds
  <1>14. TemporaryFilesOwned'
    BY <1>1, <1>2 DEF TypeOK, TemporaryFilesOwned, Working, JobStates
  <1>15. ClosedIsQuiet'
    BY <1>2 DEF ClosedIsQuiet
  <1> QED
    BY <1>8, <1>9, <1>10, <1>11, <1>12, <1>13, <1>14, <1>15

(* The goroutine ends and gives its work unit back. *)
LEMMA LogKeeps ==
  ASSUME IInv, NEW o \in Op, Log(o)
  PROVE  IInv'
  <1> USE DEF IInv, Log
  <1>0. work # 0
    BY WorkPositive DEF Working, JobStates
  <1>1. TypeOK'
    BY <1>0 DEF TypeOK, JobStates
  <1>2. \A p \in Op : Consistent(p)'
    BY DEF TypeOK, Consistent, SlotOwned, RecordStaged, OutcomeStaged, Early, Late, Ended,
      Handling, Terminal
  <1>3. RegistryFollows'
    BY RegistryUntouched DEF TypeOK, Ended
  <1>4. WorkCountsUploads'
    BY WorkGivenBack DEF TypeOK, Handling, Working, JobStates, Consistent
  <1>5. SlotHeld'
    BY DEF TypeOK, SlotHeld, HoldsSlot, Working, JobStates
  <1>6. ComparisonStillHolds'
    BY DEF TypeOK, ComparisonStillHolds
  <1>7. TemporaryFilesOwned'
    BY DEF TypeOK, TemporaryFilesOwned, Working, JobStates
  <1>8. ClosedIsQuiet'
    BY <1>0 DEF ClosedIsQuiet
  <1> QED
    BY <1>1, <1>2, <1>3, <1>4, <1>5, <1>6, <1>7, <1>8

--------------------------------------------------------------------------------
(* The server. *)

(* No upload is in flight when the counter is zero. *)
LEMMA NobodyInFlight ==
  ASSUME WorkCountsUploads, work = 0, NEW o \in Op
  PROVE  request[o] \notin Handling /\ job[o] \notin Working
  BY WorkPositive

(* Starting, a signal and the two ways into Close change the server's state only. *)
LEMMA ServerKeeps ==
  ASSUME IInv, Start \/ Signal \/ BeginClose \/ GraceExpires
  PROVE  IInv'
  <1> USE DEF IInv, Start, Signal, BeginClose, GraceExpires, Register!Start
  <1>1. /\ UNCHANGED <<work, request, job, reservation, served, content, files, err, warning,
                       registry, logLevel, outcome>>
        /\ server' \in {"serving", "draining", "closing"}
        /\ graceOver' \in BOOLEAN
        /\ accepting' \in BOOLEAN
    BY DEF TypeOK
  <1> USE DEF TypeOK
  <1> HIDE DEF Start, Signal, BeginClose, GraceExpires
  <1>2. TypeOK'
    BY <1>1 DEF ServerStates
  <1>3. \A p \in Op : Consistent(p)'
    BY <1>1 DEF Consistent, SlotOwned, RecordStaged, OutcomeStaged
  <1>4. RegistryFollows' /\ WorkCountsUploads' /\ SlotHeld'
    BY <1>1 DEF RegistryFollows, WorkCountsUploads, SlotHeld, HoldsSlot
  <1>5. ComparisonStillHolds' /\ TemporaryFilesOwned' /\ ClosedIsQuiet'
    BY <1>1 DEF ComparisonStillHolds, TemporaryFilesOwned, ClosedIsQuiet
  <1> QED
    BY <1>2, <1>3, <1>4, <1>5

(* The store is closed when the counter is zero, and then nothing is lost. *)
LEMMA CloseStoreKeeps ==
  ASSUME IInv, CloseStore
  PROVE  IInv'
  <1> USE DEF IInv
  <1>1. /\ work = 0
        /\ server' = "closed"
        /\ accepting' = FALSE /\ reservation' = None /\ served' = None
        /\ UNCHANGED <<graceOver, work, request, job, content, files, err, warning, registry,
                       logLevel, outcome>>
    BY DEF CloseStore, WorkAwaited, Register!Shutdown
  <1>2. \A p \in Op : request[p] \notin Handling /\ job[p] \notin Working
    BY <1>1, NobodyInFlight
  <1>3. TypeOK'
    BY <1>1 DEF TypeOK, ServerStates
  <1>4. \A p \in Op : Consistent(p)'
    BY <1>1, <1>2, OpAssumption DEF TypeOK, Consistent, SlotOwned, RecordStaged,
      OutcomeStaged,
      Handling, Working, JobStates, Early
  <1>5. RegistryFollows' /\ WorkCountsUploads' /\ SlotHeld'
    BY <1>1 DEF RegistryFollows, WorkCountsUploads, SlotHeld
  <1>6. ComparisonStillHolds' /\ TemporaryFilesOwned' /\ ClosedIsQuiet'
    BY <1>1, <1>2 DEF TypeOK, ComparisonStillHolds, TemporaryFilesOwned, ClosedIsQuiet,
      Working, JobStates
  <1> QED
    BY <1>3, <1>4, <1>5, <1>6

(* The end of the process leaves no upload in flight. *)
LEMMA ProcessEndsKeeps ==
  ASSUME IInv, ProcessEnds
  PROVE  IInv'
  <1> USE DEF IInv, ProcessEnds, Register!Halt
  <1>1. TypeOK'
    <2>1. request' \in [Op -> RequestStates] /\ job' \in [Op -> JobStates]
      BY DEF RequestStates, JobStates
    <2>2. completed' \in Seq(Op) /\ finished' \in Seq(Op)
      OBVIOUS
    <2> QED
      BY <2>1, <2>2 DEF TypeOK, ServerStates
  <1>2. \A p \in Op : Consistent(p)'
    BY OpAssumption, RecordAssumption DEF Running, TypeOK, Consistent, SlotOwned,
      RecordStaged, OutcomeStaged, Early,
      Late, Ended, Handling, Terminal
  <1>3. RegistryFollows'
    BY RetentionAssumption DEF TypeOK, RegistryFollows
  <1>4. WorkCountsUploads'
    <2>1. {p \in Op : request'[p] \in Handling \/ job'[p] \in Working} = {}
      BY DEF Handling, Working
    <2> QED
      BY <2>1, FS_EmptySet DEF WorkCountsUploads
  <1>5. SlotHeld' /\ ComparisonStillHolds'
    BY DEF TypeOK, SlotHeld, ComparisonStillHolds
  <1>6. TemporaryFilesOwned' /\ ClosedIsQuiet'
    BY DEF TemporaryFilesOwned, ClosedIsQuiet
  <1> QED
    BY <1>1, <1>2, <1>3, <1>4, <1>5, <1>6

(* The invariant speaks of the variables only. *)
LEMMA StutterKeeps ==
  ASSUME IInv, UNCHANGED vars
  PROVE  IInv'
  <1> USE DEF IInv, vars
  <1>1. TypeOK' /\ \A p \in Op : Consistent(p)'
    BY DEF TypeOK, Consistent, SlotOwned, RecordStaged, OutcomeStaged
  <1>2. RegistryFollows' /\ WorkCountsUploads' /\ SlotHeld'
    BY DEF RegistryFollows, WorkCountsUploads, SlotHeld, HoldsSlot
  <1>3. ComparisonStillHolds' /\ TemporaryFilesOwned' /\ ClosedIsQuiet'
    BY DEF ComparisonStillHolds, TemporaryFilesOwned, ClosedIsQuiet
  <1> QED
    BY <1>1, <1>2, <1>3

(* Init establishes the invariant. *)
LEMMA InitInv == Init => IInv
  <1> SUFFICES ASSUME Init PROVE IInv
    OBVIOUS
  <1> USE DEF Init, Fresh, Register!RegInit
  <1>1. TypeOK
    <2>1. request \in [Op -> RequestStates] /\ job \in [Op -> JobStates]
      BY DEF RequestStates, JobStates
    <2>2. completed \in Seq(Op) /\ finished \in Seq(Op)
      OBVIOUS
    <2> QED
      BY <2>1, <2>2 DEF TypeOK, ServerStates
  <1>2. \A o \in Op : Consistent(o)
    BY OpAssumption, RecordAssumption DEF Consistent, SlotOwned, RecordStaged,
      OutcomeStaged, Early, Late, Ended,
      Handling, Terminal
  <1>3. RegistryFollows
    BY RetentionAssumption DEF RegistryFollows, Ended
  <1>4. WorkCountsUploads
    <2>1. {o \in Op : request[o] \in Handling \/ job[o] \in Working} = {}
      BY DEF Handling, Working
    <2> QED
      BY <2>1, FS_EmptySet DEF WorkCountsUploads
  <1>5. SlotHeld /\ ComparisonStillHolds
    BY DEF SlotHeld, ComparisonStillHolds
  <1>6. TemporaryFilesOwned /\ ClosedIsQuiet
    BY DEF TemporaryFilesOwned, ClosedIsQuiet
  <1> QED
    BY <1>1, <1>2, <1>3, <1>4, <1>5, <1>6 DEF IInv

(* Every step keeps the invariant. *)
LEMMA NextInv == IInv /\ [Next]_vars => IInv'
  <1> SUFFICES ASSUME IInv, [Next]_vars PROVE IInv'
    OBVIOUS
  <1>1. ASSUME NEW o \in Op, Arrive(o) \/ HandlerStep(o) PROVE IInv'
    BY <1>1, ArriveKeeps, BeginWorkKeeps, ReserveSlotKeeps, BeginFailsKeeps,
      RefuseUploadKeeps,
      StartReceiveKeeps, ReceiveSucceedsKeeps, ReceiveFailsKeeps, AcceptKeeps, Answer202Keeps
      DEF HandlerStep
  <1>2. ASSUME NEW o \in Op, JobStep(o) PROVE IInv'
    BY <1>2, StartValidatingKeeps, ExtractKeeps, RemoveArchiveKeeps, ValidateKeeps,
      CompareKeeps,
      ReuseBuildingKeeps, ReuseActivatingKeeps, ReuseAbortKeeps, BuildKeeps, DropDirectoryKeeps,
      ActivateKeeps, CompleteKeeps, RunUndoDirectoryKeeps, UndoArchiveKeeps, RunUndoSlotKeeps,
      FinishKeeps, LogKeeps
      DEF JobStep
  <1> QED
    BY <1>1, <1>2, ServerKeeps, CloseStoreKeeps, ProcessEndsKeeps, StutterKeeps DEF Next

(* The invariant holds in every reachable state of the service. *)
THEOREM Invariance == Spec => []IInv
  BY InitInv, NextInv, PTL DEF Spec

(* The variables have their types in every reachable state. *)
THEOREM TypeCorrect == Spec => []TypeOK
  BY Invariance, PTL DEF IInv

(* "Only one import can run at a time" (operations.md:74): whoever has the slot is
   received or processed right now and shows no final record yet. *)
THEOREM SlotIsHeldByLiveImport == Spec => []SlotHeldByLiveImport
  <1>1. IInv => SlotHeldByLiveImport
    <2> SUFFICES ASSUME IInv, reservation # None
                 PROVE  HoldsSlot(reservation) /\ record[reservation] \notin Terminal
      BY DEF SlotHeldByLiveImport
    <2>1. reservation \in Op /\ HoldsSlot(reservation) /\ Consistent(reservation)
      BY DEF IInv, TypeOK, SlotHeld
    <2> QED
      BY <2>1, RecordAssumption DEF IInv, TypeOK, HoldsSlot, Consistent, RecordStaged,
        Handling,
        Working, JobStates, Terminal, Late
  <1> QED
    BY <1>1, Invariance, PTL

(* What an import found about the generation served stays true until it acts on it. *)
THEOREM ComparisonIsNotStale == Spec => []ComparisonStillHolds
  BY Invariance, PTL DEF IInv

(* An archive or directory that is still to be removed belongs to an upload in
   flight. *)
THEOREM TemporaryFilesAreOwned == Spec => []TemporaryFilesOwned
  BY Invariance, PTL DEF IInv

(* The work group counts the uploads in flight, so that Done never panics and Wait
   never returns early. *)
THEOREM WorkIsCounted == Spec => []WorkCountsUploads
  BY Invariance, PTL DEF IInv

(* What a client reads of its import is what happened to it. *)
THEOREM RecordsAreTruthful == Spec => []RecordTruthful
  <1>1. IInv => RecordTruthful
    BY DEF IInv, TypeOK, RecordTruthful, Consistent, RecordStaged, OutcomeStaged,
      Early, Late,
      Ended, Terminal, JobStates
  <1> QED
    BY <1>1, Invariance, PTL

(* App.Close closes the store after the last upload that uses it (app.go:208). *)
THEOREM StoreIsClosedLast == Spec => []StoreOutlivesImports
  <1>1. IInv => StoreOutlivesImports
    <2> SUFFICES ASSUME IInv, server = "closed", NEW o \in Op
                 PROVE  /\ ~accepting
                        /\ job[o] \notin Working
                        /\ request[o] \notin Handling
                        /\ record[o] \notin Running
      BY DEF StoreOutlivesImports, IInv, ClosedIsQuiet
    <2>1. ~accepting /\ job[o] \notin Working /\ request[o] \notin Handling
      BY NobodyInFlight DEF IInv, ClosedIsQuiet
    <2>2. job[o] \in {"none", "done"}
      BY <2>1 DEF IInv, TypeOK, Working
    <2> QED
      BY <2>1, <2>2, RecordAssumption DEF IInv, Consistent, RecordStaged, Ended,
        Terminal, Running
  <1> QED
    BY <1>1, Invariance, PTL

(* The registry holds the records of the imports in progress and of the newest
   completed ones, and no other (operations.md:66). *)
THEOREM NewestRecordsAreKept == Spec => []RegistryKeepsNewest
  <1>1. IInv => RegistryKeepsNewest
    <2> SUFFICES ASSUME IInv PROVE RegistryKeepsNewest
      OBVIOUS
    <2> USE DEF IInv
    <2>1. \A o \in Op : job[o] \in Working \ {"log"} => record[o] # None
      BY RecordAssumption DEF TypeOK, Consistent, RecordStaged, Working, JobStates,
        Late, Running
    <2>2. \A o \in Op : job[o] \notin Working \ {"log"} /\ record[o] # None => job[o] \in Ended
      BY DEF TypeOK, Consistent, RecordStaged, Working, Ended
    <2>3. \A k \in DOMAIN finished : finished[k] \in Op
      BY DEF TypeOK
    <2>4. Len(completed) \in Nat /\ Len(finished) \in Nat /\ Len(completed) <= Len(finished)
      BY CompletedEnded DEF TypeOK
    <2>5. LastFinished = {completed[i] : i \in DOMAIN completed}
      <3>1. ASSUME NEW k \in DOMAIN finished, k > Len(finished) - Retention
            PROVE  \E i \in DOMAIN completed : completed[i] = finished[k]
        <4> DEFINE i == k - (Len(finished) - Len(completed))
        <4>1. k \in 1..Len(finished)
          BY <3>1, <2>4 DEF TypeOK
        <4>2. Len(completed) = IF Len(finished) > Retention THEN Retention ELSE Len(finished)
          BY DEF RegistryFollows
        <4>3. i \in 1..Len(completed) /\ k = Len(finished) - Len(completed) + i
          BY <3>1, <2>4, <4>1, <4>2, RetentionAssumption
        <4>4. i \in DOMAIN completed
          BY <4>3 DEF TypeOK
        <4>5. completed[i] = finished[Len(finished) - Len(completed) + i]
          BY <4>4 DEF RegistryFollows
        <4> QED
          BY <4>3, <4>4, <4>5
      <3>2. ASSUME NEW i \in DOMAIN completed
            PROVE  \E k \in DOMAIN finished : k > Len(finished) - Retention /\ finished[k] = completed[i]
        <4> DEFINE k == Len(finished) - Len(completed) + i
        <4>1. k \in 1..Len(finished) /\ k > Len(finished) - Retention
          BY <2>4, CompletedEnded, RetentionAssumption DEF TypeOK
        <4>2. completed[i] = finished[k]
          BY DEF RegistryFollows
        <4> HIDE DEF k
        <4> QED
          BY <4>1, <4>2 DEF TypeOK
      <3> QED
        BY <3>1, <3>2 DEF LastFinished
    <2>6. \A o \in Op : job[o] \in Ended /\ record[o] # None => o \in LastFinished
      BY <2>5 DEF RegistryFollows
    <2>7. \A o \in LastFinished : o \in Op /\ record[o] # None
      BY <2>5, CompletedEnded DEF RegistryFollows
    <2> QED
      BY <2>1, <2>2, <2>6, <2>7 DEF RegistryKeepsNewest
  <1> QED
    BY <1>1, Invariance, PTL

--------------------------------------------------------------------------------
(* The history of a record. *)

(* The stages follow each other in Order. *)
LEMMA NextStage ==
  ASSUME NEW p \in Op,
         \/ record[p] = None /\ record'[p] = "accepted"
         \/ record[p] = "accepted" /\ record'[p] = "validating"
         \/ record[p] = "validating" /\ record'[p] = "building"
         \/ record[p] = "building" /\ record'[p] = "activating"
  PROVE  Advances(p)
  <1>1. \E i \in 1..4 : record[p] = Order[i] /\ record'[p] = Order[i + 1]
    <2>1. /\ Order[1] = None /\ Order[2] = "accepted" /\ Order[3] = "validating"
          /\ Order[4] = "building" /\ Order[5] = "activating"
      BY DEF Order
    <2>2. 1 \in 1..4 /\ 2 \in 1..4 /\ 3 \in 1..4 /\ 4 \in 1..4
      OBVIOUS
    <2>3. 1 + 1 = 2 /\ 2 + 1 = 3 /\ 3 + 1 = 4 /\ 4 + 1 = 5
      OBVIOUS
    <2> QED
      BY <2>1, <2>2, <2>3, Zenon
  <1> QED
    BY <1>1 DEF Advances

(* An import that ends shows its outcome; what the registry drops had ended. *)
LEMMA FinishAdvances ==
  ASSUME IInv, NEW o \in Op, Finish(o), NEW p \in Op
  PROVE  Advances(p)
  <1> DEFINE all == Append(completed, o)
  <1> USE DEF IInv
  <1>1. record[o] \in {"validating", "building", "activating"}
    BY DEF Finish, Consistent, RecordStaged, Late
  <1>2. record[o] # None
    BY <1>1, RecordAssumption DEF Running
  <1>3. record' = [q \in Op |-> IF q \in Elements(all) \ Elements(Kept(all)) THEN None
                                ELSE IF q = o THEN (IF err[o] THEN "failed" ELSE "succeeded")
                                ELSE record[q]]
    BY <1>2 DEF Finish
  <1>4. o \in Elements(Kept(all))
    <2>1. all \in Seq(Op) /\ Len(all) = Len(completed) + 1 /\ all[Len(all)] = o
      BY DEF TypeOK
    <2>2. /\ Kept(all) \in Seq(Op)
          /\ Len(Kept(all)) = IF Len(all) > Retention THEN Retention ELSE Len(all)
          /\ \A i \in 1..Len(Kept(all)) : Kept(all)[i] = all[Len(all) - Len(Kept(all)) + i]
      BY <2>1, KeptIsEnd
    <2>3. Len(Kept(all)) \in 1..Len(all)
      BY <2>1, <2>2, RetentionAssumption DEF TypeOK
    <2>4. Kept(all)[Len(Kept(all))] = o
      BY <2>1, <2>2, <2>3
    <2> QED
      BY <2>2, <2>3, <2>4 DEF Elements
  <1>5. CASE p = o
    <2>1. record'[o] = IF err[o] THEN "failed" ELSE "succeeded"
      BY <1>3, <1>4
    <2>2. ~err[o] => record[o] = "activating"
      BY DEF Finish, Consistent, OutcomeStaged, RecordStaged, Late
    <2> QED
      BY <1>1, <1>5, <2>1, <2>2 DEF Advances
  <1>6. CASE p # o
    <2>1. CASE p \in Elements(all) \ Elements(Kept(all))
      <3>1. PICK i \in DOMAIN completed : p = completed[i]
        BY <2>1, <1>6 DEF Elements, TypeOK
      <3>2. job[p] \in Ended /\ record[p] # None
        BY <3>1, CompletedEnded DEF RegistryFollows
      <3>3. record[p] \in Terminal /\ record'[p] = None
        BY <3>2, <2>1, <1>3 DEF Consistent, RecordStaged
      <3> QED
        BY <3>3 DEF Advances
    <2>2. CASE p \notin Elements(all) \ Elements(Kept(all))
      BY <2>2, <1>3, <1>6 DEF Advances
    <2> QED
      BY <2>1, <2>2
  <1> QED
    BY <1>5, <1>6

(* A record goes through its stages one by one, succeeds only after activating and
   leaves a terminal state only when it is dropped or the process ends. *)
THEOREM RecordsAdvance == Spec => RecordAdvances
  <1>1. IInv /\ [Next]_vars => [\A o \in Op : Advances(o)]_record
    <2> SUFFICES ASSUME IInv, Next, NEW p \in Op PROVE Advances(p)
      BY DEF vars
    <2> USE DEF IInv
    <2>1. CASE UNCHANGED record
      BY <2>1 DEF Advances
    <2>2. ASSUME NEW o \in Op, Accept(o) PROVE Advances(p)
      BY <2>2, NextStage DEF Accept, TypeOK, Consistent, RecordStaged, Handling, Advances
    <2>3. ASSUME NEW o \in Op, StartValidating(o) PROVE Advances(p)
      BY <2>3, NextStage DEF StartValidating, Progress, TypeOK, Consistent,
        RecordStaged, Advances
    <2>4. ASSUME NEW o \in Op, ReuseBuilding(o) \/ Build(o) PROVE Advances(p)
      BY <2>4, NextStage DEF ReuseBuilding, Build, Progress, TypeOK, Consistent,
        RecordStaged, Advances
    <2>5. ASSUME NEW o \in Op, ReuseActivating(o) \/ Activate(o) PROVE Advances(p)
      BY <2>5, NextStage DEF ReuseActivating, Activate, Progress, TypeOK, Consistent,
        RecordStaged,
        Advances
    <2>6. CASE ProcessEnds
      BY <2>6 DEF ProcessEnds, Advances
    <2>7. ASSUME NEW o \in Op, Arrive(o) \/ HandlerStep(o), ~Accept(o) PROVE UNCHANGED record
      BY <2>7 DEF Arrive, HandlerStep, BeginWork, ReserveSlot, BeginFails,
        RefuseUpload, StartReceive,
        ReceiveSucceeds, ReceiveFails, Answer202
    <2>8. ASSUME NEW o \in Op, JobStep(o),
                 ~(StartValidating(o) \/ ReuseBuilding(o) \/ Build(o) \/ ReuseActivating(o)
                     \/ Activate(o) \/ Finish(o))
          PROVE  UNCHANGED record
      BY <2>8 DEF JobStep, Extract, RemoveArchive, Validate, Compare, ReuseAbort,
        DropDirectory,
        Complete, RunUndoDirectory, UndoArchive, RunUndoSlot, Log, StepFails
    <2>9. CASE Start \/ Signal \/ BeginClose \/ GraceExpires \/ CloseStore
      BY <2>9, <2>1 DEF Start, Signal, BeginClose, GraceExpires, CloseStore
    <2> QED
      BY <2>1, <2>2, <2>3, <2>4, <2>5, <2>6, <2>7, <2>8, <2>9, FinishAdvances DEF Next
  <1> QED
    BY <1>1, Invariance, PTL DEF Spec, RecordAdvances
===============================================================================
