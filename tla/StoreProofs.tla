------------------------------ MODULE StoreProofs ------------------------------
(***************************************************************************)
(* Store's invariants hold for every number of imports, searches and       *)
(* generations, and Store implements GenerationRegister.  The inductive    *)
(* invariant is IInv of Store; one lemma per action (or per group of       *)
(* actions that differ in their guards only) shows that a step keeps it.   *)
(***************************************************************************)
EXTENDS Store, FiniteSetTheorems, TLAPS

(* Holders are counted: none, or at least one. *)
LEMMA HoldersCounted ==
  ASSUME TypeOK, RefsCountHolders, NEW g \in Generations
  PROVE  /\ IsFiniteSet(Holders(g))
         /\ refs[g] = Cardinality(Holders(g))
         /\ refs[g] = 0 <=> Holders(g) = {}
  <1>1. IsFiniteSet(Holders(g))
    BY SearchAssumption, FS_Subset DEF Holders
  <1> QED
    BY <1>1, FS_EmptySet DEF RefsCountHolders

(* The cardinalities that counting references needs. *)
LEMMA SmallCardinalities ==
  /\ Cardinality({}) = 0
  /\ \A s : Cardinality({s}) = 1
  <1>1. Cardinality({}) = 0
    BY FS_EmptySet
  <1>2. \A s : Cardinality({s}) = 1
    BY FS_Singleton
  <1> QED
    BY <1>1, <1>2

(* One holder fewer: the count goes down by one. *)
LEMMA WithoutOne ==
  ASSUME NEW S, NEW s \in S, IsFiniteSet(S)
  PROVE  /\ Cardinality(S) \in Nat
         /\ Cardinality(S \ {s}) = Cardinality(S) - 1
         /\ Cardinality(S) > 1 => S \ {s} # {}
  <1>1. Cardinality(S) \in Nat
    BY FS_CardinalityType
  <1>2. Cardinality(S \ {s}) = Cardinality(S) - 1
    BY FS_RemoveElement
  <1>3. S \ {s} = {} => Cardinality(S \ {s}) = 0
    BY SmallCardinalities
  <1> QED
    BY <1>1, <1>2, <1>3

(* A step of Complete that moves one import to its next stage only. *)
LEMMA StageStepKeepsIInv ==
  ASSUME IInv, NEW o \in Op, NEW from \in InProgress, NEW to \in Stages,
         StageStep(o, from, to),
         to # "idle", to = "done" => importing # o,
         verified \subseteq verified', verified' \subseteq Op,
         to = "checked" => o \in verified'
  PROVE  IInv'
  <1> USE NoneAssumption, GenerationAssumption DEF IInv, StageStep, disk
  <1>1. TypeOK'
    BY DEF TypeOK, Stages, InProgress, ClosePcs, Generations, NoGeneration, ImportingName
  <1>2. RefsCountHolders'
    BY DEF TypeOK, RefsCountHolders, Holders
  <1>3. /\ SearchesPlaced'
        /\ ReclaimersHaveLast'
        /\ OnlyCurrentUnretired'
    BY DEF TypeOK, SearchesPlaced, ReclaimersHaveLast, OnlyCurrentUnretired, Holders,
        Reclaimers, ClosePending, Generations, NoGeneration
  <1>4. /\ FutureNumbersFree'
        /\ CheckedIsVerified'
    BY DEF TypeOK, FutureNumbersFree, CheckedIsVerified, Generations, Stages
  <1>5. /\ StraysOnlyAfterClose'
        /\ ClosedStoreIsEmpty'
        /\ DownIsEmpty'
    BY DEF TypeOK, StraysOnlyAfterClose, ClosedStoreIsEmpty, DownIsEmpty, InProgress, Stages
  <1>6. ReferencedGenerationIntact'
    BY DEF TypeOK, ReferencedGenerationIntact, InUse, Holders, DownIsEmpty, FutureNumbersFree,
        CheckedIsVerified, BuildFileOwned, Generations, NoGeneration
  <1>7. BuildFileOwned'
    BY DEF TypeOK, BuildFileOwned, InProgress, Stages, DownIsEmpty, StraysOnlyAfterClose, ClosedStoreIsEmpty
  <1>8. EveryFileAccounted'
    BY DEF TypeOK, EveryFileAccounted, GenerationFileAccounted, ImportingFileAccounted,
        BuildFileOwned, StraysOnlyAfterClose, ClosedStoreIsEmpty, InUse, Holders, Reclaimers,
        ClosePending, ImportingName, Generations
  <1>9. SingleReclaimer'
    BY DEF TypeOK, SingleReclaimer, Holders, Reclaimers, ClosePending
  <1> QED
    BY <1>1, <1>2, <1>3, <1>4, <1>5, <1>6, <1>7, <1>8, <1>9

(* BeginImport: nobody owned importing.db, and the new owner finds none. *)
LEMMA BeginImportKeepsIInv ==
  ASSUME IInv, NEW o \in Op, BeginImport(o)
  PROVE  IInv'
  <1> USE NoneAssumption, GenerationAssumption DEF IInv, BeginImport, CanBegin
  <1>1. TypeOK'
    BY DEF TypeOK, Stages, InProgress, ClosePcs, Generations, NoGeneration, ImportingName
  <1>2. RefsCountHolders'
    BY DEF TypeOK, RefsCountHolders, Holders
  <1>3. /\ SearchesPlaced'
        /\ ReclaimersHaveLast'
        /\ OnlyCurrentUnretired'
    BY DEF TypeOK, SearchesPlaced, ReclaimersHaveLast, OnlyCurrentUnretired, Holders,
        Reclaimers, ClosePending, Generations, NoGeneration
  <1>4. /\ FutureNumbersFree'
        /\ CheckedIsVerified'
    BY DEF TypeOK, FutureNumbersFree, CheckedIsVerified, Generations, Stages
  <1>5. /\ StraysOnlyAfterClose'
        /\ ClosedStoreIsEmpty'
        /\ DownIsEmpty'
    BY DEF TypeOK, StraysOnlyAfterClose, ClosedStoreIsEmpty, DownIsEmpty, InProgress, Stages
  <1>6. ReferencedGenerationIntact'
    BY DEF TypeOK, ReferencedGenerationIntact, InUse, Holders, DownIsEmpty, FutureNumbersFree,
        CheckedIsVerified, BuildFileOwned, Generations, NoGeneration
  <1>7. BuildFileOwned'
    BY DEF TypeOK, BuildFileOwned, InProgress, Stages, DownIsEmpty, StraysOnlyAfterClose, ClosedStoreIsEmpty
  <1>8. EveryFileAccounted'
    BY DEF TypeOK, EveryFileAccounted, GenerationFileAccounted, ImportingFileAccounted,
        BuildFileOwned, StraysOnlyAfterClose, ClosedStoreIsEmpty, InUse, Holders, Reclaimers,
        ClosePending, ImportingName, Generations
  <1>9. SingleReclaimer'
    BY DEF TypeOK, SingleReclaimer, Holders, Reclaimers, ClosePending
  <1> QED
    BY <1>1, <1>2, <1>3, <1>4, <1>5, <1>6, <1>7, <1>8, <1>9

(* BeginImportFails: a slot that never became an import's leaves no file. *)
LEMMA BeginImportFailsKeepsIInv ==
  ASSUME IInv, NEW o \in Op, BeginImportFails(o)
  PROVE  IInv'
  <1> USE NoneAssumption, GenerationAssumption DEF IInv, BeginImportFails, CanBegin, volatile
  <1>1. TypeOK'
    BY DEF TypeOK, Stages, InProgress, ClosePcs, Generations, NoGeneration, ImportingName
  <1>2. RefsCountHolders'
    BY DEF TypeOK, RefsCountHolders, Holders
  <1>3. /\ SearchesPlaced'
        /\ ReclaimersHaveLast'
        /\ OnlyCurrentUnretired'
    BY DEF TypeOK, SearchesPlaced, ReclaimersHaveLast, OnlyCurrentUnretired, Holders,
        Reclaimers, ClosePending, Generations, NoGeneration
  <1>4. /\ FutureNumbersFree'
        /\ CheckedIsVerified'
    BY DEF TypeOK, FutureNumbersFree, CheckedIsVerified, Generations, Stages
  <1>5. /\ StraysOnlyAfterClose'
        /\ ClosedStoreIsEmpty'
        /\ DownIsEmpty'
    BY DEF TypeOK, StraysOnlyAfterClose, ClosedStoreIsEmpty, DownIsEmpty, InProgress, Stages
  <1>6. ReferencedGenerationIntact'
    BY DEF TypeOK, ReferencedGenerationIntact, InUse, Holders, DownIsEmpty, FutureNumbersFree,
        CheckedIsVerified, BuildFileOwned, Generations, NoGeneration
  <1>7. BuildFileOwned'
    BY DEF TypeOK, BuildFileOwned, InProgress, Stages, DownIsEmpty, StraysOnlyAfterClose, ClosedStoreIsEmpty
  <1>8. EveryFileAccounted'
    BY DEF TypeOK, EveryFileAccounted, GenerationFileAccounted, ImportingFileAccounted,
        BuildFileOwned, StraysOnlyAfterClose, ClosedStoreIsEmpty, InUse, Holders, Reclaimers,
        ClosePending, ImportingName, Generations
  <1>9. SingleReclaimer'
    BY DEF TypeOK, SingleReclaimer, Holders, Reclaimers, ClosePending
  <1> QED
    BY <1>1, <1>2, <1>3, <1>4, <1>5, <1>6, <1>7, <1>8, <1>9

(* Abort: the owner removes its importing.db and gives the slot back. *)
LEMMA AbortKeepsIInv ==
  ASSUME IInv, NEW o \in Op, Abort(o)
  PROVE  IInv'
  <1> USE NoneAssumption, GenerationAssumption DEF IInv, Abort, RemoveImporting
  <1>1. TypeOK'
    BY DEF TypeOK, Stages, InProgress, ClosePcs, Generations, NoGeneration, ImportingName
  <1>2. RefsCountHolders'
    BY DEF TypeOK, RefsCountHolders, Holders
  <1>3. /\ SearchesPlaced'
        /\ ReclaimersHaveLast'
        /\ OnlyCurrentUnretired'
    BY DEF TypeOK, SearchesPlaced, ReclaimersHaveLast, OnlyCurrentUnretired, Holders,
        Reclaimers, ClosePending, Generations, NoGeneration
  <1>4. /\ FutureNumbersFree'
        /\ CheckedIsVerified'
    BY DEF TypeOK, FutureNumbersFree, CheckedIsVerified, Generations, Stages
  <1>5. /\ StraysOnlyAfterClose'
        /\ ClosedStoreIsEmpty'
        /\ DownIsEmpty'
    BY DEF TypeOK, StraysOnlyAfterClose, ClosedStoreIsEmpty, DownIsEmpty, InProgress, Stages
  <1>6. ReferencedGenerationIntact'
    BY DEF TypeOK, ReferencedGenerationIntact, InUse, Holders, DownIsEmpty, FutureNumbersFree,
        CheckedIsVerified, BuildFileOwned, Generations, NoGeneration
  <1>7. BuildFileOwned'
    BY DEF TypeOK, BuildFileOwned, InProgress, Stages, DownIsEmpty, StraysOnlyAfterClose, ClosedStoreIsEmpty
  <1>8. EveryFileAccounted'
    BY DEF TypeOK, EveryFileAccounted, GenerationFileAccounted, ImportingFileAccounted,
        BuildFileOwned, StraysOnlyAfterClose, ClosedStoreIsEmpty, InUse, Holders, Reclaimers,
        ClosePending, ImportingName, Generations
  <1>9. SingleReclaimer'
    BY DEF TypeOK, SingleReclaimer, Holders, Reclaimers, ClosePending
  <1> QED
    BY <1>1, <1>2, <1>3, <1>4, <1>5, <1>6, <1>7, <1>8, <1>9

(* FailAfterClose: the owner of importing.db removes it and is the last to
   know of it. *)
LEMMA FailAfterCloseKeepsIInv ==
  ASSUME IInv, NEW o \in Op, FailAfterClose(o)
  PROVE  IInv'
  <1> USE NoneAssumption, GenerationAssumption DEF IInv, FailAfterClose, GiveUp, RemoveImporting
  <1>1. TypeOK'
    BY DEF TypeOK, Stages, InProgress, ClosePcs, Generations, NoGeneration, ImportingName
  <1>2. RefsCountHolders'
    BY DEF TypeOK, RefsCountHolders, Holders
  <1>3. /\ SearchesPlaced'
        /\ ReclaimersHaveLast'
        /\ OnlyCurrentUnretired'
    BY DEF TypeOK, SearchesPlaced, ReclaimersHaveLast, OnlyCurrentUnretired, Holders,
        Reclaimers, ClosePending, Generations, NoGeneration
  <1>4. /\ FutureNumbersFree'
        /\ CheckedIsVerified'
    BY DEF TypeOK, FutureNumbersFree, CheckedIsVerified, Generations, Stages
  <1>5. /\ StraysOnlyAfterClose'
        /\ ClosedStoreIsEmpty'
        /\ DownIsEmpty'
    BY DEF TypeOK, StraysOnlyAfterClose, ClosedStoreIsEmpty, DownIsEmpty, InProgress, Stages
  <1>6. ReferencedGenerationIntact'
    BY DEF TypeOK, ReferencedGenerationIntact, InUse, Holders, DownIsEmpty, FutureNumbersFree,
        CheckedIsVerified, BuildFileOwned, Generations, NoGeneration
  <1>7. BuildFileOwned'
    BY DEF TypeOK, BuildFileOwned, InProgress, Stages, DownIsEmpty, StraysOnlyAfterClose, ClosedStoreIsEmpty
  <1>8. EveryFileAccounted'
    BY DEF TypeOK, EveryFileAccounted, GenerationFileAccounted, ImportingFileAccounted,
        BuildFileOwned, StraysOnlyAfterClose, ClosedStoreIsEmpty, InUse, Holders, Reclaimers,
        ClosePending, ImportingName, Generations
  <1>9. SingleReclaimer'
    BY DEF TypeOK, SingleReclaimer, Holders, Reclaimers, ClosePending
  <1> QED
    BY <1>1, <1>2, <1>3, <1>4, <1>5, <1>6, <1>7, <1>8, <1>9

(* CompleteRenameFails: the number is used up and no generation appears. *)
LEMMA CompleteRenameFailsKeepsIInv ==
  ASSUME IInv, NEW o \in Op, CompleteRenameFails(o)
  PROVE  IInv'
  <1> USE NoneAssumption, GenerationAssumption DEF IInv, CompleteRenameFails, CanSwitch, ReleaseSlot, RemoveImporting
  <1>1. TypeOK'
    BY DEF TypeOK, Stages, InProgress, ClosePcs, Generations, NoGeneration, ImportingName
  <1>2. RefsCountHolders'
    BY DEF TypeOK, RefsCountHolders, Holders
  <1>3. /\ SearchesPlaced'
        /\ ReclaimersHaveLast'
        /\ OnlyCurrentUnretired'
    BY DEF TypeOK, SearchesPlaced, ReclaimersHaveLast, OnlyCurrentUnretired, Holders,
        Reclaimers, ClosePending, Generations, NoGeneration
  <1>4. /\ FutureNumbersFree'
        /\ CheckedIsVerified'
    BY DEF TypeOK, FutureNumbersFree, CheckedIsVerified, Generations, Stages
  <1>5. /\ StraysOnlyAfterClose'
        /\ ClosedStoreIsEmpty'
        /\ DownIsEmpty'
    BY DEF TypeOK, StraysOnlyAfterClose, ClosedStoreIsEmpty, DownIsEmpty, InProgress, Stages
  <1>6. ReferencedGenerationIntact'
    BY DEF TypeOK, ReferencedGenerationIntact, InUse, Holders, DownIsEmpty, FutureNumbersFree,
        CheckedIsVerified, BuildFileOwned, Generations, NoGeneration
  <1>7. BuildFileOwned'
    BY DEF TypeOK, BuildFileOwned, InProgress, Stages, DownIsEmpty, StraysOnlyAfterClose, ClosedStoreIsEmpty
  <1>8. EveryFileAccounted'
    BY DEF TypeOK, EveryFileAccounted, GenerationFileAccounted, ImportingFileAccounted,
        BuildFileOwned, StraysOnlyAfterClose, ClosedStoreIsEmpty, InUse, Holders, Reclaimers,
        ClosePending, ImportingName, Generations
  <1>9. SingleReclaimer'
    BY DEF TypeOK, SingleReclaimer, Holders, Reclaimers, ClosePending
  <1> QED
    BY <1>1, <1>2, <1>3, <1>4, <1>5, <1>6, <1>7, <1>8, <1>9

(* CompleteOpenFails: the renamed file is removed, or known to remain. *)
LEMMA CompleteOpenFailsKeepsIInv ==
  ASSUME IInv, NEW o \in Op, CompleteOpenFails(o)
  PROVE  IInv'
  <1> USE NoneAssumption, GenerationAssumption DEF IInv, CompleteOpenFails, CanSwitch, ReleaseSlot
  <1>1. TypeOK'
    BY DEF TypeOK, Stages, InProgress, ClosePcs, Generations, NoGeneration, ImportingName
  <1>2. RefsCountHolders'
    BY DEF TypeOK, RefsCountHolders, Holders
  <1>3. /\ SearchesPlaced'
        /\ ReclaimersHaveLast'
        /\ OnlyCurrentUnretired'
    BY DEF TypeOK, SearchesPlaced, ReclaimersHaveLast, OnlyCurrentUnretired, Holders,
        Reclaimers, ClosePending, Generations, NoGeneration
  <1>4. /\ FutureNumbersFree'
        /\ CheckedIsVerified'
    BY DEF TypeOK, FutureNumbersFree, CheckedIsVerified, Generations, Stages
  <1>5. /\ StraysOnlyAfterClose'
        /\ ClosedStoreIsEmpty'
        /\ DownIsEmpty'
    BY DEF TypeOK, StraysOnlyAfterClose, ClosedStoreIsEmpty, DownIsEmpty, InProgress, Stages
  <1>6. ReferencedGenerationIntact'
    BY DEF TypeOK, ReferencedGenerationIntact, InUse, Holders, DownIsEmpty, FutureNumbersFree,
        CheckedIsVerified, BuildFileOwned, Generations, NoGeneration
  <1>7. BuildFileOwned'
    BY DEF TypeOK, BuildFileOwned, InProgress, Stages, DownIsEmpty, StraysOnlyAfterClose, ClosedStoreIsEmpty
  <1>8. EveryFileAccounted'
    BY DEF TypeOK, EveryFileAccounted, GenerationFileAccounted, ImportingFileAccounted,
        BuildFileOwned, StraysOnlyAfterClose, ClosedStoreIsEmpty, InUse, Holders, Reclaimers,
        ClosePending, ImportingName, Generations
  <1>9. SingleReclaimer'
    BY DEF TypeOK, SingleReclaimer, Holders, Reclaimers, ClosePending
  <1> QED
    BY <1>1, <1>2, <1>3, <1>4, <1>5, <1>6, <1>7, <1>8, <1>9

(* CompleteSwitch: the new number was free, and the old generation is closed
   only when nobody holds it. *)
LEMMA CompleteSwitchKeepsIInv ==
  ASSUME IInv, NEW o \in Op, CompleteSwitch(o)
  PROVE  IInv'
  <1> DEFINE g == nextGeneration + 1
             old == current
  <1> USE NoneAssumption, GenerationAssumption DEF IInv, CompleteSwitch, CanSwitch, ReleaseSlot, Unreferenced
  <1>1. /\ g \in Generations /\ g # old /\ old \in Generations \cup {0}
        /\ g \notin opened /\ g \notin retired /\ generationFile[g] = None
    BY DEF TypeOK, Generations, NoGeneration, FutureNumbersFree, ReferencedGenerationIntact, InUse
  <1>2. /\ importingFile = o /\ o \in verified /\ ~closed
    BY DEF BuildFileOwned, CheckedIsVerified, ClosedStoreIsEmpty
  <1>3. /\ Holders(g) = {} /\ Reclaimers(g) = {} /\ ~ClosePending(g)
    BY <1>1 DEF ReferencedGenerationIntact, InUse, ReclaimersHaveLast
  <1>4. \A h \in Generations : /\ Holders(h)' = Holders(h)
                               /\ Reclaimers(h)' = Reclaimers(h)
                               /\ ClosePending(h)' = ClosePending(h)
    BY DEF Holders, Reclaimers, ClosePending
  <1>5. old \in Generations => /\ Reclaimers(old) = {} /\ ~ClosePending(old)
                               /\ old \in opened /\ generationFile[old] \in verified
                               /\ refs[old] = 0 <=> Holders(old) = {}
    <2>1. SUFFICES ASSUME old \in Generations
                   PROVE  /\ Reclaimers(old) = {} /\ ~ClosePending(old)
                          /\ old \in opened /\ generationFile[old] \in verified
                          /\ refs[old] = 0 <=> Holders(old) = {}
      OBVIOUS
    <2>2. refs[old] = 0 <=> Holders(old) = {}
      BY <2>1, HoldersCounted
    <2> QED
      BY <2>1, <2>2 DEF OnlyCurrentUnretired, ReclaimersHaveLast, ReferencedGenerationIntact, InUse
  <1>6. TypeOK'
    BY <1>1, <1>2 DEF TypeOK, Stages, ClosePcs, Generations, NoGeneration, ImportingName
  <1>7. generationFile'[g] = o
    BY <1>1, <1>2
  <1>8. \A h \in Generations : h # g /\ h # old =>
          /\ generationFile'[h] = generationFile[h]
          /\ h \in opened' <=> h \in opened
          /\ h \in leaked' <=> h \in leaked
          /\ h \in retired' <=> h \in retired
    BY <1>1 DEF TypeOK
  <1>9. RefsCountHolders' /\ SearchesPlaced'
    BY <1>4 DEF RefsCountHolders, SearchesPlaced
  <1>10. retired' = IF old = NoGeneration THEN retired ELSE retired \cup {old}
    OBVIOUS
  <1>11. ReclaimersHaveLast'
    BY <1>4, <1>10 DEF ReclaimersHaveLast
  <1>12. OnlyCurrentUnretired'
    BY <1>1, <1>5, <1>10 DEF OnlyCurrentUnretired, TypeOK, Generations, NoGeneration
  <1>13. FutureNumbersFree'
    <2>1. ASSUME NEW h \in Generations, h > g
          PROVE  h > nextGeneration /\ h # g /\ h # old
      <3>1. old \in Generations => old <= nextGeneration
        BY <1>5 DEF FutureNumbersFree, TypeOK, Generations
      <3> QED
        BY <1>1, <2>1, <3>1 DEF TypeOK, Generations
    <2> QED
      BY <1>8, <2>1 DEF FutureNumbersFree
  <1>14. StraysOnlyAfterClose' /\ ClosedStoreIsEmpty' /\ CheckedIsVerified' /\ DownIsEmpty'
    BY <1>2 DEF TypeOK, StraysOnlyAfterClose, ClosedStoreIsEmpty, CheckedIsVerified,
        DownIsEmpty, InProgress, Stages
  <1>15. ReferencedGenerationIntact'
    <2> SUFFICES ASSUME NEW h \in Generations, InUse(h)'
                 PROVE  h \in opened' /\ generationFile'[h] \in verified
      BY DEF ReferencedGenerationIntact
    <2>1. CASE h = g
      BY <1>2, <1>7, <2>1
    <2>2. CASE h = old
      <3>1. Holders(old) # {}
        BY <1>1, <1>4, <2>2 DEF InUse
      <3>2. refs[old] # 0 /\ old \in opened /\ generationFile[old] \in verified
        BY <1>5, <2>2, <3>1
      <3> QED
        BY <1>1, <2>2, <3>2
    <2>3. CASE h # g /\ h # old
      BY <1>4, <1>8, <2>3 DEF InUse, ReferencedGenerationIntact
    <2> QED
      BY <2>1, <2>2, <2>3
  <1>16. BuildFileOwned'
    BY DEF BuildFileOwned
  <1>17. EveryFileAccounted'
    <2>1. ImportingFileAccounted'
      BY DEF ImportingFileAccounted
    <2>2. ASSUME NEW h \in Generations
          PROVE  GenerationFileAccounted(h)'
      <3>1. CASE h = g
        BY <3>1 DEF GenerationFileAccounted, InUse
      <3>2. CASE h = old /\ Holders(old) # {}
        BY <1>4, <3>2 DEF GenerationFileAccounted, InUse
      <3>3. CASE h = old /\ Holders(old) = {}
        BY <1>1, <1>5, <3>3 DEF GenerationFileAccounted, NoGeneration, TypeOK, Generations
      <3>4. CASE h # g /\ h # old
        BY <1>4, <1>8, <3>4 DEF GenerationFileAccounted, EveryFileAccounted, InUse
      <3> QED
        BY <3>1, <3>2, <3>3, <3>4
    <2> QED
      BY <2>1, <2>2 DEF EveryFileAccounted
  <1>18. SingleReclaimer'
    BY <1>4 DEF SingleReclaimer
  <1> QED
    BY <1>6, <1>9, <1>11, <1>12, <1>13, <1>14, <1>15, <1>16, <1>17, <1>18

(* Acquire: only the current generation gains a reference. *)
LEMMA AcquireKeepsIInv ==
  ASSUME IInv, NEW s \in Search, Acquire(s)
  PROVE  IInv'
  <1> USE DEF IInv, Acquire, TakeReference, disk, history
  <1>1. TypeOK'
    BY DEF TypeOK, Stages, ClosePcs, Generations, NoGeneration
  <1>2. current \in Generations
    BY DEF TypeOK, Generations, NoGeneration
  <1>3. Holders(current)' = Holders(current) \cup {s} /\ s \notin Holders(current)
    BY DEF TypeOK, Holders
  <1>4. \A g \in Generations : g # current => Holders(g)' = Holders(g)
    BY <1>2 DEF TypeOK, Holders, SearchesPlaced
  <1>5. \A g \in Generations : Reclaimers(g)' = Reclaimers(g) /\ ClosePending(g)' = ClosePending(g)
    BY DEF TypeOK, Reclaimers, ClosePending
  <1>6. RefsCountHolders'
    <2>1. IsFiniteSet(Holders(current)) /\ refs[current] = Cardinality(Holders(current))
      BY <1>2, HoldersCounted
    <2>2. Cardinality(Holders(current)') = Cardinality(Holders(current)) + 1
      BY <1>3, <2>1, FS_AddElement
    <2> QED
      BY <1>2, <1>4, <2>1, <2>2 DEF RefsCountHolders, TypeOK
  <1>7. /\ SearchesPlaced'
        /\ ReclaimersHaveLast'
        /\ OnlyCurrentUnretired'
    BY <1>2, <1>5 DEF TypeOK, SearchesPlaced, ReclaimersHaveLast, OnlyCurrentUnretired,
        Generations, NoGeneration
  <1>8. ReferencedGenerationIntact'
    BY <1>3, <1>4 DEF ReferencedGenerationIntact, InUse
  <1>9. /\ StraysOnlyAfterClose'
        /\ ClosedStoreIsEmpty'
        /\ CheckedIsVerified'
        /\ DownIsEmpty'
        /\ FutureNumbersFree'
    BY DEF TypeOK, StraysOnlyAfterClose, ClosedStoreIsEmpty, CheckedIsVerified,
        DownIsEmpty, FutureNumbersFree, InProgress, Stages, Generations, NoGeneration
  <1>10. BuildFileOwned'
    BY DEF BuildFileOwned, TypeOK
  <1>11. EveryFileAccounted'
    BY <1>3, <1>4, <1>5 DEF EveryFileAccounted, GenerationFileAccounted,
        ImportingFileAccounted, InUse
  <1>12. SingleReclaimer'
    BY <1>4, <1>5 DEF SingleReclaimer, ReclaimersHaveLast, OnlyCurrentUnretired
  <1> QED
    BY <1>1, <1>6, <1>7, <1>8, <1>9, <1>10, <1>11, <1>12

(* Release: the generation loses one reference; the last one of a retired
   generation makes this search its only reclaimer. *)
LEMMA ReleaseKeepsIInv ==
  ASSUME IInv, NEW s \in Search, Release(s)
  PROVE  IInv'
  <1> USE DEF IInv, Release, disk, history
  <1> PICK g \in Generations : g = searchGen[s]
    BY DEF TypeOK, SearchesPlaced, Generations, NoGeneration
  <1>1. g \in Generations /\ s \in Holders(g)
    BY DEF TypeOK, SearchesPlaced, Holders
  <1>2. /\ IsFiniteSet(Holders(g))
        /\ refs[g] = Cardinality(Holders(g))
        /\ refs[g] \in Nat
        /\ refs[g] # 0
    BY <1>1, HoldersCounted DEF TypeOK
  <1>3. Holders(g)' = Holders(g) \ {s}
    BY <1>1 DEF TypeOK, Holders, Generations, NoGeneration
  <1>4. \A h \in Generations : h # g => Holders(h)' = Holders(h)
    BY <1>1 DEF TypeOK, Holders, Generations, NoGeneration
  <1>5. refs' = [refs EXCEPT ![g] = @ - 1] /\ refs[g] - 1 \in Nat
    BY <1>2
  <1>6. TypeOK'
    BY <1>1, <1>5 DEF TypeOK, Stages, ClosePcs, Generations, NoGeneration
  <1>7. RefsCountHolders'
    <2>1. Cardinality(Holders(g)') = refs[g] - 1
      BY <1>1, <1>2, <1>3, FS_RemoveElement
    <2> QED
      BY <1>1, <1>4, <1>5, <2>1 DEF RefsCountHolders, TypeOK
  <1>8. /\ Reclaimers(g) = {}
        /\ ~ClosePending(g)
        /\ ClosePending(g)' = ClosePending(g)
    BY <1>1, <1>2 DEF ReclaimersHaveLast, ClosePending
  <1>9. /\ StraysOnlyAfterClose'
        /\ ClosedStoreIsEmpty'
        /\ CheckedIsVerified'
        /\ DownIsEmpty'
        /\ FutureNumbersFree'
    BY DEF TypeOK, StraysOnlyAfterClose, ClosedStoreIsEmpty, CheckedIsVerified,
        DownIsEmpty, FutureNumbersFree, InProgress, Stages, Generations, NoGeneration
  <1>10. BuildFileOwned'
    BY DEF BuildFileOwned, TypeOK
  <1>11. \A h \in Generations : h # g => Reclaimers(h)' = Reclaimers(h) /\ ClosePending(h)' = ClosePending(h)
    BY <1>1 DEF TypeOK, Reclaimers, ClosePending, Generations, NoGeneration
  <1>12. CASE LastReference(g)
    <2>1. g \in retired /\ refs'[g] = 0 /\ Holders(g)' = {}
      <3>1. g \in retired /\ refs'[g] = 0
        BY <1>1, <1>5, <1>12 DEF LastReference, TypeOK
      <3> QED
        BY <3>1, <1>1, <1>6, <1>7, HoldersCounted, <1>2, <1>3, FS_RemoveElement, FS_EmptySet
    <2>2. Reclaimers(g)' = {s}
      BY <1>1, <1>8, <1>12 DEF TypeOK, Reclaimers
    <2>3. /\ SearchesPlaced'
          /\ ReclaimersHaveLast'
          /\ OnlyCurrentUnretired'
      BY <1>1, <1>5, <1>11, <1>12, <2>1, <2>2 DEF TypeOK, SearchesPlaced, ReclaimersHaveLast,
          OnlyCurrentUnretired, Generations, NoGeneration
    <2>4. ReferencedGenerationIntact'
      BY <1>3, <1>4 DEF ReferencedGenerationIntact, InUse
    <2>5. EveryFileAccounted'
      BY <1>4, <1>11, <2>2 DEF EveryFileAccounted, GenerationFileAccounted,
          ImportingFileAccounted, InUse
    <2>6. SingleReclaimer'
      <3>1. Cardinality({s}) = 1
        BY SmallCardinalities, Zenon
      <3>2. Cardinality(Reclaimers(g)') = 1
        BY <2>2, <3>1, Zenon
      <3> QED
        BY <3>2, <1>4, <1>8, <1>11, <2>1 DEF SingleReclaimer
    <2> QED
      BY <1>6, <1>7, <1>9, <1>10, <2>3, <2>4, <2>5, <2>6
  <1>13. CASE ~LastReference(g)
    <2>1. Reclaimers(g)' = {}
      BY <1>1, <1>8, <1>13 DEF TypeOK, Reclaimers
    <2>2. g # current => Holders(g)' # {}
      <3> SUFFICES ASSUME g # current PROVE Holders(g)' # {}
        OBVIOUS
      <3>1. g \in retired
        BY <1>1 DEF OnlyCurrentUnretired, ReferencedGenerationIntact, InUse
      <3>2. refs[g] > 1
        BY <1>2, <1>13, <3>1 DEF LastReference
      <3> QED
        BY <1>1, <1>2, <1>3, <3>2, WithoutOne
    <2>3. /\ SearchesPlaced'
          /\ ReclaimersHaveLast'
          /\ OnlyCurrentUnretired'
      BY <1>1, <1>5, <1>8, <1>11, <1>13, <2>1 DEF TypeOK, SearchesPlaced, ReclaimersHaveLast,
          OnlyCurrentUnretired, Generations, NoGeneration
    <2>4. ReferencedGenerationIntact'
      BY <1>3, <1>4 DEF ReferencedGenerationIntact, InUse
    <2>5. EveryFileAccounted'
      BY <1>4, <1>11, <2>2 DEF EveryFileAccounted, GenerationFileAccounted,
          ImportingFileAccounted, InUse
    <2>6. SingleReclaimer'
      <3>1. Cardinality(Reclaimers(g)') <= 1
        BY <2>1, SmallCardinalities
      <3> QED
        BY <1>4, <1>11, <2>1, <3>1 DEF SingleReclaimer
    <2> QED
      BY <1>6, <1>7, <1>9, <1>10, <2>3, <2>4, <2>5, <2>6
  <1> QED
    BY <1>12, <1>13

(* Reclaim: the closed generation is retired and without references. *)
LEMMA ReclaimKeepsIInv ==
  ASSUME IInv, NEW s \in Search, Reclaim(s)
  PROVE  IInv'
  <1> USE DEF IInv, Reclaim, CloseAndRemove, RemoveGeneration
  <1> PICK g \in Generations : g = searchGen[s]
    BY DEF TypeOK, SearchesPlaced, Generations, NoGeneration
  <1>1. g \in Generations /\ s \in Reclaimers(g)
    BY DEF TypeOK, SearchesPlaced, Reclaimers
  <1>2. g \in retired /\ g # current /\ Holders(g) = {} /\ ~ClosePending(g)
    BY <1>1 DEF SingleReclaimer, ReclaimersHaveLast, OnlyCurrentUnretired
  <1>3. \A h \in Generations : Holders(h)' = Holders(h) /\ ClosePending(h)' = ClosePending(h)
    BY <1>1 DEF TypeOK, Holders, ClosePending, Generations, NoGeneration
  <1>4. \A h \in Generations : Reclaimers(h)' = Reclaimers(h) \ {s}
    BY <1>1 DEF TypeOK, Reclaimers, Generations, NoGeneration
  <1>5. \A h \in Generations : h # g => Reclaimers(h)' = Reclaimers(h)
    BY <1>4 DEF Reclaimers
  <1>6. TypeOK'
    BY <1>1 DEF TypeOK, Stages, ClosePcs, Generations, NoGeneration, ImportingName
  <1>7. /\ RefsCountHolders'
        /\ SearchesPlaced'
        /\ ReclaimersHaveLast'
        /\ OnlyCurrentUnretired'
    BY <1>3, <1>4 DEF TypeOK, RefsCountHolders, SearchesPlaced, ReclaimersHaveLast,
        OnlyCurrentUnretired, Generations, NoGeneration
  <1>8. ReferencedGenerationIntact'
    BY <1>2, <1>3 DEF ReferencedGenerationIntact, InUse, TypeOK
  <1>9. /\ StraysOnlyAfterClose'
        /\ ClosedStoreIsEmpty'
        /\ CheckedIsVerified'
        /\ DownIsEmpty'
        /\ FutureNumbersFree'
    BY DEF TypeOK, StraysOnlyAfterClose, ClosedStoreIsEmpty, CheckedIsVerified,
        DownIsEmpty, FutureNumbersFree, InProgress, Stages, Generations, NoGeneration
  <1>10. BuildFileOwned'
    BY DEF BuildFileOwned, TypeOK
  <1>11. EveryFileAccounted'
    BY <1>1, <1>3, <1>5 DEF EveryFileAccounted, GenerationFileAccounted,
        ImportingFileAccounted, InUse, TypeOK, ImportingName, Generations
  <1>12. SingleReclaimer'
    <2>1. IsFiniteSet(Reclaimers(g))
      BY SearchAssumption, FS_Subset DEF Reclaimers
    <2>2. Cardinality(Reclaimers(g)') <= 1
      <3>1. Cardinality(Reclaimers(g)) \in Nat
        BY <1>1, <2>1, WithoutOne
      <3>2. Cardinality(Reclaimers(g) \ {s}) = Cardinality(Reclaimers(g)) - 1
        BY <1>1, <2>1, WithoutOne
      <3>3. Cardinality(Reclaimers(g)) <= 1
        BY <1>1 DEF SingleReclaimer
      <3>4. Cardinality(Reclaimers(g)') = Cardinality(Reclaimers(g) \ {s})
        BY <1>1, <1>4, Zenon
      <3> QED
        BY <3>1, <3>2, <3>3, <3>4
    <2> QED
      BY <1>1, <1>2, <1>3, <1>5, <2>2 DEF SingleReclaimer
  <1> QED
    BY <1>6, <1>7, <1>8, <1>9, <1>10, <1>11, <1>12

(* New: the process starts with nothing open and no file. *)
LEMMA NewKeepsIInv ==
  ASSUME IInv, New
  PROVE  IInv'
  <1> USE DEF IInv, New
  <1>1. \A g \in Generations : generationFile'[g] = None
    BY DEF StaleAtStartup, WithoutFiles
  <1>2. TypeOK'
    BY DEF TypeOK, WithoutFiles, StaleAtStartup, ImportingName
  <1>3. /\ RefsCountHolders'
        /\ SearchesPlaced'
        /\ ReclaimersHaveLast'
        /\ OnlyCurrentUnretired'
        /\ StraysOnlyAfterClose'
        /\ ClosedStoreIsEmpty'
        /\ CheckedIsVerified'
    BY DEF RefsCountHolders, SearchesPlaced, ReclaimersHaveLast, OnlyCurrentUnretired,
        StraysOnlyAfterClose, ClosedStoreIsEmpty, CheckedIsVerified, Holders, Reclaimers,
        ClosePending
  <1>4. FutureNumbersFree' /\ DownIsEmpty'
    BY <1>1 DEF FutureNumbersFree, DownIsEmpty
  <1>5. ReferencedGenerationIntact'
    BY DEF ReferencedGenerationIntact, InUse, Holders, DownIsEmpty, Generations, NoGeneration
  <1>6. BuildFileOwned' /\ EveryFileAccounted'
    BY <1>1 DEF BuildFileOwned, EveryFileAccounted, GenerationFileAccounted,
        ImportingFileAccounted, DownIsEmpty
  <1>7. SingleReclaimer'
    BY DEF SingleReclaimer, Holders, Reclaimers, ClosePending
  <1> QED
    BY <1>2, <1>3, <1>4, <1>5, <1>6, <1>7

(* NewFails: no store is opened, so that nothing is in use. *)
LEMMA NewFailsKeepsIInv ==
  ASSUME IInv, NewFails
  PROVE  IInv'
  <1> USE NoneAssumption, GenerationAssumption DEF IInv, NewFails, StaleAtStartup, WithoutFiles, volatile, history
  <1>1. TypeOK'
    BY DEF TypeOK, Stages, InProgress, ClosePcs, Generations, NoGeneration, ImportingName
  <1>2. RefsCountHolders'
    BY DEF TypeOK, RefsCountHolders, Holders
  <1>3. /\ SearchesPlaced'
        /\ ReclaimersHaveLast'
        /\ OnlyCurrentUnretired'
    BY DEF TypeOK, SearchesPlaced, ReclaimersHaveLast, OnlyCurrentUnretired, Holders,
        Reclaimers, ClosePending, Generations, NoGeneration
  <1>4. /\ FutureNumbersFree'
        /\ CheckedIsVerified'
    BY DEF TypeOK, FutureNumbersFree, CheckedIsVerified, Generations, Stages
  <1>5. /\ StraysOnlyAfterClose'
        /\ ClosedStoreIsEmpty'
        /\ DownIsEmpty'
    BY DEF TypeOK, StraysOnlyAfterClose, ClosedStoreIsEmpty, DownIsEmpty, InProgress, Stages
  <1>6. ReferencedGenerationIntact'
    BY DEF TypeOK, ReferencedGenerationIntact, InUse, Holders, DownIsEmpty, FutureNumbersFree,
        CheckedIsVerified, BuildFileOwned, Generations, NoGeneration
  <1>7. BuildFileOwned'
    BY DEF TypeOK, BuildFileOwned, InProgress, Stages, DownIsEmpty, StraysOnlyAfterClose, ClosedStoreIsEmpty
  <1>8. EveryFileAccounted'
    BY DEF TypeOK, EveryFileAccounted, GenerationFileAccounted, ImportingFileAccounted,
        BuildFileOwned, StraysOnlyAfterClose, ClosedStoreIsEmpty, InUse, Holders, Reclaimers,
        ClosePending, ImportingName, Generations
  <1>9. SingleReclaimer'
    BY DEF TypeOK, SingleReclaimer, Holders, Reclaimers, ClosePending
  <1> QED
    BY <1>1, <1>2, <1>3, <1>4, <1>5, <1>6, <1>7, <1>8, <1>9

(* Close: the current generation is retired, and taken for removal when nobody
   holds it. *)
LEMMA CloseKeepsIInv ==
  ASSUME IInv, Close
  PROVE  IInv'
  <1> USE NoneAssumption DEF IInv, Close, Unreferenced, disk, history
  <1>1. TypeOK'
    BY DEF TypeOK, Stages, ClosePcs, Generations, NoGeneration
  <1>2. closePc = "none"
    BY DEF ClosedStoreIsEmpty
  <1>3. \A g \in Generations : Holders(g)' = Holders(g) /\ Reclaimers(g)' = Reclaimers(g)
    BY DEF Holders, Reclaimers
  <1>4. \A g \in Generations : ClosePending(g)' <=> g = current /\ refs[g] = 0
    BY DEF ClosePending, Generations, NoGeneration
  <1>5. current \in Generations => /\ Reclaimers(current) = {}
                                   /\ refs[current] = 0 <=> Holders(current) = {}
    BY HoldersCounted DEF ReclaimersHaveLast, OnlyCurrentUnretired
  <1>6. RefsCountHolders' /\ SearchesPlaced'
    BY <1>3 DEF RefsCountHolders, SearchesPlaced
  <1>7. ReclaimersHaveLast' /\ OnlyCurrentUnretired'
    BY <1>3, <1>4 DEF ReclaimersHaveLast, OnlyCurrentUnretired, TypeOK, Generations, NoGeneration
  <1>8. FutureNumbersFree'
    <2>1. current \in Generations => current <= nextGeneration
      BY DEF FutureNumbersFree, TypeOK, Generations, ReferencedGenerationIntact, InUse
    <2> QED
      BY <2>1 DEF FutureNumbersFree, TypeOK, Generations, NoGeneration
  <1>9. StraysOnlyAfterClose' /\ ClosedStoreIsEmpty' /\ CheckedIsVerified' /\ DownIsEmpty'
    BY DEF StraysOnlyAfterClose, ClosedStoreIsEmpty, CheckedIsVerified, DownIsEmpty, TypeOK
  <1>10. ReferencedGenerationIntact'
    BY <1>3 DEF ReferencedGenerationIntact, InUse, Generations, NoGeneration
  <1>11. BuildFileOwned'
    BY DEF BuildFileOwned
  <1>12. EveryFileAccounted'
    <2>1. ImportingFileAccounted'
      BY <1>2 DEF ImportingFileAccounted, EveryFileAccounted
    <2>2. ASSUME NEW g \in Generations
          PROVE  GenerationFileAccounted(g)'
      <3>1. ~ClosePending(g)
        BY <1>2 DEF ClosePending
      <3> QED
        BY <1>3, <1>4, <1>5, <3>1 DEF GenerationFileAccounted, EveryFileAccounted, InUse
    <2> QED
      BY <2>1, <2>2 DEF EveryFileAccounted
  <1>13. SingleReclaimer'
    BY <1>3, <1>4, <1>5 DEF SingleReclaimer
  <1> QED
    BY <1>1, <1>6, <1>7, <1>8, <1>9, <1>10, <1>11, <1>12, <1>13

(* CloseRemovesImport: the closed store has no import to take a file from. *)
LEMMA CloseRemovesImportKeepsIInv ==
  ASSUME IInv, CloseRemovesImport
  PROVE  IInv'
  <1> USE NoneAssumption DEF IInv, CloseRemovesImport, RemoveImporting
  <1>1. closed /\ importing = None
    BY DEF ClosedStoreIsEmpty
  <1>2. TypeOK'
    BY DEF TypeOK, ClosePcs, ImportingName
  <1>3. \A g \in Generations : /\ Holders(g)' = Holders(g)
                               /\ Reclaimers(g)' = Reclaimers(g)
                               /\ ClosePending(g)' = ClosePending(g)
    BY DEF Holders, Reclaimers, ClosePending
  <1>4. /\ RefsCountHolders'
        /\ SearchesPlaced'
        /\ ReclaimersHaveLast'
        /\ OnlyCurrentUnretired'
        /\ SingleReclaimer'
    BY <1>3 DEF RefsCountHolders, SearchesPlaced, ReclaimersHaveLast, OnlyCurrentUnretired,
        SingleReclaimer
  <1>5. /\ FutureNumbersFree'
        /\ StraysOnlyAfterClose'
        /\ ClosedStoreIsEmpty'
        /\ CheckedIsVerified'
        /\ DownIsEmpty'
    BY <1>1 DEF FutureNumbersFree, StraysOnlyAfterClose, ClosedStoreIsEmpty, CheckedIsVerified,
        DownIsEmpty
  <1>6. ReferencedGenerationIntact' /\ BuildFileOwned'
    BY <1>1, <1>3 DEF ReferencedGenerationIntact, BuildFileOwned, InUse
  <1>7. EveryFileAccounted'
    <2>1. ASSUME up PROVE ImportingFileAccounted'
      BY <1>1, <2>1 DEF ImportingFileAccounted, EveryFileAccounted
    <2>2. ASSUME up, NEW g \in Generations
          PROVE  GenerationFileAccounted(g)'
      <3>1. g \in leaked => g \in leaked'
        BY DEF ImportingName, Generations
      <3> QED
        BY <1>3, <2>2, <3>1 DEF GenerationFileAccounted, EveryFileAccounted, InUse
    <2> QED
      BY <2>1, <2>2 DEF EveryFileAccounted
  <1> QED
    BY <1>2, <1>4, <1>5, <1>6, <1>7

(* CloseRemovesGeneration: the generation it closes is retired and without
   references. *)
LEMMA CloseRemovesGenerationKeepsIInv ==
  ASSUME IInv, CloseRemovesGeneration
  PROVE  IInv'
  <1> USE NoneAssumption DEF IInv, CloseRemovesGeneration, CloseAndRemove, RemoveGeneration
  <1>1. \A g \in Generations : /\ Holders(g)' = Holders(g)
                               /\ Reclaimers(g)' = Reclaimers(g)
                               /\ ~ClosePending(g)'
                               /\ ClosePending(g) <=> g = closeGen
    BY DEF Holders, Reclaimers, ClosePending
  <1>2. closeGen \in Generations =>
          closeGen \in retired /\ Holders(closeGen) = {} /\ closeGen # current
    BY <1>1, HoldersCounted DEF ReclaimersHaveLast, OnlyCurrentUnretired
  <1>3. TypeOK'
    BY DEF TypeOK, ClosePcs, Generations, NoGeneration, ImportingName
  <1>4. /\ RefsCountHolders'
        /\ SearchesPlaced'
        /\ ReclaimersHaveLast'
        /\ OnlyCurrentUnretired'
        /\ SingleReclaimer'
    BY <1>1 DEF RefsCountHolders, SearchesPlaced, ReclaimersHaveLast, OnlyCurrentUnretired,
        SingleReclaimer
  <1>5. /\ FutureNumbersFree'
        /\ StraysOnlyAfterClose'
        /\ ClosedStoreIsEmpty'
        /\ CheckedIsVerified'
        /\ DownIsEmpty'
    BY DEF FutureNumbersFree, StraysOnlyAfterClose, ClosedStoreIsEmpty, CheckedIsVerified,
        DownIsEmpty, TypeOK
  <1>6. ReferencedGenerationIntact'
    <2> SUFFICES ASSUME NEW g \in Generations, InUse(g)'
                 PROVE  g \in opened' /\ generationFile'[g] \in verified
      BY DEF ReferencedGenerationIntact
    <2>1. InUse(g) /\ g # closeGen
      BY <1>1, <1>2 DEF InUse
    <2> QED
      BY <2>1 DEF ReferencedGenerationIntact, TypeOK
  <1>7. BuildFileOwned'
    BY DEF BuildFileOwned
  <1>8. EveryFileAccounted'
    <2>1. ASSUME up PROVE ImportingFileAccounted'
      BY <2>1 DEF ImportingFileAccounted, EveryFileAccounted
    <2>2. ASSUME up, NEW g \in Generations
          PROVE  GenerationFileAccounted(g)'
      <3>1. CASE g = closeGen
        <4>1. PICK ok \in BOOLEAN : RemoveGeneration(closeGen, ok)
          BY <3>1 DEF Generations, NoGeneration
        <4>2. generationFile'[g] = None \/ g \in leaked'
          BY <3>1, <4>1 DEF TypeOK
        <4> QED
          BY <4>2 DEF GenerationFileAccounted
      <3>2. CASE g # closeGen
        BY <1>1, <2>2, <3>2 DEF GenerationFileAccounted, EveryFileAccounted, InUse, TypeOK
      <3> QED
        BY <3>1, <3>2
    <2> QED
      BY <2>1, <2>2 DEF EveryFileAccounted
  <1> QED
    BY <1>3, <1>4, <1>5, <1>6, <1>7, <1>8

(* The process ends: whatever is on disk, nothing is in use. *)
LEMMA LoseProcessGivesIInv ==
  ASSUME IInv, LoseProcess, history' = history,
         importingFile' \in Op \cup {None},
         generationFile' \in [Generations -> Op \cup {None}]
  PROVE  IInv'
  <1> USE DEF IInv, LoseProcess, history
  <1>1. /\ stage' \in [Op -> Stages]
        /\ refs' \in [Generations -> Nat]
        /\ searchPc' \in [Search -> {"idle", "holding", "reclaiming"}]
        /\ searchGen' \in [Search -> Generations \cup {NoGeneration}]
    BY DEF TypeOK, Stages
  <1>11. verified' \subseteq Op /\ leaked' \subseteq Generations \cup {ImportingName}
    BY DEF TypeOK
  <1>2. TypeOK'
    <2>1. 0 \in 0..MaxGeneration
      BY GenerationAssumption
    <2>2. /\ importingFile' \in Op \cup {None}
          /\ generationFile' \in [Generations -> Op \cup {None}]
      OBVIOUS
    <2> QED
      BY <1>1, <1>11, <2>1, <2>2 DEF TypeOK, ClosePcs, NoGeneration
  <1>3. \A g \in Generations : Holders(g)' = {} /\ Reclaimers(g)' = {} /\ ~ClosePending(g)'
    BY DEF Holders, Reclaimers, ClosePending
  <1>4. RefsCountHolders' /\ SingleReclaimer'
    <2>1. Cardinality({}) = 0
      BY FS_EmptySet
    <2>2. \A g \in Generations : Cardinality(Holders(g)') = 0 /\ Cardinality(Reclaimers(g)') = 0
      BY <1>3, <2>1
    <2> QED
      BY <1>3, <2>2 DEF RefsCountHolders, SingleReclaimer
  <1>5. SearchesPlaced' /\ ReclaimersHaveLast' /\ OnlyCurrentUnretired'
    BY <1>3 DEF SearchesPlaced, ReclaimersHaveLast, OnlyCurrentUnretired
  <1>6. \A o \in Op : stage'[o] \notin InProgress
    BY DEF InProgress
  <1>7. /\ FutureNumbersFree'
        /\ StraysOnlyAfterClose'
        /\ ClosedStoreIsEmpty'
        /\ DownIsEmpty'
        /\ EveryFileAccounted'
    BY <1>6 DEF FutureNumbersFree, StraysOnlyAfterClose, ClosedStoreIsEmpty, DownIsEmpty,
        EveryFileAccounted
  <1>8. CheckedIsVerified'
    BY DEF CheckedIsVerified, InProgress
  <1>9. ReferencedGenerationIntact' /\ BuildFileOwned'
    BY <1>3 DEF ReferencedGenerationIntact, BuildFileOwned, InUse, Generations, NoGeneration
  <1> QED
    BY <1>2, <1>4, <1>5, <1>7, <1>8, <1>9

(* A crash leaves the disk as it is and nothing in use. *)
LEMMA CrashKeepsIInv ==
  ASSUME IInv, Crash
  PROVE  IInv'
  BY LoseProcessGivesIInv DEF Crash, disk, IInv, TypeOK

(* A crash right after the rename leaves one more generation on disk. *)
LEMMA CrashAfterRenameKeepsIInv ==
  ASSUME IInv, NEW o \in Op, CrashAfterRename(o)
  PROVE  IInv'
  <1>1. /\ importingFile' \in Op \cup {None}
        /\ generationFile' \in [Generations -> Op \cup {None}]
    BY DEF CrashAfterRename, CanSwitch, RenameTo, IInv, TypeOK
  <1> QED
    BY <1>1, LoseProcessGivesIInv DEF CrashAfterRename

--------------------------------------------------------------------------------
(* Init establishes the invariant: no store is open yet. *)
LEMMA InitGivesIInv == Init => IInv
  <1> SUFFICES ASSUME Init PROVE IInv
    OBVIOUS
  <1> USE DEF Init
  <1>1. \A g \in Generations : Holders(g) = {} /\ Reclaimers(g) = {} /\ ~ClosePending(g)
    BY DEF Holders, Reclaimers, ClosePending
  <1>2. TypeOK
    <2>1. 0 \in 0..MaxGeneration
      BY GenerationAssumption
    <2> QED
      BY <2>1 DEF TypeOK, Stages, ClosePcs, NoGeneration
  <1>3. RefsCountHolders /\ SingleReclaimer
    <2>1. \A g \in Generations : Cardinality(Holders(g)) = 0 /\ Cardinality(Reclaimers(g)) = 0
      BY <1>1, SmallCardinalities
    <2> QED
      BY <1>1, <2>1 DEF RefsCountHolders, SingleReclaimer
  <1>4. /\ SearchesPlaced
        /\ ReclaimersHaveLast
        /\ OnlyCurrentUnretired
        /\ FutureNumbersFree
        /\ StraysOnlyAfterClose
        /\ ClosedStoreIsEmpty
        /\ CheckedIsVerified
        /\ DownIsEmpty
    BY <1>1 DEF SearchesPlaced, ReclaimersHaveLast, OnlyCurrentUnretired, FutureNumbersFree,
        StraysOnlyAfterClose, ClosedStoreIsEmpty, CheckedIsVerified, DownIsEmpty, InProgress
  <1>5. ReferencedGenerationIntact /\ BuildFileOwned /\ EveryFileAccounted
    BY <1>1 DEF ReferencedGenerationIntact, BuildFileOwned, EveryFileAccounted, InUse,
        Generations, NoGeneration
  <1> QED
    BY <1>2, <1>3, <1>4, <1>5 DEF IInv

(* Every step of an import keeps the invariant. *)
LEMMA OpStepKeepsIInv ==
  ASSUME IInv, NEW o \in Op, OpStep(o)
  PROVE  IInv'
  <1>1. CASE CompleteEnter(o)
    <2>1. "building" \in InProgress /\ "checking" \in Stages /\ "done" \in Stages
      BY DEF InProgress, Stages
    <2>2. verified' = verified /\ verified \subseteq Op
      BY <1>1 DEF CompleteEnter, IInv, TypeOK
    <2>3. CASE importing = o
      BY <1>1, <2>1, <2>2, <2>3, StageStepKeepsIInv DEF CompleteEnter
    <2>4. CASE importing # o
      BY <1>1, <2>1, <2>2, <2>4, StageStepKeepsIInv DEF CompleteEnter
    <2> QED
      BY <2>3, <2>4
  <1>2. CASE CompleteCheckSucceeds(o)
    BY <1>2, StageStepKeepsIInv DEF CompleteCheckSucceeds, InProgress, Stages, IInv, TypeOK
  <1>3. CASE CompleteCheckFails(o)
    BY <1>3, StageStepKeepsIInv DEF CompleteCheckFails, InProgress, Stages, IInv, TypeOK
  <1>4. CASE CompleteLost(o)
    BY <1>4, StageStepKeepsIInv DEF CompleteLost, InProgress, Stages, IInv, TypeOK
  <1>5. CASE BeginImport(o)
    BY <1>5, BeginImportKeepsIInv
  <1>6. CASE BeginImportFails(o)
    BY <1>6, BeginImportFailsKeepsIInv
  <1>7. CASE Abort(o)
    BY <1>7, AbortKeepsIInv
  <1>8. CASE FailAfterClose(o)
    BY <1>8, FailAfterCloseKeepsIInv
  <1>9. CASE CompleteRenameFails(o)
    BY <1>9, CompleteRenameFailsKeepsIInv
  <1>10. CASE CompleteOpenFails(o)
    BY <1>10, CompleteOpenFailsKeepsIInv
  <1>11. CASE CompleteSwitch(o)
    BY <1>11, CompleteSwitchKeepsIInv
  <1>12. CASE CrashAfterRename(o)
    BY <1>12, CrashAfterRenameKeepsIInv
  <1> QED
    BY <1>1, <1>2, <1>3, <1>4, <1>5, <1>6, <1>7, <1>8, <1>9, <1>10, <1>11, <1>12 DEF OpStep

(* Every step keeps the inductive invariant. *)
LEMMA NextKeepsIInv == IInv /\ [Next]_vars => IInv'
  <1> SUFFICES ASSUME IInv, [Next]_vars PROVE IInv'
    OBVIOUS
  <1>1. CASE New
    BY <1>1, NewKeepsIInv
  <1>2. CASE NewFails
    BY <1>2, NewFailsKeepsIInv
  <1>3. ASSUME NEW o \in Op, OpStep(o) PROVE IInv'
    BY <1>3, OpStepKeepsIInv
  <1>4. ASSUME NEW s \in Search, SearchStep(s) PROVE IInv'
    BY <1>4, AcquireKeepsIInv, ReleaseKeepsIInv, ReclaimKeepsIInv DEF SearchStep
  <1>5. CASE Close
    BY <1>5, CloseKeepsIInv
  <1>6. CASE CloseRemovesImport
    BY <1>6, CloseRemovesImportKeepsIInv
  <1>7. CASE CloseRemovesGeneration
    BY <1>7, CloseRemovesGenerationKeepsIInv
  <1>8. CASE Crash
    BY <1>8, CrashKeepsIInv
  <1>9. CASE UNCHANGED vars
    <2>1. UNCHANGED <<volatile, disk, history>>
      BY <1>9 DEF vars
    <2> QED
      BY <2>1 DEF volatile, disk, history, IInv, TypeOK, RefsCountHolders, SearchesPlaced,
          ReclaimersHaveLast, OnlyCurrentUnretired, FutureNumbersFree, StraysOnlyAfterClose,
          ClosedStoreIsEmpty, CheckedIsVerified, DownIsEmpty, ReferencedGenerationIntact,
          BuildFileOwned, EveryFileAccounted, GenerationFileAccounted, ImportingFileAccounted,
          SingleReclaimer, InUse, Holders, Reclaimers, ClosePending
  <1> QED
    BY <1>1, <1>2, <1>3, <1>4, <1>5, <1>6, <1>7, <1>8, <1>9 DEF Next

(* The inductive invariant holds in every reachable state. *)
THEOREM Invariance == Spec => []IInv
  <1> QED
    BY InitGivesIInv, NextKeepsIInv, PTL DEF Spec

(* Type correctness of the store's state. *)
THEOREM TypeCorrect == Spec => []TypeOK
  <1>1. IInv => TypeOK
    BY DEF IInv
  <1> QED
    BY <1>1, Invariance, PTL

(* A generation that is current or held by a search keeps its open handle and
   its complete, checked file, for any number of imports and searches: what
   opening it immutable relies on. *)
THEOREM InUseStaysIntact == Spec => []ReferencedGenerationIntact
  <1>1. IInv => ReferencedGenerationIntact
    BY DEF IInv
  <1> QED
    BY <1>1, Invariance, PTL

(* The import that owns the slot finds its own importing.db. *)
THEOREM OwnerKeepsBuildFile == Spec => []BuildFileOwned
  <1>1. IInv => BuildFileOwned
    BY DEF IInv
  <1> QED
    BY <1>1, Invariance, PTL

(* No database file is forgotten by a running process. *)
THEOREM NoFileForgotten == Spec => []EveryFileAccounted
  <1>1. IInv => EveryFileAccounted
    BY DEF IInv
  <1> QED
    BY <1>1, Invariance, PTL

(* A database is closed by one goroutine, when nobody holds it. *)
THEOREM ReclaimedByOne == Spec => []SingleReclaimer
  <1>1. IInv => SingleReclaimer
    BY DEF IInv
  <1> QED
    BY <1>1, Invariance, PTL
--------------------------------------------------------------------------------
(* File names, and the refinement. *)

NoOverwriteStep ==
  \A g \in Generations :
    generationFile'[g] # generationFile[g] =>
      generationFile[g] = None \/ generationFile'[g] = None

LEMMA StepNeverOverwrites ==
  ASSUME IInv, [Next]_vars
  PROVE  NoOverwriteStep
  <1> USE DEF NoOverwriteStep
  <1>1. CASE generationFile' = generationFile
    BY <1>1
  <1>2. \A g \in Generations : g = nextGeneration + 1 /\ up => generationFile[g] = None
    BY DEF IInv, TypeOK, FutureNumbersFree, Generations
  <1>3. CASE New \/ NewFails
    BY <1>3 DEF New, NewFails, WithoutFiles
  <1>4. ASSUME NEW o \in Op, CompleteOpenFails(o) \/ CompleteSwitch(o) \/ CrashAfterRename(o)
        PROVE  NoOverwriteStep
    <2>1. CASE CompleteOpenFails(o)
      BY <1>2, <2>1 DEF CompleteOpenFails, CanSwitch, IInv, TypeOK
    <2>2. CASE CompleteSwitch(o)
      BY <1>2, <2>2 DEF CompleteSwitch, CanSwitch, IInv, TypeOK
    <2>3. CASE CrashAfterRename(o)
      BY <1>2, <2>3 DEF CrashAfterRename, RenameTo, CanSwitch, IInv, TypeOK
    <2> QED
      BY <1>4, <2>1, <2>2, <2>3
  <1>5. ASSUME NEW s \in Search, Reclaim(s)
        PROVE  NoOverwriteStep
    BY <1>5 DEF Reclaim, CloseAndRemove, RemoveGeneration, IInv, TypeOK
  <1>6. CASE CloseRemovesGeneration
    BY <1>6 DEF CloseRemovesGeneration, CloseAndRemove, RemoveGeneration, IInv, TypeOK
  <1>7. CASE \/ \E o \in Op : \/ BeginImport(o) \/ BeginImportFails(o) \/ Abort(o)
                             \/ CompleteEnter(o) \/ CompleteCheckSucceeds(o)
                             \/ CompleteCheckFails(o) \/ FailAfterClose(o)
                             \/ CompleteLost(o) \/ CompleteRenameFails(o)
             \/ \E s \in Search : Acquire(s) \/ Release(s)
             \/ Close \/ CloseRemovesImport \/ Crash \/ UNCHANGED vars
    BY <1>1, <1>7 DEF BeginImport, BeginImportFails, Abort, CompleteEnter, CompleteCheckSucceeds,
        CompleteCheckFails, CompleteLost, StageStep, FailAfterClose, CompleteRenameFails, Acquire,
        Release, Close, CloseRemovesImport, Crash, vars, disk
  <1> QED
    BY <1>3, <1>4, <1>5, <1>6, <1>7 DEF Next, OpStep, SearchStep

(* The name of a generation is not reused while its file is there. *)
THEOREM NamesNotReused == Spec => NeverOverwritten
  <1>1. IInv /\ [Next]_vars => [NoOverwriteStep]_generationFile
    BY StepNeverOverwrites
  <1> QED
    BY <1>1, Invariance, PTL DEF Spec, NeverOverwritten, NoOverwriteStep

(* A generation in use before and after a step gives the same answer. *)
LEMMA AnswerStable ==
  ASSUME IInv, IInv', NoOverwriteStep, NEW g \in Generations, InUse(g), InUse(g)'
  PROVE  /\ Answer(g) = generationFile[g]
         /\ Answer(g) \in Op
         /\ Answer(g)' = Answer(g)
  BY NoneAssumption DEF IInv, TypeOK, NoOverwriteStep, ReferencedGenerationIntact, Answer

(* What is current or held answers from a complete database. *)
LEMMA AnswerInUse ==
  ASSUME IInv, NEW g \in Generations, InUse(g)
  PROVE  Answer(g) = generationFile[g] /\ Answer(g) \in Op
  BY NoneAssumption DEF IInv, TypeOK, ReferencedGenerationIntact, Answer

(* A step that keeps the current generation keeps what the register serves. *)
LEMMA ServedStable ==
  ASSUME IInv, IInv', NoOverwriteStep, current' = current
  PROVE  AbsServed' = AbsServed
  <1>1. CASE current = NoGeneration
    BY <1>1 DEF AbsServed
  <1>2. CASE current \in Generations
    BY <1>2, AnswerStable DEF AbsServed, InUse
  <1> QED
    BY <1>1, <1>2 DEF IInv, TypeOK

(* A step that keeps a search's generation keeps what the search reads. *)
LEMMA ReadingStable ==
  ASSUME IInv, IInv', NoOverwriteStep, NEW s \in Search,
         searchPc'[s] = "holding" <=> searchPc[s] = "holding",
         searchPc[s] = "holding" => searchGen'[s] = searchGen[s]
  PROVE  AbsReading'[s] = AbsReading[s]
  <1>1. CASE searchPc[s] = "holding"
    <2> PICK g \in Generations : g = searchGen[s]
      BY <1>1 DEF IInv, TypeOK, SearchesPlaced, Generations, NoGeneration
    <2>1. InUse(g) /\ InUse(g)'
      BY <1>1 DEF InUse, Holders
    <2>2. Answer(g)' = Answer(g)
      BY <2>1, AnswerStable
    <2>3. AbsReading[s] = Answer(g)
      BY <1>1 DEF AbsReading
    <2>4. AbsReading'[s] = Answer(g)'
      BY <1>1 DEF AbsReading
    <2> QED
      BY <2>2, <2>3, <2>4
  <1>2. CASE searchPc[s] # "holding"
    BY <1>2 DEF AbsReading
  <1> QED
    BY <1>1, <1>2

(* A step that touches no search keeps what all of them read. *)
LEMMA ReadingUnchanged ==
  ASSUME IInv, IInv', NoOverwriteStep, UNCHANGED <<searchPc, searchGen>>
  PROVE  AbsReading' = AbsReading
  <1>1. \A s \in Search : AbsReading'[s] = AbsReading[s]
    BY ReadingStable
  <1> QED
    BY <1>1 DEF AbsReading

(* Searching steps are searches of the register. *)
LEMMA SearchStepImplements ==
  ASSUME IInv, IInv', NoOverwriteStep, NEW s \in Search, SearchStep(s)
  PROVE  [Register!RegNext]_(Register!regVars)
  <1>1. \A t \in Search \ {s} : AbsReading'[t] = AbsReading[t]
    <2> SUFFICES ASSUME NEW t \in Search \ {s} PROVE AbsReading'[t] = AbsReading[t]
      OBVIOUS
    <2>1. searchPc'[t] = searchPc[t] /\ searchGen'[t] = searchGen[t]
      BY DEF SearchStep, Acquire, Release, Reclaim, IInv, TypeOK
    <2> QED
      BY <2>1, ReadingStable
  <1>2. CASE Acquire(s)
    <2>1. current \in Generations /\ InUse(current) /\ current' = current
      BY <1>2 DEF Acquire, InUse, IInv, TypeOK
    <2>2. AbsServed' = AbsServed /\ AbsServed \in Op /\ AbsServed = Answer(current)
      BY <2>1, ServedStable, AnswerInUse DEF AbsServed, Generations, NoGeneration
    <2>3. AbsReading[s] = None
      BY <1>2 DEF Acquire, AbsReading
    <2>4. AbsReading'[s] = AbsServed
      <3>1. InUse(current)' /\ searchPc'[s] = "holding" /\ searchGen'[s] = current
        BY <1>2, <2>1 DEF Acquire, InUse, IInv, TypeOK
      <3> PICK g \in Generations : g = current
        BY <2>1
      <3>2. Answer(g)' = Answer(g)
        BY <2>1, <3>1, AnswerStable
      <3>3. AbsReading'[s] = Answer(g)'
        BY <3>1 DEF AbsReading
      <3> QED
        BY <2>2, <3>2, <3>3
    <2>5. AbsReading' = [AbsReading EXCEPT ![s] = AbsServed]
      BY <1>1, <2>4 DEF AbsReading
    <2> QED
      BY <1>2, <2>2, <2>3, <2>5, NoneAssumption
      DEF Register!RegNext, Register!BeginSearch, Register!regVars, Acquire
  <1>3. CASE Release(s)
    <2>1. AbsServed' = AbsServed
      BY <1>3, ServedStable DEF Release
    <2>2. AbsReading[s] \in Op
      <3>1. searchGen[s] \in Generations /\ InUse(searchGen[s])
        BY <1>3 DEF Release, InUse, Holders, IInv, TypeOK, SearchesPlaced, NoGeneration
      <3> QED
        BY <1>3, <3>1, AnswerInUse DEF Release, AbsReading
    <2>3. AbsReading'[s] = None
      BY <1>3 DEF Release, AbsReading, IInv, TypeOK
    <2>4. AbsReading' = [AbsReading EXCEPT ![s] = None]
      BY <1>1, <2>3 DEF AbsReading
    <2> QED
      BY <1>3, <2>1, <2>2, <2>4, NoneAssumption
      DEF Register!RegNext, Register!EndSearch, Register!regVars, Release
  <1>4. CASE Reclaim(s)
    <2>1. AbsServed' = AbsServed
      BY <1>4, ServedStable DEF Reclaim
    <2>2. AbsReading'[s] = AbsReading[s]
      BY <1>4 DEF Reclaim, AbsReading, IInv, TypeOK
    <2>3. AbsReading' = AbsReading
      BY <1>1, <2>2 DEF AbsReading
    <2> QED
      BY <1>4, <2>1, <2>3 DEF Register!regVars, Reclaim
  <1> QED
    BY <1>2, <1>3, <1>4 DEF SearchStep

(* A process that has just ended serves nothing and has no search. *)
LEMMA EmptyViews ==
  ASSUME LoseProcess
  PROVE  AbsServed' = None /\ AbsReading' = [s \in Search |-> None]
  BY DEF LoseProcess, AbsServed, AbsReading

(* Steps of an import reserve, publish, discard, or are not seen. *)
LEMMA OpStepImplements ==
  ASSUME IInv, IInv', NoOverwriteStep, NEW o \in Op, OpStep(o)
  PROVE  [Register!RegNext]_(Register!regVars)
  <1>1. UNCHANGED <<searchPc, searchGen>> => AbsReading' = AbsReading
    BY ReadingUnchanged
  <1>2. current' = current => AbsServed' = AbsServed
    BY ServedStable
  <1>3. CASE BeginImport(o)
    BY <1>1, <1>2, <1>3 DEF BeginImport, CanBegin, Register!RegNext, Register!Reserve, Register!regVars
  <1>4. CASE \/ BeginImportFails(o) \/ CompleteEnter(o) \/ CompleteCheckSucceeds(o)
             \/ CompleteCheckFails(o) \/ CompleteLost(o)
    BY <1>1, <1>2, <1>4 DEF BeginImportFails, CompleteEnter, CompleteCheckSucceeds,
        CompleteCheckFails, CompleteLost, StageStep, volatile, Register!regVars
  <1>5. CASE Abort(o) \/ FailAfterClose(o) \/ CompleteRenameFails(o) \/ CompleteOpenFails(o)
    <2>1. /\ UNCHANGED <<up, closed, current, searchPc, searchGen>>
          /\ importing' = importing \/ (importing = o /\ importing' = None)
      BY <1>5 DEF Abort, FailAfterClose, GiveUp, CompleteRenameFails, CompleteOpenFails, CanSwitch,
          ReleaseSlot
    <2> QED
      BY <1>1, <1>2, <2>1 DEF Register!RegNext, Register!Discard, Register!regVars
  <1>6. CASE CompleteSwitch(o)
    <2>1. /\ importing = o /\ importing' = None /\ up /\ ~closed
          /\ UNCHANGED <<up, closed, searchPc, searchGen>>
      BY <1>6, NoneAssumption DEF CompleteSwitch, CanSwitch, ReleaseSlot, IInv, ClosedStoreIsEmpty
    <2>2. AbsServed' = o
      <3> PICK g \in Generations : g = nextGeneration + 1
        BY <1>6 DEF CompleteSwitch, CanSwitch, IInv, TypeOK, Generations
      <3>0. importingFile = o
        BY <1>6, NoneAssumption DEF CompleteSwitch, CanSwitch, IInv, BuildFileOwned
      <3>1. current' = g /\ generationFile'[g] = o
        BY <1>6, <3>0 DEF CompleteSwitch
      <3>2. InUse(g)'
        BY <3>1 DEF InUse
      <3>3. Answer(g)' = generationFile'[g]
        BY <3>2, NoneAssumption DEF Answer, IInv, ReferencedGenerationIntact, TypeOK
      <3> QED
        BY <3>1, <3>3 DEF AbsServed, Generations, NoGeneration
    <2> QED
      BY <1>1, <2>1, <2>2 DEF Register!RegNext, Register!Publish, Register!regVars
  <1>7. CASE CrashAfterRename(o)
    <2>1. LoseProcess
      BY <1>7 DEF CrashAfterRename
    <2> QED
      BY <2>1, EmptyViews DEF LoseProcess, Register!RegNext, Register!Halt
  <1> QED
    BY <1>3, <1>4, <1>5, <1>6, <1>7 DEF OpStep

(* Every step is a step of the register or a stutter. *)
LEMMA NextImplements ==
  ASSUME IInv, IInv', NoOverwriteStep, [Next]_vars
  PROVE  [Register!RegNext]_(Register!regVars)
  <1>1. UNCHANGED <<searchPc, searchGen>> => AbsReading' = AbsReading
    BY ReadingUnchanged
  <1>2. current' = current => AbsServed' = AbsServed
    BY ServedStable
  <1>3. CASE New
    <2>1. AbsReading = [s \in Search |-> None]
      BY <1>3 DEF New, IInv, DownIsEmpty, AbsReading
    <2> QED
      BY <1>1, <1>2, <1>3, <2>1 DEF New, IInv, DownIsEmpty, Register!RegNext, Register!Start
  <1>4. CASE NewFails \/ CloseRemovesImport \/ CloseRemovesGeneration \/ UNCHANGED vars
    BY <1>1, <1>2, <1>4 DEF NewFails, CloseRemovesImport, CloseRemovesGeneration, vars, volatile,
        Register!regVars
  <1>5. CASE Close
    <2>1. AbsServed' = None
      BY <1>5 DEF Close, AbsServed
    <2> QED
      BY <1>1, <1>5, <2>1 DEF Close, Register!RegNext, Register!Shutdown
  <1>6. CASE Crash
    BY <1>6, EmptyViews DEF Crash, LoseProcess, Register!RegNext, Register!Halt
  <1>7. ASSUME NEW o \in Op, OpStep(o)
        PROVE  [Register!RegNext]_(Register!regVars)
    BY <1>7, OpStepImplements
  <1>8. ASSUME NEW s \in Search, SearchStep(s)
        PROVE  [Register!RegNext]_(Register!regVars)
    BY <1>8, SearchStepImplements
  <1> QED
    BY <1>3, <1>4, <1>5, <1>6, <1>7, <1>8 DEF Next

(* The store implements the generation register. *)
THEOREM Refinement == Spec => ImplementsRegister
  <1>1. Init => Register!RegInit
    BY DEF Init, Register!RegInit, AbsServed, AbsReading
  <1>2. IInv /\ IInv' /\ [Next]_vars => [Register!RegNext]_(Register!regVars)
    BY StepNeverOverwrites, NextImplements
  <1> QED
    BY <1>1, <1>2, Invariance, PTL DEF Spec, ImplementsRegister, Register!RegSpec
===============================================================================
