# TLA+ verification of BatchScope

BatchScope takes a snapshot of batch job definitions (an archive of a manifest,
nodes, relations and limit facts), checks it, loads it into a SQLite database
and answers searches and analyses of what depends on a job. This directory
holds TLA+ modules for the parts of the server that have behaviour over time or
an algorithm worth stating on its own, TLC configurations for small instances,
and proofs for TLAPS.

Paths are relative to the repository. `PROJECT.json` maps every definition to
the lines it models and lists runs, hazards, theorems and findings.

## 1. Inventory

| component | state | operations | what makes it correct |
|---|---|---|---|
| `internal/store` | current database with its reference count, the import slot, the generation number, `closed`; `importing.db` and `generation-N.db` on disk | `New`, `BeginImport`, `Complete`, `Abort`, `Acquire`, release, `Close` | a search reads one complete generation to its end; a failed import changes nothing; no file is lost sight of |
| `internal/importer` | the extracted directory, `idle` / `active` and the reception to abort | `Begin`, `Run`, `Abort` | one import at a time; a repeated content is recognised against the generation served |
| `internal/app/imports.go` | the records of imports, newest 16 | `accept`, `finish`, `get` | a record only moves forward and tells the truth; a running import is not dropped |
| `internal/app/snapshot_imports.go` | one goroutine per upload, one per accepted import | `postSnapshot`, `runSnapshotImport` | slot, temporary file and work counter are given back on every path |
| `internal/app/app.go`, `cmd/batchscope` | `closed`, the work counter; the HTTP server | `beginImportWork`, `Close`, `serve` | the store is closed after the last import that uses it |
| `internal/snapshot` | none that outlives a call | `receive`, `extract`, `Validate`, `Load` | exactly the valid snapshots are accepted, the first problem is the one reported, what is accepted can be loaded |
| `internal/traversal` | one call's sets and queue | `Traverse` | the result is the reachable part of the graph, cycles included |
| `internal/limitscan` | one call's candidates and scope roots | `Scan` | every limit of a reached job once, in the documented order |
| `internal/pathtree` | one call's path tables, cycles and tree | `Build` | the least path to each node, every connection shown once, none lost in compression |
| `internal/target`, `internal/identity` | none | search, ranking, public IDs | the best matches first, truncation reported |
| `internal/app/app.go` (`targets`), `internal/app/analysis.go` | one request and the generation it holds | `targets`, `downstreamLimitAnalysis` | one generation per answer, given back on every path |
| limits, observability, normalisation, schema | none | constants and helpers | |
| `cmd/perf-measure`, `cmd/openapi-gen`, `testsupport` | none in the server | tools | |

How they interact: a handler calls `importer.Begin`, receives the archive into a
temporary file, records the import as accepted, answers 202 and hands the
archive to a goroutine. That goroutine runs `importer.Run`, which extracts and
checks the archive, compares its fingerprint with the served one, and builds and
switches the database through `store`. Searches and analyses acquire the current
database for one request and release it at the end. `App.Close` refuses new
import work, waits for the work in progress and closes the store.

Where it is hard: searches against the switch and `Close`; clean-up that runs
after a lock was given up; the slot's way from handler to goroutine over a dozen
early returns; shutdown during an upload or an import; a process killed between
two file operations; the batched search in a graph that may have cycles; the
order of checks that decides which of several problems is reported; limits that
fall into the middle of an archive; two copies of one set of types; an answer put
together from several queries while imports switch.
`PROJECT.json` lists the hazards line by line with the properties that watch them.

## 2. Modules

| module | what it is |
|---|---|
| `GenerationRegister` | abstract: what an import and a search may expect of the store |
| `Store` | `internal/store`, one step per critical section or unlocked stretch, with the files and crashes |
| `StoreProofs` | its theorems |
| `ImportService` | upload handler, background import, importer, registry, `App.Close` and `serve`, over `GenerationRegister` as the store |
| `ImportProofs` | its theorems |
| `Traversal` | `Traverse` up to its cycles, over an arbitrary checked database |
| `TraversalProofs` | its theorems |
| `CycleSearch` | `findCycles`, the last step of `Traverse`, on an arbitrary graph |
| `CycleProofs` | its theorems |
| `PathGraph` | the graph that `internal/pathtree` works on, and the order of its paths |
| `PathPrepare` | its `prepare`: least paths, routes of cycles, counts, uncovered boundaries |
| `PathTree` | its `buildTree`, `compressTree` and `finish` |
| `PathProofs` | theorems about both |
| `LimitScan` | `Scan`, on every database and the result of `Traverse` on it |
| `LimitScanProofs` | its theorems |
| `Archive` | `receive` and `extract`, unit by unit |
| `Validate` | `Validate` and `Load` on the extracted files, phase by phase |
| `Snapshot` | the two together, as the importer calls them |
| `SnapshotProofs` | theorems about `Validate`, alone and within `Snapshot`, and about `Archive` within it |
| `TargetSearch` | the statements of `internal/target` and `internal/identity`, as functions of a database |
| `Query` | the two handlers, query by query, over `GenerationRegister` as the store |
| `QueryProofs` | its theorems |
| `MCStore`, `MCImportService`, `MCTraversal`, `MCCycleSearch`, `MCPathPrepare`, `MCPathTree`, `MCLimitScan`, `MCSnapshot`, `MCQuery` | instances for TLC |

`Store` implements `GenerationRegister` (property `ImplementsRegister`, theorem
`Refinement`). `ImportService` uses `GenerationRegister` by INSTANCE and `Query`
extends it, so that imports and requests are checked against what the store was
shown to promise and not against a second model of it. `GenerationReturned` of
`Query` is in turn what `Store` takes for granted of its readers.
`LimitScan` takes its input from the definitions of `Traversal` (`Reachable`,
`Below`, `Scope`) that `Traverse` is proved to compute, and `Validate` compares
the graph it measures with the one that `Traversal` searches.

**Store.** `refs`, `retired`, `opened` are the fields of `database`, indexed by
generation; `importing`, `current`, `closed`, `nextGeneration` those of `Store`.
A file's value is the import whose content it holds, which is all the properties
tell apart. `Complete` is `CompleteEnter`, then one of the two checks, then one
of five ends; `Close` is its critical section and two unlocked clean-ups;
`release` is the critical section and, for the last reference, `Reclaim`. Every
removal may fail. `Crash` is possible everywhere, and `CrashAfterRename` inside
the critical section that renames and then switches.

**ImportService.** `request` is the handler of an upload from the first check to
the answer, `job` the goroutine of an accepted import; the importer's mutex and
the registry's are single steps. Deadline, disconnection, a read error and a
refused archive are separate ends of the reception. `App.Close` waits for the
work counter; the process may also be killed.

**Traversal.** The database is chosen in `Init` among all those that pass the
hierarchy checks of `internal/snapshot` and never changes. Rows of a query are
handled one by one in any order: the model is weaker than the code's ORDER BY,
so no result rests on it. Any step may fail, with no result. The instance uses
four of the seven node types: "file" stands for those without a parent.

**CycleSearch.** `path` is the stack of frames of `appendFinishOrder` and `left`
what each frame has still to look at (the code keeps an index into a sorted
slice; here neighbours and start nodes come in any order). `order`, `assigned`,
`work` and `component` are the code's slices and sets. `mark` is a history
variable for the proof: how many nodes were listed when a node was visited.
`index` is the code's loop variable plus one, so that it stays a natural number.
The graph is any set of connections with any forest of scope edges.

**PathGraph, PathPrepare, PathTree.** A path is the sequence of its edges, so that
two paths are the same tree node when they are equal; `PathKey` puts what
`lessPath` compares into one sequence, with the place of a connection standing for
the IDs of its relations. `PathPrepare` runs the three searches of `shortestPaths`
entry by entry of the heap, and the later parts of `prepare` by cycle and by
component. A segment of a route is what `shortestHopPath` finds: it goes hop by hop and
keeps one best path per node (`BestPaths`). `PathTree` takes the paths by their definition (`Prepare`), which
`PathPrepare` is shown to find, inserts them in the code's order, marks the
references, closes the unused edges and compresses from below. `occurrences` and
`referenceTargets` are the code's maps; `shown` holds what is left of the tree
while nodes are compressed away. A reference to a compressed node becomes `None`
in `Finish`, as it would become an empty ID in the code.

**LimitScan.** `scopeRoots`, `path` and `current` are the variables of
`prepareScopeRoots`, one step for each turn of its inner loop; walks start at the
scope nodes in any order. `ReadBatch` is one query with the rows it yields.
The candidates leave a map and go through an unstable sort, so `Finish` takes any
arrangement that the comparison functions allow; that there is only one is what
`EveryLimitListed` says. A fact that has no value in a field has 0 there.

**Archive.** An upload is a number of compressed units and a sequence of units
that gzip delivers, which may end early or with a broken checksum. A unit is a
header, a byte of an entry, the end marker or a byte behind it. `read` is the
counter of `maximumReader`, with the probe at its maximum (`Exceeds`);
`lineNumber`, `lineLength` and `lineValid` are the loop of
`copyValidatedNDJSON`. Buffering is left out: `bufio` and `tar` read ahead only
within an entry. `ArchiveFaults` says what is wrong with an upload without the
order of the code: each fault with the unit that shows it.

**Validate.** One step for each line, each node whose parent is looked at, each
node of a parent chain and each step of Tarjan's search (`frames` are the calls of
the recursive `visit`). A line is what the checks tell apart: IDs, type, parent,
limits, whether it is JSON and `nodeInput` takes it, and whether it fits its schema
otherwise (`AgainstSchema` judges what the schema says of namespace, type and durations).
`Canonical` and `Decode` are `identity.Encode` and `identity.Decode`; the latter takes
looser encodings too, as base64 does. `Load` is one step, since its
transaction commits as a whole. `Faults` defines what is wrong with the files
phase by phase, and the least depth, circle and component from closures of the
graph, not from the searches.

**TargetSearch, Query.** The rows, order and LIMIT of each statement are functions
of a database. A request is a handler with a program counter; it may end before it holds anything, as no request
ID can be made (`NoRequestID`) or the store refuses; each query is a step, between which imports may publish and the store may close. `Expire` is the
client's cancellation or the analysis deadline, and `TimedOut` the look at it that
follows each stage. A stage of the analysis only notes which generation it read:
what the stages compute is the subject of the other modules.

## 3. Runs

| run | instance | what it shows |
|---|---|---|
| `store` | 3 imports, 2 searches, 3 generations | references, files, reclaiming, names, refinement of the register; retired generations get closed |
| `import` | 2 uploads, 2 contents, a registry of 1 | slot, comparison, records, temporary files, `Close`; slot, acceptance and `Close` come to an end |
| `traversal` | 3 nodes, up to 2 relations, batches of 2 | the result is reachability, what is contained; the search ends |
| `cycles` | 3 nodes, up to 3 connections and 2 scope edges | what is returned are the components on a cycle; the search ends |
| `path_prepare` | 3 or 4 nodes, up to 4 edges, 3 assignments of types | least paths, routes, counts, uncovered boundaries |
| `path_tree` | as above, and 5 jobs without cycles with up to 6 edges | compression loses nothing, references resolve, paths stay whole |
| `limit_scan` | 4 nodes, up to 2 relations, or 3 limits with any values; batches of 2 | every limit once and in its place, scope roots, no refusal |
| `snapshot` | uploads of up to 4 entries; files of up to 5 lines; limits of 2 to 8 | first fault and its line, exact sizes, accepted files load |
| `query` | 2 requests and 2 imports; or one search of any database of 3 nodes | exact answers of one generation, which is given back |
| `path_cycle_marks` | 4 jobs, up to 5 edges, expected to be violated | finding 3 |
| `cleanup_warning` | as `import`, expected to be violated | finding 1 |
| `shutdown_grace` | as `import`, expected to be violated | finding 2 |

**Bounds.** The number of generations bounds the 64-bit counter; a run restarts
the numbers at a crash, so that three are enough to switch twice, fail
once and restart. Two searches are the fewest that can hold and reclaim the same
generation together. Three imports are the fewest where a failed one, a served
one and a new one meet. The registry's bound is 1 instead of 16. Three nodes
with batches of two put the batch boundary between siblings; `MaxRelations` keeps
the number of initial databases small and still allows a cycle with a branch.
In `cycles`, three nodes with three connections and two scope edges allow two
components with an edge between them, a self loop beside a larger component and
a cycle closed by a scope edge; the theorem covers larger graphs.
In `path_prepare`, four nodes with four edges have two ways that join, a cycle
beside the way to it, and a scope edge parallel to a connection; counts saturate
at 2, which takes three nodes with parallel edges. A compressed node to which something refers needs five nodes and six edges,
for which `path_tree` has the second family; IDs of compressed nodes are cut at 1.
In `limit_scan`, four nodes allow a network within a network, or two jobs in one
network and a job behind it, so that an earlier walk's root is met and the owners
take two batches. Three limits whose values are 0 or 1 tie in every prefix of
their keys.
`snapshot` joins families that each vary one thing: the manifest, a line with any
fault behind one in order, the parents of three nodes, chains of networks, a
relation line with any fault, and the relations of sound files; and uploads of any
size, any entries, any bytes cut anywhere, or one entry too many. Two faults at once, which the order
of checks is about, occur in each. One ID of the instance is a loose encoding of a
namespace and a local ID: a line that names its namespace may not have it as its ID, but as
its parent.
A stream that breaks off right behind the last
byte of an entry is left out: gzip may report it with that byte or after it.
`MaxExtractedArchiveBytes` is 8, so that the limit falls into every part of the
archive. In `query`, two results at most are returned, of three nodes.

**Fairness.** In `Store`, calls that were begun run to their end and a search
releases what it acquired: `ProcessReceived` and the handlers use `defer`, and
every file operation returns. In `ImportService` the same holds for handlers and
jobs, and the reception ends by the deadline that the code sets. No fairness is
assumed for clients, for `Close`, for a crash, or for starting anything.
In `Traversal` and `CycleSearch` the call keeps running. In `Query` a handler
that has begun runs on (each of its queries returns, with rows or an error);
nothing is assumed of clients, deadlines and imports.

**Deadlock** is left unchecked where the system may stop: after `Close`, after a
kill, after a traversal or a search for cycles returned, when a tree is built,
and when a scan, an import check or all requests have ended.

## 4. Findings

1. The operations guide says that a failed clean-up after the switch is to be
   looked up in the warning log (`src/docs/operations.md:60`).
   `runSnapshotImport` drops `CleanupWarning` and logs at level info, so there is
   none. Run `cleanup_warning`.
2. The operations guide says that the process waits at most 60 seconds for
   requests in progress (`src/docs/operations.md:160`). When `Shutdown` gives up
   after the grace, the deferred `App.Close` still waits in `work.Wait` for an
   upload that is being received, up to the upload's own deadline. Run
   `shutdown_grace`.
3. The design says that references tell joining another path from returning to a
   cycle (`src/docs/design/dependency-analysis.md:202`). `buildTree` marks leaf
   occurrences as shared whatever cycle they are in: with target t, a job o with a
   limit, a cycle of x and y, confirmed connections t-o, o-x, x-y, y-x and an
   inferred t-y, x and y each occur on the confirmed path and on the path past the
   limit, each refers to the other's, and no reference says "cycle". Run
   `path_cycle_marks`.

## 5. Proofs

For every value of the constants:

* `StoreProofs`: `Invariance` of `IInv`, and from it `TypeCorrect`,
  `InUseStaysIntact`, `OwnerKeepsBuildFile`, `NoFileForgotten`, `ReclaimedByOne`,
  `NamesNotReused` (an action property) and `Refinement`. Assumed: `None` is no
  import, the set of searches is finite, `MaxGeneration` is positive. The
  properties alone are not inductive: a search keeps its file only because
  `refs` counts the holders (`RefsCountHolders`), the number of a new generation
  is free (`FutureNumbersFree`), whoever closes a database found it retired with
  no reference (`ReclaimersHaveLast`), and only `Close` takes the slot away from
  an import (`StraysOnlyAfterClose`).
* `TraversalProofs`: `Invariance` of `IInv`, and from it `TypeCorrect`,
  `ResultIsReachability`, `ExpansionOnce` and `ContainedIsBelow`, for every
  database and batch size. The registered nodes are within every closed set that
  has the target (`NodesReachable`); each taken node's rows are recorded or still
  to be read (`BatchesRead`); when nothing is pending, the two meet.
  `ContainedIsBelow` also needs that parents form no cycle, which the import checks.
* `CycleProofs`: `Invariance` of `IInv`, and from it `CyclesFound`: the two
  searches return exactly the strongly connected components that lie on a cycle,
  for every finite graph and every order of nodes and neighbours. Assumed: the
  set of nodes is finite. The argument is in two halves. While the order is
  made, the marks record what a list of finished nodes would forget: an edge
  leads to a node visited before its source was listed (`EdgesMarked`), what is
  listed while a node is on the stack can be reached from it
  (`DescendantsReached`), and visits nest (`MarksNested`). From these the lemma
  `BackwardsStays` follows: an edge followed backwards out of the running
  component leads into a component settled before, or stays in it. While
  components are collected, settled nodes form whole components
  (`ComponentsWhole`) and the running one stays within its own
  (`ComponentSoFar`); when its work is done it is whole.

* `ImportProofs`: `Invariance` of `IInv`, and from it `TypeCorrect`,
  `SlotIsHeldByLiveImport`, `ComparisonIsNotStale`, `TemporaryFilesAreOwned`,
  `WorkIsCounted`, `RecordsAreTruthful`, `StoreIsClosedLast`,
  `NewestRecordsAreKept` and `RecordsAdvance` (an action property), for every
  number of uploads and contents and every length of the registry. Assumed: the
  set of uploads is finite, `None` is no upload, content or record, `Retention` is
  positive. Why it needs strengthening: a comparison stays true only because every
  stage from the reservation to the deferred calls owns the slot (`SlotOwned`), so
  that no two imports are in such a stage; what a record may say depends on the
  stage (`RecordStaged`), on the error and on the outcome (`OutcomeStaged`); the
  store may be closed when the counter is zero because the counter is the number of
  uploads in flight; and what the registry drops is the oldest completed import
  because its list is the end of the order of completion, in which each import
  occurs once (`RegistryFollows`). There is one lemma for each action.

* `QueryProofs`: `Invariance` of `IInv`, and from it `AnswersAreOfOneGeneration`, for
  any requests, databases and number of handlers: until a handler returns it has no
  answer, and what its stages have read is of the generation it holds
  (`PartsRead`); only its own return takes that generation away.
  `SearchesAreExact` (`SearchAnswerExact`) is for databases that are `Sound`: IDs are
  numbers, every node has an identity, parents are nodes and form no circle. That is what
  `Validate` has checked before `Load` fills a database (`AcceptedIsLoaded` for the
  parents, and `loadNodes` inserts the identity with each node), and TLC finds every database
  of `MCQuery` to be so. Assumed: `MaxSearchResults` is positive, `Null` is
  no number. Its invariant `Searches` says that the rows are those of the
  generation held, and the ancestors those of the rows, until the answer is put together
  from both (`Serves`). The rest is about the queries. The sort keys order the matches
  strictly and totally, because they end with the ID, and in the order that api.md
  describes in words of its own (`KeyIsOrder`); a finite set so ordered has one listing
  (`SortedExists`, `OrderedSorts`), in which the place of a match is the
  number of those before it (`PlaceInOrder`). The recursive query ends by
  itself, and the model, which cuts it at as many levels as there are nodes, loses
  no row: a way up ends (`LineExists`) and meets no node twice (`LineIsShort`), so that
  the rows of a node are exactly its way up (`LineageIs`).

* `LimitScanProofs`: `Invariance` of `IInv`, and from it `LimitsListed`
  (`EveryLimitListed`), `ScopeRootsAreEntries` (`ScopeRootIsEntry`) and
  `ScanAcceptsTraversal` (`ScanAccepts`), for every database that passes the
  checks of the import, every target, result of `Traverse` and batch size. Assumed:
  node IDs are numbers, the set of limits is finite, batches are not empty. A root
  once known is the top of its node's chain (`RootsKnown`); the walk that runs
  holds a chain of parents without a gap (`WalkGoesUp`), which is why it cannot
  come round and meet a node of its own; the batches read so far have given their
  rows (`LimitsRead`). That the sorted list is the one the property names is a count:
  in a list in order, the place of a candidate is the number of those before it.

* `SnapshotProofs`: `ValidateInvariant` of `IInv`, and from it `AcceptedIsLoaded`
  (`AcceptedLoads`: what `Validate` accepts keeps every constraint of the database
  and `Load` stores each line as it is), for any two files of any number of lines;
  and `UploadedIsLoaded`, the same where the files come out of an archive. Assumed:
  IDs in canonical form are IDs and decode to what they were made of, `None` is neither a kind of file nor a line. Each phase of
  `Validate` establishes what the next takes for granted, and the invariant keeps it for the
  later ones: the lines read are the nodes gathered, and no ID occurs twice
  (`NodesGathered`, `NoDuplicateMissed`); every reference looked at so far is to a
  node of the right type (`ReferencesChecked`); every node of a settled chain has a
  top at a finite distance (`ChainsSettled`, `Grounded`), so that parents form no
  circle; relations are gathered like nodes (`RelationsGathered`). Within
  `Snapshot`, nothing is gathered before the archive is extracted (`Fresh`).

  `SizesAreExact` (`SizesExact`), and `UploadedSizesAreExact` within `Snapshot`, are about
  what `Validate` measures, for all files. `maxSCCNodes` is Tarjan's algorithm, and
  `TarjanIInv` is its invariant: no edge leads out of the components that are complete
  (`CompletedClosed`); a running call reaches what lies above it on the stack, and from
  there a running call is reached (`CallsReach`, `StackReaches`); a link is the number of a
  node that is reached (`LinksReached`), and no edge looked at leads to a lower one than
  the link of the call it belongs to (`LinksBound`). When a link is a node's own number,
  what lies above it is therefore a whole component (`CompletesComponent`). The graph it
  runs on is not the one that a search expands: it lacks the edges from nodes that are not
  searched and has those that lead to them. Such a node is a component of its own
  in both graphs, so that the components are the same (`SameComponents`). A settled
  node's depth is its parent's, and one more if it is a network (`DepthsSettled`);
  grounded chains make that the number of networks above it (`DepthsAre`).

  `FirstIsReported` (`FirstProblemReported`), and `UploadedFirstIsReported` within
  `Snapshot`, say which of several problems is named, for all files. Assumed besides: the
  five maxima are natural numbers. `Faults` defines what is wrong with the files
  without the order of any check, from the whole files; the lemmas `NodeFaultsAre`,
  `ReferenceFaultsAre`, `RelationFaultsAre` and `HierarchyFaultsAre` put it line by line.
  The invariant `FirstFollows` says that the phases before have no fault (`PhasesBefore`)
  and the lines before none either (`LinesBefore`), so that a problem of the next line is
  the first; for that what the loop has gathered must say of the next line exactly what the
  definition says of it (`NextNodeFault`, `NextDuplicate`, `NextRelationFault`). The
  references are the hard part, since duplicates are found while the lines are read and
  reported among the parents, which are looked at in another loop: nodes are in the order
  of their lines (`NodesNumbered`), the duplicate that is kept is the first one
  (`FirstDuplicate`), and so the two orders merge in `CheckReference`. The circle that is
  reported is met by following one chain after another. The chain begins
  at the first node that is not settled (`ChainBegins`), what is settled leads
  to no circle (`SettledLeadsNowhere`), and from where the chain has met itself it is
  the whole circle that its first node leads to (`ChainCircle`): hence the circle
  is the one of the first line. The depth and the component compared with their maxima are
  the defined ones by the theorems above.

  `ArchiveVerdict` (`ArchiveVerdictExact`) is about the archive itself, for every upload,
  cut wherever it may be, and every value of the three limits. Assumed: the limits are numbers
  of bytes, and no file has the name of the missing one. `ArchiveFaults` says of each
  fault at which unit it shows, so the claim is that the reader stops at the first.
  The invariant `ArchiveIInv` places the reader: between two entries, within one or
  behind them all (`BetweenEntries`, `WithinEntry`, `BehindEntries`); the entries before are
  without fault and whole in their files. Within an entry it says what the three
  variables of `copyValidatedNDJSON` mean for the body read so far (`Scanned`,
  `SoFarSound`): the line that runs has begun behind the last line feed, no line was too
  long, and what is complete was text. The faults of an upload are then all at or behind
  the next unit (`FaultsFrom`, `LineFaultsBehind`, `EndFaultsBehind`), and
  there is one lemma for each action. A gzip stream that ends in good order in front of
  an entry has sent only the entries before it, as an archive without end marker does;
  `ArchiveVerdictExact` therefore speaks of the entries sent, and the family `Surplus` of
  `MCSnapshot` has such uploads.

* `PathProofs`, of `PathPrepare`: `Invariance` of `IInv`, and from it `LeastPathsFound`
  (`PathsAreLeast`), `RoutesClosed` (`RoutesGoRound`) and `BoundariesExact`
  (`UncoveredExact`), for every graph that `Graph` admits, of any number of nodes and edges.
  Assumed: nodes are a finite set of positive numbers, `None` is no path. The properties
  speak only of the end of each search; the invariant says what its heap means
  (`SearchRuns`): the best path to a node waits or was extended by every edge, and each
  path that waits passed only nodes that had a path no worse, so that one which would
  meet a node twice is never better. From this `SearchFinds` follows by induction on
  the length of a path. It needs that the order is kept by a common next edge
  (`ExtensionKeepsOrder`: if p followed by e is less than q followed by e, then p is less than
  q), which is not obvious of an order that compares two counts, the nodes and then
  the relation IDs: it holds because keys with equal counts have as many relation
  IDs (`RelationIDsType`), and because a path that ends in a node met it only there. A way
  round stays within its cycle and is back at its start only when it has met every node
  (`RoutesWalk`); a next segment always exists, because a path between two nodes of a
  component does not leave it (`PathStaysWithin`), and the hops come to all that can be
  reached within it (`BestPathsGo`). `SimplePathsAre` and `ReachedAre`
  say that the recursive definitions of paths and of reachability find exactly
  the paths and their ends.

  `CountsAdd` and from it `AlternativesAreCounted` (`AlternativesCounted`) are about the
  counts, for every value of `MaxInt` but 0. The invariant `CountsSum` says which paths
  stand behind a sum: those that come to the component from one that was taken
  (`Arrivals`). A component is taken when nothing leads to it from the rest, so all its
  paths have arrived (`ArrivedAre`); each goes on by each edge to new paths, which have
  not been counted before (`ArrivalsGrow`), as many as the product that is added
  (`LengthenedCount`). Keeping every sum at `MaxInt` loses nothing but what is above it
  (`CappedSum`). No arrival has more edges than components were taken, so that the
  enumeration of the property, which stops at the number of nodes, has them all.

* `PathProofs`, of `PathTree`: `TreeInvariance` of `TreeIInv`, and from it
  `ConnectionsAreKept` (`ConnectionsKept`), `ReferencesAreResolved`
  (`ReferencesResolve`) and `PathsAreUnbroken` (`PathsUnbroken`), for every graph and
  every value of `MaxHidden`. The properties speak of the finished tree; the invariant
  follows it from the first path on. What is in the tree is closed under beginnings
  (`OccurrencesWhole`), so that it is made of whole paths. A reference is a leaf, and it
  leads to a path of its own node: the selected one, unless that is a leaf and another
  occurrence is not (`TargetsChosen`, `ReferencesEnd`); once the edges are closed, each
  stands in the tree behind the target of its source. While compression goes on, a
  hidden node is one that `canHide` allows, some node below it is shown, and none that
  can still be hidden is longer (`SectionsWhole`): a node that has lost its own entry is
  never needed as a child again. Each shown node tells of exactly the section above
  it, with its count, its IDs up to `MaxHidden` and its mark (`Section`); without this a
  step would say nothing of what the earlier ones had merged. That no target of a
  reference is hidden (`TargetsStay`) rests on the order of paths: where the only edge
  to a node is confirmed, its least path is the least path of the node before,
  followed by that edge (`LeastGoesOn`), so that the edge is used where references to
  that node lead and needs no reference of its own.
  Assumed: as for `PathPrepare`, and that `MaxHidden` is a number.

Induction over data is needed in places: that a row follows from its lines, that a chain of
parents ends, that every path is beaten. Where it is, the property is put as a set of numbers, and the
lemma `SetInduction` says that a set which has 0 and is closed under the
successor has every natural number; it follows from the well-foundedness of `<`.

Only model-checked is liveness, which is out of the prover's reach: that retired
generations get closed, that imports and `Close` come to an end, that searches
end. Every invariant and action property that a passing run checks is also a theorem.

## 6. Not modelled

SQL, JSON and HTTP are not modelled byte by byte: a query returns its rows or an
error, a line is JSON that fits its schema or is not, a request arrives whole.
Left out, within the parts that are modelled:

* of `internal/snapshot`: the wording of the schema's errors, how ISO 8601
  durations and zone names are read (a line's `form` says whether they fit the schema and
  can be read), and the hash of the fingerprint (equal content is equal content);
* of `internal/target`: databases without the table of public identities;
* of `internal/app`: the mapping of results to JSON (`analysis.go`), problem
  documents, and the log's fields;
* of `internal/pathtree`: the errors for input that `Traverse` never returns, the
  numbers of tree nodes and the marks of a cycle's relations;
* temporary files of a killed process: they stay in the system's directory, no
  start removes them, and no property speaks of them.

`cmd/perf-measure`, `cmd/openapi-gen` and the generators for tests are tools
outside the server. `internal/limits`, `internal/observability` and the schema are
constants and helpers without behaviour over time.

## 7. Plan

Done: the store, imports, traversal and cycles with their theorems; path tree,
limits, archive, content checks, target search and the two query handlers with
their runs; theorems about the imports, about one generation per answer, about the
limits, about what the import accepts, about the first fault of an archive, about
the least paths and their counts, about the tree, and about the first fault and the
sizes of the contents. Open: the parts of `internal/app` and `internal/snapshot` named
in section 6, and the JSON of an analysis built from its stages.
