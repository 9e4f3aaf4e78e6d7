-------------------------------- MODULE Snapshot -------------------------------
(***************************************************************************)
(* internal/snapshot as the importer uses it: Receive and Extract, then    *)
(* Validate and Load on the files that were extracted.                     *)
(***************************************************************************)
EXTENDS Validate

CONSTANTS MaxCompressedArchiveBytes, MaxExtractedArchiveBytes, MaxNDJSONLineBytes

(* Maxima of bytes, and no file whose name is the missing one. *)
ASSUME SizeAssumption ==
  /\ MaxCompressedArchiveBytes \in Nat
  /\ MaxExtractedArchiveBytes \in Nat
  /\ MaxNDJSONLineBytes \in Nat
ASSUME NameAssumption == None \notin {"manifest.json", "nodes.ndjson", "relations.ndjson"}

VARIABLES
  upload, received, read, entry, unit, lineNumber, lineLength, lineValid, names, copied, nonZero

Archive == INSTANCE Archive WITH seen <- names

reading ==
  <<upload, received, read, entry, unit, lineNumber, lineLength, lineValid, names, copied, nonZero>>
snapshotVars == <<vars, reading>>

SnapshotNext ==
  \/ /\ Archive!ArchiveNext
     /\ UNCHANGED <<files, line, gathered, hierarchy, graph, tarjan, tables>>
  \/ Next /\ UNCHANGED reading

(* An upload, and the files that come out of it: what is in them is open. *)
SnapshotInit ==
  /\ upload \in Archive!Uploads
  /\ Archive!WellFormed
  /\ Archive!BeginReading
  /\ manifest \in [valid : BOOLEAN, nodeCount : Nat, relationCount : Nat]
  /\ nodeLines \in Seq(NodeLines)
  /\ relationLines \in Seq(RelationLines)
  /\ Begin("receive")

SnapshotSpec == SnapshotInit /\ [][SnapshotNext]_snapshotVars

--------------------------------------------------------------------------------
(* "Not the size that tar declares but the bytes read are bounded, so that neither
   a false header nor data behind the end gets past the limit" (archive.go:198):
   an upload without a fault is extracted whole, every byte of every file, also
   one that is exactly as large as is allowed; of one with faults the first is
   reported, with its file and line, and nothing is left of it. *)
ArchiveVerdictExact ==
  LET sent == {i \in DOMAIN upload.entries : Archive!UpTo(i) <= upload.delivered}
      name(i) == upload.entries[i].name
  IN  /\ pc = "manifest" =>
           /\ Archive!ArchiveFaults = {}
           /\ DOMAIN copied = {name(i) : i \in sent}
           /\ \A i \in sent : copied[name(i)] = Len(upload.entries[i].body)
      /\ pc = "unreadable" =>
           /\ copied = <<>>
           /\ \E f \in Archive!ArchiveFaults :
                /\ <<f.kind, f.file, f.line>> = <<error.kind, error.file, error.line>>
                /\ \A g \in Archive!ArchiveFaults : f.at <= g.at
===============================================================================
