-------------------------------- MODULE Archive --------------------------------
(***************************************************************************)
(* internal/snapshot/archive.go: receive, which stores the body of an      *)
(* upload, and extract, which reads the tar.gz unit by unit.               *)
(*                                                                         *)
(* A unit is a header, a byte of an entry, the end marker or a byte behind *)
(* it.  Of a byte of an entry the reader tells line feeds and text that is *)
(* not UTF-8; what the manifest holds it does not look at.                 *)
(***************************************************************************)
EXTENDS Naturals, Sequences, FiniteSets

CONSTANTS
  MaxCompressedArchiveBytes, MaxExtractedArchiveBytes, MaxNDJSONLineBytes,
  None

VARIABLES
  upload,    \* what is sent: units compressed, whether it is gzip, and what it expands to
  pc, error, \* as in Validate, which goes on at "manifest"
  received,  \* receive: units written to the archive
  read,      \* maximumReader: read
  entry,     \* the number of the next entry, or of the one that is extracted
  unit,      \* units taken of it, or of what follows the entries
  lineNumber, lineLength, lineValid,  \* copyValidatedNDJSON
  seen,      \* the names extracted
  copied,    \* units written to the file of each name; <<>> when there is no directory
  nonZero    \* tarPaddingWriter

reader == <<read, entry, unit, lineNumber, lineLength, lineValid, seen, copied, nonZero>>
archiveVars == <<upload, received, reader>>

Required == <<"manifest.json", "nodes.ndjson", "relations.ndjson">>
Names == {Required[i] : i \in DOMAIN Required}

entries == upload.entries
tail == upload.tail

(* How many units there are up to and with entry i; gzip delivers a part of all. *)
UpTo(i) == LET sum[k \in 0..Len(entries)] == IF k = 0 THEN 0 ELSE sum[k - 1] + 1 + Len(entries[k].body)
           IN  sum[i]
Total == UpTo(Len(entries)) + Len(tail)

(* Uploads that a client can send. *)
Uploads ==
  [compressed : Nat, gzip : BOOLEAN, delivered : Nat, sound : BOOLEAN,
   entries : Seq([name : STRING, regular : BOOLEAN, body : Seq({"text", "invalid", "newline"})]),
   tail : Seq({"end", "zero", "junk"})]

(* Left out: a broken end right behind the last byte of an entry, which gzip may
   report with that byte or after it (tar fills every entry up to a block). *)
WellFormed ==
  /\ upload.delivered <= Total
  /\ ~upload.sound => upload.delivered \notin {UpTo(i) : i \in DOMAIN entries}

BeginReading ==
  /\ received = 0
  /\ read = 0
  /\ entry = 1
  /\ unit = 0
  /\ lineNumber = 1
  /\ lineLength = 0
  /\ lineValid = TRUE
  /\ seen = {}
  /\ copied = <<>>
  /\ nonZero = FALSE

(* The deferred removal of the archive or of the directory is part of it. *)
RejectArchive(kind, file, l) ==
  /\ pc' = "unreadable"
  /\ error' = [phase |-> "archive", kind |-> kind, file |-> file, line |-> l]
  /\ copied' = <<>>

Continues(place) == pc' = place /\ UNCHANGED error

--------------------------------------------------------------------------------
(* receive: one unit more than is allowed is read, to tell too much from enough. *)

Receive ==
  /\ pc = "receive"
  /\ received <= MaxCompressedArchiveBytes
  /\ received < upload.compressed
  /\ received' = received + 1
  /\ UNCHANGED <<upload, pc, error, reader>>

Received ==
  /\ pc = "receive"
  /\ received = upload.compressed \/ received > MaxCompressedArchiveBytes
  /\ IF received > MaxCompressedArchiveBytes
       THEN RejectArchive("compressed_size_limit", None, 0)
       ELSE Continues("open") /\ UNCHANGED copied
  /\ UNCHANGED <<upload, received, read, entry, unit, lineNumber, lineLength, lineValid, seen, nonZero>>

--------------------------------------------------------------------------------
(* extract. *)

Open ==
  /\ pc = "open"
  /\ IF upload.gzip
       THEN Continues("header") /\ copied' = [name \in Names |-> 0]
       ELSE RejectArchive("invalid_archive", None, 0)
  /\ UNCHANGED <<upload, received, read, entry, unit, lineNumber, lineLength, lineValid, seen, nonZero>>

AtEnd == read = upload.delivered

\* Bug: the largest archive that is allowed is taken for one that is too large.
ExceedsWithoutProbe == read >= MaxExtractedArchiveBytes

(* maximumReader at its maximum reads one byte more to see whether there is one. *)
Exceeds == read >= MaxExtractedArchiveBytes /\ ~AtEnd

UnitThere == ~AtEnd /\ ~Exceeds

(* archiveReadErrorForFile. *)
ReadError == IF Exceeds THEN "extracted_size_limit" ELSE "invalid_archive"

(* tarReader.Next: an error, or nothing behind the last entry. *)
HeaderMissing ==
  /\ pc = "header"
  /\ ~UnitThere
  /\ IF AtEnd /\ ~Exceeds /\ upload.sound
       THEN Continues("padding") /\ UNCHANGED copied
       ELSE RejectArchive(ReadError, None, 0)
  /\ UNCHANGED <<upload, received, read, entry, unit, lineNumber, lineLength, lineValid, seen, nonZero>>

InvalidHeader(header) == ~header.regular \/ header.name \notin Names \ seen

ReadHeader ==
  /\ pc = "header"
  /\ UnitThere
  /\ entry <= Len(entries)
  /\ read' = read + 1
  /\ IF InvalidHeader(entries[entry])
       THEN RejectArchive("invalid_entry", entries[entry].name, 0)
       ELSE Continues("entry") /\ UNCHANGED copied
  /\ UNCHANGED <<upload, received, entry, unit, lineNumber, lineLength, lineValid, seen, nonZero>>

(* The end marker, or what is no header. *)
ReadEnd ==
  /\ pc = "header"
  /\ UnitThere
  /\ entry > Len(entries)
  /\ read' = read + 1
  /\ unit' = 1
  /\ IF tail[1] = "end"
       THEN Continues("padding") /\ UNCHANGED copied
       ELSE RejectArchive("invalid_archive", None, 0)
  /\ UNCHANGED <<upload, received, entry, lineNumber, lineLength, lineValid, seen, nonZero>>

Name == entries[entry].name
Contents == entries[entry].body
IsNDJSON == Name # "manifest.json"

(* readLine, copyValidatedNDJSON and io.Copy, at the next byte of an entry. *)
CopyUnit ==
  /\ pc = "entry"
  /\ unit < Len(Contents)
  /\ UnitThere
  /\ LET byte == Contents[unit + 1]
         ends == byte = "newline"
         long == lineLength + 1 > MaxNDJSONLineBytes
     IN  /\ read' = read + 1
         /\ unit' = unit + 1
         /\ IF IsNDJSON /\ ~ends /\ long
              THEN RejectArchive("ndjson_line_size_limit", Name, lineNumber)
            ELSE IF IsNDJSON /\ ends /\ ~lineValid
              THEN RejectArchive("invalid_utf8", Name, lineNumber)
            ELSE /\ copied' = [copied EXCEPT ![Name] = @ + 1]
                 /\ UNCHANGED <<pc, error>>
         /\ lineNumber' = IF ends THEN lineNumber + 1 ELSE lineNumber
         /\ lineLength' = IF ends THEN 0 ELSE lineLength + 1
         /\ lineValid' = (ends \/ (lineValid /\ byte # "invalid"))
  /\ UNCHANGED <<upload, received, entry, seen, nonZero>>

(* Too large, broken, or shorter than the header has said. *)
EntryBreaksOff ==
  /\ pc = "entry"
  /\ unit < Len(Contents)
  /\ ~UnitThere
  /\ RejectArchive(ReadError, Name, 0)
  /\ UNCHANGED <<upload, received, read, entry, unit, lineNumber, lineLength, lineValid, seen, nonZero>>

(* The last line of an entry may lack its line feed. *)
EntryEnds ==
  /\ pc = "entry"
  /\ unit = Len(Contents)
  /\ IF IsNDJSON /\ ~lineValid
       THEN RejectArchive("invalid_utf8", Name, lineNumber) /\ UNCHANGED seen
       ELSE Continues("header") /\ seen' = seen \cup {Name} /\ UNCHANGED copied
  /\ entry' = entry + 1
  /\ unit' = 0
  /\ lineNumber' = 1
  /\ lineLength' = 0
  /\ lineValid' = TRUE
  /\ UNCHANGED <<upload, received, read, nonZero>>

(* The rest is read to its end, for its size and the checksum of gzip. *)
ReadPadding ==
  /\ pc = "padding"
  /\ UnitThere
  /\ read' = read + 1
  /\ unit' = unit + 1
  /\ nonZero' = (nonZero \/ tail[unit + 1] # "zero")
  /\ UNCHANGED <<upload, pc, error, received, entry, lineNumber, lineLength, lineValid, seen, copied>>

MissingEntries == {i \in DOMAIN Required : Required[i] \notin seen}

PaddingEnds ==
  /\ pc = "padding"
  /\ ~UnitThere
  /\ IF Exceeds \/ ~upload.sound
       THEN RejectArchive(ReadError, None, 0)
     ELSE IF nonZero
       THEN RejectArchive("invalid_archive", None, 0)
     ELSE IF MissingEntries # {}
       THEN RejectArchive("missing_entry",
                          Required[CHOOSE i \in MissingEntries : \A j \in MissingEntries : i <= j], 0)
     ELSE Continues("manifest") /\ UNCHANGED copied
  /\ UNCHANGED <<upload, received, read, entry, unit, lineNumber, lineLength, lineValid, seen, nonZero>>

(* The context is done, or a file cannot be written. *)
ReadFails ==
  /\ pc \in {"receive", "open", "header", "entry", "padding"}
  /\ pc' = "failed"
  /\ copied' = <<>>
  /\ UNCHANGED <<upload, error, received, read, entry, unit, lineNumber, lineLength, lineValid, seen, nonZero>>

ArchiveNext ==
  \/ Receive
  \/ Received
  \/ Open
  \/ HeaderMissing
  \/ ReadHeader
  \/ ReadEnd
  \/ CopyUnit
  \/ EntryBreaksOff
  \/ EntryEnds
  \/ ReadPadding
  \/ PaddingEnds
  \/ ReadFails

--------------------------------------------------------------------------------
(* What is wrong with an upload, each fault at the unit that shows it. *)

At(offset, kind, file, l) == [at |-> offset, kind |-> kind, file |-> file, line |-> l]

(* The lines of a body, as the sets of the places that their bytes have. *)
NewlinesBefore(body, k) == Cardinality({j \in 1..(k - 1) : body[j] = "newline"})
LineOf(body, n) == {k \in DOMAIN body : NewlinesBefore(body, k) = n - 1}
TextOf(body, n) == {k \in LineOf(body, n) : body[k] # "newline"}
Last(places) == CHOOSE k \in places : \A j \in places : j <= k

(* The byte by which a line is too long; 0 if it is not. *)
TooMuch(body, n) ==
  LET over == {k \in TextOf(body, n) : Cardinality({j \in TextOf(body, n) : j <= k}) = MaxNDJSONLineBytes + 1}
  IN  IF over = {} THEN 0 ELSE CHOOSE k \in over : TRUE

LineFaults(i) ==
  LET body == entries[i].body
      numbers == 1..(Len(body) + 1)
      start == UpTo(i) - Len(body)
      long == {n \in numbers : TooMuch(body, n) # 0}
      broken == {n \in numbers \ long : \E k \in LineOf(body, n) : body[k] = "invalid"}
  IN  IF entries[i].name = "manifest.json" THEN {}
      ELSE {At(start + TooMuch(body, n), "ndjson_line_size_limit", entries[i].name, n) : n \in long}
             \cup {At(start + Last(LineOf(body, n)), "invalid_utf8", entries[i].name, n) : n \in broken}

HeaderFaults ==
  {At(UpTo(i) - Len(entries[i].body), "invalid_entry", entries[i].name, 0) :
     i \in {k \in DOMAIN entries :
              \/ ~entries[k].regular
              \/ entries[k].name \notin Names
              \/ \E j \in 1..(k - 1) : entries[j].name = entries[k].name}}

(* The name of the entry that a unit is a byte of. *)
FileAt(offset) ==
  LET within == {i \in DOMAIN entries : UpTo(i) - Len(entries[i].body) < offset /\ offset <= UpTo(i)}
  IN  IF within = {} THEN None ELSE entries[CHOOSE i \in within : TRUE].name

(* What is read, and the faults that are seen behind it. *)
Readable == IF upload.delivered <= MaxExtractedArchiveBytes THEN upload.delivered
            ELSE MaxExtractedArchiveBytes

FaultIf(condition, fault) == IF condition THEN {fault} ELSE {}

EndFaults ==
  LET after == Readable + 1
      present == {entries[i].name : i \in {k \in DOMAIN entries : UpTo(k) <= Readable}}
      missing == {i \in DOMAIN Required : Required[i] \notin present}
      large == Readable < upload.delivered
  IN  FaultIf(large, At(after, "extracted_size_limit", FileAt(after), 0))
        \cup FaultIf(~large /\ (~upload.sound \/ FileAt(after) # None),
                     At(after, "invalid_archive", FileAt(after), 0))
        \cup FaultIf(\E k \in 2..Len(tail) : tail[k] # "zero" /\ UpTo(Len(entries)) + k <= Readable,
                     At(after + 1, "invalid_archive", None, 0))
        \cup FaultIf(missing # {},
                     At(after + 2, "missing_entry", Required[CHOOSE i \in missing : \A j \in missing : i <= j], 0))

NoHeader ==
  FaultIf(tail # <<>> /\ tail[1] # "end", At(UpTo(Len(entries)) + 1, "invalid_archive", None, 0))

ArchiveFaults ==
  IF upload.compressed > MaxCompressedArchiveBytes THEN {At(0, "compressed_size_limit", None, 0)}
  ELSE IF ~upload.gzip THEN {At(0, "invalid_archive", None, 0)}
  ELSE EndFaults
         \cup {f \in HeaderFaults \cup NoHeader \cup UNION {LineFaults(i) : i \in DOMAIN entries} : f.at <= Readable}
===============================================================================
