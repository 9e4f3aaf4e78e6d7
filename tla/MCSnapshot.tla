------------------------------ MODULE MCSnapshot ------------------------------
(* Snapshot on small uploads and on small files.  Uploads of four families are
   received and extracted: of any size, with any entries, with any bytes, cut
   at any place, and with an entry too many, cut before it or not.  Extracted files are of six families: a manifest that is
   wrong or announces other counts, two node lines with any fault, three lines of
   jobs and networks with any parents, chains of networks, two relation lines with
   any fault, and sound files whose relations vary. *)
EXTENDS Snapshot

CONSTANTS n1, n2, n3, n4, x, y, l1, l2, MaxRelationLines, MaxBody

Keys == {<<x, y>>, <<y, y>>, <<"default", y>>}
MCCanonical == (<<x, y>> :> n3) @@ (<<y, y>> :> n4)
MCDecode == (n2 :> <<x, y>>) @@ (n3 :> <<x, y>>) @@ (n4 :> <<y, y>>)

Line(id, type, parent) ==
  [id |-> id, explicit |-> None, type |-> type, parent |-> parent, limits |-> <<>>, form |-> "ok"]
Relation(e) == [from |-> e[1], to |-> e[2], body |-> x, form |-> "ok"]

Counted(nodes, relations) ==
  manifest = [valid |-> TRUE, nodeCount |-> nodes, relationCount |-> relations]

Manifests ==
  /\ manifest \in [valid : BOOLEAN, nodeCount : 0..6, relationCount : 0..6]
  /\ nodeLines = <<Line(n1, "job", None), Line(n2, "file", None)>>
  /\ relationLines = <<Relation(<<n1, n2>>)>>

FaultyLines ==
  LET Few == {Line(id, "job_network", None) : id \in {n1, n2, n3}}
      Ids == {n1, n3, n4}
  IN  /\ Counted(2, 0)
      /\ nodeLines \in
           {<<[f EXCEPT !.explicit = e], s>> :
              f \in Few, e \in {None, <<x, y>>},
              s \in [id : Ids, explicit : Keys \cup {None},
                     type : {"job", "file", "management_unit", "other"}, parent : Ids \cup {n2, None},
                     limits : {<<>>, <<l1>>, <<l1, l1>>}, form : LineForms]}
      /\ relationLines = <<>>

JobLine(id, parents) ==
  [id : {id}, explicit : {None}, type : {"job"}, parent : parents, limits : {<<>>, <<l1>>}, form : {"ok"}]
NetworkLine(id, parents) ==
  [id : {id}, explicit : {None}, type : {"job_network"}, parent : parents, limits : {<<>>}, form : {"ok"}]
AnyLine(id) == JobLine(id, {None, n1, n2}) \cup NetworkLine(id, {None, n1, n2, n3})

Hierarchies ==
  /\ Counted(3, 0)
  /\ nodeLines \in UNION {AnyLine(n1) \X AnyLine(i[1]) \X AnyLine(i[2]) :
                             i \in {<<n1, n1>>, <<n1, n2>>, <<n2, n1>>, <<n2, n2>>, <<n2, n3>>}}
  /\ relationLines = <<>>

Larger ==
  /\ Counted(4, 0)
  /\ nodeLines \in
       {SubSeq(<<Line(a, "job_network", p), Line(b, "job_network", a), Line(n3, "job_network", b),
          [Line(n4, "job", n3) EXCEPT !.limits = l], Line(n4, "job", None)>>, 1, k) :
          k \in {4, 5}, a \in {n1, n2}, b \in {n1, n2}, p \in {None, n1, n2, n3},
          l \in {<<>>, <<l1, l2>>, <<l1, l2, l1>>}}
  /\ relationLines = <<>>

FaultyRelations ==
  /\ Counted(2, 2)
  /\ nodeLines = <<Line(n1, "job", None), Line(n2, "file", None)>>
  /\ relationLines \in
       LET AnyBody == [from : {n1, n2}, to : {n1, n2, n3}, body : {x, y}, form : {"ok", "json", "schema", "evidence"}]
       IN  AnyBody \X {r \in AnyBody : r.from = n1}

Sound ==
  {<<Line(n1, "job", None), Line(n2, "file", None), Line(n3, "job_status", None), Line(n4, "external_event", None)>>,
   <<Line(n3, "job", n2), Line(n2, "job_network", n1), Line(n1, "job_network", None), Line(n4, "file_pattern", None)>>,
   <<Line(n1, "management_unit", None), Line(n2, "job_network", n1), Line(n3, "job", n2), Line(n4, "job", n2)>>}

Graphs ==
  /\ nodeLines \in Sound
  /\ relationLines \in
       {[i \in DOMAIN s |-> Relation(s[i])] :
          s \in {SetToSeq(r) : r \in UNION {kSubset(k, {n1, n2, n3, n4} \X {n1, n2, n3, n4}) : k \in 0..MaxRelationLines}}}
  /\ Counted(4, Len(relationLines))

Entry(name, body) == [name |-> name, regular |-> TRUE, body |-> body]
Files(nodes, relations) ==
  <<Entry("manifest.json", <<"invalid">>), Entry("nodes.ndjson", nodes), Entry("relations.ndjson", relations)>>
Upload(stream, end, n, whole) ==
  [compressed |-> 1, gzip |-> TRUE, entries |-> stream, tail |-> end, delivered |-> n, sound |-> whole]
Plain == Upload(Files(<<>>, <<>>), <<"end">>, 5, TRUE)

Sizes == upload \in {[Plain EXCEPT !.compressed = c, !.gzip = g] : c \in 0..4, g \in BOOLEAN}

Entries ==
  \E stream \in SeqOf([name : Archive!Names \cup {"other"}, regular : BOOLEAN, body : {<<>>, <<"text">>}], 2),
     last \in Archive!Names :
    upload = Upload(Append(stream, Entry(last, <<>>)), <<"end">>,
                    Len(stream) + 2 + FoldLeft(LAMBDA n, e : n + Len(e.body), 0, stream), TRUE)

Bytes ==
  \E nodes \in SeqOf({"text", "invalid", "newline"}, MaxBody), relations \in {<<>>, <<"invalid">>, <<"text", "newline">>},
     end \in {<<>>, <<"end">>, <<"end", "zero">>, <<"end", "junk", "zero">>, <<"junk">>},
     n \in 0..(MaxBody + 9), whole \in BOOLEAN :
    /\ n <= Len(nodes) + Len(relations) + 4 + Len(end)
    /\ upload = Upload(Files(nodes, relations), end, n, whole)

Surplus ==
  \E n \in 0..7, whole \in BOOLEAN :
    upload = Upload(Append(Files(<<>>, <<>>), Entry("nodes.ndjson", <<"text">>)), <<"end">>, n, whole)

Reading ==
  /\ Counted(1, 0)
  /\ nodeLines = <<Line(n1, "job", None)>>
  /\ relationLines = <<>>
  /\ Sizes \/ Entries \/ Bytes \/ Surplus
  /\ Archive!WellFormed = TRUE
  /\ Archive!BeginReading
  /\ Begin("receive")

Extracted ==
  /\ upload = Plain
  /\ received = 1
  /\ read = 5
  /\ entry = 4
  /\ unit = 1
  /\ lineNumber = 1
  /\ lineLength = 0
  /\ lineValid = TRUE
  /\ names = Archive!Names
  /\ copied = [name \in names |-> IF name = "manifest.json" THEN 1 ELSE 0]
  /\ nonZero = FALSE

Validating ==
  /\ Manifests \/ FaultyLines \/ Hierarchies \/ Larger \/ FaultyRelations \/ Graphs
  /\ Extracted
  /\ Begin("manifest")

MCInit == Reading \/ Validating
MCSpec == MCInit /\ [][SnapshotNext]_snapshotVars
===============================================================================
