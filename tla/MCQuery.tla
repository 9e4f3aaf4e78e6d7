-------------------------------- MODULE MCQuery --------------------------------
(* Query in three families.  In the first, a request of each handler meets imports and
   the shutdown, on two snapshots that differ in everything.  In the other two,
   a single search reads all small databases, by query and by local ID; it has
   acquired its generation and the service has shut down since. *)
EXTENDS Query

CONSTANTS o1, o2, s1, s2

Ids == 1..3
MCForm == <<1, 2, 1>>   \* the third text has the normal form of the first

Legacy == [id \in Ids |-> LegacyPublic(id)]
Named(n) == [id \in Ids |-> [namespace |-> n, localId |-> 4 - id]]

Database(type, parent, name, path, identity) ==
  [type |-> type, parent |-> parent, name |-> name, path |-> path, identity |-> identity]

Chain == <<Null, 1, 2>>
Apart == <<Null, Null, Null>>
Networks == <<"job_network", "job_network", "job">>

First == Database(Networks, Chain, <<1, 1, 1>>, <<1, 2, 3>>, Legacy)
Second ==
  Database(<<"management_unit", "job_network">>, <<Null, 1>>, <<3, 1>>, <<Null, Null>>,
           <<[namespace |-> 1, localId |-> 2], [namespace |-> 1, localId |-> 3]>>)

Targets(query, jobId, namespace, asked) ==
  [kind |-> "targets", query |-> query, jobId |-> jobId, namespace |-> namespace, types |-> asked]
Analysis(target, faulty) == [kind |-> "analysis", target |-> target, faulty |-> faulty]

Requests ==
  s1 :> {Targets(1, Null, Null, {}), Targets(Null, 3, 1, {"job_network"}), Targets(Null, Empty, Null, {})} @@
  s2 :> {Analysis(1, FALSE), Analysis(3, FALSE), Analysis(1, TRUE)}

Concurrent ==
  /\ database = (o1 :> First @@ o2 :> Second)
  /\ accepting = TRUE
  /\ reservation = None
  /\ served = None
  /\ Init

(* s1 searches the only database that is left. *)
Alone(db, request) ==
  /\ database = (o1 :> db @@ o2 :> db)
  /\ accepting = FALSE
  /\ reservation = None
  /\ served = None
  /\ reading = (s1 :> o1 @@ s2 :> None)
  /\ input = (s1 :> request @@ s2 :> NoInput)
  /\ pc = (s1 :> "candidates" @@ s2 :> "returned")
  /\ expired = [s \in Search |-> FALSE]
  /\ rows = [s \in Search |-> <<>>]
  /\ details = [s \in Search |-> <<>>]
  /\ parts = [s \in Search |-> <<>>]
  /\ answer = [s \in Search |-> NoAnswer]

Fits(type, parent) == \A id \in Ids : parent[id] # Null => type[parent[id]] = "job_network"

ByQuery ==
  \E type \in [Ids -> TargetTypes], parent \in {Chain, Apart}, name \in [Ids -> {1, 2}],
     path \in [Ids -> {Null, 1, 2}], query \in Ids, asked \in {{}, {"job"}} :
    /\ Fits(type, parent) = TRUE
    /\ Alone(Database(type, parent, name, path, Legacy), Targets(query, Null, Null, asked))

ByLocalID ==
  \E type \in [Ids -> TargetTypes],
     identity \in {f \in [Ids -> [namespace : {1, 2}, localId : {1, 2}]] : IsInjective(f)} \cup {Legacy, Named(1)},
     jobId \in {1, 2}, namespace \in {Null, Default, 1}, asked \in {{}, {"job_network"}} :
    Alone(Database(type, Apart, <<1, 1, 1>>, <<1, 1, 1>>, identity), Targets(Null, jobId, namespace, asked))

MCInit == Concurrent \/ ByQuery \/ ByLocalID
MCNext == NextOn(Requests)
MCSpec == MCInit /\ [][MCNext]_vars /\ Fairness
===============================================================================
