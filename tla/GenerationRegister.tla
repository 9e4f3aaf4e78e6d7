-------------------------- MODULE GenerationRegister --------------------------
(***************************************************************************)
(* What the snapshot store promises to its callers, without files, handles *)
(* or reference counts (docs/design/storage.md, "generation switch"):      *)
(*   - one import at a time holds the reservation;                         *)
(*   - a search is answered from the one snapshot that was served when the *)
(*     search began, until the search ends, whatever is published later;   *)
(*   - only the holder of the reservation can publish, and giving the      *)
(*     reservation up changes nothing a search can see;                    *)
(*   - after a shutdown nothing is reserved, published or begun.           *)
(* Store and ImportService are both shown to implement this module.        *)
(***************************************************************************)
CONSTANTS
  Op,      \* import operations; an operation also names the snapshot it builds
  Search,  \* search requests
  None     \* "no operation"

VARIABLES
  accepting,    \* the service admits new work
  reservation,  \* the operation that may publish, or None
  served,       \* the snapshot that new searches use, or None
  reading       \* per search: the snapshot it is answered from, or None

regVars == <<accepting, reservation, served, reading>>

RegTypeOK ==
  /\ accepting \in BOOLEAN
  /\ reservation \in Op \cup {None}
  /\ served \in Op \cup {None}
  /\ reading \in [Search -> Op \cup {None}]

RegInit ==
  /\ accepting = FALSE
  /\ reservation = None
  /\ served = None
  /\ reading = [s \in Search |-> None]

Reserve(o) ==
  /\ accepting
  /\ reservation = None
  /\ reservation' = o
  /\ UNCHANGED <<accepting, served, reading>>

Publish(o) ==
  /\ accepting
  /\ reservation = o
  /\ served' = o
  /\ reservation' = None
  /\ UNCHANGED <<accepting, reading>>

Discard(o) ==
  /\ reservation = o
  /\ reservation' = None
  /\ UNCHANGED <<accepting, served, reading>>

BeginSearch(s) ==
  /\ accepting
  /\ served # None
  /\ reading[s] = None
  /\ reading' = [reading EXCEPT ![s] = served]
  /\ UNCHANGED <<accepting, reservation, served>>

EndSearch(s) ==
  /\ reading[s] # None
  /\ reading' = [reading EXCEPT ![s] = None]
  /\ UNCHANGED <<accepting, reservation, served>>

(* An orderly shutdown: searches that have begun keep their snapshot. *)
Shutdown ==
  /\ accepting
  /\ accepting' = FALSE
  /\ reservation' = None
  /\ served' = None
  /\ UNCHANGED reading

(* The process ends, orderly or not, with everything it held. *)
Halt ==
  /\ accepting' = FALSE
  /\ reservation' = None
  /\ served' = None
  /\ reading' = [s \in Search |-> None]

(* A process starts empty: nothing is served across a restart. *)
Start ==
  /\ ~accepting
  /\ reading = [s \in Search |-> None]
  /\ accepting' = TRUE
  /\ UNCHANGED <<reservation, served, reading>>

RegNext ==
  \/ \E o \in Op : Reserve(o) \/ Publish(o) \/ Discard(o)
  \/ \E s \in Search : BeginSearch(s) \/ EndSearch(s)
  \/ Shutdown
  \/ Halt
  \/ Start

RegSpec == RegInit /\ [][RegNext]_regVars
===============================================================================
