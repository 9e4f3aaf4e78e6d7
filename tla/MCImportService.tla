---------------------------- MODULE MCImportService ----------------------------
(* Instances of ImportService for TLC. *)
EXTENDS ImportService
===============================================================================
