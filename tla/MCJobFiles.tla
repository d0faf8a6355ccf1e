----------------------------- MODULE MCJobFiles -----------------------------
(***************************************************************************)
(* TLC instance of JobFiles: a report, an upload, and two crashes of the   *)
(* API.                                                                    *)
(***************************************************************************)
EXTENDS JobFiles
=============================================================================
