------------------------------ MODULE MCIntake ------------------------------
(***************************************************************************)
(* A file that repeats a text in a chunk and across two, whose job runs    *)
(* twice, and two requests, which a user or two may send.                  *)
(***************************************************************************)
EXTENDS Intake, TLC

Repeated == << <<"x">>, <<"x">> >>
Interchangeable == Permutations(Requests)
=============================================================================
