----------------------------- MODULE MCTickets -----------------------------
(***************************************************************************)
(* TLC instances of Tickets.  MCTickets.cfg: the properties that hold with *)
(* overlapping requests; MCTicketRace.cfg: the one that does not.          *)
(***************************************************************************)
EXTENDS Tickets
=============================================================================
