--------------------------- MODULE MCEmailOutbox ---------------------------
(***************************************************************************)
(* TLC instances of EmailOutbox.  MCEmailOutbox.cfg: overlapping dispatch  *)
(* ticks, one breach scan at a time; MCBreachOverlap.cfg: two breach       *)
(* scans at once.                                                          *)
(***************************************************************************)
EXTENDS EmailOutbox
=============================================================================
