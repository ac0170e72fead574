--------------------------- MODULE MCFetchBudget ----------------------------
(* FetchBudget for TLC, in units of half a second; shorter pauses are       *)
(* rounded up to one unit.                                                  *)
EXTENDS FetchBudget
=============================================================================
