----------------------------- MODULE MCPageWaits -----------------------------
(* PageWaits for TLC.  A tick is 250 ms; a read is given three of them and *)
(* not twenty, which is more than the polling waits for in any case.       *)
EXTENDS PageWaits

SomeCaps == {1, 3, 5}
SomeBudgets == {0, 1, 2}
=============================================================================
