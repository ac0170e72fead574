-------------------------- MODULE MCBrowserManager --------------------------
(* Instances of BrowserManager for TLC.  Engines never run out: a launch    *)
(* is started at most once by the boot, by each job and by each recovery.   *)
EXTENDS BrowserManager, TLC

CONSTANTS j1, j2, j3

OneJob == {j1}
TwoJobs == {j1, j2}
ThreeJobs == {j1, j2, j3}
JobSymmetry == Permutations(Jobs)
=============================================================================
