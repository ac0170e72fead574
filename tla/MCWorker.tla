------------------------------ MODULE MCWorker ------------------------------
(* Instances of Worker for TLC.                                            *)
EXTENDS Worker

CONSTANTS j1, j2, j3

ThreeJobs == {j1, j2, j3}
=============================================================================
