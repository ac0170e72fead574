---------------------------- MODULE MCEnrollment ----------------------------
(* Instances of Enrollment for TLC.                                         *)
EXTENDS Enrollment

CONSTANTS k1, k2, env, foreign

TwoKeys == {k1, k2}
OneOverride == {env}
=============================================================================
