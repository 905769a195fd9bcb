---------------------------- MODULE MCAmConnCore ----------------------------
(* Instances of AmConnCore for TLC. *)
EXTENDS AmConnCore

CONSTANTS t1, t2, c1, c2

OneThread == {t1}
TwoThreads == {t1, t2}
TwoCalls == {c1, c2}
=============================================================================
