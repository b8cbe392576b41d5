------------------------------- MODULE MCStats -------------------------------
(***************************************************************************)
(* One submission with one revision, weeks of two days and short months.   *)
(***************************************************************************)
EXTENDS EvaluationStats

CONSTANTS s1, r1

Calendar == {-2, 0, 3}
Weeks == {3}
=============================================================================
