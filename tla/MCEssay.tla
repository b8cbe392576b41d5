------------------------------- MODULE MCEssay -------------------------------
(***************************************************************************)
(* Instances of EssayService for TLC.                                      *)
(***************************************************************************)
EXTENDS EssayProperties, EssayClaims

CONSTANTS p1, p2, p3, r1, r2, slot1, slot2

\* The first two POST requests are for one component of one student.
TwoForOne == [p \in Posts |-> IF p \in {p1, p2} THEN slot1 ELSE slot2]
=============================================================================
