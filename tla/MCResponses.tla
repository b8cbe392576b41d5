----------------------------- MODULE MCResponses -----------------------------
(***************************************************************************)
(* Instances of Responses for TLC: one submission.                         *)
(***************************************************************************)
EXTENDS Responses, TLC

CONSTANTS p1, r1, r2, slot1, slot2

OneSlot == [p \in Posts |-> slot1]

RevSymmetry == Permutations(Revs)
=============================================================================
