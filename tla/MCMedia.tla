------------------------------- MODULE MCMedia -------------------------------
(***************************************************************************)
(* Two uploads for TLC, with longer and shorter outputs than one another.   *)
(***************************************************************************)
EXTENDS MediaPipeline

CONSTANTS u1, u2

Lengths == [t \in Uploads |-> IF t = u1 THEN 3 ELSE 1]
=============================================================================
