------------------------------- MODULE MCPaging -------------------------------
(***************************************************************************)
(* Three rows, pages of one and two rows.                                   *)
(***************************************************************************)
EXTENDS Paging

CONSTANTS a, b, c

Ids == Permutations(Rows)
=============================================================================
