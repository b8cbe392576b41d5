----------------------------- MODULE MCHighlight -----------------------------
(***************************************************************************)
(* Texts of at most four characters and up to two highlights of at most    *)
(* two, also empty, with blanks or in the other case.                      *)
(***************************************************************************)
EXTENDS Highlight

Words(C, n) == UNION {[1 .. k -> C] : k \in 0 .. n}

ShortTexts == Words({"a", "b", "c"}, 4)
Phrases == Words({"a", "A", "c", " "}, 2)
UpToTwo == Words(Phrases, 2)
=============================================================================
