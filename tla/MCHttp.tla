------------------------------- MODULE MCHttp -------------------------------
(***************************************************************************)
(* A signup, a signin and an upload of a server whose table already holds  *)
(* a student, for TLC.                                                     *)
(***************************************************************************)
EXTENDS HttpServer

CONSTANTS a1, a2, u1, kim

OneName == [r \in {a1, a2} |-> kim]
OneStudent == <<kim>>
=============================================================================
