--------------------------- MODULE MCHttpTransport ---------------------------
(***************************************************************************)
(* The instance of the HTTP transport that TLC checks.  All four retry     *)
(* configurations and all three states of the caller's signal are initial  *)
(* states of one run.                                                      *)
(***************************************************************************)
EXTENDS HttpTransport
=============================================================================
