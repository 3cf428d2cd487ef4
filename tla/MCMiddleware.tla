---------------------------- MODULE MCMiddleware ----------------------------
(***************************************************************************)
(* The instance of the middleware chain that TLC checks: see the .cfg      *)
(* file.  Kinds are strings, so it names them directly.                    *)
(***************************************************************************)
EXTENDS Middleware
=============================================================================
