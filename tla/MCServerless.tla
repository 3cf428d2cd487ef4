---------------------------- MODULE MCServerless ----------------------------
(***************************************************************************)
(* The instance of the serverless adapters that TLC checks: every adapter  *)
(* is an initial state of the same run.                                    *)
(***************************************************************************)
EXTENDS Serverless
=============================================================================
