----------------------------- MODULE MCProducer -----------------------------
(***************************************************************************)
(* The instance of the producing side that TLC checks.                     *)
(***************************************************************************)
EXTENDS Producer
=============================================================================
