------------------------------- MODULE MCPayload -------------------------------
(***************************************************************************)
(* Instances of Payload for TLC: the jobs differ in their arguments and in *)
(* the version that enqueued them.                                         *)
(***************************************************************************)
EXTENDS Payload

MCJobs == {"text", "number", "old"}
MCKeys == {"k1", "k2"}
=============================================================================
