----------------------------- MODULE RemoteCall -----------------------------
(***************************************************************************)
(* What a transport promises of one call of request(): once made, the call *)
(* ends; it ends well only if the server has carried the operation out; if *)
(* it fails, the operation may have been carried out all the same, or may  *)
(* be later.  This is what the requests of Worker.tla rely on.             *)
(***************************************************************************)
VARIABLES
  outcome,  \* "idle", "pending", "answered" or "failed"
  applied   \* the server has carried the operation out

Init == outcome = "idle" /\ applied = FALSE

\* A call may be refused at once, before anything is sent.
Call == outcome = "idle" /\ outcome' \in {"pending", "failed"} /\ UNCHANGED applied

Apply == outcome # "idle" /\ applied' = TRUE /\ UNCHANGED outcome

Return == outcome = "pending" /\ applied /\ outcome' = "answered" /\ UNCHANGED applied

Fail == outcome = "pending" /\ outcome' = "failed" /\ UNCHANGED applied

Next == Call \/ Apply \/ Return \/ Fail

Spec == Init /\ [][Next]_<<outcome, applied>>

FairSpec == Spec /\ WF_<<outcome, applied>>(Return \/ Fail)
=============================================================================
