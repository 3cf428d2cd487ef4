--------------------------- MODULE WorkerLifecycle ---------------------------
(***************************************************************************)
(* The life of a worker as the README promises it (README.md, "Worker      *)
(* Lifecycle"): terminated -> running -> quiet -> terminate -> terminated, *)
(* where a worker with nothing to wait for passes through terminate within *)
(* one call of stop(), and a terminate always ends.                        *)
(***************************************************************************)
VARIABLE state

Init == state = "terminated"

Start == state = "terminated" /\ state' = "running"

Quiet == state = "running" /\ state' = "quiet"

Stop == state \in {"running", "quiet"} /\ state' \in {"terminate", "terminated"}

GraceOver == state = "terminate" /\ state' = "terminated"

Next == Start \/ Quiet \/ Stop \/ GraceOver

Spec == Init /\ [][Next]_state

FairSpec == Spec /\ WF_state(GraceOver)
=============================================================================
