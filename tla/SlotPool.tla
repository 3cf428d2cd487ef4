------------------------------ MODULE SlotPool ------------------------------
(***************************************************************************)
(* What a concurrency limit promises, without promises, timers or requests:*)
(* a pool of Size slots.  A fetcher reserves free slots before it knows    *)
(* which jobs it will get, at most one reservation is out at a time, the   *)
(* jobs granted take no more slots than were reserved, and a slot is given *)
(* back one job at a time.                                                 *)
(***************************************************************************)
EXTENDS Integers, FiniteSets

CONSTANTS Jobs, Fetchers, Size

VARIABLES
  busy,      \* jobs that hold a slot
  reserved   \* slots reserved by each fetcher

Init ==
  /\ busy = {}
  /\ reserved = [f \in Fetchers |-> 0]

Reserve(f, n) ==
  /\ \A g \in Fetchers : reserved[g] = 0
  /\ n <= Size - Cardinality(busy)
  /\ reserved' = [reserved EXCEPT ![f] = n]
  /\ UNCHANGED busy

Grant(f, B) ==
  /\ Cardinality(B) <= reserved[f]
  /\ reserved' = [reserved EXCEPT ![f] = 0]
  /\ busy' = busy \cup B

Release(j) ==
  /\ busy' = busy \ {j}
  /\ UNCHANGED reserved

Next ==
  \/ \E f \in Fetchers : \/ \E n \in 1..Size : Reserve(f, n)
                         \/ \E B \in SUBSET Jobs : Grant(f, B)
  \/ \E j \in Jobs : Release(j)

Spec == Init /\ [][Next]_<<busy, reserved>>
=============================================================================
