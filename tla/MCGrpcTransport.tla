--------------------------- MODULE MCGrpcTransport ---------------------------
(***************************************************************************)
(* The instance of the gRPC transport that TLC checks: one call that tries *)
(* every route and every argument, and one that fetches what it enqueued.  *)
(***************************************************************************)
EXTENDS GrpcTransport

CONSTANTS c1, c2

Job(route, args, options) == [route |-> route, args |-> args, options |-> options]

MCCalls == {c1, c2}

MCRequests ==
  [c \in MCCalls |->
     CASE c = c1 -> {Job(r, <<v>>, r = "enqueue") : r \in {"enqueue", "enqueueBatch"}, v \in Values}
                      \cup {Job("enqueue", <<[kind |-> "number", zero |-> TRUE], v>>, FALSE) : v \in Scalars}
                      \cup {Job("registerCron", <<v>>, FALSE) : v \in Scalars}
                      \cup {Job(r, <<>>, FALSE) : r \in Routes}
       [] OTHER  -> {Job("fetch", <<>>, FALSE)}]

\* Jobs with options, alone and in a batch.
MCBatches ==
  [c \in MCCalls |-> {Job(r, <<>>, TRUE) : r \in {"enqueue", "enqueueBatch"}}]
=============================================================================
