----------------------------- MODULE Serverless -----------------------------
(***************************************************************************)
(* The serverless adapters: createLambdaHandler with its SQS, HTTP and     *)
(* direct entry points (src/src/serverless/lambda.ts), createWorkerHandler *)
(* (cloudflare.ts) and createEdgeHandler (vercel.ts).                      *)
(*                                                                         *)
(* A platform starts invocations, may run several at once, may deliver a   *)
(* job again, and may kill an invocation at any moment.  The adapters for  *)
(* HTTP report to the OJS server with fetch(), whose answer they do not    *)
(* look at; the SQS adapter reports to the queue by what it returns.       *)
(***************************************************************************)
EXTENDS SequencesExt, Integers

CONSTANTS
  Jobs,          \* the jobs, or SQS messages
  Unparsable,    \* those whose body is no JSON or is null, or that are sent by no POST
  Unhandled,     \* those no handler is registered for
  Invocations,   \* bound: the invocations
  MaxBatch       \* the batch size of the SQS trigger

ASSUME ServerlessAssumption ==
  /\ Unparsable \subseteq Jobs
  /\ Unhandled \subseteq Jobs
  /\ MaxBatch \in Nat \ {0}

VARIABLES
  entry,      \* the adapter the jobs are delivered to
  pending,    \* jobs the server or the queue may deliver
  completed,  \* jobs it has taken off
  batch,      \* batch[i]: the records of invocation i, <<>> before it starts
  at,         \* at[i]: the record it is at
  phase,      \* phase[i]: where it is
  failures,   \* failures[i]: SQS's batchItemFailures
  answer,     \* answer[i]: what it answered
  outcome,    \* outcome[i]: how processJob ended, job by job
  reported    \* reported[i]: the calls of ack and nack the server has got

vars == <<entry, pending, completed, batch, at, phase, failures, answer, outcome, reported>>

Entries == {"sqs", "http", "direct", "cloudflare", "vercel"}
Edge    == {"cloudflare", "vercel"}
Ended   == {"over", "settled", "killed"}
Answers == {"completed", "failed", "refused", "invalid", "unhandled", "failures", "error"}

Init ==
  /\ entry \in Entries
  /\ pending = Jobs
  /\ completed = {}
  /\ batch = [i \in Invocations |-> <<>>]
  /\ at = [i \in Invocations |-> 1]
  /\ phase = [i \in Invocations |-> "idle"]
  /\ failures = [i \in Invocations |-> <<>>]
  /\ answer = [i \in Invocations |-> "none"]
  /\ outcome = [i \in Invocations |-> [j \in Jobs |-> "none"]]
  /\ reported = [i \in Invocations |-> {}]

Deliverable == IF entry = "direct" THEN pending \ Unparsable ELSE pending

Current(i) == batch[i][at[i]]

-----------------------------------------------------------------------------
(* The platform *)

\* SQS gives a batch of its messages, the other platforms a single job; a direct
\* invocation is given a job, not its text.  A job that is still being handled
\* may be delivered again.
Deliver(i) ==
  /\ phase[i] = "idle"
  /\ \E records \in SeqOf(Deliverable, IF entry = "sqs" THEN MaxBatch ELSE 1) \ {<<>>} :
       /\ IsInjective(records)
       /\ batch' = [batch EXCEPT ![i] = records]
  /\ phase' = [phase EXCEPT ![i] = "record"]
  /\ UNCHANGED <<entry, pending, completed, at, failures, answer, outcome, reported>>

\* The invocation is killed: its time is up, or the instance dies.
Kill(i) ==
  /\ phase[i] \notin Ended \cup {"idle"}
  /\ phase' = [phase EXCEPT ![i] = "killed"]
  /\ UNCHANGED <<entry, pending, completed, batch, at, failures, answer, outcome, reported>>

\* SQS deletes the messages of a batch that are not reported as failures.
DeleteMessages(i) ==
  /\ answer[i] = "failures"
  /\ phase[i] = "over"
  /\ LET deleted == ToSet(batch[i]) \ ToSet(failures[i])
     IN  /\ pending' = pending \ deleted
         /\ completed' = completed \cup deleted
  /\ phase' = [phase EXCEPT ![i] = "settled"]
  /\ UNCHANGED <<entry, batch, at, failures, answer, outcome, reported>>

-----------------------------------------------------------------------------
(* The adapters *)

Answer(i, a) ==
  /\ phase' = [phase EXCEPT ![i] = "over"]
  /\ answer' = [answer EXCEPT ![i] = a]

Goto(i, p) == phase' = [phase EXCEPT ![i] = p] /\ UNCHANGED answer

\* The loop of sqsHandler goes on to the next record, or returns.
NextRecord(i) ==
  IF at[i] < Len(batch[i])
  THEN Goto(i, "record") /\ at' = [at EXCEPT ![i] = @ + 1]
  ELSE Answer(i, "failures") /\ UNCHANGED at

\* Mutant: the first failure ends the loop.
StopAtFailure(i) ==
  /\ failures' = [failures EXCEPT ![i] = Append(@, Current(i))]
  /\ Answer(i, "failures")
  /\ UNCHANGED at

\* A record is reported as a failure, and the loop goes on.
FailRecord(i) ==
  /\ failures' = [failures EXCEPT ![i] = Append(@, Current(i))]
  /\ NextRecord(i)

\* No job can be read.  The adapters for HTTP answer 405 to another method and
\* 400 to a body that is no JSON; null has no type or job to read, which throws
\* outside of every try block.
ParseFails(i) ==
  /\ phase[i] = "record"
  /\ Current(i) \in Unparsable
  /\ IF entry = "sqs"
     THEN FailRecord(i)
     ELSE /\ \E a \in {"refused", "invalid", "error"} : Answer(i, a)
          /\ UNCHANGED <<at, failures>>
  /\ UNCHANGED <<entry, pending, completed, batch, outcome, reported>>

\* processJob, or the handler the adapter calls itself, has thrown.
HandlingFailed(i) ==
  CASE entry = "sqs"    -> FailRecord(i)
    [] entry = "direct" -> Answer(i, "failed") /\ UNCHANGED <<at, failures>>
    [] OTHER            -> Goto(i, "nacking") /\ UNCHANGED <<at, failures>>

\* The job is parsed and its handler looked up.  Without one the edge adapters
\* answer 422 and report nothing; the Lambda adapters treat it as a failure.
FindHandler(i) ==
  /\ phase[i] = "record"
  /\ Current(i) \notin Unparsable
  /\ IF Current(i) \notin Unhandled
     THEN Goto(i, "handling") /\ UNCHANGED <<at, failures, outcome>>
     ELSE /\ outcome' = [outcome EXCEPT ![i][Current(i)] = "failed"]
          /\ IF entry \in Edge
             THEN Answer(i, "unhandled") /\ UNCHANGED <<at, failures>>
             ELSE HandlingFailed(i)
  /\ UNCHANGED <<entry, pending, completed, batch, reported>>

HandlerReturns(i) ==
  /\ phase[i] = "handling"
  /\ outcome' = [outcome EXCEPT ![i][Current(i)] = "succeeded"]
  /\ CASE entry = "sqs"    -> NextRecord(i) /\ UNCHANGED failures
       [] entry = "direct" -> Answer(i, "completed") /\ UNCHANGED <<at, failures>>
       [] OTHER            -> Goto(i, "acking") /\ UNCHANGED <<at, failures>>
  /\ UNCHANGED <<entry, pending, completed, batch, reported>>

\* Mutant: what the handler throws is swallowed.
ThrowSwallowed(i) ==
  /\ phase[i] = "handling"
  /\ outcome' = [outcome EXCEPT ![i][Current(i)] = "failed"]
  /\ CASE entry = "sqs"    -> NextRecord(i) /\ UNCHANGED failures
       [] entry = "direct" -> Answer(i, "completed") /\ UNCHANGED <<at, failures>>
       [] OTHER            -> Goto(i, "acking") /\ UNCHANGED <<at, failures>>
  /\ UNCHANGED <<entry, pending, completed, batch, reported>>

HandlerThrows(i) ==
  /\ phase[i] = "handling"
  /\ outcome' = [outcome EXCEPT ![i][Current(i)] = "failed"]
  /\ HandlingFailed(i)
  /\ UNCHANGED <<entry, pending, completed, batch, reported>>

-----------------------------------------------------------------------------
(* The calls of the HTTP adapters to the server *)

\* The server gets the ack, perhaps after the adapter has given up on it.
AckArrives(i) ==
  /\ entry \in Edge \cup {"http"}
  /\ phase[i] # "idle"
  /\ outcome[i][Current(i)] = "succeeded"
  /\ "ack" \notin reported[i]
  /\ reported' = [reported EXCEPT ![i] = @ \cup {"ack"}]
  /\ completed' = completed \cup {Current(i)}
  /\ pending' = pending \ {Current(i)}
  /\ UNCHANGED <<entry, batch, at, phase, failures, answer, outcome>>

\* It gets the nack: the job may be delivered again, unless it is completed.
NackArrives(i) ==
  /\ phase[i] = "nacking"
  /\ "nack" \notin reported[i]
  /\ reported' = [reported EXCEPT ![i] = @ \cup {"nack"}]
  /\ UNCHANGED <<entry, pending, completed, batch, at, phase, failures, answer, outcome>>

\* fetch() of the ack resolves, whatever the status.
AckAnswered(i) ==
  /\ phase[i] = "acking"
  /\ "ack" \in reported[i]
  /\ Answer(i, "completed")
  /\ UNCHANGED <<entry, pending, completed, batch, at, failures, outcome, reported>>

\* It rejects, inside the same try block as the handler.
AckRejects(i) ==
  /\ phase[i] = "acking"
  /\ Goto(i, "nacking")
  /\ UNCHANGED <<entry, pending, completed, batch, at, failures, outcome, reported>>

NackAnswered(i) ==
  /\ phase[i] = "nacking"
  /\ "nack" \in reported[i]
  /\ Answer(i, "failed")
  /\ UNCHANGED <<entry, pending, completed, batch, at, failures, outcome, reported>>

\* fetch() of the nack rejects: the invocation does, too.
NackRejects(i) ==
  /\ phase[i] = "nacking"
  /\ Answer(i, "error")
  /\ UNCHANGED <<entry, pending, completed, batch, at, failures, outcome, reported>>

Next ==
  \E i \in Invocations :
    \/ Deliver(i) \/ Kill(i) \/ DeleteMessages(i)
    \/ ParseFails(i) \/ FindHandler(i) \/ HandlerReturns(i) \/ HandlerThrows(i)
    \/ AckArrives(i) \/ AckAnswered(i) \/ AckRejects(i)
    \/ NackArrives(i) \/ NackAnswered(i) \/ NackRejects(i)

Spec == Init /\ [][Next]_vars

-----------------------------------------------------------------------------
(* Properties *)

\* Every variable has its type, no job is both pending and completed, and what
\* is reported as a failure is a record of the batch (lambda.ts:126-142).
TypeOK ==
  /\ entry \in Entries
  /\ pending \cup completed = Jobs /\ pending \cap completed = {}
  /\ \A i \in Invocations :
       /\ ToSet(batch[i]) \subseteq Jobs
       /\ Len(batch[i]) <= (IF entry = "sqs" THEN MaxBatch ELSE 1)
       /\ at[i] \in 1..MaxBatch
       /\ phase[i] \in {"idle", "record", "handling", "acking", "nacking"} \cup Ended
       /\ ToSet(failures[i]) \subseteq ToSet(batch[i])
       /\ answer[i] \in Answers \cup {"none"}
       /\ reported[i] \subseteq {"ack", "nack"}
  /\ outcome \in [Invocations -> [Jobs -> {"none", "succeeded", "failed"}]]

\* No job is lost: one that the queue has deleted or the server has completed
\* was handled to the end by some invocation, however many were killed, failed
\* or ran at once (lambda.ts:123-143, :186-192, cloudflare.ts:82-85).
CompletedWasHandled ==
  \A j \in completed : \E i \in Invocations : outcome[i][j] = "succeeded"

\* The failures are reported in the order of their records.
InBatchOrder(i) ==
  \A k, l \in DOMAIN failures[i] : k < l =>
    \E m, n \in DOMAIN batch[i] :
      m < n /\ failures[i][k] = batch[i][m] /\ failures[i][l] = batch[i][n]

\* sqsHandler goes through its whole batch, and reports each record that failed,
\* in order - so once, for the records of a batch differ - and no other: what
\* succeeded is not done again (lambda.ts:126-142).
FailuresAreExact ==
  \A i \in Invocations : answer[i] = "failures" =>
    /\ ToSet(failures[i]) = {j \in ToSet(batch[i]) : outcome[i][j] # "succeeded"}
    /\ InBatchOrder(i)
=============================================================================
