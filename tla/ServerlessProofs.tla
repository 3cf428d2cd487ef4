--------------------------- MODULE ServerlessProofs ---------------------------
(***************************************************************************)
(* Proofs about the serverless adapters, for any jobs, any number of       *)
(* invocations and any batch size.                                         *)
(***************************************************************************)
EXTENDS Serverless, TLAPS

Succeeded(i, j) == outcome[i][j] = "succeeded"

\* Where the records and the outcomes of invocation i are kept.
ShapeInv(i) ==
  /\ batch[i] \in Seq(Jobs)
  /\ \A k, l \in DOMAIN batch[i] : batch[i][k] = batch[i][l] => k = l
  /\ failures[i] \in Seq(Jobs)
  /\ at[i] \in Nat \ {0}
  /\ outcome[i] \in [Jobs -> {"none", "succeeded", "failed"}]
  /\ phase[i] \in {"idle", "record", "handling", "acking", "nacking"} \cup Ended
  /\ phase[i] # "idle" => at[i] \in DOMAIN batch[i]

\* A record that is still to come has no outcome: what has succeeded stays so.
FreshInv(i) ==
  /\ phase[i] = "idle" => at[i] = 1 /\ failures[i] = <<>> /\ \A j \in Jobs : outcome[i][j] = "none"
  /\ phase[i] \in {"record", "handling"} =>
       \A k \in DOMAIN batch[i] : k >= at[i] => outcome[i][batch[i][k]] = "none"

\* A record that is behind has succeeded or is among the failures.
BehindInv(i) ==
  /\ entry = "sqs" /\ phase[i] \in {"record", "handling"} =>
       \A k \in DOMAIN batch[i] :
         k < at[i] => batch[i][k] \in ToSet(failures[i]) \/ Succeeded(i, batch[i][k])
  /\ answer[i] = "failures" =>
       /\ phase[i] \in Ended
       /\ \A k \in DOMAIN batch[i] :
            batch[i][k] \in ToSet(failures[i]) \/ Succeeded(i, batch[i][k])

Domains ==
  /\ DOMAIN batch = Invocations /\ DOMAIN at = Invocations /\ DOMAIN phase = Invocations
  /\ DOMAIN failures = Invocations /\ DOMAIN answer = Invocations
  /\ outcome \in [Invocations -> [Jobs -> {"none", "succeeded", "failed"}]]

Local(i) == ShapeInv(i) /\ FreshInv(i) /\ BehindInv(i)

IInv ==
  /\ entry \in Entries
  /\ pending \subseteq Jobs /\ completed \subseteq Jobs
  /\ Domains
  /\ \A i \in Invocations : Local(i)
  /\ CompletedWasHandled

\* The initial states satisfy the invariant.
LEMMA InitInv == Init => IInv
BY ServerlessAssumption
DEF Init, IInv, Domains, Local, ShapeInv, FreshInv, BehindInv, Succeeded, CompletedWasHandled

\* A step of invocation i leaves the others alone, and takes nothing off.
StepOf(i) ==
  /\ UNCHANGED <<entry, pending, completed>>
  /\ Domains'
  /\ \A h \in Invocations \ {i} :
       /\ batch'[h] = batch[h] /\ at'[h] = at[h] /\ phase'[h] = phase[h]
       /\ failures'[h] = failures[h] /\ answer'[h] = answer[h] /\ outcome'[h] = outcome[h]

\* Such a step preserves the invariant if it does so for its own invocation,
\* and a job that has succeeded stays succeeded.
LEMMA LocalStep ==
  ASSUME IInv, NEW i \in Invocations, StepOf(i), Local(i)',
         \A j \in Jobs : Succeeded(i, j) => Succeeded(i, j)'
  PROVE  IInv'
<1>1. ASSUME NEW h \in Invocations, h # i PROVE Local(h)'
  <2>1. Local(h) /\ UNCHANGED entry
    BY DEF IInv, StepOf
  <2>2. /\ batch'[h] = batch[h] /\ at'[h] = at[h] /\ phase'[h] = phase[h]
        /\ failures'[h] = failures[h] /\ answer'[h] = answer[h] /\ outcome'[h] = outcome[h]
    BY <1>1 DEF StepOf
  <2>3. ShapeInv(h)'
    BY <2>1, <2>2 DEF Local, ShapeInv
  <2>4. FreshInv(h)'
    BY <2>1, <2>2 DEF Local, FreshInv
  <2>5. BehindInv(h)'
    BY <2>1, <2>2 DEF Local, BehindInv, Succeeded
  <2> QED
    BY <2>3, <2>4, <2>5 DEF Local
<1>2. CompletedWasHandled'
  <2> SUFFICES ASSUME NEW j \in completed PROVE \E h \in Invocations : outcome'[h][j] = "succeeded"
    BY DEF CompletedWasHandled, StepOf
  <2>1. PICK h \in Invocations : outcome[h][j] = "succeeded"
    BY DEF IInv, CompletedWasHandled
  <2>2. CASE h = i
    BY <2>1, <2>2 DEF IInv, Succeeded
  <2>3. CASE h # i
    BY <2>1, <2>3 DEF StepOf
  <2> QED
    BY <2>2, <2>3
<1> QED
  BY <1>1, <1>2 DEF IInv, StepOf

\* What a platform gives an invocation.
LEMMA DeliverInv ==
  ASSUME IInv, NEW i \in Invocations, Deliver(i)
  PROVE  IInv'
<1>1. PICK records \in SeqOf(Deliverable, IF entry = "sqs" THEN MaxBatch ELSE 1) \ {<<>>} :
        IsInjective(records) /\ batch' = [batch EXCEPT ![i] = records]
  BY DEF Deliver
<1>2. records \in Seq(Jobs) /\ 1 \in DOMAIN records
  <2>1. PICK m \in 0..(IF entry = "sqs" THEN MaxBatch ELSE 1) : records \in [1..m -> Deliverable]
    BY <1>1 DEF SeqOf
  <2>2. Deliverable \subseteq Jobs /\ m \in Nat
    BY ServerlessAssumption DEF Deliverable, IInv
  <2>3. records \in Seq(Jobs)
    BY <2>1, <2>2
  <2>4. m # 0
    BY <1>1, <2>1
  <2> QED
    BY <2>1, <2>2, <2>3, <2>4
<1>3. phase[i] = "idle" /\ phase' = [phase EXCEPT ![i] = "record"]
      /\ UNCHANGED <<entry, pending, completed, at, failures, answer, outcome>>
  BY DEF Deliver
<1>4. StepOf(i)
  BY <1>1, <1>3 DEF StepOf, IInv, Domains
<1>5. ShapeInv(i)'
  BY <1>1, <1>2, <1>3 DEF IInv, Local, ShapeInv, FreshInv, Domains, IsInjective
<1>6. FreshInv(i)'
  BY <1>1, <1>2, <1>3 DEF IInv, Local, FreshInv, Domains
<1>7. BehindInv(i)'
  <2>1. answer'[i] # "failures"
    BY <1>3 DEF IInv, Local, BehindInv, Ended
  <2>2. at'[i] = 1 /\ batch'[i] = records
    BY <1>1, <1>3 DEF IInv, Local, FreshInv, Domains
  <2>3. \A k \in DOMAIN records : ~(k < 1)
    BY <1>2
  <2> QED
    BY <2>1, <2>2, <2>3 DEF BehindInv
<1> QED
  BY <1>3, <1>4, <1>5, <1>6, <1>7, LocalStep DEF Local, Succeeded

\* A step of invocation i that neither starts nor ends a record of a batch.
LEMMA PhaseInv ==
  ASSUME IInv, NEW i \in Invocations, phase[i] # "idle",
         NEW p \in {"handling", "acking", "nacking"} \cup Ended,
         phase' = [phase EXCEPT ![i] = p],
         p = "handling" => phase[i] = "record",
         NEW a \in Answers \ {"failures"},
         answer' = answer \/ (answer' = [answer EXCEPT ![i] = a]),
         p \in Ended \/ answer[i] # "failures",
         UNCHANGED <<entry, pending, completed, batch, at, failures, outcome>>
  PROVE  IInv'
<1>1. StepOf(i)
  BY DEF StepOf, IInv, Domains
<1>2. ShapeInv(i)'
  BY DEF IInv, Local, ShapeInv, Domains
<1>3. FreshInv(i)'
  BY DEF IInv, Local, FreshInv, Domains, Ended
<1>4. BehindInv(i)'
  <2>1. answer'[i] = "failures" => answer[i] = "failures"
    BY DEF IInv, Domains
  <2>2. phase'[i] = p
    BY DEF IInv, Domains
  <2> QED
    BY <2>1, <2>2 DEF IInv, Local, BehindInv, Ended, Succeeded
<1> QED
  BY <1>1, <1>2, <1>3, <1>4, LocalStep DEF Local, Succeeded

\* The record at which invocation i is ends as v, at most once, and the loop of
\* sqsHandler goes on or returns.
LEMMA RecordInv ==
  ASSUME IInv, NEW i \in Invocations, phase[i] \in {"record", "handling"}, entry = "sqs",
         NEW v \in {"none", "succeeded", "failed"},
         outcome' = [outcome EXCEPT ![i][Current(i)] = v],
         \/ v = "succeeded" /\ UNCHANGED failures
         \/ failures' = [failures EXCEPT ![i] = Append(@, Current(i))],
         NextRecord(i),
         UNCHANGED <<entry, pending, completed, batch>>
  PROVE  IInv'
<1> DEFINE j == Current(i)
<1>1. at[i] \in DOMAIN batch[i] /\ j \in Jobs /\ j = batch[i][at[i]]
  BY DEF IInv, Local, ShapeInv, Current
<1>2. outcome[i][j] = "none" /\ answer[i] # "failures"
  BY <1>1 DEF IInv, Local, ShapeInv, FreshInv, BehindInv, Ended
<1>3. \/ at[i] < Len(batch[i]) /\ phase' = [phase EXCEPT ![i] = "record"]
         /\ answer' = answer /\ at' = [at EXCEPT ![i] = at[i] + 1]
      \/ at[i] >= Len(batch[i]) /\ phase' = [phase EXCEPT ![i] = "over"]
         /\ answer' = [answer EXCEPT ![i] = "failures"] /\ at' = at
  <2>1. at[i] \in Nat /\ Len(batch[i]) \in Nat
    BY DEF IInv, Local, ShapeInv
  <2> QED
    BY <2>1 DEF NextRecord, Goto, Answer, IInv, Domains
<1>4. outcome'[i] = [outcome[i] EXCEPT ![j] = v] /\ outcome[i] \in [Jobs -> {"none", "succeeded", "failed"}]
  BY DEF IInv, Domains, Local, ShapeInv
<1>5. /\ failures'[i] \in Seq(Jobs)
      /\ ToSet(failures[i]) \subseteq ToSet(failures'[i])
      /\ v = "succeeded" \/ j \in ToSet(failures'[i])
  <2>1. failures[i] \in Seq(Jobs)
    BY DEF IInv, Local, ShapeInv
  <2>2. CASE failures' = failures /\ v = "succeeded"
    BY <2>1, <2>2
  <2>3. CASE failures' = [failures EXCEPT ![i] = Append(@, j)]
    <3>1. failures'[i] = Append(failures[i], j)
      BY <2>3 DEF IInv, Domains
    <3> QED
      BY <1>1, <2>1, <3>1, SMTT(30) DEF ToSet
  <2> QED
    BY <2>2, <2>3
<1>6. StepOf(i)
  BY <1>1, <1>3 DEF StepOf, IInv, Domains
<1>7. ShapeInv(i)'
  <2>1. batch'[i] \in Seq(Jobs) /\ \A k, l \in DOMAIN batch'[i] : batch'[i][k] = batch'[i][l] => k = l
    BY DEF IInv, Local, ShapeInv
  <2>2. outcome'[i] \in [Jobs -> {"none", "succeeded", "failed"}]
    BY <1>1, <1>4
  <2>3. phase'[i] \in {"record", "over"} /\ at'[i] \in Nat \ {0} /\ at'[i] \in DOMAIN batch'[i]
    BY <1>1, <1>3, <2>1 DEF IInv, Domains, Local, ShapeInv
  <2> QED
    BY <1>5, <2>1, <2>2, <2>3 DEF ShapeInv, Ended
<1>8. FreshInv(i)'
  <2>1. CASE phase'[i] = "record"
    <3>1. at'[i] = at[i] + 1 /\ at[i] \in Nat
      BY <1>3, <2>1 DEF IInv, Domains, Local, ShapeInv
    <3>2. \A k \in DOMAIN batch[i] : k >= at[i] + 1 => batch[i][k] # j /\ outcome[i][batch[i][k]] = "none"
      BY <1>1, <3>1 DEF IInv, Local, ShapeInv, FreshInv
    <3>3. \A k \in DOMAIN batch[i] : batch[i][k] \in Jobs
      BY DEF IInv, Local, ShapeInv
    <3> QED
      BY <1>4, <2>1, <3>1, <3>2, <3>3 DEF FreshInv
  <2>2. CASE phase'[i] = "over"
    BY <2>2 DEF FreshInv
  <2> QED
    BY <1>3, <2>1, <2>2 DEF IInv, Domains
<1>9. \A k \in DOMAIN batch[i] : k <= at[i] =>
        batch[i][k] \in ToSet(failures'[i]) \/ Succeeded(i, batch[i][k])'
  <2> SUFFICES ASSUME NEW k \in DOMAIN batch[i], k <= at[i]
               PROVE  batch[i][k] \in ToSet(failures'[i]) \/ outcome'[i][batch[i][k]] = "succeeded"
    BY DEF Succeeded
  <2>1. CASE k = at[i]
    BY <1>1, <1>4, <1>5, <2>1
  <2>2. CASE k # at[i]
    <3>1. k < at[i] /\ batch[i][k] # j /\ batch[i][k] \in Jobs
      BY <1>1, <2>2 DEF IInv, Local, ShapeInv
    <3>2. batch[i][k] \in ToSet(failures[i]) \/ outcome[i][batch[i][k]] = "succeeded"
      BY <3>1 DEF IInv, Local, BehindInv, Succeeded
    <3> QED
      BY <1>4, <1>5, <3>1, <3>2
  <2> QED
    BY <2>1, <2>2
<1>10. BehindInv(i)'
  <2>1. CASE phase'[i] = "record"
    <3>1. answer'[i] # "failures" /\ at'[i] = at[i] + 1 /\ at[i] \in Nat
      BY <1>2, <1>3, <2>1 DEF IInv, Domains, Local, ShapeInv
    <3>2. \A k \in DOMAIN batch[i] : k < at[i] + 1 => k <= at[i]
      BY <3>1 DEF IInv, Local, ShapeInv
    <3> QED
      BY <1>9, <3>1, <3>2 DEF BehindInv
  <2>2. CASE phase'[i] = "over"
    <3>1. at[i] >= Len(batch[i])
      BY <1>3, <2>2 DEF IInv, Domains
    <3>2. \A k \in DOMAIN batch[i] : k <= at[i]
      BY <3>1 DEF IInv, Local, ShapeInv
    <3> QED
      BY <1>9, <2>2, <3>2 DEF BehindInv, Ended
  <2> QED
    BY <1>3, <2>1, <2>2 DEF IInv, Domains
<1>11. \A k \in Jobs : Succeeded(i, k) => Succeeded(i, k)'
  BY <1>1, <1>2, <1>4 DEF Succeeded
<1> QED
  BY <1>6, <1>7, <1>8, <1>10, <1>11, LocalStep DEF Local

\* The job of an adapter other than sqsHandler's ends as v, or is not started.
LEMMA LeaveInv ==
  ASSUME IInv, NEW i \in Invocations, phase[i] \in {"record", "handling"},
         NEW p \in {"acking", "nacking"} \cup Ended,
         phase' = [phase EXCEPT ![i] = p],
         NEW v \in {"none", "succeeded", "failed"},
         outcome' = [outcome EXCEPT ![i][Current(i)] = v],
         NEW a \in Answers \ {"failures"},
         answer' = answer \/ (answer' = [answer EXCEPT ![i] = a]),
         UNCHANGED <<entry, pending, completed, batch, at, failures>>
  PROVE  IInv'
<1> DEFINE j == Current(i)
<1>1. j \in Jobs
  BY DEF IInv, Local, ShapeInv, Current
<1>2. outcome[i][j] = "none" /\ answer[i] # "failures"
  <2>1. at[i] \in DOMAIN batch[i] /\ at[i] >= at[i]
    BY DEF IInv, Local, ShapeInv
  <2> QED
    BY <2>1 DEF IInv, Local, FreshInv, BehindInv, Ended, Current
<1>3. outcome'[i] = [outcome[i] EXCEPT ![j] = v] /\ outcome[i] \in [Jobs -> {"none", "succeeded", "failed"}]
  BY DEF IInv, Domains, Local, ShapeInv
<1>4. phase'[i] = p /\ answer'[i] # "failures"
  BY <1>2 DEF IInv, Domains
<1>5. StepOf(i)
  BY <1>1 DEF StepOf, IInv, Domains
<1>6. outcome'[i] \in [Jobs -> {"none", "succeeded", "failed"}]
  BY <1>1, <1>3
<1>7. ShapeInv(i)'
  BY <1>4, <1>6 DEF IInv, Local, ShapeInv
<1>8. FreshInv(i)' /\ BehindInv(i)'
  BY <1>4 DEF FreshInv, BehindInv, Ended
<1>9. \A k \in Jobs : Succeeded(i, k) => Succeeded(i, k)'
  BY <1>1, <1>2, <1>3 DEF Succeeded
<1> QED
  BY <1>5, <1>7, <1>8, <1>9, LocalStep DEF Local

\* An outcome that is none already is left as it is.
LEMMA NoOutcome ==
  ASSUME IInv, NEW i \in Invocations, phase[i] = "record"
  PROVE  outcome = [outcome EXCEPT ![i][Current(i)] = "none"]
<1>1. at[i] \in DOMAIN batch[i] /\ at[i] >= at[i]
  BY DEF IInv, Local, ShapeInv
<1>2. outcome[i][Current(i)] = "none"
  BY <1>1 DEF IInv, Local, FreshInv, Current
<1>3. outcome[i] = [outcome[i] EXCEPT ![Current(i)] = "none"]
  BY <1>2 DEF IInv, Local, ShapeInv
<1> QED
  BY <1>3 DEF IInv, Domains

\* Wherever a record fails, with v as its outcome.
LEMMA FailInv ==
  ASSUME IInv, NEW i \in Invocations, phase[i] \in {"record", "handling"},
         NEW v \in {"none", "failed"},
         outcome' = [outcome EXCEPT ![i][Current(i)] = v],
         HandlingFailed(i),
         UNCHANGED <<entry, pending, completed, batch>>
  PROVE  IInv'
<1>1. CASE entry = "sqs"
  BY <1>1, RecordInv DEF HandlingFailed, FailRecord
<1>2. CASE entry = "direct"
  <2>1. Answer(i, "failed") /\ UNCHANGED <<at, failures>>
    BY <1>2 DEF HandlingFailed
  <2> QED
    BY <2>1, LeaveInv DEF Answer, Answers, Ended
<1>3. CASE entry \notin {"sqs", "direct"}
  <2>1. Goto(i, "nacking") /\ UNCHANGED <<at, failures>>
    BY <1>3 DEF HandlingFailed
  <2>2. "failed" \in Answers \ {"failures"}
    BY DEF Answers
  <2> QED
    BY <2>1, <2>2, LeaveInv DEF Goto
<1> QED
  BY <1>1, <1>2, <1>3

\* The record is parsed and its handler looked up.
LEMMA LookupInv ==
  ASSUME IInv, NEW i \in Invocations, ParseFails(i) \/ FindHandler(i)
  PROVE  IInv'
<1>0. /\ phase[i] = "record"
      /\ UNCHANGED <<entry, pending, completed, batch>>
      /\ {"refused", "invalid", "error", "unhandled", "failed"} \subseteq Answers \ {"failures"}
      /\ "over" \in Ended
  BY DEF ParseFails, FindHandler, Answers, Ended
<1>1. CASE ParseFails(i)
  <2>1. outcome' = [outcome EXCEPT ![i][Current(i)] = "none"]
    BY <1>0, <1>1, NoOutcome DEF ParseFails
  <2>2. CASE entry = "sqs"
    BY <1>0, <1>1, <2>1, <2>2, RecordInv DEF ParseFails, FailRecord
  <2>3. CASE entry # "sqs"
    <3>1. PICK a \in {"refused", "invalid", "error"} :
            Answer(i, a) /\ UNCHANGED <<at, failures>>
      BY <1>1, <2>3 DEF ParseFails
    <3> QED
      BY <1>0, <2>1, <3>1, LeaveInv DEF Answer
  <2> QED
    BY <2>2, <2>3
<1>2. CASE FindHandler(i) /\ Current(i) \notin Unhandled
  <2>1. Goto(i, "handling") /\ UNCHANGED <<at, failures, outcome>>
    BY <1>2 DEF FindHandler
  <2>2. answer[i] # "failures"
    BY <1>0 DEF IInv, Local, BehindInv, Ended
  <2> QED
    BY <1>0, <2>1, <2>2, PhaseInv DEF Goto
<1>3. CASE FindHandler(i) /\ Current(i) \in Unhandled
  <2>1. outcome' = [outcome EXCEPT ![i][Current(i)] = "failed"]
    BY <1>3 DEF FindHandler
  <2>2. CASE entry \in Edge
    <3>1. Answer(i, "unhandled") /\ UNCHANGED <<at, failures>>
      BY <1>3, <2>2 DEF FindHandler
    <3> QED
      BY <1>0, <2>1, <3>1, LeaveInv DEF Answer
  <2>3. CASE entry \notin Edge
    BY <1>0, <1>3, <2>1, <2>3, FailInv DEF FindHandler
  <2> QED
    BY <2>2, <2>3
<1> QED
  BY <1>1, <1>2, <1>3

\* The handler ends.
LEMMA HandlerInv ==
  ASSUME IInv, NEW i \in Invocations, HandlerReturns(i) \/ HandlerThrows(i)
  PROVE  IInv'
<1>1. phase[i] = "handling" /\ UNCHANGED <<entry, pending, completed, batch>>
  BY DEF HandlerReturns, HandlerThrows
<1>2. CASE HandlerThrows(i)
  <2>1. outcome' = [outcome EXCEPT ![i][Current(i)] = "failed"] /\ HandlingFailed(i)
    BY <1>2 DEF HandlerThrows
  <2> QED
    BY <1>1, <2>1, FailInv
<1>3. CASE HandlerReturns(i)
  <2>1. outcome' = [outcome EXCEPT ![i][Current(i)] = "succeeded"]
    BY <1>3 DEF HandlerReturns
  <2>2. CASE entry = "sqs"
    BY <1>1, <1>3, <2>1, <2>2, RecordInv DEF HandlerReturns
  <2>3. CASE entry = "direct"
    <3>1. Answer(i, "completed") /\ UNCHANGED <<at, failures>>
      BY <1>3, <2>3 DEF HandlerReturns
    <3> QED
      BY <1>1, <2>1, <3>1, LeaveInv DEF Answer, Answers, Ended
  <2>4. CASE entry \notin {"sqs", "direct"}
    <3>1. Goto(i, "acking") /\ UNCHANGED <<at, failures>>
      BY <1>3, <2>4 DEF HandlerReturns
    <3>2. "completed" \in Answers \ {"failures"}
      BY DEF Answers
    <3> QED
      BY <1>1, <2>1, <3>1, <3>2, LeaveInv DEF Goto
  <2> QED
    BY <2>2, <2>3, <2>4
<1> QED
  BY <1>2, <1>3

\* SQS deletes what was not reported: each of those records has succeeded.
LEMMA DeleteInv ==
  ASSUME IInv, NEW i \in Invocations, DeleteMessages(i)
  PROVE  IInv'
<1> DEFINE deleted == ToSet(batch[i]) \ ToSet(failures[i])
<1>1. /\ answer[i] = "failures" /\ phase[i] = "over"
      /\ pending' = pending \ deleted /\ completed' = completed \cup deleted
      /\ phase' = [phase EXCEPT ![i] = "settled"]
      /\ UNCHANGED <<entry, batch, at, failures, answer, outcome>>
  BY DEF DeleteMessages
<1>2. \A j \in deleted : j \in Jobs /\ outcome[i][j] = "succeeded"
  BY <1>1 DEF IInv, Local, ShapeInv, BehindInv, Succeeded, ToSet
<1>3. Domains' /\ entry' \in Entries /\ pending' \subseteq Jobs /\ completed' \subseteq Jobs
  BY <1>1, <1>2 DEF IInv, Domains
<1>4. CompletedWasHandled'
  BY <1>1, <1>2 DEF IInv, CompletedWasHandled
<1>5. ASSUME NEW h \in Invocations PROVE Local(h)'
  <2>1. Local(h) /\ (phase'[h] = phase[h] \/ (h = i /\ phase'[h] = "settled"))
    BY <1>1 DEF IInv, Domains
  <2>2. ShapeInv(h)'
    BY <1>1, <2>1 DEF Local, ShapeInv, Ended
  <2>3. FreshInv(h)'
    BY <1>1, <2>1 DEF Local, FreshInv
  <2>4. BehindInv(h)'
    BY <1>1, <2>1 DEF Local, BehindInv, Succeeded, Ended
  <2> QED
    BY <2>2, <2>3, <2>4 DEF Local
<1> QED
  BY <1>3, <1>4, <1>5 DEF IInv

\* The ack reaches the server: it says of a job that it succeeded.
LEMMA AckInv ==
  ASSUME IInv, NEW i \in Invocations, AckArrives(i)
  PROVE  IInv'
<1>1. /\ phase[i] # "idle" /\ outcome[i][Current(i)] = "succeeded"
      /\ pending' = pending \ {Current(i)} /\ completed' = completed \cup {Current(i)}
      /\ UNCHANGED <<entry, batch, at, phase, failures, answer, outcome>>
  BY DEF AckArrives
<1>2. Current(i) \in Jobs
  BY <1>1 DEF IInv, Local, ShapeInv, Current
<1>3. CompletedWasHandled'
  BY <1>1 DEF IInv, CompletedWasHandled
<1>4. \A h \in Invocations : Local(h)'
  BY <1>1 DEF IInv, Local, ShapeInv, FreshInv, BehindInv, Succeeded
<1> QED
  BY <1>1, <1>2, <1>3, <1>4 DEF IInv, Domains

\* The invariant is inductive.
LEMMA StepInv == IInv /\ [Next]_vars => IInv'
<1> SUFFICES ASSUME IInv, [Next]_vars PROVE IInv'
  OBVIOUS
<1>1. ASSUME NEW i \in Invocations, Kill(i) PROVE IInv'
  <2>1. phase[i] # "idle" /\ "killed" \in Ended /\ "error" \in Answers \ {"failures"}
    BY <1>1 DEF Kill, Ended, Answers
  <2> QED
    BY <1>1, <2>1, PhaseInv DEF Kill
<1>2. ASSUME NEW i \in Invocations, Deliver(i) PROVE IInv'
  BY <1>2, DeliverInv
<1>3. ASSUME NEW i \in Invocations, ParseFails(i) \/ FindHandler(i) PROVE IInv'
  BY <1>3, LookupInv
<1>4. ASSUME NEW i \in Invocations, HandlerReturns(i) \/ HandlerThrows(i) PROVE IInv'
  BY <1>4, HandlerInv
<1>5. ASSUME NEW i \in Invocations, DeleteMessages(i) PROVE IInv'
  BY <1>5, DeleteInv
<1>6. ASSUME NEW i \in Invocations, AckArrives(i) PROVE IInv'
  BY <1>6, AckInv
<1>7. ASSUME NEW i \in Invocations, AckAnswered(i) \/ NackAnswered(i) \/ NackRejects(i) PROVE IInv'
  <2>1. /\ phase[i] # "idle"
        /\ \E a \in {"completed", "failed", "error"} : Answer(i, a)
        /\ UNCHANGED <<entry, pending, completed, batch, at, failures, outcome>>
    BY <1>7 DEF AckAnswered, NackAnswered, NackRejects
  <2>2. {"completed", "failed", "error"} \subseteq Answers \ {"failures"} /\ "over" \in Ended
    BY DEF Answers, Ended
  <2> QED
    BY <2>1, <2>2, PhaseInv DEF Answer
<1>8. ASSUME NEW i \in Invocations, AckRejects(i) PROVE IInv'
  <2>1. /\ phase[i] = "acking" /\ Goto(i, "nacking")
        /\ UNCHANGED <<entry, pending, completed, batch, at, failures, outcome>>
    BY <1>8 DEF AckRejects
  <2>2. "error" \in Answers \ {"failures"} /\ answer[i] # "failures"
    BY <2>1 DEF Answers, Ended, IInv, Local, BehindInv
  <2> QED
    BY <2>1, <2>2, PhaseInv DEF Goto
<1>9. ASSUME (\E i \in Invocations : NackArrives(i)) \/ UNCHANGED vars PROVE IInv'
  <2>1. UNCHANGED <<entry, pending, completed, batch, at, phase, failures, answer, outcome>>
    BY <1>9 DEF NackArrives, vars
  <2> QED
    BY <2>1 DEF IInv, Domains, Local, ShapeInv, FreshInv, BehindInv, Succeeded, CompletedWasHandled
<1> QED
  BY <1>1, <1>2, <1>3, <1>4, <1>5, <1>6, <1>7, <1>8, <1>9 DEF Next

\* The invariant holds in every behaviour of the adapters.
THEOREM Invariance == Spec => []IInv
BY InitInv, StepInv, PTL DEF Spec

\* No job is lost: what the queue deleted or the server completed was handled
\* to its end by some invocation (lambda.ts:123-143, :186-192, cloudflare.ts:82-85).
THEOREM NoJobLost == Spec => []CompletedWasHandled
<1>1. IInv => CompletedWasHandled
  BY DEF IInv
<1> QED
  BY <1>1, Invariance, PTL

-----------------------------------------------------------------------------
(* Types *)

\* What TypeOK says and the invariant above does not.
Types(i) ==
  /\ Len(batch[i]) <= (IF entry = "sqs" THEN MaxBatch ELSE 1)
  /\ ToSet(failures[i]) \subseteq ToSet(batch[i])
  /\ answer[i] \in Answers \cup {"none"}

TypeInv ==
  /\ pending \cup completed = Jobs /\ pending \cap completed = {}
  /\ reported \in [Invocations -> SUBSET {"ack", "nack"}]
  /\ \A i \in Invocations : Types(i)

\* The initial states satisfy it.
LEMMA TypeInit == Init => TypeInv
BY ServerlessAssumption DEF Init, TypeInv, Types, ToSet

\* A platform's batch is no longer than it may be.
LEMMA DeliverType ==
  ASSUME IInv, TypeInv, NEW i \in Invocations, Deliver(i)
  PROVE  TypeInv'
<1> DEFINE n == IF entry = "sqs" THEN MaxBatch ELSE 1
<1>1. PICK records \in SeqOf(Deliverable, n) : batch' = [batch EXCEPT ![i] = records]
  BY DEF Deliver
<1>2. PICK m \in 0..n : records \in [1..m -> Deliverable]
  BY <1>1 DEF SeqOf
<1>3. m \in Nat /\ m <= n
  BY ServerlessAssumption, <1>2
<1>4. Len(records) = m
  <2>1. records \in Seq(Deliverable)
    BY <1>2, <1>3
  <2> QED
    BY <1>2, <1>3, <2>1
<1>5. phase[i] = "idle" /\ UNCHANGED <<entry, pending, completed, failures, answer, reported>>
  BY DEF Deliver
<1>6. failures[i] = <<>>
  BY <1>5 DEF IInv, Local, FreshInv
<1>7. ASSUME NEW h \in Invocations PROVE Types(h)'
  <2>1. CASE h = i
    <3>1. batch'[h] = records /\ ToSet(failures[h]) = {}
      BY <1>1, <1>6, <2>1 DEF IInv, Domains, ToSet
    <3> QED
      BY <1>3, <1>4, <1>5, <3>1 DEF TypeInv, Types
  <2>2. CASE h # i
    BY <1>1, <1>5, <2>2 DEF IInv, Domains, TypeInv, Types
  <2> QED
    BY <2>1, <2>2
<1> QED
  BY <1>5, <1>7 DEF TypeInv

\* The adapter's steps: a record becomes a failure, or an answer is given.
LEMMA AdapterType ==
  ASSUME IInv, TypeInv, NEW i \in Invocations, phase[i] # "idle",
         failures' = failures \/ failures' = [failures EXCEPT ![i] = Append(@, Current(i))],
         answer' = answer \/ \E a \in Answers : answer' = [answer EXCEPT ![i] = a],
         \E R \in SUBSET {"ack", "nack"} : reported' = [reported EXCEPT ![i] = @ \cup R],
         UNCHANGED <<entry, batch>>,
         pending' \cup completed' = Jobs /\ pending' \cap completed' = {}
  PROVE  TypeInv'
<1>1. ASSUME NEW h \in Invocations PROVE ToSet(failures'[h]) \subseteq ToSet(batch[h])
  <2>1. CASE failures'[h] = failures[h]
    BY <2>1 DEF TypeInv, Types
  <2>2. CASE h = i /\ failures'[h] = Append(failures[h], Current(h))
    <3>1. at[h] \in DOMAIN batch[h] /\ failures[h] \in Seq(Jobs)
      BY <2>2 DEF IInv, Local, ShapeInv
    <3>2. ToSet(failures[h]) \subseteq ToSet(batch[h])
      BY DEF TypeInv, Types
    <3>3. Current(h) \in ToSet(batch[h])
      BY <3>1 DEF Current, ToSet
    <3>4. ToSet(Append(failures[h], Current(h))) \subseteq ToSet(failures[h]) \cup {Current(h)}
      <4> DEFINE s == failures[h]
                 t == Append(s, Current(h))
      <4>1. \A k \in DOMAIN t : t[k] = Current(h) \/ (k \in DOMAIN s /\ t[k] = s[k])
        BY <3>1
      <4> QED
        BY <4>1 DEF ToSet
    <3> QED
      BY <2>2, <3>2, <3>3, <3>4
  <2> QED
    BY <2>1, <2>2 DEF IInv, Domains
<1>2. ASSUME NEW h \in Invocations PROVE answer'[h] \in Answers \cup {"none"}
  BY DEF IInv, Domains, TypeInv, Types
<1>3. reported' \in [Invocations -> SUBSET {"ack", "nack"}]
  BY DEF TypeInv
<1>4. \A h \in Invocations : Types(h)'
  BY <1>1, <1>2, <1>3 DEF TypeInv, Types
<1> QED
  BY <1>3, <1>4 DEF TypeInv

\* A record that fails, and the loop that goes on, are such steps.
LEMMA FailType ==
  ASSUME NEW i, HandlingFailed(i) \/ FailRecord(i) \/ (NextRecord(i) /\ UNCHANGED failures)
  PROVE  /\ failures' = failures \/ failures' = [failures EXCEPT ![i] = Append(@, Current(i))]
         /\ answer' = answer \/ \E a \in Answers : answer' = [answer EXCEPT ![i] = a]
BY DEF HandlingFailed, FailRecord, NextRecord, Goto, Answer, Answers

\* The invariant is inductive, given the one above.
LEMMA TypeStep == IInv /\ TypeInv /\ [Next]_vars => TypeInv'
<1> SUFFICES ASSUME IInv, TypeInv, [Next]_vars PROVE TypeInv'
  OBVIOUS
<1>0. \A i \in Invocations : reported = [reported EXCEPT ![i] = @ \cup {}]
  BY DEF TypeInv
<1>1. pending \cup completed = Jobs /\ pending \cap completed = {}
  BY DEF TypeInv
<1>2. ASSUME NEW i \in Invocations, Deliver(i) PROVE TypeInv'
  BY <1>2, DeliverType
<1>3. ASSUME NEW i \in Invocations, Kill(i) PROVE TypeInv'
  BY <1>0, <1>1, <1>3, AdapterType DEF Kill
<1>4. ASSUME NEW i \in Invocations, DeleteMessages(i) PROVE TypeInv'
  <2>1. ToSet(batch[i]) \subseteq Jobs /\ phase[i] # "idle"
    BY <1>4 DEF DeleteMessages, IInv, Local, ShapeInv, ToSet
  <2>2. pending' \cup completed' = Jobs /\ pending' \cap completed' = {}
    BY <1>1, <1>4, <2>1 DEF DeleteMessages
  <2> QED
    BY <1>0, <1>4, <2>1, <2>2, AdapterType DEF DeleteMessages
<1>5. ASSUME NEW i \in Invocations, ParseFails(i) PROVE TypeInv'
  <2>1. /\ failures' = failures \/ failures' = [failures EXCEPT ![i] = Append(@, Current(i))]
        /\ answer' = answer \/ \E a \in Answers : answer' = [answer EXCEPT ![i] = a]
    BY <1>5, FailType DEF ParseFails, Answer, Answers
  <2> QED
    BY <1>0, <1>1, <1>5, <2>1, AdapterType DEF ParseFails
<1>6. ASSUME NEW i \in Invocations, FindHandler(i) PROVE TypeInv'
  <2>1. /\ failures' = failures \/ failures' = [failures EXCEPT ![i] = Append(@, Current(i))]
        /\ answer' = answer \/ \E a \in Answers : answer' = [answer EXCEPT ![i] = a]
    BY <1>6, FailType DEF FindHandler, Goto, Answer, Answers
  <2> QED
    BY <1>0, <1>1, <1>6, <2>1, AdapterType DEF FindHandler
<1>7. ASSUME NEW i \in Invocations, HandlerReturns(i) \/ HandlerThrows(i) PROVE TypeInv'
  <2>1. /\ failures' = failures \/ failures' = [failures EXCEPT ![i] = Append(@, Current(i))]
        /\ answer' = answer \/ \E a \in Answers : answer' = [answer EXCEPT ![i] = a]
    BY <1>7, FailType DEF HandlerReturns, HandlerThrows, Goto, Answer, Answers
  <2>2. phase[i] # "idle" /\ UNCHANGED <<entry, pending, completed, batch, reported>>
    BY <1>7 DEF HandlerReturns, HandlerThrows
  <2> QED
    BY <1>0, <1>1, <2>1, <2>2, AdapterType
<1>8. ASSUME NEW i \in Invocations, AckArrives(i) PROVE TypeInv'
  <2>1. Current(i) \in Jobs /\ phase[i] # "idle"
    BY <1>8 DEF AckArrives, IInv, Local, ShapeInv, Current
  <2>2. pending' \cup completed' = Jobs /\ pending' \cap completed' = {}
    BY <1>1, <1>8, <2>1 DEF AckArrives
  <2>3. {"ack"} \in SUBSET {"ack", "nack"}
    OBVIOUS
  <2> QED
    BY <1>8, <2>1, <2>2, <2>3, AdapterType DEF AckArrives
<1>9. ASSUME NEW i \in Invocations, NackArrives(i) PROVE TypeInv'
  <2>1. {"nack"} \in SUBSET {"ack", "nack"}
    OBVIOUS
  <2> QED
    BY <1>1, <1>9, <2>1, AdapterType DEF NackArrives
<1>10. ASSUME NEW i \in Invocations, AckAnswered(i) \/ AckRejects(i) \/ NackAnswered(i) \/ NackRejects(i)
       PROVE  TypeInv'
  <2>1. /\ phase[i] # "idle"
        /\ answer' = answer \/ \E a \in Answers : answer' = [answer EXCEPT ![i] = a]
        /\ UNCHANGED <<entry, pending, completed, batch, failures, reported>>
    BY <1>10 DEF AckAnswered, AckRejects, NackAnswered, NackRejects, Answer, Answers, Goto
  <2> QED
    BY <1>0, <1>1, <2>1, AdapterType
<1>11. CASE UNCHANGED vars
  BY <1>11 DEF vars, TypeInv, Types
<1> QED
  BY <1>2, <1>3, <1>4, <1>5, <1>6, <1>7, <1>8, <1>9, <1>10, <1>11 DEF Next

\* Every variable keeps its type, no job is both pending and completed, and
\* what is reported as a failure is a record of the batch (lambda.ts:126-142).
THEOREM TypeCorrect == Spec => []TypeOK
<1>1. IInv /\ TypeInv => TypeOK
  <2> SUFFICES ASSUME IInv, TypeInv, NEW i \in Invocations
               PROVE  ToSet(batch[i]) \subseteq Jobs /\ at[i] \in 1..MaxBatch
    BY DEF TypeOK, TypeInv, Types, IInv, Domains, Local, ShapeInv
  <2>1. batch[i] \in Seq(Jobs) /\ at[i] \in Nat \ {0}
    BY DEF IInv, Local, ShapeInv
  <2>2. Len(batch[i]) <= MaxBatch
    BY <2>1, ServerlessAssumption DEF TypeInv, Types
  <2>3. at[i] <= MaxBatch
    BY <2>1, <2>2, ServerlessAssumption DEF IInv, Local, ShapeInv, FreshInv
  <2> QED
    BY <2>1, <2>3, ServerlessAssumption DEF ToSet
<1> QED
  BY <1>1, Invariance, TypeInit, TypeStep, PTL DEF Spec

-----------------------------------------------------------------------------
(* Failures *)

\* What is reported as a failure has not succeeded, in the order of the batch,
\* and while the loop goes on it is behind.
ExactInv ==
  \A i \in Invocations :
    /\ InBatchOrder(i)
    /\ \A x \in DOMAIN failures[i] :
         /\ ~Succeeded(i, failures[i][x])
         /\ phase[i] \in {"record", "handling"} =>
              \E m \in DOMAIN batch[i] : m < at[i] /\ batch[i][m] = failures[i][x]

\* The initial states satisfy it.
LEMMA ExactInit == Init => ExactInv
BY DEF Init, ExactInv, InBatchOrder

\* So does what leaves the failures and the outcomes alone.
LEMMA ExactKept ==
  ASSUME ExactInv, UNCHANGED <<batch, at, failures, outcome>>,
         \A i \in Invocations : phase'[i] \in {"record", "handling"} => phase[i] \in {"record", "handling"}
  PROVE  ExactInv'
BY DEF ExactInv, InBatchOrder, Succeeded

\* An invocation begins without failures.
LEMMA ExactDeliver ==
  ASSUME IInv, ExactInv, NEW i \in Invocations, Deliver(i)
  PROVE  ExactInv'
<1>1. PICK records : batch' = [batch EXCEPT ![i] = records]
  BY DEF Deliver
<1>2. /\ phase[i] = "idle" /\ phase' = [phase EXCEPT ![i] = "record"]
      /\ UNCHANGED <<at, failures, outcome>>
  BY DEF Deliver
<1>3. failures[i] = <<>> /\ failures'[i] = <<>>
  BY <1>2 DEF IInv, Local, FreshInv
<1>4. ASSUME NEW h \in Invocations, h # i
      PROVE  batch'[h] = batch[h] /\ phase'[h] = phase[h]
  BY <1>1, <1>2, <1>4 DEF IInv, Domains
<1>5. \A h \in Invocations : InBatchOrder(h)'
  BY <1>2, <1>3, <1>4 DEF ExactInv, InBatchOrder
<1>6. ASSUME NEW h \in Invocations, NEW x \in DOMAIN failures'[h]
      PROVE  /\ ~Succeeded(h, failures[h][x])'
             /\ phase'[h] \in {"record", "handling"} =>
                  \E m \in DOMAIN batch'[h] : m < at'[h] /\ batch'[h][m] = failures'[h][x]
  <2>1. h # i
    BY <1>3, <1>6
  <2> QED
    BY <1>2, <1>4, <1>6, <2>1 DEF ExactInv, Succeeded
<1> QED
  BY <1>5, <1>6 DEF ExactInv

\* The record at which invocation i is ends as v; if it is reported it has not
\* succeeded, and the loop leaves it behind.
LEMMA ExactRecord ==
  ASSUME IInv, ExactInv, NEW i \in Invocations, phase[i] \in {"record", "handling"},
         NEW v,
         outcome' = [outcome EXCEPT ![i][Current(i)] = v],
         \/ UNCHANGED failures
         \/ v # "succeeded" /\ failures' = [failures EXCEPT ![i] = Append(failures[i], Current(i))],
         NEW p, phase' = [phase EXCEPT ![i] = p],
         \/ p \notin {"record", "handling"} /\ UNCHANGED at
         \/ at' = [at EXCEPT ![i] = at[i] + 1],
         UNCHANGED batch
  PROVE  ExactInv'
<1> DEFINE j == Current(i)
           s == failures[i]
           t == failures'[i]
<1>1. /\ batch[i] \in Seq(Jobs) /\ s \in Seq(Jobs) /\ at[i] \in Nat /\ at[i] \in DOMAIN batch[i]
      /\ j = batch[i][at[i]] /\ j \in Jobs
      /\ \A k, l \in DOMAIN batch[i] : batch[i][k] = batch[i][l] => k = l
      /\ outcome[i] \in [Jobs -> {"none", "succeeded", "failed"}]
  BY DEF IInv, Local, ShapeInv, Current
<1>2. outcome'[i] = [outcome[i] EXCEPT ![j] = v] /\ phase'[i] = p
  BY DEF IInv, Domains
<1>3. ASSUME NEW h \in Invocations, h # i
      PROVE  /\ failures'[h] = failures[h] /\ phase'[h] = phase[h] /\ at'[h] = at[h]
             /\ outcome'[h] = outcome[h]
  BY <1>3 DEF IInv, Domains
<1>4. ASSUME NEW x \in DOMAIN s
      PROVE  /\ \E m \in DOMAIN batch[i] : m < at[i] /\ batch[i][m] = s[x]
             /\ outcome'[i][s[x]] # "succeeded"
  <2>1. PICK m \in DOMAIN batch[i] : m < at[i] /\ batch[i][m] = s[x]
    BY DEF ExactInv
  <2>2. s[x] # j /\ s[x] \in Jobs
    BY <1>1, <2>1
  <2>3. outcome[i][s[x]] # "succeeded"
    BY DEF ExactInv, Succeeded
  <2> QED
    BY <1>1, <1>2, <2>1, <2>2, <2>3
<1>5. \/ t = s
      \/ v # "succeeded" /\ t = Append(s, j)
  BY DEF IInv, Domains
<1>6. \A x \in DOMAIN t : \/ x \in DOMAIN s /\ t[x] = s[x]
                          \/ v # "succeeded" /\ x = Len(s) + 1 /\ t[x] = j
  <2> HIDE DEF j, s, t
  <2>1. s \in Seq(Jobs) /\ j \in Jobs
    BY <1>1
  <2>2. /\ DOMAIN Append(s, j) = 1..(Len(s) + 1) /\ DOMAIN s = 1..Len(s) /\ Len(s) \in Nat
        /\ \A x \in 1..Len(s) : Append(s, j)[x] = s[x]
        /\ Append(s, j)[Len(s) + 1] = j
    BY <2>1
  <2> QED
    BY <1>5, <2>2
<1>7. InBatchOrder(i)'
  <2> SUFFICES ASSUME NEW k \in DOMAIN t, NEW l \in DOMAIN t, k < l
               PROVE  \E m, n \in DOMAIN batch[i] : m < n /\ t[k] = batch[i][m] /\ t[l] = batch[i][n]
    BY DEF InBatchOrder
  <2>1. CASE l \in DOMAIN s /\ t[l] = s[l]
    <3>1. k \in DOMAIN s /\ t[k] = s[k]
      BY <1>1, <1>6, <2>1
    <3> QED
      BY <2>1, <3>1 DEF ExactInv, InBatchOrder
  <2>2. CASE l = Len(s) + 1 /\ t[l] = j
    <3>1. k \in DOMAIN s /\ t[k] = s[k]
      BY <1>1, <1>6, <2>2
    <3> QED
      BY <1>1, <1>4, <2>2, <3>1
  <2> QED
    BY <1>6, <2>1, <2>2
<1>8. ASSUME NEW x \in DOMAIN t
      PROVE  /\ outcome'[i][t[x]] # "succeeded"
             /\ p \in {"record", "handling"} =>
                  \E m \in DOMAIN batch[i] : m < at'[i] /\ batch[i][m] = t[x]
  <2>1. p \in {"record", "handling"} => at'[i] = at[i] + 1
    BY DEF IInv, Domains
  <2>2. CASE x \in DOMAIN s /\ t[x] = s[x]
    <3>1. PICK m \in DOMAIN batch[i] : m < at[i] /\ batch[i][m] = s[x]
      BY <1>4, <2>2
    <3>2. m < at[i] + 1
      BY <1>1, <3>1
    <3> QED
      BY <1>4, <2>1, <2>2, <3>1, <3>2
  <2>3. CASE v # "succeeded" /\ x = Len(s) + 1 /\ t[x] = j
    <3>1. at[i] < at[i] + 1
      BY <1>1
    <3> QED
      BY <1>1, <1>2, <2>1, <2>3, <3>1
  <2> QED
    BY <1>6, <2>2, <2>3
<1>9. ASSUME NEW h \in Invocations
      PROVE  /\ InBatchOrder(h)'
             /\ \A x \in DOMAIN failures'[h] :
                  /\ ~Succeeded(h, failures[h][x])'
                  /\ phase'[h] \in {"record", "handling"} =>
                       \E m \in DOMAIN batch'[h] : m < at'[h] /\ batch'[h][m] = failures'[h][x]
  <2>1. CASE h = i
    BY <1>2, <1>7, <1>8, <2>1 DEF Succeeded
  <2>2. CASE h # i
    BY <1>3, <2>2 DEF ExactInv, InBatchOrder, Succeeded
  <2> QED
    BY <2>1, <2>2
<1> QED
  BY <1>9 DEF ExactInv

\* A record that fails, or the job of another adapter, is such a step.
LEMMA ExactFail ==
  ASSUME IInv, ExactInv, NEW i \in Invocations, phase[i] \in {"record", "handling"},
         NEW v \in {"none", "failed"},
         outcome' = [outcome EXCEPT ![i][Current(i)] = v],
         HandlingFailed(i) \/ FailRecord(i),
         UNCHANGED batch
  PROVE  ExactInv'
<1>1. CASE FailRecord(i)
  <2>1. /\ failures' = [failures EXCEPT ![i] = Append(failures[i], Current(i))]
        /\ NextRecord(i)
    BY <1>1 DEF FailRecord
  <2>2. \/ phase' = [phase EXCEPT ![i] = "record"] /\ at' = [at EXCEPT ![i] = at[i] + 1]
        \/ phase' = [phase EXCEPT ![i] = "over"] /\ UNCHANGED at
    BY <2>1 DEF NextRecord, Goto, Answer
  <2> QED
    BY <2>1, <2>2, ExactRecord
<1>2. CASE HandlingFailed(i) /\ ~FailRecord(i)
  <2>1. /\ phase' = [phase EXCEPT ![i] = "over"] \/ phase' = [phase EXCEPT ![i] = "nacking"]
        /\ UNCHANGED <<at, failures>>
    BY <1>2 DEF HandlingFailed, Answer, Goto
  <2> QED
    BY <2>1, ExactRecord
<1> QED
  BY <1>1, <1>2

\* The invariant is inductive, given the first one.
LEMMA ExactStep == IInv /\ ExactInv /\ [Next]_vars => ExactInv'
<1> SUFFICES ASSUME IInv, ExactInv, [Next]_vars PROVE ExactInv'
  OBVIOUS
<1>1. ASSUME NEW i \in Invocations, Deliver(i) PROVE ExactInv'
  BY <1>1, ExactDeliver
<1>2. ASSUME NEW i \in Invocations, ParseFails(i) PROVE ExactInv'
  <2>1. phase[i] = "record" /\ UNCHANGED <<batch, outcome>>
    BY <1>2 DEF ParseFails
  <2>2. outcome' = [outcome EXCEPT ![i][Current(i)] = "none"]
    BY <2>1, NoOutcome
  <2>3. CASE entry = "sqs"
    BY <1>2, <2>1, <2>2, <2>3, ExactFail DEF ParseFails
  <2>4. CASE entry # "sqs"
    <3>1. phase' = [phase EXCEPT ![i] = "over"] /\ UNCHANGED <<at, failures>>
      BY <1>2, <2>4 DEF ParseFails, Answer
    <3> QED
      BY <2>1, <2>2, <3>1, ExactRecord
  <2> QED
    BY <2>3, <2>4
<1>3. ASSUME NEW i \in Invocations, FindHandler(i) PROVE ExactInv'
  <2>1. phase[i] = "record" /\ UNCHANGED batch
    BY <1>3 DEF FindHandler
  <2>2. CASE Current(i) \notin Unhandled
    <3>1. phase' = [phase EXCEPT ![i] = "handling"] /\ UNCHANGED <<batch, at, failures, outcome>>
      BY <1>3, <2>2 DEF FindHandler, Goto
    <3>2. \A h \in Invocations : phase'[h] \in {"record", "handling"} => phase[h] \in {"record", "handling"}
      BY <2>1, <3>1 DEF IInv, Domains
    <3> QED
      BY <3>1, <3>2, ExactKept
  <2>3. CASE Current(i) \in Unhandled
    <3>1. outcome' = [outcome EXCEPT ![i][Current(i)] = "failed"]
      BY <1>3, <2>3 DEF FindHandler
    <3>2. \/ HandlingFailed(i)
          \/ phase' = [phase EXCEPT ![i] = "over"] /\ UNCHANGED <<at, failures>>
      BY <1>3, <2>3 DEF FindHandler, Answer
    <3>3. CASE HandlingFailed(i)
      BY <2>1, <3>1, <3>3, ExactFail
    <3>4. CASE phase' = [phase EXCEPT ![i] = "over"] /\ UNCHANGED <<at, failures>>
      BY <2>1, <3>1, <3>4, ExactRecord
    <3> QED
      BY <3>2, <3>3, <3>4
  <2> QED
    BY <2>2, <2>3
<1>4. ASSUME NEW i \in Invocations, HandlerReturns(i) PROVE ExactInv'
  <2>1. /\ phase[i] = "handling" /\ UNCHANGED <<batch, failures>>
        /\ outcome' = [outcome EXCEPT ![i][Current(i)] = "succeeded"]
    BY <1>4 DEF HandlerReturns
  <2>2. \/ phase' = [phase EXCEPT ![i] = "record"] /\ at' = [at EXCEPT ![i] = at[i] + 1]
        \/ phase' = [phase EXCEPT ![i] = "over"] /\ UNCHANGED at
        \/ phase' = [phase EXCEPT ![i] = "acking"] /\ UNCHANGED at
    BY <1>4 DEF HandlerReturns, NextRecord, Goto, Answer
  <2> QED
    BY <2>1, <2>2, ExactRecord
<1>5. ASSUME NEW i \in Invocations, HandlerThrows(i) PROVE ExactInv'
  BY <1>5, ExactFail DEF HandlerThrows
<1>6. ASSUME NEW i \in Invocations,
             \/ Kill(i) \/ DeleteMessages(i) \/ AckArrives(i) \/ AckAnswered(i) \/ AckRejects(i)
             \/ NackArrives(i) \/ NackAnswered(i) \/ NackRejects(i)
      PROVE  ExactInv'
  <2>1. /\ UNCHANGED <<batch, at, failures, outcome>>
        /\ \/ phase' = phase
           \/ \E p \in {"killed", "settled", "over", "nacking"} : phase' = [phase EXCEPT ![i] = p]
    BY <1>6 DEF Kill, DeleteMessages, AckArrives, AckAnswered, AckRejects, NackArrives,
                NackAnswered, NackRejects, Answer, Goto
  <2>2. \A h \in Invocations : phase'[h] \in {"record", "handling"} => phase[h] \in {"record", "handling"}
    BY <2>1 DEF IInv, Domains
  <2> QED
    BY <2>1, <2>2, ExactKept
<1>7. CASE UNCHANGED vars
  BY <1>7, ExactKept DEF vars
<1> QED
  BY <1>1, <1>2, <1>3, <1>4, <1>5, <1>6, <1>7 DEF Next

\* What sqsHandler reports to SQS are exactly the records of its batch that did
\* not succeed, in order and once each (lambda.ts:126-142).
THEOREM ReportExact == Spec => []FailuresAreExact
<1>1. IInv /\ TypeInv /\ ExactInv => FailuresAreExact
  <2> SUFFICES ASSUME IInv, TypeInv, ExactInv, NEW i \in Invocations, answer[i] = "failures"
               PROVE  /\ ToSet(failures[i]) = {j \in ToSet(batch[i]) : outcome[i][j] # "succeeded"}
                      /\ InBatchOrder(i)
    BY DEF FailuresAreExact
  <2>1. \A j \in ToSet(failures[i]) : j \in ToSet(batch[i]) /\ outcome[i][j] # "succeeded"
    BY DEF TypeInv, Types, ExactInv, Succeeded, ToSet
  <2>2. \A j \in ToSet(batch[i]) : j \in ToSet(failures[i]) \/ outcome[i][j] = "succeeded"
    BY DEF IInv, Local, BehindInv, Succeeded, ToSet
  <2> QED
    BY <2>1, <2>2 DEF ExactInv
<1> QED
  BY <1>1, Invariance, TypeInit, TypeStep, ExactInit, ExactStep, PTL DEF Spec
=============================================================================
