------------------------------ MODULE Producer ------------------------------
(***************************************************************************)
(* The producing side: OJSClient.enqueue and enqueueBatch                  *)
(* (src/src/client.ts), the enqueue middleware of composeEnqueue           *)
(* (middleware.ts), and the test mode that takes the server's place        *)
(* (testing.ts).                                                           *)
(*                                                                         *)
(* Test mode is module-wide state: a test may change it, or drain the      *)
(* fake queue, while a call or a handler is waiting.  Between two awaits   *)
(* nothing else runs, so what happens there is one step.                   *)
(***************************************************************************)
EXTENDS SequencesExt, Integers

CONSTANTS
  Singles,     \* calls of enqueue()
  Batches,     \* calls of enqueueBatch()
  BatchSize,   \* the jobs of one of them
  Middlewares, \* length of the chain of enqueue middleware
  Drains,      \* calls of drain()
  MaxJobs,     \* options.maxJobs of those
  MaxSwitches  \* bound: calls of fake(), inline(), restore() and clearAll()

ASSUME ProducerAssumption ==
  /\ Singles \cap Batches = {}
  /\ {BatchSize, MaxJobs} \subseteq Nat \ {0}
  /\ {Middlewares, MaxSwitches} \subseteq Nat

VARIABLES
  mode,      \* "real", "fake" or "inline"; the store is null in real mode
  enqueued,  \* store.enqueued
  performed, \* store.performed
  handlers,  \* a handler is registered
  switches,  \* changes of mode and clearings so far
  phase,     \* phase[c]: where call c is
  at,        \* at[c]: its job that is being recorded
  index,     \* index[c]: composeEnqueue's index, 0 before the first dispatch
  requests,  \* requests[c]: requests it has sent
  answered,  \* calls whose request has been answered well
  draining,  \* draining[d]: where drain d is
  drained,   \* drained[d]: the job it is at, NoJob if none
  processed, \* processed[d]: jobs it has gone through
  state,     \* state[j]: the state of job j, "none" before it is recorded
  runs,      \* runs[j]: times the handler was started for it
  stray      \* jobs whose handler was running at a switch

chain == <<index, requests, answered>>
fakes == <<mode, enqueued, performed, handlers, switches, stray>>
drains == <<draining, drained, processed>>
vars == <<fakes, phase, at, chain, drains, state, runs>>

Calls   == Singles \cup Batches
Jobs    == Singles \X {1} \cup Batches \X (1..BatchSize)
NoJob   == <<>>
Settled == {"resolved", "dropped", "rejected"}
Final   == Middlewares + 1   \* the index at which finalEnqueue runs

Init ==
  /\ mode = "real"
  /\ enqueued = <<>>
  /\ performed = <<>>
  /\ handlers = FALSE
  /\ switches = 0
  /\ phase = [c \in Calls |-> "idle"]
  /\ at = [c \in Calls |-> 1]
  /\ index = [c \in Calls |-> 0]
  /\ requests = [c \in Calls |-> 0]
  /\ answered = {}
  /\ draining = [d \in Drains |-> "idle"]
  /\ drained = [d \in Drains |-> NoJob]
  /\ processed = [d \in Drains |-> 0]
  /\ state = [j \in Jobs |-> "none"]
  /\ runs = [j \in Jobs |-> 0]
  /\ stray = {}

Enter(c, p) == phase' = [phase EXCEPT ![c] = p]

-----------------------------------------------------------------------------
(* What a test does to the test mode *)

Running == {j \in Jobs : state[j] = "active"}

\* The store is made anew, dropped or emptied; running handlers go on.
Switch(m) ==
  /\ switches < MaxSwitches
  /\ switches' = switches + 1
  /\ mode' = m
  /\ enqueued' = <<>>
  /\ performed' = <<>>
  /\ stray' = stray \cup Running
  /\ UNCHANGED <<phase, at, chain, drains, state, runs>>

fake     == Switch("fake") /\ UNCHANGED handlers
inline   == Switch("inline") /\ UNCHANGED handlers
restore  == Switch("real") /\ handlers' = FALSE
clearAll == mode # "real" /\ Switch(mode) /\ UNCHANGED handlers

registerHandler ==
  /\ ~handlers
  /\ handlers' = TRUE
  /\ UNCHANGED <<mode, enqueued, performed, switches, stray, phase, at, chain, drains, state, runs>>

-----------------------------------------------------------------------------
(* enqueue and enqueueBatch in test mode *)

\* The start of a job by whoever runs its handler.
StartJob(j) ==
  /\ state' = [state EXCEPT ![j] = "active"]
  /\ runs' = [runs EXCEPT ![j] = @ + 1]

\* _recordEnqueue up to its first await.  The store may be gone by the time a
\* later job of a batch is recorded.
recordEnqueue(c, j) ==
  IF mode = "real"
  THEN Enter(c, "rejected") /\ UNCHANGED <<enqueued, state, runs>>
  ELSE /\ enqueued' = Append(enqueued, j)
       /\ IF mode = "inline" /\ handlers
          THEN Enter(c, "handling") /\ StartJob(j)
          ELSE /\ Enter(c, "recorded")
               /\ state' = [state EXCEPT ![j] = "available"]
               /\ UNCHANGED runs

\* The call finds test mode on: neither validation nor middleware.
EnqueueFake(c) ==
  /\ phase[c] = "idle"
  /\ mode # "real"
  /\ recordEnqueue(c, <<c, 1>>)
  /\ UNCHANGED <<mode, performed, handlers, switches, stray, at, chain, drains>>

\* _recordEnqueue has returned: a batch goes on to its next job.
RecordNext(c) ==
  /\ phase[c] = "recorded"
  /\ IF c \in Batches /\ at[c] < BatchSize
     THEN /\ at' = [at EXCEPT ![c] = @ + 1]
          /\ recordEnqueue(c, <<c, at[c] + 1>>)
     ELSE Enter(c, "resolved") /\ UNCHANGED <<at, enqueued, state, runs>>
  /\ UNCHANGED <<mode, performed, handlers, switches, stray, chain, drains>>

\* Mutant: only a job whose handler returns is put on performed.
PerformedIfGood(j, end) ==
  /\ state' = [state EXCEPT ![j] = end]
  /\ performed' = IF mode = "real" \/ end = "discarded" THEN performed ELSE Append(performed, j)

\* The handler has ended; the job is put on the performed list of the store
\* there is now.  If there is none, the push throws.
Perform(j, end) ==
  /\ state' = [state EXCEPT ![j] = end]
  /\ performed' = IF mode = "real" THEN performed ELSE Append(performed, j)

InlineEnds(c) ==
  /\ phase[c] = "handling"
  /\ \E end \in {"completed", "discarded"} : Perform(<<c, at[c]>>, end)
  /\ Enter(c, IF mode = "real" THEN "rejected" ELSE "recorded")
  /\ UNCHANGED <<mode, enqueued, handlers, switches, stray, at, chain, drains, runs>>

-----------------------------------------------------------------------------
(* drain *)

\* Mutant: the job is marked active only when its handler has returned.
TakeUnmarked(d, st, done, count) ==
  LET available == SelectSeq(enqueued, LAMBDA j : st[j] = "available")
      go == count < MaxJobs /\ available # <<>>
  IN  /\ drained' = [drained EXCEPT ![d] = IF go THEN available[1] ELSE NoJob]
      /\ draining' = [draining EXCEPT ![d] = IF go THEN "handling" ELSE "resolved"]
      /\ processed' = [processed EXCEPT ![d] = count]
      /\ runs' = IF go THEN [runs EXCEPT ![available[1]] = @ + 1] ELSE runs
      /\ performed' = done
      /\ state' = st

\* The places of the jobs that are available, for job states st.
Available(st) == {i \in DOMAIN enqueued : st[enqueued[i]] = "available"}

\* The loop of drain, from job states st, performed list done and count jobs
\* processed, up to its next await or its end.  With a handler it takes the
\* first available job; without one it completes, in order, the first m jobs.
DrainLoop(d, st, done, count) ==
  IF handlers /\ count < MaxJobs /\ Available(st) # {}
  THEN \E i \in Available(st) :
         /\ \A k \in Available(st) : i <= k
         /\ drained' = [drained EXCEPT ![d] = enqueued[i]]
         /\ draining' = [draining EXCEPT ![d] = "handling"]
         /\ processed' = [processed EXCEPT ![d] = count]
         /\ state' = [st EXCEPT ![enqueued[i]] = "active"]
         /\ runs' = [runs EXCEPT ![enqueued[i]] = @ + 1]
         /\ performed' = done
  ELSE \E m \in 0..(MaxJobs - count) : \E t \in [1..m -> Available(st)] :
         LET taken == {enqueued[i] : i \in Range(t)}
         IN  /\ \A k, l \in 1..m : k < l => t[k] < t[l]
             /\ \A k \in 1..m : \A i \in Available(st) \ Range(t) : t[k] < i
             /\ m = MaxJobs - count \/ Range(t) = Available(st)
             /\ drained' = [drained EXCEPT ![d] = NoJob]
             /\ draining' = [draining EXCEPT ![d] = "resolved"]
             /\ processed' = [processed EXCEPT ![d] = count + m]
             /\ state' = [j \in Jobs |-> IF j \in taken THEN "completed" ELSE st[j]]
             /\ performed' = done \o [k \in 1..m |-> enqueued[t[k]]]
             /\ UNCHANGED runs

drain(d) ==
  /\ draining[d] = "idle"
  /\ IF mode = "real"
     THEN /\ draining' = [draining EXCEPT ![d] = "rejected"]
          /\ UNCHANGED <<performed, drained, processed, state, runs>>
     ELSE DrainLoop(d, state, performed, 0)
  /\ UNCHANGED <<mode, enqueued, handlers, switches, stray, phase, at, chain>>

\* The handler has ended.  If there is no store any more, the push throws.
DrainedEnds(d) ==
  /\ draining[d] = "handling"
  /\ \E end \in {"completed", "discarded"} :
       LET ended == [state EXCEPT ![drained[d]] = end] IN
       IF mode = "real"
       THEN /\ draining' = [draining EXCEPT ![d] = "rejected"]
            /\ drained' = [drained EXCEPT ![d] = NoJob]
            /\ state' = ended
            /\ UNCHANGED <<performed, processed, runs>>
       ELSE DrainLoop(d, ended, Append(performed, drained[d]), processed[d] + 1)
  /\ UNCHANGED <<mode, enqueued, handlers, switches, stray, phase, at, chain>>

-----------------------------------------------------------------------------
(* enqueue and enqueueBatch in real mode *)

\* The function dispatch for an index it accepts.  After the last middleware
\* comes finalEnqueue, which validates the job and sends the request.
Dispatch(c, i) ==
  /\ index' = [index EXCEPT ![c] = i]
  /\ \/ i = Final /\ requests' = [requests EXCEPT ![c] = @ + 1]
     \/ UNCHANGED requests

EnqueueReal(c) ==
  /\ c \in Singles
  /\ phase[c] = "idle"
  /\ mode = "real"
  /\ Enter(c, "chain")
  /\ Dispatch(c, 1)
  /\ UNCHANGED <<fakes, at, answered, drains, state, runs>>

\* A batch goes to the transport at once: no validation, no middleware.
EnqueueBatchReal(c) ==
  /\ c \in Batches
  /\ phase[c] = "idle"
  /\ mode = "real"
  /\ Enter(c, "chain")
  /\ requests' = [requests EXCEPT ![c] = @ + 1]
  /\ UNCHANGED <<fakes, at, index, answered, drains, state, runs>>

\* Mutant: an index may be dispatched again.
CallNextAgain(c, i) ==
  /\ i \in 1..Middlewares
  /\ i <= index[c]
  /\ Dispatch(c, i + 1)
  /\ UNCHANGED <<fakes, phase, at, answered, drains, state, runs>>

\* The middleware at i calls next(), while it runs or - if it has kept the
\* function - later.  dispatch rejects a second call: nothing changes then.
CallNext(c, i) ==
  /\ i \in 1..Middlewares
  /\ i = index[c]
  /\ Dispatch(c, i + 1)
  /\ UNCHANGED <<fakes, phase, at, answered, drains, state, runs>>

ServerAnswers(c) ==
  /\ requests[c] > 0
  /\ c \notin answered
  /\ answered' = answered \cup {c}
  /\ UNCHANGED <<fakes, phase, at, index, requests, drains, state, runs>>

\* The outermost promise settles: with the server's answer, with the null of a
\* middleware that drops the job, or with an error from anywhere.
RealEnds(c) ==
  /\ phase[c] = "chain"
  /\ \/ c \in answered /\ Enter(c, "resolved")
     \/ c \in Singles /\ Middlewares > 0 /\ Enter(c, "dropped")
     \/ Enter(c, "rejected")
  /\ UNCHANGED <<fakes, at, chain, drains, state, runs>>

Next ==
  \/ fake \/ inline \/ restore \/ clearAll \/ registerHandler
  \/ \E c \in Calls :
       \/ EnqueueFake(c) \/ RecordNext(c) \/ InlineEnds(c)
       \/ EnqueueReal(c) \/ EnqueueBatchReal(c) \/ ServerAnswers(c) \/ RealEnds(c)
       \/ \E i \in 1..Middlewares : CallNext(c, i)
  \/ \E d \in Drains : drain(d) \/ DrainedEnds(d)

Spec == Init /\ [][Next]_vars

-----------------------------------------------------------------------------
(* Properties *)

Ended == {j \in Jobs : state[j] \in {"completed", "discarded"}}

\* Every variable has its type; of the performed list PerformedIsHistory says
\* what is on it.
TypeOK ==
  /\ mode \in {"real", "fake", "inline"}
  /\ mode = "real" => enqueued = <<>> /\ performed = <<>>
  /\ ToSet(enqueued) \subseteq Jobs
  /\ phase \in [Calls -> {"idle", "handling", "recorded", "chain"} \cup Settled]
  /\ at \in [Calls -> 1..BatchSize]
  /\ index \in [Calls -> 0..Final]
  /\ answered \subseteq {c \in Calls : requests[c] > 0}
  /\ draining \in [Drains -> {"idle", "handling", "resolved", "rejected"}]
  /\ \A d \in Drains : (draining[d] = "handling") = (drained[d] \in Running)
  /\ processed \in [Drains -> 0..MaxJobs]
  /\ state \in [Jobs -> {"none", "available", "active", "completed", "discarded"}]
  /\ stray \subseteq Jobs

\* The handler of a fake job is started at most once, although drains overlap
\* each other, inline handlers and changes of the mode (testing.ts:118-129,
\* :235-256).
HandledOnce == \A j \in Jobs : runs[j] <= 1

\* The performed list is the history of the jobs of the store: one that has
\* ended is on it once, well or badly, and nothing else is, but jobs that have
\* ended since the store was changed under their handler (testing.ts:123-129,
\* :243-254).
PerformedIsHistory ==
  /\ IsInjective(performed)
  /\ ToSet(performed) \subseteq (ToSet(enqueued) \cup stray) \cap Ended
  /\ \A j \in ToSet(enqueued) : j \in Ended => j \in ToSet(performed)

\* Whatever its middlewares do - wait, call next() twice, keep it for later -
\* an enqueue sends at most one request: no job is enqueued twice
\* (middleware.ts:158-181).
AtMostOneRequest == \A c \in Calls : requests[c] <= 1
=============================================================================
