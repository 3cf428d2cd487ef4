---------------------------- MODULE ProducerProofs ----------------------------
(***************************************************************************)
(* Proofs about the producing side, for any number of calls, drains,       *)
(* middlewares and changes of the test mode.                               *)
(***************************************************************************)
EXTENDS Producer, TLAPS

-----------------------------------------------------------------------------
(* At most one request *)

\* A request is sent only with the step that takes the index of a call to
\* Final, or, for a batch, with the step that starts it.
RequestInv ==
  /\ index \in [Calls -> 0..Final]
  /\ requests \in [Calls -> 0..1]
  /\ DOMAIN phase = Calls
  /\ \A c \in Calls :
       /\ phase[c] = "idle" => index[c] = 0 /\ requests[c] = 0
       /\ c \in Singles /\ requests[c] = 1 => index[c] = Final
       /\ c \in Batches => index[c] = 0

\* The initial states satisfy it.
LEMMA RequestInit == Init => RequestInv
BY ProducerAssumption DEF Init, RequestInv, Final, Calls

\* The steps of the test mode send no request, and leave no call idle that
\* was not.
LEMMA FakesSendNothing ==
  ASSUME RequestInv, UNCHANGED chain,
         UNCHANGED phase \/ \E c \in Calls, p \in {"handling", "recorded", "resolved", "dropped", "rejected"} :
                              phase' = [phase EXCEPT ![c] = p]
  PROVE  RequestInv'
BY DEF RequestInv, chain, Final

\* A call that dispatches index i, which is above the last one, sends its
\* request if i is Final.
LEMMA DispatchSends ==
  ASSUME RequestInv, NEW c \in Singles, NEW i \in 1..Final, i = index[c] + 1, Dispatch(c, i),
         phase'[c] # "idle", DOMAIN phase' = Calls,
         \A b \in Calls : b # c => phase'[b] = phase[b]
  PROVE  RequestInv'
<1>1. c \in Calls /\ c \notin Batches
  BY ProducerAssumption DEF Calls
<1>2. requests[c] = 0
  BY <1>1, ProducerAssumption DEF RequestInv, Final
<1>3. /\ index' = [index EXCEPT ![c] = i]
      /\ UNCHANGED requests \/ (i = Final /\ requests' = [requests EXCEPT ![c] = @ + 1])
  BY DEF Dispatch
<1>4. index' \in [Calls -> 0..Final] /\ requests' \in [Calls -> 0..1]
  BY <1>1, <1>2, <1>3, ProducerAssumption DEF RequestInv, Final
<1>5. \A b \in Calls : b # c => index'[b] = index[b] /\ requests'[b] = requests[b]
  BY <1>3 DEF RequestInv
<1>6. index'[c] = i /\ (requests'[c] = 1 => i = Final)
  BY <1>1, <1>2, <1>3 DEF RequestInv
<1> QED
  BY <1>1, <1>4, <1>5, <1>6 DEF RequestInv

\* The invariant is inductive.
LEMMA RequestStep == RequestInv /\ [Next]_vars => RequestInv'
<1> SUFFICES ASSUME RequestInv, [Next]_vars PROVE RequestInv'
  OBVIOUS
<1>1. CASE fake \/ inline \/ restore \/ clearAll \/ registerHandler \/ UNCHANGED vars
  BY <1>1, FakesSendNothing DEF fake, inline, restore, clearAll, registerHandler, Switch, vars, chain
<1>2. ASSUME NEW d \in Drains, drain(d) \/ DrainedEnds(d) PROVE RequestInv'
  BY <1>2, FakesSendNothing DEF drain, DrainedEnds, chain
<1>3. ASSUME NEW c \in Calls, EnqueueFake(c) \/ RecordNext(c) \/ InlineEnds(c) PROVE RequestInv'
  BY <1>3, FakesSendNothing DEF EnqueueFake, RecordNext, InlineEnds, recordEnqueue, Enter, chain
<1>4. ASSUME NEW c \in Calls, EnqueueReal(c) PROVE RequestInv'
  <2>1. c \in Singles /\ index[c] = 0 /\ 1 \in 1..Final
    BY <1>4, ProducerAssumption DEF EnqueueReal, RequestInv, Final
  <2>2. Dispatch(c, 1) /\ phase' = [phase EXCEPT ![c] = "chain"]
    BY <1>4 DEF EnqueueReal, Enter
  <2> QED
    BY <2>1, <2>2, DispatchSends DEF RequestInv
<1>5. ASSUME NEW c \in Calls, EnqueueBatchReal(c) PROVE RequestInv'
  BY <1>5, ProducerAssumption DEF EnqueueBatchReal, Enter, RequestInv, Calls
<1>6. ASSUME NEW c \in Calls, ServerAnswers(c) PROVE RequestInv'
  BY <1>6 DEF ServerAnswers, RequestInv, Final
<1>7. ASSUME NEW c \in Calls, RealEnds(c) PROVE RequestInv'
  BY <1>7, FakesSendNothing DEF RealEnds, Enter, chain
<1>8. ASSUME NEW c \in Calls, NEW i \in 1..Middlewares, CallNext(c, i) PROVE RequestInv'
  <2>1. i = index[c] /\ Dispatch(c, i + 1) /\ UNCHANGED phase
    BY <1>8 DEF CallNext
  <2>2. c \in Singles /\ phase[c] # "idle"
    BY <2>1 DEF RequestInv, Calls
  <2>3. i + 1 \in 1..Final
    BY ProducerAssumption DEF Final
  <2> QED
    BY <2>1, <2>2, <2>3, DispatchSends DEF RequestInv
<1> QED
  BY <1>1, <1>2, <1>3, <1>4, <1>5, <1>6, <1>7, <1>8 DEF Next

\* However often and however late middlewares call next(), an enqueue sends at
\* most one request (middleware.ts:158-181).
THEOREM OneRequest == Spec => []AtMostOneRequest
<1>1. RequestInv => AtMostOneRequest
  BY DEF RequestInv, AtMostOneRequest
<1> QED
  BY <1>1, RequestInit, RequestStep, PTL DEF Spec

-----------------------------------------------------------------------------
(* Handled once *)

JobStates == {"none", "available", "active", "completed", "discarded"}

\* The states of the jobs and the starts of their handlers belong together: a
\* handler is started with the step that makes its job active, and a job that
\* is active or has ended never becomes available.
RunsInv(st, r) ==
  /\ st \in [Jobs -> JobStates]
  /\ r \in [Jobs -> 0..1]
  /\ \A j \in Jobs : st[j] \in {"none", "available"} => r[j] = 0

\* The jobs of a call are recorded in order, each of them once.
Unrecorded(st) ==
  \A c \in Calls, k \in Nat :
    <<c, k>> \in Jobs /\ (phase[c] = "idle" \/ k > at[c]) => st[<<c, k>>] = "none"

\* A job in the store, at a drain or at an inline handler has been recorded.
HandlingInv ==
  /\ RunsInv(state, runs)
  /\ Unrecorded(state)
  /\ phase \in [Calls -> {"idle", "handling", "recorded", "chain"} \cup Settled]
  /\ at \in [Calls -> 1..BatchSize]
  /\ \A c \in Calls : c \in Singles \/ phase[c] = "idle" => at[c] = 1
  /\ enqueued \in Seq(Jobs)
  /\ DOMAIN draining = Drains /\ DOMAIN drained = Drains
  /\ \A d \in Drains : draining[d] = "handling" =>
       drained[d] \in Jobs /\ state[drained[d]] \notin {"none", "available"}
  /\ \A c \in Calls : phase[c] = "handling" => state[<<c, at[c]>>] # "available"

\* The job a call is at is one of its jobs.
LEMMA CurrentIsJob ==
  ASSUME ProducerAssumption, NEW c \in Calls, NEW k \in 1..BatchSize, c \in Singles => k = 1
  PROVE  <<c, k>> \in Jobs
BY DEF Calls, Jobs

\* The initial states satisfy it.
LEMMA HandlingInit == Init => HandlingInv
BY ProducerAssumption DEF Init, HandlingInv, RunsInv, Unrecorded, JobStates

\* The record of a job that has not been recorded.
LEMMA RecordInv ==
  ASSUME HandlingInv, NEW c \in Calls, NEW k \in 1..BatchSize, c \in Singles => k = 1,
         state[<<c, k>>] = "none",
         phase[c] \in {"idle", "recorded"},
         k = IF phase[c] = "idle" THEN 1 ELSE at[c] + 1,
         at' = [at EXCEPT ![c] = k],
         recordEnqueue(c, <<c, k>>),
         UNCHANGED <<draining, drained>>
  PROVE  HandlingInv'
<1> DEFINE j == <<c, k>>
<1>1. j \in Jobs
  BY ProducerAssumption, CurrentIsJob
<1>2. at' \in [Calls -> 1..BatchSize] /\ at'[c] = k /\ k >= at[c]
  BY ProducerAssumption DEF HandlingInv
<1>3. \E p \in {"rejected", "handling", "recorded"} : phase' = [phase EXCEPT ![c] = p]
  BY DEF recordEnqueue, Enter
<1>4. phase' \in [Calls -> {"idle", "handling", "recorded", "chain"} \cup Settled] /\ phase'[c] # "idle"
  BY <1>3 DEF HandlingInv, Settled
<1>5. \A b \in Calls : b # c => phase'[b] = phase[b] /\ at'[b] = at[b]
  BY <1>3 DEF HandlingInv
<1>6. enqueued' \in Seq(Jobs)
  <2>1. Append(enqueued, j) \in Seq(Jobs)
    BY <1>1 DEF HandlingInv
  <2>2. enqueued' = Append(enqueued, j) \/ enqueued' = enqueued
    BY DEF recordEnqueue
  <2> QED
    BY <2>1, <2>2 DEF HandlingInv
<1>7. \E v \in {"none", "active", "available"} :
        /\ state' = [state EXCEPT ![j] = v]
        /\ runs' = IF v = "active" THEN [runs EXCEPT ![j] = @ + 1] ELSE runs
        /\ phase'[c] = "handling" => v = "active"
  <2>1. CASE mode = "real"
    <3>1. state' = [state EXCEPT ![j] = "none"]
      BY <1>1, <2>1 DEF recordEnqueue, HandlingInv, RunsInv
    <3> QED
      BY <2>1, <3>1 DEF recordEnqueue, Enter, HandlingInv
  <2>2. CASE mode # "real" /\ mode = "inline" /\ handlers
    BY <2>2 DEF recordEnqueue, Enter, StartJob
  <2>3. CASE mode # "real" /\ ~(mode = "inline" /\ handlers)
    BY <2>3 DEF recordEnqueue, Enter, HandlingInv
  <2> QED
    BY <2>1, <2>2, <2>3
<1>8. RunsInv(state, runs)'
  <2>1. PICK v \in {"none", "active", "available"} :
          /\ state' = [state EXCEPT ![j] = v]
          /\ runs' = IF v = "active" THEN [runs EXCEPT ![j] = @ + 1] ELSE runs
    BY <1>7
  <2>2. state \in [Jobs -> JobStates] /\ runs \in [Jobs -> 0..1] /\ runs[j] = 0
    BY <1>1 DEF HandlingInv, RunsInv
  <2>3. state' \in [Jobs -> JobStates] /\ runs' \in [Jobs -> 0..1]
    BY <1>1, <2>1, <2>2 DEF JobStates
  <2>4. \A i \in Jobs : state'[i] \in {"none", "available"} => runs'[i] = 0
    BY <1>1, <2>1, <2>2 DEF HandlingInv, RunsInv
  <2> QED
    BY <2>3, <2>4 DEF RunsInv
<1>9. Unrecorded(state)'
  <2> SUFFICES ASSUME NEW b \in Calls, NEW i \in Nat, <<b, i>> \in Jobs,
                      phase'[b] = "idle" \/ i > at'[b]
               PROVE  state'[<<b, i>>] = "none"
    BY DEF Unrecorded
  <2>1. <<b, i>> # j /\ (phase[b] = "idle" \/ i > at[b])
    BY <1>2, <1>4, <1>5 DEF HandlingInv
  <2> QED
    BY <2>1, <1>7 DEF HandlingInv, Unrecorded, RunsInv
<1>10. \A b \in Calls : b \in Singles \/ phase'[b] = "idle" => at'[b] = 1
  BY <1>2, <1>4, <1>5 DEF HandlingInv
<1>11. /\ DOMAIN draining' = Drains /\ DOMAIN drained' = Drains
       /\ \A d \in Drains : draining'[d] = "handling" =>
            drained'[d] \in Jobs /\ state'[drained'[d]] \notin {"none", "available"}
  BY <1>7 DEF HandlingInv, RunsInv
<1>12. \A b \in Calls : phase'[b] = "handling" => state'[<<b, at'[b]>>] # "available"
  <2> SUFFICES ASSUME NEW b \in Calls, phase'[b] = "handling"
               PROVE  state'[<<b, at'[b]>>] # "available"
    OBVIOUS
  <2>1. CASE b = c
    BY <1>1, <1>2, <1>7, <2>1 DEF HandlingInv, RunsInv
  <2>2. CASE b # c
    <3>1. <<b, at[b]>> # j /\ <<b, at[b]>> \in Jobs
      BY <2>2, ProducerAssumption, CurrentIsJob DEF HandlingInv
    <3>2. phase[b] = "handling" /\ at'[b] = at[b]
      BY <1>5, <2>2
    <3> QED
      BY <1>7, <3>1, <3>2 DEF HandlingInv, RunsInv
  <2> QED
    BY <2>1, <2>2
<1> QED
  BY <1>2, <1>4, <1>6, <1>8, <1>9, <1>10, <1>11, <1>12 DEF HandlingInv
\* The loop of drain, started with job states st.
LEMMA DrainLoopInv ==
  ASSUME HandlingInv, NEW d \in Drains, NEW st, NEW done, NEW count,
         RunsInv(st, runs), Unrecorded(st),
         \A e \in Drains \ {d} : draining[e] = "handling" => st[drained[e]] \notin {"none", "available"},
         \A c \in Calls : phase[c] = "handling" => st[<<c, at[c]>>] # "available",
         DrainLoop(d, st, done, count),
         UNCHANGED <<phase, at, enqueued>>
  PROVE  HandlingInv'
<1>1. \A i \in Available(st) : enqueued[i] \in Jobs /\ st[enqueued[i]] = "available"
  BY DEF Available, HandlingInv
<1>2. \A c \in Calls : phase[c] = "handling" => <<c, at[c]>> \in Jobs
  BY ProducerAssumption, CurrentIsJob DEF HandlingInv
<1>3. CASE handlers /\ count < MaxJobs /\ Available(st) # {}
  <2>1. PICK i \in Available(st) :
          /\ drained' = [drained EXCEPT ![d] = enqueued[i]]
          /\ draining' = [draining EXCEPT ![d] = "handling"]
          /\ state' = [st EXCEPT ![enqueued[i]] = "active"]
          /\ runs' = [runs EXCEPT ![enqueued[i]] = @ + 1]
    BY <1>3 DEF DrainLoop
  <2>2. enqueued[i] \in Jobs /\ st[enqueued[i]] = "available" /\ runs[enqueued[i]] = 0
    BY <1>1 DEF RunsInv
  <2>3. RunsInv(state, runs)'
    BY <2>1, <2>2 DEF RunsInv, JobStates
  <2>4. Unrecorded(state)'
    BY <2>1, <2>2 DEF Unrecorded, RunsInv
  <2>5. \A e \in Drains : draining'[e] = "handling" =>
          drained'[e] \in Jobs /\ state'[drained'[e]] \notin {"none", "available"}
    BY <2>1, <2>2 DEF HandlingInv, RunsInv
  <2>6. \A c \in Calls : phase'[c] = "handling" => state'[<<c, at'[c]>>] # "available"
    BY <1>2, <2>1, <2>2 DEF RunsInv
  <2> QED
    BY <2>1, <2>3, <2>4, <2>5, <2>6 DEF HandlingInv
<1>4. CASE ~(handlers /\ count < MaxJobs /\ Available(st) # {})
  <2>1. PICK taken \in SUBSET {enqueued[i] : i \in Available(st)} :
          /\ drained' = [drained EXCEPT ![d] = NoJob]
          /\ draining' = [draining EXCEPT ![d] = "resolved"]
          /\ state' = [j \in Jobs |-> IF j \in taken THEN "completed" ELSE st[j]]
          /\ runs' = runs
    <3>0. PICK m \in 0..(MaxJobs - count) : \E t \in [1..m -> Available(st)] :
            /\ drained' = [drained EXCEPT ![d] = NoJob]
            /\ draining' = [draining EXCEPT ![d] = "resolved"]
            /\ state' = [j \in Jobs |-> IF j \in {enqueued[i] : i \in Range(t)} THEN "completed" ELSE st[j]]
            /\ runs' = runs
      BY <1>4 DEF DrainLoop
    <3>1. PICK t \in [1..m -> Available(st)] :
            /\ drained' = [drained EXCEPT ![d] = NoJob]
            /\ draining' = [draining EXCEPT ![d] = "resolved"]
            /\ state' = [j \in Jobs |-> IF j \in {enqueued[i] : i \in Range(t)} THEN "completed" ELSE st[j]]
            /\ runs' = runs
      BY <3>0
    <3>2. {enqueued[i] : i \in Range(t)} \in SUBSET {enqueued[i] : i \in Available(st)}
      BY DEF Range
    <3> QED
      BY <3>1, <3>2
  <2>2. \A j \in taken : j \in Jobs /\ st[j] = "available"
    BY <1>1, <2>1
  <2>3. RunsInv(state, runs)'
    BY <2>1, <2>2 DEF RunsInv, JobStates
  <2>4. Unrecorded(state)'
    BY <2>1, <2>2 DEF Unrecorded
  <2>5. \A e \in Drains : draining'[e] = "handling" =>
          drained'[e] \in Jobs /\ state'[drained'[e]] \notin {"none", "available"}
    BY <2>1, <2>2 DEF HandlingInv
  <2>6. \A c \in Calls : phase'[c] = "handling" => state'[<<c, at'[c]>>] # "available"
    BY <1>2, <2>1, <2>2
  <2> QED
    BY <2>1, <2>3, <2>4, <2>5, <2>6 DEF HandlingInv
<1> QED
  BY <1>3, <1>4

\* A drain starts, or goes on when its handler has ended.
LEMMA DrainInv ==
  ASSUME HandlingInv, NEW d \in Drains, drain(d) \/ DrainedEnds(d)
  PROVE  HandlingInv'
<1>1. UNCHANGED <<phase, at, enqueued>>
  BY DEF drain, DrainedEnds
<1>2. CASE drain(d) /\ mode = "real"
  BY <1>1, <1>2 DEF drain, HandlingInv, RunsInv, Unrecorded
<1>3. CASE drain(d) /\ mode # "real"
  <2>1. DrainLoop(d, state, performed, 0)
    BY <1>3 DEF drain
  <2> QED
    BY <1>1, <2>1, DrainLoopInv DEF HandlingInv
<1>4. CASE DrainedEnds(d)
  <2>1. PICK end \in {"completed", "discarded"} :
          LET ended == [state EXCEPT ![drained[d]] = end] IN
          IF mode = "real"
          THEN /\ draining' = [draining EXCEPT ![d] = "rejected"]
               /\ drained' = [drained EXCEPT ![d] = NoJob]
               /\ state' = ended
               /\ UNCHANGED <<performed, processed, runs>>
          ELSE DrainLoop(d, ended, Append(performed, drained[d]), processed[d] + 1)
    BY <1>4 DEF DrainedEnds
  <2> DEFINE ended == [state EXCEPT ![drained[d]] = end]
  <2>2. drained[d] \in Jobs /\ state[drained[d]] \notin {"none", "available"}
    BY <1>4 DEF DrainedEnds, HandlingInv
  <2>3. RunsInv(ended, runs)
    BY <2>2 DEF HandlingInv, RunsInv, JobStates
  <2>4. Unrecorded(ended)
    BY <2>2 DEF HandlingInv, RunsInv, Unrecorded
  <2>5. \A e \in Drains \ {d} : draining[e] = "handling" => ended[drained[e]] \notin {"none", "available"}
    BY <2>2 DEF HandlingInv, RunsInv
  <2>6. \A c \in Calls : phase[c] = "handling" => ended[<<c, at[c]>>] # "available"
    <3>1. \A c \in Calls : phase[c] = "handling" => <<c, at[c]>> \in Jobs
      BY ProducerAssumption, CurrentIsJob DEF HandlingInv
    <3> QED
      BY <2>2, <3>1 DEF HandlingInv, RunsInv
  <2>7. CASE mode = "real"
    <3>1. /\ draining' = [draining EXCEPT ![d] = "rejected"]
          /\ drained' = [drained EXCEPT ![d] = NoJob]
          /\ state' = ended
          /\ runs' = runs
      BY <2>1, <2>7
    <3>2. RunsInv(state, runs)'
      BY <2>3, <3>1
    <3>3. Unrecorded(state)'
      BY <1>1, <2>4, <3>1 DEF Unrecorded
    <3>4. \A e \in Drains : draining'[e] = "handling" =>
            drained'[e] \in Jobs /\ state'[drained'[e]] \notin {"none", "available"}
      BY <2>5, <3>1 DEF HandlingInv
    <3> HIDE DEF ended
    <3> QED
      BY <1>1, <2>6, <3>1, <3>2, <3>3, <3>4 DEF HandlingInv
  <2>8. CASE mode # "real"
    <3>1. DrainLoop(d, ended, Append(performed, drained[d]), processed[d] + 1)
      BY <2>1, <2>8
    <3> HIDE DEF ended
    <3> QED
      BY <1>1, <2>3, <2>4, <2>5, <2>6, <3>1, DrainLoopInv
  <2> QED
    BY <2>7, <2>8
<1> QED
  BY <1>2, <1>3, <1>4

\* The steps of enqueue and enqueueBatch in test mode.
LEMMA EnqueueInv ==
  ASSUME HandlingInv, NEW c \in Calls, EnqueueFake(c) \/ RecordNext(c) \/ InlineEnds(c)
  PROVE  HandlingInv'
<1>1. UNCHANGED <<draining, drained>>
  BY DEF EnqueueFake, RecordNext, InlineEnds, drains
<1>2. CASE EnqueueFake(c)
  <2>1. <<c, 1>> \in Jobs /\ 1 \in 1..BatchSize
    BY ProducerAssumption, CurrentIsJob
  <2>2. state[<<c, 1>>] = "none" /\ at' = [at EXCEPT ![c] = 1] /\ phase[c] = "idle"
    BY <1>2, <2>1, ProducerAssumption DEF EnqueueFake, HandlingInv, Unrecorded
  <2>3. recordEnqueue(c, <<c, 1>>)
    BY <1>2 DEF EnqueueFake
  <2> QED
    BY <1>1, <2>1, <2>2, <2>3, RecordInv
<1>3. CASE RecordNext(c) /\ c \in Batches /\ at[c] < BatchSize
  <2>1. at[c] + 1 \in 1..BatchSize /\ c \notin Singles
    BY <1>3, ProducerAssumption DEF HandlingInv
  <2>2. <<c, at[c] + 1>> \in Jobs
    BY <2>1, ProducerAssumption, CurrentIsJob
  <2>3. /\ state[<<c, at[c] + 1>>] = "none"
        /\ at' = [at EXCEPT ![c] = at[c] + 1]
        /\ phase[c] = "recorded"
        /\ recordEnqueue(c, <<c, at[c] + 1>>)
    BY <1>3, <2>1, <2>2, ProducerAssumption DEF RecordNext, HandlingInv, Unrecorded
  <2> QED
    BY <1>1, <2>1, <2>3, RecordInv
<1>4. CASE RecordNext(c) /\ ~(c \in Batches /\ at[c] < BatchSize)
  <2>1. /\ phase[c] = "recorded" /\ phase' = [phase EXCEPT ![c] = "resolved"]
        /\ UNCHANGED <<at, enqueued, state, runs>>
    BY <1>4 DEF RecordNext, Enter
  <2> QED
    BY <1>1, <2>1 DEF HandlingInv, Unrecorded, Settled
<1>5. CASE InlineEnds(c)
  <2>1. PICK end \in {"completed", "discarded"} : state' = [state EXCEPT ![<<c, at[c]>>] = end]
    BY <1>5 DEF InlineEnds, Perform
  <2>2. PICK p \in {"rejected", "recorded"} : phase' = [phase EXCEPT ![c] = p]
    BY <1>5 DEF InlineEnds, Enter
  <2>3. phase[c] = "handling" /\ UNCHANGED <<at, enqueued, runs>>
    BY <1>5 DEF InlineEnds
  <2>4. RunsInv(state, runs)'
    BY <2>1, <2>3 DEF HandlingInv, RunsInv, JobStates
  <2>5. Unrecorded(state)'
    <3> SUFFICES ASSUME NEW b \in Calls, NEW i \in Nat, <<b, i>> \in Jobs,
                        phase'[b] = "idle" \/ i > at'[b]
                 PROVE  state'[<<b, i>>] = "none"
      BY DEF Unrecorded
    <3>1. <<b, i>> # <<c, at[c]>> /\ (phase[b] = "idle" \/ i > at[b])
      BY <2>2, <2>3, ProducerAssumption DEF HandlingInv
    <3> QED
      BY <2>1, <3>1 DEF HandlingInv, Unrecorded, RunsInv
  <2>6. \A d \in Drains : draining'[d] = "handling" =>
          drained'[d] \in Jobs /\ state'[drained'[d]] \notin {"none", "available"}
    BY <1>1, <2>1 DEF HandlingInv, RunsInv
  <2>7. \A b \in Calls : phase'[b] = "handling" => state'[<<b, at'[b]>>] # "available"
    <3>1. \A b \in Calls : <<b, at[b]>> \in Jobs \/ phase[b] # "handling"
      BY ProducerAssumption, CurrentIsJob DEF HandlingInv
    <3> QED
      BY <2>1, <2>2, <2>3, <3>1 DEF HandlingInv, RunsInv
  <2> QED
    BY <1>1, <2>2, <2>3, <2>4, <2>5, <2>6, <2>7 DEF HandlingInv, Settled
<1> QED
  BY <1>2, <1>3, <1>4, <1>5

\* The invariant is inductive.
LEMMA HandlingStep == HandlingInv /\ [Next]_vars => HandlingInv'
<1> SUFFICES ASSUME HandlingInv, [Next]_vars PROVE HandlingInv'
  OBVIOUS
<1>1. CASE fake \/ inline \/ restore \/ clearAll
  <2>1. enqueued' = <<>> /\ UNCHANGED <<phase, at, draining, drained, state, runs>>
    BY <1>1 DEF fake, inline, restore, clearAll, Switch, drains
  <2> QED
    BY <2>1 DEF HandlingInv, Unrecorded
<1>2. CASE registerHandler \/ UNCHANGED vars
  BY <1>2 DEF registerHandler, vars, fakes, drains, HandlingInv, Unrecorded
<1>3. ASSUME NEW d \in Drains, drain(d) \/ DrainedEnds(d) PROVE HandlingInv'
  BY <1>3, DrainInv
<1>4. ASSUME NEW c \in Calls, EnqueueFake(c) \/ RecordNext(c) \/ InlineEnds(c) PROVE HandlingInv'
  BY <1>4, EnqueueInv
<1>5. ASSUME NEW c \in Calls, EnqueueReal(c) \/ EnqueueBatchReal(c) \/ RealEnds(c) PROVE HandlingInv'
  <2>1. UNCHANGED <<at, enqueued, draining, drained, state, runs>>
    BY <1>5 DEF EnqueueReal, EnqueueBatchReal, RealEnds, fakes, drains
  <2>2. PICK p \in {"chain"} \cup Settled : phase' = [phase EXCEPT ![c] = p]
    BY <1>5 DEF EnqueueReal, EnqueueBatchReal, RealEnds, Enter, Settled
  <2> QED
    BY <2>1, <2>2 DEF HandlingInv, Unrecorded, Settled
<1>6. ASSUME NEW c \in Calls, ServerAnswers(c) \/ \E i \in 1..Middlewares : CallNext(c, i)
      PROVE  HandlingInv'
  BY <1>6 DEF ServerAnswers, CallNext, fakes, drains, HandlingInv, Unrecorded
<1> QED
  BY <1>1, <1>2, <1>3, <1>4, <1>5, <1>6 DEF Next

\* However drains, inline handlers and changes of the mode overlap, the
\* handler of a fake job is started at most once (testing.ts:118-129, :235-256).
THEOREM FakesHandledOnce == Spec => []HandledOnce
<1>1. HandlingInv => HandledOnce
  BY DEF HandlingInv, RunsInv, HandledOnce
<1> QED
  BY <1>1, HandlingInit, HandlingStep, PTL DEF Spec

-----------------------------------------------------------------------------
(* Types *)

\* Jobs in st that are being handled have one handler each, a drain's or an
\* inline one; X are the drains that are between two jobs.
Owned(st, X) ==
  /\ \A d \in Drains \ X : draining[d] = "handling" => st[drained[d]] = "active"
  /\ \A d, e \in Drains \ X : draining[d] = "handling" /\ draining[e] = "handling" /\ d # e => drained[d] # drained[e]
  /\ \A c \in Calls : phase[c] = "handling" =>
       /\ st[<<c, at[c]>>] = "active"
       /\ \A d \in Drains \ X : draining[d] = "handling" => drained[d] # <<c, at[c]>>

TypeInv ==
  /\ mode \in {"real", "fake", "inline"}
  /\ mode = "real" => enqueued = <<>> /\ performed = <<>>
  /\ Owned(state, {})
  /\ draining \in [Drains -> {"idle", "handling", "resolved", "rejected"}]
  /\ DOMAIN drained = Drains
  /\ \A d \in Drains : draining[d] # "handling" => drained[d] = NoJob
  /\ processed \in [Drains -> 0..MaxJobs]
  /\ \A d \in Drains : draining[d] = "handling" => processed[d] < MaxJobs
  /\ answered \subseteq {c \in Calls : requests[c] > 0}
  /\ stray \subseteq Jobs

\* The initial states satisfy it.
LEMMA TypeInit == Init => TypeInv
BY ProducerAssumption DEF Init, TypeInv, Owned, NoJob

\* The record of a job that was in no store.
LEMMA RecordType ==
  ASSUME HandlingInv, TypeInv, NEW c \in Calls, NEW k \in 1..BatchSize, c \in Singles => k = 1,
         state[<<c, k>>] = "none", phase[c] # "handling",
         at' = [at EXCEPT ![c] = k],
         recordEnqueue(c, <<c, k>>),
         UNCHANGED <<mode, performed, stray, answered, requests, draining, drained, processed>>
  PROVE  TypeInv'
<1> DEFINE j == <<c, k>>
<1>1. j \in Jobs
  BY ProducerAssumption, CurrentIsJob
<1>2. state \in [Jobs -> JobStates] /\ at \in [Calls -> 1..BatchSize] /\ DOMAIN phase = Calls
  BY DEF HandlingInv, RunsInv
<1>3. \E v \in {"none", "active", "available"}, p \in {"rejected", "handling", "recorded"} :
        /\ state' = [state EXCEPT ![j] = v]
        /\ phase' = [phase EXCEPT ![c] = p]
        /\ p = "handling" => v = "active"
  <2>1. CASE mode = "real"
    <3>1. state' = [state EXCEPT ![j] = "none"] /\ phase' = [phase EXCEPT ![c] = "rejected"]
      BY <1>1, <1>2, <2>1 DEF recordEnqueue, Enter
    <3> QED
      BY <3>1
  <2>2. CASE mode # "real" /\ mode = "inline" /\ handlers
    BY <2>2 DEF recordEnqueue, Enter, StartJob
  <2>3. CASE mode # "real" /\ ~(mode = "inline" /\ handlers)
    BY <2>3 DEF recordEnqueue, Enter
  <2> QED
    BY <2>1, <2>2, <2>3
<1>4. PICK v \in {"none", "active", "available"}, p \in {"rejected", "handling", "recorded"} :
        /\ state' = [state EXCEPT ![j] = v]
        /\ phase' = [phase EXCEPT ![c] = p]
        /\ p = "handling" => v = "active"
  BY <1>3
<1>5. /\ \A i \in Jobs : i # j => state'[i] = state[i]
      /\ state'[j] = v
  BY <1>1, <1>2, <1>4
<1>6. /\ \A b \in Calls : b # c => phase'[b] = phase[b] /\ at'[b] = at[b]
      /\ phase'[c] = p /\ at'[c] = k
  BY <1>2, <1>4
<1>8. \A d \in Drains : draining[d] = "handling" => drained[d] \in Jobs /\ drained[d] # j
  BY DEF HandlingInv, TypeInv, Owned
<1>9. \A b \in Calls : phase[b] = "handling" => <<b, at[b]>> \in Jobs /\ <<b, at[b]>> # j
  BY ProducerAssumption, CurrentIsJob DEF HandlingInv, TypeInv, Owned
<1>10. Owned(state, {})'
  <2>1. \A d \in Drains : draining'[d] = "handling" => state'[drained'[d]] = "active"
    BY <1>5, <1>8 DEF TypeInv, Owned
  <2>2. \A d, e \in Drains : draining'[d] = "handling" /\ draining'[e] = "handling" /\ d # e => drained'[d] # drained'[e]
    BY DEF TypeInv, Owned
  <2>3. ASSUME NEW b \in Calls, phase'[b] = "handling"
        PROVE  /\ state'[<<b, at'[b]>>] = "active"
               /\ \A d \in Drains : draining'[d] = "handling" => drained'[d] # <<b, at'[b]>>
    <3>1. CASE b = c
      BY <1>4, <1>5, <1>6, <1>8, <2>3, <3>1
    <3>2. CASE b # c
      <4>1. phase[b] = "handling" /\ at'[b] = at[b] /\ <<b, at[b]>> \in Jobs /\ <<b, at[b]>> # j
        BY <1>6, <1>9, <2>3, <3>2
      <4>2. state'[<<b, at[b]>>] = state[<<b, at[b]>>]
        BY <1>5, <4>1
      <4> QED
        BY <4>1, <4>2 DEF TypeInv, Owned
    <3> QED
      BY <3>1, <3>2
  <2> QED
    BY <2>1, <2>2, <2>3 DEF Owned
<1>11. mode = "real" => enqueued' = <<>>
  BY DEF recordEnqueue, TypeInv
<1> QED
  BY <1>10, <1>11 DEF TypeInv

\* The inline handler ends.
LEMMA InlineType ==
  ASSUME HandlingInv, TypeInv, NEW c \in Calls, InlineEnds(c)
  PROVE  TypeInv'
<1> DEFINE j == <<c, at[c]>>
<1>1. PICK end \in {"completed", "discarded"}, p \in {"rejected", "recorded"} :
        /\ state' = [state EXCEPT ![j] = end]
        /\ performed' = IF mode = "real" THEN performed ELSE Append(performed, j)
        /\ phase' = [phase EXCEPT ![c] = p]
  BY DEF InlineEnds, Perform, Enter
<1>2. /\ phase[c] = "handling"
      /\ UNCHANGED <<mode, enqueued, stray, at, answered, requests, draining, drained, processed>>
  BY DEF InlineEnds, chain, drains
<1>3. \A b \in Calls : phase[b] = "handling" => <<b, at[b]>> \in Jobs
  BY ProducerAssumption, CurrentIsJob DEF HandlingInv
<1>4. state \in [Jobs -> JobStates] /\ DOMAIN phase = Calls /\ j \in Jobs
  BY <1>2, <1>3 DEF HandlingInv, RunsInv
<1>5. state'[j] = end /\ \A i \in Jobs : i # j => state'[i] = state[i]
  BY <1>1, <1>4
<1>7. \A d \in Drains : draining[d] = "handling" => drained[d] \in Jobs /\ drained[d] # j
  BY <1>2 DEF HandlingInv, TypeInv, Owned
<1>8. \A b \in Calls : phase'[b] = "handling" => phase[b] = "handling" /\ <<b, at[b]>> # j
  BY <1>1, <1>4
<1>9. Owned(state, {})'
  BY <1>2, <1>3, <1>5, <1>7, <1>8 DEF TypeInv, Owned
<1>10. mode = "real" => performed' = <<>>
  BY <1>1 DEF TypeInv
<1> QED
  BY <1>2, <1>9, <1>10 DEF TypeInv

\* The loop of drain d, started with job states st.
LEMMA DrainLoopType ==
  ASSUME HandlingInv, TypeInv, NEW d \in Drains, NEW st \in [Jobs -> JobStates], NEW done,
         NEW count \in 0..MaxJobs, mode # "real", Owned(st, {d}),
         DrainLoop(d, st, done, count),
         UNCHANGED <<mode, phase, at, enqueued, stray, answered, requests>>
  PROVE  TypeInv'
<1>1. \A i \in Available(st) : enqueued[i] \in Jobs /\ st[enqueued[i]] = "available"
  BY DEF Available, HandlingInv
<1>2. \A c \in Calls : phase[c] = "handling" => <<c, at[c]>> \in Jobs
  BY ProducerAssumption, CurrentIsJob DEF HandlingInv
<1>3. \A e \in Drains : draining[e] = "handling" => drained[e] \in Jobs
  BY DEF HandlingInv
<1>4. CASE handlers /\ count < MaxJobs /\ Available(st) # {}
  <2>1. PICK i \in Available(st) :
          /\ drained' = [drained EXCEPT ![d] = enqueued[i]]
          /\ draining' = [draining EXCEPT ![d] = "handling"]
          /\ processed' = [processed EXCEPT ![d] = count]
          /\ state' = [st EXCEPT ![enqueued[i]] = "active"]
          /\ performed' = done
    BY <1>4 DEF DrainLoop
  <2> DEFINE j == enqueued[i]
  <2>2. j \in Jobs /\ st[j] = "available"
    BY <1>1
  <2>3. state'[j] = "active" /\ \A k \in Jobs : k # j => state'[k] = st[k]
    BY <2>1, <2>2
  <2>4. /\ drained'[d] = j /\ processed'[d] < MaxJobs
        /\ \A e \in Drains \ {d} : drained'[e] = drained[e] /\ draining'[e] = draining[e]
    BY <1>4, <2>1 DEF TypeInv
  <2>5. \A e \in Drains \ {d} : draining[e] = "handling" => st[drained[e]] = "active" /\ drained[e] # j
    BY <2>2 DEF Owned
  <2>6. \A c \in Calls : phase[c] = "handling" => st[<<c, at[c]>>] = "active" /\ <<c, at[c]>> # j
    BY <2>2 DEF Owned
  <2>7. \A e \in Drains : draining'[e] = "handling" => state'[drained'[e]] = "active"
    BY <1>3, <2>3, <2>4, <2>5
  <2>8. \A e, f \in Drains : draining'[e] = "handling" /\ draining'[f] = "handling" /\ e # f => drained'[e] # drained'[f]
    BY <2>4, <2>5 DEF Owned
  <2>9. \A c \in Calls : phase'[c] = "handling" =>
          /\ state'[<<c, at'[c]>>] = "active"
          /\ \A e \in Drains : draining'[e] = "handling" => drained'[e] # <<c, at'[c]>>
    BY <1>2, <2>3, <2>4, <2>6 DEF Owned
  <2>10. Owned(state, {})'
    BY <2>7, <2>8, <2>9 DEF Owned
  <2>11. /\ draining' \in [Drains -> {"idle", "handling", "resolved", "rejected"}]
         /\ processed' \in [Drains -> 0..MaxJobs] /\ DOMAIN drained' = Drains
         /\ \A e \in Drains : draining'[e] # "handling" => drained'[e] = NoJob
         /\ \A e \in Drains : draining'[e] = "handling" => processed'[e] < MaxJobs
    BY <1>4, <2>1, <2>4 DEF TypeInv
  <2> QED
    BY <2>10, <2>11 DEF TypeInv
<1>5. CASE ~(handlers /\ count < MaxJobs /\ Available(st) # {})
  <2>0. PICK m \in 0..(MaxJobs - count) : \E t \in [1..m -> Available(st)] :
          /\ drained' = [drained EXCEPT ![d] = NoJob]
          /\ draining' = [draining EXCEPT ![d] = "resolved"]
          /\ processed' = [processed EXCEPT ![d] = count + m]
          /\ state' = [j \in Jobs |-> IF j \in {enqueued[i] : i \in Range(t)} THEN "completed" ELSE st[j]]
    BY <1>5 DEF DrainLoop
  <2>1. PICK t \in [1..m -> Available(st)] :
          /\ drained' = [drained EXCEPT ![d] = NoJob]
          /\ draining' = [draining EXCEPT ![d] = "resolved"]
          /\ processed' = [processed EXCEPT ![d] = count + m]
          /\ state' = [j \in Jobs |-> IF j \in {enqueued[i] : i \in Range(t)} THEN "completed" ELSE st[j]]
    BY <2>0
  <2>2. \A i \in Range(t) : enqueued[i] \in Jobs /\ st[enqueued[i]] = "available"
    BY <1>1 DEF Range
  <2>4. \A k \in Jobs : st[k] = "active" => state'[k] = "active"
    BY <2>1, <2>2
  <2>5. /\ draining' \in [Drains -> {"idle", "handling", "resolved", "rejected"}]
        /\ processed' \in [Drains -> 0..MaxJobs] /\ DOMAIN drained' = Drains
        /\ \A e \in Drains : draining'[e] # "handling" => drained'[e] = NoJob
        /\ \A e \in Drains : draining'[e] = "handling" => processed'[e] < MaxJobs
    BY <2>1, ProducerAssumption DEF TypeInv
  <2>6. /\ draining'[d] # "handling"
        /\ \A e \in Drains \ {d} : drained'[e] = drained[e] /\ draining'[e] = draining[e]
    BY <2>1 DEF TypeInv
  <2>7. Owned(state, {})'
    BY <1>2, <1>3, <2>4, <2>6 DEF Owned
  <2> QED
    BY <2>5, <2>7 DEF TypeInv
<1> QED
  BY <1>4, <1>5

\* A drain starts, or goes on when its handler has ended.
LEMMA DrainType ==
  ASSUME HandlingInv, TypeInv, NEW d \in Drains, drain(d) \/ DrainedEnds(d)
  PROVE  TypeInv'
<1>0. UNCHANGED <<mode, phase, at, enqueued, stray, answered, requests>>
  BY DEF drain, DrainedEnds, chain
<1>1. state \in [Jobs -> JobStates] /\ MaxJobs \in Nat \ {0}
  BY ProducerAssumption DEF HandlingInv, RunsInv
<1>2. CASE drain(d) /\ mode = "real"
  <2>1. draining' = [draining EXCEPT ![d] = "rejected"] /\ UNCHANGED <<performed, drained, processed, state>>
    BY <1>2 DEF drain
  <2>2. draining[d] = "idle"
    BY <1>2 DEF drain
  <2> QED
    BY <1>0, <2>1, <2>2 DEF TypeInv, Owned
<1>3. CASE drain(d) /\ mode # "real"
  <2>1. DrainLoop(d, state, performed, 0) /\ Owned(state, {d}) /\ 0 \in 0..MaxJobs
    BY <1>1, <1>3 DEF drain, TypeInv, Owned
  <2> QED
    BY <1>0, <1>1, <1>3, <2>1, DrainLoopType
<1>4. CASE DrainedEnds(d)
  <2>1. PICK end \in {"completed", "discarded"} :
          LET ended == [state EXCEPT ![drained[d]] = end] IN
          IF mode = "real"
          THEN /\ draining' = [draining EXCEPT ![d] = "rejected"]
               /\ drained' = [drained EXCEPT ![d] = NoJob]
               /\ state' = ended
               /\ UNCHANGED <<performed, processed, runs>>
          ELSE DrainLoop(d, ended, Append(performed, drained[d]), processed[d] + 1)
    BY <1>4 DEF DrainedEnds
  <2> DEFINE ended == [state EXCEPT ![drained[d]] = end]
  <2>2. draining[d] = "handling" /\ drained[d] \in Jobs /\ state[drained[d]] = "active"
    BY <1>4 DEF DrainedEnds, HandlingInv, TypeInv, Owned
  <2>3. ended \in [Jobs -> JobStates] /\ \A k \in Jobs : k # drained[d] => ended[k] = state[k]
    BY <1>1, <2>2 DEF JobStates
  <2>4. /\ \A c \in Calls : phase[c] = "handling" => <<c, at[c]>> \in Jobs
        /\ \A e \in Drains : draining[e] = "handling" => drained[e] \in Jobs
    BY ProducerAssumption, CurrentIsJob DEF HandlingInv
  <2> HIDE DEF ended
  <2>5. Owned(ended, {d})
    <3>1. \A e \in Drains \ {d} : draining[e] = "handling" => ended[drained[e]] = "active"
      BY <2>2, <2>3, <2>4 DEF TypeInv, Owned
    <3>2. \A c \in Calls : phase[c] = "handling" => ended[<<c, at[c]>>] = "active"
      BY <2>2, <2>3, <2>4 DEF TypeInv, Owned
    <3> QED
      BY <3>1, <3>2 DEF TypeInv, Owned
  <2>6. CASE mode = "real"
    <3>1. /\ draining' = [draining EXCEPT ![d] = "rejected"]
          /\ drained' = [drained EXCEPT ![d] = NoJob]
          /\ state' = ended
          /\ UNCHANGED <<performed, processed>>
      BY <2>1, <2>6 DEF ended
    <3>2. /\ draining'[d] = "rejected"
          /\ \A e \in Drains \ {d} : drained'[e] = drained[e] /\ draining'[e] = draining[e]
      BY <3>1 DEF TypeInv
    <3>3. Owned(state, {})'
      BY <1>0, <2>5, <3>1, <3>2 DEF Owned
    <3> QED
      BY <1>0, <3>1, <3>3 DEF TypeInv
  <2>7. CASE mode # "real"
    <3>1. DrainLoop(d, ended, Append(performed, drained[d]), processed[d] + 1)
      BY <2>1, <2>7 DEF ended
    <3>2. processed[d] + 1 \in 0..MaxJobs
      BY <1>1, <2>2 DEF TypeInv
    <3> QED
      BY <1>0, <2>3, <2>5, <2>7, <3>1, <3>2, DrainLoopType
  <2> QED
    BY <2>6, <2>7
<1> QED
  BY <1>2, <1>3, <1>4

\* The invariant is inductive, given the two above.
LEMMA TypeStep == RequestInv /\ HandlingInv /\ TypeInv /\ [Next]_vars => TypeInv'
<1> SUFFICES ASSUME RequestInv, HandlingInv, TypeInv, [Next]_vars PROVE TypeInv'
  OBVIOUS
<1>1. CASE fake \/ inline \/ restore \/ clearAll
  <2>1. /\ mode' \in {"real", "fake", "inline"} /\ enqueued' = <<>> /\ performed' = <<>>
        /\ stray' \subseteq Jobs
        /\ UNCHANGED <<phase, at, answered, requests, draining, drained, processed, state>>
    BY <1>1 DEF fake, inline, restore, clearAll, Switch, Running, drains, chain, TypeInv
  <2> QED
    BY <2>1 DEF TypeInv, Owned
<1>2. CASE registerHandler \/ UNCHANGED vars
  BY <1>2 DEF registerHandler, vars, fakes, drains, chain, TypeInv, Owned
<1>3. ASSUME NEW d \in Drains, drain(d) \/ DrainedEnds(d) PROVE TypeInv'
  BY <1>3, DrainType
<1>4. ASSUME NEW c \in Calls, InlineEnds(c) PROVE TypeInv'
  BY <1>4, InlineType
<1>5. ASSUME NEW c \in Calls, EnqueueFake(c) PROVE TypeInv'
  <2>1. <<c, 1>> \in Jobs /\ 1 \in 1..BatchSize
    BY ProducerAssumption, CurrentIsJob
  <2>2. state[<<c, 1>>] = "none" /\ at' = [at EXCEPT ![c] = 1] /\ phase[c] # "handling"
    BY <1>5, <2>1, ProducerAssumption DEF EnqueueFake, HandlingInv, Unrecorded
  <2> QED
    BY <1>5, <2>1, <2>2, RecordType DEF EnqueueFake, chain, drains
<1>6. ASSUME NEW c \in Calls, RecordNext(c) PROVE TypeInv'
  <2>0. UNCHANGED <<mode, performed, stray, answered, requests, draining, drained, processed>> /\ phase[c] = "recorded"
    BY <1>6 DEF RecordNext, chain, drains
  <2>1. CASE c \in Batches /\ at[c] < BatchSize
    <3>1. at[c] + 1 \in 1..BatchSize /\ c \notin Singles
      BY <2>1, ProducerAssumption DEF HandlingInv
    <3>2. <<c, at[c] + 1>> \in Jobs
      BY <3>1, ProducerAssumption, CurrentIsJob
    <3>3. /\ state[<<c, at[c] + 1>>] = "none"
          /\ at' = [at EXCEPT ![c] = at[c] + 1]
          /\ recordEnqueue(c, <<c, at[c] + 1>>)
      BY <1>6, <2>1, <3>1, <3>2, ProducerAssumption DEF RecordNext, HandlingInv, Unrecorded
    <3> QED
      BY <2>0, <3>1, <3>3, RecordType
  <2>2. CASE ~(c \in Batches /\ at[c] < BatchSize)
    <3>1. phase' = [phase EXCEPT ![c] = "resolved"] /\ UNCHANGED <<at, enqueued, state>>
      BY <1>6, <2>2 DEF RecordNext, Enter
    <3>2. \A b \in Calls : phase'[b] = "handling" => phase[b] = "handling"
      BY <3>1 DEF HandlingInv
    <3> QED
      BY <2>0, <3>1, <3>2 DEF TypeInv, Owned
  <2> QED
    BY <2>1, <2>2
<1>7. ASSUME NEW c \in Calls, EnqueueReal(c) \/ EnqueueBatchReal(c) \/ RealEnds(c) \/ ServerAnswers(c)
                               \/ \E i \in 1..Middlewares : CallNext(c, i)
      PROVE  TypeInv'
  <2>1. UNCHANGED <<mode, enqueued, performed, stray, at, draining, drained, processed, state>>
    BY <1>7 DEF EnqueueReal, EnqueueBatchReal, RealEnds, ServerAnswers, CallNext, fakes, drains
  <2>2. phase' = phase \/ \E p \in {"chain"} \cup Settled : phase' = [phase EXCEPT ![c] = p]
    BY <1>7 DEF EnqueueReal, EnqueueBatchReal, RealEnds, ServerAnswers, CallNext, Enter, Settled
  <2>3. \A b \in Calls : phase'[b] = "handling" => phase[b] = "handling"
    BY <2>2 DEF HandlingInv, Settled
  <2>4. requests' = requests \/ requests' = [requests EXCEPT ![c] = @ + 1]
    BY <1>7 DEF EnqueueReal, EnqueueBatchReal, RealEnds, ServerAnswers, CallNext, Dispatch, chain
  <2>5. \A b \in Calls : requests[b] > 0 => requests'[b] > 0
    BY <2>4 DEF RequestInv
  <2>6. answered' = answered \/ (answered' = answered \cup {c} /\ requests[c] > 0)
    BY <1>7 DEF EnqueueReal, EnqueueBatchReal, RealEnds, ServerAnswers, CallNext, chain
  <2>7. answered' \subseteq {b \in Calls : requests'[b] > 0}
    BY <2>5, <2>6 DEF TypeInv
  <2> QED
    BY <2>1, <2>3, <2>7 DEF TypeInv, Owned
<1> QED
  BY <1>1, <1>2, <1>3, <1>4, <1>5, <1>6, <1>7 DEF Next

\* Every variable keeps its type: a drain handles at most maxJobs jobs, and the
\* job it is at is being handled by nobody else (testing.ts:235-256).
THEOREM TypeCorrect == Spec => []TypeOK
<1>1. RequestInv /\ HandlingInv /\ TypeInv => TypeOK
  <2> SUFFICES ASSUME RequestInv, HandlingInv, TypeInv PROVE TypeOK
    OBVIOUS
  <2>1. ToSet(enqueued) \subseteq Jobs
    BY DEF HandlingInv, ToSet
  <2>2. \A d \in Drains : (draining[d] = "handling") = (drained[d] \in Running)
    <3>1. NoJob \notin Jobs
      BY DEF NoJob, Jobs
    <3> QED
      BY <3>1 DEF TypeInv, Owned, HandlingInv, Running
  <2> QED
    BY <2>1, <2>2 DEF TypeOK, RequestInv, HandlingInv, RunsInv, JobStates, TypeInv
<1> QED
  BY <1>1, RequestInit, RequestStep, HandlingInit, HandlingStep, TypeInit, TypeStep, PTL DEF Spec

-----------------------------------------------------------------------------
(* The performed list *)

EndStates == {"completed", "discarded"}

\* Between two steps, or while a drain goes on from job states st and performed
\* list done: the list holds once each job of the store that has ended, and
\* otherwise only jobs that have ended and were caught by a switch.  A job that
\* is being handled is in the store or was caught.
History(st, done) ==
  /\ done \in Seq(Jobs)
  /\ IsInjective(done)
  /\ \A j \in ToSet(done) : st[j] \in EndStates /\ j \in ToSet(enqueued) \cup stray
  /\ \A j \in ToSet(enqueued) : st[j] \in EndStates => j \in ToSet(done)
  /\ \A j \in ToSet(enqueued) : st[j] # "none"
  /\ \A j \in Jobs : st[j] = "active" => j \in ToSet(enqueued) \cup stray

\* Besides, no job is in the store twice.
HistoryInv ==
  /\ IsInjective(enqueued)
  /\ History(state, performed)

\* A job that is not in a sequence may be appended to it.
LEMMA AppendOnce ==
  ASSUME NEW s \in Seq(Jobs), NEW j \in Jobs, j \notin ToSet(s), IsInjective(s)
  PROVE  /\ Append(s, j) \in Seq(Jobs)
         /\ IsInjective(Append(s, j))
         /\ ToSet(Append(s, j)) = ToSet(s) \cup {j}
<1>1. /\ Append(s, j) \in Seq(Jobs)
      /\ DOMAIN s = 1..Len(s) /\ DOMAIN Append(s, j) = 1..(Len(s) + 1)
      /\ Len(s) \in Nat
      /\ \A i \in 1..Len(s) : Append(s, j)[i] = s[i]
      /\ Append(s, j)[Len(s) + 1] = j
  OBVIOUS
<1>2. \A i \in 1..Len(s) : s[i] # j
  BY <1>1 DEF ToSet
<1>3. IsInjective(Append(s, j))
  BY <1>1, <1>2 DEF IsInjective
<1>4. ToSet(Append(s, j)) = ToSet(s) \cup {j}
  BY <1>1 DEF ToSet
<1> QED
  BY <1>1, <1>3, <1>4

\* Two sequences that share no job may be put together.
LEMMA ConcatOnce ==
  ASSUME NEW s \in Seq(Jobs), NEW u \in Seq(Jobs), IsInjective(s), IsInjective(u),
         ToSet(s) \cap ToSet(u) = {}
  PROVE  /\ s \o u \in Seq(Jobs)
         /\ IsInjective(s \o u)
         /\ ToSet(s \o u) = ToSet(s) \cup ToSet(u)
<1>1. /\ s \o u \in Seq(Jobs) /\ Len(s) \in Nat /\ Len(u) \in Nat
      /\ DOMAIN s = 1..Len(s) /\ DOMAIN u = 1..Len(u) /\ DOMAIN (s \o u) = 1..(Len(s) + Len(u))
      /\ \A i \in 1..Len(s) : (s \o u)[i] = s[i]
      /\ \A i \in 1..(Len(s) + Len(u)) : i > Len(s) => (s \o u)[i] = u[i - Len(s)]
  OBVIOUS
<1>2. \A i \in 1..Len(s), k \in 1..Len(u) : s[i] # u[k]
  BY <1>1 DEF ToSet
<1>3. \A k \in 1..Len(u) : k + Len(s) \in 1..(Len(s) + Len(u)) /\ (s \o u)[k + Len(s)] = u[k]
  BY <1>1
<1>4. \A i \in 1..(Len(s) + Len(u)) : i > Len(s) => i - Len(s) \in 1..Len(u)
  BY <1>1
<1>5. IsInjective(s \o u)
  BY <1>1, <1>2, <1>4 DEF IsInjective
<1>6. ToSet(s \o u) = ToSet(s) \cup ToSet(u)
  <2>1. ASSUME NEW i \in 1..(Len(s) + Len(u)) PROVE (s \o u)[i] \in ToSet(s) \cup ToSet(u)
    <3>1. CASE i <= Len(s)
      BY <1>1, <3>1 DEF ToSet
    <3>2. CASE i > Len(s)
      BY <1>1, <1>4, <3>2 DEF ToSet
    <3> QED
      BY <1>1, <3>1, <3>2
  <2>2. \A i \in 1..Len(s) : i \in 1..(Len(s) + Len(u)) /\ s[i] = (s \o u)[i]
    BY <1>1
  <2>3. ToSet(s \o u) = {(s \o u)[i] : i \in 1..(Len(s) + Len(u))}
    BY <1>1 DEF ToSet
  <2>4. ToSet(s) \subseteq ToSet(s \o u)
    BY <1>1, <2>2, <2>3 DEF ToSet
  <2>5. ASSUME NEW k \in 1..Len(u) PROVE u[k] \in ToSet(s \o u)
    <3>1. k + Len(s) \in 1..(Len(s) + Len(u)) /\ (s \o u)[k + Len(s)] = u[k]
      BY <1>3
    <3> QED
      BY <2>3, <3>1
  <2>6. ToSet(u) = {u[k] : k \in 1..Len(u)}
    BY <1>1 DEF ToSet
  <2> QED
    BY <2>1, <2>3, <2>4, <2>5, <2>6
<1> QED
  BY <1>1, <1>5, <1>6

\* The initial states satisfy it.
LEMMA HistoryInit == Init => HistoryInv
BY DEF Init, HistoryInv, History, IsInjective, ToSet

\* The record of a job that was in no store.
LEMMA RecordHistory ==
  ASSUME HandlingInv, TypeInv, HistoryInv, NEW c \in Calls, NEW k \in 1..BatchSize, c \in Singles => k = 1,
         state[<<c, k>>] = "none",
         recordEnqueue(c, <<c, k>>),
         UNCHANGED <<mode, performed, stray>>
  PROVE  HistoryInv'
<1> DEFINE j == <<c, k>>
<1>1. j \in Jobs /\ enqueued \in Seq(Jobs) /\ state \in [Jobs -> JobStates]
  BY ProducerAssumption, CurrentIsJob DEF HandlingInv, RunsInv
<1>2. j \notin ToSet(enqueued) /\ j \notin ToSet(performed)
  BY DEF HistoryInv, History, EndStates
<1>3. CASE mode = "real"
  BY <1>3 DEF recordEnqueue, HistoryInv, History
<1>4. CASE mode # "real"
  <2>1. enqueued' = Append(enqueued, j)
    BY <1>4 DEF recordEnqueue
  <2>2. PICK v \in {"active", "available"} : state' = [state EXCEPT ![j] = v]
    BY <1>4 DEF recordEnqueue, StartJob
  <2>3. IsInjective(enqueued') /\ ToSet(enqueued') = ToSet(enqueued) \cup {j}
    BY <1>1, <1>2, <2>1, AppendOnce DEF HistoryInv
  <2>4. ToSet(enqueued) \subseteq Jobs /\ ToSet(performed) \subseteq Jobs
    BY <1>1 DEF ToSet, HistoryInv, History
  <2>5. state'[j] = v /\ \A i \in Jobs : i # j => state'[i] = state[i]
    BY <1>1, <2>2
  <2>6. History(state, performed)
    BY DEF HistoryInv
  <2>7. History(state, performed)'
    BY <1>2, <2>3, <2>4, <2>5, <2>6 DEF History, EndStates
  <2> QED
    BY <2>3, <2>7 DEF HistoryInv
<1> QED
  BY <1>3, <1>4

\* A handled job that has ended is put on the list of the store there is; if
\* there is none, the list stays empty.
LEMMA EndedHistory ==
  ASSUME HandlingInv, HistoryInv, NEW j \in Jobs, state[j] = "active", NEW end \in EndStates, mode # "real"
  PROVE  History([state EXCEPT ![j] = end], Append(performed, j))
<1> DEFINE ended == [state EXCEPT ![j] = end]
           done  == Append(performed, j)
<1>1. /\ state \in [Jobs -> JobStates] /\ performed \in Seq(Jobs) /\ enqueued \in Seq(Jobs)
      /\ ToSet(enqueued) \subseteq Jobs /\ ToSet(performed) \subseteq Jobs
  BY DEF HandlingInv, RunsInv, HistoryInv, History, ToSet
<1>2. ended[j] = end /\ \A i \in Jobs : i # j => ended[i] = state[i]
  BY <1>1
<1>3. j \notin ToSet(performed) /\ j \in ToSet(enqueued) \cup stray
  BY DEF HistoryInv, History, EndStates
<1>4. done \in Seq(Jobs) /\ IsInjective(done) /\ ToSet(done) = ToSet(performed) \cup {j}
  BY <1>1, <1>3, AppendOnce DEF HistoryInv, History
<1> HIDE DEF ended, done
<1>5. History(ended, done)
  BY <1>1, <1>2, <1>3, <1>4 DEF HistoryInv, History, EndStates
<1> QED
  BY <1>5 DEF ended, done

\* A handler that outlives the store: its job is in no store.
LEMMA LostHistory ==
  ASSUME HandlingInv, TypeInv, HistoryInv, NEW j \in Jobs, state[j] = "active", NEW end \in EndStates,
         mode = "real", state' = [state EXCEPT ![j] = end],
         UNCHANGED <<mode, enqueued, performed, stray>>
  PROVE  HistoryInv'
<1>1. enqueued = <<>> /\ performed = <<>> /\ state \in [Jobs -> JobStates]
  BY DEF TypeInv, HandlingInv, RunsInv
<1>2. \A i \in Jobs : state'[i] = "active" => state[i] = "active"
  BY <1>1 DEF EndStates
<1> QED
  BY <1>1, <1>2 DEF HistoryInv, History, ToSet

\* The loop of drain d, started with job states st and performed list done.
LEMMA DrainLoopHistory ==
  ASSUME HandlingInv, HistoryInv, NEW d \in Drains, NEW st \in [Jobs -> JobStates], NEW done,
         NEW count, History(st, done), DrainLoop(d, st, done, count),
         UNCHANGED <<enqueued, stray>>
  PROVE  HistoryInv'
<1>1. /\ \A i \in Available(st) : i \in DOMAIN enqueued /\ enqueued[i] \in Jobs /\ st[enqueued[i]] = "available"
      /\ ToSet(enqueued) \subseteq Jobs /\ ToSet(done) \subseteq Jobs
  BY DEF Available, HandlingInv, History, ToSet
<1>2. \A i \in Available(st) : enqueued[i] \in ToSet(enqueued) /\ enqueued[i] \notin ToSet(done)
  BY <1>1 DEF ToSet, History, EndStates
<1>3. CASE handlers /\ count < MaxJobs /\ Available(st) # {}
  <2>1. PICK i \in Available(st) : state' = [st EXCEPT ![enqueued[i]] = "active"] /\ performed' = done
    BY <1>3 DEF DrainLoop
  <2>2. state'[enqueued[i]] = "active" /\ \A j \in Jobs : j # enqueued[i] => state'[j] = st[j]
    BY <1>1, <2>1
  <2>3. History(state, performed)'
    BY <1>1, <1>2, <2>1, <2>2 DEF History, EndStates
  <2> QED
    BY <2>3 DEF HistoryInv
<1>4. CASE ~(handlers /\ count < MaxJobs /\ Available(st) # {})
  <2>1. PICK m \in 0..(MaxJobs - count) : \E t \in [1..m -> Available(st)] :
          /\ \A k, l \in 1..m : k < l => t[k] < t[l]
          /\ state' = [j \in Jobs |-> IF j \in {enqueued[i] : i \in Range(t)} THEN "completed" ELSE st[j]]
          /\ performed' = done \o [k \in 1..m |-> enqueued[t[k]]]
    BY <1>4 DEF DrainLoop
  <2>2. PICK t \in [1..m -> Available(st)] :
          /\ \A k, l \in 1..m : k < l => t[k] < t[l]
          /\ state' = [j \in Jobs |-> IF j \in {enqueued[i] : i \in Range(t)} THEN "completed" ELSE st[j]]
          /\ performed' = done \o [k \in 1..m |-> enqueued[t[k]]]
    BY <2>1
  <2> DEFINE u == [k \in 1..m |-> enqueued[t[k]]]
  <2>3. m \in Nat /\ \A k \in 1..m : t[k] \in Available(st) /\ u[k] = enqueued[t[k]]
    OBVIOUS
  <2>4. u \in Seq(Jobs) /\ DOMAIN u = 1..m
    BY <1>1, <2>3
  <2>5. IsInjective(u)
    <3> SUFFICES ASSUME NEW k \in 1..m, NEW l \in 1..m, u[k] = u[l] PROVE k = l
      BY <2>4 DEF IsInjective
    <3>1. t[k] = t[l]
      BY <1>1, <2>3 DEF HistoryInv, IsInjective
    <3>2. t[k] \in Nat /\ ~(k < l) /\ ~(l < k)
      <4>1. t[k] \in Nat /\ t[l] \in Nat
        BY <1>1, <2>3 DEF HandlingInv
      <4> QED
        BY <2>2, <3>1, <4>1
    <3> QED
      BY <2>3, <3>2
  <2>6. ToSet(u) = {enqueued[i] : i \in Range(t)}
    BY <2>3, <2>4 DEF ToSet, Range
  <2>7. \A j \in ToSet(u) : j \in Jobs /\ st[j] = "available" /\ j \in ToSet(enqueued) /\ j \notin ToSet(done)
    BY <1>1, <1>2, <2>3, <2>4 DEF ToSet
  <2>8. /\ performed' \in Seq(Jobs) /\ IsInjective(performed')
        /\ ToSet(performed') = ToSet(done) \cup ToSet(u)
    <3>1. done \in Seq(Jobs) /\ IsInjective(done) /\ ToSet(done) \cap ToSet(u) = {} /\ performed' = done \o u
      BY <2>2, <2>7 DEF History
    <3> HIDE DEF u
    <3> QED
      BY <2>4, <2>5, <3>1, ConcatOnce
  <2>9. \A j \in Jobs : state'[j] = IF j \in ToSet(u) THEN "completed" ELSE st[j]
    BY <2>2, <2>6
  <2> HIDE DEF u
  <2>10. History(state, performed)'
    BY <1>1, <2>7, <2>8, <2>9 DEF History, EndStates
  <2> QED
    BY <2>10 DEF HistoryInv
<1> QED
  BY <1>3, <1>4

\* A drain starts, or goes on when its handler has ended.
LEMMA DrainHistory ==
  ASSUME HandlingInv, TypeInv, HistoryInv, NEW d \in Drains, drain(d) \/ DrainedEnds(d)
  PROVE  HistoryInv'
<1>1. UNCHANGED <<mode, enqueued, stray>> /\ state \in [Jobs -> JobStates]
  BY DEF drain, DrainedEnds, HandlingInv, RunsInv
<1>2. CASE drain(d) /\ mode = "real"
  <2>1. UNCHANGED <<performed, state>>
    BY <1>2 DEF drain
  <2> QED
    BY <1>1, <2>1 DEF HistoryInv, History
<1>3. CASE drain(d) /\ mode # "real"
  <2>1. DrainLoop(d, state, performed, 0)
    BY <1>3 DEF drain
  <2> QED
    BY <1>1, <2>1, DrainLoopHistory DEF HistoryInv
<1>4. CASE DrainedEnds(d)
  <2>1. PICK end \in EndStates :
          LET ended == [state EXCEPT ![drained[d]] = end] IN
          IF mode = "real"
          THEN state' = ended /\ UNCHANGED performed
          ELSE DrainLoop(d, ended, Append(performed, drained[d]), processed[d] + 1)
    BY <1>4 DEF DrainedEnds, EndStates
  <2>2. drained[d] \in Jobs /\ state[drained[d]] = "active"
    BY <1>4 DEF DrainedEnds, HandlingInv, TypeInv, Owned
  <2>3. CASE mode = "real"
    <3>1. state' = [state EXCEPT ![drained[d]] = end] /\ UNCHANGED performed
      BY <2>1, <2>3
    <3> QED
      BY <1>1, <2>2, <2>3, <3>1, LostHistory
  <2>4. CASE mode # "real"
    <3> DEFINE ended == [state EXCEPT ![drained[d]] = end]
               done  == Append(performed, drained[d])
    <3>1. DrainLoop(d, ended, done, processed[d] + 1)
      BY <2>1, <2>4
    <3>2. ended \in [Jobs -> JobStates]
      BY <1>1, <2>2 DEF JobStates, EndStates
    <3>3. History(ended, done)
      BY <2>2, <2>4, EndedHistory
    <3> HIDE DEF ended, done
    <3> QED
      BY <1>1, <3>1, <3>2, <3>3, DrainLoopHistory
  <2> QED
    BY <2>3, <2>4
<1> QED
  BY <1>2, <1>3, <1>4

\* The invariant is inductive, given the two above.
LEMMA HistoryStep == HandlingInv /\ TypeInv /\ HistoryInv /\ [Next]_vars => HistoryInv'
<1> SUFFICES ASSUME HandlingInv, TypeInv, HistoryInv, [Next]_vars PROVE HistoryInv'
  OBVIOUS
<1>1. CASE fake \/ inline \/ restore \/ clearAll
  <2>1. /\ enqueued' = <<>> /\ performed' = <<>> /\ state' = state
        /\ stray' = stray \cup {j \in Jobs : state[j] = "active"}
    BY <1>1 DEF fake, inline, restore, clearAll, Switch, Running
  <2> QED
    BY <2>1 DEF HistoryInv, History, IsInjective, ToSet
<1>2. CASE registerHandler \/ UNCHANGED vars
  <2>1. UNCHANGED <<enqueued, performed, stray, state>>
    BY <1>2 DEF registerHandler, vars, fakes
  <2> QED
    BY <2>1 DEF HistoryInv, History
<1>3. ASSUME NEW d \in Drains, drain(d) \/ DrainedEnds(d) PROVE HistoryInv'
  BY <1>3, DrainHistory
<1>4. ASSUME NEW c \in Calls, InlineEnds(c) PROVE HistoryInv'
  <2> DEFINE j == <<c, at[c]>>
  <2>1. j \in Jobs /\ state[j] = "active" /\ UNCHANGED <<mode, enqueued, stray>>
    BY <1>4, ProducerAssumption, CurrentIsJob DEF InlineEnds, HandlingInv, TypeInv, Owned
  <2>2. PICK end \in EndStates :
          /\ state' = [state EXCEPT ![j] = end]
          /\ performed' = IF mode = "real" THEN performed ELSE Append(performed, j)
    BY <1>4 DEF InlineEnds, Perform, EndStates
  <2> HIDE DEF j
  <2>3. CASE mode = "real"
    BY <2>1, <2>2, <2>3, LostHistory
  <2>4. CASE mode # "real"
    <3>1. History([state EXCEPT ![j] = end], Append(performed, j))
      BY <2>1, <2>4, EndedHistory
    <3> QED
      BY <2>1, <2>2, <2>4, <3>1 DEF HistoryInv, History
  <2> QED
    BY <2>3, <2>4
<1>5. ASSUME NEW c \in Calls, EnqueueFake(c) PROVE HistoryInv'
  <2>1. <<c, 1>> \in Jobs /\ 1 \in 1..BatchSize
    BY ProducerAssumption, CurrentIsJob
  <2>2. state[<<c, 1>>] = "none" /\ UNCHANGED <<mode, performed, stray>>
    BY <1>5, <2>1 DEF EnqueueFake, HandlingInv, Unrecorded
  <2> QED
    BY <1>5, <2>1, <2>2, RecordHistory DEF EnqueueFake
<1>6. ASSUME NEW c \in Calls, RecordNext(c) PROVE HistoryInv'
  <2>1. UNCHANGED <<mode, performed, stray>>
    BY <1>6 DEF RecordNext
  <2>2. CASE c \in Batches /\ at[c] < BatchSize
    <3>1. at[c] + 1 \in 1..BatchSize /\ c \notin Singles
      BY <2>2, ProducerAssumption DEF HandlingInv
    <3>2. <<c, at[c] + 1>> \in Jobs
      BY <3>1, ProducerAssumption, CurrentIsJob
    <3>3. state[<<c, at[c] + 1>>] = "none" /\ recordEnqueue(c, <<c, at[c] + 1>>)
      BY <1>6, <2>2, <3>1, <3>2, ProducerAssumption DEF RecordNext, HandlingInv, Unrecorded
    <3> QED
      BY <2>1, <3>1, <3>3, RecordHistory
  <2>3. CASE ~(c \in Batches /\ at[c] < BatchSize)
    <3>1. UNCHANGED <<enqueued, state>>
      BY <1>6, <2>3 DEF RecordNext
    <3> QED
      BY <2>1, <3>1 DEF HistoryInv, History
  <2> QED
    BY <2>2, <2>3
<1>7. ASSUME NEW c \in Calls, EnqueueReal(c) \/ EnqueueBatchReal(c) \/ RealEnds(c) \/ ServerAnswers(c)
                               \/ \E i \in 1..Middlewares : CallNext(c, i)
      PROVE  HistoryInv'
  <2>1. UNCHANGED <<enqueued, performed, stray, state>>
    BY <1>7 DEF EnqueueReal, EnqueueBatchReal, RealEnds, ServerAnswers, CallNext, fakes
  <2> QED
    BY <2>1 DEF HistoryInv, History
<1> QED
  BY <1>1, <1>2, <1>3, <1>4, <1>5, <1>6, <1>7 DEF Next

\* The performed list is the history of the jobs of the store, but for those
\* whose handler was running when the store was changed (testing.ts:123-129,
\* :243-254).
THEOREM PerformedExact == Spec => []PerformedIsHistory
<1>1. HandlingInv /\ HistoryInv => PerformedIsHistory
  <2> SUFFICES ASSUME HandlingInv, HistoryInv PROVE PerformedIsHistory
    OBVIOUS
  <2>1. ToSet(performed) \subseteq Jobs
    BY DEF HistoryInv, History, ToSet
  <2> QED
    BY <2>1 DEF HistoryInv, History, PerformedIsHistory, Ended, EndStates
<1> QED
  BY <1>1, RequestInit, RequestStep, HandlingInit, HandlingStep, TypeInit, TypeStep,
     HistoryInit, HistoryStep, PTL DEF Spec
=============================================================================
