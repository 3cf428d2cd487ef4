---------------------------- MODULE WorkerProofs ----------------------------
(***************************************************************************)
(* Theorems about the worker that hold for every number of jobs, calls,    *)
(* slots and retries.  The actions are proved one by one; where an         *)
(* invariant does not depend on what an action changes, the step says so   *)
(* by expanding the action alone.                                          *)
(***************************************************************************)
EXTENDS WorkerProperties, FiniteSetTheorems, TLAPS

\* The jobs that hold a slot can be counted.
LEMMA ActiveJobsFinite ==
  /\ IsFiniteSet(ActiveJobs)
  /\ activeJobCount \in Nat
<1>1. ActiveJobs \subseteq Jobs
  BY DEF ActiveJobs
<1>2. IsFiniteSet(ActiveJobs)
  BY <1>1, FS_Subset, WorkerAssumption
<1> QED
  BY <1>2, FS_CardinalityType DEF activeJobCount

\* poll() keeps the types of the poll loop's variables.
LEMMA PollType ==
  ASSUME TypeOK, NEW s \in Starts, poll(s)
  PROVE  /\ chain' \in [Starts -> ChainPhases]
         /\ req' \in [Starts -> 0..FetchMax]
         /\ pollTimer' \in Starts \cup {None}
<1>1. activeJobCount < Concurrency => FetchCount \in 0..FetchMax
  BY ActiveJobsFinite, WorkerAssumption DEF FetchCount
<1>2. chain' \in [Starts -> ChainPhases]
  BY DEF TypeOK, poll, ArmPollTimer, ChainPhases
<1>3. req' \in [Starts -> 0..FetchMax]
  BY <1>1 DEF TypeOK, poll
<1>4. pollTimer' \in Starts \cup {None}
  BY DEF TypeOK, poll, ArmPollTimer
<1> QED
  BY <1>2, <1>3, <1>4

\* So do the callbacks of a fetch.
LEMMA ScheduleType ==
  ASSUME TypeOK, NEW s \in Starts, ScheduleNextPoll(s)
  PROVE  /\ chain' \in [Starts -> ChainPhases]
         /\ req' \in [Starts -> 0..FetchMax]
         /\ pollTimer' \in Starts \cup {None}
<1>1. chain' \in [Starts -> ChainPhases]
  BY DEF TypeOK, ScheduleNextPoll, ArmPollTimer, ChainPhases
<1>2. req' \in [Starts -> 0..FetchMax]
  BY WorkerAssumption DEF TypeOK, ScheduleNextPoll
<1>3. pollTimer' \in Starts \cup {None}
  BY DEF TypeOK, ScheduleNextPoll, ArmPollTimer
<1> QED
  BY <1>1, <1>2, <1>3

\* The server's answer to an ack or a nack is one of its job states.
LEMMA ServerType ==
  ASSUME TypeOK, NEW j \in Jobs, NEW p, UNCHANGED srv \/ ServerTakes(j, p)
  PROVE  srv' \in [Jobs -> JobStates]
BY DEF TypeOK, ServerTakes, ServerMay, JobStates

\* processJob() gives a delivery a number the bound allows.
LEMMA ProcessJobsType ==
  ASSUME TypeOK, NEW P \in SUBSET Leasable, processJobs(P)
  PROVE  /\ active' \in [Jobs -> 0..MaxDeliveries]
         /\ delivered' \in [Jobs -> 0..MaxDeliveries]
         /\ phase' \in [Jobs -> [Numbers -> ExecPhases]]
         /\ tries' = tries /\ aborted' = aborted
<1>1. \A j \in P : delivered[j] + 1 \in Numbers
  BY WorkerAssumption, SMTT(30) DEF Leasable, TypeOK, Numbers
<1>2. \A j \in Jobs : FirstPhase(j) \in ExecPhases
  BY DEF FirstPhase, ExecPhases, LivePhases
<1> QED
  BY <1>1, <1>2 DEF processJobs, TypeOK, Numbers

\* A delivery moves to a phase of the list, a request starts counting at 0.
LEMMA SettleType ==
  ASSUME TypeOK, NEW j \in Jobs, NEW n \in Numbers, NEW p \in ExecPhases, Settle(j, n, p)
  PROVE  phase' \in [Jobs -> [Numbers -> ExecPhases]]
BY DEF TypeOK, Settle

\* A request starts with no attempt failed.
LEMMA TriesResetType ==
  ASSUME TypeOK, NEW j \in Jobs, NEW n \in Numbers, tries' = [tries EXCEPT ![j][n] = 0]
  PROVE  tries' \in [Jobs -> [Numbers -> 0..(MaxTries - 1)]]
BY WorkerAssumption DEF TypeOK

\* finish() keeps the types of everything it touches.
LEMMA FinishType ==
  ASSUME TypeOK, NEW j \in Jobs, NEW n \in Numbers, NEW p \in ExecPhases, finish(j, n, p)
  PROVE  /\ active' \in [Jobs -> 0..MaxDeliveries]
         /\ phase' \in [Jobs -> [Numbers -> ExecPhases]]
         /\ tries' \in [Jobs -> [Numbers -> 0..(MaxTries - 1)]]
         /\ stopPhase' \in [Stops -> StopPhases]
         /\ shutdownResolve' \in Stops \cup {None}
         /\ graceTimerId' \in Stops \cup {None}
         /\ graceArmed' \in [Stops -> BOOLEAN]
         /\ aborted' = aborted /\ delivered' = delivered
<1>1. active' \in [Jobs -> 0..MaxDeliveries]
  BY WorkerAssumption DEF TypeOK, finish, deleteActive
<1>2. phase' \in [Jobs -> [Numbers -> ExecPhases]]
  BY DEF TypeOK, finish, Settle
<1>3. tries' \in [Jobs -> [Numbers -> 0..(MaxTries - 1)]]
  BY WorkerAssumption DEF TypeOK, finish
<1>4. aborted' = aborted /\ delivered' = delivered
  BY DEF finish
<1>5. stopPhase' \in [Stops -> StopPhases]
  BY DEF TypeOK, finish, resolveShutdownIfIdle, wake, StopPhases, stopVars
<1>6. /\ shutdownResolve' \in Stops \cup {None}
      /\ graceTimerId' \in Stops \cup {None}
  BY DEF TypeOK, finish, resolveShutdownIfIdle, clearGraceTimer, stopVars
<1>7. graceArmed' \in [Stops -> BOOLEAN]
  BY DEF TypeOK, finish, resolveShutdownIfIdle, clearGraceTimer, stopVars
<1> QED
  BY <1>1, <1>2, <1>3, <1>4, <1>5, <1>6, <1>7

\* stop() keeps the types of everything it touches.
LEMMA StopType ==
  ASSUME TypeOK, NEW t \in Stops, stop(t)
  PROVE  /\ state' \in WorkerStates
         /\ aborted' \in [Jobs -> [Numbers -> Reasons]]
         /\ chain' \in [Starts -> ChainPhases]
         /\ pollTimer' \in Starts \cup {None}
         /\ req' = req
         /\ beating' \in [Starts -> BOOLEAN]
         /\ heartbeatTimer' \in Starts \cup {None}
         /\ listening' \in [Starts -> BOOLEAN]
         /\ signalHandler' \in Starts \cup {None}
         /\ stopPhase' \in [Stops -> StopPhases]
         /\ shutdownResolve' \in Stops \cup {None}
         /\ graceTimerId' \in Stops \cup {None}
         /\ graceArmed' \in [Stops -> BOOLEAN]
         /\ UNCHANGED <<active, jobsCompleted, phase, tries, delivered, srv>>
<1>1. CASE state = "terminated"
  BY <1>1 DEF TypeOK, stop, StopPhases, pollVars, timerVars
<1>2. CASE state # "terminated"
  <2>1. clearPollTimer /\ clearHeartbeat /\ removeSignalHandlers /\ UNCHANGED req
    BY <1>2 DEF stop
  <2>2. /\ chain' \in [Starts -> ChainPhases]
        /\ pollTimer' \in Starts \cup {None}
    BY <2>1 DEF TypeOK, clearPollTimer, ChainPhases
  <2>3. /\ beating' \in [Starts -> BOOLEAN]
        /\ heartbeatTimer' \in Starts \cup {None}
        /\ listening' \in [Starts -> BOOLEAN]
        /\ signalHandler' \in Starts \cup {None}
    BY <2>1 DEF TypeOK, clearHeartbeat, removeSignalHandlers
  <2>4. CASE ActiveJobs = {}
    <3>1. clearGraceTimer /\ terminateNow(t) /\ UNCHANGED shutdownResolve
      BY <1>2, <2>4 DEF stop
    <3>2. state' \in WorkerStates /\ stopPhase' \in [Stops -> StopPhases]
      BY <3>1 DEF TypeOK, terminateNow, WorkerStates, StopPhases
    <3>3. aborted' \in [Jobs -> [Numbers -> Reasons]]
      BY <3>1 DEF TypeOK, terminateNow, abortRemaining, Reasons
    <3>4. graceTimerId' \in Stops \cup {None} /\ graceArmed' \in [Stops -> BOOLEAN]
      BY <3>1 DEF TypeOK, clearGraceTimer
    <3> QED
      BY <2>1, <2>2, <2>3, <3>1, <3>2, <3>3, <3>4 DEF TypeOK, stop
  <2>5. CASE ActiveJobs # {}
    <3>1. /\ state' \in WorkerStates
          /\ stopPhase' \in [Stops -> StopPhases]
          /\ UNCHANGED aborted
      BY <1>2, <2>5 DEF TypeOK, stop, WorkerStates, StopPhases
    <3>2. /\ shutdownResolve' \in Stops \cup {None}
          /\ graceTimerId' \in Stops \cup {None}
          /\ graceArmed' \in [Stops -> BOOLEAN]
      BY <1>2, <2>5 DEF TypeOK, stop
    <3> QED
      BY <2>1, <2>2, <2>3, <3>1, <3>2 DEF TypeOK, stop
  <2> QED
    BY <2>4, <2>5
<1> QED
  BY <1>1, <1>2

\* The grace timer and the end of the wait keep the types too.
LEMMA TerminateType ==
  ASSUME TypeOK, NEW t \in Stops, GraceTimerFires(t) \/ StopContinues(t)
  PROVE  TypeOK'
<1>1. /\ state' \in WorkerStates
      /\ stopPhase' \in [Stops -> StopPhases]
  BY DEF TypeOK, GraceTimerFires, StopContinues, terminateNow, WorkerStates, StopPhases
<1>2. aborted' \in [Jobs -> [Numbers -> Reasons]]
  BY DEF TypeOK, GraceTimerFires, StopContinues, terminateNow, abortRemaining, Reasons
<1>3. /\ graceTimerId' \in Stops \cup {None}
      /\ graceArmed' \in [Stops -> BOOLEAN]
  BY DEF TypeOK, GraceTimerFires, StopContinues, clearGraceTimer
<1> QED
  BY <1>1, <1>2, <1>3 DEF TypeOK, GraceTimerFires, StopContinues, pollVars, timerVars

\* Every step of a start() call, its poll chain and its heartbeat keeps the types.
LEMMA StartStepType ==
  ASSUME TypeOK, NEW s \in Starts,
         \/ StartCalled(s) \/ StartContinues(s) \/ StartThrows(s)
         \/ PollTimerFires(s) \/ FetchEnds(s) \/ HeartbeatFires(s)
  PROVE  TypeOK'
<1>1. CASE StartCalled(s)
  BY <1>1 DEF TypeOK, StartCalled, WorkerStates, ChainPhases, execVars, timerVars, stopVars
<1>2. CASE StartContinues(s)
  <2>1. /\ beating' \in [Starts -> BOOLEAN]
        /\ heartbeatTimer' \in Starts \cup {None}
        /\ listening' \in [Starts -> BOOLEAN]
        /\ signalHandler' \in Starts \cup {None}
    BY <1>2 DEF TypeOK, StartContinues
  <2>2. /\ poll(s)
        /\ UNCHANGED <<state, active, jobsCompleted, execVars, srv, beatsOut, stopVars>>
    BY <1>2 DEF StartContinues
  <2> QED
    BY <2>1, <2>2, PollType DEF TypeOK, execVars, stopVars
<1>3. CASE StartThrows(s)
  BY <1>3 DEF TypeOK, StartThrows, ChainPhases, execVars, timerVars, stopVars
<1>4. CASE PollTimerFires(s)
  <2>1. /\ poll(s)
        /\ UNCHANGED <<state, active, jobsCompleted, execVars, srv, timerVars, beatsOut, stopVars>>
    BY <1>4 DEF PollTimerFires
  <2> QED
    BY <2>1, PollType DEF TypeOK, execVars, timerVars, stopVars
<1>5. CASE FetchReturns(s)
  <2>1. PICK batch \in SUBSET Leasable, P \in SUBSET Leasable :
          /\ srv' = [j \in Jobs |-> IF j \in batch THEN "leased" ELSE srv[j]]
          /\ processJobs(P)
    BY <1>5 DEF FetchReturns
  <2>2. srv' \in [Jobs -> JobStates]
    BY <2>1 DEF TypeOK, JobStates
  <2>3. /\ ScheduleNextPoll(s)
        /\ UNCHANGED <<state, jobsCompleted, timerVars, beatsOut, stopVars>>
    BY <1>5 DEF FetchReturns
  <2> QED
    BY <2>1, <2>2, <2>3, ProcessJobsType, ScheduleType DEF TypeOK, timerVars, stopVars
<1>6. CASE FetchFails(s)
  <2>1. srv' \in [Jobs -> JobStates]
    BY <1>6 DEF TypeOK, FetchFails, JobStates
  <2>2. /\ ScheduleNextPoll(s)
        /\ UNCHANGED <<state, active, jobsCompleted, execVars, timerVars, beatsOut, stopVars>>
    BY <1>6 DEF FetchFails
  <2> QED
    BY <2>1, <2>2, ScheduleType DEF TypeOK, execVars, timerVars, stopVars
<1>7. CASE HeartbeatFires(s)
  BY <1>7, WorkerAssumption DEF TypeOK, HeartbeatFires, execVars, pollVars, timerVars, stopVars
<1> QED
  BY <1>1, <1>2, <1>3, <1>4, <1>5, <1>6, <1>7 DEF FetchEnds

\* Every step of a delivery keeps the types.
LEMMA DeliveryStepType ==
  ASSUME TypeOK, NEW j \in Jobs, NEW n \in Numbers,
         HandlerEnds(j, n) \/ TimeoutFires(j, n) \/ ChainStep(j, n)
  PROVE  TypeOK'
<1> USE DEF execVars, pollVars, timerVars
<1>1. CASE HandlerEnds(j, n)
  <2>1. PICK p \in {"acking", "nacking"} : Settle(j, n, p)
    BY <1>1 DEF HandlerEnds, HandlerReturns, HandlerFails
  <2>2. phase' \in [Jobs -> [Numbers -> ExecPhases]]
    BY <2>1, SettleType DEF ExecPhases, LivePhases
  <2> QED
    BY <1>1, <2>2 DEF TypeOK, HandlerEnds, HandlerReturns, HandlerFails, stopVars
<1>2. CASE TimeoutFires(j, n)
  BY <1>2 DEF TypeOK, TimeoutFires, Reasons, stopVars
<1>3. CASE RetryRequest(j, n)
  <2>1. tries' \in [Jobs -> [Numbers -> 0..(MaxTries - 1)]]
    BY <1>3, WorkerAssumption DEF TypeOK, RetryRequest
  <2>2. srv' \in [Jobs -> JobStates]
    BY <1>3, ServerType DEF RetryRequest
  <2> QED
    BY <1>3, <2>1, <2>2 DEF TypeOK, RetryRequest, stopVars
<1>4. CASE AckAnswered(j, n)
  <2>1. srv' \in [Jobs -> JobStates]
    BY <1>4, ServerType DEF AckAnswered
  <2>2. phase' \in [Jobs -> [Numbers -> ExecPhases]]
    BY <1>4, SettleType DEF AckAnswered, ExecPhases, LivePhases
  <2>3. tries' \in [Jobs -> [Numbers -> 0..(MaxTries - 1)]]
    BY <1>4, TriesResetType DEF AckAnswered
  <2>4. jobsCompleted' \in Nat
    BY <1>4 DEF TypeOK, AckAnswered
  <2> QED
    BY <1>4, <2>1, <2>2, <2>3, <2>4 DEF TypeOK, AckAnswered, stopVars
<1>5. CASE AckGivesUp(j, n) \/ NackAnswered(j, n)
  <2>1. srv' \in [Jobs -> JobStates]
    BY <1>5, ServerType DEF AckGivesUp, NackAnswered
  <2>2. phase' \in [Jobs -> [Numbers -> ExecPhases]]
    <3>1. PICK p \in {"nacking", "failed"} : Settle(j, n, p)
      BY <1>5 DEF AckGivesUp, NackAnswered
    <3> QED
      BY <3>1, SettleType DEF ExecPhases, LivePhases
  <2>3. tries' \in [Jobs -> [Numbers -> 0..(MaxTries - 1)]]
    BY <1>5, TriesResetType DEF AckGivesUp, NackAnswered
  <2> QED
    BY <1>5, <2>1, <2>2, <2>3 DEF TypeOK, AckGivesUp, NackAnswered, stopVars
<1>6. CASE CompletedEmitThrows(j, n)
  BY <1>6 DEF TypeOK, CompletedEmitThrows, Settle, ExecPhases, LivePhases, stopVars
<1>7. CASE CompletedEmitted(j, n) \/ NackGivesUp(j, n) \/ FailedEmitted(j, n)
  <2>1. PICK p \in {"settled", "rejected"} : finish(j, n, p)
    BY <1>7 DEF CompletedEmitted, NackGivesUp, FailedEmitted
  <2>2. p \in ExecPhases
    BY DEF ExecPhases
  <2>3. srv' \in [Jobs -> JobStates]
    BY <1>7, ServerType DEF CompletedEmitted, NackGivesUp, FailedEmitted, TypeOK
  <2>4. UNCHANGED <<state, jobsCompleted, pollVars, timerVars, beatsOut>>
    BY <1>7 DEF CompletedEmitted, NackGivesUp, FailedEmitted
  <2> QED
    BY <2>1, <2>2, <2>3, <2>4, FinishType DEF TypeOK
<1>8. CASE RejectEnds(j, n)
  <2>1. srv' \in [Jobs -> JobStates]
    BY <1>8, ServerType DEF RejectEnds
  <2>2. phase' \in [Jobs -> [Numbers -> ExecPhases]]
    <3>1. PICK p \in {"settled", "rejected"} : Settle(j, n, p)
      BY <1>8 DEF RejectEnds
    <3> QED
      BY <3>1, SettleType DEF ExecPhases
  <2>3. tries' \in [Jobs -> [Numbers -> 0..(MaxTries - 1)]]
    BY <1>8, TriesResetType DEF RejectEnds
  <2>4. active' \in [Jobs -> 0..MaxDeliveries]
    BY <1>8, WorkerAssumption DEF TypeOK, RejectEnds, deleteActive
  <2> QED
    BY <1>8, <2>1, <2>2, <2>3, <2>4 DEF TypeOK, RejectEnds, stopVars
<1> QED
  BY <1>1, <1>2, <1>3, <1>4, <1>5, <1>6, <1>7, <1>8 DEF ChainStep

\* Every step keeps the types.
LEMMA NextType == TypeOK /\ [Next]_vars => TypeOK'
<1> SUFFICES ASSUME TypeOK, [Next]_vars PROVE TypeOK'
  OBVIOUS
<1>1. CASE \E s \in Starts :
             \/ StartCalled(s) \/ StartContinues(s) \/ StartThrows(s)
             \/ PollTimerFires(s) \/ FetchEnds(s) \/ HeartbeatFires(s)
  BY <1>1, StartStepType
<1>2. CASE \E j \in Jobs, n \in Numbers :
             HandlerEnds(j, n) \/ TimeoutFires(j, n) \/ ChainStep(j, n)
  BY <1>2, DeliveryStepType
<1>3. CASE \E t \in Stops : StopCalled(t) \/ SignalArrives(t) \/ TerminateDirective(t)
  <2>1. PICK t \in Stops : stop(t)
    BY <1>3 DEF StopCalled, SignalArrives, TerminateDirective
  <2>2. beatsOut' \in 0..MaxBeats
    BY <1>3, WorkerAssumption DEF StopCalled, SignalArrives, TerminateDirective, TypeOK
  <2> QED
    BY <2>1, <2>2, StopType DEF TypeOK
<1>4. CASE \E t \in Stops : StopStep(t)
  <2>1. PICK t \in Stops : StopStep(t)
    BY <1>4
  <2>2. CASE GraceTimerFires(t) \/ StopContinues(t)
    BY <2>2, TerminateType
  <2>3. CASE StopReturns(t)
    BY <2>3 DEF TypeOK, StopReturns, StopPhases, execVars, pollVars, timerVars
  <2> QED
    BY <2>1, <2>2, <2>3 DEF StopStep
<1>5. CASE HeartbeatEnds
  BY <1>5, WorkerAssumption
     DEF HeartbeatEnds, TypeOK, execVars, pollVars, timerVars, stopVars
<1>6. CASE QuietDirective
  <2>1. beatsOut' \in 0..MaxBeats
    BY <1>6, WorkerAssumption DEF QuietDirective, TypeOK
  <2>2. chain' \in [Starts -> ChainPhases] /\ pollTimer' \in Starts \cup {None}
    BY <1>6 DEF QuietDirective, clearPollTimer, TypeOK, ChainPhases
  <2> QED
    BY <1>6, <2>1, <2>2 DEF QuietDirective, TypeOK, WorkerStates, execVars, timerVars, stopVars
<1>7. CASE \E j \in Jobs : LeaseExpires(j)
  BY <1>7 DEF LeaseExpires, TypeOK, JobStates, execVars, pollVars, timerVars, stopVars
<1>8. CASE UNCHANGED vars
  BY <1>8 DEF vars, TypeOK, execVars, pollVars, timerVars, stopVars
<1> QED
  BY <1>1, <1>2, <1>3, <1>4, <1>5, <1>6, <1>7, <1>8 DEF Next

\* The initial state is of the right type.
LEMMA InitType == Init => TypeOK
BY WorkerAssumption
   DEF Init, TypeOK, WorkerStates, ExecPhases, ChainPhases, StopPhases, JobStates, Reasons

\* The fields of the worker and its promise chains only ever hold the values
\* the code gives them; in particular the retry counter of an ack or nack
\* stays below ACK_NACK_MAX_RETRIES and no fetch asks for more than ten jobs.
THEOREM TypeCorrect == Spec => []TypeOK
BY InitType, NextType, PTL DEF Spec

-----------------------------------------------------------------------------
(* Slots.  All that a step can do to activeJobs and the promise chains is    *)
(* one of four things; the invariants about slots are proved from them.      *)

NoSlotChange == UNCHANGED <<active, phase>>

\* A promise chain moves on and keeps its entry.
MovesOn(j, n) ==
  /\ phase[j][n] \in LivePhases
  /\ \E p \in LivePhases : Settle(j, n, p)
  /\ UNCHANGED active

\* A promise chain ends and deletes the entry of its job.
Ends(j, n) ==
  /\ phase[j][n] \in LivePhases
  /\ \E p \in {"settled", "rejected"} : Settle(j, n, p)
  /\ deleteActive(j)

\* The answer to a fetch starts new chains.
Begins(s) ==
  /\ chain[s] = "fetching"
  /\ \E P \in SUBSET Leasable : /\ Cardinality(P) <= req[s]
                                /\ processJobs(P)

SlotStep ==
  \/ NoSlotChange
  \/ \E j \in Jobs, n \in Numbers : MovesOn(j, n) \/ Ends(j, n)
  \/ \E s \in Starts : Begins(s)

\* What a delivery does to the slots.
LEMMA DeliverySlots ==
  ASSUME NEW j \in Jobs, NEW n \in Numbers,
         HandlerEnds(j, n) \/ TimeoutFires(j, n) \/ ChainStep(j, n)
  PROVE  NoSlotChange \/ MovesOn(j, n) \/ Ends(j, n)
<1>1. CASE HandlerEnds(j, n)
  BY <1>1 DEF HandlerEnds, HandlerReturns, HandlerFails, MovesOn, LivePhases
<1>2. CASE TimeoutFires(j, n) \/ RetryRequest(j, n)
  BY <1>2 DEF TimeoutFires, RetryRequest, NoSlotChange
<1>3. CASE AckAnswered(j, n) \/ AckGivesUp(j, n) \/ NackAnswered(j, n)
  BY <1>3 DEF AckAnswered, AckGivesUp, NackAnswered, MovesOn, LivePhases
<1>4. CASE CompletedEmitThrows(j, n)
  BY <1>4 DEF CompletedEmitThrows, MovesOn, LivePhases
<1>5. CASE CompletedEmitted(j, n) \/ NackGivesUp(j, n) \/ FailedEmitted(j, n)
  BY <1>5 DEF CompletedEmitted, NackGivesUp, FailedEmitted, finish, Ends, LivePhases
<1>6. CASE RejectEnds(j, n)
  BY <1>6 DEF RejectEnds, Ends, LivePhases
<1> QED
  BY <1>1, <1>2, <1>3, <1>4, <1>5, <1>6 DEF ChainStep

\* What the answer to a fetch does to the slots.
LEMMA FetchSlots ==
  ASSUME TypeOK, NEW s \in Starts, FetchReturns(s)
  PROVE  Begins(s)
<1>1. PICK batch \in SUBSET Leasable, P \in SUBSET Leasable :
        /\ Cardinality(batch) <= req[s]
        /\ P \subseteq batch
        /\ processJobs(P)
  BY DEF FetchReturns
<1>2. batch \subseteq Jobs
  BY DEF Leasable
<1>3. IsFiniteSet(batch)
  BY <1>2, WorkerAssumption, FS_Subset
<1>4. IsFiniteSet(P) /\ Cardinality(P) <= Cardinality(batch)
  BY <1>1, <1>3, FS_Subset
<1>5. Cardinality(P) \in Nat /\ Cardinality(batch) \in Nat /\ req[s] \in Nat
  BY <1>3, <1>4, FS_CardinalityType DEF TypeOK
<1>6. Cardinality(P) <= req[s]
  BY <1>1, <1>4, <1>5
<1> QED
  BY <1>1, <1>6 DEF Begins, FetchReturns

\* Every step does one of the four things.
LEMMA NextSlots == TypeOK /\ [Next]_vars => SlotStep
<1> SUFFICES ASSUME TypeOK, [Next]_vars PROVE SlotStep
  OBVIOUS
<1> USE DEF execVars
<1>1. ASSUME NEW s \in Starts,
             \/ StartCalled(s) \/ StartContinues(s) \/ StartThrows(s)
             \/ PollTimerFires(s) \/ FetchFails(s) \/ HeartbeatFires(s)
      PROVE  NoSlotChange
  BY <1>1 DEF StartCalled, StartContinues, StartThrows, PollTimerFires, FetchFails,
              HeartbeatFires, NoSlotChange
<1>2. ASSUME NEW t \in Stops,
             \/ StopCalled(t) \/ SignalArrives(t) \/ TerminateDirective(t) \/ StopStep(t)
      PROVE  NoSlotChange
  BY <1>2 DEF StopCalled, SignalArrives, TerminateDirective, StopStep, stop,
              GraceTimerFires, StopContinues, StopReturns, NoSlotChange
<1>3. ASSUME HeartbeatEnds \/ QuietDirective \/ (\E j \in Jobs : LeaseExpires(j)) \/ UNCHANGED vars
      PROVE  NoSlotChange
  BY <1>3 DEF HeartbeatEnds, QuietDirective, LeaseExpires, vars, NoSlotChange
<1> QED
  BY <1>1, <1>2, <1>3, DeliverySlots, FetchSlots DEF Next, FetchEnds, SlotStep

\* A slot belongs to a promise chain that will give it back: inductive.
LEMMA SlotsHeldStep ==
  TypeOK /\ SlotsHeldByLiveDeliveries /\ SlotStep => SlotsHeldByLiveDeliveries'
<1> SUFFICES ASSUME TypeOK, SlotsHeldByLiveDeliveries, SlotStep,
                    NEW i \in Jobs, active'[i] # 0, i \notin SyncThrowers
             PROVE  phase'[i][active'[i]] \in LivePhases
  BY DEF SlotsHeldByLiveDeliveries, ActiveJobs, Live
<1>1. active[i] # 0 => phase[i][active[i]] \in LivePhases /\ active[i] \in Numbers
  BY DEF SlotsHeldByLiveDeliveries, ActiveJobs, Live, TypeOK, Numbers
<1>2. CASE NoSlotChange
  BY <1>1, <1>2 DEF NoSlotChange
<1>3. ASSUME NEW j \in Jobs, NEW n \in Numbers, MovesOn(j, n)
      PROVE  phase'[i][active'[i]] \in LivePhases
  BY <1>1, <1>3 DEF MovesOn, Settle, TypeOK
<1>4. ASSUME NEW j \in Jobs, NEW n \in Numbers, Ends(j, n)
      PROVE  phase'[i][active'[i]] \in LivePhases
  <2>1. i # j
    BY <1>4 DEF Ends, deleteActive, TypeOK
  <2> QED
    BY <1>1, <1>4, <2>1 DEF Ends, Settle, deleteActive, TypeOK
<1>5. ASSUME NEW s \in Starts, Begins(s)
      PROVE  phase'[i][active'[i]] \in LivePhases
  <2>1. PICK P \in SUBSET Leasable : processJobs(P)
    BY <1>5 DEF Begins
  <2>2. CASE i \notin P
    BY <1>1, <2>1, <2>2 DEF processJobs
  <2>3. CASE i \in P
    <3>1. delivered[i] + 1 \in Numbers
      BY <2>3, WorkerAssumption DEF Leasable, TypeOK, Numbers
    <3>2. FirstPhase(i) \in LivePhases
      BY DEF FirstPhase, LivePhases
    <3> QED
      BY <2>1, <2>3, <3>1, <3>2 DEF processJobs, TypeOK
  <2> QED
    BY <2>2, <2>3
<1> QED
  BY <1>2, <1>3, <1>4, <1>5 DEF SlotStep

\* No slot is ever leaked: whatever the order of answers, redeliveries, lost
\* requests, throwing listeners, restarts and stops, an entry of activeJobs
\* belongs to a promise chain that will delete it, unless the handler threw
\* synchronously.
THEOREM NoSlotLeak == Spec => []SlotsHeldByLiveDeliveries
<1>1. Init => SlotsHeldByLiveDeliveries
  BY DEF Init, SlotsHeldByLiveDeliveries, ActiveJobs
<1> QED
  BY <1>1, TypeCorrect, NextSlots, SlotsHeldStep, PTL DEF Spec

\* A live delivery keeps its entry as long as the server does not hand its
\* job out again: inductive.
LEMMA TrackedStep ==
  ASSUME ~MayOverlap
  PROVE  TypeOK /\ LiveDeliveriesTracked /\ SlotStep => LiveDeliveriesTracked'
<1> SUFFICES ASSUME TypeOK, LiveDeliveriesTracked, SlotStep,
                    NEW i \in Jobs, NEW m \in Numbers, phase'[i][m] \in LivePhases
             PROVE  active'[i] = m
  BY DEF LiveDeliveriesTracked, LiveDeliveries, Deliveries, Live
<1>1. \A k \in Jobs, n \in Numbers : phase[k][n] \in LivePhases => active[k] = n
  <2>1. ASSUME NEW k \in Jobs, NEW n \in Numbers, phase[k][n] \in LivePhases
        PROVE  active[k] = n
    <3>1. <<k, n>> \in LiveDeliveries
      BY <2>1 DEF LiveDeliveries, Deliveries, Live
    <3> QED
      BY <3>1 DEF LiveDeliveriesTracked
  <2> QED
    BY <2>1
<1>2. CASE NoSlotChange
  BY <1>1, <1>2 DEF NoSlotChange
<1>3. ASSUME NEW j \in Jobs, NEW n \in Numbers, MovesOn(j, n)
      PROVE  active'[i] = m
  <2>1. phase[i][m] \in LivePhases
    BY <1>3 DEF MovesOn, Settle, TypeOK
  <2> QED
    BY <1>1, <1>3, <2>1 DEF MovesOn
<1>4. ASSUME NEW j \in Jobs, NEW n \in Numbers, Ends(j, n)
      PROVE  active'[i] = m
  <2>1. phase[i][m] \in LivePhases /\ ~(i = j /\ m = n)
    BY <1>4 DEF Ends, Settle, TypeOK, LivePhases
  <2>2. active[i] = m /\ i # j
    BY <1>1, <1>4, <2>1 DEF Ends
  <2> QED
    BY <1>4, <2>2 DEF Ends, deleteActive, TypeOK
<1>5. ASSUME NEW s \in Starts, Begins(s)
      PROVE  active'[i] = m
  <2>1. PICK P \in SUBSET Leasable : processJobs(P)
    BY <1>5 DEF Begins
  <2>2. CASE i \notin P
    BY <1>1, <2>1, <2>2 DEF processJobs
  <2>3. CASE i \in P
    <3>1. active[i] = 0 /\ delivered[i] + 1 \in Numbers
      BY <2>3, WorkerAssumption, SMTT(30) DEF Leasable, TypeOK, Numbers
    <3>2. phase[i][m] \notin LivePhases
      BY <1>1, <3>1 DEF Numbers
    <3>3. m = delivered[i] + 1
      BY <2>1, <2>3, <3>1, <3>2 DEF processJobs, TypeOK
    <3> QED
      BY <2>1, <2>3, <3>3 DEF processJobs
  <2> QED
    BY <2>2, <2>3
<1> QED
  BY <1>2, <1>3, <1>4, <1>5 DEF SlotStep

\* As long as the server does not hand out a job that is still in progress,
\* nothing is processed behind the back of activeJobs, restarts included.
THEOREM EveryExecutionTracked ==
  ASSUME ~MayOverlap
  PROVE  Spec => []LiveDeliveriesTracked
<1>1. Init => LiveDeliveriesTracked
  BY DEF Init, LiveDeliveriesTracked, LiveDeliveries, Deliveries, Live, LivePhases
<1>2. TypeOK /\ LiveDeliveriesTracked /\ SlotStep => LiveDeliveriesTracked'
  BY TrackedStep
<1> QED
  BY <1>1, <1>2, TypeCorrect, NextSlots, PTL DEF Spec

\* Termination aborts what is left: only the last part of stop() sets the
\* state to terminated, and it aborts every controller of activeJobs, which
\* are the controllers of all live deliveries.
THEOREM TerminatedMeansAborted ==
  ASSUME ~MayOverlap
  PROVE  Spec => TerminationAborts
<1>1. ASSUME TypeOK, LiveDeliveriesTracked, Next,
             state # "terminated", state' = "terminated",
             NEW d \in LiveDeliveries'
      PROVE  aborted'[d[1]][d[2]] # "no"
  <2>1. PICK j \in Jobs, n \in Numbers : d = <<j, n>>
    BY DEF LiveDeliveries, Deliveries
  <2>2. PICK t \in Stops :
          /\ terminateNow(t)
          /\ UNCHANGED <<active, phase>>
    <3>1. ASSUME NEW s \in Starts,
                 \/ StartCalled(s) \/ StartContinues(s) \/ StartThrows(s)
                 \/ PollTimerFires(s) \/ FetchEnds(s) \/ HeartbeatFires(s)
          PROVE  FALSE
      BY <1>1, <3>1 DEF StartCalled, StartContinues, StartThrows, PollTimerFires,
                        FetchEnds, FetchReturns, FetchFails, HeartbeatFires
    <3>2. ASSUME NEW k \in Jobs, NEW m \in Numbers,
                 HandlerEnds(k, m) \/ TimeoutFires(k, m) \/ ChainStep(k, m)
          PROVE  FALSE
      BY <1>1, <3>2 DEF HandlerEnds, HandlerReturns, HandlerFails, TimeoutFires, ChainStep,
                        RetryRequest, AckAnswered, AckGivesUp, CompletedEmitted,
                        CompletedEmitThrows, NackAnswered, NackGivesUp, FailedEmitted, RejectEnds
    <3>3. ASSUME NEW t \in Stops,
                 StopCalled(t) \/ SignalArrives(t) \/ TerminateDirective(t)
          PROVE  terminateNow(t) /\ UNCHANGED <<active, phase>>
      <4>1. stop(t)
        BY <3>3 DEF StopCalled, SignalArrives, TerminateDirective
      <4> QED
        BY <1>1, <4>1 DEF stop
    <3>4. ASSUME NEW t \in Stops, StopStep(t)
          PROVE  terminateNow(t) /\ UNCHANGED <<active, phase>>
      BY <1>1, <3>4 DEF StopStep, GraceTimerFires, StopContinues, StopReturns
    <3>5. ~HeartbeatEnds /\ ~QuietDirective /\ ~(\E k \in Jobs : LeaseExpires(k))
      BY <1>1 DEF HeartbeatEnds, QuietDirective, LeaseExpires
    <3> QED
      BY <1>1, <3>1, <3>2, <3>3, <3>4, <3>5 DEF Next
  <2>3. phase[j][n] \in LivePhases
    BY <1>1, <2>1, <2>2 DEF LiveDeliveries, Live
  <2>4. <<j, n>> \in LiveDeliveries
    BY <2>3 DEF LiveDeliveries, Deliveries, Live
  <2>5. active[j] = n
    BY <1>1, <2>4 DEF LiveDeliveriesTracked
  <2>6. aborted'[j][n] = IF active[j] = n /\ aborted[j][n] = "no"
                         THEN "shutdown" ELSE aborted[j][n]
    BY <2>2 DEF terminateNow, abortRemaining
  <2>7. aborted'[j][n] # "no"
    BY <2>5, <2>6
  <2> QED
    BY <2>1, <2>7
<1>2. ASSUME TypeOK, LiveDeliveriesTracked, [Next]_vars
      PROVE  [state # "terminated" /\ state' = "terminated" =>
                \A d \in LiveDeliveries' : aborted'[d[1]][d[2]] # "no"]_vars
  BY <1>1, <1>2
<1> QED
  BY <1>2, TypeCorrect, EveryExecutionTracked, PTL DEF Spec, TerminationAborts

-----------------------------------------------------------------------------
(* The poll loop *)

Alive(s) == chain[s] \in {"starting", "timer", "fetching"}

\* What a poll or the end of a fetch leaves of the chain that ran it.
LEMMA PollKeepsAlive ==
  ASSUME TypeOK, NEW s \in Starts, state = "running", poll(s) \/ ScheduleNextPoll(s)
  PROVE  Alive(s)'
BY DEF TypeOK, poll, ScheduleNextPoll, ArmPollTimer, Alive

\* A running worker keeps an alive chain: inductive.
LEMMA PollingStep ==
  ASSUME ~ThrowingListeners
  PROVE  TypeOK /\ RunningKeepsPolling /\ [Next]_vars => RunningKeepsPolling'
<1> SUFFICES ASSUME TypeOK, RunningKeepsPolling, [Next]_vars, state' = "running"
             PROVE  \E s \in Starts : Alive(s)'
  BY DEF RunningKeepsPolling, Alive
<1>0. state = "running" => \E s \in Starts : Alive(s)
  BY DEF RunningKeepsPolling, Alive
<1>1. ASSUME NEW s \in Starts, StartCalled(s)
      PROVE  Alive(s)'
  BY <1>1 DEF StartCalled, TypeOK, Alive
<1>2. ASSUME NEW s \in Starts, StartContinues(s) \/ PollTimerFires(s) \/ FetchEnds(s)
      PROVE  Alive(s)'
  <2>1. state = "running" /\ (poll(s) \/ ScheduleNextPoll(s))
    BY <1>2 DEF StartContinues, PollTimerFires, FetchEnds, FetchReturns, FetchFails
  <2> QED
    BY <2>1, PollKeepsAlive
<1>3. ASSUME NEW s \in Starts, StartThrows(s)
      PROVE  FALSE
  BY <1>3 DEF StartThrows
<1>4. ASSUME NEW t \in Stops,
             StopCalled(t) \/ SignalArrives(t) \/ TerminateDirective(t)
      PROVE  FALSE
  <2>1. stop(t)
    BY <1>4 DEF StopCalled, SignalArrives, TerminateDirective
  <2> QED
    BY <2>1 DEF stop, terminateNow
<1>5. CASE UNCHANGED <<state, chain>>
  BY <1>0, <1>5 DEF Alive
<1>6. ASSUME NEW s \in Starts, HeartbeatFires(s)
      PROVE  UNCHANGED <<state, chain>>
  BY <1>6 DEF HeartbeatFires, pollVars
<1>7. ASSUME NEW j \in Jobs, NEW n \in Numbers,
             HandlerEnds(j, n) \/ TimeoutFires(j, n) \/ ChainStep(j, n)
      PROVE  UNCHANGED <<state, chain>>
  BY <1>7 DEF HandlerEnds, HandlerReturns, HandlerFails, TimeoutFires, ChainStep,
              RetryRequest, AckAnswered, AckGivesUp, CompletedEmitted,
              CompletedEmitThrows, NackAnswered, NackGivesUp, FailedEmitted,
              RejectEnds, pollVars
<1>8. ASSUME NEW t \in Stops, StopStep(t)
      PROVE  UNCHANGED <<state, chain>>
  BY <1>8 DEF StopStep, GraceTimerFires, StopContinues, StopReturns, terminateNow, pollVars
<1>9. ~QuietDirective
  BY DEF QuietDirective
<1>10. ASSUME HeartbeatEnds \/ (\E j \in Jobs : LeaseExpires(j)) \/ UNCHANGED vars
       PROVE  UNCHANGED <<state, chain>>
  BY <1>10 DEF HeartbeatEnds, LeaseExpires, vars, pollVars
<1> QED
  BY <1>1, <1>2, <1>3, <1>4, <1>5, <1>6, <1>7, <1>8, <1>9, <1>10 DEF Next

\* A running worker never stops polling: stop calls, directives, restarts and
\* failed fetches in any order leave it with a chain that will poll again, as
\* long as no listener of worker.started throws.
THEOREM PollingNeverDies ==
  ASSUME ~ThrowingListeners
  PROVE  Spec => []RunningKeepsPolling
<1>1. Init => RunningKeepsPolling
  BY DEF Init, RunningKeepsPolling
<1>2. TypeOK /\ RunningKeepsPolling /\ [Next]_vars => RunningKeepsPolling'
  BY PollingStep
<1> QED
  BY <1>1, <1>2, TypeCorrect, PTL DEF Spec

-----------------------------------------------------------------------------
(* The concurrency limit, for a worker that is started once.  A fetch in     *)
(* flight reserves the slots it asked for; without the reservation the limit *)
(* is not inductive: the answer comes when other jobs may hold the slots.    *)

SlotsReserved ==
  \A s \in Starts : /\ chain[s] # "fetching" => req[s] = 0
                    /\ activeJobCount + req[s] <= Concurrency

\* The three things a step can do to the reservation of the only poll chain.
KeepsReservation(r) ==
  /\ UNCHANGED req
  /\ chain[r] = "fetching" <=> chain'[r] = "fetching"
  /\ \/ NoSlotChange
     \/ \E j \in Jobs, n \in Numbers : MovesOn(j, n) \/ Ends(j, n)

Reserves(r) ==
  /\ chain[r] # "fetching" /\ chain'[r] = "fetching"
  /\ activeJobCount < Concurrency
  /\ req' = [req EXCEPT ![r] = FetchCount]
  /\ UNCHANGED active

UsesReservation(r) ==
  /\ chain[r] = "fetching"
  /\ req' = [req EXCEPT ![r] = 0]
  /\ Begins(r) \/ UNCHANGED active

\* What poll() does to the reservation.
LEMMA PollReserves ==
  ASSUME TypeOK, NEW r, Starts = {r}, chain[r] # "fetching", poll(r), UNCHANGED <<active, phase>>
  PROVE  KeepsReservation(r) \/ Reserves(r)
<1>1. r \in Starts
  OBVIOUS
<1>2. CASE chain'[r] = "fetching"
  BY <1>1, <1>2 DEF TypeOK, poll, ArmPollTimer, Reserves
<1>3. CASE chain'[r] # "fetching"
  BY <1>1, <1>3 DEF TypeOK, poll, ArmPollTimer, KeepsReservation, NoSlotChange
<1> QED
  BY <1>2, <1>3

\* Clearing the poll timer does not touch a fetch in flight.
LEMMA ClearKeepsFetch ==
  ASSUME TypeOK, NEW r \in Starts, clearPollTimer
  PROVE  chain[r] = "fetching" <=> chain'[r] = "fetching"
BY DEF TypeOK, clearPollTimer

\* Every step of a worker started once does one of the three things.
LEMMA NextReserves ==
  ASSUME TypeOK, [Next]_vars, NEW r, Starts = {r}
  PROVE  KeepsReservation(r) \/ Reserves(r) \/ UsesReservation(r)
<1>0. r \in Starts
  OBVIOUS
<1> USE DEF execVars
<1>1. CASE StartCalled(r) \/ StartThrows(r)
  BY <1>0, <1>1 DEF StartCalled, StartThrows, TypeOK, KeepsReservation, NoSlotChange
<1>2. CASE StartContinues(r) \/ PollTimerFires(r)
  BY <1>2, PollReserves DEF StartContinues, PollTimerFires
<1>3. CASE FetchReturns(r)
  BY <1>0, <1>3, FetchSlots DEF FetchReturns, ScheduleNextPoll, UsesReservation
<1>4. CASE FetchFails(r)
  BY <1>4 DEF FetchFails, ScheduleNextPoll, UsesReservation
<1>5. CASE HeartbeatFires(r)
  BY <1>5 DEF HeartbeatFires, pollVars, KeepsReservation, NoSlotChange
<1>6. ASSUME NEW j \in Jobs, NEW n \in Numbers,
             HandlerEnds(j, n) \/ TimeoutFires(j, n) \/ ChainStep(j, n)
      PROVE  KeepsReservation(r)
  <2>1. UNCHANGED <<chain, req>>
    BY <1>6 DEF HandlerEnds, HandlerReturns, HandlerFails, TimeoutFires, ChainStep,
                RetryRequest, AckAnswered, AckGivesUp, CompletedEmitted,
                CompletedEmitThrows, NackAnswered, NackGivesUp, FailedEmitted,
                RejectEnds, pollVars
  <2> QED
    BY <1>6, <2>1, DeliverySlots DEF KeepsReservation
<1>7. ASSUME NEW t \in Stops, StopCalled(t) \/ SignalArrives(t) \/ TerminateDirective(t)
      PROVE  KeepsReservation(r)
  <2>1. stop(t)
    BY <1>7 DEF StopCalled, SignalArrives, TerminateDirective
  <2>2. UNCHANGED req /\ NoSlotChange
    BY <2>1 DEF stop, pollVars, NoSlotChange
  <2>3. chain[r] = "fetching" <=> chain'[r] = "fetching"
    <3>1. CASE state = "terminated"
      BY <2>1, <3>1 DEF stop, pollVars
    <3>2. CASE state # "terminated"
      BY <1>0, <2>1, <3>2, ClearKeepsFetch DEF stop
    <3> QED
      BY <3>1, <3>2
  <2> QED
    BY <2>2, <2>3 DEF KeepsReservation
<1>8. ASSUME NEW t \in Stops, StopStep(t)
      PROVE  KeepsReservation(r)
  BY <1>8 DEF StopStep, GraceTimerFires, StopContinues, StopReturns, pollVars,
              KeepsReservation, NoSlotChange
<1>9. CASE QuietDirective
  BY <1>0, <1>9, ClearKeepsFetch DEF QuietDirective, KeepsReservation, NoSlotChange
<1>10. CASE HeartbeatEnds \/ (\E j \in Jobs : LeaseExpires(j)) \/ UNCHANGED vars
  BY <1>10 DEF HeartbeatEnds, LeaseExpires, vars, pollVars, KeepsReservation, NoSlotChange
<1> QED
  BY <1>1, <1>2, <1>3, <1>4, <1>5, <1>6, <1>7, <1>8, <1>9, <1>10 DEF Next, FetchEnds

\* What the slot steps do to the set of busy jobs.
LEMMA MovesOnBusy ==
  ASSUME NEW j \in Jobs, NEW n \in Numbers, MovesOn(j, n)
  PROVE  ActiveJobs' = ActiveJobs
BY DEF MovesOn, ActiveJobs

\* A step that ends a delivery takes its job from the busy ones.
LEMMA EndsBusy ==
  ASSUME TypeOK, NEW j \in Jobs, NEW n \in Numbers, Ends(j, n)
  PROVE  ActiveJobs' = ActiveJobs \ {j}
BY DEF TypeOK, Ends, deleteActive, ActiveJobs

\* The answer of a fetch adds no more busy jobs than were asked for.
LEMMA BeginsBusy ==
  ASSUME TypeOK, NEW s \in Starts, Begins(s)
  PROVE  \E P \in SUBSET Jobs : /\ Cardinality(P) <= req[s]
                                /\ ActiveJobs' = ActiveJobs \cup P
<1>1. PICK P \in SUBSET Leasable : Cardinality(P) <= req[s] /\ processJobs(P)
  BY DEF Begins
<1>2. P \in SUBSET Jobs /\ \A j \in P : delivered[j] + 1 # 0
  BY DEF Leasable, TypeOK
<1>3. ActiveJobs' = ActiveJobs \cup P
  BY <1>1, <1>2 DEF processJobs, ActiveJobs
<1> QED
  BY <1>1, <1>2, <1>3

\* The reservation is inductive.
LEMMA ReservedStep ==
  ASSUME TypeOK, SlotsReserved, [Next]_vars, NEW r, Starts = {r}, TypeOK'
  PROVE  SlotsReserved'
<1>0. /\ r \in Starts
      /\ activeJobCount \in Nat /\ activeJobCount' \in Nat
      /\ req[r] \in Nat /\ req'[r] \in Nat
      /\ Concurrency \in Nat
      /\ chain[r] # "fetching" => req[r] = 0
      /\ activeJobCount + req[r] <= Concurrency
  <2>1. activeJobCount' \in Nat
    <3>1. ActiveJobs' \subseteq Jobs
      BY DEF ActiveJobs
    <3> QED
      BY <3>1, FS_Subset, FS_CardinalityType, WorkerAssumption DEF activeJobCount
  <2> QED
    BY <2>1, ActiveJobsFinite, WorkerAssumption DEF SlotsReserved, TypeOK
<1> SUFFICES /\ chain'[r] # "fetching" => req'[r] = 0
             /\ activeJobCount' + req'[r] <= Concurrency
  BY DEF SlotsReserved
<1>1. CASE KeepsReservation(r)
  <2>1. activeJobCount' <= activeJobCount
    <3>1. CASE ActiveJobs' = ActiveJobs
      BY <1>0, <3>1 DEF activeJobCount
    <3>2. ASSUME NEW j \in Jobs, ActiveJobs' = ActiveJobs \ {j}
          PROVE  activeJobCount' <= activeJobCount
      <4>1. activeJobCount' = Cardinality(ActiveJobs \ {j})
        BY <3>2 DEF activeJobCount
      <4>2. Cardinality(ActiveJobs \ {j}) =
              IF j \in ActiveJobs THEN Cardinality(ActiveJobs) - 1 ELSE Cardinality(ActiveJobs)
        BY ActiveJobsFinite, FS_RemoveElement
      <4> QED
        BY <1>0, <4>1, <4>2 DEF activeJobCount
    <3>3. NoSlotChange => ActiveJobs' = ActiveJobs
      BY DEF NoSlotChange, ActiveJobs
    <3> QED
      BY <1>1, <3>1, <3>2, <3>3, MovesOnBusy, EndsBusy DEF KeepsReservation
  <2> QED
    BY <1>0, <1>1, <2>1 DEF KeepsReservation
<1>2. CASE Reserves(r)
  <2>1. FetchCount <= Concurrency - activeJobCount
    BY <1>0, WorkerAssumption DEF FetchCount
  <2>2. activeJobCount' = activeJobCount
    BY <1>2 DEF Reserves, activeJobCount, ActiveJobs
  <2>3. req'[r] = FetchCount
    BY <1>0, <1>2 DEF Reserves, TypeOK
  <2> QED
    BY <1>0, <1>2, <2>1, <2>2, <2>3 DEF Reserves
<1>3. CASE UsesReservation(r)
  <2>1. req'[r] = 0
    BY <1>0, <1>3 DEF UsesReservation, TypeOK
  <2>2. CASE UNCHANGED active
    BY <1>0, <2>1, <2>2 DEF activeJobCount, ActiveJobs
  <2>3. CASE Begins(r)
    <3>1. PICK P \in SUBSET Jobs : /\ Cardinality(P) <= req[r]
                                   /\ ActiveJobs' = ActiveJobs \cup P
      BY <1>0, <2>3, BeginsBusy
    <3>2. IsFiniteSet(P) /\ Cardinality(P) \in Nat
      <4>1. IsFiniteSet(P)
        BY FS_Subset, WorkerAssumption
      <4> QED
        BY <4>1, FS_CardinalityType
    <3>3. /\ Cardinality(ActiveJobs \cup P) =
               Cardinality(ActiveJobs) + Cardinality(P) - Cardinality(ActiveJobs \cap P)
          /\ Cardinality(ActiveJobs \cap P) \in Nat
      <4>1. IsFiniteSet(ActiveJobs \cap P)
        BY ActiveJobsFinite, FS_Subset
      <4> QED
        BY <3>2, <4>1, ActiveJobsFinite, FS_Union, FS_CardinalityType
    <3> QED
      BY <1>0, <2>1, <3>1, <3>2, <3>3 DEF activeJobCount
  <2> QED
    BY <1>3, <2>2, <2>3 DEF UsesReservation
<1> QED
  BY <1>1, <1>2, <1>3, NextReserves

\* A worker that is started once never has more slots taken and asked for
\* than config.concurrency.
THEOREM ReservationsFit ==
  ASSUME NEW r, Starts = {r}
  PROVE  Spec => []SlotsReserved
<1>1. Init => SlotsReserved
  <2> SUFFICES ASSUME Init PROVE SlotsReserved
    OBVIOUS
  <2>1. ActiveJobs = {}
    BY DEF Init, ActiveJobs
  <2> QED
    BY <2>1, FS_EmptySet, WorkerAssumption DEF Init, SlotsReserved, activeJobCount
<1>2. TypeOK /\ SlotsReserved /\ [Next]_vars /\ TypeOK' => SlotsReserved'
  BY ReservedStep
<1> QED
  BY <1>1, <1>2, TypeCorrect, PTL DEF Spec

\* The number of live deliveries is at most the number of busy jobs, when
\* each of them has its entry.
LEMMA LiveAtMostBusy ==
  ASSUME TypeOK, LiveDeliveriesTracked
  PROVE  Cardinality(LiveDeliveries) <= activeJobCount
<1> DEFINE f == [d \in LiveDeliveries |-> d[1]]
<1>1. \A d \in LiveDeliveries : /\ d = <<d[1], d[2]>> /\ d[1] \in Jobs
                                /\ active[d[1]] = d[2] /\ d[2] \in Numbers
  BY DEF LiveDeliveries, Deliveries, LiveDeliveriesTracked
<1>2. \A d \in LiveDeliveries : d[1] \in ActiveJobs
  BY <1>1, WorkerAssumption DEF ActiveJobs, Numbers
<1>3. f \in [LiveDeliveries -> ActiveJobs]
  BY <1>2
<1>4. \A d, e \in LiveDeliveries : f[d] = f[e] => d = e
  BY <1>1
<1>5. f \in Injection(LiveDeliveries, ActiveJobs)
  BY <1>3, <1>4 DEF Injection, IsInjective
<1> QED
  BY <1>5, ActiveJobsFinite, FS_Injection DEF activeJobCount

\* "Maximum number of concurrent jobs": a worker that is started once and
\* never given a job it is still processing has at most config.concurrency
\* executions under way, whatever fetches, stops and failures happen.
THEOREM ConcurrencyLimit ==
  ASSUME NEW r, Starts = {r}, ~MayOverlap
  PROVE  Spec => []ConcurrencyRespected
<1>1. TypeOK /\ LiveDeliveriesTracked /\ SlotsReserved => ConcurrencyRespected
  <2> SUFFICES ASSUME TypeOK, LiveDeliveriesTracked, SlotsReserved
               PROVE  ConcurrencyRespected
    OBVIOUS
  <2>1. Cardinality(LiveDeliveries) <= activeJobCount
    BY LiveAtMostBusy
  <2>2. activeJobCount \in Nat /\ req[r] \in Nat /\ activeJobCount + req[r] <= Concurrency
    BY ActiveJobsFinite DEF SlotsReserved, TypeOK
  <2>3. IsFiniteSet(LiveDeliveries)
    <3>1. IsFiniteSet(Numbers)
      BY FS_Interval, WorkerAssumption DEF Numbers
    <3>2. IsFiniteSet(Deliveries)
      BY <3>1, FS_Product, WorkerAssumption DEF Deliveries
    <3> QED
      BY <3>2, FS_Subset DEF LiveDeliveries
  <2>4. Cardinality(LiveDeliveries) \in Nat
    BY <2>3, FS_CardinalityType
  <2> QED
    BY <2>1, <2>2, <2>4, WorkerAssumption DEF ConcurrencyRespected
<1>2. Spec => []LiveDeliveriesTracked
  BY EveryExecutionTracked
<1>3. Spec => []SlotsReserved
  BY ReservationsFit
<1> QED
  BY <1>1, <1>2, <1>3, TypeCorrect, PTL

-----------------------------------------------------------------------------
(* The abstract slot pool *)

\* The initial state of the worker is the empty pool.
LEMMA PoolInit == Init => Pool!Init
BY DEF Init, Pool!Init, ActiveJobs

\* Every step of a worker that is started once reserves, grants or releases
\* slots as the pool allows, or leaves the pool as it is.
LEMMA PoolStep ==
  ASSUME TypeOK, SlotsReserved, [Next]_vars, NEW r, Starts = {r}
  PROVE  [Pool!Next]_<<ActiveJobs, req>>
<1>0. /\ r \in Starts
      /\ activeJobCount \in Nat /\ req[r] \in Nat
      /\ chain[r] # "fetching" => req[r] = 0
  BY ActiveJobsFinite DEF SlotsReserved, TypeOK
<1>1. CASE KeepsReservation(r)
  <2>1. CASE NoSlotChange
    BY <1>1, <2>1 DEF KeepsReservation, NoSlotChange, ActiveJobs
  <2>2. ASSUME NEW j \in Jobs, NEW n \in Numbers, MovesOn(j, n)
        PROVE  UNCHANGED <<ActiveJobs, req>>
    BY <1>1, <2>2, MovesOnBusy DEF KeepsReservation
  <2>3. ASSUME NEW j \in Jobs, NEW n \in Numbers, Ends(j, n)
        PROVE  Pool!Next
    <3>1. Pool!Release(j)
      BY <1>1, <2>3, EndsBusy DEF KeepsReservation, Pool!Release
    <3> QED
      BY <3>1 DEF Pool!Next
  <2> QED
    BY <1>1, <2>1, <2>2, <2>3 DEF KeepsReservation
<1>2. CASE Reserves(r)
  <2>1. FetchCount \in 1..Concurrency /\ FetchCount <= Concurrency - activeJobCount
    BY <1>0, <1>2, WorkerAssumption DEF FetchCount, Reserves
  <2>2. UNCHANGED ActiveJobs
    BY <1>2 DEF Reserves, ActiveJobs
  <2>3. Pool!Reserve(r, FetchCount)
    BY <1>0, <1>2, <2>1, <2>2 DEF Reserves, Pool!Reserve, activeJobCount, Pool!Cardinality, Cardinality
  <2> QED
    BY <1>0, <2>1, <2>3 DEF Pool!Next
<1>3. CASE UsesReservation(r)
  <2>1. PICK P \in SUBSET Jobs : /\ Cardinality(P) <= req[r]
                                 /\ ActiveJobs' = ActiveJobs \cup P
    <3>1. CASE Begins(r)
      BY <1>0, <3>1, BeginsBusy
    <3>2. CASE UNCHANGED active
      <4>1. ActiveJobs' = ActiveJobs \cup {}
        BY <3>2 DEF ActiveJobs
      <4> QED
        BY <1>0, <4>1, FS_EmptySet
    <3> QED
      BY <1>3, <3>1, <3>2 DEF UsesReservation
  <2>2. Pool!Grant(r, P)
    BY <1>3, <2>1 DEF UsesReservation, Pool!Grant, Pool!Cardinality, Cardinality
  <2> QED
    BY <1>0, <2>2 DEF Pool!Next
<1> QED
  BY <1>1, <1>2, <1>3, NextReserves

\* activeJobs together with the fetch in flight implements the slot pool.
THEOREM PoolImplemented ==
  ASSUME NEW r, Starts = {r}
  PROVE  Spec => ImplementsPool
<1>1. TypeOK /\ SlotsReserved /\ [Next]_vars => [Pool!Next]_<<ActiveJobs, req>>
  BY PoolStep
<1>2. Spec => []SlotsReserved
  BY ReservationsFit
<1> QED
  BY <1>1, <1>2, PoolInit, TypeCorrect, PTL DEF Spec, ImplementsPool, Pool!Spec

-----------------------------------------------------------------------------
(* The life cycle of the README *)

\* A worker whose only start() has not been called is terminated.
StartPending == \A s \in Starts : chain[s] = "idle" => state = "terminated"

\* Every step follows an arrow of the diagram or leaves the state alone, and
\* a chain that is not idle stays so.
LEMMA LifecycleStep ==
  ASSUME TypeOK, StartPending, [Next]_vars, NEW r, Starts = {r}
  PROVE  [Lifecycle!Next]_state /\ StartPending'
<1>0. r \in Starts
  OBVIOUS
<1> USE DEF Lifecycle!Next, Lifecycle!Start, Lifecycle!Quiet, Lifecycle!Stop, Lifecycle!GraceOver
<1>1. CASE StartCalled(r)
  BY <1>0, <1>1 DEF StartCalled, StartPending, TypeOK
<1>2. CASE StartContinues(r) \/ PollTimerFires(r)
  <2>1. UNCHANGED state /\ poll(r)
    BY <1>2 DEF StartContinues, PollTimerFires
  <2>2. chain'[r] # "idle"
    BY <1>0, <2>1 DEF poll, ArmPollTimer, TypeOK
  <2> QED
    BY <1>0, <2>1, <2>2 DEF StartPending
<1>3. CASE FetchEnds(r)
  <2>1. UNCHANGED state /\ ScheduleNextPoll(r)
    BY <1>3 DEF FetchEnds, FetchReturns, FetchFails
  <2>2. chain'[r] # "idle"
    BY <1>0, <2>1 DEF ScheduleNextPoll, ArmPollTimer, TypeOK
  <2> QED
    BY <1>0, <2>1, <2>2 DEF StartPending
<1>4. CASE StartThrows(r)
  BY <1>0, <1>4 DEF StartThrows, StartPending, TypeOK
<1>5. CASE HeartbeatFires(r)
  BY <1>5 DEF HeartbeatFires, StartPending, pollVars
<1>6. ASSUME NEW j \in Jobs, NEW n \in Numbers,
             HandlerEnds(j, n) \/ TimeoutFires(j, n) \/ ChainStep(j, n)
      PROVE  [Lifecycle!Next]_state /\ StartPending'
  BY <1>6 DEF HandlerEnds, HandlerReturns, HandlerFails, TimeoutFires, ChainStep,
              RetryRequest, AckAnswered, AckGivesUp, CompletedEmitted,
              CompletedEmitThrows, NackAnswered, NackGivesUp, FailedEmitted,
              RejectEnds, pollVars, StartPending
<1>7. ASSUME NEW t \in Stops, StopCalled(t) \/ SignalArrives(t) \/ TerminateDirective(t)
      PROVE  [Lifecycle!Next]_state /\ StartPending'
  <2>1. stop(t)
    BY <1>7 DEF StopCalled, SignalArrives, TerminateDirective
  <2>2. CASE state = "terminated"
    BY <2>1, <2>2 DEF stop, pollVars, StartPending
  <2>3. CASE state # "terminated"
    <3>1. chain'[r] # "idle"
      <4>1. chain[r] # "idle" /\ clearPollTimer
        BY <1>0, <2>1, <2>3 DEF StartPending, stop
      <4> QED
        BY <1>0, <4>1 DEF clearPollTimer, TypeOK
    <3>2. state' \in {"terminate", "terminated"}
      BY <2>1, <2>3 DEF stop, terminateNow
    <3> QED
      BY <1>0, <2>3, <3>1, <3>2 DEF StartPending, TypeOK, WorkerStates
  <2> QED
    BY <2>2, <2>3
<1>8. ASSUME NEW t \in Stops, StopStep(t)
      PROVE  [Lifecycle!Next]_state /\ StartPending'
  BY <1>8 DEF StopStep, GraceTimerFires, StopContinues, StopReturns, terminateNow, pollVars,
              StartPending, TypeOK, WorkerStates
<1>9. CASE QuietDirective
  <2>1. chain[r] # "idle" /\ clearPollTimer
    BY <1>0, <1>9 DEF QuietDirective, StartPending
  <2>2. chain'[r] # "idle"
    BY <1>0, <2>1 DEF clearPollTimer, TypeOK
  <2> QED
    BY <1>0, <1>9, <2>2 DEF QuietDirective, StartPending
<1>10. CASE HeartbeatEnds \/ (\E j \in Jobs : LeaseExpires(j)) \/ UNCHANGED vars
  BY <1>10 DEF HeartbeatEnds, LeaseExpires, vars, pollVars, StartPending
<1> QED
  BY <1>1, <1>2, <1>3, <1>4, <1>5, <1>6, <1>7, <1>8, <1>9, <1>10 DEF Next

\* A worker that is started once goes through its states in the order of the
\* README's diagram, whoever stops it and however often.
THEOREM LifecycleFollowed ==
  ASSUME NEW r, Starts = {r}
  PROVE  Spec => FollowsLifecycle
<1>1. Init => Lifecycle!Init /\ StartPending
  BY DEF Init, Lifecycle!Init, StartPending
<1>2. TypeOK /\ StartPending /\ [Next]_vars => [Lifecycle!Next]_state /\ StartPending'
  BY LifecycleStep
<1> QED
  BY <1>1, <1>2, TypeCorrect, PTL DEF Spec, FollowsLifecycle, Lifecycle!Spec

-----------------------------------------------------------------------------
(* What termination leaves behind, and what a stop() waits for *)

\* The timers of the only start(), r, are those the worker has references to;
\* before r has resolved nobody but the worker itself acts, and from stop() on
\* everything r has set up is cleared.
Cleared(r) ==
  /\ beating[r] => heartbeatTimer = r
  /\ listening[r] => signalHandler = r
  /\ chain[r] = "timer" => pollTimer = r
  /\ state # "running" => chain[r] \notin {"timer", "starting"}
  /\ state \in {"terminate", "terminated"} => ~beating[r] /\ ~listening[r]
  /\ chain[r] = "idle" => state = "terminated"
  /\ chain[r] \in {"idle", "starting"} =>
       /\ beatsOut = 0 /\ ~beating[r] /\ ~listening[r]
       /\ \A t \in Stops : stopPhase[t] \in {"idle", "done"}
  /\ \A t \in Stops : stopPhase[t] \in {"waiting", "woken"} => state \in {"terminate", "terminated"}

\* stop() has a start() that has resolved, or nothing to do.
LEMMA StopClears ==
  ASSUME TypeOK, NEW r, Starts = {r}, Cleared(r), ~CallsOverlap, NEW t \in Stops,
         StopCalled(t) \/ SignalArrives(t) \/ TerminateDirective(t)
  PROVE  Cleared(r)'
<1>0. r \in Starts
  OBVIOUS
<1>1. stop(t) /\ beatsOut' \in {beatsOut, beatsOut - 1} /\ (beatsOut = 0 => beatsOut' = 0)
  BY DEF StopCalled, SignalArrives, TerminateDirective
<1>2. chain[r] # "starting"
  BY <1>0 DEF StopCalled, SignalArrives, TerminateDirective, Cleared
<1>3. CASE state = "terminated"
  <2>1. /\ stopPhase' = [stopPhase EXCEPT ![t] = "done"]
        /\ UNCHANGED <<state, chain, pollTimer, beating, heartbeatTimer, listening, signalHandler>>
    BY <1>1, <1>3 DEF stop, pollVars, timerVars
  <2> QED
    BY <1>0, <1>1, <1>2, <1>3, <2>1 DEF Cleared, TypeOK
<1>4. CASE state # "terminated"
  <2>1. clearPollTimer /\ clearHeartbeat /\ removeSignalHandlers
    BY <1>1, <1>4 DEF stop
  <2>2. ~beating'[r] /\ ~listening'[r]
    BY <1>0, <2>1 DEF clearHeartbeat, removeSignalHandlers, Cleared, TypeOK
  <2>3. chain'[r] \notin {"idle", "starting", "timer"}
    BY <1>0, <1>2, <1>4, <2>1 DEF clearPollTimer, Cleared, TypeOK
  <2>4. state' \in {"terminate", "terminated"}
    BY <1>1, <1>4 DEF stop, terminateNow
  <2> QED
    BY <2>2, <2>3, <2>4 DEF Cleared
<1> QED
  BY <1>3, <1>4

LEMMA ClearedStep ==
  ASSUME TypeOK, NEW r, Starts = {r}, Cleared(r), ~CallsOverlap, [Next]_vars
  PROVE  Cleared(r)'
<1>0. r \in Starts
  OBVIOUS
<1>1. CASE StartCalled(r)
  BY <1>0, <1>1 DEF StartCalled, Cleared, TypeOK, timerVars, stopVars
<1>2. CASE StartContinues(r)
  <2>1. state = "running" /\ poll(r)
    BY <1>2 DEF StartContinues, Cleared
  <2>2. /\ chain'[r] \in {"timer", "fetching"}
        /\ chain'[r] = "timer" => pollTimer' = r
    BY <1>0, <2>1 DEF poll, ArmPollTimer, TypeOK
  <2>3. /\ heartbeatTimer' = r /\ (listening'[r] => signalHandler' = r)
        /\ UNCHANGED <<state, beatsOut, stopPhase>>
    BY <1>0, <1>2 DEF StartContinues, Cleared, TypeOK, stopVars
  <2> QED
    BY <1>0, <2>1, <2>2, <2>3 DEF Cleared
<1>3. CASE StartThrows(r)
  <2>1. state = "running" /\ chain'[r] = "ended"
    BY <1>0, <1>3 DEF StartThrows, Cleared, TypeOK
  <2>2. UNCHANGED <<state, beating, heartbeatTimer, listening, signalHandler, beatsOut, stopPhase>>
    BY <1>3 DEF StartThrows, timerVars, stopVars
  <2> QED
    BY <2>1, <2>2 DEF Cleared
<1>4. CASE PollTimerFires(r) \/ FetchEnds(r)
  <2>1. /\ chain[r] \in {"timer", "fetching"}
        /\ poll(r) \/ ScheduleNextPoll(r)
        /\ UNCHANGED <<state, beating, heartbeatTimer, listening, signalHandler, beatsOut, stopPhase>>
    BY <1>4 DEF PollTimerFires, FetchEnds, FetchReturns, FetchFails, timerVars, stopVars
  <2>2. /\ chain'[r] \in {"timer", "fetching", "ended"}
        /\ chain'[r] = "timer" => pollTimer' = r /\ state = "running"
    BY <1>0, <2>1 DEF poll, ScheduleNextPoll, ArmPollTimer, TypeOK
  <2> QED
    BY <2>1, <2>2 DEF Cleared
<1>5. CASE HeartbeatFires(r)
  BY <1>5 DEF HeartbeatFires, Cleared, pollVars, timerVars, stopVars
<1>6. ASSUME NEW j \in Jobs, NEW n \in Numbers,
             HandlerEnds(j, n) \/ TimeoutFires(j, n) \/ ChainStep(j, n)
      PROVE  Cleared(r)'
  <2>1. UNCHANGED <<state, chain, pollTimer, beating, heartbeatTimer, listening, signalHandler,
                    beatsOut>>
    BY <1>6 DEF HandlerEnds, HandlerReturns, HandlerFails, TimeoutFires, ChainStep,
                RetryRequest, AckAnswered, AckGivesUp, CompletedEmitted,
                CompletedEmitThrows, NackAnswered, NackGivesUp, FailedEmitted,
                RejectEnds, pollVars, timerVars
  <2>2. UNCHANGED stopPhase \/ (\E p : finish(j, n, p))
    BY <1>6 DEF HandlerEnds, HandlerReturns, HandlerFails, TimeoutFires, ChainStep,
                RetryRequest, AckAnswered, AckGivesUp, CompletedEmitted,
                CompletedEmitThrows, NackAnswered, NackGivesUp, FailedEmitted,
                RejectEnds, stopVars
  <2>3. \A t \in Stops : stopPhase'[t] = stopPhase[t] \/ (stopPhase[t] = "waiting" /\ stopPhase'[t] = "woken")
    <3>1. CASE UNCHANGED stopPhase
      BY <3>1
    <3>2. CASE \E p : finish(j, n, p)
      BY <3>2 DEF finish, resolveShutdownIfIdle, wake, stopVars, TypeOK
    <3> QED
      BY <2>2, <3>1, <3>2
  <2> QED
    BY <2>1, <2>3 DEF Cleared
<1>7. ASSUME NEW t \in Stops, StopCalled(t) \/ SignalArrives(t) \/ TerminateDirective(t)
      PROVE  Cleared(r)'
  BY <1>7, StopClears
<1>8. ASSUME NEW t \in Stops, StopStep(t)
      PROVE  Cleared(r)'
  <2>1. UNCHANGED <<chain, pollTimer, beating, heartbeatTimer, listening, signalHandler, beatsOut>>
    BY <1>8 DEF StopStep, GraceTimerFires, StopContinues, StopReturns, pollVars, timerVars
  <2>2. CASE terminateNow(t) /\ stopPhase[t] \in {"waiting", "woken"}
    BY <2>1, <2>2 DEF terminateNow, Cleared, TypeOK
  <2>3. CASE UNCHANGED <<state, stopPhase>>
    BY <2>1, <2>3 DEF Cleared
  <2>4. CASE StopReturns(t)
    BY <2>1, <2>4 DEF StopReturns, Cleared, TypeOK
  <2> QED
    BY <1>8, <2>2, <2>3, <2>4 DEF StopStep, GraceTimerFires, StopContinues
<1>9. CASE QuietDirective
  <2>1. /\ clearPollTimer /\ beatsOut # 0 /\ state = "running" /\ state' = "quiet"
        /\ UNCHANGED <<beating, heartbeatTimer, listening, signalHandler, stopPhase>>
    BY <1>9 DEF QuietDirective, timerVars, stopVars
  <2>2. chain'[r] \notin {"idle", "starting", "timer"}
    BY <1>0, <2>1 DEF clearPollTimer, Cleared, TypeOK
  <2> QED
    BY <2>1, <2>2 DEF Cleared
<1>10. CASE HeartbeatEnds
  BY <1>10 DEF HeartbeatEnds, Cleared, pollVars, timerVars, stopVars
<1>11. CASE (\E j \in Jobs : LeaseExpires(j)) \/ UNCHANGED vars
  BY <1>11 DEF LeaseExpires, vars, Cleared, pollVars, timerVars, stopVars
<1> QED
  BY <1>1, <1>2, <1>3, <1>4, <1>5, <1>6, <1>7, <1>8, <1>9, <1>10, <1>11 DEF Next

LEMMA ClearedAlways ==
  ASSUME NEW r, Starts = {r}, ~CallsOverlap
  PROVE  Spec => []Cleared(r)
<1>1. Init => Cleared(r)
  BY DEF Init, Cleared
<1>2. TypeOK /\ Cleared(r) /\ [Next]_vars => Cleared(r)'
  BY ClearedStep
<1> QED
  BY <1>1, <1>2, TypeCorrect, PTL DEF Spec

\* A worker that was started once and is stopped after start() has resolved
\* leaves no interval, signal handler or poll timer behind, whoever stops it
\* and however often (worker.ts:52-57, :293).
THEOREM NothingLeftBehind ==
  ASSUME NEW r, Starts = {r}, ~CallsOverlap
  PROVE  Spec => []TerminatedIsQuiescent
<1>1. Cleared(r) => TerminatedIsQuiescent
  BY DEF Cleared, TerminatedIsQuiescent
<1>2. Spec => []Cleared(r)
  BY ClearedAlways
<1> QED
  BY <1>1, <1>2, PTL

\* The stop() that waits is the one the next idle moment will wake, and there
\* is a job it waits for.
Waits(t) ==
  /\ \A j \in Jobs, n \in Numbers : phase[j][n] = "rejecting" => j \in Unhandled
  /\ stopPhase[t] = "waiting" =>
       state = "terminate" /\ shutdownResolve = t /\ ActiveJobs # {}

\* Deleting the last entry wakes it.
LEMMA FinishWakes ==
  ASSUME TypeOK, NEW t \in Stops, Waits(t), UNCHANGED state,
         NEW j \in Jobs, NEW n \in Numbers, NEW p \in {"settled", "rejected"}, finish(j, n, p)
  PROVE  Waits(t)'
<1>1. \A i \in Jobs, m \in Numbers : phase'[i][m] = "rejecting" => phase[i][m] = "rejecting"
  BY DEF finish, Settle, TypeOK
<1>2. ASSUME stopPhase'[t] = "waiting"
      PROVE  (state = "terminate" /\ shutdownResolve = t /\ ActiveJobs # {})'
  <2>1. stopPhase[t] = "waiting"
    BY <1>2 DEF finish, resolveShutdownIfIdle, wake, stopVars, TypeOK
  <2>2. state = "terminate" /\ shutdownResolve = t
    BY <2>1 DEF Waits
  <2>3. ~\A i \in Jobs : active'[i] = 0
    BY <1>2, <2>1, <2>2 DEF finish, resolveShutdownIfIdle, wake, TypeOK
  <2>4. UNCHANGED shutdownResolve
    BY <2>3 DEF finish, resolveShutdownIfIdle, stopVars
  <2> QED
    BY <2>2, <2>3, <2>4 DEF ActiveJobs
<1> QED
  BY <1>1, <1>2 DEF Waits

\* A step that deletes no entry, changes no stop() and begins no rejection of a
\* job with a handler.
LEMMA WaitGoesOn ==
  ASSUME NEW t, Waits(t), UNCHANGED <<state, stopPhase, shutdownResolve>>,
         ActiveJobs \subseteq ActiveJobs',
         \A j \in Jobs, n \in Numbers :
           phase'[j][n] = "rejecting" => phase[j][n] = "rejecting" \/ j \in Unhandled
  PROVE  Waits(t)'
BY DEF Waits

LEMMA WaitsStep ==
  ASSUME TypeOK, NEW r, Starts = {r}, Cleared(r), NEW t, Stops = {t}, Unhandled = {},
         Waits(t), [Next]_vars
  PROVE  Waits(t)'
<1>0. r \in Starts /\ t \in Stops
  OBVIOUS
<1>1. CASE StartCalled(r)
  <2>1. stopPhase[t] # "waiting"
    BY <1>0, <1>1 DEF StartCalled, Cleared
  <2>2. UNCHANGED <<phase, stopPhase>>
    BY <1>1 DEF StartCalled, execVars, stopVars
  <2> QED
    BY <2>1, <2>2 DEF Waits
<1>2. CASE FetchReturns(r)
  <2>1. PICK P \in SUBSET Jobs : processJobs(P)
    BY <1>2 DEF FetchReturns, Leasable
  <2>2. \A j \in Jobs : active[j] # 0 => active'[j] # 0
    BY <2>1 DEF processJobs, TypeOK
  <2>3. \A j \in Jobs, n \in Numbers :
          phase'[j][n] = "rejecting" => phase[j][n] = "rejecting" \/ j \in Unhandled
    BY <2>1 DEF processJobs, FirstPhase, TypeOK
  <2>4. UNCHANGED <<state, stopPhase, shutdownResolve>>
    BY <1>2 DEF FetchReturns, stopVars
  <2> QED
    BY <2>2, <2>3, <2>4, WaitGoesOn DEF ActiveJobs
<1>3. CASE StartContinues(r) \/ StartThrows(r) \/ PollTimerFires(r) \/ FetchFails(r) \/ HeartbeatFires(r)
  <2>1. UNCHANGED <<state, active, phase, stopPhase, shutdownResolve>>
    BY <1>3 DEF StartContinues, StartThrows, PollTimerFires, FetchFails, HeartbeatFires,
                execVars, stopVars
  <2> QED
    BY <2>1, WaitGoesOn DEF ActiveJobs
<1>4. ASSUME NEW j \in Jobs, NEW n \in Numbers,
             HandlerEnds(j, n) \/ TimeoutFires(j, n) \/ ChainStep(j, n)
      PROVE  Waits(t)'
  <2>1. CASE RejectEnds(j, n)
    BY <2>1 DEF RejectEnds, Waits
  <2>2. CASE CompletedEmitted(j, n) \/ NackGivesUp(j, n) \/ FailedEmitted(j, n)
    <3>1. UNCHANGED state /\ \E p \in {"settled", "rejected"} : finish(j, n, p)
      BY <2>2 DEF CompletedEmitted, NackGivesUp, FailedEmitted
    <3> QED
      BY <1>0, <3>1, FinishWakes
  <2>3. CASE \/ HandlerEnds(j, n) \/ TimeoutFires(j, n) \/ RetryRequest(j, n)
             \/ AckAnswered(j, n) \/ AckGivesUp(j, n) \/ CompletedEmitThrows(j, n)
             \/ NackAnswered(j, n)
    <3>1. UNCHANGED <<state, active, stopPhase, shutdownResolve>>
      BY <2>3 DEF HandlerEnds, HandlerReturns, HandlerFails, TimeoutFires, RetryRequest,
                  AckAnswered, AckGivesUp, CompletedEmitThrows, NackAnswered, stopVars
    <3>2. UNCHANGED phase \/ \E p \in {"acking", "nacking", "completed", "failed"} : Settle(j, n, p)
      BY <2>3 DEF HandlerEnds, HandlerReturns, HandlerFails, TimeoutFires, RetryRequest,
                  AckAnswered, AckGivesUp, CompletedEmitThrows, NackAnswered
    <3>3. \A i \in Jobs, m \in Numbers : phase'[i][m] = "rejecting" => phase[i][m] = "rejecting"
      <4>1. CASE UNCHANGED phase
        BY <4>1
      <4>2. ASSUME NEW p, p # "rejecting", Settle(j, n, p)
            PROVE  \A i \in Jobs, m \in Numbers :
                     phase'[i][m] = "rejecting" => phase[i][m] = "rejecting"
        BY <4>2 DEF Settle, TypeOK
      <4> QED
        BY <3>2, <4>1, <4>2
    <3> QED
      BY <3>1, <3>3, WaitGoesOn DEF ActiveJobs
  <2> QED
    BY <1>4, <2>1, <2>2, <2>3 DEF ChainStep
<1>5. CASE StopCalled(t) \/ SignalArrives(t) \/ TerminateDirective(t)
  <2>1. stop(t)
    BY <1>5 DEF StopCalled, SignalArrives, TerminateDirective
  <2>2. UNCHANGED <<active, phase>>
    BY <2>1 DEF stop
  <2>3. stopPhase'[t] = "waiting" =>
          state' = "terminate" /\ shutdownResolve' = t /\ ActiveJobs # {}
    BY <1>0, <2>1 DEF stop, terminateNow, TypeOK
  <2> QED
    BY <2>2, <2>3 DEF Waits, ActiveJobs
<1>6. CASE StopStep(t)
  <2>1. UNCHANGED <<active, phase, shutdownResolve>>
    BY <1>6 DEF StopStep, GraceTimerFires, StopContinues, StopReturns, execVars
  <2>2. stopPhase'[t] # "waiting" \/ UNCHANGED <<state, stopPhase>>
    BY <1>0, <1>6 DEF StopStep, GraceTimerFires, StopContinues, StopReturns, terminateNow, TypeOK
  <2> QED
    BY <2>1, <2>2 DEF Waits, ActiveJobs
<1>7. CASE QuietDirective
  <2>1. state = "running" /\ UNCHANGED <<active, phase, stopPhase>>
    BY <1>7 DEF QuietDirective, execVars, stopVars
  <2> QED
    BY <2>1 DEF Waits
<1>8. CASE HeartbeatEnds \/ (\E j \in Jobs : LeaseExpires(j)) \/ UNCHANGED vars
  <2>1. UNCHANGED <<state, active, phase, stopPhase, shutdownResolve>>
    BY <1>8 DEF HeartbeatEnds, LeaseExpires, vars, execVars, stopVars
  <2> QED
    BY <2>1, WaitGoesOn DEF ActiveJobs
<1> QED
  BY <1>1, <1>2, <1>3, <1>4, <1>5, <1>6, <1>7, <1>8 DEF Next, FetchEnds

\* A worker that is started and stopped once, and has a handler for each of its
\* jobs, does not wait for the grace period without a job to wait for
\* (worker.ts:268-269, :600-612).
THEOREM WaitsForJobsOnly ==
  ASSUME NEW r, Starts = {r}, NEW t, Stops = {t}, Unhandled = {}, ~CallsOverlap
  PROVE  Spec => []NoIdleWait
<1>1. Init => Waits(t)
  BY DEF Init, Waits
<1>2. TypeOK /\ Cleared(r) /\ Waits(t) /\ [Next]_vars => Waits(t)'
  BY WaitsStep
<1>3. Waits(t) => NoIdleWait
  BY DEF Waits, NoIdleWait
<1>4. Spec => []Cleared(r)
  BY ClearedAlways
<1> QED
  BY <1>1, <1>2, <1>3, <1>4, TypeCorrect, PTL DEF Spec
=============================================================================
